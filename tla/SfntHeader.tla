----------------------------- MODULE SfntHeader -----------------------------
(***************************************************************************)
(* TableDirectory::new seen from its caller: the number of tables of a font *)
(* goes in, the search fields of its header come out, or the call panics.  *)
(* Every number of tables a u16 can hold, in either build profile, is an   *)
(* initial state.                                                          *)
(***************************************************************************)
EXTENDS Sfnt

VARIABLES
  checks,       \* whether the library was built with overflow checks
  num_tables,   \* table_records.len()
  progress,     \* "called", then "built" or "panic"
  directory     \* the search fields computed, zeros before

vars == <<checks, num_tables, progress, directory>>

Init == /\ checks \in BOOLEAN /\ num_tables \in 0 .. U16 - 1 /\ progress = "called"
        /\ directory = [search_range |-> 0, entry_selector |-> 0, range_shift |-> 0]

New == /\ progress = "called" /\ ~NewPanics(num_tables, checks)
       /\ progress' = "built"
       /\ directory' = [search_range   |-> search_range(num_tables),
                        entry_selector |-> entry_selector(num_tables),
                        range_shift    |-> range_shift(num_tables)]
       /\ UNCHANGED <<checks, num_tables>>

Panic == /\ progress = "called" /\ NewPanics(num_tables, checks)
         /\ progress' = "panic" /\ UNCHANGED <<checks, num_tables, directory>>

Next == New \/ Panic

Spec == Init /\ [][Next]_vars
-----------------------------------------------------------------------------
\* What the comments at sfnt.rs:36-40 say of the fields, in exact arithmetic.
Exact == LET d == directory
         IN  /\ Pow2[d.entry_selector] <= num_tables
             /\ num_tables < 2 * Pow2[d.entry_selector]
             /\ d.search_range = Pow2[d.entry_selector] * 16
             /\ d.range_shift = num_tables * 16 - d.search_range

\* The most tables for which the byte size of all records fits a u16.
Largest == U16 \div 16 - 1

\* new panics or computes the documented fields for every number of tables from
\* 1 to Largest: it computes them, whatever the build profile.
ExactUpToLargest == num_tables \in 1 .. Largest /\ progress # "called"
                     => progress = "built" /\ Exact

\* With overflow checks no other number of tables gets through: a directory that
\* was built has exact fields.
CheckedMeansExact == checks /\ progress = "built" => Exact

\* sfnt.rs:36-40 documents the fields of any number of tables (floor(log2(0))
\* has no value).
FieldsAsDocumented == progress = "built" /\ num_tables > 0 => Exact
=============================================================================
