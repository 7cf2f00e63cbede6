-------------------------- MODULE SfntHeaderProofs --------------------------
(***************************************************************************)
(* The search fields of an OpenType table directory, for every number of   *)
(* tables, both build profiles and any width of the word they are computed *)
(* in.                                                                     *)
(***************************************************************************)
EXTENDS SfntHeader, SfntProofs

\* An operation overflows exactly outside 1 .. Largest.
LEMMA OverflowsFromLargest ==
  ASSUME NEW n \in 0 .. U16 - 1
  PROVE  Overflows(n) <=> n \notin 1 .. Largest
<1>1. CASE n = 0
  BY <1>1 DEF Overflows
<1>2. CASE n # 0
  <2>1. n \in 1 .. U16 - 1
    BY <1>2, WordWidth
  <2>2. PICK k \in 0 .. WordBits - 1 :
           /\ ShiftAmount(n) = k + 4
           /\ Pow2[k] \in Nat /\ Pow2[k] <= n
           /\ k + 4 < WordBits => search_range(n) = 16 * Pow2[k] /\ (16 * n) % U16 = 16 * n
           /\ n < U16 \div 16 <=> k + 4 < WordBits
    BY <2>1, FieldsOf
  <2>3. n \in 1 .. Largest <=> k + 4 < WordBits
    BY <2>1, <2>2, WordWidth DEF Largest
  <2>4. ASSUME k + 4 < WordBits PROVE ~Overflows(n)
    <3>1. search_range(n) <= (16 * n) % U16 /\ (16 * n) % U16 \in Nat /\ search_range(n) \in Nat
      BY <2>1, <2>2, <2>4
    <3>2. n # 0 /\ ~(ShiftAmount(n) >= WordBits)
      BY <1>2, <2>2, <2>4, WordWidth
    <3> QED BY <3>1, <3>2 DEF Overflows
  <2>5. ASSUME ~(k + 4 < WordBits) PROVE Overflows(n)
    BY <2>2, <2>5, WordWidth DEF Overflows
  <2> QED BY <2>3, <2>4, <2>5
<1> QED BY <1>1, <1>2
-----------------------------------------------------------------------------
(* The call.                                                               *)

CallInv ==
  /\ checks \in BOOLEAN /\ num_tables \in 0 .. U16 - 1
  /\ progress \in {"called", "built", "panic"}
  /\ progress = "built" =>
       /\ ~NewPanics(num_tables, checks)
       /\ directory = [search_range   |-> search_range(num_tables),
                       entry_selector |-> entry_selector(num_tables),
                       range_shift    |-> range_shift(num_tables)]
  /\ progress = "panic" => NewPanics(num_tables, checks)

LEMMA CallInvariance == Spec => []CallInv
<1>1. Init => CallInv
  BY DEF Init, CallInv
<1>2. CallInv /\ [Next]_vars => CallInv'
  <2>1. ASSUME CallInv, New PROVE CallInv'
    BY <2>1 DEF CallInv, New
  <2>2. ASSUME CallInv, Panic PROVE CallInv'
    BY <2>2 DEF CallInv, Panic
  <2>3. ASSUME CallInv, UNCHANGED vars PROVE CallInv'
    BY <2>3 DEF CallInv, vars
  <2> QED BY <2>1, <2>2, <2>3 DEF Next
<1> QED BY <1>1, <1>2, PTL DEF Spec

LEMMA BuiltIsExact ==
  ASSUME CallInv, progress = "built", num_tables \in 1 .. Largest
  PROVE  Exact
<1>1. num_tables \in 1 .. U16 - 1 /\ num_tables < U16 \div 16
  BY WordWidth DEF CallInv, Largest
<1>2. PICK k \in 0 .. WordBits - 1 :
         /\ entry_selector(num_tables) = k
         /\ Pow2[k] \in Nat /\ Pow2[k] <= num_tables /\ num_tables < 2 * Pow2[k]
         /\ search_range(num_tables) = 16 * Pow2[k]
         /\ range_shift(num_tables) = 16 * num_tables - search_range(num_tables)
  BY <1>1, FieldsOf
<1> QED BY <1>1, <1>2 DEF CallInv, Exact

\* From one to Largest tables the search fields are those of the specification
\* and new does not panic, in either build profile.
THEOREM ExactFields == Spec => []ExactUpToLargest
<1>1. CallInv => ExactUpToLargest
  <2> SUFFICES ASSUME CallInv, num_tables \in 1 .. Largest, progress # "called"
               PROVE  progress = "built" /\ Exact
    BY DEF ExactUpToLargest
  <2>1. ~NewPanics(num_tables, checks)
    BY OverflowsFromLargest, WordWidth DEF CallInv, NewPanics
  <2> QED BY <2>1, BuiltIsExact DEF CallInv
<1> QED BY <1>1, CallInvariance, PTL

\* With overflow checks no other number of tables yields a directory.
THEOREM CheckedFields == Spec => []CheckedMeansExact
<1>1. CallInv => CheckedMeansExact
  <2> SUFFICES ASSUME CallInv, checks, progress = "built" PROVE Exact
    BY DEF CheckedMeansExact
  <2>1. num_tables \in 1 .. Largest
    BY OverflowsFromLargest DEF CallInv, NewPanics
  <2> QED BY <2>1, BuiltIsExact
<1> QED BY <1>1, CallInvariance, PTL
=============================================================================
