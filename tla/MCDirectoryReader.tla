-------------------------- MODULE MCDirectoryReader --------------------------
(* Directories of at most MaxTables entries: each of a few flags and tags   *)
(* with lengths that are short, at the limits of the encoding or malformed; *)
(* whole, cut after every byte, followed by another byte, and announced as  *)
(* one table more or fewer; and one entry more with the greatest lengths.  *)
EXTENDS DirectoryReader, SequencesExt

CONSTANTS MaxTables      \* bound: entries in a directory of all of them

MCFourCC(bytes) == CASE bytes = <<1, 1, 1, 1>> -> "glyf"
                     [] bytes = <<1, 2, 1, 1>> -> "head" [] OTHER -> "priv"

\* cmap, glyf, loca and spelled tags with every transformation version that matters.
Tags == {<<0>>, <<Quarter>>, <<10>>, <<3 * Quarter + 10>>, <<2 * Quarter + 11>>,
         <<3 * Quarter + 11>>, <<4 * Quarter - 1, 1, 1, 1, 1>>, <<Quarter - 1, 1, 1, 1, 1>>,
         <<Quarter - 1, 1, 2, 1, 1>>}

\* 5, 64, the greatest u32; one past it, a leading zero, six bytes.
Short   == <<5>>
Long    == <<65, 0>>
Largest == <<79, 127, 127, 127, 63>>
Sound   == {Short, Long, Largest, <<65, 64, 1>>}
Unsound == {<<80, 64, 64, 64, 0>>, <<64, 1>>, <<65, 64, 64, 64, 64, 0>>}

Entries(tags, firsts, seconds) ==
  {t \o f \o IF Transforms(t) THEN s ELSE << >> : t \in tags, f \in firsts, s \in seconds}

Directory(bytes, n) == [bytes |-> bytes, num_tables |-> n]

Alone == Entries(Tags, Sound \cup Unsound, Sound \cup Unsound)
Lists == UNION {[1 .. n -> Entries(Tags, {Short, Largest}, {Long, Largest})] : n \in 2 .. MaxTables}

\* One entry more, whose offset may have wrapped.
Wrapping == [1 .. MaxTables + 1 -> Entries({<<0>>, <<10>>}, {Short, Largest}, {Long, Largest})]

Whole == {Directory(e, 1) : e \in Alone} \cup {Directory(FlattenSeq(l), Len(l)) : l \in Lists \cup Wrapping}
Cut   == UNION {{Directory(SubSeq(e, 1, n), 1) : n \in 0 .. Len(e) - 1} : e \in Alone}
Other == UNION {{Directory(e, 2), Directory(e \o <<3>>, 1), Directory(e, 0)} : e \in Alone}

AllDirectories == Whole \cup Cut \cup Other
=============================================================================
