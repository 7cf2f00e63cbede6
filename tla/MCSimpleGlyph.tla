---------------------------- MODULE MCSimpleGlyph ----------------------------
(* Simple glyphs: every point of PointSet alone, in pairs, and those of     *)
(* CorePoints in threes, cut into contours with and without points; every  *)
(* stream complete and followed by the next glyph's bytes, or one byte short. *)
(* And every flag, with all data of one byte and edge data of more.        *)
EXTENDS SimpleGlyph

CONSTANTS EdgeBytes      \* bound: the data bytes of the triplets of four

\* Points as [flag, data]: deltas about 0, 255, 256 and the limits of an i16, on
\* each axis and both, by every length of triplet.
CorePoints == {[flag |-> 0, data |-> <<7>>], [flag |-> 139, data |-> <<255>>],
               [flag |-> 62, data |-> <<51>>],
               [flag |-> 127, data |-> <<127, 255, 64, 0>>],
               [flag |-> 126, data |-> <<64, 1, 127, 255>>]}
PointSet == CorePoints \cup
  {[flag |-> 1, data |-> <<0>>], [flag |-> 3, data |-> <<0>>], [flag |-> 10, data |-> <<255>>],
   [flag |-> 12, data |-> <<0>>], [flag |-> 137, data |-> <<255>>],
   [flag |-> 20, data |-> <<255>>], [flag |-> 87, data |-> <<254, 255>>],
   [flag |-> 119, data |-> <<255, 254>>], [flag |-> 249, data |-> <<15, 240, 255>>],
   [flag |-> 124, data |-> <<128, 0, 0, 1>>], [flag |-> 255, data |-> <<0, 0, 128, 0>>],
   [flag |-> 253, data |-> <<255, 255, 0, 255>>]}

\* The encoded point counts of n points.
Contours(n) == CASE n = 0 -> {<<0>>, <<0, 0>>}
                 [] n = 1 -> {<<1>>, <<0, 1>>, <<1, 0>>, <<255, 0>>, <<253, 255, 255, 1>>}
                 [] n = 2 -> {<<2>>, <<1, 1>>}
                 [] n = 3 -> {<<2, 1>>, <<1, 0, 2>>}

ContourCount(codes) == CASE codes[1] = 253 -> 2 [] codes[1] = 255 -> 1 [] OTHER -> Len(codes)

Next9     == <<0, 64, 0, 0>>       \* a bitmap with the bit of glyph 9
AllButNine == <<255, 191, 255, 255>>

Streams == {"n_points_stream", "flag_stream", "glyph_stream", "instruction_stream", "bbox_stream"}

\* The call for points in contours, with or without its own box and overlap bit and
\* with size bytes of instructions.
CallOf(points, codes, bbox_bitmap, overlap_bitmap, size) ==
  [number_of_contours |-> ContourCount(codes), glyph_index |-> 9, output |-> <<1, 2, 3, 4>>,
   decoder |-> [n_points_stream |-> codes,
                flag_stream |-> [p \in DOMAIN points |-> points[p].flag],
                glyph_stream |-> FlattenSeq([p \in DOMAIN points |-> points[p].data]) \o <<size>>,
                instruction_stream |-> [b \in 1 .. size |-> 200 + b],
                bbox_stream |-> IF bbox_bitmap = Next9 THEN <<0, 1, 255, 2, 0, 3, 1, 4>> ELSE << >>,
                bbox_bitmap |-> bbox_bitmap, overlap_bitmap |-> overlap_bitmap]]

Followed(c) == [c EXCEPT !.decoder = [f \in DOMAIN @ |->
                  IF f \in Streams THEN @[f] \o <<77, 88>> ELSE @[f]]]
Shortened(c) == {[c EXCEPT !.decoder[f] = SubSeq(@, 1, Len(@) - 1)] :
                   f \in {g \in Streams : c.decoder[g] # << >>}}

Alone == UNION {{CallOf(p, codes, bb, ob, size) : codes \in Contours(Len(p)),
                   bb \in {Next9, AllButNine}, ob \in {<< >>, Next9, AllButNine}, size \in {0, 2}} :
                p \in {<< >>} \cup [1 .. 1 -> PointSet]}

Several == UNION {{CallOf(p, codes, AllButNine, << >>, 1) : codes \in Contours(Len(p))} :
                  p \in [1 .. 2 -> PointSet] \cup [1 .. 3 -> CorePoints]}

\* One contour of points of the same flag and the data given: all 256 bytes in
\* sixteens, which stay inside an i16, edge bytes last but for the longest triplets.
OfFlag(f, data) ==
  Followed(CallOf([p \in DOMAIN data |-> [flag |-> f, data |-> data[p]]], <<Len(data)>>,
                  AllButNine, << >>, 0))

Edges == <<0, 1, 15, 16, 127, 128, 255>>
Edge == Range(Edges)

EveryFlag ==
  {OfFlag(f, [b \in 1 .. 16 |-> <<16 * h + b - 1>>]) : f \in 0 .. 83, h \in 0 .. 15}
  \cup {OfFlag(f, [b \in DOMAIN Edges |-> <<a, Edges[b]>>]) : f \in 84 .. 119, a \in Edge}
  \cup {OfFlag(f, [b \in DOMAIN Edges |-> <<a1, a2, Edges[b]>>]) :
          f \in 120 .. 123, a1 \in Edge, a2 \in Edge}
  \cup {OfFlag(f, <<a>>) : f \in 124 .. 127, a \in [1 .. 4 -> EdgeBytes]}

AllCalls == {Followed(c) : c \in Alone \cup Several} \cup UNION {Shortened(c) : c \in Alone}
            \cup EveryFlag
=============================================================================
