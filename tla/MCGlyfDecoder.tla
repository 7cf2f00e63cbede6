---------------------------- MODULE MCGlyfDecoder ----------------------------
(* Small transformed glyf tables: every list of at most MaxGlyphs glyphs of *)
(* the kinds below, in both loca formats and with or without an overlap    *)
(* bitmap; shorter lists with one stream short or too long or a header that *)
(* does not fit; and tables at the limits of the integers.                 *)
EXTENDS GlyfDecoder

CONSTANTS MaxGlyphs      \* bound: glyphs in a list

\* What a glyph contributes to each stream, and its bit of the box bitmap.
Kind(contours, points, flags, data, components, box, instructions) ==
  [contours |-> contours, points |-> points, flags |-> flags, data |-> data,
   components |-> components, box |-> box, instructions |-> instructions]

Box(n) == <<255, n, 1, n, 0, 3, 2, n>>

Empty    == Kind(<<0, 0>>, << >>, << >>, << >>, << >>, << >>, << >>)
EmptyBox == [Empty EXCEPT !.box = Box(1)]
Dot      == Kind(<<0, 1>>, <<1>>, <<13>>, <<0, 0>>, << >>, << >>, << >>)
NoPoints == Kind(<<0, 1>>, <<0>>, << >>, <<0>>, << >>, << >>, << >>)
Corner   == Kind(<<0, 2>>, <<2, 1>>, <<10, 139, 126>>, <<7, 255, 64, 1, 128, 2, 3>>,
                 << >>, Box(9), <<21, 22, 23>>)
Accent   == Kind(<<255, 255>>, << >>, << >>, << >>, <<0, 2, 0, 1, 5, 6>>, Box(4), << >>)
Scaled   == Kind(<<128, 0>>, << >>, << >>, <<1>>,
                 <<1, 41, 0, 1, 5, 6, 7, 8, 9, 9,  0, 96, 0, 2, 1, 2, 8, 7, 6, 5,
                   0, 232, 0, 3, 3, 4, 4, 4,  0, 128, 0, 4, 1, 2, 1, 2, 3, 4, 5, 6, 7, 8>>,
                 Box(5), <<31>>)
NoBox    == [Accent EXCEPT !.box = << >>]

Kinds == {Empty, Dot, NoPoints, Corner, Accent, Scaled, EmptyBox, NoBox}

Join(gs, field) == FlattenSeq([g \in DOMAIN gs |-> gs[g][field]])

\* The bitmap, in whole words, of the glyphs whose bit is set.
Bitmap(n, bits) ==
  [b \in 1 .. bit_stream_byte_length(n) |->
     SumOf([i \in 1 .. 8 |-> IF 8 * (b - 1) + i \in bits THEN 2 ^ (8 - i) ELSE 0])]

\* The parts of a table, in the order of its body.
Parts(gs, long, overlap) ==
  [option |-> IF overlap = {} THEN 0 ELSE 1, num_glyphs |-> Len(gs), format |-> long,
   streams |-> <<Join(gs, "contours"), Join(gs, "points"), Join(gs, "flags"), Join(gs, "data"),
                 Join(gs, "components"),
                 Bitmap(Len(gs), {g \in DOMAIN gs : gs[g].box # << >>}), Join(gs, "box"),
                 Join(gs, "instructions"),
                 IF overlap = {} THEN << >> ELSE Bitmap(Len(gs), overlap)>>]

Table(p) ==
  LET size(s) == BigEndian32(Len(p.streams[s]))
  IN  <<0, 0, 0, p.option>> \o BigEndian16(p.num_glyphs) \o <<0, p.format>>
        \o size(1) \o size(2) \o size(3) \o size(4) \o size(5)
        \o BigEndian32(Len(p.streams[6]) + Len(p.streams[7])) \o size(8)
        \o FlattenSeq(p.streams)

Lists(max) == UNION {[1 .. n -> Kinds] : n \in 0 .. max}

Sound == {Table(Parts(gs, 1, {})) : gs \in Lists(MaxGlyphs)}
         \cup {Table(Parts(gs, long, overlap)) :
                 gs \in Lists(MaxGlyphs - 1), long \in {0, 1}, overlap \in {{}, {1, 3}}}

\* One stream a byte short or long, or the whole table.
Unsound == UNION {
  LET p     == Parts(gs, 0, {})
      whole == Table(p)
      data  == {1, 2, 3, 4, 5, 7, 8}
  IN  {Table([p EXCEPT !.streams[s] = SubSeq(@, 1, Len(@) - 1)]) :
         s \in {d \in data : p.streams[d] # << >>}}
      \cup {Table([p EXCEPT !.streams[s] = Append(@, 1)]) : s \in data}
      \cup {Append(whole, 0), SubSeq(whole, 1, Len(whole) - 1), SubSeq(whole, 1, 35)} :
  gs \in Lists(MaxGlyphs - 1)}

\* A glyph in the second word of the bitmaps, a number of glyphs whose successor is
\* no u16, and offsets on both sides of the limit of 256 for OffsetValues = 128.
Repeated(g, n) == [i \in 1 .. n |-> g]
Long(n) == [Scaled EXCEPT !.components = <<1, 0, 0, 1, 5, 6>>,
                          !.data = <<n>>, !.instructions = Repeated(7, n)]
Limits ==
  {Table(Parts(Append(Repeated(Empty, 32), Scaled), 0, {33})),
   Table([Parts(<< >>, 0, {}) EXCEPT !.num_glyphs = 65535, !.streams[6] = Repeated(0, 8192)]),
   Table([Parts(<<Empty>>, 0, {}) EXCEPT !.num_glyphs = 65535, !.streams[6] = << >>])}
  \cup {Table(Parts(<<Long(100), Long(n), Empty>>, long, {})) :
          n \in {114, 118}, long \in {0, 1}}

AllTables == Sound \cup Unsound \cup Limits
=============================================================================
