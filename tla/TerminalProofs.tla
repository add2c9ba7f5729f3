--------------------------- MODULE TerminalProofs ---------------------------
(***************************************************************************)
(* Proofs about the display and the typing loop, for screens, lines and    *)
(* buffers of any size and commands of any length that the screen has room *)
(* for: until the full buffer ignores a character, every index of the      *)
(* driver stays in its array, the cursor stands at the end of the last     *)
(* line whenever it is viewable, the screen shows the buffer, and the last *)
(* text in it ends with the prompt and the command.                        *)
(***************************************************************************)
EXTENDS Terminal, LinearScanProofs, SequenceTheorems

-----------------------------------------------------------------------------
(* Printing a string.                                                      *)

\* The display after each character: what the loop of puts goes through.
Printing(f, str, g) ==
    g = [n \in 0 .. Len(str) |-> IF n = 0 THEN f ELSE handle_new_char(g[n - 1], str[n])]

\* The loop goes through something: a longer string goes on from a shorter one.
LEMMA PrintingExists ==
    ASSUME NEW S, NEW f, NEW str \in Seq(S)
    PROVE  \E g : Printing(f, str, g)
<1> DEFINE Upto(n, g) ==
             /\ g = [i \in 0 .. n |-> g[i]]
             /\ g[0] = f
             /\ \A i \in 1 .. n : g[i] = handle_new_char(g[i - 1], str[i])
           T == {n \in 0 .. Len(str) : ~ \E g : Upto(n, g)}
<1>0. Len(str) \in Nat
  OBVIOUS
<1>1. T = {}
  <2> SUFFICES ASSUME T # {} PROVE FALSE
    OBVIOUS
  <2>1. T \in SUBSET Nat
    BY <1>0
  <2>2. PICK n \in T : IsFirst(T, n)
    BY <2>1, LeastMember
  <2>3. n \in Nat /\ n \in 0 .. Len(str) /\ ~ \E g : Upto(n, g)
    BY <2>1
  <2>4. CASE n = 0
    <3> DEFINE g == [i \in 0 .. 0 |-> f]
    <3>1. Upto(0, g)
      OBVIOUS
    <3> QED BY <2>3, <2>4, <3>1
  <2>5. CASE n # 0
    <3>1. n - 1 \in 0 .. Len(str) /\ n - 1 \in Nat
      BY <2>3, <2>5
    <3>2. n - 1 \notin T
      BY <2>2, <2>3, <3>1 DEF IsFirst
    <3>3. PICK h : Upto(n - 1, h)
      BY <3>1, <3>2
    <3> DEFINE g == [i \in 0 .. n |-> IF i = n THEN handle_new_char(h[n - 1], str[n]) ELSE h[i]]
    <3>4. g = [i \in 0 .. n |-> g[i]] /\ g[0] = f
      BY <2>3, <2>5, <3>3
    <3>5. ASSUME NEW i \in 1 .. n PROVE g[i] = handle_new_char(g[i - 1], str[i])
      <4>1. g[i - 1] = h[i - 1]
        BY <2>3
      <4>2. CASE i = n
        BY <4>1, <4>2, <2>3
      <4>3. CASE i # n
        <5>1. i \in 1 .. n - 1
          BY <2>3, <4>3
        <5>2. h[i] = handle_new_char(h[i - 1], str[i])
          BY <3>3, <5>1
        <5>3. g[i] = h[i]
          BY <2>3, <4>3
        <5> QED BY <4>1, <5>2, <5>3
      <4> QED BY <4>2, <4>3
    <3> HIDE DEF g
    <3>6. Upto(n, g)
      BY <3>4, <3>5
    <3> HIDE DEF Upto
    <3> QED BY <2>3, <3>6
  <2> QED BY <2>4, <2>5
<1>2. PICK g : Upto(Len(str), g)
  <2>1. Len(str) \in 0 .. Len(str)
    BY <1>0
  <2>2. Len(str) \notin T
    <3> HIDE DEF T
    <3> QED BY <1>1
  <2> HIDE DEF Upto
  <2> QED BY <2>1, <2>2
<1>3. g = [n \in 0 .. Len(str) |-> IF n = 0 THEN f ELSE handle_new_char(g[n - 1], str[n])]
  <2> DEFINE G == [n \in 0 .. Len(str) |-> IF n = 0 THEN f ELSE handle_new_char(g[n - 1], str[n])]
  <2>1. ASSUME NEW n \in 0 .. Len(str) PROVE g[n] = G[n]
    <3>1. CASE n = 0
      BY <1>2, <3>1
    <3>2. CASE n # 0
      <4>1. n \in 1 .. Len(str)
        BY <1>0, <3>2
      <4>2. g[n] = handle_new_char(g[n - 1], str[n])
        BY <1>2, <4>1
      <4> QED BY <3>2, <4>2
    <3> QED BY <3>1, <3>2
  <2>2. g = [n \in 0 .. Len(str) |-> g[n]]
    BY <1>2
  <2>3. [n \in 0 .. Len(str) |-> g[n]] = [n \in 0 .. Len(str) |-> G[n]]
    BY <2>1
  <2>4. G = [n \in 0 .. Len(str) |-> G[n]]
    OBVIOUS
  <2> HIDE DEF G
  <2>5. g = G
    BY <2>2, <2>3, <2>4
  <2> QED BY <2>5 DEF G
<1> QED BY <1>3 DEF Printing

\* puts returns the last display of the loop.
LEMMA PutsPrints ==
    ASSUME NEW S, NEW f, NEW str \in Seq(S)
    PROVE  \E g : Printing(f, str, g) /\ puts(f, str) = g[Len(str)]
<1>1. \E g : Printing(f, str, g)
  BY PrintingExists
<1> DEFINE c == CHOOSE g : Printing(f, str, g)
<1>2. Printing(f, str, c)
  BY <1>1, Zenon
<1>3. puts(f, str) = c[Len(str)]
  BY Zenon DEF puts, Printing
<1> QED BY <1>2, <1>3

-----------------------------------------------------------------------------
(* The display while it is in order.                                       *)

Fields == {"buffer", "size", "cursor_row", "cursor_col", "frame_row_pointer",
           "is_cursor_viewable", "screen", "dropped"}

\* The driver's globals hold values of their types.
IsDisplay(f) ==
    /\ DOMAIN f = Fields
    /\ f.buffer \in [Lines -> Seq(Glyphs)]
    /\ f.size \in Int /\ f.cursor_row \in Int /\ f.cursor_col \in Int
    /\ f.frame_row_pointer \in Int
    /\ f.is_cursor_viewable \in BOOLEAN

\* The lines are not longer than a row, there are none past the last, and the
\* cursor is at the end of the last.
LinesInOrder(f) ==
    /\ f.size \in 1 .. BUFFER_MAX_HEIGHT
    /\ f.cursor_col \in LineCols
    /\ \A l \in Lines : Len(f.buffer[l]) <= BUFFER_WIDTH_VIEW
    /\ \A l \in Lines : l >= f.size => f.buffer[l] = EmptyLine
    /\ f.cursor_col = Len(f.buffer[f.size - 1])

\* The window shows the last line with the cursor, or the user looks at older
\* lines and the cursor waits in the bottom row.
WindowInOrder(f) ==
    /\ f.cursor_row \in ScreenRows
    /\ f.frame_row_pointer \in 0 .. f.size - 1
    /\ f.is_cursor_viewable => Line(f) = f.size - 1
    /\ ~f.is_cursor_viewable =>
          /\ f.cursor_row = BUFFER_HEIGHT_VIEW - 1
          /\ f.frame_row_pointer + BUFFER_HEIGHT_VIEW < f.size

InOrder(f) == IsDisplay(f) /\ ~f.dropped /\ LinesInOrder(f) /\ WindowInOrder(f)

\* A character was ignored.
HasDropped(f) == "dropped" \in DOMAIN f /\ f.dropped

\* What the fields of r are after a change of the view of f.
ViewOf(f, r) ==
    /\ DOMAIN r = DOMAIN f
    /\ r.buffer = f.buffer /\ r.size = f.size /\ r.cursor_col = f.cursor_col
    /\ r.is_cursor_viewable = f.is_cursor_viewable /\ r.dropped = f.dropped
    /\ IF f.cursor_row < 0
       THEN r.cursor_row = 0 /\ r.frame_row_pointer = f.frame_row_pointer - 1
       ELSE IF f.cursor_row >= BUFFER_HEIGHT_VIEW
       THEN r.cursor_row = BUFFER_HEIGHT_VIEW - 1 /\ r.frame_row_pointer = f.frame_row_pointer + 1
       ELSE r.cursor_row = f.cursor_row /\ r.frame_row_pointer = f.frame_row_pointer

\* What new_frame_buffer_view changes besides the screen.
LEMMA NewView ==
    ASSUME NEW f, DOMAIN f = Fields, NEW change \in BOOLEAN
    PROVE  ViewOf(f, new_frame_buffer_view(f, change))
BY DEF ViewOf, new_frame_buffer_view, Redraw, Fields

\* It brings a cursor one row off the screen back, on the same line.
LEMMA ViewFacts ==
    ASSUME NEW f, NEW r, ViewOf(f, r), IsDisplay(f)
    PROVE  IsDisplay(r) /\ (f.cursor_row \in -1 .. BUFFER_HEIGHT_VIEW =>
                              Line(r) = Line(f) /\ r.cursor_row \in ScreenRows)
<1>1. IsDisplay(r)
  <2>1. r.cursor_row \in Int /\ r.frame_row_pointer \in Int
    BY DisplayAssumption DEF ViewOf, IsDisplay
  <2> QED BY <2>1 DEF ViewOf, IsDisplay
<1>2. ASSUME f.cursor_row \in -1 .. BUFFER_HEIGHT_VIEW
      PROVE  Line(r) = Line(f) /\ r.cursor_row \in ScreenRows
  <2>1. /\ f.cursor_row \in Int /\ f.frame_row_pointer \in Int
        /\ BUFFER_HEIGHT_VIEW \in Nat /\ BUFFER_HEIGHT_VIEW > 0
    BY DisplayAssumption DEF IsDisplay
  <2>2. CASE f.cursor_row < 0
    <3>1. r.cursor_row = 0 /\ r.frame_row_pointer = f.frame_row_pointer - 1
      BY <2>2 DEF ViewOf
    <3>2. f.cursor_row = -1
      BY <1>2, <2>1, <2>2
    <3> QED BY <2>1, <3>1, <3>2 DEF Line, ScreenRows
  <2>3. CASE f.cursor_row >= BUFFER_HEIGHT_VIEW
    <3>1. /\ r.cursor_row = BUFFER_HEIGHT_VIEW - 1
          /\ r.frame_row_pointer = f.frame_row_pointer + 1
      BY <2>1, <2>3 DEF ViewOf
    <3>2. f.cursor_row = BUFFER_HEIGHT_VIEW
      BY <1>2, <2>1, <2>3
    <3> QED BY <2>1, <3>1, <3>2 DEF Line, ScreenRows
  <2>4. CASE ~(f.cursor_row < 0) /\ ~(f.cursor_row >= BUFFER_HEIGHT_VIEW)
    BY <1>2, <2>1, <2>4 DEF ViewOf, Line, ScreenRows
  <2> QED BY <2>2, <2>3, <2>4
<1> QED BY <1>1, <1>2

\* The numbers of a display in order.
LEMMA OrderFacts ==
    ASSUME NEW f, InOrder(f)
    PROVE  /\ BUFFER_WIDTH_VIEW \in Nat /\ BUFFER_WIDTH_VIEW >= 1
           /\ BUFFER_HEIGHT_VIEW \in Nat /\ BUFFER_HEIGHT_VIEW >= 1
           /\ BUFFER_MAX_HEIGHT \in Nat /\ BUFFER_HEIGHT_VIEW < BUFFER_MAX_HEIGHT
           /\ f.size \in Nat /\ f.size >= 1 /\ f.size <= BUFFER_MAX_HEIGHT
           /\ f.cursor_row \in Nat /\ f.cursor_row < BUFFER_HEIGHT_VIEW
           /\ f.cursor_col \in Nat /\ f.cursor_col < BUFFER_WIDTH_VIEW
           /\ f.frame_row_pointer \in Nat /\ f.frame_row_pointer < f.size
           /\ f.is_cursor_viewable => f.cursor_row + f.frame_row_pointer = f.size - 1
           /\ f.size - 1 \in Lines
           /\ f.cursor_col = Len(f.buffer[f.size - 1])
           /\ IsDisplay(f) /\ ~f.dropped
<1>1. /\ BUFFER_WIDTH_VIEW \in Nat /\ BUFFER_WIDTH_VIEW >= 1
      /\ BUFFER_HEIGHT_VIEW \in Nat /\ BUFFER_HEIGHT_VIEW >= 1
      /\ BUFFER_MAX_HEIGHT \in Nat /\ BUFFER_HEIGHT_VIEW < BUFFER_MAX_HEIGHT
  BY DisplayAssumption
<1>2. IsDisplay(f) /\ ~f.dropped /\ f.cursor_col = Len(f.buffer[f.size - 1])
  BY DEF InOrder, LinesInOrder
<1>3. f.size \in Nat /\ f.size >= 1 /\ f.size <= BUFFER_MAX_HEIGHT
  BY <1>1 DEF InOrder, LinesInOrder
<1>4. f.cursor_row \in Nat /\ f.cursor_row < BUFFER_HEIGHT_VIEW
  <2>1. f.cursor_row \in ScreenRows
    BY DEF InOrder, WindowInOrder
  <2> QED BY <1>1, <2>1 DEF ScreenRows
<1>5. f.cursor_col \in Nat /\ f.cursor_col < BUFFER_WIDTH_VIEW
  <2>1. f.cursor_col \in LineCols
    BY DEF InOrder, LinesInOrder
  <2> QED BY <1>1, <2>1 DEF LineCols
<1>6. f.frame_row_pointer \in Nat /\ f.frame_row_pointer < f.size
  <2>1. f.frame_row_pointer \in 0 .. f.size - 1
    BY DEF InOrder, WindowInOrder
  <2> QED BY <1>3, <2>1
<1>7. f.is_cursor_viewable => f.cursor_row + f.frame_row_pointer = f.size - 1
  BY DEF InOrder, WindowInOrder, Line
<1>8. f.size - 1 \in Lines
  BY <1>1, <1>3 DEF Lines
<1> QED BY <1>1, <1>2, <1>3, <1>4, <1>5, <1>6, <1>7, <1>8

\* A newline begins a line.
LEMMA NewlineInOrder ==
    ASSUME NEW f, InOrder(f), f.is_cursor_viewable
    PROVE  LET r == put_newline(f)
           IN  HasDropped(r) \/ (InOrder(r) /\ r.is_cursor_viewable)
<1> DEFINE r == put_newline(f)
           l == Line(f) + 1
<1>1. /\ IsDisplay(f) /\ ~f.dropped /\ f.size \in 1 .. BUFFER_MAX_HEIGHT /\ Line(f) = f.size - 1
      /\ f.cursor_row \in ScreenRows /\ f.frame_row_pointer \in 0 .. f.size - 1
      /\ BUFFER_MAX_HEIGHT \in Nat /\ BUFFER_HEIGHT_VIEW \in Nat \ {0}
      /\ BUFFER_WIDTH_VIEW \in Nat \ {0}
  BY DisplayAssumption DEF InOrder, LinesInOrder, WindowInOrder
<1>2. CASE Line(f) >= BUFFER_MAX_HEIGHT - 1
  BY <1>1, <1>2 DEF put_newline, HasDropped, IsDisplay, Fields
<1>3. CASE ~(Line(f) >= BUFFER_MAX_HEIGHT - 1)
  <2> DEFINE g == [f EXCEPT !.cursor_row = @ + 1,
                            !.buffer[l] = EmptyLine,
                            !.size = IF l < @ THEN @ ELSE @ + 1]
             v == new_frame_buffer_view(g, TRUE)
  <2>1. r = [v EXCEPT !.cursor_col = 0]
    BY <1>3 DEF put_newline
  <2>2. l = f.size /\ l \in Lines /\ f.buffer[l] = EmptyLine
    <3>1. /\ \A k \in Lines : k >= f.size => f.buffer[k] = EmptyLine
          /\ f.size \in Nat /\ BUFFER_MAX_HEIGHT \in Nat /\ Line(f) = f.size - 1
      BY <1>1 DEF InOrder, LinesInOrder
    <3>2. l = f.size /\ l \in Lines
      BY <1>3, <3>1 DEF Lines
    <3> QED BY <3>1, <3>2
  <2>3. [f.buffer EXCEPT ![l] = EmptyLine] = f.buffer
    BY <1>1, <2>2 DEF IsDisplay
  <2>4. /\ DOMAIN g = Fields /\ g.cursor_row = f.cursor_row + 1
        /\ g.buffer = f.buffer /\ g.size = f.size + 1
        /\ g.cursor_col = f.cursor_col /\ g.frame_row_pointer = f.frame_row_pointer
        /\ g.is_cursor_viewable = f.is_cursor_viewable /\ g.dropped = f.dropped
    <3>1. DOMAIN g = Fields
      BY <1>1 DEF IsDisplay
    <3>2. g.cursor_row = f.cursor_row + 1 /\ g.cursor_col = f.cursor_col
      BY <1>1 DEF IsDisplay, Fields
    <3>3. g.buffer = f.buffer
      BY <1>1, <2>3 DEF IsDisplay, Fields
    <3>4. g.size = f.size + 1
      BY <1>1, <2>2 DEF IsDisplay, Fields
    <3>5. g.frame_row_pointer = f.frame_row_pointer
      BY <1>1 DEF IsDisplay, Fields
    <3>6. g.is_cursor_viewable = f.is_cursor_viewable /\ g.dropped = f.dropped
      BY <1>1 DEF IsDisplay, Fields
    <3> QED BY <3>1, <3>2, <3>3, <3>4, <3>5, <3>6
  <2> HIDE DEF g, l
  <2>5. ViewOf(g, v)
    BY <2>4, NewView
  <2> HIDE DEF v
  <2>6. /\ DOMAIN r = Fields /\ r.buffer = f.buffer /\ r.size = f.size + 1
        /\ r.cursor_col = 0 /\ r.is_cursor_viewable /\ ~r.dropped
        /\ r.cursor_row = v.cursor_row /\ r.frame_row_pointer = v.frame_row_pointer
    BY <1>1, <2>1, <2>4, <2>5 DEF ViewOf, Fields
  <2> HIDE DEF r
  <2>7. /\ r.cursor_row \in ScreenRows
        /\ r.frame_row_pointer \in 0 .. f.size
        /\ r.cursor_row + r.frame_row_pointer = f.size
    <3>1. IsDisplay(g)
      BY <1>1, <2>4 DEF IsDisplay
    <3>2. g.cursor_row \in -1 .. BUFFER_HEIGHT_VIEW
      BY <1>1, <2>4 DEF ScreenRows
    <3>3. Line(v) = Line(g) /\ v.cursor_row \in ScreenRows
      BY <2>5, <3>1, <3>2, ViewFacts
    <3>4. Line(g) = f.size
      BY <1>1, <2>4 DEF Line, IsDisplay
    <3>5. v.frame_row_pointer \in {f.frame_row_pointer, f.frame_row_pointer + 1}
      BY <1>1, <2>4, <2>5 DEF ViewOf, ScreenRows
    <3> QED BY <1>1, <2>6, <3>3, <3>4, <3>5 DEF Line
  <2>8. IsDisplay(r)
    BY <1>1, <2>6, <2>7 DEF IsDisplay, ScreenRows
  <2>9. LinesInOrder(r)
    <3>1. r.size \in 1 .. BUFFER_MAX_HEIGHT /\ r.size - 1 = l
      BY <1>1, <1>3, <2>2, <2>6
    <3>2. r.cursor_col = Len(r.buffer[r.size - 1])
      BY <2>2, <2>6, <3>1 DEF EmptyLine
    <3>3. \A k \in Lines : k >= r.size => r.buffer[k] = EmptyLine
      BY <1>1, <2>6 DEF InOrder, LinesInOrder, Lines
    <3>4. r.cursor_col \in LineCols
      BY <1>1, <2>6 DEF LineCols
    <3> QED BY <2>6, <3>1, <3>2, <3>3, <3>4 DEF InOrder, LinesInOrder
  <2>10. WindowInOrder(r)
    BY <1>1, <2>6, <2>7 DEF WindowInOrder, Line
  <2> QED BY <2>6, <2>8, <2>9, <2>10 DEF InOrder, r
<1> QED BY <1>2, <1>3

\* A glyph in a line that has room goes to its end.
LEMMA GlyphStays ==
    ASSUME NEW f, NEW c \in Glyphs, InOrder(f), f.is_cursor_viewable,
           f.cursor_col + 1 < BUFFER_WIDTH_VIEW
    PROVE  LET r == put_glyph(f, c)
           IN  /\ DOMAIN r = Fields /\ ~r.dropped /\ r.is_cursor_viewable
               /\ r.buffer = [f.buffer EXCEPT ![f.size - 1] = Append(@, c)]
               /\ r.size = f.size /\ r.cursor_col = f.cursor_col + 1
               /\ r.cursor_row = f.cursor_row /\ r.frame_row_pointer = f.frame_row_pointer
<1> DEFINE r == put_glyph(f, c)
           l == Line(f)
           g == [f EXCEPT !.screen[f.cursor_row][f.cursor_col] = c,
                          !.buffer[l] = IF f.cursor_col < Len(@)
                                        THEN [@ EXCEPT ![f.cursor_col + 1] = c]
                                        ELSE Append(@, c)]
           h == [g EXCEPT !.cursor_col = @ + 1]
<1>1. /\ IsDisplay(f) /\ ~f.dropped /\ l = f.size - 1 /\ l \in Lines
      /\ f.cursor_col = Len(f.buffer[l]) /\ f.cursor_row \in ScreenRows
  BY OrderFacts DEF InOrder, WindowInOrder
<1>2. r = new_frame_buffer_view(h, FALSE)
  BY DEF put_glyph
<1>3. /\ DOMAIN h = Fields /\ h.cursor_row = f.cursor_row /\ h.size = f.size
      /\ h.frame_row_pointer = f.frame_row_pointer
      /\ h.is_cursor_viewable = f.is_cursor_viewable /\ h.dropped = f.dropped
  BY <1>1 DEF IsDisplay, Fields
<1>4. h.cursor_col = f.cursor_col + 1
  BY <1>1 DEF IsDisplay, Fields
<1>5. h.buffer = [f.buffer EXCEPT ![l] = Append(@, c)]
  <2>1. ~(f.cursor_col < Len(f.buffer[l]))
    BY <1>1 DEF IsDisplay
  <2>2. g.buffer = [f.buffer EXCEPT ![l] = Append(@, c)]
    BY <1>1, <2>1 DEF IsDisplay, Fields
  <2> QED BY <1>1, <2>2 DEF IsDisplay, Fields
<1> HIDE DEF h
<1>6. ViewOf(h, r)
  BY <1>2, <1>3, NewView
<1> HIDE DEF r
<1>7. r.cursor_row = f.cursor_row /\ r.frame_row_pointer = f.frame_row_pointer
  <2>1. ~(h.cursor_row < 0) /\ ~(h.cursor_row >= BUFFER_HEIGHT_VIEW)
    BY <1>1, <1>3, DisplayAssumption DEF ScreenRows
  <2> QED BY <1>3, <1>6, <2>1 DEF ViewOf
<1>8. /\ DOMAIN r = Fields /\ ~r.dropped /\ r.is_cursor_viewable /\ r.size = f.size
      /\ r.cursor_col = f.cursor_col + 1
  BY <1>1, <1>3, <1>4, <1>6 DEF ViewOf
<1>9. r.buffer = [f.buffer EXCEPT ![f.size - 1] = Append(@, c)]
  BY <1>1, <1>5, <1>6 DEF ViewOf
<1> QED BY <1>7, <1>8, <1>9 DEF r

\* A glyph in the last column ends its line and begins another.
LEMMA GlyphWraps ==
    ASSUME NEW f, NEW c \in Glyphs, InOrder(f), f.is_cursor_viewable,
           ~(f.cursor_col + 1 < BUFFER_WIDTH_VIEW), Line(f) < BUFFER_MAX_HEIGHT - 1
    PROVE  LET r == put_glyph(f, c)
           IN  /\ DOMAIN r = Fields /\ ~r.dropped /\ r.is_cursor_viewable
               /\ r.buffer = [f.buffer EXCEPT ![f.size - 1] = Append(@, c)]
               /\ r.size = f.size + 1 /\ r.cursor_col = 0
               /\ r.cursor_row \in ScreenRows /\ Line(r) = f.size
               /\ IF f.cursor_row + 1 < BUFFER_HEIGHT_VIEW
                  THEN /\ r.cursor_row = f.cursor_row + 1
                       /\ r.frame_row_pointer = f.frame_row_pointer
                  ELSE /\ r.cursor_row = BUFFER_HEIGHT_VIEW - 1
                       /\ r.frame_row_pointer = f.frame_row_pointer + 1
<1> DEFINE r == put_glyph(f, c)
           l == Line(f)
           g == [f EXCEPT !.screen[f.cursor_row][f.cursor_col] = c,
                          !.buffer[l] = IF f.cursor_col < Len(@)
                                        THEN [@ EXCEPT ![f.cursor_col + 1] = c]
                                        ELSE Append(@, c)]
           h == [g EXCEPT !.size = @ + 1, !.cursor_row = @ + 1, !.cursor_col = 0]
<1>1. /\ IsDisplay(f) /\ ~f.dropped /\ l = f.size - 1 /\ l \in Lines
      /\ f.cursor_col = Len(f.buffer[l]) /\ f.cursor_row \in ScreenRows
  BY OrderFacts DEF InOrder, WindowInOrder
<1>2. r = new_frame_buffer_view(h, FALSE)
  BY DEF put_glyph
<1>3. /\ DOMAIN h = Fields /\ h.cursor_row = f.cursor_row + 1 /\ h.size = f.size + 1
      /\ h.frame_row_pointer = f.frame_row_pointer
      /\ h.is_cursor_viewable = f.is_cursor_viewable /\ h.dropped = f.dropped
      /\ h.cursor_col = 0
  BY <1>1 DEF IsDisplay, Fields
<1>5. h.buffer = [f.buffer EXCEPT ![l] = Append(@, c)]
  <2>1. ~(f.cursor_col < Len(f.buffer[l]))
    BY <1>1 DEF IsDisplay
  <2>2. g.buffer = [f.buffer EXCEPT ![l] = Append(@, c)]
    BY <1>1, <2>1 DEF IsDisplay, Fields
  <2> QED BY <1>1, <2>2 DEF IsDisplay, Fields
<1> HIDE DEF h
<1>6. ViewOf(h, r)
  BY <1>2, <1>3, NewView
<1>7. IsDisplay(h)
  <2>1. h.buffer \in [Lines -> Seq(Glyphs)]
    BY <1>1, <1>5 DEF IsDisplay
  <2> QED BY <1>1, <1>3, <2>1 DEF IsDisplay
<1>8. h.cursor_row \in -1 .. BUFFER_HEIGHT_VIEW
  BY <1>1, <1>3, DisplayAssumption DEF ScreenRows
<1> HIDE DEF r
<1>9. Line(r) = Line(h) /\ r.cursor_row \in ScreenRows
  BY <1>6, <1>7, <1>8, ViewFacts
<1>10. Line(h) = f.size
  <2>1. f.cursor_row + f.frame_row_pointer = f.size - 1 /\ f.size \in Nat
    BY OrderFacts
  <2>2. f.cursor_row \in Nat /\ f.frame_row_pointer \in Nat
    BY OrderFacts
  <2>3. h.cursor_row = f.cursor_row + 1 /\ h.frame_row_pointer = f.frame_row_pointer
    BY <1>3
  <2> QED BY <2>1, <2>2, <2>3 DEF Line
<1>11. IF f.cursor_row + 1 < BUFFER_HEIGHT_VIEW
       THEN r.cursor_row = f.cursor_row + 1 /\ r.frame_row_pointer = f.frame_row_pointer
       ELSE r.cursor_row = BUFFER_HEIGHT_VIEW - 1 /\ r.frame_row_pointer = f.frame_row_pointer + 1
  <2>1. ~(h.cursor_row < 0) /\ h.cursor_row \in Int /\ BUFFER_HEIGHT_VIEW \in Int
    BY <1>1, <1>3, DisplayAssumption DEF ScreenRows
  <2>2. CASE f.cursor_row + 1 < BUFFER_HEIGHT_VIEW
    <3>1. ~(h.cursor_row >= BUFFER_HEIGHT_VIEW)
      BY <1>3, <2>1, <2>2
    <3> QED BY <1>3, <1>6, <2>1, <2>2, <3>1 DEF ViewOf
  <2>3. CASE ~(f.cursor_row + 1 < BUFFER_HEIGHT_VIEW)
    <3>1. h.cursor_row >= BUFFER_HEIGHT_VIEW
      BY <1>3, <2>1, <2>3
    <3> QED BY <1>3, <1>6, <2>1, <2>3, <3>1 DEF ViewOf
  <2> QED BY <2>2, <2>3
<1>12. /\ DOMAIN r = Fields /\ ~r.dropped /\ r.is_cursor_viewable /\ r.size = f.size + 1
       /\ r.cursor_col = 0
  BY <1>1, <1>3, <1>6 DEF ViewOf
<1>13. r.buffer = [f.buffer EXCEPT ![f.size - 1] = Append(@, c)]
  BY <1>1, <1>5, <1>6 DEF ViewOf
<1> QED BY <1>9, <1>10, <1>11, <1>12, <1>13 DEF r

\* Echoing keeps the display in order.
LEMMA GlyphInOrder ==
    ASSUME NEW f, NEW c \in Glyphs, InOrder(f), f.is_cursor_viewable
    PROVE  LET r == put_glyph(f, c)
           IN  HasDropped(r) \/ (InOrder(r) /\ r.is_cursor_viewable)
<1> DEFINE r == put_glyph(f, c)
<1>1. /\ IsDisplay(f) /\ ~f.dropped /\ f.size \in 1 .. BUFFER_MAX_HEIGHT /\ Line(f) = f.size - 1
      /\ f.cursor_row \in ScreenRows /\ f.frame_row_pointer \in 0 .. f.size - 1
      /\ f.cursor_col = Len(f.buffer[f.size - 1]) /\ f.cursor_col \in LineCols
      /\ \A k \in Lines : Len(f.buffer[k]) <= BUFFER_WIDTH_VIEW
      /\ \A k \in Lines : k >= f.size => f.buffer[k] = EmptyLine
      /\ f.size - 1 \in Lines
      /\ BUFFER_MAX_HEIGHT \in Nat /\ BUFFER_HEIGHT_VIEW \in Nat \ {0}
      /\ BUFFER_WIDTH_VIEW \in Nat \ {0}
  BY DisplayAssumption DEF InOrder, LinesInOrder, WindowInOrder, Lines
<1> DEFINE b == [f.buffer EXCEPT ![f.size - 1] = Append(@, c)]
<1>2. /\ b \in [Lines -> Seq(Glyphs)]
      /\ b[f.size - 1] = Append(f.buffer[f.size - 1], c)
      /\ Len(b[f.size - 1]) = f.cursor_col + 1
      /\ \A k \in Lines : k # f.size - 1 => b[k] = f.buffer[k]
  <2>1. f.buffer[f.size - 1] \in Seq(Glyphs) /\ f.buffer \in [Lines -> Seq(Glyphs)]
    BY <1>1 DEF IsDisplay
  <2> QED BY <1>1, <2>1
<1>3. \A k \in Lines : Len(b[k]) <= BUFFER_WIDTH_VIEW
  BY <1>1, <1>2 DEF LineCols
<1> HIDE DEF b
<1>4. CASE f.cursor_col + 1 < BUFFER_WIDTH_VIEW
  <2>1. /\ DOMAIN r = Fields /\ ~r.dropped /\ r.is_cursor_viewable
        /\ r.buffer = b
        /\ r.size = f.size /\ r.cursor_col = f.cursor_col + 1
        /\ r.cursor_row = f.cursor_row /\ r.frame_row_pointer = f.frame_row_pointer
    BY <1>4, GlyphStays DEF b
  <2> HIDE DEF r
  <2>2. IsDisplay(r)
    BY <1>1, <1>2, <2>1 DEF IsDisplay
  <2>3. LinesInOrder(r)
    <3>1. \A k \in Lines : k >= f.size => b[k] = EmptyLine
      <4>1. ASSUME NEW k \in Lines, k >= f.size PROVE k # f.size - 1
        BY <4>1, OrderFacts
      <4> QED BY <1>1, <1>2, <4>1
    <3>2. f.cursor_col + 1 \in LineCols
      BY <1>4, OrderFacts DEF LineCols
    <3> QED BY <1>1, <1>2, <1>3, <2>1, <3>1, <3>2 DEF LinesInOrder
  <2>4. WindowInOrder(r)
    BY <1>1, <2>1 DEF WindowInOrder, Line
  <2> QED BY <2>1, <2>2, <2>3, <2>4 DEF InOrder, r
<1>5. CASE ~(f.cursor_col + 1 < BUFFER_WIDTH_VIEW) /\ Line(f) < BUFFER_MAX_HEIGHT - 1
  <2>1. /\ DOMAIN r = Fields /\ ~r.dropped /\ r.is_cursor_viewable
        /\ r.buffer = b
        /\ r.size = f.size + 1 /\ r.cursor_col = 0
        /\ r.cursor_row \in ScreenRows /\ Line(r) = f.size
        /\ r.frame_row_pointer \in {f.frame_row_pointer, f.frame_row_pointer + 1}
    <3>1. r.frame_row_pointer \in {f.frame_row_pointer, f.frame_row_pointer + 1}
      BY <1>5, GlyphWraps
    <3> QED BY <1>5, <3>1, GlyphWraps DEF b
  <2> HIDE DEF r
  <2>2. IsDisplay(r)
    <3>1. /\ r.size \in Int /\ r.cursor_row \in Int /\ r.cursor_col \in Int
          /\ r.frame_row_pointer \in Int
      <4>1. r.cursor_row \in Int
        BY <2>1 DEF ScreenRows
      <4>2. f.size \in Int /\ f.frame_row_pointer \in Int
        BY <1>1 DEF IsDisplay
      <4> QED BY <2>1, <4>1, <4>2
    <3> QED BY <1>2, <2>1, <3>1 DEF IsDisplay
  <2>3. LinesInOrder(r)
    <3>1. f.size \in Lines /\ b[f.size] = EmptyLine /\ r.size \in 1 .. BUFFER_MAX_HEIGHT
      <4>1. f.size \in Lines /\ f.size # f.size - 1 /\ f.size >= f.size
        BY <1>1, <1>5, OrderFacts DEF Lines
      <4>2. r.size \in 1 .. BUFFER_MAX_HEIGHT
        BY <1>1, <1>5, <2>1, OrderFacts
      <4> QED BY <1>1, <1>2, <4>1, <4>2
    <3>2. \A k \in Lines : k >= r.size => b[k] = EmptyLine
      <4>1. ASSUME NEW k \in Lines, k >= r.size PROVE k # f.size - 1 /\ k >= f.size
        BY <2>1, <4>1, OrderFacts DEF Lines
      <4> QED BY <1>1, <1>2, <4>1
    <3>3. r.cursor_col = Len(r.buffer[r.size - 1])
      BY <1>1, <2>1, <3>1 DEF EmptyLine
    <3> QED BY <1>1, <1>3, <2>1, <3>1, <3>2, <3>3 DEF LinesInOrder, LineCols
  <2>4. WindowInOrder(r)
    BY <1>1, <2>1 DEF WindowInOrder
  <2> QED BY <2>1, <2>2, <2>3, <2>4 DEF InOrder, r
<1>6. CASE ~(f.cursor_col + 1 < BUFFER_WIDTH_VIEW) /\ ~(Line(f) < BUFFER_MAX_HEIGHT - 1)
  <2>1. r = [f EXCEPT !.dropped = TRUE]
    BY <1>6 DEF put_glyph
  <2> QED BY <1>1, <2>1 DEF HasDropped, IsDisplay, Fields
<1> QED BY <1>4, <1>5, <1>6

-----------------------------------------------------------------------------
(* An ignored character is remembered until the screen is cleared.         *)

\* Moving the window ...
LEMMA ViewDropped ==
    ASSUME NEW f, HasDropped(f), NEW change \in BOOLEAN
    PROVE  HasDropped(new_frame_buffer_view(f, change))
BY DEF HasDropped, new_frame_buffer_view, Redraw

\* ... a newline ...
LEMMA NewlineDropped ==
    ASSUME NEW f, HasDropped(f)
    PROVE  HasDropped(put_newline(f))
<1> DEFINE l == Line(f) + 1
           g == [f EXCEPT !.cursor_row = @ + 1,
                          !.buffer[l] = EmptyLine,
                          !.size = IF l < @ THEN @ ELSE @ + 1]
           v == new_frame_buffer_view(g, TRUE)
<1>1. HasDropped(g)
  BY DEF HasDropped
<1> HIDE DEF g
<1>2. HasDropped(v)
  BY <1>1, ViewDropped
<1> HIDE DEF v
<1>3. HasDropped([v EXCEPT !.cursor_col = 0]) /\ HasDropped([f EXCEPT !.dropped = TRUE])
  BY <1>2 DEF HasDropped
<1> QED BY <1>3 DEF put_newline, v, g

\* ... a glyph ...
LEMMA GlyphDropped ==
    ASSUME NEW f, HasDropped(f), NEW c
    PROVE  HasDropped(put_glyph(f, c))
<1> DEFINE l == Line(f)
           g == [f EXCEPT !.screen[f.cursor_row][f.cursor_col] = c,
                          !.buffer[l] = IF f.cursor_col < Len(@)
                                        THEN [@ EXCEPT ![f.cursor_col + 1] = c]
                                        ELSE Append(@, c)]
           h == [g EXCEPT !.cursor_col = @ + 1]
           k == [g EXCEPT !.size = @ + 1, !.cursor_row = @ + 1, !.cursor_col = 0]
<1>1. HasDropped(g)
  BY DEF HasDropped
<1> HIDE DEF g
<1>2. HasDropped(h) /\ HasDropped(k) /\ HasDropped([f EXCEPT !.dropped = TRUE])
  BY <1>1 DEF HasDropped
<1> HIDE DEF h, k
<1>3. HasDropped(new_frame_buffer_view(h, FALSE)) /\ HasDropped(new_frame_buffer_view(k, FALSE))
  BY <1>2, ViewDropped
<1> QED BY <1>2, <1>3 DEF put_glyph, g, h, k

\* ... and a backspace keep the mark.
LEMMA BackspaceDropped ==
    ASSUME NEW f, HasDropped(f)
    PROVE  HasDropped(put_backspace(f))
<1> DEFINE g == IF f.buffer[Line(f)] = EmptyLine /\ Line(f) = f.size - 1
                THEN [f EXCEPT !.size = @ - 1] ELSE f
           e == framebuffer_erase(f)
           p == [g EXCEPT !.buffer[Line(f) - 1] = Front(@)]
           q == [g EXCEPT !.cursor_row = @ - 1]
<1>1. ASSUME NEW x, HasDropped(x) PROVE HasDropped(framebuffer_erase(x))
  BY <1>1 DEF HasDropped, framebuffer_erase
<1>2. ASSUME NEW x, HasDropped(x) PROVE HasDropped(ToLineEnd(x))
  BY <1>2 DEF HasDropped, ToLineEnd
<1>3. HasDropped(g)
  BY DEF HasDropped
<1> HIDE DEF g
<1>4. HasDropped(p) /\ HasDropped(q)
  BY <1>3 DEF HasDropped
<1> HIDE DEF p, q
<1>5. /\ HasDropped(ToLineEnd(framebuffer_erase(p)))
      /\ HasDropped(ToLineEnd(new_frame_buffer_view(q, TRUE)))
  BY <1>1, <1>2, <1>4, ViewDropped
<1>6. HasDropped(e)
  BY <1>1
<1> HIDE DEF e
<1>7. HasDropped([e EXCEPT !.buffer[Line(e)] = Front(@)])
  BY <1>6 DEF HasDropped
<1> QED BY <1>5, <1>7 DEF put_backspace, g, e, p, q

\* Echoing or printing a character of a text, or erasing one.
LEMMA CharDropped ==
    ASSUME NEW f, HasDropped(f), NEW c \in Glyphs \cup {NewLine, Backspace}
    PROVE  HasDropped(handle_new_char(f, c))
<1>1. CASE c = NewLine
  <2>1. c \notin Glyphs
    BY <1>1, GlyphsAssumption DEF ControlChars
  <2> QED BY <1>1, <2>1, NewlineDropped DEF handle_new_char, NewLine, Backspace
<1>2. CASE c = Backspace
  <2>1. c \notin Glyphs
    BY <1>2, GlyphsAssumption DEF ControlChars
  <2> QED BY <1>2, <2>1, BackspaceDropped DEF handle_new_char, NewLine, Backspace
<1>3. CASE c \in Glyphs
  <2>1. c # NewLine /\ c # Backspace
    BY <1>3, GlyphsAssumption DEF ControlChars
  <2> QED BY <1>3, <2>1, GlyphDropped DEF handle_new_char
<1> QED BY <1>1, <1>2, <1>3

\* Scrolling keeps it as well.
LEMMA ScrollDropped ==
    ASSUME NEW f, HasDropped(f), NEW c
    PROVE  HasDropped(move_screen(f, c))
BY DEF HasDropped, move_screen, Redraw

-----------------------------------------------------------------------------
(* The screen while the display is in order.                               *)

Cells == Glyphs \cup {Blank, "0"}

\* A character of the buffer belongs in this cell.
Inside(f, i, j) ==
    i + f.frame_row_pointer < f.size /\ j < Len(f.buffer[i + f.frame_row_pointer])

CellShown(f, i, j) ==
    \/ <<i, j>> \in ClockCells
    \/ j = BUFFER_WIDTH_VIEW - 1 /\ ~Inside(f, i, j)
    \/ f.screen[i][j] = IF Inside(f, i, j) THEN f.buffer[i + f.frame_row_pointer][j + 1] ELSE Blank

Shown(f) ==
    /\ f.screen \in [ScreenRows -> [ScreenCols -> Cells]]
    /\ f.size - f.frame_row_pointer < BYTE =>
          \A i \in ScreenRows, j \in ScreenCols : CellShown(f, i, j)

\* The cells hold what the redrawing loop writes.
Redrawn(f) ==
    f.screen = [i \in ScreenRows |-> [j \in ScreenCols |->
        IF /\ i < (f.size - f.frame_row_pointer) % BYTE
           /\ j < Len(f.buffer[i + f.frame_row_pointer])
        THEN f.buffer[i + f.frame_row_pointer][j + 1] ELSE Blank]]

\* The cut to eight bits loses nothing.
LEMMA SmallRest ==
    ASSUME NEW n \in Nat, NEW a \in 0 .. n - 1
    PROVE  a % n = a
OBVIOUS

\* The loop writes text into every cell, and the text of the buffer if the window is
\* less than a byte's worth of lines above the end.
LEMMA RedrawnShown ==
    ASSUME NEW f, InOrder(f), Redrawn(f)
    PROVE  Shown(f)
<1> DEFINE below == (f.size - f.frame_row_pointer) % BYTE
           p == f.frame_row_pointer
<1>1. /\ f.size \in Nat /\ f.size <= BUFFER_MAX_HEIGHT /\ p \in Nat /\ p < f.size
      /\ BUFFER_MAX_HEIGHT \in Nat /\ BUFFER_HEIGHT_VIEW \in Nat
  BY OrderFacts
<1>2. BYTE \in Nat /\ BUFFER_HEIGHT_VIEW < BYTE /\ BYTE > 0
  BY DisplayAssumption
<1>3. f.buffer \in [Lines -> Seq(Glyphs)]
  BY OrderFacts DEF IsDisplay
<1>4. below \in Nat /\ below <= f.size - p
  <2>1. f.size - p \in Nat
    BY <1>1
  <2> DEFINE a == f.size - p
  <2>2. a % BYTE \in Nat
    <3> HIDE DEF a
    <3> QED BY <1>2, <2>1 DEF a
  <2>3. a % BYTE <= a
    <3>1. CASE a < BYTE
      <4>1. a \in 0 .. BYTE - 1
        BY <1>2, <2>1, <3>1
      <4> HIDE DEF a
      <4>2. a % BYTE = a
        BY <1>2, <4>1, SmallRest
      <4> QED BY <2>1, <4>2 DEF a
    <3>2. CASE ~(a < BYTE)
      <4>1. a \in Nat
        BY <2>1
      <4> HIDE DEF a
      <4>2. a % BYTE < BYTE
        BY <1>2, <4>1
      <4> QED BY <1>2, <2>2, <3>2, <4>1, <4>2
    <3> QED BY <3>1, <3>2
  <2> QED BY <2>2, <2>3
<1> HIDE DEF below
<1>5. f.screen \in [ScreenRows -> [ScreenCols -> Cells]]
  <2> DEFINE cell(i, j) == IF i < below /\ j < Len(f.buffer[i + p]) THEN f.buffer[i + p][j + 1] ELSE Blank
  <2>1. ASSUME NEW i \in ScreenRows, NEW j \in ScreenCols PROVE cell(i, j) \in Cells
    <3>1. CASE i < below /\ j < Len(f.buffer[i + p])
      <4>1. i \in Nat /\ j \in Nat
        BY <1>1, DisplayAssumption DEF ScreenRows, ScreenCols
      <4>2. i + p \in Lines
        BY <1>1, <1>4, <3>1, <4>1 DEF Lines
      <4>3. f.buffer[i + p] \in Seq(Glyphs) /\ Len(f.buffer[i + p]) \in Nat
        BY <1>3, <4>2
      <4>4. j + 1 \in 1 .. Len(f.buffer[i + p])
        BY <3>1, <4>1, <4>3
      <4>5. f.buffer[i + p][j + 1] \in Glyphs
        BY <4>3, <4>4
      <4> QED BY <3>1, <4>5 DEF Cells
    <3>2. CASE ~(i < below /\ j < Len(f.buffer[i + p]))
      BY <3>2 DEF Cells
    <3> QED BY <3>1, <3>2
  <2>2. f.screen = [i \in ScreenRows |-> [j \in ScreenCols |-> cell(i, j)]]
    BY DEF Redrawn, below
  <2> HIDE DEF cell
  <2> QED BY <2>1, <2>2
<1>6. ASSUME f.size - p < BYTE, NEW i \in ScreenRows, NEW j \in ScreenCols
      PROVE  CellShown(f, i, j)
  <2>1. f.size - p \in 0 .. BYTE - 1
    BY <1>1, <1>2, <1>6
  <2>2. below = f.size - p
    BY <1>2, <2>1, SmallRest DEF below
  <2>3. i \in Int
    BY DEF ScreenRows
  <2>4. i < below <=> i + p < f.size
    BY <1>1, <2>2, <2>3
  <2>5. f.screen[i][j] = IF i < below /\ j < Len(f.buffer[i + p])
                         THEN f.buffer[i + p][j + 1] ELSE Blank
    BY DEF Redrawn, below
  <2> QED BY <2>4, <2>5 DEF CellShown, Inside
<1> QED BY <1>5, <1>6 DEF Shown

\* A view that changes is redrawn, one that stays is left alone.
LEMMA NewViewScreen ==
    ASSUME NEW f, DOMAIN f = Fields, NEW change \in BOOLEAN
    PROVE  LET r == new_frame_buffer_view(f, change)
           IN  IF f.cursor_row < 0 \/ f.cursor_row >= BUFFER_HEIGHT_VIEW \/ change
               THEN Redrawn(r) ELSE r = f
<1>1. ASSUME NEW g, DOMAIN g = Fields PROVE Redrawn(Redraw(g))
  BY <1>1 DEF Redrawn, Redraw, Fields
<1> DEFINE u == [f EXCEPT !.frame_row_pointer = @ - 1, !.cursor_row = 0]
           d == [f EXCEPT !.frame_row_pointer = @ + 1, !.cursor_row = BUFFER_HEIGHT_VIEW - 1]
<1>2. DOMAIN u = Fields /\ DOMAIN d = Fields
  OBVIOUS
<1> HIDE DEF u, d
<1>3. Redrawn(Redraw(u)) /\ Redrawn(Redraw(d)) /\ Redrawn(Redraw(f))
  BY <1>1, <1>2
<1>4. new_frame_buffer_view(f, change) =
         IF f.cursor_row < 0 THEN Redraw(u)
         ELSE IF f.cursor_row >= BUFFER_HEIGHT_VIEW THEN Redraw(d)
         ELSE IF change THEN Redraw(f) ELSE f
  BY DEF new_frame_buffer_view, u, d
<1> QED BY <1>3, <1>4

\* A new line is drawn by the loop.
LEMMA NewlineShown ==
    ASSUME NEW f, InOrder(f), f.is_cursor_viewable, InOrder(put_newline(f))
    PROVE  Shown(put_newline(f))
<1> DEFINE r == put_newline(f)
           l == Line(f) + 1
           g == [f EXCEPT !.cursor_row = @ + 1,
                          !.buffer[l] = EmptyLine,
                          !.size = IF l < @ THEN @ ELSE @ + 1]
           v == new_frame_buffer_view(g, TRUE)
<1>1. DOMAIN f = Fields
  BY OrderFacts DEF IsDisplay
<1>2. ~(Line(f) >= BUFFER_MAX_HEIGHT - 1)
  <2> SUFFICES ASSUME Line(f) >= BUFFER_MAX_HEIGHT - 1 PROVE FALSE
    OBVIOUS
  <2>1. r = [f EXCEPT !.dropped = TRUE]
    BY DEF put_newline
  <2>2. r.dropped
    BY <1>1, <2>1 DEF Fields
  <2> QED BY <2>2 DEF InOrder
<1>3. r = [v EXCEPT !.cursor_col = 0]
  BY <1>2 DEF put_newline
<1>4. DOMAIN g = Fields
  BY <1>1
<1> HIDE DEF g
<1>5. Redrawn(v) /\ DOMAIN v = Fields
  BY <1>4, NewViewScreen, NewView DEF ViewOf
<1> HIDE DEF v
<1>6. /\ r.screen = v.screen /\ r.size = v.size /\ r.buffer = v.buffer
      /\ r.frame_row_pointer = v.frame_row_pointer
  BY <1>3, <1>5 DEF Fields
<1> HIDE DEF r
<1>7. Redrawn(r)
  BY <1>5, <1>6 DEF Redrawn
<1> QED BY <1>7, RedrawnShown DEF r

\* A glyph is drawn where the cursor is; a window that moves is drawn by the loop.
LEMMA GlyphScreen ==
    ASSUME NEW f, NEW c \in Glyphs, InOrder(f), f.is_cursor_viewable,
           f.cursor_col + 1 < BUFFER_WIDTH_VIEW \/ Line(f) < BUFFER_MAX_HEIGHT - 1
    PROVE  LET r == put_glyph(f, c)
           IN  IF f.cursor_col + 1 < BUFFER_WIDTH_VIEW \/ f.cursor_row + 1 < BUFFER_HEIGHT_VIEW
               THEN r.screen = [f.screen EXCEPT ![f.cursor_row][f.cursor_col] = c]
               ELSE Redrawn(r)
<1> DEFINE r == put_glyph(f, c)
           l == Line(f)
           g == [f EXCEPT !.screen[f.cursor_row][f.cursor_col] = c,
                          !.buffer[l] = IF f.cursor_col < Len(@)
                                        THEN [@ EXCEPT ![f.cursor_col + 1] = c]
                                        ELSE Append(@, c)]
           h == [g EXCEPT !.cursor_col = @ + 1]
           k == [g EXCEPT !.size = @ + 1, !.cursor_row = @ + 1, !.cursor_col = 0]
           s == [f.screen EXCEPT ![f.cursor_row][f.cursor_col] = c]
<1>1. DOMAIN f = Fields
  BY OrderFacts DEF IsDisplay
<1>2. f.cursor_row \in Nat /\ f.cursor_row < BUFFER_HEIGHT_VIEW /\ BUFFER_HEIGHT_VIEW \in Nat
  BY OrderFacts
<1>3. DOMAIN g = Fields /\ g.screen = s /\ g.cursor_row = f.cursor_row
  BY <1>1 DEF Fields
<1>4. CASE f.cursor_col + 1 < BUFFER_WIDTH_VIEW
  <2>1. r = new_frame_buffer_view(h, FALSE)
    BY <1>4 DEF put_glyph
  <2> HIDE DEF g, s
  <2>2. DOMAIN h = Fields /\ h.screen = s /\ h.cursor_row = f.cursor_row
    BY <1>3 DEF Fields
  <2> HIDE DEF h
  <2>3. ~(h.cursor_row < 0 \/ h.cursor_row >= BUFFER_HEIGHT_VIEW \/ FALSE)
    BY <1>2, <2>2
  <2>4. r = h
    BY <2>1, <2>2, <2>3, NewViewScreen
  <2> QED BY <1>4, <2>2, <2>4 DEF s
<1>5. CASE ~(f.cursor_col + 1 < BUFFER_WIDTH_VIEW)
  <2>1. r = new_frame_buffer_view(k, FALSE)
    BY <1>5 DEF put_glyph
  <2> HIDE DEF g, s
  <2>2. DOMAIN k = Fields /\ k.screen = s
    BY <1>3 DEF Fields
  <2>3. k.cursor_row = f.cursor_row + 1
    BY <1>3 DEF Fields
  <2> HIDE DEF k
  <2>4. CASE f.cursor_row + 1 < BUFFER_HEIGHT_VIEW
    <3>1. ~(k.cursor_row < 0 \/ k.cursor_row >= BUFFER_HEIGHT_VIEW \/ FALSE)
      BY <1>2, <2>3, <2>4
    <3>2. r = k
      BY <2>1, <2>2, <3>1, NewViewScreen
    <3> QED BY <2>2, <2>4, <3>2 DEF s
  <2>5. CASE ~(f.cursor_row + 1 < BUFFER_HEIGHT_VIEW)
    <3>1. k.cursor_row >= BUFFER_HEIGHT_VIEW
      BY <1>2, <2>3, <2>5
    <3>2. Redrawn(r)
      BY <2>1, <2>2, <3>1, NewViewScreen
    <3> QED BY <1>5, <2>5, <3>2
  <2> QED BY <2>4, <2>5
<1> QED BY <1>4, <1>5

\* The one cell that changes is the one of the character that is added.
LEMMA AddedShown ==
    ASSUME NEW f, NEW r, NEW c \in Glyphs, InOrder(f), f.is_cursor_viewable, Shown(f),
           r.screen = [f.screen EXCEPT ![f.cursor_row][f.cursor_col] = c],
           r.buffer = [f.buffer EXCEPT ![f.size - 1] = Append(@, c)],
           r.frame_row_pointer = f.frame_row_pointer,
           r.size = f.size \/ (r.size = f.size + 1 /\ f.size < BUFFER_MAX_HEIGHT)
    PROVE  Shown(r)
<1> DEFINE p == f.frame_row_pointer
           row == f.cursor_row
           col == f.cursor_col
<1>1. /\ f.size \in Nat /\ f.size <= BUFFER_MAX_HEIGHT /\ p \in Nat /\ p < f.size
      /\ row \in Nat /\ row < BUFFER_HEIGHT_VIEW /\ col \in Nat /\ col < BUFFER_WIDTH_VIEW
      /\ row + p = f.size - 1 /\ f.size - 1 \in Lines /\ BUFFER_MAX_HEIGHT \in Nat
      /\ BUFFER_WIDTH_VIEW \in Nat /\ BUFFER_HEIGHT_VIEW \in Nat
  BY OrderFacts
<1>2. f.buffer \in [Lines -> Seq(Glyphs)] /\ Len(f.buffer[f.size - 1]) = col
  BY OrderFacts DEF IsDisplay
<1>3. row \in ScreenRows /\ col \in ScreenCols
  BY <1>1 DEF ScreenRows, ScreenCols
<1>4. f.screen \in [ScreenRows -> [ScreenCols -> Cells]]
  BY DEF Shown
<1>5. /\ r.screen \in [ScreenRows -> [ScreenCols -> Cells]]
      /\ r.screen[row][col] = c
      /\ \A i \in ScreenRows, j \in ScreenCols :
            i # row \/ j # col => r.screen[i][j] = f.screen[i][j]
  BY <1>3, <1>4 DEF Cells
<1>6. /\ r.buffer[f.size - 1] = Append(f.buffer[f.size - 1], c)
      /\ \A l \in Lines : l # f.size - 1 => r.buffer[l] = f.buffer[l]
  BY <1>1, <1>2
<1>7. /\ Len(r.buffer[f.size - 1]) = col + 1 /\ r.buffer[f.size - 1][col + 1] = c
      /\ \A j \in 1 .. col : r.buffer[f.size - 1][j] = f.buffer[f.size - 1][j]
  <2> DEFINE t == f.buffer[f.size - 1]
  <2>1. t \in Seq(Glyphs) /\ Len(t) = col
    BY <1>1, <1>2
  <2> HIDE DEF t
  <2>2. /\ Len(Append(t, c)) = col + 1 /\ Append(t, c)[col + 1] = c
        /\ \A j \in 1 .. col : Append(t, c)[j] = t[j]
    BY <1>1, <2>1
  <2> QED BY <1>6, <2>2 DEF t
<1>8. ASSUME r.size - r.frame_row_pointer < BYTE, NEW i \in ScreenRows, NEW j \in ScreenCols
      PROVE  CellShown(r, i, j)
  <2>1. CellShown(f, i, j)
    <3>1. f.size - p < BYTE
      <4>1. f.size - p <= BUFFER_HEIGHT_VIEW /\ BUFFER_HEIGHT_VIEW < BYTE /\ BYTE \in Nat
        BY <1>1, DisplayAssumption
      <4> QED BY <1>1, <4>1
    <3> QED BY <3>1 DEF Shown
  <2>2. i \in Nat /\ j \in Nat
    BY <1>1 DEF ScreenRows, ScreenCols
  <2>3. CASE i = row /\ j = col
    <3>1. i + p = f.size - 1 /\ i + p < r.size
      BY <1>1, <2>3
    <3>2. Inside(r, i, j)
      BY <1>1, <1>7, <2>3, <3>1 DEF Inside
    <3> QED BY <1>5, <1>7, <2>3, <3>1, <3>2 DEF CellShown
  <2>4. CASE i = row /\ j # col
    <3>1. i + p = f.size - 1 /\ i + p < r.size /\ i + p < f.size
      BY <1>1, <2>4
    <3>2. Inside(r, i, j) <=> Inside(f, i, j)
      <4>1. Inside(r, i, j) <=> j < col + 1
        BY <1>7, <3>1 DEF Inside
      <4>2. Inside(f, i, j) <=> j < col
        BY <1>2, <3>1 DEF Inside
      <4>3. j < col + 1 <=> j < col
        BY <1>1, <2>2, <2>4
      <4> QED BY <4>1, <4>2, <4>3
    <3>3. Inside(f, i, j) => r.buffer[i + p][j + 1] = f.buffer[i + p][j + 1]
      <4>1. Inside(f, i, j) => j + 1 \in 1 .. col
        <5>1. Inside(f, i, j) <=> j < col
          BY <1>2, <3>1 DEF Inside
        <5> QED BY <1>1, <2>2, <5>1
      <4>2. \A k \in 1 .. col : r.buffer[i + p][k] = f.buffer[i + p][k]
        BY <1>7, <3>1
      <4> QED BY <4>1, <4>2
    <3>4. r.screen[i][j] = f.screen[i][j]
      BY <1>5, <2>4
    <3> QED BY <2>1, <3>2, <3>3, <3>4 DEF CellShown
  <2>5. CASE i # row
    <3>1. i + p # f.size - 1 /\ i + p \in Nat
      BY <1>1, <2>2, <2>5
    <3>2. r.screen[i][j] = f.screen[i][j]
      BY <1>5, <2>5
    <3>3. CASE i + p < f.size
      <4>1. i + p \in Lines /\ i + p < r.size
        BY <1>1, <3>1, <3>3 DEF Lines
      <4>2. r.buffer[i + p] = f.buffer[i + p]
        BY <1>6, <3>1, <4>1
      <4> QED BY <2>1, <3>2, <3>3, <4>1, <4>2 DEF CellShown, Inside
    <3>4. CASE ~(i + p < f.size)
      <4>1. ~Inside(f, i, j)
        BY <3>4 DEF Inside
      <4>2. ~Inside(r, i, j)
        <5> SUFFICES ASSUME i + p < r.size PROVE ~(j < Len(r.buffer[i + p]))
          BY DEF Inside
        <5>1. i + p = f.size /\ f.size < BUFFER_MAX_HEIGHT
          BY <1>1, <3>1, <3>4
        <5>2. f.size \in Lines /\ f.size # f.size - 1
          BY <1>1, <5>1 DEF Lines
        <5>3. r.buffer[f.size] = EmptyLine
          <6>1. f.size >= f.size
            BY <1>1
          <6>2. f.buffer[f.size] = EmptyLine
            BY <5>2, <6>1 DEF InOrder, LinesInOrder
          <6> QED BY <1>6, <5>2, <6>2
        <5> QED BY <2>2, <5>1, <5>3 DEF EmptyLine
      <4> QED BY <2>1, <3>2, <4>1, <4>2 DEF CellShown
    <3> QED BY <3>3, <3>4
  <2> QED BY <2>3, <2>4, <2>5
<1> QED BY <1>5, <1>8 DEF Shown

\* So the screen shows what is echoed.
LEMMA GlyphShown ==
    ASSUME NEW f, NEW c \in Glyphs, InOrder(f), f.is_cursor_viewable, Shown(f),
           InOrder(put_glyph(f, c))
    PROVE  Shown(put_glyph(f, c))
<1> DEFINE r == put_glyph(f, c)
<1>1. CASE f.cursor_col + 1 < BUFFER_WIDTH_VIEW
  <2>1. r.screen = [f.screen EXCEPT ![f.cursor_row][f.cursor_col] = c]
    BY <1>1, GlyphScreen
  <2>2. /\ r.buffer = [f.buffer EXCEPT ![f.size - 1] = Append(@, c)]
        /\ r.frame_row_pointer = f.frame_row_pointer /\ r.size = f.size
    BY <1>1, GlyphStays
  <2> HIDE DEF r
  <2>3. Shown(r)
    BY <2>1, <2>2, AddedShown
  <2> QED BY <2>3 DEF r
<1>2. CASE ~(f.cursor_col + 1 < BUFFER_WIDTH_VIEW) /\ Line(f) < BUFFER_MAX_HEIGHT - 1
  <2>1. CASE f.cursor_row + 1 < BUFFER_HEIGHT_VIEW
    <3>1. r.screen = [f.screen EXCEPT ![f.cursor_row][f.cursor_col] = c]
      BY <1>2, <2>1, GlyphScreen
    <3>2. r.buffer = [f.buffer EXCEPT ![f.size - 1] = Append(@, c)]
      BY <1>2, GlyphWraps, SMTT(30)
    <3>3. r.frame_row_pointer = f.frame_row_pointer /\ r.size = f.size + 1
      <4>1. r.size = f.size + 1
        BY <1>2, GlyphWraps
      <4>2. IF f.cursor_row + 1 < BUFFER_HEIGHT_VIEW
            THEN r.frame_row_pointer = f.frame_row_pointer
            ELSE r.frame_row_pointer = f.frame_row_pointer + 1
        BY <1>2, GlyphWraps
      <4> QED BY <2>1, <4>1, <4>2
    <3>4. f.size < BUFFER_MAX_HEIGHT
      <4>1. f.size \in Nat /\ BUFFER_MAX_HEIGHT \in Nat /\ Line(f) = f.size - 1
        BY OrderFacts DEF Line
      <4> QED BY <1>2, <4>1
    <3> HIDE DEF r
    <3>5. Shown(r)
      BY <3>1, <3>2, <3>3, <3>4, AddedShown
    <3> QED BY <3>5 DEF r
  <2>2. CASE ~(f.cursor_row + 1 < BUFFER_HEIGHT_VIEW)
    <3>1. Redrawn(r)
      BY <1>2, <2>2, GlyphScreen
    <3> QED BY <3>1, RedrawnShown
  <2> QED BY <2>1, <2>2
<1>3. CASE ~(f.cursor_col + 1 < BUFFER_WIDTH_VIEW) /\ ~(Line(f) < BUFFER_MAX_HEIGHT - 1)
  <2>1. r = [f EXCEPT !.dropped = TRUE]
    BY <1>3 DEF put_glyph
  <2>2. DOMAIN f = Fields
    BY OrderFacts DEF IsDisplay
  <2>3. r.dropped
    BY <2>1, <2>2 DEF Fields
  <2> QED BY <2>3 DEF InOrder
<1> QED BY <1>1, <1>2, <1>3

-----------------------------------------------------------------------------
(* Printing keeps the display in order.                                    *)

\* The cursor can be seen at the end of the last line and the screen shows the
\* text, until a character is ignored.
Printable(f) == HasDropped(f) \/ (InOrder(f) /\ f.is_cursor_viewable /\ Shown(f))

\* What a character of a text does to a display in order.
LEMMA CharIs ==
    ASSUME NEW f, InOrder(f), f.is_cursor_viewable
    PROVE  /\ handle_new_char(f, NewLine) = put_newline(f)
           /\ handle_new_char(f, Backspace) = put_backspace(f)
           /\ \A c \in Glyphs : handle_new_char(f, c) = put_glyph(f, c)
<1>1. ~(Line(f) >= BUFFER_MAX_HEIGHT)
  <2>1. /\ f.size \in Nat /\ f.size <= BUFFER_MAX_HEIGHT /\ BUFFER_MAX_HEIGHT \in Nat
        /\ f.cursor_row + f.frame_row_pointer = f.size - 1
    BY OrderFacts
  <2> QED BY <2>1 DEF Line
<1>2. \A c \in Glyphs : c # NewLine /\ c # Backspace
  BY GlyphsAssumption DEF ControlChars
<1> QED BY <1>1, <1>2 DEF handle_new_char, NewLine, Backspace

\* A character of a text keeps the cursor at the end of the last line.
LEMMA CharPrintable ==
    ASSUME NEW f, Printable(f), NEW c \in Glyphs \cup {NewLine}
    PROVE  Printable(handle_new_char(f, c))
<1>1. CASE HasDropped(f)
  BY <1>1, CharDropped DEF Printable
<1>2. CASE InOrder(f) /\ f.is_cursor_viewable /\ Shown(f)
  <2>1. CASE c = NewLine
    <3> DEFINE r == put_newline(f)
    <3>1. handle_new_char(f, c) = r
      BY <1>2, <2>1, CharIs
    <3>2. HasDropped(r) \/ (InOrder(r) /\ r.is_cursor_viewable)
      BY <1>2, NewlineInOrder
    <3>3. InOrder(r) => Shown(r)
      BY <1>2, NewlineShown
    <3> QED BY <3>1, <3>2, <3>3 DEF Printable
  <2>2. CASE c \in Glyphs
    <3> DEFINE r == put_glyph(f, c)
    <3>1. handle_new_char(f, c) = r
      BY <1>2, <2>2, CharIs
    <3>2. HasDropped(r) \/ (InOrder(r) /\ r.is_cursor_viewable)
      BY <1>2, <2>2, GlyphInOrder
    <3>3. InOrder(r) => Shown(r)
      BY <1>2, <2>2, GlyphShown
    <3> QED BY <3>1, <3>2, <3>3 DEF Printable
  <2> QED BY <2>1, <2>2
<1> QED BY <1>1, <1>2 DEF Printable

\* So does a string of them, by induction over its characters.
LEMMA TextPrintable ==
    ASSUME NEW f, Printable(f), NEW str \in Seq(Glyphs \cup {NewLine})
    PROVE  Printable(puts(f, str))
<1>1. PICK g : Printing(f, str, g) /\ puts(f, str) = g[Len(str)]
  BY PutsPrints
<1> DEFINE T == {n \in 0 .. Len(str) : ~Printable(g[n])}
<1>2. Len(str) \in Nat
  OBVIOUS
<1>3. T = {}
  <2> SUFFICES ASSUME T # {} PROVE FALSE
    OBVIOUS
  <2>1. T \in SUBSET Nat
    BY <1>2
  <2>2. PICK n \in T : IsFirst(T, n)
    BY <2>1, LeastMember
  <2>3. n \in Nat /\ n \in 0 .. Len(str) /\ ~Printable(g[n])
    BY <2>1
  <2>4. n # 0
    <3>1. g[0] = f
      BY <1>1, <1>2 DEF Printing
    <3> QED BY <2>3, <3>1
  <2>5. n - 1 \in 0 .. Len(str) /\ n - 1 \in Nat
    BY <2>3, <2>4
  <2>6. Printable(g[n - 1])
    BY <2>2, <2>3, <2>5 DEF IsFirst
  <2>7. g[n] = handle_new_char(g[n - 1], str[n])
    BY <1>1, <2>3, <2>4 DEF Printing
  <2>8. str[n] \in Glyphs \cup {NewLine}
    <3>1. n \in 1 .. Len(str)
      BY <2>3, <2>4
    <3> QED BY <3>1
  <2> QED BY <2>3, <2>6, <2>7, <2>8, CharPrintable
<1>4. Len(str) \in 0 .. Len(str)
  BY <1>2
<1> QED BY <1>1, <1>3, <1>4

\* It is there on a cleared screen.
LEMMA ClearPrintable ==
    Printable(clear_screen)
<1>1. IsDisplay(clear_screen)
  BY DEF IsDisplay, clear_screen, Fields, EmptyLine
<1>2. LinesInOrder(clear_screen)
  <2>1. /\ clear_screen.size = 1 /\ clear_screen.cursor_col = 0
        /\ \A l \in Lines : clear_screen.buffer[l] = <<>>
    BY DEF clear_screen, EmptyLine
  <2>2. 0 \in Lines /\ 0 \in LineCols /\ 1 \in 1 .. BUFFER_MAX_HEIGHT
    BY DisplayAssumption DEF Lines, LineCols
  <2> QED BY <2>1, <2>2, DisplayAssumption DEF LinesInOrder, EmptyLine
<1>3. WindowInOrder(clear_screen)
  BY DisplayAssumption DEF WindowInOrder, clear_screen, Line, ScreenRows
<1>4. ~clear_screen.dropped /\ clear_screen.is_cursor_viewable
  BY DEF clear_screen
<1>5. Shown(clear_screen)
  <2> DEFINE k == clear_screen
  <2>1. /\ k.screen = [i \in ScreenRows |-> [j \in ScreenCols |-> Blank]]
        /\ k.size = 1 /\ k.frame_row_pointer = 0 /\ k.buffer = [l \in Lines |-> EmptyLine]
    BY DEF clear_screen, framebuffer_clear
  <2> HIDE DEF k
  <2>2. k.screen \in [ScreenRows -> [ScreenCols -> Cells]]
    BY <2>1 DEF Cells
  <2>3. ASSUME NEW i \in ScreenRows, NEW j \in ScreenCols PROVE CellShown(k, i, j)
    <3>1. ~Inside(k, i, j)
      <4> SUFFICES ASSUME i + 0 < 1 PROVE ~(j < Len(k.buffer[i + 0]))
        BY <2>1 DEF Inside
      <4>1. i \in Nat /\ j \in Nat
        BY DisplayAssumption DEF ScreenRows, ScreenCols
      <4>2. i + 0 = 0 /\ 0 \in Lines
        BY <4>1, DisplayAssumption DEF Lines
      <4>3. k.buffer[0] = <<>>
        BY <2>1, <4>2 DEF EmptyLine
      <4> QED BY <4>1, <4>2, <4>3
    <3>2. k.screen[i][j] = Blank
      BY <2>1
    <3> QED BY <3>1, <3>2 DEF CellShown
  <2>4. Shown(k)
    BY <2>2, <2>3 DEF Shown
  <2> QED BY <2>4 DEF k
<1> QED BY <1>1, <1>2, <1>3, <1>4, <1>5 DEF InOrder, Printable

-----------------------------------------------------------------------------
(* The lines that hold the command.                                        *)

\* The last n characters lie in the last line and in m full lines above it that
\* are all on the screen: erasing them never leaves it.
Held(f, n) ==
    \E m \in 0 .. f.cursor_row :
        /\ n <= f.cursor_col + m * BUFFER_WIDTH_VIEW
        /\ \A l \in f.size - 1 - m .. f.size - 2 : Len(f.buffer[l]) = BUFFER_WIDTH_VIEW

\* A fact of arithmetic the solver is given with its instances.
LEMMA NextMultiple ==
    ASSUME NEW m \in Int, NEW w \in Int
    PROVE  (m + 1) * w = m * w + w /\ m * w \in Int
OBVIOUS

\* The characters of an echo are held, as many as the screen has room for.
LEMMA GlyphHeld ==
    ASSUME NEW f, NEW c \in Glyphs, InOrder(f), f.is_cursor_viewable,
           NEW n \in Nat, Held(f, n), n < MAX_COMMAND
    PROVE  LET r == put_glyph(f, c)
           IN  HasDropped(r) \/ Held(r, n + 1)
<1> DEFINE r == put_glyph(f, c)
           W == BUFFER_WIDTH_VIEW
           H == BUFFER_HEIGHT_VIEW
<1>1. /\ W \in Nat /\ W >= 1 /\ H \in Nat /\ H >= 1
      /\ f.size \in Nat /\ f.size >= 1
      /\ f.cursor_row \in Nat /\ f.cursor_row < H
      /\ f.cursor_col \in Nat /\ f.cursor_col < W
      /\ f.frame_row_pointer \in Nat
      /\ f.cursor_row + f.frame_row_pointer = f.size - 1
      /\ f.size - 1 \in Lines /\ f.size <= BUFFER_MAX_HEIGHT /\ BUFFER_MAX_HEIGHT \in Nat
  BY OrderFacts
<1>2. PICK m \in 0 .. f.cursor_row :
         /\ n <= f.cursor_col + m * W
         /\ \A l \in f.size - 1 - m .. f.size - 2 : Len(f.buffer[l]) = W
  BY DEF Held
<1>3. m \in Nat /\ m <= f.cursor_row /\ m * W \in Int /\ (m + 1) * W = m * W + W
  BY <1>1, <1>2, NextMultiple
<1> DEFINE b == [f.buffer EXCEPT ![f.size - 1] = Append(@, c)]
<1>4. /\ Len(b[f.size - 1]) = f.cursor_col + 1
      /\ \A l \in f.size - 1 - m .. f.size - 2 : Len(b[l]) = W
  <2>1. /\ f.buffer \in [Lines -> Seq(Glyphs)] /\ f.buffer[f.size - 1] \in Seq(Glyphs)
        /\ f.cursor_col = Len(f.buffer[f.size - 1])
    BY <1>1, OrderFacts DEF IsDisplay
  <2>2. \A l \in f.size - 1 - m .. f.size - 2 : l \in Lines /\ l # f.size - 1
    BY <1>1, <1>3 DEF Lines
  <2> QED BY <1>1, <1>2, <2>1, <2>2
<1> HIDE DEF b
<1>5. CASE f.cursor_col + 1 < W
  <2>1. r.buffer = b /\ r.size = f.size /\ r.cursor_col = f.cursor_col + 1 /\ r.cursor_row = f.cursor_row
    BY <1>5, GlyphStays DEF b
  <2> HIDE DEF r
  <2>2. n + 1 <= r.cursor_col + m * W
    BY <1>1, <1>2, <1>3, <2>1
  <2>3. Held(r, n + 1)
    BY <1>3, <1>4, <2>1, <2>2 DEF Held
  <2> QED BY <2>3 DEF r
<1>6. CASE ~(f.cursor_col + 1 < W) /\ Line(f) < BUFFER_MAX_HEIGHT - 1
  <2> DEFINE k == IF m + 1 <= H - 1 THEN m + 1 ELSE m
  <2>1. /\ r.buffer = b /\ r.size = f.size + 1 /\ r.cursor_col = 0
        /\ IF f.cursor_row + 1 < H THEN r.cursor_row = f.cursor_row + 1 ELSE r.cursor_row = H - 1
    <3>1. r.buffer = b /\ r.size = f.size + 1 /\ r.cursor_col = 0
      <4>1. r.buffer = [f.buffer EXCEPT ![f.size - 1] = Append(@, c)]
        BY <1>6, GlyphWraps, SMTT(30)
      <4>2. r.size = f.size + 1 /\ r.cursor_col = 0
        BY <1>6, GlyphWraps
      <4> QED BY <4>1, <4>2 DEF b
    <3>2. IF f.cursor_row + 1 < H THEN r.cursor_row = f.cursor_row + 1 ELSE r.cursor_row = H - 1
      BY <1>6, GlyphWraps
    <3> QED BY <3>1, <3>2
  <2> HIDE DEF r
  <2>2. k \in 0 .. r.cursor_row
    BY <1>1, <1>3, <2>1
  <2>3. n + 1 <= r.cursor_col + k * W
    <3>1. CASE m + 1 <= H - 1
      <4>1. k = m + 1
        BY <3>1
      <4> HIDE DEF k
      <4>2. k * W = m * W + W
        BY <1>3, <4>1
      <4> QED BY <1>1, <1>2, <1>3, <1>6, <2>1, <4>2
    <3>2. CASE ~(m + 1 <= H - 1)
      <4>1. k = H - 1
        BY <1>1, <1>3, <3>2
      <4> HIDE DEF k
      <4>2. k * W = (H - 1) * W
        BY <4>1
      <4>3. MAX_COMMAND \in Nat /\ MAX_COMMAND <= (H - 1) * W
        BY TerminalAssumption
      <4>4. (H - 1) * W \in Int
        BY <1>1
      <4> HIDE DEF W, H
      <4> QED BY <2>1, <4>2, <4>3, <4>4
    <3> QED BY <3>1, <3>2
  <2>4. ASSUME NEW l \in r.size - 1 - k .. r.size - 2 PROVE Len(r.buffer[l]) = W
    <3>1. l \in f.size - 1 - m .. f.size - 2 \/ l = f.size - 1
      BY <1>1, <1>3, <2>1
    <3>2. f.cursor_col + 1 = W
      BY <1>1, <1>6
    <3> QED BY <1>4, <2>1, <3>1, <3>2
  <2> HIDE DEF k
  <2>5. Held(r, n + 1)
    BY <2>2, <2>3, <2>4 DEF Held
  <2> QED BY <2>5 DEF r
<1>7. CASE ~(f.cursor_col + 1 < W) /\ ~(Line(f) < BUFFER_MAX_HEIGHT - 1)
  <2>1. r = [f EXCEPT !.dropped = TRUE]
    BY <1>7 DEF put_glyph
  <2>2. DOMAIN f = Fields
    BY OrderFacts DEF IsDisplay
  <2> QED BY <2>1, <2>2 DEF HasDropped, Fields
<1> QED BY <1>5, <1>6, <1>7

\* A character before the cursor in its line is erased there.
LEMMA EraseStays ==
    ASSUME NEW f, InOrder(f), f.is_cursor_viewable, f.cursor_col > 0
    PROVE  LET r == put_backspace(f)
           IN  /\ DOMAIN r = Fields /\ ~r.dropped /\ r.is_cursor_viewable
               /\ r.buffer = [f.buffer EXCEPT ![f.size - 1] = Front(@)]
               /\ r.size = f.size /\ r.cursor_col = f.cursor_col - 1
               /\ r.cursor_row = f.cursor_row /\ r.frame_row_pointer = f.frame_row_pointer
<1> DEFINE r == put_backspace(f)
           s == [f EXCEPT !.screen[f.cursor_row][f.cursor_col - 1] = Blank]
           h == [s EXCEPT !.cursor_col = @ - 1]
<1>1. /\ DOMAIN f = Fields /\ ~f.dropped /\ Line(f) = f.size - 1
      /\ f.cursor_col \in Nat /\ f.size - 1 \in Lines
  BY OrderFacts DEF IsDisplay, InOrder, WindowInOrder
<1>2. ~(f.cursor_col = 0)
  BY <1>1
<1>3. framebuffer_erase(f) = h
  BY DEF framebuffer_erase
<1>4. r = [h EXCEPT !.buffer[Line(h)] = Front(@)]
  BY <1>2, <1>3 DEF put_backspace
<1>5. /\ DOMAIN h = Fields /\ h.cursor_row = f.cursor_row /\ h.size = f.size
      /\ h.frame_row_pointer = f.frame_row_pointer
      /\ h.is_cursor_viewable = f.is_cursor_viewable /\ h.dropped = f.dropped
      /\ h.buffer = f.buffer
  BY <1>1 DEF Fields
<1>6. h.cursor_col = f.cursor_col - 1
  BY <1>1 DEF Fields
<1> HIDE DEF h
<1>7. Line(h) = f.size - 1
  BY <1>1, <1>5 DEF Line
<1>8. r = [h EXCEPT !.buffer[f.size - 1] = Front(@)]
  BY <1>4, <1>7
<1> HIDE DEF r
<1>9. r.buffer = [f.buffer EXCEPT ![f.size - 1] = Front(@)]
  BY <1>5, <1>8 DEF Fields
<1>10. /\ DOMAIN r = Fields /\ ~r.dropped /\ r.is_cursor_viewable /\ r.size = f.size
       /\ r.cursor_row = f.cursor_row /\ r.frame_row_pointer = f.frame_row_pointer
  BY <1>1, <1>5, <1>8 DEF Fields
<1>11. r.cursor_col = f.cursor_col - 1
  BY <1>5, <1>6, <1>8 DEF Fields
<1> QED BY <1>9, <1>10, <1>11 DEF r

\* In column 0 the line is taken back and the last character of the full line
\* above it is erased.
LEMMA EraseWraps ==
    ASSUME NEW f, InOrder(f), f.is_cursor_viewable, f.cursor_col = 0, f.cursor_row > 0,
           Len(f.buffer[f.size - 2]) = BUFFER_WIDTH_VIEW
    PROVE  LET r == put_backspace(f)
           IN  /\ DOMAIN r = Fields /\ ~r.dropped /\ r.is_cursor_viewable
               /\ r.buffer = [f.buffer EXCEPT ![f.size - 2] = Front(@)]
               /\ r.size = f.size - 1 /\ r.cursor_col = BUFFER_WIDTH_VIEW - 1
               /\ r.cursor_row = f.cursor_row - 1 /\ r.frame_row_pointer = f.frame_row_pointer
<1> DEFINE r == put_backspace(f)
           g == [f EXCEPT !.size = @ - 1]
           p == [g EXCEPT !.buffer[f.size - 2] = Front(@)]
           e == [p EXCEPT !.screen[f.cursor_row - 1][BUFFER_WIDTH_VIEW] = Blank]
           h == [e EXCEPT !.cursor_row = @ - 1, !.cursor_col = BUFFER_WIDTH_VIEW]
           b == [f.buffer EXCEPT ![f.size - 2] = Front(@)]
<1>1. /\ DOMAIN f = Fields /\ ~f.dropped /\ Line(f) = f.size - 1
      /\ f.buffer \in [Lines -> Seq(Glyphs)]
      /\ BUFFER_WIDTH_VIEW \in Nat /\ BUFFER_MAX_HEIGHT \in Nat
  BY OrderFacts DEF IsDisplay, InOrder, WindowInOrder
<1>2. /\ f.size \in Nat /\ f.cursor_row \in Nat /\ f.frame_row_pointer \in Nat
      /\ f.cursor_row + f.frame_row_pointer = f.size - 1 /\ f.size <= BUFFER_MAX_HEIGHT
      /\ f.size - 1 \in Lines /\ f.cursor_col = Len(f.buffer[f.size - 1])
  BY OrderFacts
<1>3. ~(Line(f) = 0) /\ Line(f) - 1 = f.size - 2 /\ f.size - 2 \in Lines
  <2>1. Line(f) = f.size - 1 /\ BUFFER_MAX_HEIGHT \in Nat
    BY <1>1
  <2>2. f.size >= 2
    BY <1>2
  <2>3. f.size - 2 \in Lines
    BY <1>2, <2>1, <2>2 DEF Lines
  <2> QED BY <1>2, <2>1, <2>2, <2>3
<1>4. f.buffer[Line(f)] = EmptyLine
  <2>1. f.buffer[f.size - 1] \in Seq(Glyphs) /\ Len(f.buffer[f.size - 1]) = 0
    BY <1>1, <1>2
  <2> QED BY <1>1, <2>1 DEF EmptyLine
<1>5. /\ DOMAIN p = Fields /\ p.cursor_row = f.cursor_row /\ p.cursor_col = f.cursor_col
      /\ p.frame_row_pointer = f.frame_row_pointer
      /\ p.is_cursor_viewable = f.is_cursor_viewable /\ p.dropped = f.dropped
  BY <1>1 DEF Fields
<1>6. p.size = f.size - 1
  BY <1>1 DEF Fields
<1>7. p.buffer = b
  BY <1>1 DEF Fields
<1>8. r = ToLineEnd(framebuffer_erase(p))
  <2>1. ~(f.cursor_col > 0) /\ Len(f.buffer[Line(f) - 1]) >= BUFFER_WIDTH_VIEW
    BY <1>1, <1>2, <1>3
  <2> QED BY <1>1, <1>3, <1>4, <2>1 DEF put_backspace
<1> HIDE DEF p, b
<1>9. framebuffer_erase(p) = h
  <2>1. ~(p.cursor_col > 0) /\ p.cursor_row > 0
    BY <1>2, <1>5
  <2> QED BY <1>5, <2>1 DEF framebuffer_erase
<1>10. /\ DOMAIN h = Fields /\ h.cursor_row = f.cursor_row - 1
       /\ h.frame_row_pointer = f.frame_row_pointer
       /\ h.is_cursor_viewable = f.is_cursor_viewable /\ h.dropped = f.dropped
       /\ h.buffer = b /\ h.size = f.size - 1
  <2>1. h.cursor_row = f.cursor_row - 1
    BY <1>5 DEF Fields
  <2> QED BY <1>5, <1>6, <1>7, <2>1 DEF Fields
<1> HIDE DEF h
<1>11. Line(h) = f.size - 2
  BY <1>2, <1>10 DEF Line
<1>12. Len(b[f.size - 2]) = BUFFER_WIDTH_VIEW - 1
  <2>1. f.buffer[f.size - 2] \in Seq(Glyphs) /\ b[f.size - 2] = Front(f.buffer[f.size - 2])
    BY <1>1, <1>3 DEF b
  <2> DEFINE s == f.buffer[f.size - 2]
  <2>2. s \in Seq(Glyphs) /\ Len(s) = BUFFER_WIDTH_VIEW /\ BUFFER_WIDTH_VIEW >= 1
    BY <2>1, OrderFacts
  <2> HIDE DEF s
  <2>3. Len(SubSeq(s, 1, Len(s) - 1)) = Len(s) - 1
    BY <1>1, <2>2
  <2> QED BY <2>1, <2>2, <2>3 DEF Front, s
<1>13. r = [h EXCEPT !.cursor_col = BUFFER_WIDTH_VIEW - 1]
  BY <1>8, <1>9, <1>10, <1>11, <1>12 DEF ToLineEnd
<1> HIDE DEF r
<1>14. /\ DOMAIN r = Fields /\ ~r.dropped /\ r.is_cursor_viewable
       /\ r.buffer = b /\ r.size = f.size - 1 /\ r.cursor_col = BUFFER_WIDTH_VIEW - 1
       /\ r.cursor_row = f.cursor_row - 1 /\ r.frame_row_pointer = f.frame_row_pointer
  BY <1>1, <1>10, <1>13 DEF Fields
<1> QED BY <1>14 DEF r, b

\* A line without its last character.
LEMMA FrontOfLine ==
    ASSUME NEW s \in Seq(Glyphs), Len(s) > 0
    PROVE  /\ Front(s) \in Seq(Glyphs) /\ Len(Front(s)) = Len(s) - 1
           /\ \A i \in 1 .. Len(s) - 1 : Front(s)[i] = s[i]
<1>1. Len(s) \in Nat
  OBVIOUS
<1> DEFINE n == Len(s) - 1
<1>2. n \in 0 .. Len(s) /\ n \in Nat
  BY <1>1
<1>3. /\ SubSeq(s, 1, n) \in Seq(Glyphs) /\ Len(SubSeq(s, 1, n)) = n
      /\ \A i \in 1 .. n : SubSeq(s, 1, n)[i] = s[i]
  <2> HIDE DEF n
  <2>1. \A i \in 1 .. n : i \in 1 .. Len(s)
    BY <1>1, <1>2
  <2>2. SubSeq(s, 1, n) \in Seq(Glyphs)
    BY <1>1, <1>2, <2>1
  <2>3. Len(SubSeq(s, 1, n)) = n
    BY <1>1, <1>2
  <2>4. \A i \in 1 .. n : SubSeq(s, 1, n)[i] = s[i]
    BY <1>1, <1>2
  <2> QED BY <2>2, <2>3, <2>4
<1> QED BY <1>3 DEF Front

\* Erasing a character of the command keeps the display in order and holds the
\* characters before it.
LEMMA EraseInOrder ==
    ASSUME NEW f, InOrder(f), f.is_cursor_viewable, NEW n \in Nat, n > 0, Held(f, n)
    PROVE  LET r == put_backspace(f)
           IN  InOrder(r) /\ r.is_cursor_viewable /\ Held(r, n - 1)
<1> DEFINE r == put_backspace(f)
           W == BUFFER_WIDTH_VIEW
<1>1. /\ W \in Nat /\ W >= 1 /\ BUFFER_MAX_HEIGHT \in Nat /\ BUFFER_HEIGHT_VIEW \in Nat
      /\ f.size \in Nat /\ f.size >= 1 /\ f.size <= BUFFER_MAX_HEIGHT
      /\ f.cursor_row \in Nat /\ f.cursor_row < BUFFER_HEIGHT_VIEW
      /\ f.cursor_col \in Nat /\ f.cursor_col < W
      /\ f.frame_row_pointer \in Nat
      /\ f.cursor_row + f.frame_row_pointer = f.size - 1
      /\ f.size - 1 \in Lines
  BY OrderFacts
<1>2. /\ f.buffer \in [Lines -> Seq(Glyphs)]
      /\ f.cursor_col = Len(f.buffer[f.size - 1])
      /\ \A l \in Lines : Len(f.buffer[l]) <= W
      /\ \A l \in Lines : l >= f.size => f.buffer[l] = EmptyLine
  BY DEF InOrder, LinesInOrder, IsDisplay
<1>3. PICK m \in 0 .. f.cursor_row :
         /\ n <= f.cursor_col + m * W
         /\ \A l \in f.size - 1 - m .. f.size - 2 : Len(f.buffer[l]) = W
  BY DEF Held
<1>4. m \in Nat /\ m <= f.cursor_row /\ m * W \in Int
  BY <1>1, <1>3, NextMultiple
<1>5. CASE f.cursor_col > 0
  <2> DEFINE b == [f.buffer EXCEPT ![f.size - 1] = Front(@)]
  <2>1. /\ DOMAIN r = Fields /\ ~r.dropped /\ r.is_cursor_viewable /\ r.buffer = b
        /\ r.size = f.size /\ r.cursor_col = f.cursor_col - 1
        /\ r.cursor_row = f.cursor_row /\ r.frame_row_pointer = f.frame_row_pointer
    BY <1>5, EraseStays
  <2> HIDE DEF r
  <2>2. /\ b \in [Lines -> Seq(Glyphs)] /\ Len(b[f.size - 1]) = f.cursor_col - 1
        /\ \A l \in Lines : l # f.size - 1 => b[l] = f.buffer[l]
    <3>1. /\ Front(f.buffer[f.size - 1]) \in Seq(Glyphs)
          /\ Len(Front(f.buffer[f.size - 1])) = f.cursor_col - 1
      BY <1>1, <1>2, <1>5, FrontOfLine
    <3> QED BY <1>1, <1>2, <3>1
  <2> HIDE DEF b
  <2>3. IsDisplay(r)
    BY <1>1, <2>1, <2>2 DEF IsDisplay
  <2>4. LinesInOrder(r)
    <3>1. ASSUME NEW l \in Lines PROVE Len(b[l]) <= W
      <4>1. CASE l = f.size - 1
        <5>1. Len(b[l]) = f.cursor_col - 1
          BY <2>2, <4>1
        <5> QED BY <1>1, <5>1
      <4>2. CASE l # f.size - 1
        BY <1>2, <2>2, <4>2
      <4> QED BY <4>1, <4>2
    <3>2. \A l \in Lines : l >= f.size => b[l] = EmptyLine
      <4>1. ASSUME NEW l \in Lines, l >= f.size PROVE l # f.size - 1
        BY <1>1, <4>1
      <4> QED BY <1>2, <2>2, <4>1
    <3>3. f.cursor_col - 1 \in LineCols
      BY <1>1, <1>5 DEF LineCols
    <3> QED BY <1>1, <2>1, <2>2, <3>1, <3>2, <3>3 DEF LinesInOrder
  <2>5. WindowInOrder(r)
    BY <2>1 DEF WindowInOrder, InOrder, Line
  <2>6. Held(r, n - 1)
    <3>1. ASSUME NEW l \in r.size - 1 - m .. r.size - 2 PROVE Len(r.buffer[l]) = W
      <4>1. l \in f.size - 1 - m .. f.size - 2
        BY <2>1
      <4>2. l \in Lines /\ l # f.size - 1
        BY <1>1, <1>4, <4>1 DEF Lines
      <4> QED BY <1>3, <2>1, <2>2, <4>1, <4>2
    <3>2. n - 1 <= r.cursor_col + m * W
      BY <1>1, <1>3, <1>4, <2>1
    <3> QED BY <1>4, <2>1, <3>1, <3>2 DEF Held
  <2> QED BY <2>1, <2>3, <2>4, <2>5, <2>6 DEF InOrder, r
<1>6. CASE ~(f.cursor_col > 0)
  <2> DEFINE b == [f.buffer EXCEPT ![f.size - 2] = Front(@)]
  <2>1. f.cursor_col = 0
    BY <1>1, <1>6
  <2>2. m # 0
    <3>1. ASSUME m = 0 PROVE m * W = 0
      BY <1>1, <3>1
    <3> QED BY <1>3, <2>1, <3>1
  <2>3. f.cursor_row > 0 /\ f.size >= 2
    BY <1>1, <1>4, <2>2
  <2>4. Len(f.buffer[f.size - 2]) = W
    <3>1. f.size - 2 \in f.size - 1 - m .. f.size - 2
      BY <1>1, <1>4, <2>2
    <3> QED BY <1>3, <3>1
  <2>5. /\ DOMAIN r = Fields /\ ~r.dropped /\ r.is_cursor_viewable /\ r.buffer = b
        /\ r.size = f.size - 1 /\ r.cursor_col = W - 1
        /\ r.cursor_row = f.cursor_row - 1 /\ r.frame_row_pointer = f.frame_row_pointer
    BY <2>1, <2>3, <2>4, EraseWraps
  <2> HIDE DEF r
  <2>6. f.size - 2 \in Lines
    BY <1>1, <2>3 DEF Lines
  <2>7. /\ b \in [Lines -> Seq(Glyphs)] /\ Len(b[f.size - 2]) = W - 1
        /\ \A l \in Lines : l # f.size - 2 => b[l] = f.buffer[l]
    <3>1. /\ Front(f.buffer[f.size - 2]) \in Seq(Glyphs)
          /\ Len(Front(f.buffer[f.size - 2])) = W - 1
      <4>1. f.buffer[f.size - 2] \in Seq(Glyphs) /\ Len(f.buffer[f.size - 2]) > 0
        BY <1>1, <1>2, <2>4, <2>6
      <4> QED BY <2>4, <4>1, FrontOfLine
    <3> QED BY <1>2, <2>6, <3>1
  <2> HIDE DEF b
  <2>8. IsDisplay(r)
    <3>1. /\ r.size \in Int /\ r.cursor_row \in Int /\ r.cursor_col \in Int
          /\ r.frame_row_pointer \in Int
      BY <1>1, <2>5
    <3> QED BY <2>5, <2>7, <3>1 DEF IsDisplay
  <2>9. LinesInOrder(r)
    <3>1. ASSUME NEW l \in Lines PROVE Len(b[l]) <= W
      <4>1. CASE l = f.size - 2
        <5>1. Len(b[l]) = W - 1
          BY <2>7, <4>1
        <5> QED BY <1>1, <5>1
      <4>2. CASE l # f.size - 2
        BY <1>2, <2>7, <4>2
      <4> QED BY <4>1, <4>2
    <3>2. ASSUME NEW l \in Lines, l >= f.size - 1 PROVE b[l] = EmptyLine
      <4>1. l # f.size - 2
        BY <1>1, <3>2
      <4>2. CASE l = f.size - 1
        <5>1. f.buffer[f.size - 1] \in Seq(Glyphs) /\ Len(f.buffer[f.size - 1]) = 0
          BY <1>1, <1>2, <2>1
        <5> QED BY <2>7, <4>1, <4>2, <5>1 DEF EmptyLine
      <4>3. CASE l # f.size - 1
        <5>1. l >= f.size
          BY <1>1, <3>2, <4>3 DEF Lines
        <5> QED BY <1>2, <2>7, <4>1, <5>1
      <4> QED BY <4>2, <4>3
    <3>3. W - 1 \in LineCols /\ f.size - 1 \in 1 .. BUFFER_MAX_HEIGHT
      BY <1>1, <2>3 DEF LineCols
    <3>4. r.size - 1 = f.size - 2
      BY <1>1, <2>5
    <3> QED BY <1>1, <2>5, <2>7, <3>1, <3>2, <3>3, <3>4 DEF LinesInOrder
  <2>10. WindowInOrder(r)
    <3>1. f.cursor_row - 1 \in ScreenRows /\ f.frame_row_pointer \in 0 .. f.size - 2
      BY <1>1, <2>3 DEF ScreenRows
    <3>2. Line(r) = r.size - 1 /\ r.size - 1 = f.size - 2
      BY <1>1, <2>5 DEF Line
    <3> QED BY <2>5, <3>1, <3>2 DEF WindowInOrder
  <2>11. Held(r, n - 1)
    <3> DEFINE k == m - 1
    <3>1. k \in 0 .. r.cursor_row
      BY <1>1, <1>4, <2>2, <2>5
    <3>2. n - 1 <= r.cursor_col + k * W
      <4>1. k \in Int /\ k + 1 = m /\ W \in Int
        BY <1>1, <1>4
      <4>2. m * W = k * W + W /\ k * W \in Int
        BY <4>1, NextMultiple
      <4> HIDE DEF k
      <4> QED BY <1>1, <1>3, <2>1, <2>5, <4>2
    <3>3. ASSUME NEW l \in r.size - 1 - k .. r.size - 2 PROVE Len(r.buffer[l]) = W
      <4>1. l \in f.size - 1 - m .. f.size - 2 /\ l \in Lines /\ l # f.size - 2
        BY <1>1, <1>4, <2>5 DEF Lines
      <4> QED BY <1>3, <2>5, <2>7, <4>1
    <3> HIDE DEF k
    <3> QED BY <3>1, <3>2, <3>3 DEF Held
  <2> QED BY <2>5, <2>8, <2>9, <2>10, <2>11 DEF InOrder, r
<1> QED BY <1>5, <1>6

\* The cell of the erased character is blanked, or is one in the last column.
LEMMA EraseScreen ==
    ASSUME NEW f, InOrder(f), f.is_cursor_viewable
    PROVE  LET r == put_backspace(f)
           IN  /\ f.cursor_col > 0 =>
                     r.screen = [f.screen EXCEPT ![f.cursor_row][f.cursor_col - 1] = Blank]
               /\ (/\ f.cursor_col = 0 /\ f.cursor_row > 0
                   /\ Len(f.buffer[f.size - 2]) = BUFFER_WIDTH_VIEW) =>
                     r.screen = [f.screen EXCEPT ![f.cursor_row - 1][BUFFER_WIDTH_VIEW] = Blank]
<1> DEFINE r == put_backspace(f)
<1>1. DOMAIN f = Fields /\ Line(f) = f.size - 1
  BY OrderFacts DEF IsDisplay, InOrder, WindowInOrder
<1>2. /\ f.cursor_col \in Nat /\ f.cursor_row \in Nat /\ f.frame_row_pointer \in Nat
      /\ f.cursor_row + f.frame_row_pointer = f.size - 1 /\ f.size \in Nat
      /\ BUFFER_WIDTH_VIEW \in Nat
  BY OrderFacts
<1>3. ASSUME f.cursor_col > 0
      PROVE  r.screen = [f.screen EXCEPT ![f.cursor_row][f.cursor_col - 1] = Blank]
  <2> DEFINE s == [f EXCEPT !.screen[f.cursor_row][f.cursor_col - 1] = Blank]
             h == [s EXCEPT !.cursor_col = @ - 1]
  <2>1. framebuffer_erase(f) = h /\ ~(f.cursor_col = 0)
    <3>1. ~(f.cursor_col = 0)
      BY <1>2, <1>3
    <3> QED BY <1>3, <3>1 DEF framebuffer_erase
  <2>2. r = [h EXCEPT !.buffer[Line(h)] = Front(@)]
    BY <1>3, <2>1 DEF put_backspace
  <2>3. /\ DOMAIN h = Fields
        /\ h.screen = [f.screen EXCEPT ![f.cursor_row][f.cursor_col - 1] = Blank]
    BY <1>1 DEF Fields
  <2> HIDE DEF h
  <2> QED BY <2>2, <2>3 DEF Fields
<1>4. ASSUME f.cursor_col = 0, f.cursor_row > 0, Len(f.buffer[f.size - 2]) = BUFFER_WIDTH_VIEW
      PROVE  r.screen = [f.screen EXCEPT ![f.cursor_row - 1][BUFFER_WIDTH_VIEW] = Blank]
  <2> DEFINE g == IF f.buffer[Line(f)] = EmptyLine /\ Line(f) = f.size - 1
                  THEN [f EXCEPT !.size = @ - 1] ELSE f
             p == [g EXCEPT !.buffer[Line(f) - 1] = Front(@)]
             e == [p EXCEPT !.screen[p.cursor_row - 1][BUFFER_WIDTH_VIEW] = Blank]
             h == [e EXCEPT !.cursor_row = @ - 1, !.cursor_col = BUFFER_WIDTH_VIEW]
  <2>1. /\ ~(Line(f) = 0) /\ ~(f.cursor_col > 0)
        /\ Len(f.buffer[Line(f) - 1]) >= BUFFER_WIDTH_VIEW
    <3>1. Line(f) - 1 = f.size - 2 /\ ~(Line(f) = 0)
      BY <1>1, <1>2, <1>4
    <3> QED BY <1>2, <1>4, <3>1
  <2>2. r = ToLineEnd(framebuffer_erase(p))
    BY <2>1 DEF put_backspace
  <2>3. /\ DOMAIN g = Fields /\ g.screen = f.screen /\ g.cursor_row = f.cursor_row
        /\ g.cursor_col = f.cursor_col
    BY <1>1 DEF Fields
  <2> HIDE DEF g
  <2>4. /\ DOMAIN p = Fields /\ p.screen = f.screen /\ p.cursor_row = f.cursor_row
        /\ p.cursor_col = f.cursor_col
    BY <2>3 DEF Fields
  <2> HIDE DEF p
  <2>5. framebuffer_erase(p) = h
    <3>1. ~(p.cursor_col > 0) /\ p.cursor_row > 0
      BY <1>4, <2>1, <2>4
    <3> QED BY <3>1 DEF framebuffer_erase
  <2>6. /\ DOMAIN h = Fields
        /\ h.screen = [f.screen EXCEPT ![f.cursor_row - 1][BUFFER_WIDTH_VIEW] = Blank]
    BY <2>4 DEF Fields
  <2> HIDE DEF h
  <2>7. r = [h EXCEPT !.cursor_col = Len(h.buffer[Line(h)])]
    BY <2>2, <2>5 DEF ToLineEnd
  <2> QED BY <2>6, <2>7 DEF Fields
<1> QED BY <1>3, <1>4

\* So the screen shows what is left of the command.
LEMMA EraseShown ==
    ASSUME NEW f, InOrder(f), f.is_cursor_viewable, Shown(f), NEW n \in Nat, n > 0, Held(f, n)
    PROVE  Shown(put_backspace(f))
<1> DEFINE r == put_backspace(f)
           p == f.frame_row_pointer
           row == f.cursor_row
           col == f.cursor_col
           W == BUFFER_WIDTH_VIEW
<1>1. /\ f.size \in Nat /\ f.size <= BUFFER_MAX_HEIGHT /\ p \in Nat /\ p < f.size
      /\ row \in Nat /\ row < BUFFER_HEIGHT_VIEW /\ col \in Nat /\ col < W
      /\ row + p = f.size - 1 /\ f.size - 1 \in Lines /\ BUFFER_MAX_HEIGHT \in Nat
      /\ W \in Nat /\ W >= 1 /\ BUFFER_HEIGHT_VIEW \in Nat
  BY OrderFacts
<1>2. /\ f.buffer \in [Lines -> Seq(Glyphs)] /\ Len(f.buffer[f.size - 1]) = col
      /\ \A l \in Lines : Len(f.buffer[l]) <= W
  BY DEF InOrder, LinesInOrder, IsDisplay
<1>3. f.screen \in [ScreenRows -> [ScreenCols -> Cells]]
  BY DEF Shown
<1>4. ASSUME NEW i \in ScreenRows, NEW j \in ScreenCols PROVE CellShown(f, i, j)
  <2>1. f.size - p <= BUFFER_HEIGHT_VIEW /\ BUFFER_HEIGHT_VIEW < BYTE /\ BYTE \in Nat
    BY <1>1, DisplayAssumption
  <2>2. f.size - p < BYTE
    BY <1>1, <2>1
  <2> QED BY <2>2 DEF Shown
<1>5. \A i \in ScreenRows : i \in Nat
  BY <1>1 DEF ScreenRows
<1>6. \A j \in ScreenCols : j \in Nat /\ j <= W
  BY <1>1 DEF ScreenCols
<1>7. CASE col > 0
  <2>1. r.screen = [f.screen EXCEPT ![row][col - 1] = Blank]
    BY <1>7, EraseScreen
  <2>2. /\ r.buffer = [f.buffer EXCEPT ![f.size - 1] = Front(@)]
        /\ r.size = f.size /\ r.frame_row_pointer = p
    BY <1>7, EraseStays
  <2> HIDE DEF r
  <2>3. row \in ScreenRows /\ col - 1 \in ScreenCols
    BY <1>1, <1>7 DEF ScreenRows, ScreenCols
  <2>4. /\ r.screen \in [ScreenRows -> [ScreenCols -> Cells]]
        /\ r.screen[row][col - 1] = Blank
        /\ \A i \in ScreenRows, j \in ScreenCols :
              i # row \/ j # col - 1 => r.screen[i][j] = f.screen[i][j]
    BY <1>3, <2>1, <2>3 DEF Cells
  <2>5. /\ Len(r.buffer[f.size - 1]) = col - 1
        /\ \A j \in 1 .. col - 1 : r.buffer[f.size - 1][j] = f.buffer[f.size - 1][j]
        /\ \A l \in Lines : l # f.size - 1 => r.buffer[l] = f.buffer[l]
    <3>1. f.buffer[f.size - 1] \in Seq(Glyphs) /\ Len(f.buffer[f.size - 1]) > 0
      BY <1>1, <1>2, <1>7
    <3>2. r.buffer[f.size - 1] = Front(f.buffer[f.size - 1])
      BY <1>1, <1>2, <2>2
    <3>3. \A l \in Lines : l # f.size - 1 => r.buffer[l] = f.buffer[l]
      BY <1>2, <2>2
    <3> DEFINE t == f.buffer[f.size - 1]
    <3>4. Len(t) = col /\ t \in Seq(Glyphs) /\ Len(t) > 0
      BY <1>2, <3>1
    <3> HIDE DEF t
    <3>5. Len(Front(t)) = col - 1 /\ \A j \in 1 .. col - 1 : Front(t)[j] = t[j]
      BY <3>4, FrontOfLine
    <3> QED BY <3>2, <3>3, <3>5 DEF t
  <2>6. ASSUME NEW i \in ScreenRows, NEW j \in ScreenCols PROVE CellShown(r, i, j)
    <3>1. CellShown(f, i, j)
      BY <1>4
    <3>2. i \in Nat /\ j \in Nat
      BY <1>5, <1>6
    <3>3. CASE i = row
      <4>1. i + p = f.size - 1 /\ i + p < f.size
        BY <1>1, <3>3
      <4>2. Inside(r, i, j) <=> j < col - 1
        BY <2>2, <2>5, <4>1 DEF Inside
      <4>3. Inside(f, i, j) <=> j < col
        BY <1>2, <4>1 DEF Inside
      <4>4. CASE j = col - 1
        <5>1. ~Inside(r, i, j) /\ r.screen[i][j] = Blank
          BY <1>1, <2>4, <3>3, <4>2, <4>4
        <5> QED BY <5>1 DEF CellShown
      <4>5. CASE j # col - 1
        <5>1. Inside(r, i, j) <=> Inside(f, i, j)
          <6>1. j < col - 1 <=> j < col
            BY <1>1, <3>2, <4>5
          <6> QED BY <4>2, <4>3, <6>1
        <5>2. Inside(f, i, j) => j + 1 \in 1 .. col - 1
          BY <1>1, <3>2, <4>3, <4>5
        <5>3. Inside(f, i, j) => r.buffer[i + p][j + 1] = f.buffer[i + p][j + 1]
          BY <2>5, <4>1, <5>2
        <5>4. r.screen[i][j] = f.screen[i][j]
          BY <2>4, <4>5
        <5> QED BY <2>2, <3>1, <5>1, <5>3, <5>4 DEF CellShown
      <4> QED BY <4>4, <4>5
    <3>4. CASE i # row
      <4>1. r.screen[i][j] = f.screen[i][j]
        BY <2>4, <3>4
      <4>2. i + p < f.size => r.buffer[i + p] = f.buffer[i + p]
        <5>1. i + p # f.size - 1 /\ (i + p < f.size => i + p \in Lines)
          BY <1>1, <3>2, <3>4 DEF Lines
        <5> QED BY <2>5, <5>1
      <4> QED BY <2>2, <3>1, <4>1, <4>2 DEF CellShown, Inside
    <3> QED BY <3>3, <3>4
  <2>7. Shown(r)
    BY <2>4, <2>6 DEF Shown
  <2> QED BY <2>7 DEF r
<1>8. CASE ~(col > 0)
  <2>1. col = 0
    BY <1>1, <1>8
  <2>2. row > 0 /\ Len(f.buffer[f.size - 2]) = W
    <3>1. PICK m \in 0 .. row :
             /\ n <= col + m * W
             /\ \A l \in f.size - 1 - m .. f.size - 2 : Len(f.buffer[l]) = W
      BY DEF Held
    <3>2. m # 0
      <4>1. ASSUME m = 0 PROVE m * W = 0
        BY <1>1, <4>1
      <4> QED BY <2>1, <3>1, <4>1
    <3>3. m \in Nat /\ m >= 1 /\ m <= row
      BY <1>1, <3>2
    <3>4. f.size - 2 \in f.size - 1 - m .. f.size - 2
      BY <1>1, <3>3
    <3>5. Len(f.buffer[f.size - 2]) = W
      BY <3>1, <3>4
    <3>6. row > 0
      BY <1>1, <3>3
    <3> QED BY <3>5, <3>6
  <2>3. r.screen = [f.screen EXCEPT ![row - 1][W] = Blank]
    BY <2>1, <2>2, EraseScreen
  <2>4. /\ r.buffer = [f.buffer EXCEPT ![f.size - 2] = Front(@)]
        /\ r.size = f.size - 1 /\ r.frame_row_pointer = p
    BY <2>1, <2>2, EraseWraps
  <2> HIDE DEF r
  <2>5. row - 1 \in ScreenRows /\ W \in ScreenCols /\ f.size - 2 \in Lines
    <3>1. row - 1 \in ScreenRows
      BY <1>1, <2>2 DEF ScreenRows
    <3>2. W \in ScreenCols
      BY <1>1 DEF ScreenCols
    <3>3. f.size - 2 \in Lines
      BY <1>1, <2>2 DEF Lines
    <3> QED BY <3>1, <3>2, <3>3
  <2>6. /\ r.screen \in [ScreenRows -> [ScreenCols -> Cells]]
        /\ r.screen[row - 1][W] = Blank
        /\ \A i \in ScreenRows, j \in ScreenCols :
              i # row - 1 \/ j # W => r.screen[i][j] = f.screen[i][j]
    BY <1>3, <2>3, <2>5 DEF Cells
  <2>7. /\ Len(r.buffer[f.size - 2]) = W - 1
        /\ \A j \in 1 .. W - 1 : r.buffer[f.size - 2][j] = f.buffer[f.size - 2][j]
        /\ \A l \in Lines : l # f.size - 2 => r.buffer[l] = f.buffer[l]
    <3>1. f.buffer[f.size - 2] \in Seq(Glyphs) /\ Len(f.buffer[f.size - 2]) > 0
      BY <1>1, <1>2, <2>2, <2>5
    <3>2. r.buffer[f.size - 2] = Front(f.buffer[f.size - 2])
      BY <1>2, <2>4, <2>5
    <3>3. \A l \in Lines : l # f.size - 2 => r.buffer[l] = f.buffer[l]
      BY <1>2, <2>4
    <3> DEFINE t == f.buffer[f.size - 2]
    <3>4. Len(t) = W /\ t \in Seq(Glyphs) /\ Len(t) > 0
      BY <2>2, <3>1
    <3> HIDE DEF t
    <3>5. Len(Front(t)) = W - 1 /\ \A j \in 1 .. W - 1 : Front(t)[j] = t[j]
      BY <3>4, FrontOfLine
    <3> QED BY <3>2, <3>3, <3>5 DEF t
  <2>8. ASSUME NEW i \in ScreenRows, NEW j \in ScreenCols PROVE CellShown(r, i, j)
    <3>1. CellShown(f, i, j)
      BY <1>4
    <3>2. i \in Nat /\ j \in Nat /\ j <= W
      BY <1>5, <1>6
    <3>3. CASE i = row - 1
      <4>1. i + p = f.size - 2 /\ i + p < f.size /\ i + p < f.size - 1
        BY <1>1, <3>3
      <4>2. Inside(r, i, j) <=> j < W - 1
        BY <2>4, <2>7, <4>1 DEF Inside
      <4>3. Inside(f, i, j) <=> j < W
        BY <2>2, <4>1 DEF Inside
      <4>4. CASE j = W
        <5>1. ~Inside(r, i, j) /\ r.screen[i][j] = Blank
          BY <1>1, <2>6, <3>3, <4>2, <4>4
        <5> QED BY <5>1 DEF CellShown
      <4>5. CASE j = W - 1
        <5>1. ~Inside(r, i, j)
          BY <1>1, <4>2, <4>5
        <5> QED BY <4>5, <5>1 DEF CellShown
      <4>6. CASE j # W /\ j # W - 1
        <5>1. Inside(r, i, j) /\ Inside(f, i, j) /\ j + 1 \in 1 .. W - 1 /\ j # W - 1
          BY <1>1, <3>2, <4>2, <4>3, <4>6
        <5>2. r.buffer[i + p][j + 1] = f.buffer[i + p][j + 1]
          BY <2>7, <4>1, <5>1
        <5>3. r.screen[i][j] = f.screen[i][j]
          BY <2>6, <4>6
        <5> QED BY <2>4, <3>1, <5>1, <5>2, <5>3 DEF CellShown
      <4> QED BY <4>4, <4>5, <4>6
    <3>4. CASE i # row - 1
      <4>1. r.screen[i][j] = f.screen[i][j]
        BY <2>6, <3>4
      <4>2. Inside(r, i, j) <=> Inside(f, i, j)
        <5>1. CASE i + p < f.size - 1
          <6>1. i + p # f.size - 2 /\ i + p \in Lines /\ i + p < f.size
            BY <1>1, <3>2, <3>4, <5>1 DEF Lines
          <6>2. r.buffer[i + p] = f.buffer[i + p]
            BY <2>7, <6>1
          <6> QED BY <2>4, <5>1, <6>1, <6>2 DEF Inside
        <5>2. CASE ~(i + p < f.size - 1)
          <6>1. ~Inside(r, i, j)
            BY <2>4, <5>2 DEF Inside
          <6>2. i + p < f.size => i + p = f.size - 1
            BY <1>1, <3>2, <5>2
          <6>3. ~Inside(f, i, j)
            BY <1>2, <2>1, <3>2, <6>2 DEF Inside
          <6> QED BY <6>1, <6>3
        <5> QED BY <5>1, <5>2
      <4>3. Inside(f, i, j) => r.buffer[i + p] = f.buffer[i + p]
        <5>1. i + p # f.size - 2 /\ (i + p < f.size => i + p \in Lines)
          BY <1>1, <3>2, <3>4 DEF Lines
        <5> QED BY <2>7, <5>1 DEF Inside
      <4> QED BY <2>4, <3>1, <4>1, <4>2, <4>3 DEF CellShown
    <3> QED BY <3>3, <3>4
  <2>9. Shown(r)
    BY <2>6, <2>8 DEF Shown
  <2> QED BY <2>9 DEF r
<1> QED BY <1>7, <1>8

-----------------------------------------------------------------------------
(* Scrolling and the clock's cells.                                        *)

\* A scroll moves only the window; it starts with the cursor in the bottom row
\* or with nothing above the screen.
LEMMA ScrollInOrder ==
    ASSUME NEW f, InOrder(f), NEW c \in {ARROW_UP, ARROW_DOWN},
           c = ARROW_UP /\ f.frame_row_pointer > 0 => f.cursor_row = BUFFER_HEIGHT_VIEW - 1,
           NEW n, Held(f, n)
    PROVE  LET r == move_screen(f, c)
           IN  InOrder(r) /\ Held(r, n)
<1> DEFINE r == move_screen(f, c)
           p == f.frame_row_pointer
           H == BUFFER_HEIGHT_VIEW
           q == CASE c = ARROW_UP /\ p > 0 -> p - 1
                  [] c = ARROW_DOWN /\ p + H < f.size -> p + 1
                  [] OTHER -> p
           seen == f.size > q /\ f.size <= q + H
<1>1. /\ H \in Nat /\ H >= 1
      /\ f.size \in Nat /\ f.size >= 1
      /\ f.cursor_row \in Nat /\ f.cursor_row < H
      /\ p \in Nat /\ p < f.size
  BY OrderFacts
<1>2. f.is_cursor_viewable => f.cursor_row + p = f.size - 1
  BY OrderFacts
<1>3. ~f.is_cursor_viewable => f.cursor_row = H - 1 /\ p + H < f.size
  BY DEF InOrder, WindowInOrder
<1>4. IsDisplay(f) /\ ~f.dropped /\ LinesInOrder(f)
  BY DEF InOrder
<1>5. /\ q = IF c = ARROW_UP /\ p > 0 THEN p - 1
             ELSE IF c = ARROW_DOWN /\ p + H < f.size THEN p + 1 ELSE p
  BY DEF ARROW_UP, ARROW_DOWN
<1> HIDE DEF q
<1>6. /\ DOMAIN r = Fields /\ r.buffer = f.buffer /\ r.size = f.size
      /\ r.cursor_row = f.cursor_row /\ r.cursor_col = f.cursor_col
      /\ r.frame_row_pointer = q /\ r.dropped = f.dropped
      /\ r.is_cursor_viewable = seen
  BY <1>4 DEF move_screen, Redraw, IsDisplay, Fields, q
<1> HIDE DEF r
<1>7. /\ q \in 0 .. f.size - 1
      /\ seen => f.cursor_row + q = f.size - 1
      /\ ~seen => f.cursor_row = H - 1 /\ q + H < f.size
  <2>1. CASE f.is_cursor_viewable
    <3>1. f.cursor_row + p = f.size - 1
      BY <1>2, <2>1
    <3> QED BY <1>1, <1>5, <3>1
  <2>2. CASE ~f.is_cursor_viewable
    <3>1. f.cursor_row = H - 1 /\ p + H < f.size
      BY <1>3, <2>2
    <3> QED BY <1>1, <1>5, <3>1
  <2> QED BY <2>1, <2>2
<1>8. IsDisplay(r)
  <2>1. q \in Int /\ seen \in BOOLEAN
    BY <1>1, <1>7
  <2> QED BY <1>4, <1>6, <2>1 DEF IsDisplay
<1>9. LinesInOrder(r)
  BY <1>4, <1>6 DEF LinesInOrder
<1>10. WindowInOrder(r)
  <2>1. f.cursor_row \in ScreenRows
    BY <1>1 DEF ScreenRows
  <2> HIDE DEF seen
  <2> QED BY <1>6, <1>7, <2>1 DEF WindowInOrder, Line
<1>11. Held(r, n)
  BY <1>6 DEF Held
<1> QED BY <1>4, <1>6, <1>8, <1>9, <1>10, <1>11 DEF InOrder, r

\* Only cells of the screen are drawn.
LEMMA ClockInOrder ==
    ASSUME NEW f, NEW row, NEW col, NEW c, NEW n
    PROVE  LET r == framebuffer_write(f, row, col, c)
           IN  /\ HasDropped(f) => HasDropped(r)
               /\ InOrder(f) /\ Held(f, n) =>
                     /\ InOrder(r) /\ Held(r, n)
                     /\ r.cursor_row = f.cursor_row /\ r.frame_row_pointer = f.frame_row_pointer
<1> DEFINE r == framebuffer_write(f, row, col, c)
<1>1. HasDropped(f) => HasDropped(r)
  BY DEF framebuffer_write, HasDropped
<1>2. ASSUME InOrder(f), Held(f, n)
      PROVE  /\ InOrder(r) /\ Held(r, n)
             /\ r.cursor_row = f.cursor_row /\ r.frame_row_pointer = f.frame_row_pointer
  <2>1. DOMAIN f = Fields
    BY <1>2 DEF InOrder, IsDisplay
  <2>2. /\ DOMAIN r = Fields /\ r.buffer = f.buffer /\ r.size = f.size
        /\ r.cursor_row = f.cursor_row /\ r.cursor_col = f.cursor_col
        /\ r.frame_row_pointer = f.frame_row_pointer /\ r.dropped = f.dropped
        /\ r.is_cursor_viewable = f.is_cursor_viewable
    BY <2>1 DEF framebuffer_write, Fields
  <2> HIDE DEF r
  <2>3. IsDisplay(r) /\ LinesInOrder(r) /\ WindowInOrder(r)
    BY <1>2, <2>2 DEF InOrder, IsDisplay, LinesInOrder, WindowInOrder, Line
  <2> QED BY <1>2, <2>2, <2>3 DEF InOrder, Held
<1> QED BY <1>1, <1>2

\* A scroll is drawn by the loop ...
LEMMA ScrollShown ==
    ASSUME NEW f, InOrder(f), NEW c, InOrder(move_screen(f, c))
    PROVE  Shown(move_screen(f, c))
<1> DEFINE r == move_screen(f, c)
<1>1. DOMAIN f = Fields
  BY OrderFacts DEF IsDisplay
<1>2. Redrawn(r)
  BY <1>1 DEF Redrawn, move_screen, Redraw, Fields
<1> QED BY <1>2, RedrawnShown

\* ... and the clock writes its own cells only.
LEMMA ClockShown ==
    ASSUME NEW f, InOrder(f), Shown(f), NEW cell \in ClockCells
    PROVE  Shown(framebuffer_write(f, cell[1], cell[2], "0"))
<1> DEFINE r == framebuffer_write(f, cell[1], cell[2], "0")
<1>1. /\ cell[1] \in ScreenRows /\ cell[2] \in ScreenCols /\ cell = <<cell[1], cell[2]>>
  BY TerminalAssumption
<1>2. DOMAIN f = Fields
  BY OrderFacts DEF IsDisplay
<1>3. /\ r.screen = [f.screen EXCEPT ![cell[1]][cell[2]] = "0"]
      /\ r.buffer = f.buffer /\ r.size = f.size /\ r.frame_row_pointer = f.frame_row_pointer
  BY <1>2 DEF framebuffer_write, Fields
<1> HIDE DEF r
<1>4. f.screen \in [ScreenRows -> [ScreenCols -> Cells]]
  BY DEF Shown
<1>5. /\ r.screen \in [ScreenRows -> [ScreenCols -> Cells]]
      /\ \A i \in ScreenRows, j \in ScreenCols :
            i # cell[1] \/ j # cell[2] => r.screen[i][j] = f.screen[i][j]
  BY <1>1, <1>3, <1>4 DEF Cells
<1>6. ASSUME r.size - r.frame_row_pointer < BYTE, NEW i \in ScreenRows, NEW j \in ScreenCols
      PROVE  CellShown(r, i, j)
  <2>1. CellShown(f, i, j)
    BY <1>3, <1>6 DEF Shown
  <2>2. CASE i = cell[1] /\ j = cell[2]
    BY <1>1, <2>2 DEF CellShown
  <2>3. CASE i # cell[1] \/ j # cell[2]
    BY <1>3, <1>5, <2>1, <2>3 DEF CellShown, Inside
  <2> QED BY <2>2, <2>3
<1>7. Shown(r)
  BY <1>5, <1>6 DEF Shown
<1> QED BY <1>7 DEF r

-----------------------------------------------------------------------------
(* The typing loop.                                                        *)

KeyboardFields == {"keyboard_input_on", "capslock", "left_shift", "right_shift",
                   "keyboard_buffer"}

\* Where ScrollsFromBottom lets the user scroll up from.
FromBottom(f) == f.frame_row_pointer > 0 => f.cursor_row = BUFFER_HEIGHT_VIEW - 1

\* An arrow up waits or is in the loop's hands, and nothing moves the cursor before
\* it is acted on.
KeysInv ==
    /\ DOMAIN keyboard_state = KeyboardFields
    /\ keyboard_state.keyboard_buffer = ARROW_UP => pc = "get"
    /\ buf = ARROW_UP => pc \in {"act", "move"}
    /\ pc = "move" => buf \in {ARROW_UP, ARROW_DOWN}

DisplayInv ==
    \/ HasDropped(fb)
    \/ /\ InOrder(fb) /\ Shown(fb)
       /\ Held(fb, Len(command))
       /\ ARROW_UP \in {keyboard_state.keyboard_buffer, buf} => FromBottom(fb)

TerminalInv ==
    /\ KeysInv
    /\ command \in Seq(Glyphs)
    /\ DisplayInv

\* The constant parts of the assumptions that the steps use.
LEMMA NoCharIsNone ==
    NoChar # ARROW_UP /\ NoChar # ARROW_DOWN /\ NoChar \notin Glyphs
BY TerminalAssumption DEF ControlChars

\* A new prompt begins an empty command.
LEMMA PrintableInv ==
    ASSUME NEW f, Printable(f)
    PROVE  HasDropped(f) \/ (InOrder(f) /\ Shown(f) /\ Held(f, 0))
<1>1. ASSUME InOrder(f) PROVE Held(f, 0)
  <2>1. f.cursor_row \in Nat /\ f.cursor_col \in Nat /\ f.size \in Nat /\ BUFFER_WIDTH_VIEW \in Nat
    BY <1>1, OrderFacts
  <2>2. 0 * BUFFER_WIDTH_VIEW = 0
    BY <2>1
  <2>3. 0 \in 0 .. f.cursor_row /\ 0 <= f.cursor_col + 0 * BUFFER_WIDTH_VIEW
    BY <2>1, <2>2
  <2>4. f.size - 1 - 0 .. f.size - 2 = {}
    BY <2>1
  <2> QED BY <2>3, <2>4 DEF Held
<1> QED BY <1>1 DEF Printable

\* The prompt is text.
LEMMA PromptInv ==
    ASSUME NEW f, Printable(f)
    PROVE  LET r == puts(f, Prompt)
           IN  HasDropped(r) \/ (InOrder(r) /\ Shown(r) /\ Held(r, 0))
<1>1. Prompt \in Seq(Glyphs \cup {NewLine})
  <2>1. Prompt \in Seq(Glyphs)
    BY TerminalAssumption
  <2> QED BY <2>1
<1> QED BY <1>1, TextPrintable, PrintableInv

\* The invariant holds when the kernel has booted.
LEMMA TerminalInit ==
    Init => TerminalInv
<1> SUFFICES ASSUME Init PROVE TerminalInv
  OBVIOUS
<1>1. KeysInv
  BY NoCharIsNone DEF Init, KeyboardInit, KeysInv, KeyboardFields, ARROW_UP
<1>2. command \in Seq(Glyphs) /\ Len(command) = 0
  BY DEF Init
<1>3. HasDropped(fb) \/ (InOrder(fb) /\ Shown(fb) /\ Held(fb, 0))
  BY ClearPrintable, PrintableInv DEF Init
<1>4. ~(ARROW_UP \in {keyboard_state.keyboard_buffer, buf})
  BY NoCharIsNone DEF Init, KeyboardInit
<1> QED BY <1>1, <1>2, <1>3, <1>4 DEF TerminalInv, DisplayInv

\* The end of a round leaves no character in the loop's hands.
LEMMA ReturnInv ==
    ASSUME KeysInv, Return, pc # "get"
    PROVE  KeysInv' /\ ~(ARROW_UP \in {keyboard_state.keyboard_buffer, buf})'
<1>1. keyboard_state.keyboard_buffer # ARROW_UP
  BY DEF KeysInv
<1> QED BY <1>1, NoCharIsNone DEF KeysInv, Return

\* A round that ends with an empty command after a new prompt.
LEMMA NewPrompt ==
    ASSUME TerminalInv, NEW f, Printable(f), print_working_dir(f), KeysInv',
           ~(ARROW_UP \in {keyboard_state.keyboard_buffer, buf})'
    PROVE  TerminalInv'
<1>1. command' \in Seq(Glyphs) /\ Len(command') = 0
  BY DEF print_working_dir
<1>2. HasDropped(fb') \/ (InOrder(fb') /\ Shown(fb') /\ Held(fb', 0))
  BY PromptInv DEF print_working_dir
<1> QED BY <1>1, <1>2 DEF TerminalInv, DisplayInv

\* Erasing a character of the command.
LEMMA EraseInv ==
    ASSUME TerminalInv, EraseChar
    PROVE  TerminalInv'
<1>1. KeysInv' /\ ~(ARROW_UP \in {keyboard_state.keyboard_buffer, buf})'
  BY ReturnInv DEF TerminalInv, EraseChar
<1>2. /\ command' \in Seq(Glyphs) /\ Len(command) \in Nat /\ Len(command) > 0
      /\ Len(command') = Len(command) - 1
  <2>1. command \in Seq(Glyphs) /\ command # <<>> /\ command' = Front(command)
    BY DEF TerminalInv, EraseChar
  <2>2. Len(command) \in Nat /\ Len(command) > 0
    BY <2>1
  <2> QED BY <2>1, <2>2, FrontOfLine
<1>3. fb' = handle_new_char(fb, Backspace) /\ fb.is_cursor_viewable
  BY DEF EraseChar, check
<1>4. CASE HasDropped(fb)
  <2>1. HasDropped(fb')
    BY <1>3, <1>4, CharDropped
  <2> QED BY <1>1, <1>2, <2>1 DEF TerminalInv, DisplayInv
<1>5. CASE InOrder(fb) /\ Shown(fb) /\ Held(fb, Len(command))
  <2>1. fb' = put_backspace(fb)
    BY <1>3, <1>5, CharIs
  <2>2. InOrder(fb') /\ Held(fb', Len(command) - 1)
    BY <1>2, <1>3, <1>5, <2>1, EraseInOrder
  <2>3. Shown(fb')
    BY <1>2, <1>3, <1>5, <2>1, EraseShown
  <2> QED BY <1>1, <1>2, <2>2, <2>3 DEF TerminalInv, DisplayInv
<1> QED BY <1>4, <1>5 DEF TerminalInv, DisplayInv

\* Typing a character of the command.
LEMMA TypeInv ==
    ASSUME TerminalInv, TypeChar
    PROVE  TerminalInv'
<1>1. KeysInv' /\ ~(ARROW_UP \in {keyboard_state.keyboard_buffer, buf})'
  BY ReturnInv DEF TerminalInv, TypeChar
<1>2. /\ command' \in Seq(Glyphs) /\ Len(command) \in Nat /\ Len(command) < MAX_COMMAND
      /\ Len(command') = Len(command) + 1
  BY DEF TerminalInv, TypeChar
<1>3. fb' = handle_new_char(fb, buf) /\ fb.is_cursor_viewable /\ buf \in Glyphs
  BY DEF TypeChar, check
<1>4. CASE HasDropped(fb)
  <2>1. HasDropped(fb')
    BY <1>3, <1>4, CharDropped
  <2> QED BY <1>1, <1>2, <2>1 DEF TerminalInv, DisplayInv
<1>5. CASE InOrder(fb) /\ Shown(fb) /\ Held(fb, Len(command))
  <2>1. fb' = put_glyph(fb, buf)
    BY <1>3, <1>5, CharIs
  <2>2. HasDropped(fb') \/ InOrder(fb')
    BY <1>3, <1>5, <2>1, GlyphInOrder
  <2>3. HasDropped(fb') \/ Held(fb', Len(command) + 1)
    BY <1>2, <1>3, <1>5, <2>1, GlyphHeld
  <2>4. InOrder(fb') => Shown(fb')
    BY <1>3, <1>5, <2>1, GlyphShown
  <2> QED BY <1>1, <1>2, <2>2, <2>3, <2>4 DEF TerminalInv, DisplayInv
<1> QED BY <1>4, <1>5 DEF TerminalInv, DisplayInv

\* The commands print text: no arrows and no backspaces.
PlainText == \A out \in Outputs : out \in Seq(Glyphs \cup {NewLine})

\* Running a command.
LEMMA RunInv ==
    ASSUME PlainText, TerminalInv, run_command
    PROVE  TerminalInv'
<1>1. KeysInv' /\ ~(ARROW_UP \in {keyboard_state.keyboard_buffer, buf})'
  BY ReturnInv DEF TerminalInv, run_command
<1>2. Printable(fb)
  BY DEF TerminalInv, DisplayInv, Printable, run_command, check
<1> DEFINE n == handle_new_char(fb, NewLine)
<1>3. Printable(n)
  BY <1>2, CharPrintable
<1>4. \A out \in Outputs : Printable(puts(n, out))
  BY <1>3, TextPrintable DEF PlainText
<1>5. \E f : Printable(f) /\ print_working_dir(f)
  BY <1>3, <1>4, ClearPrintable DEF run_command
<1> QED BY <1>1, <1>5, NewPrompt

\* Scrolling.
LEMMA MoveInv ==
    ASSUME TerminalInv, MoveScreen
    PROVE  TerminalInv'
<1>1. KeysInv' /\ ~(ARROW_UP \in {keyboard_state.keyboard_buffer, buf})'
  BY ReturnInv DEF TerminalInv, MoveScreen
<1>2. command' = command /\ fb' = move_screen(fb, buf) /\ buf \in {ARROW_UP, ARROW_DOWN}
  BY DEF TerminalInv, KeysInv, MoveScreen
<1>3. CASE HasDropped(fb)
  <2>1. HasDropped(fb')
    BY <1>2, <1>3, ScrollDropped
  <2> QED BY <1>1, <1>2, <2>1 DEF TerminalInv, DisplayInv
<1>4. CASE InOrder(fb) /\ Held(fb, Len(command)) /\ (buf = ARROW_UP => FromBottom(fb))
  <2>1. InOrder(fb') /\ Held(fb', Len(command))
    BY <1>2, <1>4, ScrollInOrder DEF FromBottom
  <2>2. Shown(fb')
    BY <1>2, <1>4, <2>1, ScrollShown
  <2> QED BY <1>1, <1>2, <2>1, <2>2 DEF TerminalInv, DisplayInv
<1> QED BY <1>3, <1>4 DEF TerminalInv, DisplayInv

\* Which characters a key leaves waiting: only the arrow up leaves an arrow up.
LEMMA KeyLeaves ==
    ASSUME DOMAIN keyboard_state = KeyboardFields, NEW k \in Keys, keyboard_isr(k)
    PROVE  /\ DOMAIN keyboard_state' = KeyboardFields
           /\ k # "up" /\ keyboard_state'.keyboard_buffer = ARROW_UP =>
                 keyboard_state.keyboard_buffer = ARROW_UP
<1>1. CASE ~keyboard_state.keyboard_input_on
  BY <1>1 DEF keyboard_isr
<1>2. CASE keyboard_state.keyboard_input_on /\ k \in DOMAIN Arrows
  <2>1. keyboard_state' = [keyboard_state EXCEPT !.keyboard_buffer = Arrows[k]]
    BY <1>2 DEF keyboard_isr, Arrows, keyboard_scancode_1_to_ascii_map
  <2>2. k # "up" => Arrows[k] # ARROW_UP
    BY <1>2 DEF Arrows, ARROW_UP
  <2> QED BY <2>1, <2>2 DEF KeyboardFields
<1>3. CASE keyboard_state.keyboard_input_on /\ k \in DOMAIN keyboard_scancode_1_to_ascii_map
  <2>1. keyboard_state' = [keyboard_state EXCEPT !.keyboard_buffer = Mapped(k)]
    BY <1>3 DEF keyboard_isr, Arrows, keyboard_scancode_1_to_ascii_map
  <2>2. Mapped(k) # ARROW_UP
    <3> DEFINE c == keyboard_scancode_1_to_ascii_map[k]
    <3>1. c # ARROW_UP
      BY <1>3, NoCharIsNone DEF keyboard_scancode_1_to_ascii_map, ARROW_UP
    <3> HIDE DEF c
    <3>2. /\ c \in DOMAIN upper => upper[c] # ARROW_UP
          /\ c \in DOMAIN shift_map => shift_map[c] # ARROW_UP
      BY DEF upper, shift_map, ARROW_UP
    <3> QED BY <3>1, <3>2 DEF Mapped, c
  <2> QED BY <2>1, <2>2 DEF KeyboardFields
<1>4. CASE /\ keyboard_state.keyboard_input_on
           /\ k \in {"capslock", "left_shift", "left_shift_release", "right_shift",
                     "right_shift_release", "other_release"}
  BY <1>4 DEF keyboard_isr, Arrows, keyboard_scancode_1_to_ascii_map, KeyboardFields
<1> QED BY <1>1, <1>2, <1>3, <1>4 DEF Keys

\* A key interrupt between two calls of the loop.
LEMMA KeyInv ==
    ASSUME TerminalInv, KeyInterrupt
    PROVE  TerminalInv'
<1>1. PICK k \in Scancodes : (k = "up" => ScrollsFromBottom) /\ keyboard_isr(k)
  BY DEF KeyInterrupt
<1>2. UNCHANGED <<fb, pc, buf, command>>
  BY DEF KeyInterrupt
<1>3. k \in Keys
  BY TerminalAssumption
<1>4. /\ DOMAIN keyboard_state' = KeyboardFields
      /\ k # "up" /\ keyboard_state'.keyboard_buffer = ARROW_UP =>
            keyboard_state.keyboard_buffer = ARROW_UP
  BY <1>1, <1>3, KeyLeaves DEF TerminalInv, KeysInv
<1>5. k = "up" => pc = "get" /\ FromBottom(fb)
  BY <1>1 DEF ScrollsFromBottom, FromBottom
<1>6. KeysInv'
  BY <1>2, <1>4, <1>5 DEF TerminalInv, KeysInv
<1>7. DisplayInv'
  BY <1>2, <1>4, <1>5 DEF TerminalInv, DisplayInv
<1> QED BY <1>2, <1>6, <1>7 DEF TerminalInv

\* Every step keeps the invariant.
LEMMA TerminalStep ==
    ASSUME PlainText, TerminalInv, [Next]_vars
    PROVE  TerminalInv'
<1>1. CASE LoadingBar
  <2>1. KeysInv'
    BY <1>1 DEF TerminalInv, KeysInv, LoadingBar
  <2>2. ~(ARROW_UP \in {keyboard_state.keyboard_buffer, buf})'
    BY <1>1 DEF TerminalInv, KeysInv, LoadingBar
  <2>3. print_working_dir(clear_screen)
    BY <1>1 DEF LoadingBar
  <2> QED BY <2>1, <2>2, <2>3, ClearPrintable, NewPrompt
<1>2. CASE ActivateKeyboard
  <2>1. /\ DOMAIN keyboard_state' = KeyboardFields
        /\ keyboard_state'.keyboard_buffer = keyboard_state.keyboard_buffer
    BY <1>2 DEF TerminalInv, KeysInv, ActivateKeyboard, keyboard_state_activate, KeyboardFields
  <2> QED BY <1>2, <2>1 DEF TerminalInv, KeysInv, DisplayInv, ActivateKeyboard
<1>3. CASE TakeChar
  <2>1. /\ DOMAIN keyboard_state' = KeyboardFields
        /\ keyboard_state'.keyboard_buffer = NoChar /\ buf' = keyboard_state.keyboard_buffer
    BY <1>3 DEF TerminalInv, KeysInv, TakeChar, get_keyboard_buffer, KeyboardFields
  <2> QED BY <1>3, <2>1, NoCharIsNone DEF TerminalInv, KeysInv, DisplayInv, TakeChar
<1>4. CASE EraseChar
  BY <1>4, EraseInv
<1>5. CASE run_command
  BY <1>5, RunInv
<1>6. CASE CheckShift
  <2>1. CASE Return
    <3>1. KeysInv' /\ ~(ARROW_UP \in {keyboard_state.keyboard_buffer, buf})'
      BY <1>6, <2>1, ReturnInv DEF TerminalInv, CheckShift
    <3> QED BY <1>6, <3>1 DEF TerminalInv, DisplayInv, CheckShift
  <2>2. CASE pc' = "move" /\ UNCHANGED <<keyboard_state, buf>>
    BY <1>6, <2>2 DEF TerminalInv, KeysInv, DisplayInv, CheckShift
  <2> QED BY <1>6, <2>1, <2>2 DEF CheckShift
<1>7. CASE MoveScreen
  BY <1>7, MoveInv
<1>8. CASE TypeChar
  BY <1>8, TypeInv
<1>9. CASE IgnoreChar
  <2>1. KeysInv' /\ ~(ARROW_UP \in {keyboard_state.keyboard_buffer, buf})'
    BY <1>9, ReturnInv DEF TerminalInv, IgnoreChar
  <2> QED BY <1>9, <2>1 DEF TerminalInv, DisplayInv, IgnoreChar
<1>10. CASE KeyInterrupt
  BY <1>10, KeyInv
<1>11. CASE ClockDraws
  <2>1. PICK cell \in ClockCells : fb' = framebuffer_write(fb, cell[1], cell[2], "0")
    BY <1>11 DEF ClockDraws
  <2>2. UNCHANGED <<keyboard_state, pc, buf, command>>
    BY <1>11 DEF ClockDraws
  <2>3. KeysInv'
    BY <2>2 DEF TerminalInv, KeysInv
  <2>4. DisplayInv'
    <3>1. HasDropped(fb) => HasDropped(fb')
      BY <2>1, ClockInOrder
    <3>2. InOrder(fb) /\ Held(fb, Len(command)) =>
             /\ InOrder(fb') /\ Held(fb', Len(command))
             /\ FromBottom(fb) => FromBottom(fb')
      BY <2>1, ClockInOrder DEF FromBottom
    <3>3. InOrder(fb) /\ Shown(fb) => Shown(fb')
      BY <2>1, ClockShown
    <3> QED BY <2>2, <3>1, <3>2, <3>3 DEF TerminalInv, DisplayInv
  <2> QED BY <2>2, <2>3, <2>4 DEF TerminalInv
<1>12. CASE UNCHANGED vars
  BY <1>12 DEF vars, TerminalInv, KeysInv, DisplayInv
<1> QED BY <1>1, <1>2, <1>3, <1>4, <1>5, <1>6, <1>7, <1>8, <1>9, <1>10, <1>11, <1>12
       DEF Next, type_command

\* While the commands print text, framebuffer.c's indices stay in their arrays and the
\* cursor that put_char sees is at the end of the last line, for screens and
\* buffers of any size, until the full buffer ignores a character.
THEOREM TerminalCursorAtEnd ==
    ASSUME PlainText
    PROVE  Spec => []CursorAtEnd
<1>1. TerminalInv => CursorAtEnd
  <2> SUFFICES ASSUME TerminalInv, ~fb.dropped PROVE CursorAtEnd
    BY DEF CursorAtEnd
  <2>1. InOrder(fb)
    BY DEF TerminalInv, DisplayInv, HasDropped
  <2> QED BY <2>1 DEF InOrder, LinesInOrder, WindowInOrder, CursorAtEnd
<1>2. TerminalInv /\ [Next]_vars => TerminalInv'
  BY TerminalStep
<1> QED BY <1>1, <1>2, TerminalInit, PTL DEF Spec

\* Nor does the screen, which put_char, framebuffer_erase, new_frame_buffer_view and
\* move_screen write in four ways, show anything but the buffer where it should.
THEOREM TerminalScreenShowsBuffer ==
    ASSUME PlainText
    PROVE  Spec => []ScreenShowsBuffer
<1>1. TerminalInv => ScreenShowsBuffer
  <2> SUFFICES ASSUME TerminalInv, ~fb.dropped PROVE ScreenShowsBuffer
    BY DEF ScreenShowsBuffer
  <2>1. Shown(fb)
    BY DEF TerminalInv, DisplayInv, HasDropped
  <2> QED BY <2>1 DEF Shown, CellShown, Inside, ScreenShowsBuffer
<1>2. TerminalInv /\ [Next]_vars => TerminalInv'
  BY TerminalStep
<1> QED BY <1>1, <1>2, TerminalInit, PTL DEF Spec
-----------------------------------------------------------------------------
(* The text that the prompt and the command end.                           *)

\* A text that goes on, or loses its end, in its last part.
LEMMA LastPart ==
    ASSUME NEW x \in Seq(Glyphs), NEW y \in Seq(Glyphs), NEW c \in Glyphs
    PROVE  /\ Append(x \o y, c) = x \o Append(y, c)
           /\ x \o Append(y, c) \in Seq(Glyphs)
           /\ Front(x \o Append(y, c)) = x \o y
           /\ Front(Append(y, c)) = y
<1>1. x \o y \in Seq(Glyphs) /\ Append(y, c) \in Seq(Glyphs)
  OBVIOUS
<1>2. Append(x \o y, c) = x \o Append(y, c)
  <2>1. Append(x \o y, c) = (x \o y) \o <<c>>
    BY <1>1, AppendIsConcat
  <2>2. Append(y, c) = y \o <<c>> /\ <<c>> \in Seq(Glyphs)
    BY AppendIsConcat
  <2> QED BY <2>1, <2>2, ConcatAssociative
<1>3. ASSUME NEW z \in Seq(Glyphs) PROVE Front(Append(z, c)) = z
  <2> DEFINE s == Append(z, c)
  <2>1. s \in Seq(Glyphs) /\ Len(s) = Len(z) + 1 /\ Len(z) \in Nat
    OBVIOUS
  <2>2. \A i \in 1 .. Len(z) : s[i] = z[i]
    BY AppendProperties
  <2> HIDE DEF s
  <2>3. Front(s) \in Seq(Glyphs) /\ Len(Front(s)) = Len(z) /\ \A i \in 1 .. Len(z) : Front(s)[i] = s[i]
    <3>1. Len(s) > 0 /\ Len(s) - 1 = Len(z)
      BY <2>1
    <3> QED BY <2>1, <3>1, FrontOfLine
  <2>4. \A i \in 1 .. Len(z) : Front(s)[i] = z[i]
    BY <2>2, <2>3
  <2>5. Front(s) = z
    <3> DEFINE u == Front(s)
    <3>1. u \in Seq(Glyphs) /\ Len(u) = Len(z) /\ \A i \in 1 .. Len(u) : u[i] = z[i]
      BY <2>3, <2>4
    <3> HIDE DEF u
    <3>2. u = z
      BY <3>1, SeqEqual
    <3> QED BY <3>2 DEF u
  <2> QED BY <2>5 DEF s
<1>4. Front(x \o Append(y, c)) = x \o y
  <2>1. Front(Append(x \o y, c)) = x \o y
    BY <1>1, <1>3
  <2> QED BY <1>2, <2>1
<1>5. Front(Append(y, c)) = y
  BY <1>3
<1>6. x \o Append(y, c) \in Seq(Glyphs)
  BY <1>1, ConcatProperties
<1> QED BY <1>2, <1>4, <1>5, <1>6

\* A text that is not empty has a last character.
LEMMA LastCharacter ==
    ASSUME NEW s \in Seq(Glyphs), s # <<>>
    PROVE  \E z \in Seq(Glyphs), c \in Glyphs : s = Append(z, c)
BY SequenceEmptyOrAppend

\* The lines of buffer b from k, which continues none, to the last of size, all of
\* them full but the last; F[i] is the text of the first i.
Para(b, size, k, F) ==
    /\ k \in 0 .. size - 1
    /\ k = 0 \/ Len(b[k - 1]) < BUFFER_WIDTH_VIEW
    /\ \A l \in k .. size - 2 : Len(b[l]) = BUFFER_WIDTH_VIEW
    /\ F \in [1 .. size - k -> Seq(Glyphs)]
    /\ F[1] = b[k]
    /\ \A i \in 2 .. size - k : F[i] = F[i - 1] \o b[k + i - 1]

\* t is the text of the last lines.
TextIs(b, size, t) == \E k, F : Para(b, size, k, F) /\ t = F[size - k]

\* A buffer and the number of its lines in use.
IsBuffer(b, size) ==
    /\ b \in [Lines -> Seq(Glyphs)]
    /\ size \in 1 .. BUFFER_MAX_HEIGHT

\* t is what comes before the last line of b and that line, and the same before the
\* last line of b2 is the text there.
EndsAlike(b, b2, size, t) ==
    \E x \in Seq(Glyphs) : t = x \o b[size - 1] /\ TextIs(b2, size, x \o b2[size - 1])

\* A change of the last line is one of the end of the text.
LEMMA LastLine ==
    ASSUME NEW b, NEW size, IsBuffer(b, size), NEW t, TextIs(b, size, t),
           NEW b2 \in [Lines -> Seq(Glyphs)],
           \A l \in Lines : l # size - 1 => b2[l] = b[l]
    PROVE  EndsAlike(b, b2, size, t)
<1>1. PICK k, F : Para(b, size, k, F) /\ t = F[size - k]
  BY DEF TextIs
<1> DEFINE n == size - k
<1>2. /\ size \in Nat /\ size >= 1 /\ size - 1 \in Lines /\ k \in Nat /\ k <= size - 1
      /\ \A l \in 0 .. size - 1 : l \in Lines
      /\ b \in [Lines -> Seq(Glyphs)]
  BY <1>1, DisplayAssumption DEF IsBuffer, Para, Lines
<1>3. /\ k = 0 \/ Len(b[k - 1]) < BUFFER_WIDTH_VIEW
      /\ \A l \in k .. size - 2 : Len(b[l]) = BUFFER_WIDTH_VIEW
      /\ F \in [1 .. n -> Seq(Glyphs)] /\ F[1] = b[k]
      /\ \A i \in 2 .. n : F[i] = F[i - 1] \o b[k + i - 1]
  BY <1>1 DEF Para
<1>4. b2[size - 1] \in Seq(Glyphs) /\ b[size - 1] \in Seq(Glyphs)
  BY <1>2
<1>5. PICK x \in Seq(Glyphs) :
         /\ F[n] = x \o b[size - 1]
         /\ n = 1 => x = <<>>
         /\ n # 1 => x = F[n - 1]
  <2>1. CASE n = 1
    <3>1. k = size - 1
      BY <1>2, <2>1
    <3>2. F[n] = <<>> \o b[size - 1] /\ <<>> \in Seq(Glyphs)
      BY <1>3, <1>4, <2>1, <3>1, ConcatEmptySeq
    <3> QED BY <2>1, <3>2
  <2>2. CASE n # 1
    <3>1. n \in 2 .. n /\ n - 1 \in 1 .. n /\ k + n - 1 = size - 1
      BY <1>2, <2>2
    <3>2. F[n] = F[n - 1] \o b[size - 1] /\ F[n - 1] \in Seq(Glyphs)
      BY <1>3, <3>1
    <3> QED BY <2>2, <3>2
  <2> QED BY <2>1, <2>2
<1> DEFINE e == x \o b2[size - 1]
           G == [F EXCEPT ![n] = e]
<1>6. e \in Seq(Glyphs)
  BY <1>4, ConcatProperties
<1>7. n \in Nat /\ n >= 1 /\ n \in 1 .. n
  BY <1>2
<1>8. /\ G \in [1 .. n -> Seq(Glyphs)] /\ G[n] = e
      /\ \A i \in 1 .. n : i # n => G[i] = F[i]
  <2> HIDE DEF e, n
  <2> QED BY <1>3, <1>6, <1>7
<1> HIDE DEF G
<1>9. G[1] = b2[k]
  <2>1. CASE n = 1
    <3>1. k = size - 1 /\ x = <<>>
      BY <1>2, <1>5, <2>1
    <3>2. e = b2[size - 1]
      BY <1>4, <3>1, ConcatEmptySeq
    <3> QED BY <1>8, <2>1, <3>1, <3>2
  <2>2. CASE n # 1
    <3>1. k \in Lines /\ k # size - 1 /\ 1 \in 1 .. n
      BY <1>2, <1>7, <2>2
    <3> QED BY <1>3, <1>8, <2>2, <3>1
  <2> QED BY <2>1, <2>2
<1>10. ASSUME NEW i \in 2 .. n PROVE G[i] = G[i - 1] \o b2[k + i - 1]
  <2>1. /\ i - 1 \in 1 .. n /\ i - 1 # n /\ i \in 1 .. n /\ k + i - 1 \in Lines
        /\ i = n => k + i - 1 = size - 1
        /\ i # n => k + i - 1 # size - 1
    BY <1>2, <1>7
  <2>2. G[i - 1] = F[i - 1]
    BY <1>8, <2>1
  <2>3. CASE i = n
    <3>1. n # 1 /\ k + i - 1 = size - 1
      BY <1>7, <2>1, <2>3
    <3>2. x = F[i - 1]
      BY <1>5, <2>3, <3>1
    <3> QED BY <1>8, <2>2, <2>3, <3>1, <3>2
  <2>4. CASE i # n
    <3>1. G[i] = F[i] /\ b2[k + i - 1] = b[k + i - 1]
      BY <1>8, <2>1, <2>4
    <3> QED BY <1>3, <2>2, <3>1
  <2> QED BY <2>3, <2>4
<1>11. /\ k = 0 \/ Len(b2[k - 1]) < BUFFER_WIDTH_VIEW
       /\ \A l \in k .. size - 2 : Len(b2[l]) = BUFFER_WIDTH_VIEW
  <2>1. k # 0 => k - 1 \in Lines /\ k - 1 # size - 1
    BY <1>2
  <2>2. \A l \in k .. size - 2 : l \in Lines /\ l # size - 1
    BY <1>2
  <2> QED BY <1>3, <2>1, <2>2
<1>12. Para(b2, size, k, G)
  BY <1>1, <1>8, <1>9, <1>10, <1>11 DEF Para
<1>13. TextIs(b2, size, e)
  BY <1>8, <1>12 DEF TextIs
<1> QED BY <1>1, <1>5, <1>13 DEF EndsAlike

\* A full last line goes on in an empty one.
LEMMA NextLine ==
    ASSUME NEW b, NEW size, IsBuffer(b, size), NEW t, TextIs(b, size, t),
           NEW m, m = size + 1, Len(b[size - 1]) = BUFFER_WIDTH_VIEW, b[size] = <<>>
    PROVE  TextIs(b, m, t)
<1>1. PICK k, F : Para(b, size, k, F) /\ t = F[size - k]
  BY DEF TextIs
<1> DEFINE n == size - k
           G == [i \in 1 .. n + 1 |-> IF i = n + 1 THEN F[n] ELSE F[i]]
<1>2. /\ size \in Nat /\ size >= 1 /\ k \in Nat /\ k <= size - 1
      /\ n \in Nat /\ n >= 1 /\ m - k = n + 1 /\ m \in Nat
  BY <1>1, DisplayAssumption DEF IsBuffer, Para
<1>3. /\ k = 0 \/ Len(b[k - 1]) < BUFFER_WIDTH_VIEW
      /\ \A l \in k .. size - 2 : Len(b[l]) = BUFFER_WIDTH_VIEW
      /\ F \in [1 .. n -> Seq(Glyphs)] /\ F[1] = b[k]
      /\ \A i \in 2 .. n : F[i] = F[i - 1] \o b[k + i - 1]
  BY <1>1 DEF Para
<1>4. /\ G \in [1 .. n + 1 -> Seq(Glyphs)] /\ G[n + 1] = F[n]
      /\ \A i \in 1 .. n : G[i] = F[i]
  <2> HIDE DEF n
  <2> QED BY <1>2, <1>3
<1> HIDE DEF G
<1>5. G[1] = b[k]
  BY <1>2, <1>3, <1>4
<1>6. ASSUME NEW i \in 2 .. n + 1 PROVE G[i] = G[i - 1] \o b[k + i - 1]
  <2>1. i - 1 \in 1 .. n
    BY <1>2
  <2>2. CASE i = n + 1
    <3>1. k + i - 1 = size /\ i - 1 = n
      BY <1>2, <2>2
    <3>2. F[n] \in Seq(Glyphs)
      BY <1>2, <1>3
    <3>3. F[n] \o <<>> = F[n]
      BY <3>2, ConcatEmptySeq
    <3> QED BY <1>4, <2>1, <2>2, <3>1, <3>3
  <2>3. CASE i # n + 1
    <3>1. i \in 2 .. n /\ i \in 1 .. n
      BY <1>2, <2>3
    <3> QED BY <1>3, <1>4, <2>1, <3>1
  <2> QED BY <2>2, <2>3
<1>7. ASSUME NEW l \in k .. m - 2 PROVE Len(b[l]) = BUFFER_WIDTH_VIEW
  <2>1. l \in k .. size - 2 \/ l = size - 1
    BY <1>2
  <2> QED BY <1>3, <2>1
<1>8. k \in 0 .. m - 1 /\ m - k = n + 1
  BY <1>2
<1>9. Para(b, m, k, G)
  <2> HIDE DEF n
  <2> QED BY <1>3, <1>4, <1>5, <1>6, <1>7, <1>8 DEF Para
<1>10. G[m - k] = t
  <2>1. m - k = n + 1
    BY <1>2
  <2>2. G[n + 1] = t
    BY <1>1, <1>4
  <2> HIDE DEF n
  <2> QED BY <2>1, <2>2
<1> QED BY <1>9, <1>10 DEF TextIs

\* An empty last line after a full one adds nothing.
LEMMA PreviousLine ==
    ASSUME NEW b, NEW size, IsBuffer(b, size), NEW t, TextIs(b, size, t),
           size >= 2, Len(b[size - 2]) = BUFFER_WIDTH_VIEW, b[size - 1] = <<>>
    PROVE  TextIs(b, size - 1, t)
<1>1. PICK k, F : Para(b, size, k, F) /\ t = F[size - k]
  BY DEF TextIs
<1> DEFINE n == size - k
           G == [i \in 1 .. n - 1 |-> F[i]]
<1>2. /\ size \in Nat /\ k \in Nat /\ k <= size - 1
      /\ BUFFER_WIDTH_VIEW \in Nat
      /\ n \in Nat /\ n >= 1
  BY <1>1, DisplayAssumption DEF IsBuffer, Para
<1>3. /\ k = 0 \/ Len(b[k - 1]) < BUFFER_WIDTH_VIEW
      /\ \A l \in k .. size - 2 : Len(b[l]) = BUFFER_WIDTH_VIEW
      /\ F \in [1 .. n -> Seq(Glyphs)] /\ F[1] = b[k]
      /\ \A i \in 2 .. n : F[i] = F[i - 1] \o b[k + i - 1]
  BY <1>1 DEF Para
<1>4. k # size - 1
  <2> SUFFICES ASSUME k = size - 1 PROVE FALSE
    OBVIOUS
  <2>1. k - 1 = size - 2 /\ k # 0
    BY <1>2
  <2> QED BY <1>2, <1>3, <2>1
<1>5. n >= 2 /\ n - 1 \in Nat /\ size - 1 - k = n - 1 /\ k + n - 1 = size - 1
  BY <1>2, <1>4
<1>6. F[n] = F[n - 1] /\ F[n - 1] \in Seq(Glyphs)
  <2>1. F[n] = F[n - 1] \o b[k + n - 1] /\ F[n - 1] \in Seq(Glyphs)
    <3>1. n \in 2 .. n /\ n - 1 \in 1 .. n
      BY <1>2, <1>5
    <3> HIDE DEF n
    <3> QED BY <1>3, <3>1
  <2>2. b[k + n - 1] = <<>>
    BY <1>5
  <2>3. F[n - 1] \o <<>> = F[n - 1]
    BY <2>1, ConcatEmptySeq
  <2> QED BY <2>1, <2>2, <2>3
<1>7. /\ G \in [1 .. n - 1 -> Seq(Glyphs)]
      /\ \A i \in 1 .. n - 1 : G[i] = F[i]
  <2> HIDE DEF n
  <2> QED BY <1>2, <1>3
<1> HIDE DEF G
<1>8. G[1] = b[k] /\ G[n - 1] = F[n - 1]
  <2>1. 1 \in 1 .. n - 1 /\ n - 1 \in 1 .. n - 1
    BY <1>2, <1>5
  <2> HIDE DEF n
  <2> QED BY <1>3, <1>7, <2>1
<1>9. ASSUME NEW i \in 2 .. n - 1 PROVE G[i] = G[i - 1] \o b[k + i - 1]
  <2>1. i \in 1 .. n - 1 /\ i - 1 \in 1 .. n - 1 /\ i \in 2 .. n
    BY <1>2
  <2> QED BY <1>3, <1>7, <2>1
<1>10. \A l \in k .. size - 1 - 2 : Len(b[l]) = BUFFER_WIDTH_VIEW
  BY <1>2, <1>3
<1>11. k \in 0 .. size - 1 - 1
  BY <1>2, <1>4
<1>12. Para(b, size - 1, k, G)
  <2> HIDE DEF n
  <2> QED BY <1>3, <1>5, <1>7, <1>8, <1>9, <1>10, <1>11 DEF Para
<1>13. G[size - 1 - k] = t
  BY <1>1, <1>5, <1>6, <1>8
<1> QED BY <1>12, <1>13 DEF TextIs

\* A line that continues none begins a text.
LEMMA FreshLine ==
    ASSUME NEW b, NEW size, IsBuffer(b, size), b[size - 1] = <<>>,
           size = 1 \/ Len(b[size - 2]) < BUFFER_WIDTH_VIEW
    PROVE  TextIs(b, size, <<>>)
<1> DEFINE k == size - 1
           G == [i \in 1 .. 1 |-> <<>>]
<1>1. size \in Nat /\ size >= 1 /\ size - k = 1 /\ k - 1 = size - 2
  BY DisplayAssumption DEF IsBuffer
<1>2. G \in [1 .. 1 -> Seq(Glyphs)] /\ G[1] = <<>>
  OBVIOUS
<1> HIDE DEF G
<1>3. k = 0 \/ Len(b[k - 1]) < BUFFER_WIDTH_VIEW
  BY <1>1
<1>4. k .. size - 2 = {} /\ 2 .. 1 = {} /\ k \in 0 .. size - 1
  BY <1>1
<1>5. Para(b, size, k, G)
  BY <1>1, <1>2, <1>3, <1>4 DEF Para
<1> QED BY <1>1, <1>2, <1>5 DEF TextIs

\* The concatenation of SequencesExt goes through the same texts.
LEMMA FlattenIs ==
    ASSUME NEW n \in Nat, n >= 1, NEW s \in [1 .. n -> Seq(Glyphs)],
           NEW F \in [1 .. n -> Seq(Glyphs)], F[1] = s[1],
           \A i \in 2 .. n : F[i] = F[i - 1] \o s[i]
    PROVE  FlattenSeq(s) = F[n]
<1>1. s \in Seq(Seq(Glyphs)) /\ Len(s) = n
  <2>1. s \in Seq(Seq(Glyphs))
    BY SeqDef
  <2>2. DOMAIN s = 1 .. Len(s) /\ DOMAIN s = 1 .. n /\ Len(s) \in Nat
    BY <2>1, LenProperties
  <2> QED BY <2>1, <2>2
<1> DEFINE Flat(g) == g = [i \in 1 .. n |-> IF i = 1 THEN s[i] ELSE g[i - 1] \o s[i]]
<1>2. Flat(F)
  <2> DEFINE R == [i \in 1 .. n |-> IF i = 1 THEN s[i] ELSE F[i - 1] \o s[i]]
  <2>1. ASSUME NEW i \in 1 .. n PROVE F[i] = R[i]
    <3>1. i # 1 => i \in 2 .. n
      OBVIOUS
    <3> QED BY <3>1
  <2>2. F = [i \in 1 .. n |-> F[i]]
    OBVIOUS
  <2>3. R = [i \in 1 .. n |-> R[i]]
    OBVIOUS
  <2> HIDE DEF R
  <2>4. F = R
    BY <2>1, <2>2, <2>3
  <2> QED BY <2>4 DEF R
<1> DEFINE c == CHOOSE g : Flat(g)
<1>3. Flat(c)
  <2> HIDE DEF Flat
  <2> QED BY <1>2, Zenon
<1>4. FlattenSeq(s) = c[n]
  <2>1. FlattenSeq(s) = (CHOOSE g : g = [i \in 1 .. Len(s) |-> IF i = 1 THEN s[i] ELSE g[i - 1] \o s[i]])[Len(s)]
    <3>1. Len(s) # 0
      BY <1>1
    <3> QED BY <3>1, Zenon DEF FlattenSeq
  <2> QED BY <1>1, <2>1
<1> HIDE DEF c
<1>5. /\ c[1] = s[1]
      /\ \A i \in 2 .. n : c[i] = c[i - 1] \o s[i]
  <2>1. ASSUME NEW i \in 1 .. n PROVE c[i] = IF i = 1 THEN s[i] ELSE c[i - 1] \o s[i]
    BY <1>3
  <2>2. 1 \in 1 .. n /\ \A i \in 2 .. n : i \in 1 .. n /\ i # 1
    OBVIOUS
  <2> HIDE DEF Flat
  <2> QED BY <2>1, <2>2
<1> HIDE DEF Flat
<1> DEFINE T == {i \in 1 .. n : c[i] # F[i]}
<1>6. T = {}
  <2> SUFFICES ASSUME T # {} PROVE FALSE
    OBVIOUS
  <2>1. T \in SUBSET Nat
    OBVIOUS
  <2>2. PICK i \in T : IsFirst(T, i)
    BY <2>1, LeastMember
  <2>3. i \in Nat /\ i \in 1 .. n /\ c[i] # F[i]
    OBVIOUS
  <2>4. i # 1
    BY <1>5, <2>3
  <2>5. i \in 2 .. n /\ i - 1 \in 1 .. n /\ i - 1 \in Nat /\ i - 1 < i
    BY <2>3, <2>4
  <2>6. c[i - 1] = F[i - 1]
    BY <2>2, <2>5 DEF IsFirst
  <2> QED BY <1>5, <2>3, <2>5, <2>6
<1>7. c[n] = F[n]
  <2>1. n \in 1 .. n
    OBVIOUS
  <2> QED BY <1>6, <2>1
<1> QED BY <1>4, <1>7

\* The text is the one that LastText looks for.
LEMMA TextFound ==
    ASSUME NEW t, TextIs(fb.buffer, fb.size, t), IsBuffer(fb.buffer, fb.size)
    PROVE  LastText = t
<1> DEFINE b == fb.buffer
           size == fb.size
           starts == {l \in 0 .. size - 1 : l = 0 \/ Len(b[l - 1]) < BUFFER_WIDTH_VIEW}
           first == CHOOSE l \in starts : \A j \in starts : j <= l
<1>1. PICK k, F : Para(b, size, k, F) /\ t = F[size - k]
  BY DEF TextIs
<1> DEFINE n == size - k
           s == [i \in 1 .. size - k |-> b[k + i - 1]]
<1>2. /\ size \in Nat /\ k \in Nat /\ k <= size - 1 /\ BUFFER_WIDTH_VIEW \in Nat
      /\ n \in Nat /\ n >= 1 /\ b \in [Lines -> Seq(Glyphs)]
      /\ \A l \in 0 .. size - 1 : l \in Lines
  <2>1. /\ b \in [Lines -> Seq(Glyphs)] /\ size \in 1 .. BUFFER_MAX_HEIGHT
        /\ k \in 0 .. size - 1
    BY <1>1 DEF IsBuffer, Para
  <2> HIDE DEF b, size
  <2> QED BY <2>1, DisplayAssumption DEF Lines
<1>3. /\ k = 0 \/ Len(b[k - 1]) < BUFFER_WIDTH_VIEW
      /\ \A l \in k .. size - 2 : Len(b[l]) = BUFFER_WIDTH_VIEW
      /\ F \in [1 .. n -> Seq(Glyphs)] /\ F[1] = b[k]
      /\ \A i \in 2 .. n : F[i] = F[i - 1] \o b[k + i - 1]
  BY <1>1 DEF Para
<1>4. LastText = FlattenSeq([i \in 1 .. size - first |-> b[first + i - 1]])
  BY Zenon DEF LastText
<1>5. k \in starts
  BY <1>2, <1>3
<1>6. ASSUME NEW j \in starts PROVE j <= k
  <2> SUFFICES ASSUME j > k PROVE FALSE
    BY <1>2
  <2>1. j \in 0 .. size - 1 /\ (j = 0 \/ Len(b[j - 1]) < BUFFER_WIDTH_VIEW)
    OBVIOUS
  <2> HIDE DEF b, size
  <2>2. j # 0 /\ j - 1 \in k .. size - 2
    BY <1>2, <2>1
  <2>3. Len(b[j - 1]) = BUFFER_WIDTH_VIEW
    BY <1>3, <2>2
  <2> QED BY <1>2, <2>1, <2>2, <2>3
<1>7. first = k
  <2>1. first \in starts /\ \A j \in starts : j <= first
    <3> HIDE DEF starts
    <3> QED BY <1>5, <1>6
  <2>2. first <= k /\ k <= first
    <3> HIDE DEF starts, first
    <3> QED BY <1>5, <1>6, <2>1
  <2>3. first \in Int
    <3> HIDE DEF first
    <3> QED BY <1>2, <2>1
  <2> HIDE DEF first
  <2> QED BY <1>2, <2>2, <2>3
<1> HIDE DEF first, starts
<1>8. LastText = FlattenSeq(s)
  BY <1>4, <1>7
<1>9. /\ s \in [1 .. n -> Seq(Glyphs)] /\ s[1] = b[k]
      /\ \A i \in 2 .. n : s[i] = b[k + i - 1]
  <2>1. \A i \in 1 .. n : k + i - 1 \in Lines
    BY <1>2
  <2>2. 1 \in 1 .. n /\ k + 1 - 1 = k /\ \A i \in 2 .. n : i \in 1 .. n
    BY <1>2
  <2> QED BY <1>2, <2>1, <2>2
<1> HIDE DEF s, n
<1>10. FlattenSeq(s) = F[n]
  <2>1. F[1] = s[1] /\ \A i \in 2 .. n : F[i] = F[i - 1] \o s[i]
    BY <1>3, <1>9
  <2> QED BY <1>2, <1>3, <1>9, <2>1, FlattenIs
<1> QED BY <1>1, <1>8, <1>10 DEF n

\* What is appended to a text is a suffix of the whole.
LEMMA AppendedIsSuffix ==
    ASSUME NEW pre \in Seq(Glyphs), NEW s \in Seq(Glyphs)
    PROVE  IsSuffix(s, pre \o s)
<1> DEFINE t == pre \o s
           m == Len(s)
<1>1. /\ t \in Seq(Glyphs) /\ m \in Nat /\ Len(pre) \in Nat /\ Len(t) = Len(pre) + m
      /\ \A i \in 1 .. m : t[Len(pre) + i] = s[i]
  <2>1. t \in Seq(Glyphs) /\ Len(t) = Len(pre) + m
    BY ConcatProperties
  <2>2. m \in Nat /\ Len(pre) \in Nat
    OBVIOUS
  <2>3. ASSUME NEW i \in 1 .. m PROVE t[Len(pre) + i] = s[i]
    <3>1. Len(pre) + i \in 1 .. Len(pre) + m /\ ~(Len(pre) + i <= Len(pre)) /\ Len(pre) + i - Len(pre) = i
      BY <2>2
    <3> QED BY <3>1, ConcatProperties
  <2> QED BY <2>1, <2>2, <2>3
<1> HIDE DEF t
<1> DEFINE u == Reverse(s)
           v == Reverse(t)
<1>2. u \in Seq(Glyphs) /\ Len(u) = m /\ \A i \in 1 .. m : u[i] = s[(m - i) + 1]
  <2>1. \A i \in 1 .. m : (m - i) + 1 \in 1 .. m
    BY <1>1
  <2> QED BY <1>1, <2>1 DEF Reverse
<1>3. v \in Seq(Glyphs) /\ Len(v) = Len(t) /\ \A i \in 1 .. Len(t) : v[i] = t[(Len(t) - i) + 1]
  <2>1. \A i \in 1 .. Len(t) : (Len(t) - i) + 1 \in 1 .. Len(t)
    BY <1>1
  <2> QED BY <1>1, <2>1 DEF Reverse
<1> HIDE DEF u, v
<1>4. ASSUME NEW i \in 1 .. m PROVE u[i] = v[i]
  <2> DEFINE j == (m - i) + 1
  <2>1. j \in 1 .. m /\ i \in 1 .. Len(t) /\ (Len(t) - i) + 1 = Len(pre) + j
    BY <1>1
  <2> HIDE DEF j
  <2>2. v[i] = t[Len(pre) + j]
    BY <1>3, <2>1
  <2>3. u[i] = s[j]
    BY <1>2 DEF j
  <2> QED BY <1>1, <2>1, <2>2, <2>3
<1>5. Len(u) <= Len(v)
  BY <1>1, <1>2, <1>3
<1>6. SubSeq(u, 1, m) = SubSeq(v, 1, m)
  <2> DEFINE x == SubSeq(u, 1, m)
             y == SubSeq(v, 1, m)
  <2>1. x \in Seq(Glyphs) /\ Len(x) = m /\ \A i \in 1 .. m : x[i] = u[i]
    <3>1. \A i \in 1 .. m : i \in 1 .. Len(u)
      BY <1>2
    <3> QED BY <1>1, <1>2, <3>1
  <2>2. y \in Seq(Glyphs) /\ Len(y) = m /\ \A i \in 1 .. m : y[i] = v[i]
    <3>1. \A i \in 1 .. m : i \in 1 .. Len(v)
      BY <1>1, <1>3
    <3> QED BY <1>1, <1>3, <3>1
  <2> HIDE DEF x, y
  <2>3. x = y
    BY <1>4, <2>1, <2>2, SeqEqual
  <2> QED BY <2>3 DEF x, y
<1>7. IsPrefix(u, v)
  BY <1>2, <1>5, <1>6 DEF IsPrefix
<1> QED BY <1>7 DEF IsSuffix, u, v, t

\* The text on the display ends with s.
Ends(f, s) ==
    \E pre \in Seq(Glyphs) : TextIs(f.buffer, f.size, pre \o s)

\* The buffer of a display in order.
LEMMA BufferInOrder ==
    ASSUME NEW f, InOrder(f)
    PROVE  /\ IsBuffer(f.buffer, f.size)
           /\ f.size < BUFFER_MAX_HEIGHT => f.buffer[f.size] = <<>>
<1>1. /\ f.buffer \in [Lines -> Seq(Glyphs)] /\ f.size \in 1 .. BUFFER_MAX_HEIGHT
      /\ \A l \in Lines : l >= f.size => f.buffer[l] = EmptyLine
  BY DEF InOrder, IsDisplay, LinesInOrder
<1>2. f.size < BUFFER_MAX_HEIGHT => f.size \in Lines /\ f.size >= f.size
  BY <1>1, DisplayAssumption DEF Lines
<1> QED BY <1>1, <1>2 DEF IsBuffer, EmptyLine

\* An echoed character is added to the text, in whichever line it is put.
LEMMA GlyphEnds ==
    ASSUME NEW f, NEW c \in Glyphs, InOrder(f), f.is_cursor_viewable,
           NEW s \in Seq(Glyphs), Ends(f, s)
    PROVE  LET r == put_glyph(f, c)
           IN  HasDropped(r) \/ Ends(r, Append(s, c))
<1> DEFINE r == put_glyph(f, c)
           b2 == [f.buffer EXCEPT ![f.size - 1] = Append(@, c)]
<1>1. /\ f.size \in Nat /\ f.size >= 1 /\ f.size - 1 \in Lines /\ f.size <= BUFFER_MAX_HEIGHT
      /\ BUFFER_WIDTH_VIEW \in Nat /\ BUFFER_MAX_HEIGHT \in Nat
      /\ f.cursor_col = Len(f.buffer[f.size - 1])
      /\ f.cursor_row + f.frame_row_pointer = f.size - 1
  BY OrderFacts
<1>2. IsBuffer(f.buffer, f.size) /\ (f.size < BUFFER_MAX_HEIGHT => f.buffer[f.size] = <<>>)
  BY BufferInOrder
<1>3. f.buffer \in [Lines -> Seq(Glyphs)] /\ f.buffer[f.size - 1] \in Seq(Glyphs)
  BY <1>1, <1>2 DEF IsBuffer
<1>4. /\ b2 \in [Lines -> Seq(Glyphs)] /\ b2[f.size - 1] = Append(f.buffer[f.size - 1], c)
      /\ \A l \in Lines : l # f.size - 1 => b2[l] = f.buffer[l]
  BY <1>1, <1>3
<1> HIDE DEF b2
<1>5. PICK pre \in Seq(Glyphs) : TextIs(f.buffer, f.size, pre \o s)
  BY DEF Ends
<1> DEFINE t == pre \o Append(s, c)
<1>6. TextIs(b2, f.size, t)
  <2> DEFINE b == f.buffer
             size == f.size
             a == b[size - 1]
             u == pre \o s
  <2>1. /\ IsBuffer(b, size) /\ TextIs(b, size, u) /\ b2[size - 1] = Append(a, c)
        /\ \A l \in Lines : l # size - 1 => b2[l] = b[l]
    BY <1>2, <1>4, <1>5
  <2>2. a \in Seq(Glyphs)
    BY <1>3
  <2> HIDE DEF b, size, u
  <2>3. PICK x \in Seq(Glyphs) : u = x \o a /\ TextIs(b2, size, x \o b2[size - 1])
    <3>1. EndsAlike(b, b2, size, u)
      BY <1>4, <2>1, LastLine
    <3> QED BY <3>1 DEF EndsAlike
  <2> HIDE DEF a
  <2>4. x \o Append(a, c) = Append(x \o a, c)
    BY <2>2, LastPart
  <2>5. t = Append(u, c)
    BY LastPart DEF u
  <2>6. TextIs(b2, size, t)
    BY <2>1, <2>3, <2>4, <2>5
  <2> QED BY <2>6 DEF size
<1>7. CASE f.cursor_col + 1 < BUFFER_WIDTH_VIEW
  <2>1. r.buffer = b2 /\ r.size = f.size
    BY <1>7, GlyphStays DEF b2
  <2> HIDE DEF r
  <2>2. Ends(r, Append(s, c))
    BY <1>6, <2>1 DEF Ends
  <2> QED BY <2>2 DEF r
<1>8. CASE ~(f.cursor_col + 1 < BUFFER_WIDTH_VIEW) /\ Line(f) < BUFFER_MAX_HEIGHT - 1
  <2>1. r.buffer = b2
    <3>1. r.buffer = [f.buffer EXCEPT ![f.size - 1] = Append(@, c)]
      <4> HIDE DEF t
      <4> QED BY <1>8, GlyphWraps, Zenon
    <3> QED BY <3>1 DEF b2
  <2>2. r.size = f.size + 1
    BY <1>8, GlyphWraps
  <2> HIDE DEF r, t
  <2>3. f.size < BUFFER_MAX_HEIGHT /\ f.size \in Lines /\ f.size # f.size - 1
    BY <1>1, <1>8 DEF Line, Lines
  <2>4. b2[f.size] = <<>>
    BY <1>2, <1>4, <2>3
  <2>5. Len(b2[f.size - 1]) = BUFFER_WIDTH_VIEW
    <3>1. Len(b2[f.size - 1]) = f.cursor_col + 1
      BY <1>1, <1>3, <1>4
    <3>2. f.cursor_col \in Nat /\ f.cursor_col < BUFFER_WIDTH_VIEW
      BY OrderFacts
    <3>3. BUFFER_WIDTH_VIEW \in Nat /\ ~(f.cursor_col + 1 < BUFFER_WIDTH_VIEW)
      BY <1>8, OrderFacts
    <3>4. f.cursor_col + 1 = BUFFER_WIDTH_VIEW
      BY <3>2, <3>3
    <3> QED BY <3>1, <3>4
  <2>6. IsBuffer(b2, f.size)
    BY <1>2, <1>4 DEF IsBuffer
  <2>7. TextIs(b2, r.size, t)
    BY <1>6, <2>2, <2>4, <2>5, <2>6, NextLine
  <2>8. Ends(r, Append(s, c))
    BY <2>1, <2>7 DEF Ends, t
  <2> QED BY <2>8 DEF r
<1>9. CASE ~(f.cursor_col + 1 < BUFFER_WIDTH_VIEW) /\ ~(Line(f) < BUFFER_MAX_HEIGHT - 1)
  <2>1. r = [f EXCEPT !.dropped = TRUE]
    BY <1>9 DEF put_glyph
  <2>2. DOMAIN f = Fields
    BY OrderFacts DEF IsDisplay
  <2> QED BY <2>1, <2>2 DEF HasDropped, Fields
<1> QED BY <1>7, <1>8, <1>9

\* In column 0 what is held ends with the full line above.
LEMMA HeldAbove ==
    ASSUME NEW f, InOrder(f), f.is_cursor_viewable, f.cursor_col = 0,
           NEW n \in Nat, n > 0, Held(f, n)
    PROVE  /\ f.cursor_row > 0 /\ f.size >= 2
           /\ Len(f.buffer[f.size - 2]) = BUFFER_WIDTH_VIEW
<1> DEFINE W == BUFFER_WIDTH_VIEW
<1>0. W \in Nat
  BY DisplayAssumption
<1>1. PICK m \in 0 .. f.cursor_row :
         /\ n <= f.cursor_col + m * W
         /\ \A l \in f.size - 1 - m .. f.size - 2 : Len(f.buffer[l]) = W
  BY DEF Held
<1>2. m # 0
  <2>1. ASSUME m = 0 PROVE m * W = 0
    BY <1>0, <2>1
  <2> QED BY <1>1, <2>1
<1>3. /\ f.cursor_row + f.frame_row_pointer = f.size - 1 /\ f.frame_row_pointer \in Nat
      /\ f.size \in Nat /\ f.cursor_row \in Nat
  BY OrderFacts
<1>4. m \in 0 .. f.cursor_row
  BY <1>1
<1>5. f.cursor_row > 0 /\ f.size >= 2
  BY <1>2, <1>3, <1>4
<1>6. f.size - 2 \in f.size - 1 - m .. f.size - 2
  BY <1>2, <1>3, <1>4
<1> QED BY <1>1, <1>5, <1>6

\* An erased one is taken from it, in the last line or in the full one above.
LEMMA EraseEnds ==
    ASSUME NEW f, InOrder(f), f.is_cursor_viewable,
           NEW s \in Seq(Glyphs), NEW c \in Glyphs, Ends(f, Append(s, c)),
           NEW n \in Nat, n > 0, Held(f, n)
    PROVE  Ends(put_backspace(f), s)
<1> DEFINE r == put_backspace(f)
           W == BUFFER_WIDTH_VIEW
<1>1. /\ f.size \in Nat /\ f.size >= 1 /\ f.size - 1 \in Lines /\ f.size <= BUFFER_MAX_HEIGHT
      /\ W \in Nat /\ BUFFER_MAX_HEIGHT \in Nat /\ W >= 1
      /\ f.cursor_col = Len(f.buffer[f.size - 1]) /\ f.cursor_col \in Nat
      /\ f.cursor_row \in Nat
  BY OrderFacts
<1>2. IsBuffer(f.buffer, f.size)
  BY BufferInOrder
<1>3. f.buffer \in [Lines -> Seq(Glyphs)] /\ f.buffer[f.size - 1] \in Seq(Glyphs)
  BY <1>1, <1>2 DEF IsBuffer
<1>4. PICK pre \in Seq(Glyphs) : TextIs(f.buffer, f.size, pre \o Append(s, c))
  BY DEF Ends
<1>5. ASSUME NEW m \in 1 .. f.size, IsBuffer(f.buffer, m),
             TextIs(f.buffer, m, pre \o Append(s, c)), f.buffer[m - 1] # <<>>,
             m - 1 \in Lines, r.size = m,
             r.buffer = [f.buffer EXCEPT ![m - 1] = Front(@)]
      PROVE  Ends(r, s)
  <2> DEFINE b == f.buffer
             b2 == r.buffer
             a == b[m - 1]
             u == pre \o Append(s, c)
  <2> HIDE DEF r
  <2>1. PICK z \in Seq(Glyphs), d \in Glyphs : a = Append(z, d)
    BY <1>3, <1>5, LastCharacter
  <2>2. Front(a) = z
    BY <2>1, LastPart
  <2>3. /\ b2 \in [Lines -> Seq(Glyphs)] /\ b2[m - 1] = z
        /\ \A l \in Lines : l # m - 1 => b2[l] = b[l]
    BY <1>3, <1>5, <2>2
  <2>4. IsBuffer(b, m) /\ TextIs(b, m, u)
    BY <1>5
  <2>5. PICK x \in Seq(Glyphs) : u = x \o a /\ TextIs(b2, m, x \o b2[m - 1])
    <3> HIDE DEF b, b2, u
    <3>1. EndsAlike(b, b2, m, u)
      BY <2>3, <2>4, LastLine
    <3> QED BY <3>1 DEF EndsAlike
  <2>6. pre \o s = x \o z
    <3>1. Front(u) = pre \o s
      BY LastPart
    <3>2. Front(x \o Append(z, d)) = x \o z
      BY LastPart
    <3>3. u = x \o Append(z, d)
      BY <2>1, <2>5
    <3> HIDE DEF u
    <3> QED BY <3>1, <3>2, <3>3
  <2>7. TextIs(b2, m, pre \o s)
    BY <2>3, <2>5, <2>6
  <2> QED BY <1>5, <2>7 DEF Ends
<1>6. CASE f.cursor_col > 0
  <2>1. r.buffer = [f.buffer EXCEPT ![f.size - 1] = Front(@)] /\ r.size = f.size
    BY <1>6, EraseStays
  <2>2. f.buffer[f.size - 1] # <<>> /\ f.size \in 1 .. f.size
    BY <1>1, <1>3, <1>6
  <2> HIDE DEF r
  <2> QED BY <1>1, <1>2, <1>4, <1>5, <2>1, <2>2 DEF r
<1>7. CASE ~(f.cursor_col > 0)
  <2>1. f.cursor_col = 0
    BY <1>1, <1>7
  <2>2. f.cursor_row > 0 /\ Len(f.buffer[f.size - 2]) = W /\ f.size >= 2
    BY <2>1, HeldAbove
  <2>3. r.buffer = [f.buffer EXCEPT ![f.size - 2] = Front(@)] /\ r.size = f.size - 1
    BY <2>1, <2>2, EraseWraps
  <2> DEFINE m == f.size - 1
  <2>4. m \in 1 .. f.size /\ m - 1 \in Lines /\ m - 1 = f.size - 2 /\ m \in 1 .. BUFFER_MAX_HEIGHT
    <3>1. f.size \in Nat /\ f.size >= 2 /\ f.size <= BUFFER_MAX_HEIGHT /\ BUFFER_MAX_HEIGHT \in Nat
      BY <1>1, <2>2
    <3>2. m \in Nat /\ m >= 1 /\ m <= f.size /\ m - 1 = f.size - 2
      BY <3>1
    <3>3. f.size - 2 \in Lines
      BY <3>1 DEF Lines
    <3> QED BY <3>1, <3>2, <3>3
  <2>5. f.buffer[f.size - 1] = <<>> /\ f.buffer[m - 1] # <<>>
    <3>1. Len(<<>>) = 0
      OBVIOUS
    <3>2. f.buffer[f.size - 1] = <<>>
      <4>1. Len(f.buffer[f.size - 1]) = 0
        BY <1>1, <2>1
      <4> QED BY <1>3, <4>1
    <3>3. f.buffer[m - 1] # <<>>
      <4>1. Len(f.buffer[f.size - 2]) # 0
        BY <1>1, <2>2
      <4>2. f.buffer[f.size - 2] # <<>>
        BY <3>1, <4>1
      <4> QED BY <2>4, <4>2
    <3> QED BY <3>2, <3>3
  <2>6. IsBuffer(f.buffer, m)
    BY <1>3, <2>4 DEF IsBuffer
  <2>7. TextIs(f.buffer, m, pre \o Append(s, c))
    BY <1>2, <1>4, <2>2, <2>5, PreviousLine
  <2>8. r.size = m /\ r.buffer = [f.buffer EXCEPT ![m - 1] = Front(@)]
    BY <2>3, <2>4
  <2> HIDE DEF r, m
  <2> QED BY <1>5, <2>4, <2>5, <2>6, <2>7, <2>8 DEF r
<1> QED BY <1>6, <1>7

\* After a newline, and on a cleared screen, the text is empty.
LEMMA NewlineEnds ==
    ASSUME NEW f, InOrder(f), f.is_cursor_viewable, InOrder(put_newline(f))
    PROVE  Ends(put_newline(f), <<>>)
<1> DEFINE r == put_newline(f)
           l == Line(f) + 1
           g == [f EXCEPT !.cursor_row = @ + 1,
                          !.buffer[l] = EmptyLine,
                          !.size = IF l < @ THEN @ ELSE @ + 1]
           v == new_frame_buffer_view(g, TRUE)
<1>1. /\ f.size \in Nat /\ f.size >= 1 /\ BUFFER_MAX_HEIGHT \in Nat
      /\ f.cursor_row + f.frame_row_pointer = f.size - 1
      /\ f.cursor_col < BUFFER_WIDTH_VIEW /\ f.cursor_col = Len(f.buffer[f.size - 1])
  BY OrderFacts
<1>2. DOMAIN f = Fields /\ f.buffer \in [Lines -> Seq(Glyphs)]
  BY DEF InOrder, IsDisplay
<1>3. Line(f) = f.size - 1 /\ l = f.size
  BY <1>1 DEF Line
<1>4. ~(Line(f) >= BUFFER_MAX_HEIGHT - 1)
  <2> SUFFICES ASSUME Line(f) >= BUFFER_MAX_HEIGHT - 1 PROVE FALSE
    OBVIOUS
  <2>1. r = [f EXCEPT !.dropped = TRUE]
    BY DEF put_newline
  <2>2. r.dropped
    BY <1>2, <2>1 DEF Fields
  <2> QED BY <2>2, OrderFacts
<1>5. r = [v EXCEPT !.cursor_col = 0]
  BY <1>4 DEF put_newline
<1>6. /\ DOMAIN g = Fields /\ g.buffer = [f.buffer EXCEPT ![l] = EmptyLine]
      /\ g.size = f.size + 1
  <2>1. DOMAIN g = Fields /\ g.buffer = [f.buffer EXCEPT ![l] = EmptyLine]
    BY <1>2 DEF Fields
  <2>2. g.size = IF l < f.size THEN f.size ELSE f.size + 1
    BY <1>2 DEF Fields
  <2>3. ~(l < f.size)
    BY <1>1, <1>3
  <2> QED BY <2>1, <2>2, <2>3
<1> HIDE DEF g, l
<1>7. ViewOf(g, v)
  BY <1>6, NewView
<1> HIDE DEF v
<1>8. r.buffer = [f.buffer EXCEPT ![l] = EmptyLine] /\ r.size = f.size + 1
  BY <1>5, <1>6, <1>7 DEF ViewOf, Fields
<1>9. IsBuffer(r.buffer, r.size) /\ r.size - 1 = f.size /\ r.size - 2 = f.size - 1
  <2>1. IsBuffer(r.buffer, r.size)
    BY BufferInOrder
  <2> HIDE DEF r
  <2> QED BY <1>1, <1>8, <2>1
<1> HIDE DEF r
<1>10. f.size \in Lines /\ f.size - 1 \in Lines
  BY <1>1, <1>3, <1>4 DEF Lines
<1>11. r.buffer[r.size - 1] = <<>> /\ r.buffer[r.size - 2] = f.buffer[f.size - 1]
  <2>1. f.size # f.size - 1
    BY <1>1
  <2> QED BY <1>2, <1>3, <1>8, <1>9, <1>10, <2>1 DEF EmptyLine
<1>12. TextIs(r.buffer, r.size, <<>>)
  <2>1. Len(r.buffer[r.size - 2]) < BUFFER_WIDTH_VIEW
    BY <1>1, <1>11
  <2> QED BY <1>9, <1>11, <2>1, FreshLine
<1>13. <<>> \o <<>> = <<>> /\ <<>> \in Seq(Glyphs)
  BY ConcatEmptySeq
<1> QED BY <1>12, <1>13 DEF Ends, r

LEMMA ClearEnds ==
    Ends(clear_screen, <<>>)
<1> DEFINE k == clear_screen
<1>1. k.buffer = [l \in Lines |-> <<>>] /\ k.size = 1
  BY DEF clear_screen, EmptyLine
<1> HIDE DEF k
<1>2. IsBuffer(k.buffer, k.size) /\ k.buffer[k.size - 1] = <<>>
  <2>1. 0 \in Lines /\ 1 \in 1 .. BUFFER_MAX_HEIGHT /\ 1 - 1 = 0
    BY DisplayAssumption DEF Lines
  <2> QED BY <1>1, <2>1 DEF IsBuffer
<1>3. TextIs(k.buffer, k.size, <<>>)
  BY <1>1, <1>2, FreshLine
<1>4. <<>> \o <<>> = <<>> /\ <<>> \in Seq(Glyphs)
  BY ConcatEmptySeq
<1> QED BY <1>3, <1>4 DEF Ends, k

\* A text that ends with something ends with nothing.
LEMMA EndsWithNothing ==
    ASSUME NEW f, NEW s \in Seq(Glyphs), Ends(f, s)
    PROVE  Ends(f, <<>>)
<1>1. PICK pre \in Seq(Glyphs) : TextIs(f.buffer, f.size, pre \o s)
  BY DEF Ends
<1> DEFINE t == pre \o s
<1>2. t \in Seq(Glyphs) /\ TextIs(f.buffer, f.size, t)
  BY <1>1, ConcatProperties
<1> HIDE DEF t
<1>3. t \o <<>> = t
  BY <1>2, ConcatEmptySeq
<1> QED BY <1>2, <1>3 DEF Ends

\* A display on which text can be printed after a text that ends with s.
Told(f, s) ==
    HasDropped(f) \/ (InOrder(f) /\ f.is_cursor_viewable /\ Shown(f) /\ Ends(f, s))

LEMMA GlyphTold ==
    ASSUME NEW f, NEW s \in Seq(Glyphs), Told(f, s), NEW c \in Glyphs
    PROVE  Told(handle_new_char(f, c), Append(s, c))
<1>1. CASE HasDropped(f)
  BY <1>1, CharDropped DEF Told
<1>2. CASE InOrder(f) /\ f.is_cursor_viewable /\ Shown(f) /\ Ends(f, s)
  <2> DEFINE r == put_glyph(f, c)
             z == Append(s, c)
  <2>1. handle_new_char(f, c) = r
    BY <1>2, CharIs
  <2>2. HasDropped(r) \/ (InOrder(r) /\ r.is_cursor_viewable)
    BY <1>2, GlyphInOrder
  <2>3. InOrder(r) => Shown(r)
    BY <1>2, GlyphShown
  <2>4. HasDropped(r) \/ Ends(r, z)
    BY <1>2, GlyphEnds
  <2> HIDE DEF r, z
  <2>5. Told(r, z)
    BY <2>2, <2>3, <2>4 DEF Told
  <2> QED BY <2>1, <2>5 DEF z
<1> QED BY <1>1, <1>2 DEF Told

LEMMA CharTold ==
    ASSUME NEW f, Told(f, <<>>), NEW c \in Glyphs \cup {NewLine}
    PROVE  Told(handle_new_char(f, c), <<>>)
<1>0. <<>> \in Seq(Glyphs)
  OBVIOUS
<1>1. CASE HasDropped(f)
  BY <1>1, CharDropped DEF Told
<1>2. CASE c \in Glyphs
  <2> DEFINE e == <<>>
             z == Append(e, c)
  <2>1. e \in Seq(Glyphs) /\ Told(f, e)
    BY <1>0
  <2> HIDE DEF e
  <2>2. Told(handle_new_char(f, c), z) /\ z \in Seq(Glyphs)
    BY <1>2, <2>1, GlyphTold
  <2> HIDE DEF z
  <2> QED BY <2>2, EndsWithNothing DEF Told
<1>3. CASE c = NewLine /\ InOrder(f) /\ f.is_cursor_viewable /\ Shown(f) /\ Ends(f, <<>>)
  <2> DEFINE r == put_newline(f)
  <2>1. handle_new_char(f, c) = r
    BY <1>3, CharIs
  <2>2. HasDropped(r) \/ (InOrder(r) /\ r.is_cursor_viewable)
    BY <1>3, NewlineInOrder
  <2>3. InOrder(r) => Shown(r)
    BY <1>3, NewlineShown
  <2>4. InOrder(r) => Ends(r, <<>>)
    BY <1>0, <1>3, NewlineEnds
  <2> HIDE DEF r
  <2> QED BY <2>1, <2>2, <2>3, <2>4 DEF Told
<1> QED BY <1>1, <1>2, <1>3 DEF Told

\* What a command prints, character by character.
LEMMA OutputTold ==
    ASSUME NEW f, Told(f, <<>>), NEW str \in Seq(Glyphs \cup {NewLine})
    PROVE  Told(puts(f, str), <<>>)
<1>1. PICK g : Printing(f, str, g) /\ puts(f, str) = g[Len(str)]
  BY PutsPrints
<1> DEFINE T == {n \in 0 .. Len(str) : ~Told(g[n], <<>>)}
<1>2. Len(str) \in Nat
  OBVIOUS
<1>3. T = {}
  <2> SUFFICES ASSUME T # {} PROVE FALSE
    OBVIOUS
  <2>1. T \in SUBSET Nat
    BY <1>2
  <2>2. PICK n \in T : IsFirst(T, n)
    BY <2>1, LeastMember
  <2>3. n \in Nat /\ n \in 0 .. Len(str) /\ ~Told(g[n], <<>>)
    BY <2>1
  <2>4. n # 0
    <3>1. g[0] = f
      BY <1>1, <1>2 DEF Printing
    <3> QED BY <2>3, <3>1
  <2>5. n - 1 \in 0 .. Len(str) /\ n - 1 \in Nat
    BY <2>3, <2>4
  <2>6. Told(g[n - 1], <<>>)
    BY <2>2, <2>3, <2>5 DEF IsFirst
  <2>7. g[n] = handle_new_char(g[n - 1], str[n])
    BY <1>1, <2>3, <2>4 DEF Printing
  <2>8. str[n] \in Glyphs \cup {NewLine}
    <3>1. n \in 1 .. Len(str)
      BY <2>3, <2>4
    <3> QED BY <3>1
  <2> QED BY <2>3, <2>6, <2>7, <2>8, CharTold
<1>4. Len(str) \in 0 .. Len(str)
  BY <1>2
<1> QED BY <1>1, <1>3, <1>4

\* The prompt, character by character.
LEMMA PromptTold ==
    ASSUME NEW f, Told(f, <<>>)
    PROVE  Told(puts(f, Prompt), Prompt)
<1>0. Prompt \in Seq(Glyphs) /\ Len(Prompt) \in Nat
  BY TerminalAssumption
<1>1. PICK g : Printing(f, Prompt, g) /\ puts(f, Prompt) = g[Len(Prompt)]
  BY <1>0, PutsPrints
<1> DEFINE S(n) == SubSeq(Prompt, 1, n)
           T == {n \in 0 .. Len(Prompt) : ~Told(g[n], S(n))}
<1>2. S(0) = <<>> /\ S(Len(Prompt)) = Prompt
  BY <1>0, SubSeqEmpty, SubSeqFull
<1>3. T = {}
  <2> SUFFICES ASSUME T # {} PROVE FALSE
    OBVIOUS
  <2>1. T \in SUBSET Nat
    BY <1>0
  <2>2. PICK n \in T : IsFirst(T, n)
    BY <2>1, LeastMember
  <2>3. n \in Nat /\ n \in 0 .. Len(Prompt) /\ ~Told(g[n], S(n))
    BY <2>1
  <2>4. n # 0
    <3>1. g[0] = f
      BY <1>0, <1>1 DEF Printing
    <3> HIDE DEF S
    <3> QED BY <1>2, <2>3, <3>1
  <2>5. n - 1 \in 0 .. Len(Prompt) /\ n - 1 \in Nat /\ n \in 1 .. Len(Prompt)
    BY <1>0, <2>3, <2>4
  <2>6. Told(g[n - 1], S(n - 1))
    <3> HIDE DEF S
    <3> QED BY <2>2, <2>3, <2>5 DEF IsFirst
  <2>7. g[n] = handle_new_char(g[n - 1], Prompt[n])
    BY <1>1, <2>3, <2>4 DEF Printing
  <2>8. Prompt[n] \in Glyphs
    BY <1>0, <2>5
  <2>9. S(n) = Append(S(n - 1), Prompt[n]) /\ S(n - 1) \in Seq(Glyphs)
    <3>1. S(n - 1) \in Seq(Glyphs)
      BY <1>0, <2>5, SubSeqProperties
    <3>2. S(n) = Append(S(n - 1), Prompt[n])
      BY <1>0, <2>5, SubSeqRecursiveSecond
    <3> QED BY <3>1, <3>2
  <2> DEFINE z == S(n - 1)
  <2>10. Told(g[n - 1], z) /\ z \in Seq(Glyphs) /\ S(n) = Append(z, Prompt[n])
    BY <2>6, <2>9
  <2> HIDE DEF z, S
  <2>11. Told(handle_new_char(g[n - 1], Prompt[n]), Append(z, Prompt[n]))
    BY <2>8, <2>10, GlyphTold
  <2> QED BY <2>3, <2>7, <2>10, <2>11
<1>4. Len(Prompt) \in 0 .. Len(Prompt)
  BY <1>0
<1> HIDE DEF S
<1> QED BY <1>1, <1>2, <1>3, <1>4

\* From the first prompt on the text on the display ends with the prompt and the
\* command.
EchoInv ==
    pc # "boot" => HasDropped(fb) \/ Ends(fb, Prompt \o command)

\* A new prompt on any display.
LEMMA PromptEcho ==
    ASSUME NEW f, Told(f, <<>>), print_working_dir(f)
    PROVE  EchoInv'
<1>1. fb' = puts(f, Prompt) /\ command' = <<>>
  BY DEF print_working_dir
<1>2. Told(fb', Prompt)
  BY <1>1, PromptTold
<1>3. Prompt \o command' = Prompt
  BY <1>1, TerminalAssumption, ConcatEmptySeq
<1> QED BY <1>2, <1>3 DEF EchoInv, Told

\* Typing and erasing change the text and the command alike.
LEMMA TypeEcho ==
    ASSUME TerminalInv, EchoInv, TypeChar
    PROVE  EchoInv'
<1>1. /\ fb' = handle_new_char(fb, buf) /\ fb.is_cursor_viewable /\ buf \in Glyphs
      /\ command' = Append(command, buf) /\ pc # "boot" /\ command \in Seq(Glyphs)
  BY DEF TypeChar, check, TerminalInv
<1>2. CASE HasDropped(fb)
  BY <1>1, <1>2, CharDropped DEF EchoInv
<1>3. CASE ~HasDropped(fb)
  <2> DEFINE s == Prompt \o command
  <2>1. s \in Seq(Glyphs) /\ Prompt \o command' = Append(s, buf)
    <3>1. Prompt \in Seq(Glyphs)
      BY TerminalAssumption
    <3> QED BY <1>1, <3>1, ConcatProperties, LastPart
  <2>2. InOrder(fb) /\ Ends(fb, s)
    BY <1>1, <1>3 DEF TerminalInv, DisplayInv, EchoInv
  <2> HIDE DEF s
  <2>3. fb' = put_glyph(fb, buf)
    BY <1>1, <2>2, CharIs
  <2>4. HasDropped(fb') \/ Ends(fb', Append(s, buf))
    BY <1>1, <2>1, <2>2, <2>3, GlyphEnds
  <2> QED BY <2>1, <2>4 DEF EchoInv
<1> QED BY <1>2, <1>3

LEMMA EraseEcho ==
    ASSUME TerminalInv, EchoInv, EraseChar
    PROVE  EchoInv'
<1>1. /\ fb' = handle_new_char(fb, Backspace) /\ fb.is_cursor_viewable
      /\ command' = Front(command) /\ pc # "boot" /\ command \in Seq(Glyphs) /\ command # <<>>
  BY DEF EraseChar, check, TerminalInv
<1>2. CASE HasDropped(fb)
  BY <1>1, <1>2, CharDropped DEF EchoInv
<1>3. CASE ~HasDropped(fb)
  <2>1. PICK z \in Seq(Glyphs), c \in Glyphs : command = Append(z, c)
    BY <1>1, LastCharacter
  <2>2. Len(command) \in Nat /\ Len(command) > 0
    BY <1>1
  <2> DEFINE s == Prompt \o z
  <2>3. s \in Seq(Glyphs) /\ Prompt \o command' = s /\ Prompt \o command = Append(s, c)
    <3>1. Prompt \in Seq(Glyphs)
      BY TerminalAssumption
    <3>2. command' = z
      BY <1>1, <2>1, LastPart
    <3>3. Append(s, c) = Prompt \o Append(z, c)
      BY <3>1, LastPart
    <3>4. s \in Seq(Glyphs)
      BY <3>1, ConcatProperties
    <3> QED BY <2>1, <3>2, <3>3, <3>4
  <2>4. InOrder(fb) /\ Held(fb, Len(command))
    BY <1>3 DEF TerminalInv, DisplayInv
  <2>5. Ends(fb, Prompt \o command)
    BY <1>1, <1>3 DEF EchoInv
  <2>6. Ends(fb, Append(s, c))
    BY <2>3, <2>5
  <2> HIDE DEF s
  <2>7. fb' = put_backspace(fb)
    BY <1>1, <2>4, CharIs
  <2> DEFINE n == Len(command)
  <2>8. n \in Nat /\ n > 0 /\ Held(fb, n)
    BY <2>2, <2>4
  <2> HIDE DEF n
  <2>9. Ends(fb', s)
    BY <1>1, <2>3, <2>4, <2>6, <2>7, <2>8, EraseEnds
  <2> QED BY <2>3, <2>9 DEF EchoInv
<1> QED BY <1>2, <1>3

\* What a command printed comes before the new prompt.
LEMMA RunEcho ==
    ASSUME PlainText, TerminalInv, EchoInv, run_command
    PROVE  EchoInv'
<1> DEFINE n == handle_new_char(fb, NewLine)
<1>1. Told(fb, <<>>)
  <2>1. HasDropped(fb) \/ (InOrder(fb) /\ fb.is_cursor_viewable /\ Shown(fb))
    BY DEF TerminalInv, DisplayInv, run_command, check
  <2>2. HasDropped(fb) \/ Ends(fb, Prompt \o command)
    BY DEF EchoInv, run_command
  <2> DEFINE s == Prompt \o command
  <2>3. s \in Seq(Glyphs)
    BY TerminalAssumption, ConcatProperties DEF TerminalInv
  <2>4. HasDropped(fb) \/ Ends(fb, s)
    BY <2>2
  <2> HIDE DEF s
  <2>5. HasDropped(fb) \/ Ends(fb, <<>>)
    BY <2>3, <2>4, EndsWithNothing
  <2> QED BY <2>1, <2>5 DEF Told
<1>2. Told(n, <<>>)
  BY <1>1, CharTold
<1>3. \A out \in Outputs : Told(puts(n, out), <<>>)
  BY <1>2, OutputTold DEF PlainText
<1>4. Told(clear_screen, <<>>)
  BY ClearPrintable, ClearEnds DEF Printable, Told
<1>5. \E f : Told(f, <<>>) /\ print_working_dir(f)
  BY <1>2, <1>3, <1>4 DEF run_command
<1> QED BY <1>5, PromptEcho

\* Scrolling and the clock leave the buffer alone.
LEMMA BufferLeft ==
    ASSUME NEW f, DOMAIN f = Fields, NEW s, Ends(f, s), NEW c, NEW row, NEW col
    PROVE  Ends(move_screen(f, c), s) /\ Ends(framebuffer_write(f, row, col, c), s)
<1>1. LET r == move_screen(f, c) IN r.buffer = f.buffer /\ r.size = f.size
  BY DEF move_screen, Redraw, Fields
<1>2. LET r == framebuffer_write(f, row, col, c) IN r.buffer = f.buffer /\ r.size = f.size
  BY DEF framebuffer_write, Fields
<1> QED BY <1>1, <1>2 DEF Ends

\* Every step keeps the echo.
LEMMA EchoStep ==
    ASSUME PlainText, TerminalInv, EchoInv, [Next]_vars
    PROVE  EchoInv'
<1>1. CASE LoadingBar
  <2>1. Told(clear_screen, <<>>)
    BY ClearPrintable, ClearEnds DEF Printable, Told
  <2> QED BY <1>1, <2>1, PromptEcho DEF LoadingBar
<1>2. CASE ActivateKeyboard \/ TakeChar \/ CheckShift \/ IgnoreChar
  <2>1. UNCHANGED <<fb, command>> /\ pc # "boot"
    BY <1>2 DEF ActivateKeyboard, TakeChar, CheckShift, IgnoreChar
  <2> QED BY <2>1 DEF EchoInv
<1>3. CASE EraseChar
  BY <1>3, EraseEcho
<1>4. CASE run_command
  BY <1>4, RunEcho
<1>5. CASE TypeChar
  BY <1>5, TypeEcho
<1>6. CASE KeyInterrupt \/ UNCHANGED vars
  BY <1>6 DEF KeyInterrupt, vars, EchoInv
<1>7. CASE MoveScreen \/ ClockDraws
  <2>1. /\ pc # "boot" /\ command' = command
        /\ \/ fb' = move_screen(fb, buf)
           \/ \E cell \in ClockCells : fb' = framebuffer_write(fb, cell[1], cell[2], "0")
    BY <1>7 DEF MoveScreen, ClockDraws
  <2>2. CASE HasDropped(fb)
    <3>1. HasDropped(fb')
      BY <2>1, <2>2, ScrollDropped, ClockInOrder
    <3> QED BY <3>1 DEF EchoInv
  <2>3. CASE ~HasDropped(fb)
    <3> DEFINE s == Prompt \o command
    <3>1. DOMAIN fb = Fields
      BY <2>3 DEF TerminalInv, DisplayInv, InOrder, IsDisplay
    <3>2. Ends(fb, s) /\ Prompt \o command' = s
      BY <2>1, <2>3 DEF EchoInv
    <3> HIDE DEF s
    <3>3. Ends(fb', s)
      BY <2>1, <3>1, <3>2, BufferLeft
    <3> QED BY <3>2, <3>3 DEF EchoInv
  <2> QED BY <2>2, <2>3
<1> QED BY <1>1, <1>2, <1>3, <1>4, <1>5, <1>6, <1>7 DEF Next, type_command

\* type_command keeps curr_command_buffer and the display apart and changes the two
\* by separate code; still the last line always ends with the prompt and exactly the
\* command that Enter would run, for commands, lines and screens of any size, however
\* often the command wraps and is erased across lines, while it is scrolled away and
\* after any output.
THEOREM TerminalEchoMatchesCommand ==
    ASSUME PlainText
    PROVE  Spec => []EchoMatchesCommand
<1>1. Init => EchoInv
  BY DEF Init, EchoInv
<1>2. TerminalInv /\ EchoInv => EchoMatchesCommand
  <2> SUFFICES ASSUME TerminalInv, EchoInv, Typing, ~fb.dropped
               PROVE  IsSuffix(Prompt \o command, LastText)
    BY DEF EchoMatchesCommand
  <2> DEFINE s == Prompt \o command
  <2>1. InOrder(fb) /\ Ends(fb, s)
    BY DEF TerminalInv, DisplayInv, HasDropped, EchoInv, Typing
  <2>2. s \in Seq(Glyphs)
    BY TerminalAssumption, ConcatProperties DEF TerminalInv
  <2> HIDE DEF s
  <2>3. PICK pre \in Seq(Glyphs) : TextIs(fb.buffer, fb.size, pre \o s)
    BY <2>1 DEF Ends
  <2> DEFINE t == pre \o s
  <2>4. TextIs(fb.buffer, fb.size, t)
    BY <2>3
  <2>5. IsSuffix(s, t)
    BY <2>2, AppendedIsSuffix
  <2> HIDE DEF t
  <2>6. LastText = t
    BY <2>1, <2>4, BufferInOrder, TextFound
  <2> QED BY <2>5, <2>6 DEF s
<1>3. TerminalInv /\ EchoInv /\ [Next]_vars => TerminalInv' /\ EchoInv'
  BY TerminalStep, EchoStep
<1> QED BY <1>1, <1>2, <1>3, TerminalInit, PTL DEF Spec
=============================================================================
