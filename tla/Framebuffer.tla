----------------------------- MODULE Framebuffer -----------------------------
(* The text display of framebuffer.c.  Every line printed since the last      *)
(* clear is kept in frame_buffer; the screen shows BUFFER_HEIGHT_VIEW of them *)
(* from line frame_row_pointer on.  The driver's globals are the fields of one*)
(* record f, so that printing a character is an operator from one to the next.*)
(* Colours and the shape of the hardware cursor are left out.                 *)
EXTENDS Integers, Sequences, SequencesExt

CONSTANTS
    BUFFER_WIDTH_VIEW,    \* columns of a line; the screen has one more
    BUFFER_HEIGHT_VIEW,   \* rows of the screen
    BUFFER_MAX_HEIGHT,    \* lines the buffer can keep
    BYTE,                 \* number of values of a uint8_t
    Glyphs                \* the printable characters

ASSUME DisplayAssumption ==
    /\ BUFFER_WIDTH_VIEW \in Nat \ {0}
    /\ BUFFER_HEIGHT_VIEW \in Nat \ {0}
    /\ BUFFER_MAX_HEIGHT \in Nat
    /\ BUFFER_HEIGHT_VIEW < BUFFER_MAX_HEIGHT
    /\ BYTE \in Nat
    /\ BUFFER_HEIGHT_VIEW < BYTE
    /\ BUFFER_WIDTH_VIEW < BYTE

Blank == " "
NewLine == "newline"
Backspace == "backspace"
ARROW_UP == "arrow_up"
ARROW_DOWN == "arrow_down"
ARROW_LEFT == "arrow_left"
ARROW_RIGHT == "arrow_right"
ControlChars == {NewLine, Backspace, ARROW_UP, ARROW_DOWN, ARROW_LEFT, ARROW_RIGHT}

ASSUME GlyphsAssumption == Glyphs \cap (ControlChars \cup {Blank}) = {}

Lines == 0 .. BUFFER_MAX_HEIGHT - 1
ScreenRows == 0 .. BUFFER_HEIGHT_VIEW - 1
ScreenCols == 0 .. BUFFER_WIDTH_VIEW
LineCols == 0 .. BUFFER_WIDTH_VIEW - 1

framebuffer_clear == [i \in ScreenRows |-> [j \in ScreenCols |-> Blank]]

\* A LineBuffer is the sequence of its size first characters: no cursor ever
\* passes the end of its line here, so what lies behind is never shown.
EmptyLine == <<>>

\* The cursor is at (cursor_row, cursor_col) of the screen, which is this line.
Line(f) == f.cursor_row + f.frame_row_pointer

\* dropped is not in the code: it records that the full buffer ignored a
\* character since the last clear.
clear_screen ==
    [buffer             |-> [l \in Lines |-> EmptyLine],
     size               |-> 1,
     cursor_row         |-> 0,
     cursor_col         |-> 0,
     frame_row_pointer  |-> 0,
     is_cursor_viewable |-> TRUE,
     screen             |-> framebuffer_clear,
     dropped            |-> FALSE]

\* The redrawing loop that move_screen and new_frame_buffer_view share; the
\* number of lines below frame_row_pointer is cut to eight bits first.
Redraw(f) ==
    LET below == (f.size - f.frame_row_pointer) % BYTE
        shown(i, j) == /\ i < below
                       /\ j < Len(f.buffer[i + f.frame_row_pointer])
    IN  [f EXCEPT !.screen =
            [i \in ScreenRows |-> [j \in ScreenCols |->
                IF shown(i, j)
                THEN f.buffer[i + f.frame_row_pointer][j + 1] ELSE Blank]]]

new_frame_buffer_view(f, change) ==
    IF f.cursor_row < 0
    THEN Redraw([f EXCEPT !.frame_row_pointer = @ - 1, !.cursor_row = 0])
    ELSE IF f.cursor_row >= BUFFER_HEIGHT_VIEW
    THEN Redraw([f EXCEPT !.frame_row_pointer = @ + 1,
                          !.cursor_row = BUFFER_HEIGHT_VIEW - 1])
    ELSE IF change THEN Redraw(f) ELSE f

-----------------------------------------------------------------------------
(* Printing one character.                                                   *)

put_newline(f) ==
    IF Line(f) >= BUFFER_MAX_HEIGHT - 1 THEN [f EXCEPT !.dropped = TRUE]
    ELSE LET l == Line(f) + 1
             g == [f EXCEPT !.cursor_row = @ + 1,
                            !.buffer[l] = EmptyLine,
                            !.size = IF l < @ THEN @ ELSE @ + 1]
         IN  [new_frame_buffer_view(g, TRUE) EXCEPT !.cursor_col = 0]

\* A glyph in the last column moves the cursor to the next line, which the
\* last line of the buffer does not have.
put_glyph(f, c) ==
    LET l == Line(f)
        g == [f EXCEPT !.screen[f.cursor_row][f.cursor_col] = c,
                       !.buffer[l] = IF f.cursor_col < Len(@)
                                     THEN [@ EXCEPT ![f.cursor_col + 1] = c]
                                     ELSE Append(@, c)]
    IN  IF f.cursor_col + 1 < BUFFER_WIDTH_VIEW
        THEN new_frame_buffer_view([g EXCEPT !.cursor_col = @ + 1], FALSE)
        ELSE IF l < BUFFER_MAX_HEIGHT - 1
        THEN new_frame_buffer_view([g EXCEPT !.size = @ + 1,
                                             !.cursor_row = @ + 1,
                                             !.cursor_col = 0], FALSE)
        ELSE [f EXCEPT !.dropped = TRUE]

\* Blanks the cell before the cursor.  Seen from column 0 that is the extra
\* column of the row above, not the last column a line uses; in the top row it
\* lies before the screen.
framebuffer_erase(f) ==
    LET g == IF f.cursor_col > 0
             THEN [f EXCEPT !.screen[f.cursor_row][f.cursor_col - 1] = Blank]
             ELSE IF f.cursor_row > 0
             THEN [f EXCEPT !.screen[f.cursor_row - 1][BUFFER_WIDTH_VIEW] = Blank]
             ELSE f
    IN  IF f.cursor_col > 0 THEN [g EXCEPT !.cursor_col = @ - 1]
        ELSE IF f.cursor_row > 0
        THEN [g EXCEPT !.cursor_row = @ - 1, !.cursor_col = BUFFER_WIDTH_VIEW]
        ELSE g

ToLineEnd(f) == [f EXCEPT !.cursor_col = Len(f.buffer[Line(f)])]

\* Mutant: a line that backspace empties is not taken back.
LinesNeverTakenBack(f) ==
    IF f.cursor_col = 0 /\ Line(f) = 0 THEN f
    ELSE IF f.cursor_col > 0
    THEN LET g == framebuffer_erase(f)
         IN  [g EXCEPT !.buffer[Line(g)] = Front(@)]
    ELSE IF Len(f.buffer[Line(f) - 1]) >= BUFFER_WIDTH_VIEW
    THEN ToLineEnd(framebuffer_erase([f EXCEPT !.buffer[Line(f) - 1] = Front(@)]))
    ELSE ToLineEnd(new_frame_buffer_view([f EXCEPT !.cursor_row = @ - 1], TRUE))

put_backspace(f) ==
    LET g == IF f.buffer[Line(f)] = EmptyLine /\ Line(f) = f.size - 1
             THEN [f EXCEPT !.size = @ - 1] ELSE f
    IN  IF f.cursor_col = 0 /\ Line(f) = 0 THEN f
        ELSE IF f.cursor_col > 0
        THEN LET h == framebuffer_erase(f)
             IN  [h EXCEPT !.buffer[Line(h)] = Front(@)]
        ELSE IF Len(f.buffer[Line(f) - 1]) >= BUFFER_WIDTH_VIEW
        THEN ToLineEnd(framebuffer_erase(
                 [g EXCEPT !.buffer[Line(f) - 1] = Front(@)]))
        ELSE ToLineEnd(new_frame_buffer_view([g EXCEPT !.cursor_row = @ - 1], TRUE))

\* The column an arrow lands on in a line that may be shorter.
Clamped(f) == LET s == Len(f.buffer[Line(f)])
              IN  [f EXCEPT !.cursor_col = IF @ < s THEN @ ELSE s]

move_cursor(f, c) ==
    LET last == Line(f) >= f.size - 1
        s == Len(f.buffer[Line(f)])
        Up(g) == [g EXCEPT !.cursor_row = @ - 1]
        Down(g) == [g EXCEPT !.cursor_row = @ + 1]
    IN  CASE c = ARROW_UP ->
               IF Line(f) > 0 THEN new_frame_buffer_view(Clamped(Up(f)), FALSE) ELSE f
          [] c = ARROW_DOWN ->
               IF last THEN f ELSE new_frame_buffer_view(Clamped(Down(f)), FALSE)
          [] c = ARROW_LEFT ->
               IF f.cursor_col > 0 THEN [f EXCEPT !.cursor_col = @ - 1]
               ELSE IF Line(f) > 0
               THEN new_frame_buffer_view(ToLineEnd(Up(f)), FALSE) ELSE f
          [] c = ARROW_RIGHT ->
               IF f.cursor_col + 1 <= s THEN [f EXCEPT !.cursor_col = @ + 1]
               ELSE IF last THEN f
               ELSE new_frame_buffer_view([Down(f) EXCEPT !.cursor_col = 0], FALSE)

handle_new_char(f, c) ==
    IF Line(f) >= BUFFER_MAX_HEIGHT THEN f
    ELSE CASE c = NewLine   -> put_newline(f)
           [] c = Backspace -> put_backspace(f)
           [] c \in Glyphs  -> put_glyph(f, c)
           [] OTHER         -> move_cursor(f, c)

\* The display after the first n characters of str.
puts(f, str) ==
    LET printed[n \in 0 .. Len(str)] ==
            IF n = 0 THEN f ELSE handle_new_char(printed[n - 1], str[n])
    IN  printed[Len(str)]

-----------------------------------------------------------------------------
(* Scrolling back and forth, and writing one cell past the buffer.           *)

\* Mutant: the screen is not redrawn.
MoveWithoutRedraw(f, c) ==
    LET p == f.frame_row_pointer
        q == CASE c = ARROW_UP /\ p > 0 -> p - 1
               [] c = ARROW_DOWN /\ p + BUFFER_HEIGHT_VIEW < f.size -> p + 1
               [] OTHER -> p
    IN  [f EXCEPT !.frame_row_pointer = q,
                  !.is_cursor_viewable = f.size > q /\ f.size <= q + BUFFER_HEIGHT_VIEW]

move_screen(f, c) ==
    LET p == f.frame_row_pointer
        q == CASE c = ARROW_UP /\ p > 0 -> p - 1
               [] c = ARROW_DOWN /\ p + BUFFER_HEIGHT_VIEW < f.size -> p + 1
               [] OTHER -> p
    IN  Redraw([f EXCEPT !.frame_row_pointer = q,
                         !.is_cursor_viewable = /\ f.size > q
                                                /\ f.size <= q + BUFFER_HEIGHT_VIEW])

framebuffer_write(f, row, col, c) == [f EXCEPT !.screen[row][col] = c]
=============================================================================
