------------------------------ MODULE Terminal ------------------------------
(* The shell's typing loop (type_command, run_command and print_working_dir   *)
(* of user/command.c) over the keyboard driver and the display.  Each system  *)
(* call of the loop is a step of its own; key interrupts and the clock program*)
(* come between any two.  What a command does besides printing is in Shell.   *)
EXTENDS Framebuffer, Keyboard

CONSTANTS
    Scancodes,      \* the keys that may be pressed
    Outputs,        \* what a command may print
    Prompt,         \* what print_working_dir prints
    MAX_COMMAND,    \* capacity of curr_command_buffer
    ClockCells      \* where the clock program draws

\* The screen has room for a command below its first row, and the prompt is text.
ASSUME TerminalAssumption ==
    /\ MAX_COMMAND \in Nat
    /\ MAX_COMMAND <= (BUFFER_HEIGHT_VIEW - 1) * BUFFER_WIDTH_VIEW
    /\ Scancodes \subseteq Keys
    /\ Prompt \in Seq(Glyphs)
    /\ Outputs \subseteq Seq(Glyphs \cup ControlChars)
    /\ ClockCells \subseteq ScreenRows \X ScreenCols
    /\ NoChar \notin Glyphs \cup ControlChars

VARIABLES
    fb,             \* the globals of framebuffer.c
    pc,             \* the next system call of the shell
    buf,            \* type_command's local: the character taken
    command         \* curr_command_buffer up to curr_command_size

vars == <<keyboard_state, fb, pc, buf, command>>

Init ==
    /\ KeyboardInit
    /\ fb = clear_screen
    /\ pc = "boot"
    /\ buf = NoChar
    /\ command = <<>>

print_working_dir(f) ==
    /\ fb' = puts(f, Prompt)
    /\ command' = <<>>

\* The shell prints its loading bar on a cleared screen, clears it again and
\* shows the prompt; keys are ignored until the call after that.
LoadingBar ==
    /\ pc = "boot"
    /\ print_working_dir(clear_screen)
    /\ pc' = "activate"
    /\ UNCHANGED <<keyboard_state, buf>>

ActivateKeyboard ==
    /\ pc = "activate"
    /\ keyboard_state_activate
    /\ pc' = "get"
    /\ UNCHANGED <<fb, buf, command>>

TakeChar ==
    /\ pc = "get"
    /\ get_keyboard_buffer(buf')
    /\ pc' = "act"
    /\ UNCHANGED <<fb, command>>

\* The end of a round of the loop.
Return ==
    /\ pc' = "get"
    /\ buf' = NoChar
    /\ UNCHANGED keyboard_state

\* Asked before the character is looked at; only the shell changes it.
check == fb.is_cursor_viewable

EraseChar ==
    /\ pc = "act" /\ buf = Backspace /\ check
    /\ command # <<>>
    /\ fb' = handle_new_char(fb, Backspace)
    /\ command' = Front(command)
    /\ Return

\* A command that prints, one that clears the screen, and the empty line.
run_command ==
    /\ pc = "act" /\ buf = NewLine /\ check
    /\ \/ /\ command # <<>>
          /\ \E out \in Outputs :
                print_working_dir(puts(handle_new_char(fb, NewLine), out))
       \/ /\ command # <<>>
          /\ print_working_dir(clear_screen)
       \/ /\ command = <<>>
          /\ print_working_dir(handle_new_char(fb, NewLine))
    /\ Return

\* The shift keys are asked about after the arrow was taken ...
CheckShift ==
    /\ pc = "act" /\ buf \in {ARROW_UP, ARROW_DOWN}
    /\ IF is_shift
       THEN pc' = "move" /\ UNCHANGED <<keyboard_state, buf>>
       ELSE Return
    /\ UNCHANGED <<fb, command>>

\* ... and the screen is moved by yet another call.
MoveScreen ==
    /\ pc = "move"
    /\ fb' = move_screen(fb, buf)
    /\ Return
    /\ UNCHANGED command

TypeChar ==
    /\ pc = "act" /\ buf \in Glyphs /\ check
    /\ Len(command) < MAX_COMMAND
    /\ fb' = handle_new_char(fb, buf)
    /\ command' = Append(command, buf)
    /\ Return

\* Nothing was waiting, or the character has no effect here.
IgnoreChar ==
    /\ pc = "act"
    /\ \/ buf \in {NoChar, ARROW_LEFT, ARROW_RIGHT}
       \/ ~check /\ buf \in Glyphs \cup {Backspace, NewLine}
       \/ buf = Backspace /\ command = <<>>
       \/ buf \in Glyphs /\ Len(command) >= MAX_COMMAND
    /\ Return
    /\ UNCHANGED <<fb, command>>

type_command ==
    \/ LoadingBar \/ ActivateKeyboard
    \/ TakeChar
    \/ EraseChar \/ run_command \/ CheckShift \/ MoveScreen \/ TypeChar \/ IgnoreChar

\* Assumed of the user: the screen is not scrolled up while the cursor stands
\* above the bottom row of a screen that has already scrolled.  move_screen
\* leaves cursor_row alone, so what is typed after such a move lands in the
\* line above.
ScrollsFromBottom ==
    /\ pc = "get" /\ keyboard_state.keyboard_buffer = NoChar
    /\ fb.frame_row_pointer > 0 => fb.cursor_row = BUFFER_HEIGHT_VIEW - 1

KeyInterrupt ==
    \E k \in Scancodes :
        /\ k = "up" => ScrollsFromBottom
        /\ keyboard_isr(k)
        /\ UNCHANGED <<fb, pc, buf, command>>

\* One put_char_position of the clock program.
ClockDraws ==
    \E cell \in ClockCells :
        /\ pc \notin {"boot", "activate"}
        /\ fb' = framebuffer_write(fb, cell[1], cell[2], "0")
        /\ UNCHANGED <<keyboard_state, pc, buf, command>>

Next == type_command \/ KeyInterrupt \/ ClockDraws

\* The scheduler gives the shell its turn again and again, and none of its
\* calls waits for anything.
Spec == Init /\ [][Next]_vars /\ WF_vars(type_command)

-----------------------------------------------------------------------------
Typing == pc \notin {"boot", "activate"}

\* The text from the last line that does not continue a full one.
LastText ==
    LET starts == {l \in 0 .. fb.size - 1 :
                      l = 0 \/ Len(fb.buffer[l - 1]) < BUFFER_WIDTH_VIEW}
        first == CHOOSE l \in starts : \A k \in starts : k <= l
    IN  FlattenSeq([i \in 1 .. fb.size - first |-> fb.buffer[first + i - 1]])

\* Every index the driver computes stays in its array (framebuffer.c adds
\* cursor_row, which may be -1 or 25 for a moment, to frame_row_pointer), the
\* lines past frame_buffer.size hold nothing, and whenever the shell is told
\* that the cursor is viewable, the cursor stands at the end of the last line.
\* This ends when the full buffer ignores a character: erasing the command then
\* goes on into the lines above it.
CursorAtEnd ==
    ~fb.dropped =>
        /\ fb.cursor_row \in ScreenRows
        /\ fb.cursor_col \in LineCols
        /\ fb.frame_row_pointer \in 0 .. fb.size - 1
        /\ fb.size \in 1 .. BUFFER_MAX_HEIGHT
        /\ \A l \in Lines : l >= fb.size => fb.buffer[l] = EmptyLine
        /\ fb.is_cursor_viewable => /\ Line(fb) = fb.size - 1
                                    /\ fb.cursor_col = Len(fb.buffer[Line(fb)])

\* The last line on the display ends with the prompt and exactly the command
\* that Enter would run, however it was typed, wrapped, erased and scrolled
\* (type_command changes the two by separate code), until the buffer is full
\* and ignores characters.
EchoMatchesCommand ==
    Typing /\ ~fb.dropped => IsSuffix(Prompt \o command, LastText)

\* The screen, written cell by cell by put_char and framebuffer_erase and as a
\* whole when it scrolls, shows the lines of the buffer from frame_row_pointer
\* on, also while the user looks at older lines.  Outside this are the clock's
\* cells, the last column of a line that was full (backspace leaves its
\* character there), and a user more than a byte's worth of lines back.  It ends
\* with the first character ignored, as CursorAtEnd does.
ScreenShowsBuffer ==
    ~fb.dropped /\ fb.size - fb.frame_row_pointer < BYTE =>
        \A i \in ScreenRows, j \in ScreenCols :
            LET l == i + fb.frame_row_pointer
                inside == l < fb.size /\ j < Len(fb.buffer[l])
            IN  \/ <<i, j>> \in ClockCells
                \/ j = BUFFER_WIDTH_VIEW - 1 /\ ~inside
                \/ fb.screen[i][j] = IF inside THEN fb.buffer[l][j + 1] ELSE Blank

\* A waiting character is always taken by the shell in the end (or overwritten
\* by a key that leaves none): get_keyboard_buffer empties the one place.
KeyIsTaken ==
    keyboard_state.keyboard_buffer # NoChar ~> keyboard_state.keyboard_buffer = NoChar
=============================================================================
