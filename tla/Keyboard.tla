------------------------------ MODULE Keyboard ------------------------------
(* The keyboard driver of keyboard.c: the interrupt routine turns scancodes   *)
(* into characters and keeps the last one; a system call takes it.            *)
EXTENDS Naturals

CONSTANT NoChar   \* the byte 0: no character is waiting

VARIABLE keyboard_state

\* One key of each kind the tables of keyboard.c tell apart, by the character
\* it is mapped to: a letter, a key with a second character, the two editing
\* keys, and a key without a character such as Control.
keyboard_scancode_1_to_ascii_map ==
    [key_a |-> "a", key_space |-> "space", key_1 |-> "1", key_enter |-> "newline",
     key_backspace |-> "backspace", key_control |-> NoChar]

upper == [c \in {"a"} |-> "A"]
shift_map == [c \in {"1"} |-> "!"]

Arrows == [up |-> "arrow_up", left |-> "arrow_left",
           down |-> "arrow_down", right |-> "arrow_right"]

\* What may come from the keyboard.
Keys ==
    {"capslock", "left_shift", "left_shift_release", "right_shift", "right_shift_release",
     "other_release"} \cup DOMAIN Arrows \cup DOMAIN keyboard_scancode_1_to_ascii_map

KeyboardInit == keyboard_state =
    [keyboard_input_on |-> FALSE, capslock |-> FALSE, left_shift |-> FALSE,
     right_shift |-> FALSE, keyboard_buffer |-> NoChar]

\* The waiting character is not reset.
keyboard_state_activate ==
    keyboard_state' = [keyboard_state EXCEPT !.keyboard_input_on = TRUE,
        !.capslock = FALSE, !.left_shift = FALSE, !.right_shift = FALSE]

is_shift == keyboard_state.left_shift \/ keyboard_state.right_shift

\* Mutant: the character is not flushed.
BufferKept(c) ==
    /\ c = keyboard_state.keyboard_buffer
    /\ UNCHANGED keyboard_state

\* c is the character handed to the caller.
get_keyboard_buffer(c) ==
    /\ c = keyboard_state.keyboard_buffer
    /\ keyboard_state' = [keyboard_state EXCEPT !.keyboard_buffer = NoChar]

\* The character of a key under the modifiers: the two cancel out on a letter.
Mapped(k) ==
    LET c == keyboard_scancode_1_to_ascii_map[k] IN
    IF c \in DOMAIN upper
    THEN IF keyboard_state.capslock # is_shift THEN upper[c] ELSE c
    ELSE IF is_shift /\ c \in DOMAIN shift_map THEN shift_map[c] ELSE c

\* A key without a character overwrites the one that waits as well.
keyboard_isr(k) ==
    IF keyboard_state.keyboard_input_on
    THEN keyboard_state' =
        CASE k = "capslock"            -> [keyboard_state EXCEPT !.capslock = ~@]
          [] k = "left_shift"          -> [keyboard_state EXCEPT !.left_shift = TRUE]
          [] k = "left_shift_release"  -> [keyboard_state EXCEPT !.left_shift = FALSE]
          [] k = "right_shift"         -> [keyboard_state EXCEPT !.right_shift = TRUE]
          [] k = "right_shift_release" -> [keyboard_state EXCEPT !.right_shift = FALSE]
          [] k = "other_release"       -> keyboard_state
          [] k \in DOMAIN Arrows ->
               [keyboard_state EXCEPT !.keyboard_buffer = Arrows[k]]
          [] k \in DOMAIN keyboard_scancode_1_to_ascii_map ->
               [keyboard_state EXCEPT !.keyboard_buffer = Mapped(k)]
    ELSE UNCHANGED keyboard_state
=============================================================================
