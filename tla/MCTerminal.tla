----------------------------- MODULE MCTerminal -----------------------------
(* A display of 3 rows of 2 columns over 5 lines, commands of up to 2 glyphs, *)
(* so that a command wraps, scrolls, is scrolled away and fills the buffer.   *)
EXTENDS Terminal

MCPrompt == <<"$">>
MCGlyphs == {"space", "$", "a", "A", "1", "!"}
MCOutputs == {<<>>, <<"1", ARROW_LEFT, ARROW_RIGHT, NewLine>>}
MCClockCells == {<<2, 1>>}
=============================================================================
