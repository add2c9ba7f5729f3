SPECIFICATION Spec
CONSTANTS
    BUFFER_WIDTH_VIEW = 2
    BUFFER_HEIGHT_VIEW = 3
    BUFFER_MAX_HEIGHT = 5
    BYTE = 5
    Glyphs <- MCGlyphs
    NoChar = NoChar
    Scancodes = {"key_space", "key_enter", "key_backspace", "key_control", "up", "down", "left_shift", "left_shift_release"}
    Outputs <- MCOutputs
    Prompt <- MCPrompt
    MAX_COMMAND = 2
    ClockCells <- MCClockCells
INVARIANTS
    
    
    ScreenShowsBuffer
PROPERTIES
    KeyIsTaken
