SPECIFICATION Spec
CONSTANTS
    Window = 3
    Day = 6
    Half = 3
    DetectSecs = 1
    MaxTime = 8
    MaxLines = 5
    ShortSpan = TRUE
PROPERTIES DetectionsRight
