SPECIFICATION Spec
CONSTANTS
    Writer = {w1, w2}
    Text = {old, new}
    Inode = {i1, i2, i3}
    None = None
    MaxEdits = 2
    MaxFaults = 1
INVARIANTS
    PageIsThere
    AnswerIsTrue
PROPERTIES
    ReplacedWhatItSaw
    OthersAreKept
CHECK_DEADLOCK FALSE
SYMMETRY Symmetry
