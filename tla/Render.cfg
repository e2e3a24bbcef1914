SPECIFICATION RSpec
CONSTANTS
    main = main
    part = part
    other = other
    Paths = {main, part, other}
    Main = main
    MaxEntries = 2
    MaxEdits = 2
    MaxAccesses = 5
    MaxDepth = 3
    KeyOrder <- MCKeys
    Source <- MCSource
    Values <- MCValues
INVARIANTS
    HitIsFresh
    LruKeepsRecent
    ReadsWhatItWrites
    LoadsAreCurrent
    PageAsDeclared
