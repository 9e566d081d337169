SPECIFICATION Spec
CONSTANTS
    PatternSteps = 200
    RepeatMax = 4
    InsertMax = 3
    CountMax = 99
    Room = 12
    Header = 1
    Size = 11
    ExpandMax = 6
    CopyMax = 7
    SearchMax = 2
    Sittings <- MCSittings
    Offered <- MCOffered
    Lines <- MCLines
INVARIANTS JournalTells MemoExact ModifiedTold RepeatRetypes
CHECK_DEADLOCK FALSE
