\* Every call of the memory and string functions on a small memory.
SPECIFICATION Spec
CONSTANTS
    Word = 4
    Space = 16
    Cases <- MCCases
INVARIANTS FillExact CopyExact CompareExact StringCopyExact
CHECK_DEADLOCK FALSE
