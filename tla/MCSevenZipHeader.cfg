CONSTANTS
    Item <- MCItem
    FewItem <- MCFewItem
    MaxVaried = 4
    MaxItems = 9
    WideNumber <- MCWideNumber
SPECIFICATION HeaderSpec
INVARIANTS
    HeaderReadsBack
    NumbersReadBack
CHECK_DEADLOCK FALSE
