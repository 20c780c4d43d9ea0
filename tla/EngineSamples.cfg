\* Samples of up to five values, and windows of up to five observations.
CONSTANTS
    NBins = 4
    MinUsable = 3
    MaxReference = 5
    MaxRows = 5
    Numbers <- MCNumbers
    NaN = NaN
    NoNumber = NoNumber
    Blank = Blank
    Nothing = Nothing
    us = us
    usBlank = usBlank
    de = de
    Categories <- MCCategories
    Strip <- MCStrip
SPECIFICATION Spec
INVARIANTS TypeOK NumbersFallIntoOneBin UnchangedSamplesAreOk NewValuesDrift
CHECK_DEADLOCK FALSE
