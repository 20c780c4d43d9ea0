\* Windows that may hold nothing but nan.
CONSTANTS
    NBins = 4
    MinUsable = 3
    MaxReference = 5
    MaxRows = 5
    Numbers <- MCNumbers
    NaN = NaN
    NoNumber = NoNumber
    Blank = Blank
    Nothing = Nothing
    us = us
    usBlank = usBlank
    de = de
    Categories <- MCCategories
    Strip <- MCStrip
SPECIFICATION Spec
INVARIANT TooFewNumbersAreNotOk
CHECK_DEADLOCK FALSE
