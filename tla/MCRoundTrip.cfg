SPECIFICATION Spec
CONSTANTS
    Files = {f1}
    Rest = rest
    Error = Error
    Contents <- MCContents
    Size <- MCSize
    MaxData = 4
    MaxInput = 5
    Wrap = 6
    MaxPacks = 2
INVARIANT UnpackGivesBack
CHECK_DEADLOCK FALSE
