SPECIFICATION Spec
CONSTANTS
    Places <- MCPlaces
    Moves <- MCMoves
    Wheels <- MCWheels
    Rows = {1, 2}
    WideCols = 2
    BarCols = 1
    Cap = 3
    Top = "sys"
    Listing <- MCListing
    Contents <- MCContents
    Missing = "new"
    Clips <- MCClips
    Keys <- MCKeys
    Bytes <- MCBytes
INVARIANTS TypeOK ScreenIsCurrent CaretIsWhereTypingGoes PressIsWhereItIsSeen StarIsHonest
PROPERTY NothingBehindDialog
