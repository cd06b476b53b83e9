SPECIFICATION Spec
CONSTANTS
    PageCount = 7
    MaxRun = 4
INVARIANTS NoPageShared BytesAreHeld
