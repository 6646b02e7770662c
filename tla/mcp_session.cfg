SPECIFICATION FairSpec
CONSTANTS
    Clis = {cli}
    Helper = helper
    Window = 1
    Room = 1
    MaxMessages = 2
    MaxSelections = 1
INVARIANTS
    McpInv
    NoEditIsClaimed
PROPERTIES
    ImplementsRequestReply
    EndsForAReason
    HotkeyIsHonoured
CHECK_DEADLOCK FALSE
