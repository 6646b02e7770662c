SPECIFICATION Spec
CONSTANTS
    None = None
    Torn = Torn
    Docs = {d1, d2}
    MaxRequests = 2
    MaxVersions = 2
    MaxWrites = 1
    MaxPipe = 2
SYMMETRY DocSymmetry
CONSTRAINT Budget
VIEW LspView
INVARIANTS LspInv MirrorIsCurrent NeverStuck
PROPERTIES SelectionTextIsTrue DiskTextIsTrue RequestsAreAnswered
CHECK_DEADLOCK FALSE
