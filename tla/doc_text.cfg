SPECIFICATION Spec
CONSTANTS
    Inserts <- MCInserts
    MaxBytes = 6
    MaxLine = 2
    MaxCharacter = 3
INVARIANTS MirrorIsEditors IndexIsExact OffsetsAreTheEditors WindowIsEnough
