SPECIFICATION Spec
CONSTANTS
    Stranger = Stranger
    Zero = Zero
    None = None
    Companions = {c1, c2, c3}
    Ports = {p1, p2}
SYMMETRY DirSymmetry
PROPERTY SweepRemovesOnlyOurDead
CHECK_DEADLOCK FALSE
