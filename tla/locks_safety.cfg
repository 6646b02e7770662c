SPECIFICATION ScanSpec
CONSTANTS
    Stranger = Stranger
    Zero = Zero
    None = None
    Companions = {c1, c2, c3}
    Ports = {p1, p2}
SYMMETRY DirSymmetry
VIEW DirView
CONSTRAINT FewOnZero
INVARIANTS LockNamesItsListener SweepIsComplete DirInv SeenLocksStayTrue SteadyAreFound
PROPERTIES AskedStopRemovesOwnLock ImplementsLives
CHECK_DEADLOCK FALSE
