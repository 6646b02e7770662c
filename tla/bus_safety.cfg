SPECIFICATION Spec
CONSTANTS
    s1 = s1
    s2 = s2
    m1 = m1
    m2 = m2
    None = None
    Selections = {s1, s2}
    Mentions = {m1, m2}
    MentionOf <- MCMentionOf
    Conns = {c1, c2}
    RingSize = 2
    MaxReports = 3
    MaxMentions = 2
SYMMETRY ConnSymmetry
INVARIANTS NewestSelectionNotMissed ReplayInv
PROPERTIES PublicationsAlternate ImplementsFanOut
CHECK_DEADLOCK FALSE
