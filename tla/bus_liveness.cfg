SPECIFICATION FairSpec
CONSTANTS
    s1 = s1
    s2 = s2
    m1 = m1
    m2 = m2
    None = None
    Selections = {s1, s2}
    Mentions = {m1, m2}
    MentionOf <- MCMentionOf
    Conns = {c1, c2}
    RingSize = 2
    MaxReports = 2
    MaxMentions = 1

PROPERTIES SettledSelectionIsPublished ClientsConverge ImplementsFairFanOut
CHECK_DEADLOCK FALSE
