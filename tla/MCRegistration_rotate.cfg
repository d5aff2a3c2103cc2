CONSTANTS
    p1 = p1
    t1 = t1
    t2 = t2
    t3 = t3
    t4 = t4
    t5 = t5
    t6 = t6
    s1 = s1
    s2 = s2
    Platforms = {p1}
    Tokens = {t1, t2, t3, t4, t5, t6}
    Slots = {s1, s2}
    Reinvites = TRUE
SPECIFICATION Spec
SYMMETRY Alike
PROPERTY OldTokenStopsWorking
CHECK_DEADLOCK FALSE
