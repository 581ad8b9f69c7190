CONSTANTS
    c1 = c1
    big = big
    t1 = t1
    Conns = {c1}
    NeedSnapshot = TRUE
    Texts = {t1, big}
    Oversize = {big}
    Empty = Empty
    MaxEdits = 2
SPECIFICATION ClipboardSpec
INVARIANTS
    SubscribersAreCurrent
    ForgottenWhenUnused
PROPERTIES
    ClipboardSettles
    JoinEndsThread
CHECK_DEADLOCK FALSE
