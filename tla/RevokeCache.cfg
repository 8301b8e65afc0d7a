SPECIFICATION Spec
CONSTANTS
    main = main
    extra = extra
    Accounts = {main, extra}
    Answers <- MCAnswers
    Callers = {c1, c2}
    Background = bg
    TTL = 1
    Same = Same
    MaxAnswers = 2
    MaxWrites = 3
INVARIANT RevokeIsSeen
CHECK_DEADLOCK FALSE
