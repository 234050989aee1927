\* One account, two tokens, two requests for one slot.
CONSTANTS
    Users = {u1}
    Tokens = {t1, t2}
    Requests = {r1, r2}
    NoLimiter = NoLimiter
    NoToken = NoToken
    LoginBurst = 1
    LoginEvery = 2
    UserBurst = 2
    UserEvery = 1
    PreAuthTTL = 1
    ArgonSlots = 1
    MaxLate = 1
    MaxSpan = 2
SPECIFICATION Spec
INVARIANTS TypeOK TokenBudget 
PROPERTIES BudgetComesBack HashesEnd
