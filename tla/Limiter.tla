------------------------------ MODULE Limiter ------------------------------
(***************************************************************************)
(* What bounds guessing and work: the budget of /login for the service,    *)
(* the budget of each account for second factors and passwords             *)
(* (user.go, user_2fa.go), the life of a pre-auth token, and the slots in  *)
(* which password hashes are computed (encryption/password.go).            *)
(*                                                                         *)
(* Time passes in steps of one unit.  A budget is counted in units: it     *)
(* gains one per step up to its burst, and an attempt costs as many as the *)
(* code waits for one token.  Budgets and the key of pre-auth tokens are   *)
(* in memory and start over with the service.                              *)
(***************************************************************************)
EXTENDS Naturals, Sequences, FiniteSets

CONSTANTS
    Users,
    Tokens,         \* pre-auth tokens in clients' hands at a time
    Requests,
    NoLimiter,      \* an account without an entry in userLimiters
    NoToken,
    LoginBurst, LoginEvery,     \* rate.NewLimiter(rate.Every(time.Minute), 5)
    UserBurst, UserEvery,       \* rate.NewLimiter(rate.Every(time.Minute / 5), 5)
    PreAuthTTL,
    ArgonSlots,     \* capacity of the channel
    MaxLate,        \* bound: how long a verify takes from its token to its budget
    MaxSpan         \* bound: how long the requests of /login are counted

ASSUME BudgetAssumption ==
    /\ LoginBurst \in Nat \ {0} /\ LoginEvery \in Nat \ {0}
    /\ UserBurst \in Nat \ {0} /\ UserEvery \in Nat \ {0}
ASSUME TimeAssumption == PreAuthTTL \in Nat /\ MaxLate \in Nat /\ MaxSpan \in Nat
ASSUME SlotsAssumption == ArgonSlots \in Nat \ {0}

LoginCap == LoginBurst * LoginEvery
UserCap  == UserBurst * UserEvery

VARIABLES
    login,          \* LoginLimiter
    userLimiters,
    tokens,         \* the pre-auth tokens the service accepts
    req,            \* the requests under way
    waiting,        \* requests that wait to send on argonSlots, first come first
    slots,          \* requests that compute a hash
    \* What happened, for the properties:
    span            \* a stretch of time and what /login let through in it, in units

vars == <<login, userLimiters, tokens, req, waiting, slots, span>>

Token == [user : Users, age : Nat, spent : Nat]     \* spent: in units, for the properties

ASSUME NoneAssumption == NoLimiter \notin Nat /\ NoToken \notin Tokens /\ NoToken \notin Token

Request ==
    [ at    : {"idle", "allow", "wait", "hash"},
      op    : {"none", "verify", "login", "upgrade", "password", "last"},
      token : Tokens \cup {NoToken} ]

Idle == [at |-> "idle", op |-> "none", token |-> NoToken]

Full == [age |-> 0, spent |-> 0]

-----------------------------------------------------------------------------
(* Budgets.                                                                *)

\* rate.Limiter.Allow: what it answers, ...
Allow(units, cost) == units >= cost

\* An attempt that is refused starts the wait for a token over.
Bug_Left(units, cost) == IF Allow(units, cost) THEN units - cost ELSE 0

\* ... and what it leaves: an attempt that is refused costs nothing.
Left(units, cost) == IF Allow(units, cost) THEN units - cost ELSE units

Refill(units, cap) == IF units < cap THEN units + 1 ELSE units

\* The budget of an account: full when it has no entry yet.
userLimiter(u) == IF userLimiters[u] = NoLimiter THEN UserCap ELSE userLimiters[u]

AllowUser(u) ==
    /\ Allow(userLimiter(u), UserEvery)
    /\ userLimiters' = [userLimiters EXCEPT ![u] = Left(userLimiter(u), UserEvery)]

-----------------------------------------------------------------------------
(* idKey: a hash is computed in a slot.                                    *)

\* Request r comes to a hash.
ToHash(r, op) ==
    /\ req' = [req EXCEPT ![r] = [at |-> "wait", op |-> op, token |-> NoToken]]
    /\ waiting' = Append(waiting, r)

\* A channel that never blocks.
Bug_Acquire ==
    /\ waiting # <<>>
    /\ slots' = slots \cup {Head(waiting)}
    /\ waiting' = Tail(waiting)
    /\ req' = [req EXCEPT ![Head(waiting)].at = "hash"]
    /\ UNCHANGED <<login, userLimiters, tokens, span>>

\* argonSlots <- struct{}{}: who waited longest goes first.
Acquire ==
    /\ waiting # <<>> /\ Cardinality(slots) < ArgonSlots
    /\ slots' = slots \cup {Head(waiting)}
    /\ waiting' = Tail(waiting)
    /\ req' = [req EXCEPT ![Head(waiting)].at = "hash"]
    /\ UNCHANGED <<login, userLimiters, tokens, span>>

\* A hash for a password that is accepted, made in the slot of the one that checked it.
Bug_Rehash(r) ==
    /\ req[r].op \in {"login", "password"}
    /\ ToHash(r, IF req[r].op = "login" THEN "upgrade" ELSE "last")
    /\ UNCHANGED <<slots, tokens>>

\* The password is right and is hashed again: an outdated hash (upgradePassword), or
\* the new password (PutUserPassword).  The slot has been given back.
Rehash(r) ==
    /\ req[r].op \in {"login", "password"}
    /\ slots' = slots \ {r}
    /\ ToHash(r, IF req[r].op = "login" THEN "upgrade" ELSE "last")
    /\ UNCHANGED tokens

\* The password is right and the account has a second factor: the login is answered with
\* a pre-auth token.
IssuePreAuthToken(r) ==
    /\ req[r].op \in {"login", "upgrade"}
    /\ \E t \in Tokens, u \in Users :
        /\ tokens[t] = NoToken
        /\ tokens' = [tokens EXCEPT ![t] = [user |-> u, age |-> 0, spent |-> 0]]
    /\ req' = [req EXCEPT ![r] = Idle]
    /\ slots' = slots \ {r}
    /\ UNCHANGED waiting

\* The password is wrong, or nothing follows that counts here.
Done(r) ==
    /\ req' = [req EXCEPT ![r] = Idle]
    /\ slots' = slots \ {r}
    /\ UNCHANGED <<tokens, waiting>>

\* A hash is computed.
Hashed(r) ==
    /\ req[r].at = "hash"
    /\ Rehash(r) \/ IssuePreAuthToken(r) \/ Done(r)
    /\ UNCHANGED <<login, userLimiters, span>>

-----------------------------------------------------------------------------
(* The requests.  One that a budget refuses is answered 429.               *)

\* Only a wrong password costs a token.
Bug_PostUserLogin(r) ==
    /\ req[r].at = "idle"
    /\ login' \in {login, Left(login, LoginEvery)}
    /\ IF Allow(login, LoginEvery)
       THEN span' = [span EXCEPT !.spent = @ + LoginEvery] /\ ToHash(r, "login")
       ELSE UNCHANGED <<req, waiting, span>>
    /\ UNCHANGED <<userLimiters, tokens, slots>>

\* POST /v1/users/login: the token is taken before anything is looked at.
PostUserLogin(r) ==
    /\ req[r].at = "idle"
    /\ login' = Left(login, LoginEvery)
    /\ IF Allow(login, LoginEvery)
       THEN span' = [span EXCEPT !.spent = @ + LoginEvery] /\ ToHash(r, "login")
       ELSE UNCHANGED <<req, waiting, span>>
    /\ UNCHANGED <<userLimiters, tokens, slots>>

\* POST /v1/users/2fa/verify: the token is checked, ...
PostUser2FAVerify(r) ==
    /\ req[r].at = "idle"
    /\ \E t \in Tokens :
        /\ tokens[t] # NoToken /\ tokens[t].age < PreAuthTTL
        /\ req' = [req EXCEPT ![r] = [at |-> "allow", op |-> "verify", token |-> t]]
    /\ UNCHANGED <<login, userLimiters, tokens, waiting, slots, span>>

\* The factor is checked first, and the budget charged after.
Bug_VerifyFactor(r) ==
    LET t == req[r].token IN
    /\ req[r].at = "allow"
    /\ tokens' = [tokens EXCEPT ![t].spent = @ + UserEvery]
    /\ \/ AllowUser(tokens[t].user)
       \/ ~Allow(userLimiter(tokens[t].user), UserEvery) /\ UNCHANGED userLimiters
    /\ req' = [req EXCEPT ![r] = Idle]
    /\ UNCHANGED <<login, waiting, slots, span>>

\* ... a token of the budget is taken, and only then is the factor checked.
VerifyFactor(r) ==
    LET t == req[r].token
        u == tokens[t].user
    IN  /\ req[r].at = "allow"
        /\ userLimiters' = [userLimiters EXCEPT ![u] = Left(userLimiter(u), UserEvery)]
        /\ tokens' = IF Allow(userLimiter(u), UserEvery)
                     THEN [tokens EXCEPT ![t].spent = @ + UserEvery]
                     ELSE tokens
        /\ req' = [req EXCEPT ![r] = Idle]
        /\ UNCHANGED <<login, waiting, slots, span>>

\* POST /v1/users/2fa/setup, and disable by password.
CheckPassword(r) ==
    /\ req[r].at = "idle"
    /\ \E u \in Users : AllowUser(u)
    /\ ToHash(r, "last")
    /\ UNCHANGED <<login, tokens, slots, span>>

\* POST /v1/users/2fa/enable, and disable by code: no hash.
CheckCode(r) ==
    /\ req[r].at = "idle"
    /\ \E u \in Users : AllowUser(u)
    /\ UNCHANGED <<login, tokens, req, waiting, slots, span>>

\* PUT /v1/users/current/password and POST /v1/users/register: no budget.
PutUserPassword(r) ==
    /\ req[r].at = "idle"
    /\ ToHash(r, "password")
    /\ UNCHANGED <<login, userLimiters, tokens, slots, span>>

PostUserRegister(r) ==
    /\ req[r].at = "idle"
    /\ ToHash(r, "last")
    /\ UNCHANGED <<login, userLimiters, tokens, slots, span>>

-----------------------------------------------------------------------------
(* Time, and the end of the service.                                       *)

\* A token that has expired is forgotten when no request has it.
Older(t) ==
    IF \/ tokens[t] = NoToken
       \/ tokens[t].age >= PreAuthTTL /\ \A r \in Requests : req[r].token # t
    THEN NoToken
    ELSE [tokens[t] EXCEPT !.age = @ + 1]

Tick ==
    /\ \A r \in Requests : req[r].token # NoToken => tokens[req[r].token].age < PreAuthTTL + MaxLate
    /\ login' = Refill(login, LoginCap)
    /\ userLimiters' = [u \in Users |-> IF userLimiters[u] = NoLimiter THEN NoLimiter
                                        ELSE Refill(userLimiters[u], UserCap)]
    /\ tokens' = [t \in Tokens |-> Older(t)]
    /\ span' = IF span.age < MaxSpan THEN [span EXCEPT !.age = @ + 1] ELSE Full
    /\ UNCHANGED <<req, waiting, slots>>

\* A count may begin at any time.
Watch ==
    /\ span' = Full
    /\ UNCHANGED <<login, userLimiters, tokens, req, waiting, slots>>

\* The service ends and starts: budgets are full, and no pre-auth token is accepted.
Restart ==
    /\ login' = LoginCap
    /\ userLimiters' = [u \in Users |-> NoLimiter]
    /\ tokens' = [t \in Tokens |-> NoToken]
    /\ req' = [r \in Requests |-> Idle]
    /\ waiting' = <<>> /\ slots' = {}
    /\ span' = Full

Init ==
    /\ login = LoginCap
    /\ userLimiters = [u \in Users |-> NoLimiter]
    /\ tokens = [t \in Tokens |-> NoToken]
    /\ req = [r \in Requests |-> Idle]
    /\ waiting = <<>> /\ slots = {}
    /\ span = Full

Step(r) == Hashed(r) \/ VerifyFactor(r)

Next ==
    \/ \E r \in Requests :
        \/ PostUserLogin(r) \/ PostUser2FAVerify(r) \/ CheckPassword(r) \/ CheckCode(r)
        \/ PutUserPassword(r) \/ PostUserRegister(r) \/ Step(r)
    \/ Acquire \/ Tick \/ Watch \/ Restart

\* Time passes, a free slot is taken, and a request that is not waiting goes on.
Fairness ==
    /\ WF_vars(Tick)
    /\ WF_vars(Acquire)
    /\ \A r \in Requests : WF_vars(Step(r))

Spec == Init /\ [][Next]_vars /\ Fairness

-----------------------------------------------------------------------------
(* Properties.                                                             *)

\* The variables have the types the code gives them; at most as many hashes are computed
\* as there are slots, one request each.
TypeOK ==
    /\ login \in 0..LoginCap
    /\ userLimiters \in [Users -> 0..UserCap \cup {NoLimiter}]
    /\ tokens \in [Tokens -> Token \cup {NoToken}]
    /\ req \in [Requests -> Request]
    /\ \A r \in Requests : req[r].at = "allow" => req[r].token # NoToken /\ tokens[req[r].token] # NoToken
    /\ waiting \in Seq(Requests)
    /\ slots = {r \in Requests : req[r].at = "hash"} /\ IsFiniteSet(slots)
    /\ Cardinality(slots) <= ArgonSlots
    /\ span \in [age : Nat, spent : Nat]

\* With one pre-auth token no more factors are tried than the burst and the time since
\* its login allow, whatever number of requests and tokens compete for the budget, and
\* although a restart fills the budget (user_2fa.go:19-23, 60-66).
TokenBudget ==
    \A t \in Tokens : tokens[t] # NoToken => tokens[t].spent <= UserCap + tokens[t].age

\* In no stretch of time does /login check more passwords than the burst and the length
\* of the stretch allow, however many requests come at once (user.go:89-91, 121).
LoginBudget == span.spent <= LoginCap + span.age

\* What they rest on: what was tried and what is left of the budget are together no more
\* than the burst and what came in since.
BudgetInv ==
    /\ \A t \in Tokens : tokens[t] # NoToken =>
           tokens[t].spent + userLimiter(tokens[t].user) <= UserCap + tokens[t].age
    /\ span.spent + login <= LoginCap + span.age

\* Who is refused is not kept out: again and again there is a token for a login and one
\* for each account, however often others try in between (user.go:91, user_2fa.go:32-41).
BudgetComesBack ==
    /\ []<>(login >= LoginEvery)
    /\ \A u \in Users : []<>(userLimiter(u) >= UserEvery)

\* Every request that comes to a hash ends, however many others come in the meantime:
\* one that needs two hashes does not hold a slot while it waits for the second
\* (password.go:46-53, user.go:106-110, 369-372).
HashesEnd == \A r \in Requests : req[r].at = "wait" ~> req[r].at = "idle"

=============================================================================
