--------------------------- MODULE LimiterProofs ---------------------------
(***************************************************************************)
(* The budgets of module Limiter hold for every burst, refill, life of a   *)
(* token, number of slots, requests and accounts.                          *)
(***************************************************************************)
EXTENDS Limiter, FiniteSetTheorems, TLAPS

\* The bursts, in units, are numbers (user.go:91, user_2fa.go:26).
LEMMA CapsAreNumbers == LoginCap \in Nat /\ UserCap \in Nat
BY BudgetAssumption DEF LoginCap, UserCap

\* What rate.Limiter.Allow leaves: a budget, smaller by the cost if the attempt is let
\* through, else the same.
LEMMA AllowLeaves ==
    ASSUME NEW units \in Nat, NEW cost \in Nat \ {0}
    PROVE  /\ Left(units, cost) \in 0..units
           /\ Allow(units, cost) => Left(units, cost) + cost = units
           /\ ~Allow(units, cost) => Left(units, cost) = units
BY DEF Allow, Left

\* The budget of an account is a number within its burst (user_2fa.go:32-41).
LEMMA UserLimiterTyped ==
    ASSUME TypeOK, NEW u \in Users
    PROVE  userLimiter(u) \in 0..UserCap
BY CapsAreNumbers DEF TypeOK, userLimiter

\* AllowUser keeps the type of the map, and takes from the budget of one account.
LEMMA AllowUserTyped ==
    ASSUME TypeOK, NEW u \in Users, AllowUser(u)
    PROVE  /\ userLimiters' \in [Users -> 0..UserCap \cup {NoLimiter}]
           /\ \A v \in Users : userLimiter(v)' <= userLimiter(v)
<1> DEFINE left == Left(userLimiter(u), UserEvery)
<1>1. userLimiter(u) \in 0..UserCap /\ UserCap \in Nat
  BY UserLimiterTyped, CapsAreNumbers
<1>2. left \in 0..userLimiter(u)
  BY <1>1, AllowLeaves, BudgetAssumption
<1>3. left \in 0..UserCap /\ left # NoLimiter
  BY <1>1, <1>2, NoneAssumption
<1>4. userLimiters' = [userLimiters EXCEPT ![u] = left]
  BY DEF AllowUser
<1>5. userLimiters' \in [Users -> 0..UserCap \cup {NoLimiter}]
  BY <1>3, <1>4 DEF TypeOK
<1>6. ASSUME NEW v \in Users PROVE userLimiter(v)' <= userLimiter(v)
  <2>1. userLimiter(v) \in 0..UserCap
    BY UserLimiterTyped
  <2>2. CASE v = u
    BY <1>1, <1>2, <1>3, <1>4, <2>2 DEF TypeOK, userLimiter
  <2>3. CASE v # u
    BY <1>1, <1>4, <2>1, <2>3 DEF TypeOK, userLimiter
  <2> QED BY <2>2, <2>3
<1> QED BY <1>5, <1>6

-----------------------------------------------------------------------------
(* Type correctness.                                                       *)

\* A request that takes or gives back a slot leaves as many in use as there are.
LEMMA SlotTaken ==
    ASSUME IsFiniteSet(slots), Cardinality(slots) <= ArgonSlots, NEW r
    PROVE  IsFiniteSet(slots \ {r}) /\ Cardinality(slots \ {r}) <= ArgonSlots
<1>1. IsFiniteSet(slots \ {r}) /\ Cardinality(slots \ {r}) = IF r \in slots THEN Cardinality(slots) - 1 ELSE Cardinality(slots)
  BY FS_RemoveElement
<1>2. Cardinality(slots) \in Nat
  BY FS_CardinalityType
<1> QED BY <1>1, <1>2, SlotsAssumption

\* The initial state is typed.
LEMMA InitTyped == Init => TypeOK
<1> SUFFICES ASSUME Init PROVE TypeOK
  OBVIOUS
<1>1. slots = {} /\ IsFiniteSet(slots) /\ Cardinality(slots) = 0
  BY FS_EmptySet DEF Init
<1>2. login \in 0..LoginCap
  BY CapsAreNumbers DEF Init
<1>3. waiting \in Seq(Requests)
  BY DEF Init
<1> QED BY <1>1, <1>2, <1>3, SlotsAssumption DEF Init, TypeOK, Idle, Full, Request

\* A step that changes one request, which computes no hash and is not at its budget
\* after, keeps the types of the requests and their tokens.
LEMMA OneRequest ==
    ASSUME TypeOK, NEW r \in Requests, NEW q \in Request, q.at \in {"idle", "wait"},
           req' = [req EXCEPT ![r] = q],
           \A t \in Tokens : tokens[t] # NoToken => tokens'[t] # NoToken
    PROVE  /\ req' \in [Requests -> Request]
           /\ \A s \in Requests : req'[s].at = "allow" => req'[s].token # NoToken /\ tokens'[req'[s].token] # NoToken
           /\ {s \in Requests : req'[s].at = "hash"} = slots \ {r}
<1>1. req' \in [Requests -> Request] /\ req'[r] = q /\ \A s \in Requests : s # r => req'[s] = req[s]
  BY DEF TypeOK
<1>2. ASSUME NEW s \in Requests, req'[s].at = "allow"
      PROVE  req'[s].token # NoToken /\ tokens'[req'[s].token] # NoToken
  <2>1. s # r /\ req'[s] = req[s] /\ req[s] \in Request
    BY <1>1, <1>2 DEF TypeOK
  <2>2. req[s].token # NoToken /\ tokens[req[s].token] # NoToken /\ req[s].token \in Tokens
    BY <1>2, <2>1 DEF TypeOK, Request
  <2> QED BY <2>1, <2>2
<1>3. {s \in Requests : req'[s].at = "hash"} = slots \ {r}
  BY <1>1 DEF TypeOK
<1> QED BY <1>1, <1>2, <1>3

\* A request that comes to a hash.
LEMMA ToHashTyped ==
    ASSUME TypeOK, NEW r \in Requests, NEW op \in {"login", "upgrade", "password", "last"}, ToHash(r, op)
    PROVE  /\ [at |-> "wait", op |-> op, token |-> NoToken] \in Request
           /\ req' = [req EXCEPT ![r] = [at |-> "wait", op |-> op, token |-> NoToken]]
           /\ waiting' \in Seq(Requests)
BY DEF TypeOK, ToHash, Request

\* Every step keeps the types.
LEMMA NextTyped == TypeOK /\ [Next]_vars => TypeOK'
<1> SUFFICES ASSUME TypeOK, [Next]_vars PROVE TypeOK'
  OBVIOUS
<1> USE CapsAreNumbers
<1>1. Idle \in Request /\ Idle.at = "idle"
  BY DEF Idle, Request
<1>2. Left(login, LoginEvery) \in 0..LoginCap
  <2>1. login \in Nat /\ login <= LoginCap /\ LoginEvery \in Nat \ {0}
    BY BudgetAssumption DEF TypeOK
  <2>2. Left(login, LoginEvery) \in 0..login
    BY <2>1, AllowLeaves
  <2> QED BY <2>1, <2>2
<1>3. ASSUME NEW r \in Requests, PostUserLogin(r) PROVE TypeOK'
  <2>1. login' \in 0..LoginCap /\ span' \in [age : Nat, spent : Nat]
    BY <1>2, <1>3, BudgetAssumption DEF PostUserLogin, TypeOK
  <2>2. r \notin slots /\ slots' = slots /\ tokens' = tokens /\ userLimiters' = userLimiters
    BY <1>3 DEF PostUserLogin, TypeOK
  <2>3. CASE Allow(login, LoginEvery)
    <3>1. ToHash(r, "login")
      BY <1>3, <2>3 DEF PostUserLogin
    <3> QED BY <2>1, <2>2, <3>1, ToHashTyped, OneRequest DEF TypeOK
  <2>4. CASE ~Allow(login, LoginEvery)
    <3>1. req' = req /\ waiting' = waiting
      BY <1>3, <2>4 DEF PostUserLogin
    <3> QED BY <2>1, <2>2, <3>1 DEF TypeOK
  <2> QED BY <2>3, <2>4
<1>4. ASSUME NEW r \in Requests, PostUser2FAVerify(r) PROVE TypeOK'
  <2>1. PICK t \in Tokens : tokens[t] # NoToken /\ req' = [req EXCEPT ![r] = [at |-> "allow", op |-> "verify", token |-> t]]
    BY <1>4 DEF PostUser2FAVerify
  <2>2. req' \in [Requests -> Request] /\ req'[r].at = "allow" /\ req'[r].token = t
        /\ \A s \in Requests : s # r => req'[s] = req[s]
    BY <2>1 DEF TypeOK, Request
  <2>3. tokens' = tokens /\ t # NoToken
    BY <1>4, NoneAssumption DEF PostUser2FAVerify
  <2>4. \A s \in Requests : req'[s].at = "allow" => req'[s].token # NoToken /\ tokens'[req'[s].token] # NoToken
    BY <2>1, <2>2, <2>3 DEF TypeOK
  <2>5. r \notin slots
    BY <1>4 DEF PostUser2FAVerify, TypeOK
  <2>6. slots = {s \in Requests : req'[s].at = "hash"}
    BY <2>2, <2>5 DEF TypeOK
  <2> QED BY <1>4, <2>2, <2>4, <2>6 DEF PostUser2FAVerify, TypeOK
<1>5. ASSUME NEW r \in Requests, VerifyFactor(r) PROVE TypeOK'
  <2> DEFINE t == req[r].token
             u == tokens[t].user
  <2>1. t \in Tokens /\ tokens[t] # NoToken /\ tokens[t] \in Token /\ u \in Users
    BY <1>5 DEF VerifyFactor, TypeOK, Request, Token
  <2>2. Left(userLimiter(u), UserEvery) \in 0..UserCap
    BY <2>1, UserLimiterTyped, AllowLeaves, BudgetAssumption
  <2>3. userLimiters' \in [Users -> 0..UserCap \cup {NoLimiter}]
    BY <1>5, <2>1, <2>2 DEF VerifyFactor, TypeOK
  <2>4. tokens' = tokens \/ tokens' = [tokens EXCEPT ![t] = [tokens[t] EXCEPT !.spent = tokens[t].spent + UserEvery]]
    BY <1>5 DEF VerifyFactor
  <2>5. [tokens[t] EXCEPT !.spent = tokens[t].spent + UserEvery] \in Token
    BY <2>1, BudgetAssumption DEF Token
  <2>6. tokens' \in [Tokens -> Token \cup {NoToken}] /\ \A v \in Tokens : tokens[v] # NoToken => tokens'[v] # NoToken
    BY <2>1, <2>4, <2>5, NoneAssumption DEF TypeOK
  <2>7. req' = [req EXCEPT ![r] = Idle] /\ slots' = slots /\ r \notin slots /\ UNCHANGED <<login, waiting, span>>
    BY <1>5 DEF VerifyFactor, TypeOK
  <2> QED BY <1>1, <2>3, <2>6, <2>7, OneRequest DEF TypeOK
<1>6. ASSUME NEW r \in Requests, CheckPassword(r) PROVE TypeOK'
  <2>1. userLimiters' \in [Users -> 0..UserCap \cup {NoLimiter}]
    BY <1>6, AllowUserTyped DEF CheckPassword
  <2>2. ToHash(r, "last") /\ r \notin slots /\ UNCHANGED <<login, tokens, slots, span>>
    BY <1>6 DEF CheckPassword, TypeOK
  <2> QED BY <2>1, <2>2, ToHashTyped, OneRequest DEF TypeOK
<1>7. ASSUME NEW r \in Requests, CheckCode(r) PROVE TypeOK'
  <2>1. userLimiters' \in [Users -> 0..UserCap \cup {NoLimiter}]
    BY <1>7, AllowUserTyped DEF CheckCode
  <2> QED BY <1>7, <2>1 DEF CheckCode, TypeOK
<1>8. ASSUME NEW r \in Requests, PutUserPassword(r) \/ PostUserRegister(r) PROVE TypeOK'
  <2>1. PICK op \in {"password", "last"} : ToHash(r, op)
    BY <1>8 DEF PutUserPassword, PostUserRegister
  <2>2. r \notin slots /\ UNCHANGED <<login, userLimiters, tokens, slots, span>>
    BY <1>8 DEF PutUserPassword, PostUserRegister, TypeOK
  <2> QED BY <2>1, <2>2, ToHashTyped, OneRequest DEF TypeOK
<1>9. ASSUME NEW r \in Requests, Hashed(r) PROVE TypeOK'
  <2>1. IsFiniteSet(slots \ {r}) /\ Cardinality(slots \ {r}) <= ArgonSlots
    BY SlotTaken DEF TypeOK
  <2>2. UNCHANGED <<login, userLimiters, span>>
    BY <1>9 DEF Hashed
  <2>3. CASE Rehash(r)
    <3>1. PICK op \in {"upgrade", "last"} : ToHash(r, op)
      BY <2>3 DEF Rehash
    <3>2. slots' = slots \ {r} /\ tokens' = tokens
      BY <2>3 DEF Rehash
    <3> QED BY <2>1, <2>2, <3>1, <3>2, ToHashTyped, OneRequest DEF TypeOK
  <2>4. CASE IssuePreAuthToken(r)
    <3>1. PICK t \in Tokens, u \in Users :
            tokens[t] = NoToken /\ tokens' = [tokens EXCEPT ![t] = [user |-> u, age |-> 0, spent |-> 0]]
      BY <2>4 DEF IssuePreAuthToken
    <3>2. [user |-> u, age |-> 0, spent |-> 0] \in Token
      BY DEF Token
    <3>3. tokens' \in [Tokens -> Token \cup {NoToken}] /\ \A v \in Tokens : tokens[v] # NoToken => tokens'[v] # NoToken
      BY <3>1, <3>2 DEF TypeOK
    <3>4. req' = [req EXCEPT ![r] = Idle] /\ slots' = slots \ {r} /\ waiting' = waiting
      BY <2>4 DEF IssuePreAuthToken
    <3> QED BY <1>1, <2>1, <2>2, <3>3, <3>4, OneRequest DEF TypeOK
  <2>5. CASE Done(r)
    <3>1. req' = [req EXCEPT ![r] = Idle] /\ slots' = slots \ {r} /\ UNCHANGED <<tokens, waiting>>
      BY <2>5 DEF Done
    <3> QED BY <1>1, <2>1, <2>2, <3>1, OneRequest DEF TypeOK
  <2> QED BY <1>9, <2>3, <2>4, <2>5 DEF Hashed
<1>10. CASE Acquire
  <2> DEFINE r == Head(waiting)
  <2>1. r \in Requests /\ waiting' \in Seq(Requests)
    BY <1>10 DEF Acquire, TypeOK
  <2>2. req' = [req EXCEPT ![r] = [req[r] EXCEPT !.at = "hash"]] /\ slots' = slots \cup {r}
        /\ UNCHANGED <<login, userLimiters, tokens, span>>
    BY <1>10 DEF Acquire
  <2>3. req' \in [Requests -> Request] /\ req'[r].at = "hash" /\ \A s \in Requests : s # r => req'[s] = req[s]
    BY <2>1, <2>2 DEF TypeOK, Request
  <2>4. slots' = {s \in Requests : req'[s].at = "hash"}
    BY <2>1, <2>2, <2>3 DEF TypeOK
  <2>5. IsFiniteSet(slots') /\ Cardinality(slots') <= ArgonSlots
    <3>1. IsFiniteSet(slots') /\ Cardinality(slots') = IF r \in slots THEN Cardinality(slots) ELSE Cardinality(slots) + 1
      BY <2>2, FS_AddElement DEF TypeOK
    <3>2. Cardinality(slots) \in Nat /\ Cardinality(slots) < ArgonSlots
      BY <1>10, FS_CardinalityType DEF Acquire, TypeOK
    <3> QED BY <3>1, <3>2, SlotsAssumption
  <2>6. \A s \in Requests : req'[s].at = "allow" => req'[s].token # NoToken /\ tokens'[req'[s].token] # NoToken
    BY <2>2, <2>3 DEF TypeOK
  <2> QED BY <2>1, <2>2, <2>3, <2>4, <2>5, <2>6 DEF TypeOK
<1>11. CASE Tick
  <2>1. login' \in 0..LoginCap
    BY <1>11 DEF Tick, Refill, TypeOK
  <2>2. userLimiters' \in [Users -> 0..UserCap \cup {NoLimiter}]
    <3>1. \A u \in Users : userLimiters[u] # NoLimiter => Refill(userLimiters[u], UserCap) \in 0..UserCap
      BY DEF Refill, TypeOK
    <3> QED BY <1>11, <3>1 DEF Tick
  <2>3. ASSUME NEW t \in Tokens
        PROVE  /\ Older(t) \in Token \cup {NoToken}
               /\ tokens[t] # NoToken /\ (\E r \in Requests : req[r].token = t) => Older(t) # NoToken
    <3>1. tokens[t] # NoToken => [tokens[t] EXCEPT !.age = tokens[t].age + 1] \in Token
      BY DEF TypeOK, Token
    <3> QED BY <3>1, NoneAssumption DEF Older
  <2>4. tokens' \in [Tokens -> Token \cup {NoToken}]
    BY <1>11, <2>3 DEF Tick
  <2>5. \A s \in Requests : req[s].at = "allow" => req[s].token # NoToken /\ tokens'[req[s].token] # NoToken
    BY <1>11, <2>3 DEF Tick, TypeOK, Request
  <2>6. span' \in [age : Nat, spent : Nat]
    BY <1>11 DEF Tick, TypeOK, Full
  <2>7. UNCHANGED <<req, waiting, slots>>
    BY <1>11 DEF Tick
  <2> QED BY <2>1, <2>2, <2>4, <2>5, <2>6, <2>7 DEF TypeOK
<1>12. CASE Watch
  BY <1>12 DEF Watch, TypeOK, Full
<1>13. CASE Restart
  <2>1. Init'
    BY <1>13 DEF Restart, Init
  <2>2. slots' = {} /\ IsFiniteSet({}) /\ Cardinality({}) = 0
    BY <1>13, FS_EmptySet DEF Restart
  <2>3. \A r \in Requests : req'[r] = Idle
    BY <1>13 DEF Restart
  <2>4. {r \in Requests : req'[r].at = "hash"} = {}
    BY <1>1, <2>3
  <2>5. req' \in [Requests -> Request] /\ waiting' \in Seq(Requests) /\ span' \in [age : Nat, spent : Nat]
    BY <1>1, <1>13 DEF Restart, Full
  <2>6. login' \in 0..LoginCap /\ tokens' \in [Tokens -> Token \cup {NoToken}]
        /\ userLimiters' \in [Users -> 0..UserCap \cup {NoLimiter}]
    BY <1>13 DEF Restart
  <2> QED BY <1>1, <2>2, <2>3, <2>4, <2>5, <2>6, SlotsAssumption DEF TypeOK
<1>14. CASE UNCHANGED vars
  BY <1>14 DEF vars, TypeOK
<1> QED BY <1>3, <1>4, <1>5, <1>6, <1>7, <1>8, <1>9, <1>10, <1>11, <1>12, <1>13, <1>14 DEF Next, Step

-----------------------------------------------------------------------------
(* The budgets.                                                            *)

\* What BudgetInv says of a token, after a step, account by account.
LEMMA BudgetAfter ==
    ASSUME TypeOK',
           span'.spent + login' <= LoginCap + span'.age,
           \A t \in Tokens : \A u \in Users : tokens'[t] # NoToken /\ tokens'[t].user = u =>
               tokens'[t].spent + userLimiter(u)' <= UserCap + tokens'[t].age
    PROVE  BudgetInv'
<1>1. ASSUME NEW t \in Tokens, tokens'[t] # NoToken
      PROVE  (tokens[t].spent + userLimiter(tokens[t].user) <= UserCap + tokens[t].age)'
  <2>1. PICK u \in Users : u = tokens'[t].user
    BY <1>1 DEF TypeOK, Token
  <2>2. tokens'[t].spent + userLimiter(u)' <= UserCap + tokens'[t].age
    BY <1>1, <2>1
  <2> QED BY <2>1, <2>2 DEF userLimiter, UserCap
<1> QED BY <1>1 DEF BudgetInv, LoginCap, UserCap

\* A step that leaves the tokens alone and adds to no account's budget keeps BudgetInv
\* if it keeps what it says of /login.
LEMMA TokensKept ==
    ASSUME TypeOK, TypeOK', BudgetInv, tokens' = tokens,
           span'.spent + login' <= LoginCap + span'.age,
           \A u \in Users : userLimiter(u)' \in Nat /\ userLimiter(u)' <= userLimiter(u)
    PROVE  BudgetInv'
<1>1. ASSUME NEW t \in Tokens, NEW u \in Users, tokens'[t] # NoToken, tokens'[t].user = u
      PROVE  tokens'[t].spent + userLimiter(u)' <= UserCap + tokens'[t].age
  <2>1. tokens[t].spent \in Nat /\ tokens[t].age \in Nat
    BY <1>1 DEF TypeOK, Token
  <2>2. tokens[t].spent + userLimiter(u) <= UserCap + tokens[t].age
    BY <1>1 DEF BudgetInv
  <2>3. userLimiter(u) \in Nat /\ UserCap \in Nat
    BY UserLimiterTyped, CapsAreNumbers
  <2> QED BY <2>1, <2>2, <2>3
<1> QED BY <1>1, BudgetAfter

\* Initially every budget is full and nothing was tried.
LEMMA InitBudget == Init => BudgetInv
BY CapsAreNumbers DEF Init, BudgetInv, Full

\* Every step that counts an attempt takes its cost from the budget it counts against.
LEMMA NextBudget == TypeOK /\ TypeOK' /\ BudgetInv /\ [Next]_vars => BudgetInv'
<1> SUFFICES ASSUME TypeOK, TypeOK', BudgetInv, [Next]_vars PROVE BudgetInv'
  OBVIOUS
<1>1. LoginCap \in Nat /\ UserCap \in Nat /\ LoginEvery \in Nat \ {0} /\ UserEvery \in Nat \ {0}
  BY CapsAreNumbers, BudgetAssumption
<1>2. login \in Nat /\ login' \in 0..LoginCap /\ span.age \in Nat /\ span.spent \in Nat
      /\ span.spent + login <= LoginCap + span.age
  BY <1>1 DEF TypeOK, BudgetInv
<1>3. \A u \in Users : userLimiter(u) \in 0..UserCap
  BY UserLimiterTyped
<1>4. \A u \in Users : userLimiter(u)' \in 0..UserCap
  BY <1>1 DEF TypeOK, userLimiter
<1>5. \A t \in Tokens : tokens[t] # NoToken =>
        /\ tokens[t].user \in Users /\ tokens[t].age \in Nat /\ tokens[t].spent \in Nat
        /\ tokens[t].spent + userLimiter(tokens[t].user) <= UserCap + tokens[t].age
  BY DEF TypeOK, Token, BudgetInv
<1>6. ASSUME userLimiters' = userLimiters
      PROVE  \A u \in Users : userLimiter(u)' \in Nat /\ userLimiter(u)' <= userLimiter(u)
  BY <1>3, <1>4, <1>6 DEF userLimiter
<1>7. ASSUME NEW u \in Users, AllowUser(u)
      PROVE  \A v \in Users : userLimiter(v)' \in Nat /\ userLimiter(v)' <= userLimiter(v)
  BY <1>4, <1>7, AllowUserTyped
<1>8. ASSUME UNCHANGED <<login, span>>
      PROVE  span'.spent + login' <= LoginCap + span'.age
  BY <1>2, <1>8
<1>9. ASSUME NEW r \in Requests, PostUserLogin(r) PROVE BudgetInv'
  <2>1. span'.spent + login' <= LoginCap + span'.age
    <3>1. CASE Allow(login, LoginEvery)
      <4>1. Left(login, LoginEvery) + LoginEvery = login /\ Left(login, LoginEvery) \in Nat
        BY <1>1, <1>2, <3>1, AllowLeaves
      <4>2. login' = Left(login, LoginEvery) /\ span' = [span EXCEPT !.spent = span.spent + LoginEvery]
        BY <1>9, <3>1 DEF PostUserLogin
      <4>3. span'.spent = span.spent + LoginEvery /\ span'.age = span.age
        BY <4>2 DEF TypeOK
      <4> QED BY <1>1, <1>2, <4>1, <4>2, <4>3
    <3>2. CASE ~Allow(login, LoginEvery)
      <4>1. login' = login /\ span' = span
        BY <1>1, <1>2, <1>9, <3>2, AllowLeaves DEF PostUserLogin
      <4> QED BY <1>2, <4>1
    <3> QED BY <3>1, <3>2
  <2> QED BY <1>6, <1>9, <2>1, TokensKept DEF PostUserLogin
<1>10. ASSUME NEW r \in Requests, VerifyFactor(r) PROVE BudgetInv'
  <2>1. PICK t \in Tokens, u \in Users : t = req[r].token /\ tokens[t] # NoToken /\ u = tokens[t].user
    BY <1>10 DEF VerifyFactor, TypeOK, Request, Token
  <2> DEFINE left == Left(userLimiter(u), UserEvery)
  <2>2. left \in 0..userLimiter(u) /\ userLimiter(u) \in Nat
    BY <1>1, <1>3, AllowLeaves
  <2>3. userLimiters' = [userLimiters EXCEPT ![u] = left] /\ UNCHANGED <<login, span>>
    BY <1>10, <2>1 DEF VerifyFactor
  <2>4. userLimiter(u)' = left /\ \A v \in Users : v # u => userLimiter(v)' = userLimiter(v)
    BY <2>2, <2>3, NoneAssumption DEF TypeOK, userLimiter
  <2>5. \A v \in Users : userLimiter(v)' \in Nat /\ userLimiter(v)' <= userLimiter(v)
    BY <1>1, <1>3, <2>2, <2>4
  <2>6. CASE Allow(userLimiter(u), UserEvery)
    <3>1. left + UserEvery = userLimiter(u)
      BY <1>1, <2>2, <2>6, AllowLeaves
    <3>2. tokens' = [tokens EXCEPT ![t] = [tokens[t] EXCEPT !.spent = tokens[t].spent + UserEvery]]
      BY <1>10, <2>1, <2>6 DEF VerifyFactor
    <3>3. tokens'[t].spent = tokens[t].spent + UserEvery /\ tokens'[t].age = tokens[t].age /\ tokens'[t].user = u
          /\ \A s \in Tokens : s # t => tokens'[s] = tokens[s]
      BY <2>1, <3>2 DEF TypeOK, Token
    <3>4. ASSUME NEW s \in Tokens, NEW v \in Users, tokens'[s] # NoToken, tokens'[s].user = v
          PROVE  tokens'[s].spent + userLimiter(v)' <= UserCap + tokens'[s].age
      <4>1. CASE s = t
        <5>1. tokens[t].spent \in Nat /\ tokens[t].age \in Nat
              /\ tokens[t].spent + userLimiter(u) <= UserCap + tokens[t].age
          BY <1>5, <2>1
        <5>2. tokens'[s].spent = tokens[t].spent + UserEvery /\ tokens'[s].age = tokens[t].age
              /\ userLimiter(v)' = left
          BY <2>4, <3>3, <3>4, <4>1
        <5> QED BY <1>1, <2>2, <3>1, <5>1, <5>2
      <4>2. CASE s # t
        <5>1. tokens'[s] = tokens[s] /\ tokens[s].spent \in Nat /\ tokens[s].age \in Nat
              /\ tokens[s].spent + userLimiter(v) <= UserCap + tokens[s].age
          BY <1>5, <3>3, <3>4, <4>2
        <5>2. userLimiter(v)' \in Nat /\ userLimiter(v)' <= userLimiter(v) /\ userLimiter(v) \in Nat
          BY <1>3, <2>5
        <5> QED BY <1>1, <5>1, <5>2
      <4> QED BY <4>1, <4>2
    <3> QED BY <1>8, <2>3, <3>4, BudgetAfter
  <2>7. CASE ~Allow(userLimiter(u), UserEvery)
    <3>1. tokens' = tokens
      BY <1>10, <2>1, <2>7 DEF VerifyFactor
    <3> QED BY <1>8, <2>3, <2>5, <3>1, TokensKept
  <2> QED BY <2>6, <2>7
<1>11. ASSUME NEW r \in Requests, CheckPassword(r) \/ CheckCode(r) PROVE BudgetInv'
  <2>1. PICK u \in Users : AllowUser(u)
    BY <1>11 DEF CheckPassword, CheckCode
  <2>2. UNCHANGED <<login, tokens, span>>
    BY <1>11 DEF CheckPassword, CheckCode
  <2> QED BY <1>7, <1>8, <2>1, <2>2, TokensKept
<1>12. ASSUME UNCHANGED <<login, userLimiters, tokens, span>> PROVE BudgetInv'
  BY <1>6, <1>8, <1>12, TokensKept
<1>13. ASSUME NEW r \in Requests, Hashed(r) PROVE BudgetInv'
  <2>1. UNCHANGED <<login, userLimiters, span>>
    BY <1>13 DEF Hashed
  <2>2. CASE Rehash(r) \/ Done(r)
    BY <1>12, <2>1, <2>2 DEF Rehash, Done
  <2>3. CASE IssuePreAuthToken(r)
    <3>1. PICK t \in Tokens, u \in Users : tokens' = [tokens EXCEPT ![t] = [user |-> u, age |-> 0, spent |-> 0]]
      BY <2>3 DEF IssuePreAuthToken
    <3>2. tokens'[t].user = u /\ tokens'[t].age = 0 /\ tokens'[t].spent = 0
          /\ \A s \in Tokens : s # t => tokens'[s] = tokens[s]
      BY <3>1 DEF TypeOK
    <3>3. \A v \in Users : userLimiter(v)' \in Nat /\ userLimiter(v)' <= userLimiter(v) /\ userLimiter(v) \in 0..UserCap
      BY <1>3, <1>6, <2>1
    <3>4. ASSUME NEW s \in Tokens, NEW v \in Users, tokens'[s] # NoToken, tokens'[s].user = v
          PROVE  tokens'[s].spent + userLimiter(v)' <= UserCap + tokens'[s].age
      <4>1. CASE s = t
        BY <1>1, <3>2, <3>3, <4>1
      <4>2. CASE s # t
        <5>1. tokens'[s] = tokens[s] /\ tokens[s].spent \in Nat /\ tokens[s].age \in Nat
              /\ tokens[s].spent + userLimiter(v) <= UserCap + tokens[s].age
          BY <1>5, <3>2, <3>4, <4>2
        <5> QED BY <1>1, <3>3, <5>1
      <4> QED BY <4>1, <4>2
    <3> QED BY <1>8, <2>1, <3>4, BudgetAfter
  <2> QED BY <1>13, <2>2, <2>3 DEF Hashed
<1>14. CASE Tick
  <2>1. span'.spent + login' <= LoginCap + span'.age
    <3>1. login' \in Nat /\ login' <= login + 1 /\ login' <= LoginCap
      BY <1>1, <1>2, <1>14 DEF Tick, Refill
    <3>2. CASE span.age < MaxSpan
      <4>1. span' = [span EXCEPT !.age = span.age + 1]
        BY <1>14, <3>2 DEF Tick
      <4>2. span'.age = span.age + 1 /\ span'.spent = span.spent
        BY <4>1 DEF TypeOK
      <4> QED BY <1>1, <1>2, <3>1, <4>2
    <3>3. CASE ~(span.age < MaxSpan)
      <4>1. span' = Full
        BY <1>14, <3>3 DEF Tick
      <4>2. span'.spent \in Nat /\ span'.spent <= 0 /\ span'.age \in Nat
        BY <4>1 DEF Full
      <4> QED BY <1>1, <1>2, <3>1, <4>2
    <3> QED BY <3>2, <3>3
  <2>2. \A u \in Users : userLimiter(u)' <= userLimiter(u) + 1
    <3> SUFFICES ASSUME NEW u \in Users PROVE userLimiter(u)' <= userLimiter(u) + 1
      OBVIOUS
    <3>1. userLimiters'[u] = IF userLimiters[u] = NoLimiter THEN NoLimiter ELSE Refill(userLimiters[u], UserCap)
      BY <1>14 DEF Tick
    <3>2. CASE userLimiters[u] = NoLimiter
      BY <1>1, <3>1, <3>2 DEF userLimiter
    <3>3. CASE userLimiters[u] # NoLimiter
      <4>1. userLimiters[u] \in Nat
        BY <1>1, <3>3 DEF TypeOK
      <4>2. userLimiters'[u] \in Nat /\ userLimiters'[u] <= userLimiters[u] + 1
        BY <1>1, <3>1, <3>3, <4>1 DEF Refill
      <4>3. userLimiters'[u] # NoLimiter
        BY <4>2, NoneAssumption
      <4> QED BY <3>3, <4>2, <4>3 DEF userLimiter
    <3> QED BY <3>2, <3>3
  <2>3. ASSUME NEW t \in Tokens, NEW u \in Users, tokens'[t] # NoToken, tokens'[t].user = u
        PROVE  tokens'[t].spent + userLimiter(u)' <= UserCap + tokens'[t].age
    <3>1. tokens'[t] = Older(t)
      BY <1>14 DEF Tick
    <3>2. tokens[t] # NoToken /\ tokens'[t] = [tokens[t] EXCEPT !.age = tokens[t].age + 1]
      BY <2>3, <3>1 DEF Older
    <3>3. tokens'[t].age = tokens[t].age + 1 /\ tokens'[t].spent = tokens[t].spent /\ tokens[t].user = u
      BY <2>3, <3>2 DEF TypeOK, Token
    <3>4. userLimiter(u) \in Nat /\ userLimiter(u)' \in Nat /\ userLimiter(u)' <= userLimiter(u) + 1
      BY <1>1, <1>3, <1>4, <2>2
    <3>5. tokens[t].spent \in Nat /\ tokens[t].age \in Nat
          /\ tokens[t].spent + userLimiter(u) <= UserCap + tokens[t].age
      BY <1>5, <3>2, <3>3
    <3> QED BY <1>1, <3>3, <3>4, <3>5
  <2> QED BY <2>1, <2>3, BudgetAfter
<1>15. CASE Watch
  <2>1. span' = Full /\ UNCHANGED <<login, userLimiters, tokens>>
    BY <1>15 DEF Watch
  <2>2. span'.spent + login' <= LoginCap + span'.age
    BY <1>1, <1>2, <2>1 DEF Full
  <2> QED BY <1>6, <2>1, <2>2, TokensKept
<1>16. CASE Restart
  BY <1>1, <1>16 DEF Restart, BudgetInv, Full
<1>17. CASE Acquire \/ UNCHANGED vars
  BY <1>12, <1>17 DEF Acquire, vars
<1>18. ASSUME NEW r \in Requests, PostUser2FAVerify(r) \/ PutUserPassword(r) \/ PostUserRegister(r) PROVE BudgetInv'
  BY <1>12, <1>18 DEF PostUser2FAVerify, PutUserPassword, PostUserRegister
<1> QED BY <1>9, <1>10, <1>11, <1>13, <1>14, <1>15, <1>16, <1>17, <1>18 DEF Next, Step

-----------------------------------------------------------------------------
(* The theorems.                                                           *)

\* For every number of slots, requests and accounts, the budgets are numbers within their
\* burst, and no more hashes are computed at a time than there are slots
\* (password.go:42-53).
THEOREM LimiterTypeCorrect == Spec => []TypeOK
BY InitTyped, NextTyped, PTL DEF Spec

\* Types and BudgetInv together are an inductive invariant.
LEMMA BudgetsInvariant == Spec => [](TypeOK /\ BudgetInv)
BY InitTyped, InitBudget, NextTyped, NextBudget, PTL DEF Spec

\* For every burst, refill and life of a token, the factors tried with one pre-auth token
\* are bounded by the burst and its age, restarts included (user_2fa.go:19-41, 60-66).
THEOREM TokenBudgetHolds == Spec => []TokenBudget
<1>1. TypeOK /\ BudgetInv => TokenBudget
  <2> SUFFICES ASSUME TypeOK, BudgetInv, NEW t \in Tokens, tokens[t] # NoToken
               PROVE  tokens[t].spent <= UserCap + tokens[t].age
    BY DEF TokenBudget
  <2>1. tokens[t].user \in Users /\ tokens[t].spent \in Nat /\ tokens[t].age \in Nat
    BY DEF TypeOK, Token
  <2>2. userLimiter(tokens[t].user) \in Nat /\ UserCap \in Nat
    BY <2>1, UserLimiterTyped, CapsAreNumbers
  <2>3. tokens[t].spent + userLimiter(tokens[t].user) <= UserCap + tokens[t].age
    BY DEF BudgetInv
  <2> QED BY <2>1, <2>2, <2>3
<1> QED BY <1>1, BudgetsInvariant, PTL

\* For every burst and refill, what /login lets through in any stretch of time is bounded
\* by the burst and the length of the stretch (user.go:89-91, 121).
THEOREM LoginBudgetHolds == Spec => []LoginBudget
<1>1. TypeOK /\ BudgetInv => LoginBudget
  <2> SUFFICES ASSUME TypeOK, BudgetInv PROVE LoginBudget
    OBVIOUS
  <2>1. login \in Nat /\ span.age \in Nat /\ span.spent \in Nat /\ LoginCap \in Nat
    BY CapsAreNumbers DEF TypeOK
  <2> QED BY <2>1 DEF BudgetInv, LoginBudget
<1> QED BY <1>1, BudgetsInvariant, PTL

=============================================================================
