--------------------------- MODULE ProfileProofs ---------------------------
(* Proofs about module Profile, for any sets of requests, ids and values.  *)
EXTENDS Profile, TLAPS

\* What UpdateUser leaves of an account: a row with the password and the
\* two-factor state it had, and of the others everything.
LEMMA UpdateUserEffect ==
    ASSUME TypeOK, NEW ok \in BOOLEAN, NEW m \in Model, UpdateUser(ok, m)
    PROVE  /\ users' \in [Ids -> Row \cup {NoRow}]
           /\ \A id \in Ids : users[id] = NoRow <=> users'[id] = NoRow
           /\ \A id \in Accounts : /\ users'[id].password = users[id].password
                                   /\ users'[id].totpEnabled = users[id].totpEnabled
<1>1. CASE ok /\ m.id \in Accounts
  <2> DEFINE old == users[m.id]
             new == Updates(old, m)
  <2>1. m.id \in Ids /\ old \in Row
    BY <1>1 DEF TypeOK, Accounts
  <2>2. /\ Given(m.name, old.name) \in Names
        /\ Given(m.nickname, old.nickname) \in Texts \cup {Empty}
        /\ Given(m.avatar, old.avatar) \in Texts \cup {Empty}
    BY <2>1 DEF Given, Row, Model
  <2>3. new \in Row /\ new.password = old.password /\ new.totpEnabled = old.totpEnabled
    BY <2>1, <2>2 DEF Row, Updates
  <2>4. users' = [users EXCEPT ![m.id] = new]
    BY <1>1 DEF UpdateUser
  <2> HIDE DEF new
  <2>5. new # NoRow
    BY <2>3, NoRowAssumption
  <2>6. /\ users'[m.id] = new
        /\ \A id \in Ids : id # m.id => users'[id] = users[id]
        /\ users' \in [Ids -> Row \cup {NoRow}]
    BY <2>1, <2>3, <2>4 DEF TypeOK
  <2> QED
    BY <1>1, <2>1, <2>3, <2>5, <2>6 DEF Accounts
<1>2. CASE ~(ok /\ m.id \in Accounts)
  BY <1>2 DEF UpdateUser, TypeOK
<1> QED
  BY <1>1, <1>2

-----------------------------------------------------------------------------
\* How the steps of a request change req: what a request becomes is well typed, and
\* nothing but the start of an upload holds an avatar file to be.
LEMMA ReturnEffect ==
    ASSUME Inv, NEW r \in Requests, Return(r), avatars' \subseteq Ids,
           users' \in [Ids -> Row \cup {NoRow}]
    PROVE  Inv'
<1>1. Idle \in Request /\ Idle.at # "avatar_file"
  BY DEF Idle, Zero, Request, Model
<1>2. req' \in [Requests -> Request]
  BY <1>1 DEF Return, Inv, TypeOK
<1>3. \A s \in Requests : req'[s].at = "avatar_file" => req'[s].user.id \in Ids
  BY <1>1 DEF Return, Inv, TypeOK
<1> QED
  BY <1>2, <1>3 DEF Inv, TypeOK

\* The same of a request that goes on.
LEMMA GotoEffect ==
    ASSUME Inv, NEW r \in Requests, NEW at, NEW user \in Model, Goto(r, at, user),
           at \in {"info_lookup", "info_write", "avatar_file", "avatar_write"},
           at = "avatar_file" => user.id \in Ids,
           avatars' \subseteq Ids, users' \in [Ids -> Row \cup {NoRow}]
    PROVE  Inv'
<1>1. [at |-> at, user |-> user] \in Request
  BY DEF Request
<1>2. req' \in [Requests -> Request]
  BY <1>1 DEF Goto, Inv, TypeOK
<1>3. \A s \in Requests : req'[s].at = "avatar_file" => req'[s].user.id \in Ids
  BY DEF Goto, Inv, TypeOK
<1> QED
  BY <1>2, <1>3 DEF Inv, TypeOK

\* Every step keeps the invariant.
LEMMA InvStep == Inv /\ [Next]_vars => Inv'
<1> SUFFICES ASSUME Inv, [Next]_vars PROVE Inv'
  OBVIOUS
<1>i. TypeOK /\ avatars \subseteq Ids /\ users \in [Ids -> Row \cup {NoRow}]
  BY DEF Inv, TypeOK
<1>g. ASSUME NEW id \in Accounts
      PROVE  GetUserInfoById(id) \in Model /\ GetUserInfoById(id).id \in Ids
  <2>1. id \in Ids /\ users[id] \in Row
    BY <1>i DEF Accounts
  <2> QED
    BY <2>1 DEF GetUserInfoById, Row, Model
<1>r. ASSUME NEW r \in Requests PROVE req[r].user \in Model
  BY <1>i DEF TypeOK, Request
<1>1. ASSUME NEW r \in Requests, PutUserInfo(r) PROVE Inv'
  <2>1. PICK id \in Accounts, body \in Model :
          Goto(r, IF body.name = Empty THEN "info_write" ELSE "info_lookup",
               [body EXCEPT !.nickname = Given(@, GetUserInfoById(id).nickname),
                            !.avatar   = Given(@, GetUserInfoById(id).avatar)])
    BY <1>1 DEF PutUserInfo
  <2>2. GetUserInfoById(id) \in Model
    BY <1>g
  <2>3. [body EXCEPT !.nickname = Given(@, GetUserInfoById(id).nickname),
                     !.avatar   = Given(@, GetUserInfoById(id).avatar)] \in Model
    BY <2>2 DEF Model, Given
  <2>4. users' = users /\ avatars' = avatars
    BY <1>1 DEF PutUserInfo
  <2> QED
    BY <1>i, <2>1, <2>3, <2>4, GotoEffect
<1>2. ASSUME NEW r \in Requests, InfoLookup(r) PROVE Inv'
  <2>1. users' = users /\ avatars' = avatars
    BY <1>2 DEF InfoLookup
  <2>2. Return(r) \/ Goto(r, "info_write", req[r].user)
    BY <1>2 DEF InfoLookup
  <2>3. CASE Return(r)
    BY <1>i, <2>1, <2>3, ReturnEffect
  <2>4. CASE Goto(r, "info_write", req[r].user)
    BY <1>i, <1>r, <2>1, <2>4, GotoEffect
  <2> QED
    BY <2>2, <2>3, <2>4
<1>3. ASSUME NEW r \in Requests, InfoWrite(r) \/ AvatarWrite(r) PROVE Inv'
  <2>1. PICK ok \in BOOLEAN : UpdateUser(ok, req[r].user)
    BY <1>3 DEF InfoWrite, AvatarWrite
  <2>2. users' \in [Ids -> Row \cup {NoRow}]
    BY <1>i, <1>r, <2>1, UpdateUserEffect
  <2>3. Return(r) /\ avatars' = avatars
    BY <1>3 DEF InfoWrite, AvatarWrite
  <2> QED
    BY <1>i, <2>2, <2>3, ReturnEffect
<1>4. ASSUME NEW r \in Requests, PutUserAvatar(r) PROVE Inv'
  <2>1. PICK id \in Accounts : Goto(r, "avatar_file", GetUserInfoById(id))
    BY <1>4 DEF PutUserAvatar
  <2>2. users' = users /\ avatars' = avatars
    BY <1>4 DEF PutUserAvatar
  <2> QED
    BY <1>i, <1>g, <2>1, <2>2, GotoEffect
<1>5. ASSUME NEW r \in Requests, AvatarFile(r) PROVE Inv'
  <2>1. req[r].user.id \in Ids
    BY <1>5 DEF AvatarFile, Inv
  <2>2. PICK path \in Texts : Goto(r, "avatar_write", [req[r].user EXCEPT !.avatar = path])
    BY <1>5 DEF AvatarFile
  <2>3. [req[r].user EXCEPT !.avatar = path] \in Model
    BY <1>r DEF Model
  <2>4. users' = users /\ avatars' \subseteq Ids
    BY <1>5, <1>i, <2>1 DEF AvatarFile
  <2> QED
    BY <1>i, <2>2, <2>3, <2>4, GotoEffect
<1>6. ASSUME NEW r \in Requests, AvatarFatal(r) PROVE Inv'
  BY <1>6 DEF AvatarFatal, Inv, TypeOK, Idle, Zero, Request, Model
<1>7. ASSUME NEW id \in Ids, ChangeCredentials(id) PROVE Inv'
  <2>1. PICK password \in Passwords, totpEnabled \in BOOLEAN :
          users' = [users EXCEPT ![id].password = password, ![id].totpEnabled = totpEnabled]
    BY <1>7 DEF ChangeCredentials
  <2>2. users[id] \in Row
    BY <1>7, <1>i DEF ChangeCredentials, Accounts
  <2>3. \A row \in Row : [row EXCEPT !.password = password] \in Row
    BY DEF Row
  <2>4. \A row \in Row : [row EXCEPT !.totpEnabled = totpEnabled] \in Row
    BY DEF Row
  <2>5. users' \in [Ids -> Row \cup {NoRow}]
    BY <1>i, <2>1, <2>2, <2>3, <2>4
  <2> QED
    BY <1>7, <2>5 DEF ChangeCredentials, Inv, TypeOK
<1>8. ASSUME NEW id \in Ids, CreateUser(id) PROVE Inv'
  <2>1. users' \in [Ids -> Row \cup {NoRow}]
    BY <1>8, <1>i DEF CreateUser, Row
  <2> QED
    BY <1>8, <2>1 DEF CreateUser, Inv, TypeOK
<1>9. ASSUME NEW id \in Ids, DeleteUserById(id) PROVE Inv'
  BY <1>9 DEF DeleteUserById, Inv, TypeOK
<1>10. CASE DeleteAllUser
  BY <1>10 DEF DeleteAllUser, Inv, TypeOK
<1>11. CASE UNCHANGED vars
  BY <1>11 DEF vars, Inv, TypeOK
<1> QED
  BY <1>1, <1>2, <1>3, <1>4, <1>5, <1>6, <1>7, <1>8, <1>9, <1>10, <1>11 DEF Next, Info, Avatar

\* The invariant holds of every behaviour.
THEOREM InvHolds == Spec => []Inv
<1>1. Init => Inv
  BY DEF Init, Inv, TypeOK, Idle, Zero, Request, Model
<1> QED
  BY <1>1, InvStep, PTL DEF Spec

\* The variables keep their types: no profile write, and no write it overlaps,
\* leaves an account without a name or a password.
THEOREM TypeCorrect == Spec => []TypeOK
<1>1. Inv => TypeOK
  BY DEF Inv
<1> QED
  BY <1>1, InvHolds, PTL

-----------------------------------------------------------------------------
\* Of the steps that a request takes, each leaves the table alone or is one
\* UpdateUser.
LEMMA RequestSteps ==
    ASSUME Inv, [Next]_vars, req' # req
    PROVE  \/ users' = users
           \/ \E ok \in BOOLEAN, m \in Model : UpdateUser(ok, m)
<1>r. ASSUME NEW r \in Requests PROVE req[r].user \in Model
  BY DEF Inv, TypeOK, Request
<1>1. ASSUME NEW r \in Requests, Info(r) \/ Avatar(r)
      PROVE  \/ users' = users
             \/ \E ok \in BOOLEAN, m \in Model : UpdateUser(ok, m)
  BY <1>1, <1>r DEF Info, Avatar, PutUserInfo, InfoLookup, InfoWrite,
                    PutUserAvatar, AvatarFile, AvatarWrite, AvatarFatal
<1>2. \E r \in Requests : Info(r) \/ Avatar(r)
  BY DEF Next, vars, ChangeCredentials, CreateUser, DeleteUserById, DeleteAllUser
<1> QED
  BY <1>1, <1>2

\* No profile request changes the password or the two-factor state of an account,
\* whatever its body names and however old the row it read.
THEOREM ProfileKeepsCredentialsHolds == Spec => ProfileKeepsCredentials
<1>1. Inv /\ [Next]_vars =>
        [ req' # req =>
            \A id \in Accounts : /\ users'[id].password = users[id].password
                                 /\ users'[id].totpEnabled = users[id].totpEnabled ]_vars
  BY RequestSteps, UpdateUserEffect DEF Inv
<1> QED
  BY <1>1, InvHolds, PTL DEF Spec, ProfileKeepsCredentials

\* No profile request brings a deleted account back, and none removes one.
THEOREM DeletedStaysGoneHolds == Spec => DeletedStaysGone
<1>1. Inv /\ [Next]_vars =>
        [ req' # req => \A id \in Ids : users[id] = NoRow <=> users'[id] = NoRow ]_vars
  BY RequestSteps, UpdateUserEffect DEF Inv
<1> QED
  BY <1>1, InvHolds, PTL DEF Spec, DeletedStaysGone

=============================================================================
