------------------------- MODULE RegistrationProofs -------------------------
(***************************************************************************)
(* Proofs about Registration, for any number of requests, commands, keys   *)
(* and names.  BaseInv adds to LocalIsLocal and SpentKeyStaysGone what     *)
(* they rest on: every key that is, was or will be used has been drawn,    *)
(* and a request about to issue a key belongs to a service that is not in  *)
(* local mode.  KeyInv adds to KeySharedOnlyInOverlap where a key that     *)
(* made an account can still be.                                           *)
(***************************************************************************)
EXTENDS Registration, TLAPS

USE MaxAccountsAssumption

\* What a request or a command may become.
LEMMA Records ==
  /\ Idle \in Request /\ NoCommand \in Command
  /\ Idle.at = "idle" /\ NoCommand.at = "idle"
  /\ \A key \in Keys, name \in Names :
        [Idle EXCEPT !.at = "reg_lookup", !.key = key, !.name = name] \in Request
  /\ \A q \in Request :
        /\ [q EXCEPT !.at = "status_issue"] \in Request
        /\ [q EXCEPT !.at = "reg_create"] \in Request
  /\ \A name \in Names : [NoCommand EXCEPT !.at = "recount", !.name = name] \in Command
  /\ \A q \in Command : [q EXCEPT !.at = "create"] \in Command
<1>1. Idle \in Request /\ Idle.at = "idle"
    BY DEF Idle, Request
<1>2. NoCommand \in Command /\ NoCommand.at = "idle"
    BY DEF NoCommand, Command
<1>3. \A q \in Request :
        /\ [q EXCEPT !.at = "status_issue"] \in Request
        /\ [q EXCEPT !.at = "reg_create"] \in Request
        /\ \A key \in Keys, name \in Names :
            [q EXCEPT !.at = "reg_lookup", !.key = key, !.name = name] \in Request
    BY DEF Request
<1>4. \A q \in Command :
        /\ [q EXCEPT !.at = "create"] \in Command
        /\ \A name \in Names : [q EXCEPT !.at = "recount", !.name = name] \in Command
    BY DEF Command
<1> QED
    BY <1>1, <1>2, <1>3, <1>4

\* What a record that moves on has kept.
LEMMA Moves ==
  /\ \A q \in Request :
        /\ [q EXCEPT !.at = "status_issue"].at = "status_issue"
        /\ [q EXCEPT !.at = "reg_create"].at = "reg_create"
        /\ [q EXCEPT !.at = "reg_create"].key = q.key
        /\ [q EXCEPT !.at = "reg_create"].name = q.name
  /\ \A q \in Command :
        /\ [q EXCEPT !.at = "create"].at = "create"
        /\ [q EXCEPT !.at = "create"].name = q.name
  BY DEF Request, Command

\* An insert keeps the table within its type.
LEMMA Insert ==
  ASSUME NEW name \in Names, users \subseteq UserRow, lastId \in 0..MaxAccounts, CreateUser(name)
  PROVE  users' \subseteq UserRow /\ lastId' \in 0..MaxAccounts /\ lastId + 1 \in Ids
  BY DEF CreateUser, UserRow, Ids

\* The initial state satisfies the invariant.
LEMMA InitBaseInv == Init => BaseInv
<1> SUFFICES ASSUME Init PROVE BaseInv
    OBVIOUS
<1>1. TypeOK
  <2>1. req \in [Requests -> Request] /\ cmd \in [Commands -> Command]
      BY Records DEF Init
  <2>2. local \in BOOLEAN
      BY DEF Init
  <2>3. lastId \in 0..MaxAccounts
      BY DEF Init
  <2> QED
      BY <2>1, <2>2, <2>3 DEF Init, TypeOK
<1>2. \A r \in Requests : req[r].at = "idle"
    BY Records DEF Init
<1>3. \A c \in Commands : cmd[c].at = "idle"
    BY Records DEF Init
<1>4. LocalIsLocal /\ SpentKeyStaysGone /\ keys \cup spentKeys \subseteq drawnKeys
    BY <1>2 DEF Init, LocalIsLocal, SpentKeyStaysGone, Registering
<1> QED
    BY <1>1, <1>2, <1>3, <1>4 DEF BaseInv, RequestInv, CommandInv, Registering

\* What every step of a request leaves to show: the others are as they were.
LEMMA RequestStep ==
  ASSUME BaseInv, NEW r \in Requests, NEW q \in Request, req' = [req EXCEPT ![r] = q],
         UNCHANGED <<local, cmd>>, drawnKeys \subseteq drawnKeys',
         q.at = "status_issue" => ~local,
         q.at \in {"reg_lookup", "reg_create", "reg_finish"} =>
            ~local /\ q.key \in drawnKeys' /\ q.name \in Names,
         q.at = "reg_finish" => q.id # 0
  PROVE  /\ req' \in [Requests -> Request] /\ cmd' \in [Commands -> Command]
         /\ \A s \in Requests : RequestInv(s)'
         /\ \A c \in Commands : CommandInv(c)'
         /\ local' => \A s \in Requests : ~Registering(s)'
<1>1. req \in [Requests -> Request] /\ cmd \in [Commands -> Command]
    BY DEF BaseInv, TypeOK
<1>2. req'[r] = q /\ \A s \in Requests : s # r => req'[s] = req[s]
    BY <1>1
<1>3. req' \in [Requests -> Request]
    BY <1>1
<1>4. ASSUME NEW s \in Requests PROVE RequestInv(s)'
  <2>1. CASE s = r
      BY <2>1, <1>2 DEF RequestInv, Registering
  <2>2. CASE s # r
      BY <2>2, <1>2 DEF BaseInv, RequestInv, Registering
  <2> QED
      BY <2>1, <2>2
<1>5. \A c \in Commands : CommandInv(c)'
    BY DEF BaseInv, CommandInv
<1>6. local' => \A s \in Requests : ~Registering(s)'
    BY <1>2 DEF BaseInv, LocalIsLocal, Registering
<1> QED
    BY <1>1, <1>3, <1>4, <1>5, <1>6

\* The same for a step of a command.
LEMMA CommandStep ==
  ASSUME BaseInv, NEW c \in Commands, NEW q \in Command, cmd' = [cmd EXCEPT ![c] = q],
         UNCHANGED <<local, req, keys, drawnKeys, spentKeys>>,
         q.at # "idle" => q.name \in Names, q.at = "mkdir" => q.id # 0
  PROVE  /\ req' \in [Requests -> Request] /\ cmd' \in [Commands -> Command]
         /\ LocalIsLocal' /\ SpentKeyStaysGone' /\ (keys \cup spentKeys \subseteq drawnKeys)'
         /\ \A s \in Requests : RequestInv(s)'
         /\ \A d \in Commands : CommandInv(d)'
<1>1. req \in [Requests -> Request] /\ cmd \in [Commands -> Command]
    BY DEF BaseInv, TypeOK
<1>2. cmd'[c] = q /\ \A d \in Commands : d # c => cmd'[d] = cmd[d]
    BY <1>1
<1>3. cmd' \in [Commands -> Command]
    BY <1>1
<1>4. ASSUME NEW d \in Commands PROVE CommandInv(d)'
    BY <1>2 DEF BaseInv, CommandInv
<1>5. \A s \in Requests : RequestInv(s)'
    BY DEF BaseInv, RequestInv, Registering
<1>6. LocalIsLocal' /\ SpentKeyStaysGone' /\ (keys \cup spentKeys \subseteq drawnKeys)'
    BY DEF BaseInv, LocalIsLocal, SpentKeyStaysGone, Registering
<1> QED
    BY <1>1, <1>3, <1>4, <1>5, <1>6

\* Every step keeps the invariant.
LEMMA NextBaseInv == BaseInv /\ [Next]_vars => BaseInv'
<1> SUFFICES ASSUME BaseInv, [Next]_vars PROVE BaseInv'
    OBVIOUS
<1>t. TypeOK
    BY DEF BaseInv
<1>b. local \in BOOLEAN
    BY <1>t DEF TypeOK
<1>r. ASSUME NEW r \in Requests PROVE req[r] \in Request
    BY <1>t DEF TypeOK
<1>c. ASSUME NEW c \in Commands PROVE cmd[c] \in Command
    BY <1>t DEF TypeOK
<1>q. ASSUME NEW r \in Requests
      PROVE  /\ Registering(r) => req[r].key \in drawnKeys /\ req[r].name \in Names /\ ~local
             /\ req[r].at = "reg_finish" => req[r].id \in Ids
    BY <1>r DEF BaseInv, RequestInv, LocalIsLocal, Request, Registering
<1>k. keys \cap spentKeys = {} /\ keys \cup spentKeys \subseteq drawnKeys /\ (local => keys = {})
    BY DEF BaseInv, LocalIsLocal, SpentKeyStaysGone
<1>1. CASE UNCHANGED vars
  <2>1. TypeOK'
      BY <1>1, <1>t DEF vars, TypeOK
  <2>2. LocalIsLocal' /\ SpentKeyStaysGone' /\ (keys \cup spentKeys \subseteq drawnKeys)'
      BY <1>1 DEF vars, BaseInv, LocalIsLocal, SpentKeyStaysGone, Registering
  <2>3. (\A r \in Requests : RequestInv(r)') /\ (\A c \in Commands : CommandInv(c)')
      BY <1>1 DEF vars, BaseInv, RequestInv, CommandInv, Registering
  <2> QED
      BY <2>1, <2>2, <2>3 DEF BaseInv
<1>2. ASSUME NEW r \in Requests, GetUserStatus(r) PROVE BaseInv'
  <2> DEFINE q == [req[r] EXCEPT !.at = "status_issue"]
  <2>1. q \in Request /\ q.at = "status_issue"
      BY <1>r, Records, Moves
  <2>2. req' = [req EXCEPT ![r] = q] /\ ~local
      BY <1>2, <1>t DEF GetUserStatus, TypeOK
  <2>3. UNCHANGED <<users, lastId, dirs, keys, local, cmd, drawnKeys, spentKeys, registered, sharedKeys>>
      BY <1>2 DEF GetUserStatus, table, past
  <2> HIDE DEF q
  <2>4. /\ req' \in [Requests -> Request] /\ cmd' \in [Commands -> Command]
        /\ \A s \in Requests : RequestInv(s)'
        /\ \A c \in Commands : CommandInv(c)'
        /\ local' => \A s \in Requests : ~Registering(s)'
      BY <2>1, <2>2, <2>3, RequestStep
  <2> QED
      BY <2>3, <2>4, <1>t, <1>k DEF BaseInv, TypeOK, LocalIsLocal, SpentKeyStaysGone
<1>3. ASSUME NEW r \in Requests, IssueKey(r) PROVE BaseInv'
  <2>1. ~local
      BY <1>3 DEF IssueKey, BaseInv, RequestInv
  <2>2. req' = [req EXCEPT ![r] = Idle]
        /\ UNCHANGED <<users, lastId, dirs, local, cmd, spentKeys, registered, sharedKeys>>
      BY <1>3 DEF IssueKey, Return, table
  <2>3. PICK key \in Keys \ drawnKeys :
            keys' = keys \cup {key} /\ drawnKeys' = drawnKeys \cup {key}
      BY <1>3 DEF IssueKey
  <2>4. /\ req' \in [Requests -> Request] /\ cmd' \in [Commands -> Command]
        /\ \A s \in Requests : RequestInv(s)'
        /\ \A c \in Commands : CommandInv(c)'
        /\ local' => \A s \in Requests : ~Registering(s)'
      BY <2>2, <2>3, Records, RequestStep
  <2>5. SpentKeyStaysGone' /\ (keys \cup spentKeys \subseteq drawnKeys)'
      BY <2>2, <2>3, <1>k DEF SpentKeyStaysGone
  <2>6. keys' \subseteq Keys /\ drawnKeys' \subseteq Keys
      BY <2>3, <1>t DEF TypeOK
  <2> QED
      BY <2>1, <2>2, <2>4, <2>5, <2>6, <1>t DEF BaseInv, TypeOK, LocalIsLocal
<1>4. ASSUME NEW r \in Requests, PostUserRegister(r) PROVE BaseInv'
  <2>1. PICK key \in keys, name \in Names :
            /\ req' = [req EXCEPT ![r] = [Idle EXCEPT !.at = "reg_lookup", !.key = key, !.name = name]]
            /\ sharedKeys' = sharedKeys \cup {k \in {key} : \E s \in Requests : Holds(s, k)}
      BY <1>4 DEF PostUserRegister
  <2> DEFINE q == [Idle EXCEPT !.at = "reg_lookup", !.key = key, !.name = name]
  <2>2. key \in Keys /\ key \in drawnKeys
      BY <1>t, <1>k DEF TypeOK
  <2>3. q \in Request /\ q.at = "reg_lookup" /\ q.key = key /\ q.name = name
      BY <2>2, Records DEF Idle
  <2>4. ~local /\ UNCHANGED <<users, lastId, dirs, keys, local, cmd, drawnKeys, spentKeys, registered>>
      BY <1>4 DEF PostUserRegister, table, past
  <2>5. req' = [req EXCEPT ![r] = q]
      BY <2>1
  <2> HIDE DEF q
  <2>6. /\ req' \in [Requests -> Request] /\ cmd' \in [Commands -> Command]
        /\ \A s \in Requests : RequestInv(s)'
        /\ \A c \in Commands : CommandInv(c)'
        /\ local' => \A s \in Requests : ~Registering(s)'
      BY <2>2, <2>3, <2>4, <2>5, RequestStep
  <2>7. sharedKeys' \subseteq Keys
      BY <2>1, <2>2, <1>t DEF TypeOK
  <2> QED
      BY <2>4, <2>6, <2>7, <1>t, <1>k DEF BaseInv, TypeOK, LocalIsLocal, SpentKeyStaysGone
<1>5. ASSUME NEW r \in Requests, RegisterLookup(r) PROVE BaseInv'
  <2> DEFINE q == [req[r] EXCEPT !.at = "reg_create"]
  <2>1. UNCHANGED <<users, lastId, dirs, keys, local, cmd, drawnKeys, spentKeys, registered, sharedKeys>>
      BY <1>5 DEF RegisterLookup, table, past
  <2>2. q \in Request /\ q.at = "reg_create" /\ q.key = req[r].key /\ q.name = req[r].name
      BY <1>r, Records, Moves
  <2>3. q.key \in drawnKeys /\ q.name \in Names /\ ~local
      BY <1>5, <1>q, <2>2 DEF RegisterLookup, Registering
  <2>4. req' = [req EXCEPT ![r] = Idle] \/ req' = [req EXCEPT ![r] = q]
      BY <1>5, <1>t DEF RegisterLookup, Return, TypeOK
  <2> HIDE DEF q
  <2>5. /\ req' \in [Requests -> Request] /\ cmd' \in [Commands -> Command]
        /\ \A s \in Requests : RequestInv(s)'
        /\ \A c \in Commands : CommandInv(c)'
        /\ local' => \A s \in Requests : ~Registering(s)'
    <3>1. CASE req' = [req EXCEPT ![r] = Idle]
        BY <2>1, <3>1, Records, RequestStep
    <3>2. CASE req' = [req EXCEPT ![r] = q]
        BY <2>1, <2>2, <2>3, <3>2, RequestStep
    <3> QED
        BY <2>4, <3>1, <3>2
  <2> QED
      BY <2>1, <2>5, <1>t, <1>k DEF BaseInv, TypeOK, LocalIsLocal, SpentKeyStaysGone
<1>6. ASSUME NEW r \in Requests, RegisterCreate(r) PROVE BaseInv'
  <2>1. UNCHANGED <<dirs, keys, local, cmd, drawnKeys, spentKeys, sharedKeys>>
      BY <1>6 DEF RegisterCreate
  <2>2. req[r].key \in drawnKeys /\ req[r].name \in Names /\ ~local
      BY <1>6, <1>q DEF RegisterCreate, Registering
  <2>3. CASE /\ CreateUser(req[r].name)
             /\ req' = [req EXCEPT ![r].at = "reg_finish", ![r].id = lastId + 1]
             /\ registered' = registered \cup {[key |-> req[r].key, id |-> lastId + 1]}
    <3> DEFINE q == [req[r] EXCEPT !.at = "reg_finish", !.id = lastId + 1]
    <3>1. users' \subseteq UserRow /\ lastId' \in 0..MaxAccounts /\ lastId + 1 \in Ids
        BY <2>2, <2>3, <1>t, Insert DEF TypeOK
    <3>a. \A id \in Ids :
            LET p == [req[r] EXCEPT !.at = "reg_finish", !.id = id] IN
            p \in Request /\ p.at = "reg_finish" /\ p.id = id /\ p.key = req[r].key /\ p.name = req[r].name
        BY <1>r DEF Request
    <3>2. /\ q \in Request /\ q.at = "reg_finish" /\ q.id = lastId + 1
          /\ q.key = req[r].key /\ q.name = req[r].name
        BY <3>a, <3>1
    <3>3. req' = [req EXCEPT ![r] = q]
        BY <2>3, <1>t DEF TypeOK
    <3>4. lastId + 1 # 0
        BY <3>1 DEF Ids
    <3> HIDE DEF q
    <3>5. /\ req' \in [Requests -> Request] /\ cmd' \in [Commands -> Command]
          /\ \A s \in Requests : RequestInv(s)'
          /\ \A c \in Commands : CommandInv(c)'
          /\ local' => \A s \in Requests : ~Registering(s)'
        BY <2>1, <2>2, <3>2, <3>3, <3>4, RequestStep
    <3>6. registered' \subseteq [key : Keys, id : Ids]
        BY <2>2, <2>3, <3>1, <1>t DEF TypeOK
    <3> QED
        BY <2>1, <3>1, <3>5, <3>6, <1>t, <1>k DEF BaseInv, TypeOK, LocalIsLocal, SpentKeyStaysGone
  <2>4. CASE Return(r) /\ UNCHANGED <<table, registered>>
    <3>1. /\ req' \in [Requests -> Request] /\ cmd' \in [Commands -> Command]
          /\ \A s \in Requests : RequestInv(s)'
          /\ \A c \in Commands : CommandInv(c)'
          /\ local' => \A s \in Requests : ~Registering(s)'
        BY <2>1, <2>4, Records, RequestStep DEF Return
    <3> QED
        BY <2>1, <2>4, <3>1, <1>t, <1>k DEF table, BaseInv, TypeOK, LocalIsLocal, SpentKeyStaysGone
  <2> QED
      BY <1>6, <2>3, <2>4 DEF RegisterCreate
<1>7. ASSUME NEW r \in Requests, RegisterFinish(r) PROVE BaseInv'
  <2>1. /\ UNCHANGED <<users, lastId, local, cmd, drawnKeys, registered, sharedKeys>>
        /\ req' = [req EXCEPT ![r] = Idle]
        /\ keys' = keys \ {req[r].key} /\ spentKeys' = spentKeys \cup {req[r].key}
      BY <1>7 DEF RegisterFinish, Return, table
  <2>2. req[r].key \in drawnKeys /\ req[r].id \in Ids
      BY <1>7, <1>q DEF RegisterFinish, Registering
  <2>3. dirs' \subseteq Ids
      BY <1>7, <1>t, <2>2 DEF RegisterFinish, MkDir, TypeOK
  <2>4. /\ req' \in [Requests -> Request] /\ cmd' \in [Commands -> Command]
        /\ \A s \in Requests : RequestInv(s)'
        /\ \A c \in Commands : CommandInv(c)'
        /\ local' => \A s \in Requests : ~Registering(s)'
      BY <2>1, Records, RequestStep
  <2>5. SpentKeyStaysGone' /\ (keys \cup spentKeys \subseteq drawnKeys)'
      BY <2>1, <2>2, <1>k DEF SpentKeyStaysGone
  <2>6. keys' \subseteq Keys /\ spentKeys' \subseteq Keys
      BY <2>1, <2>2, <1>t DEF TypeOK
  <2> QED
      BY <2>1, <2>3, <2>4, <2>5, <2>6, <1>t, <1>k DEF BaseInv, TypeOK, LocalIsLocal
<1>8. ASSUME NEW c \in Commands, Bootstrap(c) PROVE BaseInv'
  <2>1. UNCHANGED <<keys, local, req, drawnKeys, spentKeys, registered, sharedKeys>>
      BY <1>8 DEF Bootstrap, BootstrapFirstAdmin, CreateFirstAdmin, BootstrapCreate, BootstrapMkDir,
                  Abort, table, past
  <2>n. cmd[c].at # "idle" => cmd[c].name \in Names
      BY DEF BaseInv, CommandInv
  <2>d. cmd[c].at = "mkdir" => cmd[c].id \in Ids
      BY <1>c DEF BaseInv, CommandInv, Command
  <2>e. CASE Exit(c) /\ UNCHANGED <<users, lastId>> /\ dirs' \subseteq Ids
    <3>1. /\ req' \in [Requests -> Request] /\ cmd' \in [Commands -> Command]
          /\ LocalIsLocal' /\ SpentKeyStaysGone' /\ (keys \cup spentKeys \subseteq drawnKeys)'
          /\ \A s \in Requests : RequestInv(s)'
          /\ \A d \in Commands : CommandInv(d)'
        BY <2>1, <2>e, Records, CommandStep DEF Exit
    <3> QED
        BY <2>1, <2>e, <3>1, <1>t DEF BaseInv, TypeOK
  <2>2. CASE BootstrapFirstAdmin(c)
    <3>1. PICK name \in Names : cmd' = [cmd EXCEPT ![c] = [NoCommand EXCEPT !.at = "recount", !.name = name]]
        BY <2>2 DEF BootstrapFirstAdmin
    <3> DEFINE q == [NoCommand EXCEPT !.at = "recount", !.name = name]
    <3>2. q \in Command /\ q.at = "recount" /\ q.name = name
        BY Records DEF NoCommand
    <3>3. cmd' = [cmd EXCEPT ![c] = q]
        BY <3>1
    <3> HIDE DEF q
    <3>4. /\ req' \in [Requests -> Request] /\ cmd' \in [Commands -> Command]
          /\ LocalIsLocal' /\ SpentKeyStaysGone' /\ (keys \cup spentKeys \subseteq drawnKeys)'
          /\ \A s \in Requests : RequestInv(s)'
          /\ \A d \in Commands : CommandInv(d)'
        BY <2>1, <3>2, <3>3, CommandStep
    <3> QED
        BY <2>1, <2>2, <3>4, <1>t DEF BootstrapFirstAdmin, table, past, BaseInv, TypeOK
  <2>3. CASE CreateFirstAdmin(c)
    <3> DEFINE q == [cmd[c] EXCEPT !.at = "create"]
    <3>1. UNCHANGED <<users, lastId, dirs>> /\ dirs \subseteq Ids
        BY <2>3, <1>t DEF CreateFirstAdmin, table, past, TypeOK
    <3>2. Exit(c) \/ cmd' = [cmd EXCEPT ![c] = q]
        BY <2>3, <1>t DEF CreateFirstAdmin, TypeOK
    <3>3. q \in Command /\ q.at = "create" /\ q.name = cmd[c].name
        BY <1>c, Records, Moves
    <3>4. cmd[c].name \in Names
        BY <2>3, <2>n DEF CreateFirstAdmin
    <3> HIDE DEF q
    <3>5. CASE cmd' = [cmd EXCEPT ![c] = q]
      <4>1. /\ req' \in [Requests -> Request] /\ cmd' \in [Commands -> Command]
            /\ LocalIsLocal' /\ SpentKeyStaysGone' /\ (keys \cup spentKeys \subseteq drawnKeys)'
            /\ \A s \in Requests : RequestInv(s)'
            /\ \A d \in Commands : CommandInv(d)'
          BY <2>1, <3>3, <3>4, <3>5, CommandStep
      <4>2. TypeOK'
          BY <2>1, <3>1, <4>1, <1>t DEF TypeOK
      <4> QED
          BY <4>1, <4>2 DEF BaseInv
    <3> QED
        BY <2>e, <3>1, <3>2, <3>5
  <2>4. CASE BootstrapCreate(c)
    <3>1. CASE /\ CreateUser(cmd[c].name)
               /\ cmd' = [cmd EXCEPT ![c].at = "mkdir", ![c].id = lastId + 1]
      <4> DEFINE q == [cmd[c] EXCEPT !.at = "mkdir", !.id = lastId + 1]
      <4>1. cmd[c].name \in Names /\ UNCHANGED dirs
          BY <2>4, <2>n DEF BootstrapCreate
      <4>2. users' \subseteq UserRow /\ lastId' \in 0..MaxAccounts /\ lastId + 1 \in Ids
          BY <3>1, <4>1, <1>t, Insert DEF TypeOK
      <4>a. \A id \in Ids :
              LET p == [cmd[c] EXCEPT !.at = "mkdir", !.id = id] IN
              p \in Command /\ p.at = "mkdir" /\ p.id = id /\ p.name = cmd[c].name
          BY <1>c DEF Command
      <4>3. q \in Command /\ q.at = "mkdir" /\ q.id = lastId + 1 /\ q.name = cmd[c].name
          BY <4>a, <4>2
      <4>4. cmd' = [cmd EXCEPT ![c] = q]
          BY <3>1, <1>t DEF TypeOK
      <4>5. lastId + 1 # 0
          BY <4>2 DEF Ids
      <4> HIDE DEF q
      <4>6. /\ req' \in [Requests -> Request] /\ cmd' \in [Commands -> Command]
            /\ LocalIsLocal' /\ SpentKeyStaysGone' /\ (keys \cup spentKeys \subseteq drawnKeys)'
            /\ \A s \in Requests : RequestInv(s)'
            /\ \A d \in Commands : CommandInv(d)'
          BY <2>1, <4>1, <4>3, <4>4, <4>5, CommandStep
      <4>8. TypeOK'
          BY <2>1, <4>1, <4>2, <4>6, <1>t DEF TypeOK
      <4> QED
          BY <4>6, <4>8 DEF BaseInv
    <3>2. CASE Exit(c) /\ UNCHANGED table
        BY <2>4, <2>e, <3>2, <1>t DEF BootstrapCreate, table, TypeOK
    <3> QED
        BY <2>4, <3>1, <3>2 DEF BootstrapCreate
  <2>5. CASE BootstrapMkDir(c)
      BY <2>5, <2>d, <2>e, <1>t DEF BootstrapMkDir, MkDir, table, past, TypeOK
  <2>6. CASE Abort(c)
      BY <2>6, <2>e, <1>t DEF Abort, table, past, TypeOK
  <2> QED
      BY <1>8, <2>2, <2>3, <2>4, <2>5, <2>6 DEF Bootstrap
<1>9. CASE DeleteUser \/ DeleteUserAll
  <2>1. /\ UNCHANGED <<lastId, dirs, keys, local, req, cmd, drawnKeys, spentKeys, registered, sharedKeys>>
        /\ users' \subseteq users
      BY <1>9 DEF DeleteUser, DeleteUserAll, past
  <2>2. TypeOK'
      BY <2>1, <1>t DEF TypeOK
  <2>3. LocalIsLocal' /\ SpentKeyStaysGone' /\ (keys \cup spentKeys \subseteq drawnKeys)'
      BY <2>1 DEF BaseInv, LocalIsLocal, SpentKeyStaysGone, Registering
  <2>4. (\A r \in Requests : RequestInv(r)') /\ (\A c \in Commands : CommandInv(c)')
      BY <2>1 DEF BaseInv, RequestInv, CommandInv, Registering
  <2> QED
      BY <2>2, <2>3, <2>4 DEF BaseInv
<1>10. CASE Restart
  <2>1. /\ UNCHANGED <<users, lastId, dirs, cmd, drawnKeys, spentKeys, registered, sharedKeys>>
        /\ keys' = {} /\ req' = [r \in Requests |-> Idle] /\ local' \in BOOLEAN
      BY <1>10 DEF Restart, table, past
  <2>2. \A r \in Requests : req'[r].at = "idle"
      BY <2>1, Records
  <2>3. req' \in [Requests -> Request]
      BY <2>1, Records
  <2>4. TypeOK'
      BY <2>1, <2>3, <1>t DEF TypeOK
  <2>5. LocalIsLocal' /\ SpentKeyStaysGone' /\ (keys \cup spentKeys \subseteq drawnKeys)'
      BY <2>1, <2>2, <1>k DEF LocalIsLocal, SpentKeyStaysGone, Registering
  <2>6. (\A r \in Requests : RequestInv(r)') /\ (\A c \in Commands : CommandInv(c)')
      BY <2>1, <2>2 DEF BaseInv, RequestInv, CommandInv, Registering
  <2> QED
      BY <2>4, <2>5, <2>6 DEF BaseInv
<1> QED
    BY <1>1, <1>2, <1>3, <1>4, <1>5, <1>6, <1>7, <1>8, <1>9, <1>10 DEF Next, Status, Register

-----------------------------------------------------------------------------
(* The keys.                                                               *)

\* A step that no registration takes part in keeps what is said of the keys.
LEMMA KeysUntouched ==
  ASSUME KeyInv, KeySharedOnlyInOverlap, UNCHANGED <<keys, req, drawnKeys, registered, sharedKeys>>
  PROVE  KeyInv' /\ KeySharedOnlyInOverlap'
<1>1. KeyInv'
    BY DEF KeyInv, Registering
<1>2. KeySharedOnlyInOverlap'
    BY DEF KeySharedOnlyInOverlap
<1> QED
    BY <1>1, <1>2

\* A request that returns without an insert, or issues a key that was never
\* drawn, keeps what is said of the keys; so does one that returns from
\* reg_finish, where it deletes its key.
LEMMA KeysReturn ==
  ASSUME BaseInv, KeyInv, KeySharedOnlyInOverlap, NEW r \in Requests,
         req' = [req EXCEPT ![r] = Idle], UNCHANGED <<registered, sharedKeys>>,
         drawnKeys \subseteq drawnKeys',
         keys' \cap drawnKeys \subseteq keys,
         req[r].at = "reg_finish" => req[r].key \notin keys'
  PROVE  KeyInv' /\ KeySharedOnlyInOverlap'
<1>1. req \in [Requests -> Request]
    BY DEF BaseInv, TypeOK
<1>2. req'[r] = Idle /\ Idle.at = "idle" /\ \A s \in Requests : s # r => req'[s] = req[s]
    BY <1>1, Records
<1>3. \A x \in registered' : x.key \in drawnKeys'
    BY DEF KeyInv
<1>4. \A s, t \in Requests :
        Registering(s)' /\ Registering(t)' /\ req'[s].key = req'[t].key =>
            s = t \/ req'[s].key \in sharedKeys'
  <2> SUFFICES ASSUME NEW s \in Requests, NEW t \in Requests, Registering(s)', Registering(t)',
                      req'[s].key = req'[t].key, s # t
               PROVE  req'[s].key \in sharedKeys'
      OBVIOUS
  <2>1. s # r /\ t # r
      BY <1>2 DEF Registering
  <2> QED
      BY <1>2, <2>1 DEF KeyInv, Registering
<1>5. ASSUME NEW x \in registered'
      PROVE  \/ x.key \notin keys'
             \/ x.key \in sharedKeys'
             \/ \E s \in Requests : req'[s].at = "reg_finish" /\ req'[s].key = x.key
  <2> SUFFICES ASSUME x.key \in keys', x.key \notin sharedKeys
               PROVE  \E s \in Requests : req'[s].at = "reg_finish" /\ req'[s].key = x.key
      OBVIOUS
  <2>1. x \in registered /\ x.key \in drawnKeys /\ x.key \in keys
      BY DEF KeyInv
  <2>2. PICK s \in Requests : req[s].at = "reg_finish" /\ req[s].key = x.key
      BY <2>1 DEF KeyInv
  <2>3. s # r
      BY <2>2
  <2> QED
      BY <1>2, <2>2, <2>3
<1>6. \A x \in registered', s \in Requests :
        req'[s].at \in {"reg_lookup", "reg_create"} /\ req'[s].key = x.key => x.key \in sharedKeys'
    BY <1>2 DEF KeyInv
<1>7. KeySharedOnlyInOverlap'
    BY DEF KeySharedOnlyInOverlap
<1> QED
    BY <1>3, <1>4, <1>5, <1>6, <1>7 DEF KeyInv

\* Every step keeps what is said of the keys.
LEMMA NextKeyInv ==
  ASSUME BaseInv, KeyInv, KeySharedOnlyInOverlap, [Next]_vars
  PROVE  KeyInv' /\ KeySharedOnlyInOverlap'
<1>t. req \in [Requests -> Request] /\ keys \subseteq drawnKeys
    BY DEF BaseInv, TypeOK
<1>1. CASE UNCHANGED vars
    BY <1>1, KeysUntouched DEF vars
<1>2. ASSUME NEW r \in Requests, GetUserStatus(r) PROVE KeyInv' /\ KeySharedOnlyInOverlap'
  <2>1. UNCHANGED <<keys, drawnKeys, registered, sharedKeys>> /\ req[r].at = "idle"
      BY <1>2 DEF GetUserStatus, past
  <2>2. \A q \in Request : [q EXCEPT !.at = "status_issue"].at = "status_issue"
      BY Moves
  <2>3. req'[r].at = "status_issue" /\ \A s \in Requests : s # r => req'[s] = req[s]
      BY <1>2, <1>t, <2>2 DEF GetUserStatus
  <2>4. \A s \in Requests : Registering(s)' => s # r /\ Registering(s)
      BY <2>3 DEF Registering
  <2>5. \A s \in Requests : req[s].at = "reg_finish" => s # r
      BY <2>1
  <2>6. KeySharedOnlyInOverlap'
      BY <2>1 DEF KeySharedOnlyInOverlap
  <2>7. \A x \in registered' : x.key \in drawnKeys'
      BY <2>1 DEF KeyInv
  <2>8. \A s, t \in Requests :
          Registering(s)' /\ Registering(t)' /\ req'[s].key = req'[t].key =>
              s = t \/ req'[s].key \in sharedKeys'
      BY <2>1, <2>3, <2>4 DEF KeyInv
  <2>9. \A x \in registered' :
          \/ x.key \notin keys'
          \/ x.key \in sharedKeys'
          \/ \E s \in Requests : req'[s].at = "reg_finish" /\ req'[s].key = x.key
      BY <2>1, <2>3, <2>5 DEF KeyInv
  <2>10. \A x \in registered', s \in Requests :
          req'[s].at \in {"reg_lookup", "reg_create"} /\ req'[s].key = x.key => x.key \in sharedKeys'
      BY <2>1, <2>3 DEF KeyInv
  <2> QED
      BY <2>6, <2>7, <2>8, <2>9, <2>10 DEF KeyInv
<1>3. ASSUME NEW r \in Requests, IssueKey(r) PROVE KeyInv' /\ KeySharedOnlyInOverlap'
  <2>1. req' = [req EXCEPT ![r] = Idle] /\ UNCHANGED <<registered, sharedKeys>> /\ req[r].at # "reg_finish"
      BY <1>3 DEF IssueKey, Return
  <2>2. drawnKeys \subseteq drawnKeys' /\ keys' \cap drawnKeys \subseteq keys
      BY <1>3 DEF IssueKey
  <2> QED
      BY <2>1, <2>2, KeysReturn
<1>4. ASSUME NEW r \in Requests, PostUserRegister(r) PROVE KeyInv' /\ KeySharedOnlyInOverlap'
  <2>1. PICK key \in keys, name \in Names :
            /\ req' = [req EXCEPT ![r] = [Idle EXCEPT !.at = "reg_lookup", !.key = key, !.name = name]]
            /\ sharedKeys' = sharedKeys \cup {k \in {key} : \E s \in Requests : Holds(s, k)}
      BY <1>4 DEF PostUserRegister
  <2>2. UNCHANGED <<keys, drawnKeys, registered>> /\ req[r].at = "idle"
      BY <1>4 DEF PostUserRegister
  <2>3. /\ req'[r].at = "reg_lookup" /\ req'[r].key = key
        /\ \A s \in Requests : s # r => req'[s] = req[s]
      BY <2>1, <1>t DEF Idle
  <2>4. sharedKeys \subseteq sharedKeys'
      BY <2>1
  <2>5. \A s \in Requests : Holds(s, key) => key \in sharedKeys'
      BY <2>1
  <2>6. KeySharedOnlyInOverlap'
      BY <2>2, <2>4 DEF KeySharedOnlyInOverlap
  <2>7. \A x \in registered' : x.key \in drawnKeys'
      BY <2>2 DEF KeyInv
  <2>8. ASSUME NEW s \in Requests, NEW t \in Requests, Registering(s)', Registering(t)',
               req'[s].key = req'[t].key, s # t
        PROVE  req'[s].key \in sharedKeys'
    <3>1. CASE s = r
        BY <3>1, <2>3, <2>5, <2>8 DEF Holds, Registering
    <3>2. CASE t = r
        BY <3>2, <2>3, <2>5, <2>8 DEF Holds, Registering
    <3>3. CASE s # r /\ t # r
        BY <3>3, <2>3, <2>4, <2>8 DEF KeyInv, Registering
    <3> QED
        BY <3>1, <3>2, <3>3
  <2>9. \A x \in registered' :
          \/ x.key \notin keys'
          \/ x.key \in sharedKeys'
          \/ \E s \in Requests : req'[s].at = "reg_finish" /\ req'[s].key = x.key
    <3> SUFFICES ASSUME NEW x \in registered, x.key \in keys, x.key \notin sharedKeys
                 PROVE  \E s \in Requests : req'[s].at = "reg_finish" /\ req'[s].key = x.key
        BY <2>2, <2>4
    <3>1. PICK s \in Requests : req[s].at = "reg_finish" /\ req[s].key = x.key
        BY DEF KeyInv
    <3>2. s # r
        BY <3>1, <2>2
    <3> QED
        BY <3>1, <3>2, <2>3
  <2>10. ASSUME NEW x \in registered', NEW s \in Requests,
                req'[s].at \in {"reg_lookup", "reg_create"}, req'[s].key = x.key
         PROVE  x.key \in sharedKeys'
    <3>1. x \in registered
        BY <2>2
    <3>2. CASE s # r
        BY <3>1, <3>2, <2>3, <2>4, <2>10 DEF KeyInv
    <3>3. CASE s = r
      <4>1. x.key = key /\ x.key \in keys
          BY <3>3, <2>3, <2>10
      <4>2. CASE x.key \in sharedKeys
          BY <4>2, <2>4
      <4>3. CASE x.key \notin sharedKeys
        <5>1. PICK t \in Requests : req[t].at = "reg_finish" /\ req[t].key = x.key
            BY <3>1, <4>1, <4>3 DEF KeyInv
        <5> QED
            BY <5>1, <4>1, <2>5 DEF Holds, Registering
      <4> QED
          BY <4>2, <4>3
    <3> QED
        BY <3>2, <3>3
  <2> QED
      BY <2>6, <2>7, <2>8, <2>9, <2>10 DEF KeyInv
<1>5. ASSUME NEW r \in Requests, RegisterLookup(r) PROVE KeyInv' /\ KeySharedOnlyInOverlap'
  <2>1. UNCHANGED <<keys, drawnKeys, registered, sharedKeys>> /\ req[r].at = "reg_lookup"
      BY <1>5 DEF RegisterLookup, past
  <2>2. CASE Return(r)
      BY <2>1, <2>2, KeysReturn DEF Return
  <2>3. CASE req' = [req EXCEPT ![r].at = "reg_create"]
    <3>1. \A q \in Request : [q EXCEPT !.at = "reg_create"].at = "reg_create"
                                /\ [q EXCEPT !.at = "reg_create"].key = q.key
        BY Moves
    <3>2. /\ req'[r].at = "reg_create" /\ \A s \in Requests : req'[s].key = req[s].key
          /\ \A s \in Requests : s # r => req'[s] = req[s]
        BY <2>3, <1>t, <3>1
    <3>3. /\ \A s \in Requests : Registering(s)' => Registering(s)
          /\ \A s \in Requests : req[s].at = "reg_finish" => req'[s].at = "reg_finish"
          /\ \A s \in Requests : req'[s].at \in {"reg_lookup", "reg_create"} =>
                req[s].at \in {"reg_lookup", "reg_create"}
        BY <2>1, <3>2 DEF Registering
    <3>4. KeySharedOnlyInOverlap'
        BY <2>1 DEF KeySharedOnlyInOverlap
    <3>5. \A x \in registered' : x.key \in drawnKeys'
        BY <2>1 DEF KeyInv
    <3>6. \A s, t \in Requests :
            Registering(s)' /\ Registering(t)' /\ req'[s].key = req'[t].key =>
                s = t \/ req'[s].key \in sharedKeys'
        BY <2>1, <3>2, <3>3 DEF KeyInv
    <3>7. \A x \in registered' :
            \/ x.key \notin keys'
            \/ x.key \in sharedKeys'
            \/ \E s \in Requests : req'[s].at = "reg_finish" /\ req'[s].key = x.key
        BY <2>1, <3>2, <3>3 DEF KeyInv
    <3>8. \A x \in registered', s \in Requests :
            req'[s].at \in {"reg_lookup", "reg_create"} /\ req'[s].key = x.key => x.key \in sharedKeys'
        BY <2>1, <3>2, <3>3 DEF KeyInv
    <3> QED
        BY <3>4, <3>5, <3>6, <3>7, <3>8 DEF KeyInv
  <2> QED
      BY <1>5, <2>2, <2>3 DEF RegisterLookup
<1>6. ASSUME NEW r \in Requests, RegisterCreate(r) PROVE KeyInv' /\ KeySharedOnlyInOverlap'
  <2>1. UNCHANGED <<keys, drawnKeys, sharedKeys>> /\ req[r].at = "reg_create" /\ Registering(r)
      BY <1>6 DEF RegisterCreate, Registering
  <2>2. CASE Return(r) /\ UNCHANGED <<table, registered>>
      BY <2>1, <2>2, KeysReturn DEF Return
  <2>3. CASE /\ req' = [req EXCEPT ![r].at = "reg_finish", ![r].id = lastId + 1]
             /\ registered' = registered \cup {[key |-> req[r].key, id |-> lastId + 1]}
    <3> DEFINE y == [key |-> req[r].key, id |-> lastId + 1]
    <3>1. \A id : \A q \in Request : LET p == [q EXCEPT !.at = "reg_finish", !.id = id] IN
            p.at = "reg_finish" /\ p.key = q.key
        BY DEF Request
    <3>2. /\ req'[r].at = "reg_finish" /\ \A s \in Requests : req'[s].key = req[s].key
          /\ \A s \in Requests : s # r => req'[s] = req[s]
        BY <2>3, <1>t, <3>1
    <3>3. /\ \A s \in Requests : Registering(s)' => Registering(s)
          /\ \A s \in Requests : req[s].at = "reg_finish" => req'[s].at = "reg_finish"
          /\ \A s \in Requests : req'[s].at \in {"reg_lookup", "reg_create"} =>
                s # r /\ req[s].at \in {"reg_lookup", "reg_create"}
        BY <2>1, <3>2 DEF Registering
    <3>4. y.key = req[r].key /\ registered' = registered \cup {y}
        BY <2>3
    <3>5. y.key \in drawnKeys
        BY <2>1, <3>4 DEF BaseInv, RequestInv
    <3>6. \A x \in registered : x.key = y.key => x.key \in sharedKeys
        BY <2>1, <3>4 DEF KeyInv
    <3> HIDE DEF y
    <3>7. KeySharedOnlyInOverlap'
        BY <2>1, <3>4, <3>6 DEF KeySharedOnlyInOverlap
    <3>8. \A x \in registered' : x.key \in drawnKeys'
        BY <2>1, <3>4, <3>5 DEF KeyInv
    <3>9. \A s, t \in Requests :
            Registering(s)' /\ Registering(t)' /\ req'[s].key = req'[t].key =>
                s = t \/ req'[s].key \in sharedKeys'
        BY <2>1, <3>2, <3>3 DEF KeyInv
    <3>10. ASSUME NEW x \in registered'
           PROVE  \/ x.key \notin keys'
                  \/ x.key \in sharedKeys'
                  \/ \E s \in Requests : req'[s].at = "reg_finish" /\ req'[s].key = x.key
      <4>1. CASE x = y
          BY <4>1, <3>2, <3>4
      <4>2. CASE x \in registered
          BY <4>2, <2>1, <3>2, <3>3 DEF KeyInv
      <4> QED
          BY <4>1, <4>2, <3>4
    <3>11. ASSUME NEW x \in registered', NEW s \in Requests,
                  req'[s].at \in {"reg_lookup", "reg_create"}, req'[s].key = x.key
           PROVE  x.key \in sharedKeys'
      <4>1. s # r /\ Registering(s) /\ req[s].key = x.key /\ req[s].at \in {"reg_lookup", "reg_create"}
          BY <3>2, <3>3, <3>11 DEF Registering
      <4>2. CASE x = y
          BY <4>1, <4>2, <2>1, <3>4 DEF KeyInv
      <4>3. CASE x \in registered
          BY <4>1, <4>3, <2>1 DEF KeyInv
      <4> QED
          BY <4>2, <4>3, <3>4
    <3> QED
        BY <3>7, <3>8, <3>9, <3>10, <3>11 DEF KeyInv
  <2> QED
      BY <1>6, <2>2, <2>3 DEF RegisterCreate
<1>7. ASSUME NEW r \in Requests, RegisterFinish(r) PROVE KeyInv' /\ KeySharedOnlyInOverlap'
  <2>1. /\ req' = [req EXCEPT ![r] = Idle] /\ UNCHANGED <<registered, sharedKeys, drawnKeys>>
        /\ keys' = keys \ {req[r].key}
      BY <1>7 DEF RegisterFinish, Return
  <2> QED
      BY <2>1, KeysReturn
<1>8. ASSUME NEW c \in Commands, Bootstrap(c) PROVE KeyInv' /\ KeySharedOnlyInOverlap'
  <2>1. UNCHANGED <<keys, req, drawnKeys, registered, sharedKeys>>
      BY <1>8 DEF Bootstrap, BootstrapFirstAdmin, CreateFirstAdmin, BootstrapCreate, BootstrapMkDir,
                  Abort, table, past
  <2> QED
      BY <2>1, KeysUntouched
<1>9. CASE DeleteUser \/ DeleteUserAll
  <2>1. UNCHANGED <<keys, req, drawnKeys, registered, sharedKeys>>
      BY <1>9 DEF DeleteUser, DeleteUserAll, past
  <2> QED
      BY <2>1, KeysUntouched
<1>10. CASE Restart
  <2>1. UNCHANGED <<drawnKeys, registered, sharedKeys>> /\ keys' = {} /\ req' = [r \in Requests |-> Idle]
      BY <1>10 DEF Restart, past
  <2>2. \A r \in Requests : req'[r].at = "idle"
      BY <2>1, Records
  <2>3. KeyInv'
      BY <2>1, <2>2 DEF KeyInv, Registering
  <2>4. KeySharedOnlyInOverlap'
      BY <2>1 DEF KeySharedOnlyInOverlap
  <2> QED
      BY <2>3, <2>4
<1> QED
    BY <1>1, <1>2, <1>3, <1>4, <1>5, <1>6, <1>7, <1>8, <1>9, <1>10 DEF Next, Status, Register

\* The initial state satisfies the invariant.
LEMMA InitInv == Init => Inv
<1> SUFFICES ASSUME Init PROVE Inv
    OBVIOUS
<1>1. \A r \in Requests : req[r].at = "idle"
    BY Records DEF Init
<1>2. KeyInv /\ KeySharedOnlyInOverlap
    BY <1>1 DEF Init, KeyInv, KeySharedOnlyInOverlap, Registering
<1> QED
    BY <1>2, InitBaseInv DEF Inv

\* Every step keeps the invariant.
LEMMA NextInv == Inv /\ [Next]_vars => Inv'
<1> SUFFICES ASSUME Inv, [Next]_vars PROVE Inv'
    OBVIOUS
<1>1. BaseInv /\ KeyInv /\ KeySharedOnlyInOverlap
    BY DEF Inv
<1>2. BaseInv'
    BY <1>1, NextBaseInv
<1>3. KeyInv' /\ KeySharedOnlyInOverlap'
    BY <1>1, NextKeyInv
<1> QED
    BY <1>2, <1>3 DEF Inv

\* The invariant holds of every behaviour.
THEOREM InvHolds == Spec => []Inv
    BY InitInv, NextInv, PTL DEF Spec

\* The variables keep their types.
THEOREM TypeCorrect == Spec => []TypeOK
<1>1. Inv => TypeOK
    BY DEF Inv, BaseInv
<1> QED
    BY <1>1, InvHolds, PTL

\* In local mode there is never a register key, nor a registration under way,
\* however many status and register requests overlap and whatever was handed out
\* before the restart (user.go:44-48, 820-832).
THEOREM LocalIsLocalHolds == Spec => []LocalIsLocal
<1>1. Inv => LocalIsLocal
    BY DEF Inv, BaseInv
<1> QED
    BY <1>1, InvHolds, PTL

\* The key of a registration that answered success never opens another one
\* (user.go:85).
THEOREM SpentKeyStaysGoneHolds == Spec => []SpentKeyStaysGone
<1>1. Inv => SpentKeyStaysGone
    BY DEF Inv, BaseInv
<1> QED
    BY <1>1, InvHolds, PTL

\* Only registrations that overlap make two accounts from one key, for any number
\* of requests (user.go:56-59, 85).
THEOREM KeySharedOnlyInOverlapHolds == Spec => []KeySharedOnlyInOverlap
<1>1. Inv => KeySharedOnlyInOverlap
    BY DEF Inv
<1> QED
    BY <1>1, InvHolds, PTL

=============================================================================
