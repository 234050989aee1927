---------------------------- MODULE Registration ----------------------------
(***************************************************************************)
(* How accounts come to exist: GET /v1/users/status hands out a register   *)
(* key while the table is empty, POST /v1/users/register takes one, and    *)
(* the -bootstrap-admin command, a process of its own, creates the first   *)
(* administrator on the machine (route/v1/user.go, route/v1/first_admin.go)*)
(*                                                                         *)
(* A step is one statement, or one access to the map UserRegisterHash,     *)
(* with the local code around it.  The map is not locked: when two         *)
(* handlers meet in it the Go runtime may end the process, which is        *)
(* Restart.  A statement may fail (Outcomes): ok says that it did not.  A  *)
(* request refused without a change is a step that is not taken.           *)
(***************************************************************************)
EXTENDS Naturals

CONSTANTS
    Requests,       \* requests the service handles at the same time
    Commands,       \* -bootstrap-admin processes
    Keys,           \* register keys uuid.NewV4 can return
    Names,          \* user names
    NoKey, NoName,  \* a request or a command that holds none
    Outcomes,       \* of a statement: TRUE, and FALSE where it may fail
    MaxAccounts     \* bound: rows inserted in a behaviour

ASSUME MaxAccountsAssumption == MaxAccounts \in Nat
ASSUME NoKeyAssumption == NoKey \notin Keys
ASSUME OutcomesAssumption == Outcomes \subseteq BOOLEAN

VARIABLES
    users,          \* o_users: a row is an id and a name
    lastId,         \* rows inserted so far; an id only tells rows apart
    dirs,           \* ids with a directory under UserDataPath
    keys,           \* UserRegisterHash
    local,          \* FirstAdminLocal(), read from the configuration at start
    req,            \* requests in flight
    cmd,            \* commands
    \* What happened, for the properties:
    drawnKeys,      \* keys handed out
    spentKeys,      \* keys of registrations that answered success
    registered,     \* rows POST /v1/users/register inserted, with the key
    sharedKeys      \* keys two registrations under way held at once

table == <<users, lastId>>
past  == <<drawnKeys, spentKeys, registered, sharedKeys>>
vars  == <<users, lastId, dirs, keys, local, req, cmd, drawnKeys, spentKeys, registered, sharedKeys>>

Ids == 1..MaxAccounts

UserRow == [id : Ids, name : Names]

Request ==
    [ at   : {"idle", "status_issue", "reg_lookup", "reg_create", "reg_finish"},
      key  : Keys \cup {NoKey},
      name : Names \cup {NoName},
      id   : Ids \cup {0} ]

Idle == [at |-> "idle", key |-> NoKey, name |-> NoName, id |-> 0]

Command ==
    [ at   : {"idle", "recount", "create", "mkdir"},
      name : Names \cup {NoName},
      id   : Ids \cup {0} ]

NoCommand == [at |-> "idle", name |-> NoName, id |-> 0]

Return(r) == req' = [req EXCEPT ![r] = Idle]

Exit(c) == cmd' = [cmd EXCEPT ![c] = NoCommand]

-----------------------------------------------------------------------------
(* The statements.                                                         *)

\* GetUserCount() > 0.  The error of the statement is not looked at: a count
\* that failed is a count of zero.
AnyUser(ok) == ok /\ users # {}

\* GetUserInfoByUserName(name).Id > 0, with the error ignored likewise.
NameTaken(ok, name) == ok /\ \E u \in users : u.name = name

\* Neither the schema nor the statement asks for a name that is new.
CreateUser(name) ==
    /\ lastId < MaxAccounts
    /\ lastId' = lastId + 1
    /\ users' = users \cup {[id |-> lastId + 1, name |-> name]}

\* The directory of the model before the insert, whose id is 0.
Bug_MkDir(id) == dirs' \in {dirs, dirs \cup {0}}

\* file.MkDir, whose error is ignored.
MkDir(id) == dirs' \in {dirs, dirs \cup {id}}

-----------------------------------------------------------------------------
(* GET /v1/users/status: the count ...                                     *)

\* A status that asks for FirstAdmin only to name it in the answer.
Bug_GetUserStatus(r) ==
    /\ req[r].at = "idle"
    /\ \E ok \in Outcomes : ~AnyUser(ok)
    /\ req' = [req EXCEPT ![r].at = "status_issue"]
    /\ UNCHANGED <<table, dirs, keys, local, cmd, past>>

GetUserStatus(r) ==
    /\ req[r].at = "idle"
    /\ \E ok \in Outcomes : ~AnyUser(ok)
    /\ ~local
    /\ req' = [req EXCEPT ![r].at = "status_issue"]
    /\ UNCHANGED <<table, dirs, keys, local, cmd, past>>

\* ... and the key.
IssueKey(r) ==
    /\ req[r].at = "status_issue"
    /\ \E key \in Keys \ drawnKeys :
        /\ keys' = keys \cup {key}
        /\ drawnKeys' = drawnKeys \cup {key}
    /\ Return(r)
    /\ UNCHANGED <<table, dirs, local, cmd, spentKeys, registered, sharedKeys>>

-----------------------------------------------------------------------------
(* POST /v1/users/register: the key is looked up, ...                      *)

\* Handlers between the lookup of the key and its deletion.
Registering(r) == req[r].at \in {"reg_lookup", "reg_create", "reg_finish"}

Holds(r, key) == Registering(r) /\ req[r].key = key

PostUserRegister(r) ==
    /\ req[r].at = "idle"
    /\ ~local
    /\ \E key \in keys, name \in Names :
        /\ req' = [req EXCEPT ![r] = [Idle EXCEPT !.at = "reg_lookup", !.key = key, !.name = name]]
        /\ sharedKeys' = sharedKeys \cup {k \in {key} : \E s \in Requests : Holds(s, k)}
    /\ UNCHANGED <<table, dirs, keys, local, cmd, drawnKeys, spentKeys, registered>>

\* ... the name is looked up, ...
RegisterLookup(r) ==
    /\ req[r].at = "reg_lookup"
    /\ \E ok \in Outcomes :
        \/ NameTaken(ok, req[r].name) /\ Return(r)
        \/ ~NameTaken(ok, req[r].name) /\ req' = [req EXCEPT ![r].at = "reg_create"]
    /\ UNCHANGED <<table, dirs, keys, local, cmd, past>>

\* ... the row is inserted ...
RegisterCreate(r) ==
    /\ req[r].at = "reg_create"
    /\ \/ /\ CreateUser(req[r].name)
          /\ req' = [req EXCEPT ![r].at = "reg_finish", ![r].id = lastId + 1]
          /\ registered' = registered \cup {[key |-> req[r].key, id |-> lastId + 1]}
       \/ FALSE \in Outcomes /\ Return(r) /\ UNCHANGED <<table, registered>>
    /\ UNCHANGED <<dirs, keys, local, cmd, drawnKeys, spentKeys, sharedKeys>>

\* A registration that leaves its key in the map.
Bug_RegisterFinish(r) ==
    /\ req[r].at = "reg_finish"
    /\ MkDir(req[r].id)
    /\ spentKeys' = spentKeys \cup {req[r].key}
    /\ Return(r)
    /\ UNCHANGED <<table, keys, local, cmd, drawnKeys, registered, sharedKeys>>

\* ... and its directory is made and the key deleted.
RegisterFinish(r) ==
    /\ req[r].at = "reg_finish"
    /\ MkDir(req[r].id)
    /\ keys' = keys \ {req[r].key}
    /\ spentKeys' = spentKeys \cup {req[r].key}
    /\ Return(r)
    /\ UNCHANGED <<table, local, cmd, drawnKeys, registered, sharedKeys>>

-----------------------------------------------------------------------------
(* -bootstrap-admin: a first count, before the credentials are read, ...   *)

BootstrapFirstAdmin(c) ==
    /\ cmd[c].at = "idle"
    /\ \E ok \in Outcomes : ~AnyUser(ok)
    /\ \E name \in Names : cmd' = [cmd EXCEPT ![c] = [NoCommand EXCEPT !.at = "recount", !.name = name]]
    /\ UNCHANGED <<table, dirs, keys, local, req, past>>

\* ... a second one, in CreateFirstAdmin, ...
CreateFirstAdmin(c) ==
    /\ cmd[c].at = "recount"
    /\ \E ok \in Outcomes :
        \/ AnyUser(ok) /\ Exit(c)
        \/ ~AnyUser(ok) /\ cmd' = [cmd EXCEPT ![c].at = "create"]
    /\ UNCHANGED <<table, dirs, keys, local, req, past>>

\* ... the row ...
BootstrapCreate(c) ==
    /\ cmd[c].at = "create"
    /\ \/ /\ CreateUser(cmd[c].name)
          /\ cmd' = [cmd EXCEPT ![c].at = "mkdir", ![c].id = lastId + 1]
       \/ FALSE \in Outcomes /\ Exit(c) /\ UNCHANGED table
    /\ UNCHANGED <<dirs, keys, local, req, past>>

\* ... and its directory.
BootstrapMkDir(c) ==
    /\ cmd[c].at = "mkdir"
    /\ MkDir(cmd[c].id)
    /\ Exit(c)
    /\ UNCHANGED <<table, keys, local, req, past>>

\* Bad credentials, a terminal as input, a command that is stopped.
Abort(c) ==
    /\ cmd[c].at # "idle"
    /\ Exit(c)
    /\ UNCHANGED <<table, dirs, keys, local, req, past>>

-----------------------------------------------------------------------------
(* DELETE /v1/users/:id and DELETE /v1/users.  The directories stay.       *)

DeleteUser ==
    /\ \E u \in users : users' = users \ {u}
    /\ UNCHANGED <<lastId, dirs, keys, local, req, cmd, past>>

DeleteUserAll ==
    /\ users' = {}
    /\ UNCHANGED <<lastId, dirs, keys, local, req, cmd, past>>

\* A service that keeps its register keys from one start to the next.
Bug_Restart ==
    /\ req' = [r \in Requests |-> Idle]
    /\ local' \in BOOLEAN
    /\ UNCHANGED <<table, dirs, keys, cmd, past>>

\* The service ends and starts, perhaps with another FirstAdmin: the map and
\* the requests in flight are gone.
Restart ==
    /\ keys' = {}
    /\ req' = [r \in Requests |-> Idle]
    /\ local' \in BOOLEAN
    /\ UNCHANGED <<table, dirs, cmd, past>>

Init ==
    /\ users = {} /\ lastId = 0 /\ dirs = {}
    /\ keys = {}
    /\ local \in BOOLEAN
    /\ req = [r \in Requests |-> Idle]
    /\ cmd = [c \in Commands |-> NoCommand]
    /\ drawnKeys = {} /\ spentKeys = {} /\ registered = {}
    /\ sharedKeys = {}

Status(r)    == GetUserStatus(r) \/ IssueKey(r)
Register(r)  == PostUserRegister(r) \/ RegisterLookup(r) \/ RegisterCreate(r) \/ RegisterFinish(r)
Bootstrap(c) == BootstrapFirstAdmin(c) \/ CreateFirstAdmin(c) \/ BootstrapCreate(c)
                    \/ BootstrapMkDir(c) \/ Abort(c)

Next ==
    \/ \E r \in Requests : Status(r) \/ Register(r)
    \/ \E c \in Commands : Bootstrap(c)
    \/ DeleteUser \/ DeleteUserAll \/ Restart

Spec == Init /\ [][Next]_vars

-----------------------------------------------------------------------------
(* Properties.                                                             *)

\* The variables have the types the code gives them.
TypeOK ==
    /\ users \subseteq UserRow
    /\ lastId \in 0..MaxAccounts
    /\ dirs \subseteq Ids
    /\ keys \subseteq Keys
    /\ local \in BOOLEAN
    /\ req \in [Requests -> Request]
    /\ cmd \in [Commands -> Command]
    /\ drawnKeys \subseteq Keys
    /\ spentKeys \subseteq Keys
    /\ registered \subseteq [key : Keys, id : Ids]
    /\ sharedKeys \subseteq Keys

\* While the service runs with FirstAdmin = local, no register key is in the map
\* and no registration is under way, whatever was handed out before the service
\* was restarted with that setting (first_admin.go:20-23, user.go:44-48, 820-832).
LocalIsLocal == local => keys = {} /\ \A r \in Requests : ~Registering(r)

\* Once a registration has answered success, its key opens no other: it is gone
\* from the map, and no status, register or restart that overlaps brings it back
\* (user.go:85).
SpentKeyStaysGone == keys \cap spentKeys = {}

\* Two accounts come from one key only where two registrations held it at the
\* same time: one request after the other spends it, whether the insert fails,
\* the account is deleted or a crash comes between the insert and the deletion of
\* the key (user.go:56-59, 85).
KeySharedOnlyInOverlap ==
    \A x, y \in registered : x.key = y.key => x.id = y.id \/ x.key \in sharedKeys

-----------------------------------------------------------------------------
(* The inductive invariant behind the properties.                          *)

RequestInv(r) ==
    /\ Registering(r) => req[r].key \in drawnKeys /\ req[r].name \in Names
    /\ req[r].at = "reg_finish" => req[r].id # 0
    /\ req[r].at = "status_issue" => ~local

CommandInv(c) ==
    /\ cmd[c].at # "idle" => cmd[c].name \in Names
    /\ cmd[c].at = "mkdir" => cmd[c].id # 0

\* A key that made an account, and that no two registrations shared, is out of
\* the map or still in the hands of the one that made it; no other can look it up
\* without sharing it.
KeyInv ==
    /\ \A x \in registered : x.key \in drawnKeys
    /\ \A r, s \in Requests :
        Registering(r) /\ Registering(s) /\ req[r].key = req[s].key =>
            r = s \/ req[r].key \in sharedKeys
    /\ \A x \in registered :
        \/ x.key \notin keys
        \/ x.key \in sharedKeys
        \/ \E r \in Requests : req[r].at = "reg_finish" /\ req[r].key = x.key
    /\ \A x \in registered, r \in Requests :
        req[r].at \in {"reg_lookup", "reg_create"} /\ req[r].key = x.key => x.key \in sharedKeys

BaseInv ==
    /\ TypeOK
    /\ LocalIsLocal
    /\ SpentKeyStaysGone
    /\ keys \cup spentKeys \subseteq drawnKeys
    /\ \A r \in Requests : RequestInv(r)
    /\ \A c \in Commands : CommandInv(c)

Inv == BaseInv /\ KeySharedOnlyInOverlap /\ KeyInv

=============================================================================
