------------------------------ MODULE Profile ------------------------------
(***************************************************************************)
(* The profile of an account: PUT /v1/users/current and PUT                *)
(* /v1/users/avatar read the row, change what they hold and write it with  *)
(* UpdateUser, beside sign-ins, two-factor requests and deletions          *)
(* (route/v1/user.go, service/user.go).  A step is one statement with the  *)
(* local code around it, or the calls on the avatar file.                  *)
(*                                                                         *)
(* The columns: the name, which must be new; nickname stands for email,    *)
(* role, description and nickname, which are treated alike; avatar; and,   *)
(* of the five columns UpdateUser leaves alone, the two that a handler can *)
(* hold a value of: the password, which a body may name, and totp_enabled, *)
(* which a body may name and GetUserInfoById reads.                        *)
(***************************************************************************)
EXTENDS Naturals

CONSTANTS
    Requests,       \* requests the service handles at the same time
    Ids,            \* ids of accounts
    Names,          \* user names
    Texts,          \* nicknames and paths of avatars
    Passwords,      \* hashes in the password column, and passwords in a body
    Empty,          \* an empty column, or one a body does not name
    NoRow           \* no account has the id

ASSUME IdsAssumption == 0 \notin Ids
ASSUME EmptyAssumption == Empty \notin Names \cup Texts \cup Passwords

VARIABLES
    users,          \* o_users
    avatars,        \* ids with a file avatar.png
    req             \* requests in flight

vars == <<users, avatars, req>>

Row ==
    [ name        : Names,
      nickname    : Texts \cup {Empty},
      avatar      : Texts \cup {Empty},
      password    : Passwords,
      totpEnabled : BOOLEAN ]

ASSUME NoRowAssumption == NoRow \notin Row

\* What a handler hands to UpdateUser; the id 0 is that of no row.
Model ==
    [ id          : Ids \cup {0},
      name        : Names \cup {Empty},
      nickname    : Texts \cup {Empty},
      avatar      : Texts \cup {Empty},
      password    : Passwords \cup {Empty},
      totpEnabled : BOOLEAN ]

Zero == [id |-> 0, name |-> Empty, nickname |-> Empty, avatar |-> Empty,
         password |-> Empty, totpEnabled |-> FALSE]

Request == [at : {"idle", "info_lookup", "info_write", "avatar_file", "avatar_write"}, user : Model]

Idle == [at |-> "idle", user |-> Zero]

Return(r) == req' = [req EXCEPT ![r] = Idle]

Goto(r, at, user) == req' = [req EXCEPT ![r] = [at |-> at, user |-> user]]

-----------------------------------------------------------------------------
(* The statements.                                                         *)

Accounts == {id \in Ids : users[id] # NoRow}

\* The columns GetUserInfoById selects.
GetUserInfoById(id) ==
    [ id |-> id, name |-> users[id].name, nickname |-> users[id].nickname,
      avatar |-> users[id].avatar, password |-> Empty, totpEnabled |-> users[id].totpEnabled ]

NameTaken(ok, name) == ok /\ \E id \in Accounts : users[id].name = name

\* A value that is given, or else what is there.
Given(value, otherwise) == IF value = Empty THEN otherwise ELSE value

\* Updates without its Omit.
Bug_Updates(row, m) ==
    [ name        |-> Given(m.name, row.name),
      nickname    |-> Given(m.nickname, row.nickname),
      avatar      |-> Given(m.avatar, row.avatar),
      password    |-> Given(m.password, row.password),
      totpEnabled |-> row.totpEnabled \/ m.totpEnabled ]

\* What Updates makes of a row: the columns that are not empty, but for the ones
\* that Omit names.
Updates(row, m) ==
    [row EXCEPT !.name     = Given(m.name, @),
                !.nickname = Given(m.nickname, @),
                !.avatar   = Given(m.avatar, @)]

\* Save for Updates: empty columns are written too, and a row that is gone is
\* inserted.
Bug_UpdateUser(ok, m) ==
    users' = IF ok /\ m.id \in Ids
             THEN [users EXCEPT ![m.id] =
                      [name |-> m.name, nickname |-> m.nickname, avatar |-> m.avatar,
                       password |-> m.password, totpEnabled |-> m.totpEnabled]]
             ELSE users

\* The row with the id of the model is updated; without an id gorm refuses the
\* statement.  No error is looked at.
UpdateUser(ok, m) ==
    users' = IF ok /\ m.id \in Accounts THEN [users EXCEPT ![m.id] = Updates(@, m)] ELSE users

-----------------------------------------------------------------------------
(* PUT /v1/users/current.  The body is bound into the model, its id        *)
(* included; what it leaves empty is filled in from the row of the session *)
(* but for the id, the name and the columns UpdateUser omits.              *)

PutUserInfo(r) ==
    /\ req[r].at = "idle"
    /\ \E id \in Accounts, body \in Model :
        LET user == GetUserInfoById(id)
            new  == [body EXCEPT !.nickname = Given(@, user.nickname),
                                 !.avatar   = Given(@, user.avatar)] IN
        Goto(r, IF body.name = Empty THEN "info_write" ELSE "info_lookup", new)
    /\ UNCHANGED <<users, avatars>>

InfoLookup(r) ==
    /\ req[r].at = "info_lookup"
    /\ \E ok \in BOOLEAN :
        \/ NameTaken(ok, req[r].user.name) /\ Return(r)
        \/ ~NameTaken(ok, req[r].user.name) /\ Goto(r, "info_write", req[r].user)
    /\ UNCHANGED <<users, avatars>>

InfoWrite(r) ==
    /\ req[r].at = "info_write"
    /\ \E ok \in BOOLEAN : UpdateUser(ok, req[r].user)
    /\ Return(r)
    /\ UNCHANGED avatars

-----------------------------------------------------------------------------
(* PUT /v1/users/avatar: the row is read and the image decoded, ...        *)

PutUserAvatar(r) ==
    /\ req[r].at = "idle"
    /\ \E id \in Accounts : Goto(r, "avatar_file", GetUserInfoById(id))
    /\ UNCHANGED <<users, avatars>>

\* ... the file is removed and created, which may fail, the row being written
\* all the same, ...
AvatarFile(r) ==
    /\ req[r].at = "avatar_file"
    /\ avatars' \in {avatars \cup {req[r].user.id}, avatars \ {req[r].user.id}}
    /\ \E path \in Texts : Goto(r, "avatar_write", [req[r].user EXCEPT !.avatar = path])
    /\ UNCHANGED users

\* ... and the row is written, every column as it was read.
AvatarWrite(r) ==
    /\ req[r].at = "avatar_write"
    /\ \E ok \in BOOLEAN : UpdateUser(ok, req[r].user)
    /\ Return(r)
    /\ UNCHANGED avatars

\* An image that cannot be decoded ends the service, which systemd starts again.
AvatarFatal(r) ==
    /\ req[r].at = "idle" /\ Accounts # {}
    /\ req' = [s \in Requests |-> Idle]
    /\ UNCHANGED <<users, avatars>>

-----------------------------------------------------------------------------
(* What other handlers do to the row (modules TwoFactor and Registration). *)

\* A sign-in, a password change, a two-factor request or -ru.
ChangeCredentials(id) ==
    /\ id \in Accounts
    /\ \E password \in Passwords, totpEnabled \in BOOLEAN :
        users' = [users EXCEPT ![id].password = password, ![id].totpEnabled = totpEnabled]
    /\ UNCHANGED <<avatars, req>>

\* A registration; the id may be one that an account had before.
CreateUser(id) ==
    /\ id \notin Accounts
    /\ \E name \in Names, password \in Passwords :
        users' = [users EXCEPT ![id] =
                     [name |-> name, nickname |-> Empty, avatar |-> Empty,
                      password |-> password, totpEnabled |-> FALSE]]
    /\ UNCHANGED <<avatars, req>>

DeleteUserById(id) ==
    /\ users' = [users EXCEPT ![id] = NoRow]
    /\ UNCHANGED <<avatars, req>>

DeleteAllUser ==
    /\ users' = [id \in Ids |-> NoRow]
    /\ UNCHANGED <<avatars, req>>

Init ==
    /\ users = [id \in Ids |-> NoRow]
    /\ avatars = {}
    /\ req = [r \in Requests |-> Idle]

Info(r)   == PutUserInfo(r) \/ InfoLookup(r) \/ InfoWrite(r)
Avatar(r) == PutUserAvatar(r) \/ AvatarFile(r) \/ AvatarWrite(r) \/ AvatarFatal(r)

Next ==
    \/ \E r \in Requests : Info(r) \/ Avatar(r)
    \/ \E id \in Ids : ChangeCredentials(id) \/ CreateUser(id) \/ DeleteUserById(id)
    \/ DeleteAllUser

Spec == Init /\ [][Next]_vars

-----------------------------------------------------------------------------
(* Properties.                                                             *)

\* The variables have the types the code gives them: no write leaves an account
\* without a name or a password (service/user.go:95-97).
TypeOK ==
    /\ users \in [Ids -> Row \cup {NoRow}]
    /\ avatars \subseteq Ids
    /\ req \in [Requests -> Request]

\* A profile request, whatever its body names and however old the row it read,
\* changes neither the password nor the two-factor state of any account: an avatar
\* uploaded across a /2fa/disable does not turn it on again
\* (service/user.go:95-97, user.go:261, 344).
ProfileKeepsCredentials ==
    [][ req' # req =>
            \A id \in Accounts : /\ users'[id].password = users[id].password
                                 /\ users'[id].totpEnabled = users[id].totpEnabled ]_vars

\* A profile request that read an account before it was deleted does not bring it
\* back, and none removes an account (service/user.go:95-97).
DeletedStaysGone ==
    [][ req' # req => \A id \in Ids : users[id] = NoRow <=> users'[id] = NoRow ]_vars

\* What the type of avatars rests on: an upload holds the id of an account it read.
Inv == TypeOK /\ \A r \in Requests : req[r].at = "avatar_file" => req[r].user.id \in Ids

=============================================================================
