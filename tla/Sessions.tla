------------------------------ MODULE Sessions ------------------------------
(***************************************************************************)
(* The keys tokens are signed with, and the tokens.  The signing key is a  *)
(* file under the database directory (service/user_key.go), read or made   *)
(* by every process that calls NewUserService: the service, and the -ru    *)
(* and -bootstrap-admin commands, which may run beside it.  The pre-auth   *)
(* key is made at every start and kept in memory (service/user.go).        *)
(*                                                                         *)
(* os.WriteFile truncates and then writes: two steps, between which the    *)
(* file holds no key.  A process may end anywhere.  A token that is        *)
(* refused, or has expired, is a step that is not taken.                   *)
(***************************************************************************)
EXTENDS Naturals

CONSTANTS
    Commands,       \* -ru and -bootstrap-admin processes
    Service,        \* the service
    KeyPairs,       \* what jwt.GenerateKeyPair can return
    NoKey,          \* no key
    Unreadable      \* what a file holds that is no key: nothing, or damaged text

ASSUME ServiceAssumption == Service \notin Commands
ASSUME KeyPairsAssumption == NoKey \notin KeyPairs /\ Unreadable \notin KeyPairs

VARIABLES
    keyFile,        \* the file at keyPath; NoKey when there is none
    proc,           \* the processes: where they are and the keys they hold
    drawnKeys,      \* key pairs generated
    \* What happened, for the properties:
    tokens,         \* tokens signed
    current,        \* the ones signed by the service since it last started
    contested       \* two processes were making the key file at the same time

vars == <<keyFile, proc, drawnKeys, tokens, current, contested>>

Procs == Commands \cup {Service}

Token == [issuer : {"access", "refresh", "2fa"}, key : KeyPairs]

Process ==
    [ at      : {"down", "create", "write", "up"},
      key     : KeyPairs \cup {NoKey},
      preAuth : KeyPairs \cup {NoKey} ]

Down == [at |-> "down", key |-> NoKey, preAuth |-> NoKey]

Making(p) == proc[p].at \in {"create", "write"}

-----------------------------------------------------------------------------
(* loadOrCreateKeyPair and NewUserService.                                 *)

\* A pre-auth key that is the signing key.
Bug_NewUserService(p, key) == proc' = [proc EXCEPT ![p] = [at |-> "up", key |-> key, preAuth |-> key]]
                              /\ UNCHANGED drawnKeys

\* The end of NewUserService: p signs with key, and with a pre-auth key made now.
NewUserService(p, key) ==
    \E fresh \in KeyPairs \ drawnKeys :
        /\ drawnKeys' = drawnKeys \cup {fresh}
        /\ proc' = [proc EXCEPT ![p] = [at |-> "up", key |-> key, preAuth |-> fresh]]

\* A start that makes a key without looking for one, as releases before the file did.
Bug_loadOrCreateKeyPair(p) ==
    /\ proc[p].at = "down"
    /\ \E key \in KeyPairs \ drawnKeys :
        /\ drawnKeys' = drawnKeys \cup {key}
        /\ proc' = [proc EXCEPT ![p] = [Down EXCEPT !.at = "create", !.key = key]]
    /\ contested' = (contested \/ \E q \in Procs \ {p} : Making(q))
    /\ UNCHANGED <<keyFile, tokens, current>>

\* The file is read: its key is taken, or one is generated.
loadOrCreateKeyPair(p) ==
    /\ proc[p].at = "down"
    /\ \/ keyFile \in KeyPairs /\ NewUserService(p, keyFile) /\ UNCHANGED contested
       \/ /\ keyFile \notin KeyPairs
          /\ \E key \in KeyPairs \ drawnKeys :
                /\ drawnKeys' = drawnKeys \cup {key}
                /\ proc' = [proc EXCEPT ![p] = [Down EXCEPT !.at = "create", !.key = key]]
          /\ contested' = (contested \/ \E q \in Procs \ {p} : Making(q))
    /\ UNCHANGED <<keyFile, tokens, current>>

\* A start that goes on with the key after an error of os.WriteFile.
Bug_OpenKeyFile(p) ==
    /\ proc[p].at = "create"
    /\ keyFile' = Unreadable
    /\ proc' = [proc EXCEPT ![p].at = "up", ![p].preAuth = Unreadable]
    /\ UNCHANGED <<drawnKeys, tokens, current, contested>>

\* os.WriteFile opens the file, which empties it ...
OpenKeyFile(p) ==
    /\ proc[p].at = "create"
    /\ keyFile' = Unreadable
    /\ proc' = [proc EXCEPT ![p].at = "write"]
    /\ UNCHANGED <<drawnKeys, tokens, current, contested>>

\* ... and writes the key.
WriteKeyFile(p) ==
    /\ proc[p].at = "write"
    /\ keyFile' = proc[p].key
    /\ NewUserService(p, proc[p].key)
    /\ UNCHANGED <<tokens, current, contested>>

\* A command is done, the service is stopped or crashes, or an error of the file
\* system leaves NewUserService with nothing to return and the process panics.
End(p) ==
    /\ proc[p].at # "down"
    /\ proc' = [proc EXCEPT ![p] = Down]
    /\ current' = IF p = Service THEN {} ELSE current
    /\ UNCHANGED <<keyFile, drawnKeys, tokens, contested>>

-----------------------------------------------------------------------------
(* Tokens.                                                                 *)

Signed(new) ==
    /\ tokens' = tokens \cup new
    /\ current' = current \cup new
    /\ UNCHANGED <<keyFile, proc, drawnKeys, contested>>

\* jwt.Validate with the public key of GetKeyPair, as both routers call it: the
\* issuer is not looked at.
Validate(token) == proc[Service].at = "up" /\ token.key = proc[Service].key

ParsePreAuthToken(token) ==
    proc[Service].at = "up" /\ token.key = proc[Service].preAuth /\ token.issuer = "2fa"

\* The end of a sign-in, by the password alone or after the second factor.
issueTokens ==
    /\ proc[Service].at = "up"
    /\ Signed({[issuer |-> "access", key |-> proc[Service].key],
               [issuer |-> "refresh", key |-> proc[Service].key]})

\* A password accepted while two-factor authentication is on.
IssuePreAuthToken ==
    /\ proc[Service].at = "up"
    /\ Signed({[issuer |-> "2fa", key |-> proc[Service].preAuth]})

PostUserRefreshToken ==
    /\ \E token \in tokens : Validate(token) /\ token.issuer = "refresh"
    /\ issueTokens

-----------------------------------------------------------------------------
Init ==
    /\ keyFile \in {NoKey, Unreadable}
    /\ proc = [p \in Procs |-> Down]
    /\ drawnKeys = {} /\ tokens = {} /\ current = {}
    /\ contested = FALSE

Next ==
    \/ \E p \in Procs : loadOrCreateKeyPair(p) \/ OpenKeyFile(p) \/ WriteKeyFile(p) \/ End(p)
    \/ issueTokens \/ IssuePreAuthToken \/ PostUserRefreshToken

Spec == Init /\ [][Next]_vars

-----------------------------------------------------------------------------
(* Properties.                                                             *)

\* The variables have the types the code gives them.
TypeOK ==
    /\ keyFile \in KeyPairs \cup {NoKey, Unreadable}
    /\ proc \in [Procs -> Process]
    /\ drawnKeys \subseteq KeyPairs
    /\ tokens \subseteq Token
    /\ current \subseteq tokens
    /\ contested \in BOOLEAN

\* What the code says of the key file: a restart keeps every session
\* (user_key.go:16-21), so the service that is up accepts every access and refresh
\* token signed so far.  Processes that each found no key break it.
SessionsOutliveRestart ==
    proc[Service].at = "up" => \A token \in tokens : token.issuer # "2fa" => Validate(token)

\* Commands beside the service cost no session, at any point of its start and
\* theirs, unless two processes found no key and were making one at the same time
\* (user_key.go:31-57).
SessionsLostOnlyInContest == SessionsOutliveRestart \/ contested

\* A pre-auth token is worth nothing once the service that signed it has ended
\* (user_key.go:21-23).
PreAuthEndsWithService == \A token \in tokens : ParsePreAuthToken(token) => token \in current

\* No pre-auth token, of this start or an earlier one, passes for a session: the
\* routers look at the signature and not at the issuer (route/v1.go:51-65,
\* service/user.go:63-65).
PreAuthIsNoSession == \A token \in tokens : token.issuer = "2fa" => ~Validate(token)

-----------------------------------------------------------------------------
(* The inductive invariant behind the properties.                          *)

\* A process holds the keys of the step it is at, and they were drawn.
ProcInv ==
    \A p \in Procs :
        /\ proc[p].at = "down" <=> proc[p].key = NoKey
        /\ proc[p].at # "down" => proc[p].key \in drawnKeys
        /\ proc[p].at = "up" => proc[p].preAuth \in drawnKeys
        /\ proc[p].at # "up" => proc[p].preAuth = NoKey

\* No key is both a pre-auth key and a signing key, of any process, token or file.
SeparateInv ==
    /\ keyFile \in KeyPairs => keyFile \in drawnKeys
    /\ \A token \in tokens : token.key \in drawnKeys
    /\ \A p \in Procs : proc[p].at = "up" =>
           proc[p].preAuth # keyFile /\ \A q \in Procs : proc[p].preAuth # proc[q].key
    /\ \A token \in tokens : token.issuer = "2fa" =>
           token.key # keyFile /\ \A q \in Procs : token.key # proc[q].key

CurrentInv ==
    \A token \in tokens : token.issuer = "2fa" /\ token.key = proc[Service].preAuth => token \in current

\* While no two processes made the file at once, it has the key everything is signed
\* with, and whoever makes it is alone.
AloneInv ==
    /\ \A p \in Procs : Making(p) => keyFile \notin KeyPairs /\ \A q \in Procs : Making(q) => q = p
    /\ \A p \in Procs : proc[p].at = "up" => keyFile = proc[p].key
    /\ \A token \in tokens : token.issuer # "2fa" => token.key = keyFile

Inv == TypeOK /\ ProcInv /\ SeparateInv /\ CurrentInv /\ (contested \/ AloneInv)

=============================================================================
