----------------------------- MODULE TwoFactor -----------------------------
(***************************************************************************)
(* The sign-in, second-factor and password handlers of one account, run    *)
(* concurrently (route/v1/user_2fa.go, route/v1/user.go), beside the -ru   *)
(* command of main.go, which is a process of its own on the same database. *)
(*                                                                         *)
(* A handler reads the row, checks what it was sent against the row as     *)
(* read, and then writes with one or two statements.  Everything between   *)
(* two statements touches only what the request holds, so a step of the    *)
(* model is one statement with the local code that surrounds it.  The      *)
(* three things the checks consult besides the row as read are:            *)
(*   - time.Now(): every check reads the wall clock by itself, and the     *)
(*     clock of a box may be set, so each reading is any step of Clock;    *)
(*   - the two rate limiters: a limiter that refuses ends the request      *)
(*     before it changes anything, so a refusal is a step that is not      *)
(*     taken here (as a wrong password, a wrong code or a bad parameter);  *)
(*   - the pre-auth token: preAuth says whether this process has signed    *)
(*     one; its five minutes are again a matter of Clock.                  *)
(***************************************************************************)
EXTENDS UserStore

CONSTANTS
    Requests,       \* requests the service handles at the same time
    MaxStep         \* bound: clock readings are the 30 s steps 1..MaxStep

ASSUME MaxStepAssumption == MaxStep \in Nat \ {0}

VARIABLES
    user,           \* the account's row in o_users
    preAuth,        \* a pre-auth token signed since the service started
    req,            \* what every request in flight holds
    cli,            \* the -ru command: "idle", or "write" when it has read the row
    drawnSecrets,   \* seeds totp.Generate has returned
    drawnBatches,   \* batches NewRecoveryCodes has returned
    \* What happened, for the properties:
    usedTOTP,       \* TOTP codes accepted
    usedRecovery,   \* recovery codes accepted
    replays,        \* whether factors were accepted again, and under what
    handed,         \* recovery codes returned by /2fa/enable, with their seed
    passwordOnly    \* for the sessions a login that found a pending seed issued
                    \* on the password alone: whether 2FA was on by then

stored == <<user, preAuth, cli>>
drawn  == <<drawnSecrets, drawnBatches>>
past   == <<usedTOTP, usedRecovery, replays, handed, passwordOnly>>
vars   == <<user, preAuth, req, cli, drawnSecrets, drawnBatches,
            usedTOTP, usedRecovery, replays, handed, passwordOnly>>

Clock == 1..MaxStep

Steps == 0..(MaxStep + 1)

-----------------------------------------------------------------------------
(* A request: where it is, the row as read, the TOTP step that matched, the *)
(* password or the seed it is about to store, and the recovery codes it is *)
(* about to store or to use.                                               *)

Stages == {"idle", "login_upgrade", "login_clear", "login_reread", "verify_consume",
           "recovery_read", "recovery_write", "setup_write", "enable_write",
           "disable_write", "passwd_write"}

Request ==
    [ at       : Stages,
      snap     : UserDBModel,
      step     : Steps,
      password : Passwords \cup {NoPassword},
      secret   : Secrets \cup {NoSecret},
      codes    : SUBSET Codes ]

Idle == [at |-> "idle", snap |-> NoUser, step |-> 0, password |-> NoPassword,
         secret |-> NoSecret, codes |-> {}]

Return(r) == req' = [req EXCEPT ![r] = Idle]

\* A request that read row and goes on to the statement at.
Holding(at, row) == [Idle EXCEPT !.at = at, !.snap = row]

Goto(r, request) == req' = [req EXCEPT ![r] = request]

-----------------------------------------------------------------------------
(* Factors that were accepted; live says whether the enrolment they belong *)
(* to was still in force.                                                  *)

Replay(again, live) ==
    replays' = IF again THEN replays \cup {IF live THEN "live" ELSE "ended"} ELSE replays

AcceptTOTP(code, live) ==
    /\ usedTOTP' = usedTOTP \cup {code}
    /\ Replay(code \in usedTOTP, live)

AcceptRecovery(code, live) ==
    /\ usedRecovery' = usedRecovery \cup {code}
    /\ Replay(code \in usedRecovery, live)

-----------------------------------------------------------------------------
(* POST /v1/users/login.                                                   *)

Pending(row) == ~row.totpEnabled /\ row.totpSecret # NoSecret

\* The end of PostUserLogin: the pre-auth token, or issueTokens.  row is the
\* row the handler holds; first is the row it read first.
FinishLogin(r, row, first) ==
    /\ Return(r)
    /\ \/ row.totpEnabled /\ preAuth' = TRUE /\ UNCHANGED passwordOnly
       \/ /\ ~row.totpEnabled
          /\ passwordOnly' = IF Pending(first) THEN passwordOnly \cup {user'.totpEnabled}
                             ELSE passwordOnly
          /\ UNCHANGED preAuth

\* What follows the password check, and the upgrade of the hash if any.
AfterPassword(r, row) ==
    \/ Pending(row) /\ Goto(r, Holding("login_clear", row)) /\ UNCHANGED <<preAuth, passwordOnly>>
    \/ ~Pending(row) /\ FinishLogin(r, row, row)

PostUserLogin(r) ==
    /\ req[r].at = "idle" /\ user.id # 0
    /\ UNCHANGED user
    /\ \E password \in Passwords :
        /\ VerifyPassword(user.password, password)
        /\ \/ /\ NeedsRehash(user.password)
              /\ Goto(r, [Holding("login_upgrade", user) EXCEPT !.password = password])
              /\ UNCHANGED <<preAuth, passwordOnly>>
           \/ ~NeedsRehash(user.password) /\ AfterPassword(r, user)
    /\ UNCHANGED <<cli, drawn, usedTOTP, usedRecovery, replays, handed>>

\* upgradePassword's swap; whether it landed is not looked at.
upgradePassword(r) ==
    /\ req[r].at = "login_upgrade"
    /\ \E ok \in BOOLEAN :
        user' = ReplacePasswordHash(ok, user, req[r].snap.password,
                                    HashPassword(req[r].password)).row
    /\ AfterPassword(r, req[r].snap)
    /\ UNCHANGED <<cli, drawn, usedTOTP, usedRecovery, replays, handed>>

\* The clear of an abandoned seed, without a second read when it did not land.
Bug_LoginClear(r) ==
    /\ req[r].at = "login_clear"
    /\ \E ok \in BOOLEAN : user' = ClearPendingTOTP(ok, user, req[r].snap.totpSecret).row
    /\ FinishLogin(r, req[r].snap, req[r].snap)
    /\ UNCHANGED <<cli, drawn, usedTOTP, usedRecovery, replays, handed>>

LoginClear(r) ==
    /\ req[r].at = "login_clear"
    /\ \E ok \in BOOLEAN :
        LET cleared == ClearPendingTOTP(ok, user, req[r].snap.totpSecret) IN
        /\ user' = cleared.row
        /\ \/ cleared.changed /\ FinishLogin(r, req[r].snap, req[r].snap)
           \/ /\ ~cleared.changed /\ Goto(r, [req[r] EXCEPT !.at = "login_reread"])
              /\ UNCHANGED <<preAuth, passwordOnly>>
    /\ UNCHANGED <<cli, drawn, usedTOTP, usedRecovery, replays, handed>>

LoginReread(r) ==
    /\ req[r].at = "login_reread"
    /\ UNCHANGED user
    /\ \E ok \in BOOLEAN :
        LET row == GetUserAllInfo(ok, user) IN
        \/ row.id = 0 /\ Return(r) /\ UNCHANGED <<preAuth, passwordOnly>>
        \/ row.id # 0 /\ FinishLogin(r, row, req[r].snap)
    /\ UNCHANGED <<cli, drawn, usedTOTP, usedRecovery, replays, handed>>

-----------------------------------------------------------------------------
(* POST /v1/users/2fa/verify.  Its last step includes issueTokens.         *)

PostUser2FAVerify(r) ==
    /\ req[r].at = "idle" /\ preAuth
    /\ user.id # 0 /\ user.totpEnabled
    /\ \/ \E step \in Steps, now \in Clock :
            /\ VerifyTOTP(user.totpSecret, Code(user.totpSecret, step), user.totpLastStep, now)
            /\ Goto(r, [Holding("verify_consume", user) EXCEPT !.step = step])
       \/ \E batch \in drawnBatches : \E code \in NewRecoveryCodes(batch) :
            Goto(r, [Holding("recovery_read", user) EXCEPT !.codes = {code}])
    /\ UNCHANGED <<stored, drawn, past>>

VerifyConsume(r) ==
    /\ req[r].at = "verify_consume"
    /\ \E ok \in BOOLEAN :
        LET used == ConsumeTOTPStep(ok, user, req[r].step)
            live == user.totpEnabled /\ user.totpSecret = req[r].snap.totpSecret IN
        /\ user' = used.row
        /\ \/ used.changed /\ AcceptTOTP(Code(req[r].snap.totpSecret, req[r].step), live)
           \/ ~used.changed /\ UNCHANGED <<usedTOTP, replays>>
    /\ Return(r)
    /\ UNCHANGED <<preAuth, cli, drawn, usedRecovery, handed, passwordOnly>>

\* The read of UseRecoveryCode: the list as it is now, not as PostUser2FAVerify
\* read it.
RecoveryRead(r) ==
    /\ req[r].at = "recovery_read"
    /\ \E ok \in BOOLEAN :
        LET row == GetUserAllInfo(ok, user) IN
        \/ /\ req[r].codes \subseteq row.recoveryCodes
           /\ Goto(r, [req[r] EXCEPT !.at = "recovery_write", !.snap = row])
        \/ ~(req[r].codes \subseteq row.recoveryCodes) /\ Return(r)
    /\ UNCHANGED <<stored, drawn, past>>

RecoveryWrite(r) ==
    /\ req[r].at = "recovery_write"
    /\ \E ok \in BOOLEAN, code \in req[r].codes :
        LET used == UseRecoveryCode(ok, user, req[r].snap.recoveryCodes, code) IN
        /\ user' = used.row
        /\ \/ used.changed /\ AcceptRecovery(code, user.totpEnabled)
           \/ ~used.changed /\ UNCHANGED <<usedRecovery, replays>>
    /\ Return(r)
    /\ UNCHANGED <<preAuth, cli, drawn, usedTOTP, handed, passwordOnly>>

-----------------------------------------------------------------------------
(* POST /v1/users/current/2fa/setup, /enable and /disable.                 *)

PostUser2FASetup(r) ==
    /\ req[r].at = "idle" /\ user.id # 0 /\ ~user.totpEnabled
    /\ \E password \in Passwords : VerifyPassword(user.password, password)
    /\ \E secret \in Secrets \ drawnSecrets :
        /\ drawnSecrets' = drawnSecrets \cup {secret}
        /\ Goto(r, [Holding("setup_write", user) EXCEPT !.secret = secret])
    /\ UNCHANGED <<stored, drawnBatches, past>>

SetupWrite(r) ==
    /\ req[r].at = "setup_write"
    /\ \E ok \in BOOLEAN : user' = SetPendingTOTP(ok, user, req[r].secret).row
    /\ Return(r)
    /\ UNCHANGED <<preAuth, cli, drawn, past>>

PostUser2FAEnable(r) ==
    /\ req[r].at = "idle" /\ user.id # 0 /\ ~user.totpEnabled /\ user.totpSecret # NoSecret
    /\ \E step \in Steps, now \in Clock, batch \in Batches \ drawnBatches :
        /\ VerifyTOTP(user.totpSecret, Code(user.totpSecret, step), 0, now)
        /\ drawnBatches' = drawnBatches \cup {batch}
        /\ Goto(r, [Holding("enable_write", user) EXCEPT
                        !.step = step, !.codes = NewRecoveryCodes(batch)])
    /\ UNCHANGED <<stored, drawnSecrets, past>>

\* The code that enables is spent by it: its step is recorded.  The re-read of
\* the loser only chooses between two error messages.
EnableWrite(r) ==
    /\ req[r].at = "enable_write"
    /\ \E ok \in BOOLEAN :
        LET secret  == req[r].snap.totpSecret
            enabled == EnableUserTOTP(ok, user, secret, req[r].step, req[r].codes) IN
        /\ user' = enabled.row
        /\ \/ /\ enabled.changed
              /\ AcceptTOTP(Code(secret, req[r].step), TRUE)
              /\ handed' = handed \cup {[secret |-> secret, codes |-> req[r].codes]}
           \/ ~enabled.changed /\ UNCHANGED <<usedTOTP, replays, handed>>
    /\ Return(r)
    /\ UNCHANGED <<preAuth, cli, drawn, usedRecovery, passwordOnly>>

PostUser2FADisable(r) ==
    /\ req[r].at = "idle" /\ user.id # 0 /\ user.totpEnabled
    /\ \/ \E password \in Passwords : VerifyPassword(user.password, password)
       \/ \E step \in Steps, now \in Clock :
            VerifyTOTP(user.totpSecret, Code(user.totpSecret, step), user.totpLastStep, now)
    /\ Goto(r, Holding("disable_write", user))
    /\ UNCHANGED <<stored, drawn, past>>

DisableWrite(r) ==
    /\ req[r].at = "disable_write"
    /\ \E ok \in BOOLEAN : user' = DisableUserTOTP(ok, user, req[r].snap.totpSecret).row
    /\ Return(r)
    /\ UNCHANGED <<preAuth, cli, drawn, past>>

-----------------------------------------------------------------------------
(* PUT /v1/users/current/password.                                         *)

PutUserPassword(r) ==
    /\ req[r].at = "idle" /\ user.id # 0
    /\ \E old \in Passwords : VerifyPassword(user.password, old)
    /\ \E new \in Passwords : Goto(r, [Holding("passwd_write", user) EXCEPT !.password = new])
    /\ UNCHANGED <<stored, drawn, past>>

\* The password stored as it was sent.
Bug_PasswdWrite(r) ==
    /\ req[r].at = "passwd_write"
    /\ user' = UpdateUserPassword(user, req[r].password)
    /\ Return(r)
    /\ UNCHANGED <<preAuth, cli, drawn, past>>

PasswdWrite(r) ==
    /\ req[r].at = "passwd_write"
    /\ \/ user' = UpdateUserPassword(user, HashPassword(req[r].password))
       \/ UNCHANGED user                           \* the statement failed
    /\ Return(r)
    /\ UNCHANGED <<preAuth, cli, drawn, past>>

-----------------------------------------------------------------------------
(* Outside a request.                                                      *)

\* -ru: read the account by name ...
ResetRead ==
    /\ cli = "idle" /\ user.id # 0
    /\ cli' = "write"
    /\ UNCHANGED <<user, preAuth, req, drawn, past>>

\* ... and overwrite its credentials, whether or not a row is left to overwrite.
ResetWrite ==
    /\ cli = "write" /\ cli' = "idle"
    /\ \/ \E password \in Passwords : user' = ResetUserCredentials(user, HashPassword(password))
       \/ UNCHANGED user     \* the statement failed
    /\ UNCHANGED <<preAuth, req, drawn, past>>

\* DELETE /v1/users/:id and DELETE /v1/users: one statement, nothing checked.
DeleteUser ==
    /\ user' = NoUser
    /\ UNCHANGED <<preAuth, req, cli, drawn, past>>

\* The service stops and starts: requests in flight are gone, and the key of
\* pre-auth tokens is a new one.
Restart ==
    /\ req' = [r \in Requests |-> Idle]
    /\ preAuth' = FALSE
    /\ UNCHANGED <<user, cli, drawn, past>>

-----------------------------------------------------------------------------
\* An account without two-factor authentication, its hash of either kind.
Init ==
    /\ \E format \in {"legacy", "argon2id"}, plain \in Passwords :
        user = [NoUser EXCEPT !.id = 1, !.password = [format |-> format, plain |-> plain]]
    /\ preAuth = FALSE
    /\ req = [r \in Requests |-> Idle]
    /\ cli = "idle"
    /\ drawnSecrets = {} /\ drawnBatches = {}
    /\ usedTOTP = {} /\ usedRecovery = {} /\ replays = {} /\ handed = {} /\ passwordOnly = {}

Login(r)   == PostUserLogin(r) \/ upgradePassword(r) \/ LoginClear(r) \/ LoginReread(r)
Verify(r)  == PostUser2FAVerify(r) \/ VerifyConsume(r) \/ RecoveryRead(r) \/ RecoveryWrite(r)
Setup(r)   == PostUser2FASetup(r) \/ SetupWrite(r)
Enable(r)  == PostUser2FAEnable(r) \/ EnableWrite(r)
Disable(r) == PostUser2FADisable(r) \/ DisableWrite(r)
Passwd(r)  == PutUserPassword(r) \/ PasswdWrite(r)

Next ==
    \/ \E r \in Requests : Login(r) \/ Verify(r) \/ Setup(r) \/ Enable(r) \/ Disable(r) \/ Passwd(r)
    \/ ResetRead \/ ResetWrite \/ DeleteUser \/ Restart

Spec == Init /\ [][Next]_vars

-----------------------------------------------------------------------------
(* Properties.                                                             *)

\* The variables have the types the code gives them.
TypeOK ==
    /\ user \in UserDBModel
    /\ preAuth \in BOOLEAN
    /\ req \in [Requests -> Request]
    /\ cli \in {"idle", "write"}
    /\ drawnSecrets \subseteq Secrets
    /\ drawnBatches \subseteq Batches
    /\ usedTOTP \subseteq [secret : Secrets \cup {NoSecret}, step : Steps]
    /\ usedRecovery \subseteq Codes
    /\ replays \subseteq {"live", "ended"}
    /\ handed \subseteq [secret : Secrets \cup {NoSecret}, codes : SUBSET Codes]
    /\ passwordOnly \subseteq BOOLEAN

\* An account with two-factor authentication on has a seed its owner can
\* answer with.  A login that read the row while /2fa/setup was pending clears
\* the seed later, perhaps after /2fa/enable turned it on (user.go:153-164).
EnabledHasSecret == user.totpEnabled => user.id # 0 /\ user.totpSecret # NoSecret

\* No factor is accepted twice while the enrolment it belongs to is in force:
\* requests that carry one TOTP code, or one recovery code, may all have passed
\* the check on the row as they read it, but only one write lands
\* (ConsumeTOTPStep and UseRecoveryCode, service/user.go:158-187).
NoFactorReplay == "live" \notin replays

\* The step recorded in the row is never behind a step accepted from the seed
\* in force, so no request that reads the row from now on passes VerifyTOTP with
\* a used code (totp.go:16-30), the code /2fa/enable was confirmed with included.
AcceptedStepsRecorded ==
    user.totpEnabled =>
        \A code \in usedTOTP : code.secret = user.totpSecret => code.step <= user.totpLastStep

\* The recovery codes in the row are those that the /2fa/enable of the seed in
\* force returned, less the ones used since: of several setups and enables that
\* overlap, the codes shown to the owner are the ones stored
\* (service/user.go:105-112, 130-137).
HandedCodesAreStored ==
    user.totpEnabled =>
        \E h \in handed :
            /\ h.secret = user.totpSecret
            /\ user.recoveryCodes = h.codes \ usedRecovery

\* A login that found a pending seed issues no session on the password alone
\* while two-factor authentication is on: if /2fa/enable won since the row was
\* read, the login stops at the factor (user.go:153-164).
LoginStopsAtFactor == TRUE \notin passwordOnly

\* The request r answers in this step.
Answered(r, at) == req[r].at = at /\ req'[r].at = "idle"

\* An enrolment in force ends only by a disable whose factor was checked against
\* that very enrolment, by -ru, or with the account: no stale setup, enable,
\* login or disable of an earlier enrolment ends or replaces it
\* (DisableUserTOTP and SetPendingTOTP, service/user.go:130-145).
EnrolmentEndsAsAsked ==
    [][ user.totpEnabled /\ ~(user'.totpEnabled /\ user'.totpSecret = user.totpSecret) =>
            \/ \E r \in Requests : /\ Answered(r, "disable_write")
                                   /\ req[r].snap.totpEnabled
                                   /\ req[r].snap.totpSecret = user.totpSecret
            \/ cli = "write" /\ cli' = "idle"
            \/ user'.id = 0 ]_vars

\* Only a password change, -ru and the deletion of the account change which
\* password opens it: a sign-in that replaces a legacy hash never puts an
\* earlier password back (ReplacePasswordHash, service/user.go:114-120).
SignInKeepsPassword ==
    [][ user'.password.plain # user.password.plain =>
            \/ \E r \in Requests : Answered(r, "passwd_write")
            \/ cli = "write" /\ cli' = "idle"
            \/ user'.id = 0 ]_vars

-----------------------------------------------------------------------------
(* The inductive invariant behind the properties above: what keeps stale   *)
(* requests harmless is that seeds and recovery codes are never drawn      *)
(* twice, so a value that still matches the row is the one that was read.  *)

\* Seeds that are, or were, in force.
Enrolled == {h.secret : h \in handed}

\* Recovery codes that were returned to the owner.
Issued == UNION {h.codes : h \in handed}

\* The row: off has no recovery codes and no seed that was ever in force.
RowInv ==
    /\ EnabledHasSecret
    /\ ~user.totpEnabled => user.recoveryCodes = {} /\ user.totpSecret \notin Enrolled
    /\ user.id = 0 => user.totpSecret = NoSecret
    /\ user.totpSecret \in drawnSecrets \cup {NoSecret}

\* Factors are accepted only from seeds and codes that were handed out.
HistoryInv ==
    /\ \A code \in usedTOTP : code.secret \in Enrolled
    /\ usedRecovery \subseteq Issued
    /\ Enrolled \subseteq drawnSecrets
    /\ \A code \in Issued : code[1] \in drawnBatches

\* A seed on its way to the row is nobody else's.
FreshSeed(r) ==
    /\ req[r].secret \in drawnSecrets \ Enrolled
    /\ req[r].secret # user.totpSecret
    /\ \A s \in Requests : req[s].at = "setup_write" /\ req[s].secret = req[r].secret => s = r

\* Recovery codes on their way to the row are nobody else's.
FreshCodes(r) ==
    /\ \A code \in req[r].codes : code[1] \in drawnBatches
    /\ req[r].codes \cap Issued = {}
    /\ \A s \in Requests :
        req[s].at = "enable_write" /\ req[s].codes \cap req[r].codes # {} => s = r

\* What a request carries from its reads to its write.
RequestInv(r) ==
    /\ req[r].at = "verify_consume" => req[r].snap.totpSecret \in Enrolled
    /\ req[r].at = "recovery_write" => req[r].codes \subseteq req[r].snap.recoveryCodes
    /\ req[r].at = "setup_write" => FreshSeed(r)
    /\ req[r].at = "enable_write" => /\ FreshCodes(r)
                                     /\ req[r].step > 0
                                     /\ req[r].snap.totpSecret # NoSecret
    /\ req[r].at = "disable_write" => req[r].snap.totpEnabled

Inv ==
    /\ TypeOK
    /\ RowInv
    /\ HistoryInv
    /\ \A r \in Requests : RequestInv(r)
    /\ AcceptedStepsRecorded
    /\ HandedCodesAreStored
    /\ NoFactorReplay
    /\ LoginStopsAtFactor

\* A sign-in that is about to replace a hash holds the password that was checked against
\* it: the replacement opens the account to the same person.
UpgradeInv ==
    \A r \in Requests :
        req[r].at = "login_upgrade" => req[r].snap.password.plain = req[r].password

-----------------------------------------------------------------------------
\* The enrolment as its owner sees it: the seed of the row and, while two-factor
\* authentication is on, its step and its recovery codes.  A row that is off may
\* hold a step: a verify that read the row before a disable records it later.
Owner == INSTANCE Enrolment WITH
    phase    <- IF user.totpEnabled THEN "on" ELSE IF Pending(user) THEN "pending" ELSE "off",
    secret   <- user.totpSecret,
    last     <- IF user.totpEnabled THEN user.totpLastStep ELSE 0,
    unused   <- IF user.totpEnabled THEN user.recoveryCodes ELSE {},
    enrolled <- Enrolled,
    issued   <- Issued

\* The handlers, interleaved statement by statement with stale reads, failing
\* statements, restarts and -ru, implement the one-request-at-a-time enrolment of
\* module Enrolment: a seed or a recovery code of an enrolment that ended never
\* comes back, and nothing of one in force goes but by use.
ImplementsEnrolment == Owner!EnrolmentSpec

\* What the documentation says of replays, without regard to enrolments: of two
\* requests that carry one captured code, at most one passes (README,
\* service/user.go:158-162).
CodePassesOnce == replays = {}

=============================================================================
