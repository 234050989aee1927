-------------------------- MODULE TwoFactorProofs --------------------------
(***************************************************************************)
(* Proofs about TwoFactor for any number of concurrent requests, seeds,    *)
(* batches of recovery codes, passwords and clock readings.                *)
(***************************************************************************)
EXTENDS TwoFactor, TLAPS

USE MaxStepAssumption, SecretsAssumption, PasswordsAssumption, NumCodesAssumption

-----------------------------------------------------------------------------
(* Types.                                                                  *)

\* A row that is not there is a row.
LEMMA NoUserType == NoUser \in UserDBModel
BY DEF NoUser, UserDBModel, Hash

\* The state of a handler that has answered.
LEMMA IdleType == Idle \in Request
BY NoUserType DEF Idle, Request, Stages, Steps

\* What a request holds after a read.
LEMMA HoldingType ==
    ASSUME NEW at \in Stages, NEW row \in UserDBModel
    PROVE  /\ Holding(at, row) \in Request
           /\ Holding(at, row).at = at
           /\ Holding(at, row).snap = row
BY IdleType DEF Holding, Idle, Request, Steps

\* A hash made today is a hash.
LEMMA HashType ==
    ASSUME NEW password \in Passwords \cup {NoPassword}
    PROVE  HashPassword(password) \in Hash
BY DEF HashPassword, Hash

\* A conditional update yields a row, whichever way it goes.
LEMMA changedOneType ==
    ASSUME NEW ok \in BOOLEAN, NEW where \in BOOLEAN,
           NEW row \in UserDBModel, NEW new \in UserDBModel
    PROVE  /\ changedOne(ok, where, row, new).row \in UserDBModel
           /\ changedOne(ok, where, row, new).changed \in BOOLEAN
           /\ changedOne(ok, where, row, new).row =
                 IF changedOne(ok, where, row, new).changed THEN new ELSE row
           /\ changedOne(ok, where, row, new).changed => where /\ row.id # 0
BY DEF changedOne, UserDBModel

\* Recovery codes made together are recovery codes.
LEMMA NewRecoveryCodesType ==
    ASSUME NEW batch \in Batches
    PROVE  /\ NewRecoveryCodes(batch) \subseteq Codes
           /\ \A code \in NewRecoveryCodes(batch) : code[1] = batch
BY DEF NewRecoveryCodes, Codes

-----------------------------------------------------------------------------
(* What each statement does to the columns, once and for all.              *)

\* EnableUserTOTP turns on the pending seed it was given, or changes nothing.
LEMMA EnableEffect ==
    ASSUME NEW ok \in BOOLEAN, NEW row \in UserDBModel, NEW secret \in Secrets \cup {NoSecret},
           NEW step \in Nat, NEW codes \in SUBSET Codes
    PROVE  LET e == EnableUserTOTP(ok, row, secret, step, codes) IN
           /\ e.row \in UserDBModel
           /\ \/ /\ e.changed /\ row.id # 0 /\ ~row.totpEnabled /\ row.totpSecret = secret
                 /\ e.row.id = row.id /\ e.row.totpEnabled = TRUE
                 /\ e.row.totpSecret = row.totpSecret /\ e.row.totpLastStep = step
                 /\ e.row.recoveryCodes = codes /\ e.row.password = row.password
              \/ ~e.changed /\ e.row = row
BY DEF EnableUserTOTP, changedOne, UserDBModel

\* ReplacePasswordHash touches the password column only, and only the hash as read.
LEMMA ReplaceHashEffect ==
    ASSUME NEW ok \in BOOLEAN, NEW row \in UserDBModel,
           NEW current \in Hash, NEW replacement \in Hash
    PROVE  LET e == ReplacePasswordHash(ok, row, current, replacement) IN
           /\ e.row \in UserDBModel
           /\ \/ /\ row.password = current /\ e.row.password = replacement
                 /\ e.row.id = row.id /\ e.row.totpEnabled = row.totpEnabled
                 /\ e.row.totpSecret = row.totpSecret /\ e.row.totpLastStep = row.totpLastStep
                 /\ e.row.recoveryCodes = row.recoveryCodes
              \/ e.row = row
BY DEF ReplacePasswordHash, changedOne, UserDBModel

\* ClearPendingTOTP empties the seed of a row that is off, or changes nothing.
LEMMA ClearEffect ==
    ASSUME NEW ok \in BOOLEAN, NEW row \in UserDBModel, NEW secret \in Secrets \cup {NoSecret}
    PROVE  LET e == ClearPendingTOTP(ok, row, secret) IN
           /\ e.row \in UserDBModel
           /\ \/ /\ e.changed /\ row.id # 0 /\ ~row.totpEnabled
                 /\ e.row.id = row.id /\ e.row.totpEnabled = FALSE
                 /\ e.row.totpSecret = NoSecret /\ e.row.totpLastStep = row.totpLastStep
                 /\ e.row.recoveryCodes = row.recoveryCodes /\ e.row.password = row.password
              \/ ~e.changed /\ e.row = row
BY DEF ClearPendingTOTP, changedOne, UserDBModel

\* SetPendingTOTP stores a seed in a row that is off, or changes nothing.
LEMMA SetPendingEffect ==
    ASSUME NEW ok \in BOOLEAN, NEW row \in UserDBModel, NEW secret \in Secrets \cup {NoSecret}
    PROVE  LET e == SetPendingTOTP(ok, row, secret) IN
           /\ e.row \in UserDBModel
           /\ \/ /\ e.changed /\ row.id # 0 /\ ~row.totpEnabled
                 /\ e.row.id = row.id /\ e.row.totpEnabled = FALSE
                 /\ e.row.totpSecret = secret /\ e.row.totpLastStep = row.totpLastStep
                 /\ e.row.recoveryCodes = row.recoveryCodes /\ e.row.password = row.password
              \/ ~e.changed /\ e.row = row
BY DEF SetPendingTOTP, changedOne, UserDBModel

\* DisableUserTOTP zeroes the enrolment it was given, or changes nothing.
LEMMA DisableEffect ==
    ASSUME NEW ok \in BOOLEAN, NEW row \in UserDBModel, NEW secret \in Secrets \cup {NoSecret}
    PROVE  LET e == DisableUserTOTP(ok, row, secret) IN
           /\ e.row \in UserDBModel
           /\ \/ /\ row.id # 0 /\ row.totpEnabled /\ row.totpSecret = secret
                 /\ e.row.id = row.id /\ e.row.totpEnabled = FALSE
                 /\ e.row.totpSecret = NoSecret /\ e.row.totpLastStep = 0
                 /\ e.row.recoveryCodes = {} /\ e.row.password = row.password
              \/ e.row = row
BY DEF DisableUserTOTP, changedOne, UserDBModel

\* ConsumeTOTPStep raises the recorded step, or changes nothing.
LEMMA ConsumeEffect ==
    ASSUME NEW ok \in BOOLEAN, NEW row \in UserDBModel, NEW step \in Nat
    PROVE  LET e == ConsumeTOTPStep(ok, row, step) IN
           /\ e.row \in UserDBModel
           /\ \/ /\ e.changed /\ row.id # 0 /\ row.totpLastStep < step
                 /\ e.row.id = row.id /\ e.row.totpEnabled = row.totpEnabled
                 /\ e.row.totpSecret = row.totpSecret /\ e.row.totpLastStep = step
                 /\ e.row.recoveryCodes = row.recoveryCodes /\ e.row.password = row.password
              \/ ~e.changed /\ e.row = row
BY DEF ConsumeTOTPStep, changedOne, UserDBModel

\* UseRecoveryCode takes the code off the list as read, or changes nothing.
LEMMA UseCodeEffect ==
    ASSUME NEW ok \in BOOLEAN, NEW row \in UserDBModel, NEW prev \in SUBSET Codes, NEW code \in Codes
    PROVE  LET e == UseRecoveryCode(ok, row, prev, code) IN
           /\ e.row \in UserDBModel
           /\ \/ /\ e.changed /\ row.id # 0 /\ row.recoveryCodes = prev
                 /\ e.row.id = row.id /\ e.row.totpEnabled = row.totpEnabled
                 /\ e.row.totpSecret = row.totpSecret /\ e.row.totpLastStep = row.totpLastStep
                 /\ e.row.recoveryCodes = prev \ {code} /\ e.row.password = row.password
              \/ ~e.changed /\ e.row = row
BY DEF UseRecoveryCode, ConsumeRecoveryCode, changedOne, UserDBModel

\* ResetUserCredentials writes the password and turns 2FA off, if there is a row.
LEMMA ResetEffect ==
    ASSUME NEW row \in UserDBModel, NEW password \in Hash
    PROVE  LET new == ResetUserCredentials(row, password) IN
           /\ new \in UserDBModel
           /\ \/ /\ row.id # 0 /\ new.id = row.id /\ new.totpEnabled = FALSE
                 /\ new.totpSecret = NoSecret /\ new.totpLastStep = 0
                 /\ new.recoveryCodes = {} /\ new.password = password
              \/ row.id = 0 /\ new = row
BY DEF ResetUserCredentials, UserDBModel

\* UpdateUserPassword leaves the second factor alone.
LEMMA PasswordEffect ==
    ASSUME NEW row \in UserDBModel, NEW password \in Hash
    PROVE  LET new == UpdateUserPassword(row, password) IN
           /\ new \in UserDBModel
           /\ new.id = row.id /\ new.totpEnabled = row.totpEnabled
           /\ new.totpSecret = row.totpSecret /\ new.totpLastStep = row.totpLastStep
           /\ new.recoveryCodes = row.recoveryCodes
BY DEF UpdateUserPassword, UserDBModel

-----------------------------------------------------------------------------
(* Type correctness.                                                       *)

\* The end of a login keeps the types of what it touches.
LEMMA FinishLoginType ==
    ASSUME TypeOK, user' \in UserDBModel, NEW r \in Requests, NEW row, NEW first,
           FinishLogin(r, row, first)
    PROVE  /\ req' = [req EXCEPT ![r] = Idle]
           /\ req' \in [Requests -> Request]
           /\ preAuth' \in BOOLEAN
           /\ passwordOnly' \subseteq BOOLEAN
BY IdleType DEF FinishLogin, Return, TypeOK, UserDBModel

\* So does what follows its password check.
LEMMA AfterPasswordType ==
    ASSUME TypeOK, user' \in UserDBModel, NEW r \in Requests, NEW row \in UserDBModel,
           AfterPassword(r, row)
    PROVE  /\ \/ req' = [req EXCEPT ![r] = Idle]
              \/ req' = [req EXCEPT ![r] = Holding("login_clear", row)]
           /\ req' \in [Requests -> Request]
           /\ preAuth' \in BOOLEAN
           /\ passwordOnly' \subseteq BOOLEAN
<1>1. CASE Pending(row) /\ Goto(r, Holding("login_clear", row)) /\ UNCHANGED <<preAuth, passwordOnly>>
  <2>1. Holding("login_clear", row) \in Request
    BY HoldingType DEF Stages
  <2> QED
    BY <1>1, <2>1 DEF Goto, TypeOK
<1>2. CASE ~Pending(row) /\ FinishLogin(r, row, row)
  BY <1>2, FinishLoginType
<1> QED
  BY <1>1, <1>2 DEF AfterPassword

\* A request that answers holds nothing.
LEMMA ReturnType ==
    ASSUME TypeOK, NEW r \in Requests, Return(r)
    PROVE  req' \in [Requests -> Request] /\ req' = [req EXCEPT ![r] = Idle]
BY IdleType DEF TypeOK, Return

\* Every step of a sign-in keeps the types.
LEMMA LoginType ==
    ASSUME TypeOK, NEW r \in Requests, Login(r)
    PROVE  TypeOK'
<1>1. CASE PostUserLogin(r)
  <2>1. user' = user /\ user' \in UserDBModel
    BY <1>1 DEF PostUserLogin, TypeOK
  <2>2. PICK password \in Passwords :
            \/ /\ Goto(r, [Holding("login_upgrade", user) EXCEPT !.password = password])
               /\ UNCHANGED <<preAuth, passwordOnly>>
            \/ AfterPassword(r, user)
    BY <1>1 DEF PostUserLogin
  <2>3. [Holding("login_upgrade", user) EXCEPT !.password = password] \in Request
    BY <2>1, HoldingType DEF Stages, Request
  <2>4. /\ req' \in [Requests -> Request]
        /\ preAuth' \in BOOLEAN
        /\ passwordOnly' \subseteq BOOLEAN
    BY <2>1, <2>2, <2>3, AfterPasswordType DEF Goto, TypeOK
  <2> QED
    BY <1>1, <2>1, <2>4 DEF PostUserLogin, TypeOK, drawn
<1>2. CASE upgradePassword(r)
  <2>1. req[r] \in Request /\ req[r].snap \in UserDBModel /\ req[r].snap.password \in Hash
        /\ HashPassword(req[r].password) \in Hash
    BY HashType DEF TypeOK, Request, UserDBModel
  <2>2. user' \in UserDBModel
    BY <1>2, <2>1, ReplaceHashEffect DEF upgradePassword, TypeOK
  <2>3. /\ req' \in [Requests -> Request]
        /\ preAuth' \in BOOLEAN
        /\ passwordOnly' \subseteq BOOLEAN
    BY <1>2, <2>1, <2>2, AfterPasswordType DEF upgradePassword
  <2> QED
    BY <1>2, <2>2, <2>3 DEF upgradePassword, TypeOK, drawn
<1>3. CASE LoginClear(r)
  <2>1. PICK ok \in BOOLEAN :
            /\ user' = ClearPendingTOTP(ok, user, req[r].snap.totpSecret).row
            /\ \/ FinishLogin(r, req[r].snap, req[r].snap)
               \/ /\ Goto(r, [req[r] EXCEPT !.at = "login_reread"])
                  /\ UNCHANGED <<preAuth, passwordOnly>>
    BY <1>3 DEF LoginClear
  <2>2. user' \in UserDBModel
    <3>1. req[r].snap.totpSecret \in Secrets \cup {NoSecret}
      BY DEF TypeOK, Request, UserDBModel
    <3> QED
      BY <2>1, <3>1, ClearEffect DEF TypeOK
  <2>3. [req[r] EXCEPT !.at = "login_reread"] \in Request
    BY DEF TypeOK, Request, Stages
  <2>4. /\ req' \in [Requests -> Request]
        /\ preAuth' \in BOOLEAN
        /\ passwordOnly' \subseteq BOOLEAN
    BY <2>1, <2>2, <2>3, FinishLoginType DEF Goto, TypeOK
  <2> QED
    BY <1>3, <2>2, <2>4 DEF LoginClear, TypeOK, drawn
<1>4. CASE LoginReread(r)
  <2>1. user' = user /\ user' \in UserDBModel
    BY <1>4 DEF LoginReread, TypeOK
  <2>2. PICK row : \/ Return(r) /\ UNCHANGED <<preAuth, passwordOnly>>
                   \/ FinishLogin(r, row, req[r].snap)
    BY <1>4 DEF LoginReread
  <2>3. /\ req' \in [Requests -> Request]
        /\ preAuth' \in BOOLEAN
        /\ passwordOnly' \subseteq BOOLEAN
    BY <2>1, <2>2, ReturnType, FinishLoginType DEF TypeOK
  <2> QED
    BY <1>4, <2>1, <2>3 DEF LoginReread, TypeOK, drawn
<1> QED
  BY <1>1, <1>2, <1>3, <1>4 DEF Login

\* Every step of /2fa/verify keeps the types.
LEMMA VerifyType ==
    ASSUME TypeOK, NEW r \in Requests, Verify(r)
    PROVE  TypeOK'
<1>0. /\ user \in UserDBModel
      /\ req[r] \in Request /\ req[r].snap \in UserDBModel /\ req[r].step \in Steps
      /\ req[r].snap.totpSecret \in Secrets \cup {NoSecret}
      /\ req[r].codes \in SUBSET Codes /\ req[r].snap.recoveryCodes \in SUBSET Codes
  BY DEF TypeOK, Request, UserDBModel
<1>s. req[r].step \in Nat
  BY <1>0 DEF Steps
<1>1. CASE PostUser2FAVerify(r)
  <2>1. PICK q \in Request : Goto(r, q)
    <3>1. ASSUME NEW step \in Steps,
                 Goto(r, [Holding("verify_consume", user) EXCEPT !.step = step])
          PROVE  \E q \in Request : Goto(r, q)
      <4>1. [Holding("verify_consume", user) EXCEPT !.step = step] \in Request
        BY <1>0, HoldingType DEF Stages, Request
      <4> QED
        BY <3>1, <4>1
    <3>2. ASSUME NEW batch \in drawnBatches, NEW code \in NewRecoveryCodes(batch),
                 Goto(r, [Holding("recovery_read", user) EXCEPT !.codes = {code}])
          PROVE  \E q \in Request : Goto(r, q)
      <4>1. {code} \in SUBSET Codes
        BY NewRecoveryCodesType DEF TypeOK
      <4>2. [Holding("recovery_read", user) EXCEPT !.codes = {code}] \in Request
        BY <1>0, <4>1, HoldingType DEF Stages, Request
      <4> QED
        BY <3>2, <4>2
    <3> QED
      BY <1>1, <3>1, <3>2 DEF PostUser2FAVerify
  <2> QED
    BY <1>1, <2>1 DEF PostUser2FAVerify, Goto, TypeOK, stored, drawn, past
<1>2. CASE VerifyConsume(r)
  <2>1. PICK ok \in BOOLEAN :
            /\ user' = ConsumeTOTPStep(ok, user, req[r].step).row
            /\ \/ \E live \in BOOLEAN : AcceptTOTP(Code(req[r].snap.totpSecret, req[r].step), live)
               \/ UNCHANGED <<usedTOTP, replays>>
    BY <1>2 DEF VerifyConsume
  <2>2. user' \in UserDBModel
    BY <1>0, <1>s, <2>1, ConsumeEffect
  <2>3. usedTOTP' \subseteq [secret : Secrets \cup {NoSecret}, step : Steps]
    <3>1. Code(req[r].snap.totpSecret, req[r].step)
                \in [secret : Secrets \cup {NoSecret}, step : Steps]
      BY <1>0 DEF Code
    <3> QED
      BY <2>1, <3>1 DEF AcceptTOTP, TypeOK
  <2>4. replays' \subseteq {"live", "ended"}
    BY <2>1 DEF AcceptTOTP, Replay, TypeOK
  <2> QED
    BY <1>2, <2>4, <2>2, <2>3, ReturnType DEF VerifyConsume, TypeOK, drawn
<1>3. CASE RecoveryRead(r)
  <2>1. PICK ok \in BOOLEAN :
            \/ Goto(r, [req[r] EXCEPT !.at = "recovery_write", !.snap = GetUserAllInfo(ok, user)])
            \/ Return(r)
    BY <1>3 DEF RecoveryRead
  <2>2. GetUserAllInfo(ok, user) \in UserDBModel
    BY <1>0, NoUserType DEF GetUserAllInfo
  <2>3. [req[r] EXCEPT !.at = "recovery_write", !.snap = GetUserAllInfo(ok, user)] \in Request
    BY <1>0, <2>2 DEF Request, Stages
  <2>4. req' \in [Requests -> Request]
    BY <2>1, <2>3, ReturnType DEF Goto, TypeOK
  <2> QED
    BY <1>3, <2>4 DEF RecoveryRead, TypeOK, stored, drawn, past
<1>4. CASE RecoveryWrite(r)
  <2>1. PICK ok \in BOOLEAN, code \in req[r].codes :
            /\ user' = UseRecoveryCode(ok, user, req[r].snap.recoveryCodes, code).row
            /\ \/ AcceptRecovery(code, user.totpEnabled)
               \/ UNCHANGED <<usedRecovery, replays>>
    BY <1>4 DEF RecoveryWrite
  <2>2. user' \in UserDBModel
    BY <1>0, <2>1, UseCodeEffect
  <2>3. usedRecovery' \subseteq Codes /\ replays' \subseteq {"live", "ended"}
    BY <1>0, <2>1 DEF AcceptRecovery, Replay, TypeOK
  <2> QED
    BY <1>4, <2>2, <2>3, ReturnType DEF RecoveryWrite, TypeOK, drawn
<1> QED
  BY <1>1, <1>2, <1>3, <1>4 DEF Verify

\* So does every step of /2fa/setup, /2fa/enable and /2fa/disable.
LEMMA EnrolType ==
    ASSUME TypeOK, NEW r \in Requests, Setup(r) \/ Enable(r) \/ Disable(r)
    PROVE  TypeOK'
<1>0. /\ user \in UserDBModel
      /\ req[r] \in Request /\ req[r].snap \in UserDBModel /\ req[r].step \in Steps
      /\ req[r].secret \in Secrets \cup {NoSecret}
      /\ req[r].snap.totpSecret \in Secrets \cup {NoSecret}
      /\ req[r].codes \in SUBSET Codes
  BY DEF TypeOK, Request, UserDBModel
<1>s. req[r].step \in Nat
  BY <1>0 DEF Steps
<1>1. CASE PostUser2FASetup(r)
  <2>1. PICK secret \in Secrets \ drawnSecrets :
            /\ drawnSecrets' = drawnSecrets \cup {secret}
            /\ Goto(r, [Holding("setup_write", user) EXCEPT !.secret = secret])
    BY <1>1 DEF PostUser2FASetup
  <2>2. [Holding("setup_write", user) EXCEPT !.secret = secret] \in Request
    BY <1>0, HoldingType DEF Stages, Request
  <2> QED
    BY <1>1, <2>1, <2>2 DEF PostUser2FASetup, Goto, TypeOK, stored, past
<1>2. CASE SetupWrite(r)
  <2>1. PICK ok \in BOOLEAN : user' = SetPendingTOTP(ok, user, req[r].secret).row
    BY <1>2 DEF SetupWrite
  <2>2. user' \in UserDBModel
    BY <1>0, <2>1, SetPendingEffect
  <2> QED
    BY <1>2, <2>2, ReturnType DEF SetupWrite, TypeOK, drawn, past
<1>3. CASE PostUser2FAEnable(r)
  <2>1. PICK step \in Steps, batch \in Batches \ drawnBatches :
            /\ drawnBatches' = drawnBatches \cup {batch}
            /\ Goto(r, [Holding("enable_write", user) EXCEPT
                            !.step = step, !.codes = NewRecoveryCodes(batch)])
    BY <1>3 DEF PostUser2FAEnable
  <2>2. NewRecoveryCodes(batch) \in SUBSET Codes
    BY NewRecoveryCodesType
  <2>3. [Holding("enable_write", user) EXCEPT
            !.step = step, !.codes = NewRecoveryCodes(batch)] \in Request
    <3>1. Holding("enable_write", user) \in Request
      BY <1>0, HoldingType DEF Stages
    <3>2. \A q \in Request, codes \in SUBSET Codes :
                [q EXCEPT !.step = step, !.codes = codes] \in Request
      BY DEF Request
    <3> QED
      BY <2>2, <3>1, <3>2
  <2> QED
    BY <1>3, <2>1, <2>3 DEF PostUser2FAEnable, Goto, TypeOK, stored, past
<1>4. CASE EnableWrite(r)
  <2>1. PICK ok \in BOOLEAN :
            /\ user' = EnableUserTOTP(ok, user, req[r].snap.totpSecret, req[r].step, req[r].codes).row
            /\ \/ /\ AcceptTOTP(Code(req[r].snap.totpSecret, req[r].step), TRUE)
                  /\ handed' = handed \cup
                        {[secret |-> req[r].snap.totpSecret, codes |-> req[r].codes]}
               \/ UNCHANGED <<usedTOTP, replays, handed>>
    BY <1>4 DEF EnableWrite
  <2>2. user' \in UserDBModel
    BY <1>0, <1>s, <2>1, EnableEffect
  <2>3. /\ usedTOTP' \subseteq [secret : Secrets \cup {NoSecret}, step : Steps]
        /\ replays' \subseteq {"live", "ended"}
        /\ handed' \subseteq [secret : Secrets \cup {NoSecret}, codes : SUBSET Codes]
    BY <1>0, <2>1 DEF AcceptTOTP, Replay, Code, TypeOK
  <2> QED
    BY <1>4, <2>2, <2>3, ReturnType DEF EnableWrite, TypeOK, drawn
<1>5. CASE PostUser2FADisable(r)
  <2>1. Holding("disable_write", user) \in Request
    BY <1>0, HoldingType DEF Stages
  <2> QED
    BY <1>5, <2>1 DEF PostUser2FADisable, Goto, TypeOK, stored, drawn, past
<1>6. CASE DisableWrite(r)
  <2>1. PICK ok \in BOOLEAN : user' = DisableUserTOTP(ok, user, req[r].snap.totpSecret).row
    BY <1>6 DEF DisableWrite
  <2>2. user' \in UserDBModel
    BY <1>0, <2>1, DisableEffect
  <2> QED
    BY <1>6, <2>2, ReturnType DEF DisableWrite, TypeOK, drawn, past
<1> QED
  BY <1>1, <1>2, <1>3, <1>4, <1>5, <1>6 DEF Setup, Enable, Disable

\* So do password changes, -ru, a deletion and a restart.
LEMMA OtherType ==
    ASSUME TypeOK,
           \/ \E r \in Requests : Passwd(r)
           \/ ResetRead \/ ResetWrite \/ DeleteUser \/ Restart
    PROVE  TypeOK'
<1>1. ASSUME NEW r \in Requests, PutUserPassword(r) PROVE TypeOK'
  <2>1. PICK new \in Passwords : Goto(r, [Holding("passwd_write", user) EXCEPT !.password = new])
    BY <1>1 DEF PutUserPassword
  <2>2. [Holding("passwd_write", user) EXCEPT !.password = new] \in Request
    BY HoldingType DEF Stages, Request, TypeOK
  <2> QED
    BY <1>1, <2>1, <2>2 DEF PutUserPassword, Goto, TypeOK, stored, drawn, past
<1>2. ASSUME NEW r \in Requests, PasswdWrite(r) PROVE TypeOK'
  <2>1. HashPassword(req[r].password) \in Hash
    BY HashType DEF TypeOK, Request
  <2>2. user' \in UserDBModel
    BY <1>2, <2>1, PasswordEffect DEF PasswdWrite, TypeOK
  <2> QED
    BY <1>2, <2>2, ReturnType DEF PasswdWrite, TypeOK, drawn, past
<1>3. CASE ResetRead
  BY <1>3 DEF ResetRead, TypeOK, drawn, past
<1>4. CASE ResetWrite
  <2>1. user' \in UserDBModel
    <3>1. ASSUME NEW password \in Passwords,
                 user' = ResetUserCredentials(user, HashPassword(password))
          PROVE  user' \in UserDBModel
      <4>1. HashPassword(password) \in Hash
        BY HashType
      <4> QED
        BY <3>1, <4>1, ResetEffect DEF TypeOK
    <3> QED
      BY <1>4, <3>1 DEF ResetWrite, TypeOK
  <2> QED
    BY <1>4, <2>1 DEF ResetWrite, TypeOK, drawn, past
<1>5. CASE DeleteUser
  BY <1>5, NoUserType DEF DeleteUser, TypeOK, drawn, past
<1>6. CASE Restart
  BY <1>6, IdleType DEF Restart, TypeOK, drawn, past
<1> QED
  BY <1>1, <1>2, <1>3, <1>4, <1>5, <1>6 DEF Passwd

\* The account the service starts with is well typed.
LEMMA InitType == Init => TypeOK
<1> SUFFICES ASSUME Init PROVE TypeOK
  OBVIOUS
<1>1. PICK format \in {"legacy", "argon2id"}, plain \in Passwords :
          user = [NoUser EXCEPT !.id = 1, !.password = [format |-> format, plain |-> plain]]
  BY DEF Init
<1>2. user \in UserDBModel
  BY <1>1 DEF UserDBModel, Hash, NoUser
<1> QED
  BY <1>2, IdleType DEF Init, TypeOK

\* Every reachable state of the sign-in and second-factor handlers is well typed.
THEOREM TypeCorrect == Spec => []TypeOK
<1>1. Init => TypeOK
  BY InitType
<1>2. TypeOK /\ [Next]_vars => TypeOK'
  <2> SUFFICES ASSUME TypeOK, [Next]_vars PROVE TypeOK'
    OBVIOUS
  <2>1. CASE UNCHANGED vars
    BY <2>1 DEF vars, TypeOK
  <2>2. CASE Next
    BY <2>2, LoginType, VerifyType, EnrolType, OtherType DEF Next
  <2> QED
    BY <2>1, <2>2
<1> QED
  BY <1>1, <1>2, PTL DEF Spec

-----------------------------------------------------------------------------
(* The inductive invariant.                                                *)

\* A step in which nobody comes to hold a seed or recovery codes to store, and
\* that hands out none, leaves what the requests it does not move hold fresh.
LEMMA RequestsKeep ==
    ASSUME Inv,
           \A s \in Requests :
                req'[s] = req[s] \/ req'[s].at \notin {"setup_write", "enable_write"},
           handed' = handed,
           drawnSecrets \subseteq drawnSecrets',
           drawnBatches \subseteq drawnBatches',
           user'.totpSecret \in {user.totpSecret, NoSecret}
    PROVE  \A s \in Requests : req'[s] = req[s] => RequestInv(s)'
<1> SUFFICES ASSUME NEW s \in Requests, req'[s] = req[s] PROVE RequestInv(s)'
  OBVIOUS
<1>0. RequestInv(s) /\ Enrolled' = Enrolled /\ Issued' = Issued
  BY DEF Inv, Enrolled, Issued
<1>1. req'[s].at = "setup_write" => FreshSeed(s)'
  <2> SUFFICES ASSUME req[s].at = "setup_write" PROVE FreshSeed(s)'
    OBVIOUS
  <2>1. FreshSeed(s)
    BY <1>0 DEF RequestInv
  <2>2. req[s].secret # NoSecret
    BY <2>1 DEF FreshSeed, Inv, TypeOK
  <2> QED
    BY <1>0, <2>1, <2>2 DEF FreshSeed
<1>2. req'[s].at = "enable_write" => FreshCodes(s)'
  <2> SUFFICES ASSUME req[s].at = "enable_write" PROVE FreshCodes(s)'
    OBVIOUS
  <2>1. FreshCodes(s)
    BY <1>0 DEF RequestInv
  <2> QED
    BY <1>0, <2>1 DEF FreshCodes
<1> QED
  BY <1>0, <1>1, <1>2 DEF RequestInv

\* A step that leaves the 2FA columns and the factors used alone.
Quiet ==
    /\ user'.id = user.id
    /\ user'.totpEnabled = user.totpEnabled
    /\ user'.totpSecret = user.totpSecret
    /\ user'.totpLastStep = user.totpLastStep
    /\ user'.recoveryCodes = user.recoveryCodes
    /\ UNCHANGED <<usedTOTP, usedRecovery, replays, handed>>
    /\ drawnSecrets \subseteq drawnSecrets'
    /\ drawnBatches \subseteq drawnBatches'

\* Such a step keeps every part of the invariant but those on requests.
LEMMA QuietKeeps ==
    ASSUME Inv, TypeOK', Quiet, LoginStopsAtFactor', \A r \in Requests : RequestInv(r)'
    PROVE  Inv'
<1>0. Enrolled' = Enrolled /\ Issued' = Issued
  BY DEF Quiet, Enrolled, Issued
<1>1. RowInv'
  BY <1>0 DEF Inv, RowInv, EnabledHasSecret, Quiet
<1>2. HistoryInv'
  BY <1>0 DEF Inv, HistoryInv, Quiet
<1>3. AcceptedStepsRecorded' /\ HandedCodesAreStored' /\ NoFactorReplay'
  BY DEF Inv, AcceptedStepsRecorded, HandedCodesAreStored, NoFactorReplay, Quiet
<1> QED
  BY <1>1, <1>2, <1>3 DEF Inv

\* A quiet step that moves one request to a stage at which it stores neither a
\* seed nor recovery codes.
LEMMA QuietMove ==
    ASSUME Inv, TypeOK', Quiet, LoginStopsAtFactor',
           NEW r \in Requests, NEW q \in Request, req' = [req EXCEPT ![r] = q],
           q.at \notin {"setup_write", "enable_write"},
           q.at = "verify_consume" => q.snap.totpSecret \in Enrolled,
           q.at = "recovery_write" => q.codes \subseteq q.snap.recoveryCodes,
           q.at = "disable_write" => q.snap.totpEnabled
    PROVE  Inv'
<1>1. req'[r] = q /\ \A s \in Requests : s # r => req'[s] = req[s]
  BY DEF Inv, TypeOK
<1>2. \A s \in Requests : req'[s] = req[s] => RequestInv(s)'
  BY <1>1, RequestsKeep DEF Quiet
<1>3. Enrolled' = Enrolled
  BY DEF Quiet, Enrolled
<1>4. RequestInv(r)'
  BY <1>1, <1>3 DEF RequestInv
<1> QED
  BY <1>1, <1>2, <1>4, QuietKeeps

\* A quiet step that leaves the requests alone, or ends them all.
LEMMA QuietRest ==
    ASSUME Inv, TypeOK', Quiet, LoginStopsAtFactor',
           req' = req \/ req' = [r \in Requests |-> Idle]
    PROVE  Inv'
<1>1. \A s \in Requests : req'[s] = req[s] => RequestInv(s)'
  BY RequestsKeep DEF Quiet, Idle
<1>2. \A s \in Requests : req'[s] = Idle => RequestInv(s)'
  BY DEF RequestInv, Idle
<1> QED
  BY <1>1, <1>2, QuietKeeps

\* A login that ends with a session found no pending seed, or 2FA is off.
LEMMA FinishLoginStops ==
    ASSUME LoginStopsAtFactor, NEW r, NEW row, NEW first, FinishLogin(r, row, first),
           Pending(first) => row.totpEnabled \/ user'.totpEnabled = FALSE
    PROVE  LoginStopsAtFactor'
BY DEF FinishLogin, LoginStopsAtFactor

\* What follows the password check ends the login or goes on to the clear.
LEMMA AfterPasswordStops ==
    ASSUME LoginStopsAtFactor, NEW r, NEW row, AfterPassword(r, row)
    PROVE  LoginStopsAtFactor'
BY FinishLoginStops DEF AfterPassword, LoginStopsAtFactor

\* The steps of a sign-in keep the invariant.
LEMMA LoginInv ==
    ASSUME Inv, NEW r \in Requests, Login(r)
    PROVE  Inv'
<1>0. TypeOK /\ TypeOK' /\ LoginStopsAtFactor
  BY LoginType DEF Inv
<1>1. /\ user \in UserDBModel
      /\ req[r] \in Request /\ req[r].snap \in UserDBModel
      /\ req[r].snap.totpSecret \in Secrets \cup {NoSecret}
      /\ req[r].snap.password \in Hash
      /\ HashPassword(req[r].password) \in Hash
  BY <1>0, HashType DEF TypeOK, Request, UserDBModel
<1>2. CASE PostUserLogin(r)
  <2>1. PICK password \in Passwords :
            \/ /\ Goto(r, [Holding("login_upgrade", user) EXCEPT !.password = password])
               /\ UNCHANGED <<preAuth, passwordOnly>>
            \/ AfterPassword(r, user)
    BY <1>2 DEF PostUserLogin
  <2>2. Quiet
    BY <1>2 DEF PostUserLogin, Quiet, drawn
  <2>3. LoginStopsAtFactor'
    BY <1>0, <2>1, AfterPasswordStops DEF LoginStopsAtFactor
  <2>4. CASE AfterPassword(r, user)
    <3>1. Idle \in Request /\ Idle.at = "idle"
      BY IdleType DEF Idle
    <3>2. Holding("login_clear", user) \in Request /\ Holding("login_clear", user).at = "login_clear"
      BY <1>1, HoldingType DEF Stages
    <3>3. \/ req' = [req EXCEPT ![r] = Idle]
          \/ req' = [req EXCEPT ![r] = Holding("login_clear", user)]
      BY <1>0, <1>1, <2>4, AfterPasswordType DEF TypeOK
    <3> QED
      BY <1>0, <2>2, <2>3, <3>1, <3>2, <3>3, QuietMove
  <2>5. CASE Goto(r, [Holding("login_upgrade", user) EXCEPT !.password = password])
    <3>1. /\ Holding("login_upgrade", user) \in Request
          /\ Holding("login_upgrade", user).at = "login_upgrade"
      BY <1>1, HoldingType DEF Stages
    <3>2. \A q \in Request : [q EXCEPT !.password = password] \in Request
                             /\ [q EXCEPT !.password = password].at = q.at
      BY DEF Request
    <3> QED
      BY <1>0, <2>2, <2>3, <2>5, <3>1, <3>2, QuietMove DEF Goto
  <2> QED
    BY <2>1, <2>4, <2>5
<1>3. CASE upgradePassword(r)
  <2>1. Quiet
    BY <1>1, <1>3, ReplaceHashEffect DEF upgradePassword, Quiet, drawn
  <2>2. LoginStopsAtFactor'
    BY <1>0, <1>3, AfterPasswordStops DEF upgradePassword
  <2>3. Idle \in Request /\ Idle.at = "idle"
    BY IdleType DEF Idle
  <2>4. /\ Holding("login_clear", req[r].snap) \in Request
        /\ Holding("login_clear", req[r].snap).at = "login_clear"
    BY <1>1, HoldingType DEF Stages
  <2>5. \/ req' = [req EXCEPT ![r] = Idle]
        \/ req' = [req EXCEPT ![r] = Holding("login_clear", req[r].snap)]
    BY <1>0, <1>1, <1>3, AfterPasswordType DEF upgradePassword, TypeOK
  <2> QED
    BY <1>0, <2>1, <2>2, <2>3, <2>4, <2>5, QuietMove
<1>4. CASE LoginClear(r)
  <2>1. PICK ok \in BOOLEAN :
            /\ user' = ClearPendingTOTP(ok, user, req[r].snap.totpSecret).row
            /\ \/ /\ ClearPendingTOTP(ok, user, req[r].snap.totpSecret).changed
                  /\ FinishLogin(r, req[r].snap, req[r].snap)
               \/ /\ ~ClearPendingTOTP(ok, user, req[r].snap.totpSecret).changed
                  /\ Goto(r, [req[r] EXCEPT !.at = "login_reread"])
                  /\ UNCHANGED <<preAuth, passwordOnly>>
    BY <1>4 DEF LoginClear
  <2> DEFINE e == ClearPendingTOTP(ok, user, req[r].snap.totpSecret)
  <2>e. \/ /\ e.changed /\ user.id # 0 /\ ~user.totpEnabled
           /\ e.row.id = user.id /\ e.row.totpEnabled = FALSE
           /\ e.row.totpSecret = NoSecret /\ e.row.totpLastStep = user.totpLastStep
           /\ e.row.recoveryCodes = user.recoveryCodes
        \/ ~e.changed /\ e.row = user
    BY <1>1 DEF ClearPendingTOTP, changedOne, UserDBModel
  <2>f. /\ user' = e.row
        /\ \/ e.changed /\ FinishLogin(r, req[r].snap, req[r].snap)
           \/ /\ ~e.changed /\ Goto(r, [req[r] EXCEPT !.at = "login_reread"])
              /\ UNCHANGED <<preAuth, passwordOnly>>
    BY <2>1
  <2> HIDE DEF e
  <2>2. CASE e.changed
    <3>1. /\ user'.id = user.id /\ user.id # 0 /\ ~user.totpEnabled
          /\ user'.totpEnabled = FALSE /\ user'.totpSecret = NoSecret
          /\ user'.totpLastStep = user.totpLastStep
          /\ user'.recoveryCodes = user.recoveryCodes
      BY <2>2, <2>e, <2>f
    <3>2. /\ UNCHANGED <<usedTOTP, usedRecovery, replays, handed, drawnSecrets, drawnBatches>>
          /\ Enrolled' = Enrolled /\ Issued' = Issued
      BY <1>4 DEF LoginClear, drawn, Enrolled, Issued
    <3>3. FinishLogin(r, req[r].snap, req[r].snap) /\ req' = [req EXCEPT ![r] = Idle]
      BY <2>f, <2>2 DEF FinishLogin, Return
    <3>4. LoginStopsAtFactor'
      BY <1>0, <3>1, <3>3, FinishLoginStops
    <3>5. RowInv'
      <4>1. NoSecret \notin Enrolled
        BY <1>0 DEF Inv, HistoryInv, TypeOK
      <4> QED
        BY <3>1, <3>2, <4>1 DEF Inv, RowInv, EnabledHasSecret
    <3>6. HistoryInv' /\ NoFactorReplay' /\ AcceptedStepsRecorded' /\ HandedCodesAreStored'
      BY <3>1, <3>2 DEF Inv, HistoryInv, NoFactorReplay, AcceptedStepsRecorded, HandedCodesAreStored
    <3>7. \A s \in Requests : RequestInv(s)'
      <4>1. /\ \A s \in Requests : s # r => req'[s] = req[s]
            /\ req'[r] = Idle
        BY <1>0, <3>3 DEF TypeOK
      <4>2. RequestInv(r)'
        BY <4>1 DEF RequestInv, Idle
      <4>3. \A s \in Requests : req'[s] = req[s] => RequestInv(s)'
        BY <3>1, <3>2, <4>1, RequestsKeep DEF Idle
      <4> QED
        BY <4>1, <4>2, <4>3
    <3> QED
      BY <1>0, <3>4, <3>5, <3>6, <3>7 DEF Inv
  <2>3. CASE ~e.changed
    <3>1. user' = user
      BY <2>3, <2>e, <2>f
    <3>2. Quiet
      BY <1>4, <3>1 DEF LoginClear, Quiet, drawn
    <3>3. LoginStopsAtFactor' /\ req' = [req EXCEPT ![r] = [req[r] EXCEPT !.at = "login_reread"]]
      BY <1>0, <2>f, <2>3 DEF LoginStopsAtFactor, Goto
    <3>4. /\ [req[r] EXCEPT !.at = "login_reread"] \in Request
          /\ [req[r] EXCEPT !.at = "login_reread"].at = "login_reread"
      BY <1>1 DEF Request, Stages
    <3> QED
      BY <1>0, <3>2, <3>3, <3>4, QuietMove
  <2> QED
    BY <2>2, <2>3
<1>5. CASE LoginReread(r)
  <2>1. PICK ok \in BOOLEAN :
            \/ Return(r) /\ UNCHANGED <<preAuth, passwordOnly>>
            \/ /\ GetUserAllInfo(ok, user).id # 0
               /\ FinishLogin(r, GetUserAllInfo(ok, user), req[r].snap)
    BY <1>5 DEF LoginReread
  <2>2. Quiet /\ user' = user
    BY <1>5 DEF LoginReread, Quiet, drawn
  <2>3. GetUserAllInfo(ok, user).id # 0 => GetUserAllInfo(ok, user) = user
    BY DEF GetUserAllInfo, NoUser
  <2>4. user'.totpEnabled \in BOOLEAN
    BY <1>1, <2>2 DEF UserDBModel
  <2>5. LoginStopsAtFactor'
    BY <1>0, <2>1, <2>2, <2>3, <2>4, FinishLoginStops DEF LoginStopsAtFactor
  <2>6. req' = [req EXCEPT ![r] = Idle]
    BY <2>1 DEF FinishLogin, Return
  <2>7. Idle \in Request /\ Idle.at = "idle"
    BY IdleType DEF Idle
  <2> QED
    BY <1>0, <2>2, <2>5, <2>6, <2>7, QuietMove
<1> QED
  BY <1>2, <1>3, <1>4, <1>5 DEF Login

\* A request that answers after a step that hands out nothing.
LEMMA ReturnKeeps ==
    ASSUME Inv, NEW r \in Requests, Return(r), handed' = handed,
           drawnSecrets' = drawnSecrets, drawnBatches' = drawnBatches,
           user'.totpSecret \in {user.totpSecret, NoSecret}
    PROVE  \A s \in Requests : RequestInv(s)'
<1>1. req'[r] = Idle /\ \A s \in Requests : s # r => req'[s] = req[s]
  BY DEF Inv, TypeOK, Return
<1>2. RequestInv(r)'
  BY <1>1 DEF RequestInv, Idle
<1>3. \A s \in Requests : req'[s] = req[s] => RequestInv(s)'
  BY <1>1, RequestsKeep DEF Idle
<1> QED
  BY <1>1, <1>2, <1>3

\* The steps of /2fa/verify keep the invariant.
LEMMA VerifyInv ==
    ASSUME Inv, NEW r \in Requests, Verify(r)
    PROVE  Inv'
<1>0. TypeOK /\ TypeOK'
  BY VerifyType DEF Inv
<1>1. /\ user \in UserDBModel
      /\ req[r] \in Request /\ req[r].snap \in UserDBModel /\ req[r].step \in Nat
      /\ req[r].codes \in SUBSET Codes /\ req[r].snap.recoveryCodes \in SUBSET Codes
  BY <1>0 DEF TypeOK, Request, UserDBModel, Steps
<1>2. CASE PostUser2FAVerify(r)
  <2>1. Quiet /\ LoginStopsAtFactor'
    BY <1>2 DEF PostUser2FAVerify, Quiet, stored, drawn, past, Inv, LoginStopsAtFactor
  <2>2. user.totpEnabled /\ user.totpSecret \in Enrolled
    BY <1>2 DEF PostUser2FAVerify, Inv, HandedCodesAreStored, Enrolled
  <2>3. ASSUME NEW step \in Steps,
               Goto(r, [Holding("verify_consume", user) EXCEPT !.step = step])
        PROVE  Inv'
    <3>1. /\ Holding("verify_consume", user) \in Request
          /\ Holding("verify_consume", user).at = "verify_consume"
          /\ Holding("verify_consume", user).snap = user
      BY <1>1, HoldingType DEF Stages
    <3>2. \A q \in Request : /\ [q EXCEPT !.step = step] \in Request
                             /\ [q EXCEPT !.step = step].at = q.at
                             /\ [q EXCEPT !.step = step].snap = q.snap
      BY DEF Request
    <3> QED
      BY <1>0, <2>1, <2>2, <2>3, <3>1, <3>2, QuietMove DEF Goto
  <2>4. ASSUME NEW batch \in drawnBatches, NEW code \in NewRecoveryCodes(batch),
               Goto(r, [Holding("recovery_read", user) EXCEPT !.codes = {code}])
        PROVE  Inv'
    <3>1. /\ Holding("recovery_read", user) \in Request
          /\ Holding("recovery_read", user).at = "recovery_read"
      BY <1>1, HoldingType DEF Stages
    <3>2. {code} \in SUBSET Codes
      BY <1>0, NewRecoveryCodesType DEF TypeOK
    <3>3. \A q \in Request : /\ [q EXCEPT !.codes = {code}] \in Request
                             /\ [q EXCEPT !.codes = {code}].at = q.at
      BY <3>2 DEF Request
    <3> QED
      BY <1>0, <2>1, <2>4, <3>1, <3>3, QuietMove DEF Goto
  <2> QED
    BY <1>2, <2>3, <2>4 DEF PostUser2FAVerify
<1>3. CASE VerifyConsume(r)
  <2> DEFINE code == Code(req[r].snap.totpSecret, req[r].step)
             live == user.totpEnabled /\ user.totpSecret = req[r].snap.totpSecret
  <2>1. /\ user'.id = user.id /\ user'.totpEnabled = user.totpEnabled
        /\ user'.totpSecret = user.totpSecret /\ user'.recoveryCodes = user.recoveryCodes
        /\ \/ /\ user.totpLastStep < req[r].step /\ user'.totpLastStep = req[r].step
              /\ AcceptTOTP(code, live)
           \/ user'.totpLastStep = user.totpLastStep /\ UNCHANGED <<usedTOTP, replays>>
    BY <1>1, <1>3 DEF VerifyConsume, ConsumeTOTPStep, changedOne, UserDBModel
  <2>2. /\ UNCHANGED <<usedRecovery, handed, drawnSecrets, drawnBatches, passwordOnly>>
        /\ Enrolled' = Enrolled /\ Issued' = Issued
    BY <1>3 DEF VerifyConsume, drawn, Enrolled, Issued
  <2>3. code.secret = req[r].snap.totpSecret /\ code.step = req[r].step
    BY DEF Code
  <2>4. req[r].snap.totpSecret \in Enrolled
    BY <1>3 DEF VerifyConsume, Inv, RequestInv
  <2> HIDE DEF code
  <2>5. RowInv'
    BY <2>1, <2>2 DEF Inv, RowInv, EnabledHasSecret
  <2>6. HistoryInv'
    BY <2>1, <2>2, <2>3, <2>4 DEF Inv, HistoryInv, AcceptTOTP
  <2>7. \A s \in Requests : RequestInv(s)'
    BY <1>3, <2>1, <2>2, ReturnKeeps DEF VerifyConsume
  <2>8. AcceptedStepsRecorded'
    <3> SUFFICES ASSUME user.totpEnabled, NEW c \in usedTOTP', c.secret = user.totpSecret
                 PROVE  c.step <= user'.totpLastStep
      BY <2>1 DEF AcceptedStepsRecorded
    <3>1. c.step \in Nat /\ user.totpLastStep \in Nat /\ user'.totpLastStep \in Nat
      BY <1>0 DEF TypeOK, Steps, UserDBModel
    <3>2. c \in usedTOTP => c.step <= user.totpLastStep
      BY DEF Inv, AcceptedStepsRecorded
    <3> QED
      BY <1>1, <2>1, <2>3, <3>1, <3>2 DEF AcceptTOTP
  <2>9. HandedCodesAreStored' /\ LoginStopsAtFactor'
    BY <2>1, <2>2 DEF Inv, HandedCodesAreStored, LoginStopsAtFactor
  <2>10. NoFactorReplay'
    <3>1. user.totpLastStep < req[r].step /\ live => code \notin usedTOTP
      <4> SUFFICES ASSUME user.totpLastStep < req[r].step, live, code \in usedTOTP PROVE FALSE
        OBVIOUS
      <4>1. code.step <= user.totpLastStep
        BY <2>3 DEF Inv, AcceptedStepsRecorded
      <4> QED
        BY <1>1, <2>3, <4>1 DEF UserDBModel
    <3> QED
      BY <2>1, <3>1 DEF Inv, NoFactorReplay, AcceptTOTP, Replay
  <2> QED
    BY <1>0, <2>5, <2>6, <2>7, <2>8, <2>9, <2>10 DEF Inv
<1>4. CASE RecoveryRead(r)
  <2>1. Quiet /\ LoginStopsAtFactor'
    BY <1>4 DEF RecoveryRead, Quiet, stored, drawn, past, Inv, LoginStopsAtFactor
  <2>2. PICK ok \in BOOLEAN :
            \/ /\ req[r].codes \subseteq GetUserAllInfo(ok, user).recoveryCodes
               /\ Goto(r, [req[r] EXCEPT !.at = "recovery_write", !.snap = GetUserAllInfo(ok, user)])
            \/ Return(r)
    BY <1>4 DEF RecoveryRead
  <2>3. GetUserAllInfo(ok, user) \in UserDBModel
    BY <1>1, NoUserType DEF GetUserAllInfo
  <2>4. \A row \in UserDBModel :
            LET q == [req[r] EXCEPT !.at = "recovery_write", !.snap = row] IN
            /\ q \in Request /\ q.at = "recovery_write"
            /\ q.snap = row /\ q.codes = req[r].codes
    BY <1>1 DEF Request, Stages
  <2>5. Idle \in Request /\ Idle.at = "idle"
    BY IdleType DEF Idle
  <2> QED
    BY <1>0, <2>1, <2>2, <2>3, <2>4, <2>5, QuietMove DEF Goto, Return
<1>5. CASE RecoveryWrite(r)
  <2>1. PICK code \in req[r].codes :
            /\ user'.id = user.id /\ user'.totpEnabled = user.totpEnabled
            /\ user'.totpSecret = user.totpSecret /\ user'.totpLastStep = user.totpLastStep
            /\ \/ /\ user.recoveryCodes = req[r].snap.recoveryCodes
                  /\ user'.recoveryCodes = user.recoveryCodes \ {code}
                  /\ AcceptRecovery(code, user.totpEnabled)
               \/ user'.recoveryCodes = user.recoveryCodes /\ UNCHANGED <<usedRecovery, replays>>
    BY <1>1, <1>5 DEF RecoveryWrite, UseRecoveryCode, ConsumeRecoveryCode, changedOne, UserDBModel
  <2>2. /\ UNCHANGED <<usedTOTP, handed, drawnSecrets, drawnBatches, passwordOnly>>
        /\ Enrolled' = Enrolled /\ Issued' = Issued
    BY <1>5 DEF RecoveryWrite, drawn, Enrolled, Issued
  <2>3. code \in req[r].snap.recoveryCodes
    BY <1>5 DEF RecoveryWrite, Inv, RequestInv
  <2>4. user.recoveryCodes = req[r].snap.recoveryCodes =>
            /\ user.totpEnabled
            /\ code \in Issued /\ code \notin usedRecovery
    BY <2>3 DEF Inv, RowInv, HandedCodesAreStored, Issued
  <2>5. RowInv'
    BY <2>1, <2>2, <2>4 DEF Inv, RowInv, EnabledHasSecret
  <2>6. HistoryInv'
    BY <2>1, <2>2, <2>4 DEF Inv, HistoryInv, AcceptRecovery
  <2>7. \A s \in Requests : RequestInv(s)'
    BY <1>5, <2>1, <2>2, ReturnKeeps DEF RecoveryWrite
  <2>8. AcceptedStepsRecorded' /\ LoginStopsAtFactor'
    BY <2>1, <2>2 DEF Inv, AcceptedStepsRecorded, LoginStopsAtFactor
  <2>9. HandedCodesAreStored'
    BY <2>1, <2>2 DEF Inv, HandedCodesAreStored, AcceptRecovery
  <2>10. NoFactorReplay'
    BY <2>1, <2>4 DEF Inv, NoFactorReplay, AcceptRecovery, Replay
  <2> QED
    BY <1>0, <2>5, <2>6, <2>7, <2>8, <2>9, <2>10 DEF Inv
<1> QED
  BY <1>2, <1>3, <1>4, <1>5 DEF Verify

\* An enrolment that ends, by a disable, -ru or the deletion of the row.
LEMMA EndKeeps ==
    ASSUME Inv, TypeOK',
           user'.totpEnabled = FALSE, user'.totpSecret = NoSecret, user'.recoveryCodes = {},
           UNCHANGED <<drawnSecrets, drawnBatches, usedTOTP, usedRecovery, replays, handed,
                       passwordOnly>>,
           \A s \in Requests : RequestInv(s)'
    PROVE  Inv'
<1>1. Enrolled' = Enrolled /\ Issued' = Issued /\ NoSecret \notin Enrolled
  BY DEF Enrolled, Issued, Inv, HistoryInv, TypeOK
<1>2. RowInv'
  BY <1>1 DEF RowInv, EnabledHasSecret
<1>3. HistoryInv'
  BY <1>1 DEF Inv, HistoryInv
<1>4. AcceptedStepsRecorded' /\ HandedCodesAreStored' /\ NoFactorReplay' /\ LoginStopsAtFactor'
  BY DEF Inv, AcceptedStepsRecorded, HandedCodesAreStored, NoFactorReplay, LoginStopsAtFactor
<1> QED
  BY <1>2, <1>3, <1>4 DEF Inv

\* The steps of /2fa/setup keep the invariant: a seed is drawn once.
LEMMA SetupInv ==
    ASSUME Inv, NEW r \in Requests, Setup(r)
    PROVE  Inv'
<1>0. TypeOK /\ TypeOK'
  BY EnrolType DEF Inv
<1>1. /\ user \in UserDBModel
      /\ req[r] \in Request /\ req[r].secret \in Secrets \cup {NoSecret}
  BY <1>0 DEF TypeOK, Request
<1>2. CASE PostUser2FASetup(r)
  <2>1. PICK secret \in Secrets \ drawnSecrets :
            /\ drawnSecrets' = drawnSecrets \cup {secret}
            /\ Goto(r, [Holding("setup_write", user) EXCEPT !.secret = secret])
    BY <1>2 DEF PostUser2FASetup
  <2>2. Quiet /\ LoginStopsAtFactor' /\ user' = user /\ drawnBatches' = drawnBatches
    BY <1>2, <2>1 DEF PostUser2FASetup, Quiet, stored, past, Inv, LoginStopsAtFactor
  <2>3. /\ Holding("setup_write", user) \in Request
        /\ Holding("setup_write", user).at = "setup_write"
    BY <1>1, HoldingType DEF Stages
  <2>4. \A q \in Request : [q EXCEPT !.secret = secret].at = q.at
                           /\ [q EXCEPT !.secret = secret].secret = secret
    BY DEF Request
  <2>5. /\ req'[r].at = "setup_write" /\ req'[r].secret = secret
        /\ \A s \in Requests : s # r => req'[s] = req[s]
    BY <1>0, <2>1, <2>3, <2>4 DEF Goto, TypeOK
  <2>6. Enrolled' = Enrolled /\ Issued' = Issued
    BY <2>2 DEF Quiet, Enrolled, Issued
  <2>7. /\ secret \notin Enrolled /\ secret # user.totpSecret
        /\ \A s \in Requests : req[s].at = "setup_write" => req[s].secret # secret
    BY <2>1 DEF Inv, HistoryInv, RowInv, RequestInv, FreshSeed
  <2>8. RequestInv(r)'
    BY <2>1, <2>2, <2>5, <2>6, <2>7 DEF RequestInv, FreshSeed
  <2>9. ASSUME NEW s \in Requests, s # r PROVE RequestInv(s)'
    <3>1. RequestInv(s) /\ req'[s] = req[s]
      BY <2>5, <2>9 DEF Inv
    <3>2. req[s].at = "setup_write" => FreshSeed(s)'
      BY <2>1, <2>2, <2>5, <2>6, <2>7, <3>1 DEF RequestInv, FreshSeed
    <3>3. req[s].at = "enable_write" => FreshCodes(s)'
      BY <2>2, <2>5, <2>6, <3>1 DEF RequestInv, FreshCodes
    <3> QED
      BY <2>6, <3>1, <3>2, <3>3 DEF RequestInv
  <2> QED
    BY <1>0, <2>2, <2>8, <2>9, QuietKeeps
<1>3. CASE SetupWrite(r)
  <2>1. \/ user' = user
        \/ /\ user.id # 0 /\ user'.id = user.id /\ ~user.totpEnabled
           /\ user'.totpEnabled = FALSE /\ user'.totpSecret = req[r].secret
           /\ user'.totpLastStep = user.totpLastStep
           /\ user'.recoveryCodes = user.recoveryCodes
    BY <1>1, <1>3 DEF SetupWrite, SetPendingTOTP, changedOne, UserDBModel
  <2>2. /\ UNCHANGED <<drawnSecrets, drawnBatches, usedTOTP, usedRecovery, replays, handed,
                       passwordOnly>>
        /\ Enrolled' = Enrolled /\ Issued' = Issued
    BY <1>3 DEF SetupWrite, drawn, past, Enrolled, Issued
  <2>3. FreshSeed(r)
    BY <1>3 DEF SetupWrite, Inv, RequestInv
  <2>4. req'[r] = Idle /\ \A s \in Requests : s # r => req'[s] = req[s]
    BY <1>0, <1>3 DEF SetupWrite, Return, TypeOK
  <2>5. RequestInv(r)'
    BY <2>4 DEF RequestInv, Idle
  <2>6. ASSUME NEW s \in Requests, s # r PROVE RequestInv(s)'
    <3>1. RequestInv(s) /\ req'[s] = req[s]
      BY <2>4, <2>6 DEF Inv
    <3>2. req[s].at = "setup_write" => FreshSeed(s)'
      BY <1>3, <2>1, <2>2, <2>3, <2>4, <2>6, <3>1 DEF SetupWrite, RequestInv, FreshSeed, Idle
    <3>3. req[s].at = "enable_write" => FreshCodes(s)'
      BY <2>2, <2>4, <3>1 DEF RequestInv, FreshCodes, Idle
    <3> QED
      BY <2>2, <3>1, <3>2, <3>3 DEF RequestInv
  <2>7. RowInv'
    BY <2>1, <2>2, <2>3 DEF Inv, RowInv, EnabledHasSecret, FreshSeed
  <2>8. HistoryInv'
    BY <2>2 DEF Inv, HistoryInv
  <2>9. AcceptedStepsRecorded' /\ HandedCodesAreStored' /\ NoFactorReplay' /\ LoginStopsAtFactor'
    BY <2>1, <2>2 DEF Inv, AcceptedStepsRecorded, HandedCodesAreStored, NoFactorReplay,
                      LoginStopsAtFactor
  <2> QED
    BY <1>0, <2>5, <2>6, <2>7, <2>8, <2>9 DEF Inv
<1> QED
  BY <1>2, <1>3 DEF Setup

\* The seeds and the recovery codes handed out, after one more enable.
LEMMA OneMoreHanded ==
    ASSUME NEW S, NEW h
    PROVE  /\ {x.secret : x \in S \cup {h}} = {x.secret : x \in S} \cup {h.secret}
           /\ UNION {x.codes : x \in S \cup {h}} = (UNION {x.codes : x \in S}) \cup h.codes
<1>1. {x.secret : x \in S \cup {h}} = {x.secret : x \in S} \cup {h.secret}
  BY Zenon
<1>2. {x.codes : x \in S \cup {h}} = {x.codes : x \in S} \cup {h.codes}
  BY Zenon
<1>3. \A T, c : UNION (T \cup {c}) = (UNION T) \cup c
  BY Zenon
<1> QED
  BY <1>1, <1>2, <1>3, Zenon

\* The steps of /2fa/enable keep the invariant: the seed it turns on was never
\* in force, and the recovery codes it stores were never anybody's.
LEMMA EnableInv ==
    ASSUME Inv, NEW r \in Requests, Enable(r)
    PROVE  Inv'
<1>0. TypeOK /\ TypeOK'
  BY EnrolType DEF Inv
<1>1. /\ user \in UserDBModel
      /\ req[r] \in Request /\ req[r].step \in Nat
      /\ req[r].codes \in SUBSET Codes /\ req[r].snap.totpSecret \in Secrets \cup {NoSecret}
  BY <1>0 DEF TypeOK, Request, UserDBModel, Steps
<1>2. CASE PostUser2FAEnable(r)
  <2>1. PICK step \in Steps, now \in Clock, batch \in Batches \ drawnBatches :
            /\ VerifyTOTP(user.totpSecret, Code(user.totpSecret, step), 0, now)
            /\ drawnBatches' = drawnBatches \cup {batch}
            /\ Goto(r, [Holding("enable_write", user) EXCEPT
                            !.step = step, !.codes = NewRecoveryCodes(batch)])
    BY <1>2 DEF PostUser2FAEnable
  <2>2. Quiet /\ LoginStopsAtFactor' /\ user' = user /\ drawnSecrets' = drawnSecrets
    BY <1>2, <2>1 DEF PostUser2FAEnable, Quiet, stored, past, Inv, LoginStopsAtFactor
  <2>3. /\ Holding("enable_write", user) \in Request
        /\ Holding("enable_write", user).at = "enable_write"
        /\ Holding("enable_write", user).snap = user
    BY <1>1, HoldingType DEF Stages
  <2>4. NewRecoveryCodes(batch) \in SUBSET Codes
        /\ \A code \in NewRecoveryCodes(batch) : code[1] = batch
    BY NewRecoveryCodesType
  <2>5. \A q \in Request, codes \in SUBSET Codes :
            LET p == [q EXCEPT !.step = step, !.codes = codes] IN
            p.at = q.at /\ p.snap = q.snap /\ p.step = step /\ p.codes = codes
    BY DEF Request
  <2>6. /\ req'[r].at = "enable_write" /\ req'[r].snap = user /\ req'[r].step = step
        /\ req'[r].codes = NewRecoveryCodes(batch)
        /\ \A s \in Requests : s # r => req'[s] = req[s]
    BY <1>0, <2>1, <2>3, <2>4, <2>5 DEF Goto, TypeOK
  <2>7. Enrolled' = Enrolled /\ Issued' = Issued
    BY <2>2 DEF Quiet, Enrolled, Issued
  <2>8. step > 0 /\ user.totpSecret # NoSecret
    BY <1>2, <2>1 DEF PostUser2FAEnable, VerifyTOTP, Code, Clock, Steps
  <2>9. /\ NewRecoveryCodes(batch) \cap Issued = {}
        /\ \A s \in Requests : req[s].at = "enable_write" =>
                req[s].codes \cap NewRecoveryCodes(batch) = {}
    BY <2>1, <2>4 DEF Inv, HistoryInv, RequestInv, FreshCodes
  <2>10. FreshCodes(r)'
    BY <2>1, <2>4, <2>6, <2>7, <2>9 DEF FreshCodes
  <2>11. RequestInv(r)'
    BY <2>6, <2>8, <2>10 DEF RequestInv
  <2>12. ASSUME NEW s \in Requests, s # r PROVE RequestInv(s)'
    <3>1. RequestInv(s) /\ req'[s] = req[s]
      BY <2>6, <2>12 DEF Inv
    <3>2. req[s].at = "setup_write" => FreshSeed(s)'
      BY <2>2, <2>6, <2>7, <3>1 DEF RequestInv, FreshSeed
    <3>3. req[s].at = "enable_write" => FreshCodes(s)'
      BY <2>1, <2>6, <2>7, <2>9, <3>1 DEF RequestInv, FreshCodes
    <3> QED
      BY <2>7, <3>1, <3>2, <3>3 DEF RequestInv
  <2> QED
    BY <1>0, <2>2, <2>11, <2>12, QuietKeeps
<1>3. CASE EnableWrite(r)
  <2> DEFINE seed == req[r].snap.totpSecret
             h    == [secret |-> seed, codes |-> req[r].codes]
             code == Code(seed, req[r].step)
  <2>1. \/ user' = user /\ UNCHANGED <<usedTOTP, replays, handed>>
        \/ /\ user.id # 0 /\ user'.id = user.id
           /\ ~user.totpEnabled /\ user'.totpEnabled = TRUE
           /\ user.totpSecret = seed /\ user'.totpSecret = seed
           /\ user'.totpLastStep = req[r].step /\ user'.recoveryCodes = req[r].codes
           /\ AcceptTOTP(code, TRUE) /\ handed' = handed \cup {h}
    BY <1>1, <1>3 DEF EnableWrite, EnableUserTOTP, changedOne, UserDBModel
  <2>2. UNCHANGED <<drawnSecrets, drawnBatches, usedRecovery, passwordOnly>>
    BY <1>3 DEF EnableWrite, drawn
  <2>3. FreshCodes(r) /\ req[r].step > 0 /\ seed # NoSecret
    BY <1>3 DEF EnableWrite, Inv, RequestInv
  <2>4. req'[r] = Idle /\ \A s \in Requests : s # r => req'[s] = req[s]
    BY <1>0, <1>3 DEF EnableWrite, Return, TypeOK
  <2>5. CASE user' = user /\ UNCHANGED <<usedTOTP, replays, handed>>
    <3>1. Quiet /\ LoginStopsAtFactor'
      BY <2>2, <2>5 DEF Quiet, Inv, LoginStopsAtFactor
    <3>2. Idle \in Request /\ Idle.at = "idle"
      BY IdleType DEF Idle
    <3> QED
      BY <1>0, <1>3, <3>1, <3>2, QuietMove DEF EnableWrite, Return
  <2>6. CASE /\ user.id # 0 /\ user'.id = user.id
             /\ ~user.totpEnabled /\ user'.totpEnabled = TRUE
             /\ user.totpSecret = seed /\ user'.totpSecret = seed
             /\ user'.totpLastStep = req[r].step /\ user'.recoveryCodes = req[r].codes
             /\ AcceptTOTP(code, TRUE) /\ handed' = handed \cup {h}
    <3>a. h.secret = seed /\ h.codes = req[r].codes
      OBVIOUS
    <3>b. handed' = handed \cup {h}
      BY <2>6
    <3> HIDE DEF h
    <3>1. Enrolled' = Enrolled \cup {seed}
      BY <3>a, <3>b, OneMoreHanded, Zenon DEF Enrolled
    <3>2. Issued' = Issued \cup req[r].codes
      BY <3>a, <3>b, OneMoreHanded DEF Issued
    <3>3. seed \notin Enrolled /\ seed \in drawnSecrets
      BY <2>3, <2>6 DEF Inv, RowInv
    <3>4. code.secret = seed /\ code.step = req[r].step /\ usedTOTP' = usedTOTP \cup {code}
      BY <2>6 DEF Code, AcceptTOTP
    <3>5. code \notin usedTOTP
      BY <3>3, <3>4 DEF Inv, HistoryInv
    <3>6. RowInv'
      BY <2>2, <2>3, <2>6, <3>3 DEF RowInv, EnabledHasSecret
    <3>7. HistoryInv'
      <4>1. \A c \in usedTOTP' : c.secret \in Enrolled'
        BY <3>1, <3>4 DEF Inv, HistoryInv
      <4>2. usedRecovery' \subseteq Issued' /\ Enrolled' \subseteq drawnSecrets'
        BY <2>2, <3>1, <3>2, <3>3 DEF Inv, HistoryInv
      <4>3. \A c \in Issued' : c[1] \in drawnBatches'
        BY <2>2, <2>3, <3>2 DEF Inv, HistoryInv, FreshCodes
      <4> QED
        BY <4>1, <4>2, <4>3 DEF HistoryInv
    <3>8. RequestInv(r)'
      BY <2>4 DEF RequestInv, Idle
    <3>9. ASSUME NEW s \in Requests, s # r PROVE RequestInv(s)'
      <4>1. RequestInv(s) /\ req'[s] = req[s]
        BY <2>4, <3>9 DEF Inv
      <4>2. req[s].at = "setup_write" => FreshSeed(s)'
        BY <2>2, <2>4, <2>6, <3>1, <4>1 DEF RequestInv, FreshSeed, Idle
      <4>3. req[s].at = "enable_write" => FreshCodes(s)'
        <5> SUFFICES ASSUME req[s].at = "enable_write" PROVE FreshCodes(s)'
          OBVIOUS
        <5>1. FreshCodes(s) /\ req[r].at = "enable_write"
          BY <1>3, <4>1 DEF RequestInv, EnableWrite
        <5>2. req[s].codes \cap req[r].codes = {}
          BY <3>9, <5>1 DEF FreshCodes
        <5> QED
          BY <2>2, <2>4, <3>2, <4>1, <5>1, <5>2 DEF FreshCodes, Idle
      <4> QED
        BY <3>1, <4>1, <4>2, <4>3 DEF RequestInv
    <3>10. AcceptedStepsRecorded'
      <4> SUFFICES ASSUME NEW c \in usedTOTP', c.secret = seed PROVE c.step <= req[r].step
        BY <2>6 DEF AcceptedStepsRecorded
      <4>1. c = code
        BY <3>3, <3>4 DEF Inv, HistoryInv
      <4> QED
        BY <1>1, <3>4, <4>1
    <3>11. HandedCodesAreStored'
      <4>1. h \in handed' /\ h.secret = seed /\ h.codes = req[r].codes
        BY <3>a, <3>b
      <4>2. req[r].codes \cap usedRecovery = {}
        BY <2>3 DEF Inv, HistoryInv, FreshCodes
      <4>3. user'.recoveryCodes = h.codes \ usedRecovery'
        BY <2>2, <2>6, <4>1, <4>2
      <4> QED
        BY <2>6, <4>1, <4>3 DEF HandedCodesAreStored
    <3>12. NoFactorReplay' /\ LoginStopsAtFactor'
      BY <2>2, <2>6, <3>5 DEF Inv, NoFactorReplay, LoginStopsAtFactor, AcceptTOTP, Replay
    <3> QED
      BY <1>0, <3>6, <3>7, <3>8, <3>9, <3>10, <3>11, <3>12 DEF Inv
  <2> QED
    BY <2>1, <2>5, <2>6
<1> QED
  BY <1>2, <1>3 DEF Enable

\* The steps of /2fa/disable keep the invariant.
LEMMA DisableInv ==
    ASSUME Inv, NEW r \in Requests, Disable(r)
    PROVE  Inv'
<1>0. TypeOK /\ TypeOK'
  BY EnrolType DEF Inv
<1>1. user \in UserDBModel /\ req[r] \in Request
  BY <1>0 DEF TypeOK, Request
<1>2. Idle \in Request /\ Idle.at = "idle"
  BY IdleType DEF Idle
<1>3. CASE PostUser2FADisable(r)
  <2>1. Quiet /\ LoginStopsAtFactor'
    BY <1>3 DEF PostUser2FADisable, Quiet, stored, drawn, past, Inv, LoginStopsAtFactor
  <2>2. /\ Holding("disable_write", user) \in Request
        /\ Holding("disable_write", user).at = "disable_write"
        /\ Holding("disable_write", user).snap = user
    BY <1>1, HoldingType DEF Stages
  <2> QED
    BY <1>0, <1>3, <2>1, <2>2, QuietMove DEF PostUser2FADisable, Goto
<1>4. CASE DisableWrite(r)
  <2>1. \/ user' = user
        \/ /\ user'.totpEnabled = FALSE /\ user'.totpSecret = NoSecret
           /\ user'.recoveryCodes = {}
    BY <1>1, <1>4 DEF DisableWrite, DisableUserTOTP, changedOne, UserDBModel
  <2>2. UNCHANGED <<drawnSecrets, drawnBatches, usedTOTP, usedRecovery, replays, handed,
                    passwordOnly>>
    BY <1>4 DEF DisableWrite, drawn, past
  <2>3. CASE user' = user
    <3>1. Quiet /\ LoginStopsAtFactor'
      BY <2>2, <2>3 DEF Quiet, Inv, LoginStopsAtFactor
    <3> QED
      BY <1>0, <1>2, <1>4, <3>1, QuietMove DEF DisableWrite, Return
  <2>4. CASE user'.totpEnabled = FALSE /\ user'.totpSecret = NoSecret /\ user'.recoveryCodes = {}
    <3>1. \A s \in Requests : RequestInv(s)'
      BY <1>4, <2>2, <2>4, ReturnKeeps DEF DisableWrite
    <3> QED
      BY <1>0, <2>2, <2>4, <3>1, EndKeeps
  <2> QED
    BY <2>1, <2>3, <2>4
<1> QED
  BY <1>3, <1>4 DEF Disable

\* Password changes, -ru, a deletion and a restart keep the invariant.
LEMMA OtherInv ==
    ASSUME Inv,
           \/ \E r \in Requests : Passwd(r)
           \/ ResetRead \/ ResetWrite \/ DeleteUser \/ Restart
    PROVE  Inv'
<1>0. TypeOK /\ TypeOK'
  BY OtherType DEF Inv
<1>1. user \in UserDBModel
  BY <1>0 DEF TypeOK
<1>2. Idle \in Request /\ Idle.at = "idle"
  BY IdleType DEF Idle
<1>3. ASSUME NEW r \in Requests, PutUserPassword(r) PROVE Inv'
  <2>1. Quiet /\ LoginStopsAtFactor'
    BY <1>3 DEF PutUserPassword, Quiet, stored, drawn, past, Inv, LoginStopsAtFactor
  <2>2. PICK new \in Passwords : Goto(r, [Holding("passwd_write", user) EXCEPT !.password = new])
    BY <1>3 DEF PutUserPassword
  <2>3. /\ Holding("passwd_write", user) \in Request
        /\ Holding("passwd_write", user).at = "passwd_write"
    BY <1>1, HoldingType DEF Stages
  <2>4. \A q \in Request : [q EXCEPT !.password = new] \in Request
                           /\ [q EXCEPT !.password = new].at = q.at
    BY DEF Request
  <2> QED
    BY <1>0, <2>1, <2>2, <2>3, <2>4, QuietMove DEF Goto
<1>4. ASSUME NEW r \in Requests, PasswdWrite(r) PROVE Inv'
  <2>1. HashPassword(req[r].password) \in Hash
    BY <1>0, HashType DEF TypeOK, Request
  <2>2. Quiet /\ LoginStopsAtFactor'
    <3>1. UNCHANGED <<drawnSecrets, drawnBatches, usedTOTP, usedRecovery, replays, handed,
                      passwordOnly>>
      BY <1>4 DEF PasswdWrite, drawn, past
    <3>2. user' = user \/ user' = UpdateUserPassword(user, HashPassword(req[r].password))
      BY <1>4 DEF PasswdWrite
    <3>3. Quiet
      BY <1>1, <2>1, <3>1, <3>2, PasswordEffect DEF Quiet
    <3> QED
      BY <3>1, <3>3 DEF Inv, LoginStopsAtFactor
  <2> QED
    BY <1>0, <1>2, <1>4, <2>2, QuietMove DEF PasswdWrite, Return
<1>5. CASE ResetRead
  <2>1. Quiet /\ LoginStopsAtFactor' /\ req' = req
    BY <1>5 DEF ResetRead, Quiet, drawn, past, Inv, LoginStopsAtFactor
  <2> QED
    BY <1>0, <2>1, QuietRest
<1>6. CASE ResetWrite
  <2>1. \/ user' = user
        \/ /\ user'.totpEnabled = FALSE /\ user'.totpSecret = NoSecret
           /\ user'.recoveryCodes = {}
    BY <1>1, <1>6 DEF ResetWrite, ResetUserCredentials, UserDBModel
  <2>2. UNCHANGED <<drawnSecrets, drawnBatches, usedTOTP, usedRecovery, replays, handed,
                    passwordOnly, req>>
    BY <1>6 DEF ResetWrite, drawn, past
  <2>3. CASE user' = user
    <3>1. Quiet /\ LoginStopsAtFactor'
      BY <2>2, <2>3 DEF Quiet, Inv, LoginStopsAtFactor
    <3> QED
      BY <1>0, <2>2, <3>1, QuietRest
  <2>4. CASE user'.totpEnabled = FALSE /\ user'.totpSecret = NoSecret /\ user'.recoveryCodes = {}
    BY <1>0, <2>2, <2>4, RequestsKeep, EndKeeps
  <2> QED
    BY <2>1, <2>3, <2>4
<1>7. CASE DeleteUser
  <2>1. /\ user'.totpEnabled = FALSE /\ user'.totpSecret = NoSecret /\ user'.recoveryCodes = {}
        /\ UNCHANGED <<drawnSecrets, drawnBatches, usedTOTP, usedRecovery, replays, handed,
                       passwordOnly, req>>
    BY <1>7 DEF DeleteUser, NoUser, drawn, past
  <2> QED
    BY <1>0, <2>1, RequestsKeep, EndKeeps
<1>8. CASE Restart
  <2>1. Quiet /\ LoginStopsAtFactor' /\ req' = [r \in Requests |-> Idle]
    BY <1>8 DEF Restart, Quiet, drawn, past, Inv, LoginStopsAtFactor
  <2> QED
    BY <1>0, <2>1, QuietRest
<1> QED
  BY <1>3, <1>4, <1>5, <1>6, <1>7, <1>8 DEF Passwd

\* The inductive invariant holds in every reachable state, whatever the number of
\* requests in flight: it starts true and every step keeps it.
THEOREM InvHolds == Spec => []Inv
<1>1. Init => Inv
  <2> SUFFICES ASSUME Init PROVE Inv
    OBVIOUS
  <2>1. TypeOK
    BY InitType
  <2>2. /\ user.id = 1 /\ user.totpEnabled = FALSE /\ user.totpSecret = NoSecret
        /\ user.recoveryCodes = {}
    BY DEF Init, NoUser
  <2>3. Enrolled = {} /\ Issued = {}
    BY DEF Init, Enrolled, Issued
  <2>4. RowInv /\ HistoryInv
    BY <2>2, <2>3 DEF Init, RowInv, HistoryInv, EnabledHasSecret
  <2>5. \A r \in Requests : RequestInv(r)
    BY DEF Init, RequestInv, Idle
  <2> QED
    BY <2>1, <2>2, <2>4, <2>5 DEF Init, Inv, AcceptedStepsRecorded, HandedCodesAreStored,
                                  NoFactorReplay, LoginStopsAtFactor
<1>2. Inv /\ [Next]_vars => Inv'
  <2> SUFFICES ASSUME Inv, [Next]_vars PROVE Inv'
    OBVIOUS
  <2>1. CASE UNCHANGED vars
    <3>1. Quiet /\ LoginStopsAtFactor' /\ TypeOK' /\ req' = req
      BY <2>1 DEF vars, Quiet, Inv, TypeOK, LoginStopsAtFactor
    <3> QED
      BY <3>1, QuietRest
  <2>2. CASE Next
    BY <2>2, LoginInv, VerifyInv, SetupInv, EnableInv, DisableInv, OtherInv DEF Next
  <2> QED
    BY <2>1, <2>2
<1> QED
  BY <1>1, <1>2, PTL DEF Spec

\* Two-factor authentication that is on always has a seed to answer it with.
THEOREM EnabledHasSecretHolds == Spec => []EnabledHasSecret
<1>1. Inv => EnabledHasSecret
  BY DEF Inv, RowInv
<1> QED
  BY <1>1, InvHolds, PTL

\* No TOTP code and no recovery code passes twice in the enrolment it belongs to,
\* however many requests carry it at once.
THEOREM NoFactorReplayHolds == Spec => []NoFactorReplay
<1>1. Inv => NoFactorReplay
  BY DEF Inv
<1> QED
  BY <1>1, InvHolds, PTL

\* Every code accepted from the seed in force is behind the recorded step.
THEOREM AcceptedStepsRecordedHolds == Spec => []AcceptedStepsRecorded
<1>1. Inv => AcceptedStepsRecorded
  BY DEF Inv
<1> QED
  BY <1>1, InvHolds, PTL

\* The recovery codes an owner was shown are the ones in the row, less those used.
THEOREM HandedCodesAreStoredHolds == Spec => []HandedCodesAreStored
<1>1. Inv => HandedCodesAreStored
  BY DEF Inv
<1> QED
  BY <1>1, InvHolds, PTL

\* A login that found an abandoned setup never passes an enable that won the race.
THEOREM LoginStopsAtFactorHolds == Spec => []LoginStopsAtFactor
<1>1. Inv => LoginStopsAtFactor
  BY DEF Inv
<1> QED
  BY <1>1, InvHolds, PTL

-----------------------------------------------------------------------------
(* The password.                                                           *)

\* A step that moves one request, to a stage that does not replace a hash or to one
\* that holds the password it checked.
LEMMA UpgradeMove ==
    ASSUME TypeOK, UpgradeInv, NEW r \in Requests, NEW q, req' = [req EXCEPT ![r] = q],
           q.at = "login_upgrade" => q.snap.password.plain = q.password
    PROVE  UpgradeInv'
BY DEF TypeOK, UpgradeInv

\* What follows the password check replaces no hash.
LEMMA AfterPasswordMove ==
    ASSUME NEW r \in Requests, NEW row, AfterPassword(r, row)
    PROVE  \E q : req' = [req EXCEPT ![r] = q] /\ q.at \in {"idle", "login_clear"}
<1>1. Idle.at = "idle" /\ Holding("login_clear", row).at = "login_clear"
  BY DEF Holding, Idle
<1> QED BY <1>1 DEF AfterPassword, FinishLogin, Return, Goto

\* A sign-in holds the password it checked.
LEMMA LoginUpgrade ==
    ASSUME TypeOK, UpgradeInv, NEW r \in Requests, Login(r)
    PROVE  UpgradeInv'
<1>1. CASE PostUserLogin(r)
  <2>1. PICK password \in Passwords :
            /\ VerifyPassword(user.password, password)
            /\ \/ Goto(r, [Holding("login_upgrade", user) EXCEPT !.password = password])
               \/ AfterPassword(r, user)
    BY <1>1 DEF PostUserLogin
  <2>2. LET q == [Holding("login_upgrade", user) EXCEPT !.password = password] IN
        q.snap.password.plain = q.password
    BY <2>1 DEF Holding, Idle, VerifyPassword
  <2> QED BY <2>1, <2>2, UpgradeMove, AfterPasswordMove DEF Goto
<1>2. CASE upgradePassword(r)
  BY <1>2, UpgradeMove, AfterPasswordMove DEF upgradePassword
<1>3. CASE LoginClear(r) \/ LoginReread(r)
  <2>1. Idle.at = "idle" /\ [req[r] EXCEPT !.at = "login_reread"].at = "login_reread"
    BY DEF Idle, TypeOK, Request
  <2>2. \/ req' = [req EXCEPT ![r] = Idle]
        \/ req' = [req EXCEPT ![r] = [req[r] EXCEPT !.at = "login_reread"]]
    BY <1>3 DEF LoginClear, LoginReread, FinishLogin, Return, Goto
  <2> QED BY <2>1, <2>2, UpgradeMove
<1> QED BY <1>1, <1>2, <1>3 DEF Login

\* The other handlers replace no hash.
LEMMA OtherUpgrade ==
    ASSUME TypeOK, UpgradeInv, NEW r \in Requests,
           Verify(r) \/ Setup(r) \/ Enable(r) \/ Disable(r) \/ Passwd(r)
    PROVE  UpgradeInv'
<1>1. Idle.at = "idle"
  BY DEF Idle
<1>2. ASSUME Return(r) PROVE UpgradeInv'
  BY <1>1, <1>2, UpgradeMove DEF Return
<1>3. ASSUME NEW q, Goto(r, q), q.at # "login_upgrade" PROVE UpgradeInv'
  BY <1>3, UpgradeMove DEF Goto
<1>4. CASE Verify(r)
  <2>1. CASE PostUser2FAVerify(r)
    <3>1. \A step, codes : /\ [Holding("verify_consume", user) EXCEPT !.step = step].at # "login_upgrade"
                           /\ [Holding("recovery_read", user) EXCEPT !.codes = codes].at # "login_upgrade"
      BY DEF Holding, Idle
    <3> QED BY <1>3, <2>1, <3>1 DEF PostUser2FAVerify
  <2>2. CASE RecoveryRead(r)
    <3>1. \A row : [req[r] EXCEPT !.at = "recovery_write", !.snap = row].at # "login_upgrade"
      BY DEF TypeOK, Request
    <3> QED BY <1>2, <1>3, <2>2, <3>1 DEF RecoveryRead
  <2>3. CASE VerifyConsume(r) \/ RecoveryWrite(r)
    BY <1>2, <2>3 DEF VerifyConsume, RecoveryWrite
  <2> QED BY <1>4, <2>1, <2>2, <2>3 DEF Verify
<1>5. CASE Setup(r)
  <2>1. \A secret : [Holding("setup_write", user) EXCEPT !.secret = secret].at # "login_upgrade"
    BY DEF Holding, Idle
  <2> QED BY <1>2, <1>3, <1>5, <2>1 DEF Setup, PostUser2FASetup, SetupWrite
<1>6. CASE Enable(r)
  <2>1. \A step, codes : [Holding("enable_write", user) EXCEPT
                              !.step = step, !.codes = codes].at # "login_upgrade"
    BY DEF Holding, Idle
  <2> QED BY <1>2, <1>3, <1>6, <2>1 DEF Enable, PostUser2FAEnable, EnableWrite
<1>7. CASE Disable(r)
  <2>1. Holding("disable_write", user).at # "login_upgrade"
    BY DEF Holding, Idle
  <2> QED BY <1>2, <1>3, <1>7, <2>1 DEF Disable, PostUser2FADisable, DisableWrite
<1>8. CASE Passwd(r)
  <2>1. \A new : [Holding("passwd_write", user) EXCEPT !.password = new].at # "login_upgrade"
    BY DEF Holding, Idle
  <2> QED BY <1>2, <1>3, <1>8, <2>1 DEF Passwd, PutUserPassword, PasswdWrite
<1> QED BY <1>4, <1>5, <1>6, <1>7, <1>8

\* Whoever is about to replace a hash holds the password it was made from.
LEMMA UpgradeInvHolds == Spec => []UpgradeInv
<1>1. Init => UpgradeInv
  BY DEF Init, UpgradeInv, Idle
<1>2. TypeOK /\ UpgradeInv /\ [Next]_vars => UpgradeInv'
  <2> SUFFICES ASSUME TypeOK, UpgradeInv, [Next]_vars PROVE UpgradeInv'
    OBVIOUS
  <2>1. ASSUME req' = req \/ req' = [r \in Requests |-> Idle] PROVE UpgradeInv'
    BY <2>1 DEF UpgradeInv, Idle
  <2>2. CASE UNCHANGED vars \/ ResetRead \/ ResetWrite \/ DeleteUser \/ Restart
    BY <2>1, <2>2 DEF vars, ResetRead, ResetWrite, DeleteUser, Restart
  <2> QED BY <2>2, LoginUpgrade, OtherUpgrade DEF Next
<1> QED BY <1>1, <1>2, TypeCorrect, PTL DEF Spec

\* The step of a write that changes the password of the account at all.
LEMMA PasswordKept ==
    ASSUME TypeOK, UpgradeInv, [Next]_vars
    PROVE  \/ user'.password.plain = user.password.plain
           \/ \E r \in Requests : Answered(r, "passwd_write")
           \/ cli = "write" /\ cli' = "idle"
           \/ user'.id = 0
<1>0. user \in UserDBModel /\ \A r \in Requests : req[r] \in Request
  BY DEF TypeOK
<1>1. CASE UNCHANGED user
  BY <1>1
<1>2. ASSUME NEW r \in Requests, upgradePassword(r)
      PROVE  user'.password.plain = user.password.plain
  <2>1. PICK ok \in BOOLEAN :
            user' = ReplacePasswordHash(ok, user, req[r].snap.password,
                                        HashPassword(req[r].password)).row
    BY <1>2 DEF upgradePassword
  <2>2. req[r].snap.password \in Hash /\ HashPassword(req[r].password) \in Hash
    BY <1>0, HashType DEF Request, UserDBModel
  <2>3. HashPassword(req[r].password).plain = req[r].snap.password.plain
    BY <1>2 DEF upgradePassword, UpgradeInv, HashPassword
  <2> QED BY <1>0, <2>1, <2>2, <2>3, ReplaceHashEffect
<1>3. ASSUME NEW r \in Requests,
             LoginClear(r) \/ SetupWrite(r) \/ VerifyConsume(r) \/ RecoveryWrite(r)
                \/ EnableWrite(r) \/ DisableWrite(r)
      PROVE  user'.password = user.password
  BY <1>0, <1>3 DEF LoginClear, SetupWrite, VerifyConsume, RecoveryWrite, EnableWrite,
        DisableWrite, ClearPendingTOTP, SetPendingTOTP, ConsumeTOTPStep, UseRecoveryCode,
        EnableUserTOTP, DisableUserTOTP, changedOne, UserDBModel
<1>4. ASSUME NEW r \in Requests, PasswdWrite(r) PROVE Answered(r, "passwd_write")
  BY <1>4 DEF PasswdWrite, Return, Answered, Idle, TypeOK
<1>5. ResetWrite => cli = "write" /\ cli' = "idle"
  BY DEF ResetWrite
<1>6. DeleteUser => user'.id = 0
  BY DEF DeleteUser, NoUser
<1>7. ASSUME NEW r \in Requests,
             \/ PostUserLogin(r) \/ LoginReread(r) \/ PostUser2FAVerify(r) \/ RecoveryRead(r)
             \/ PostUser2FASetup(r) \/ PostUser2FAEnable(r) \/ PostUser2FADisable(r)
             \/ PutUserPassword(r)
      PROVE  UNCHANGED user
  BY <1>7 DEF PostUserLogin, LoginReread, PostUser2FAVerify, RecoveryRead, PostUser2FASetup,
        PostUser2FAEnable, PostUser2FADisable, PutUserPassword, stored
<1>8. ResetRead \/ Restart \/ UNCHANGED vars => UNCHANGED user
  BY DEF ResetRead, Restart, vars
<1> QED
  BY <1>1, <1>2, <1>3, <1>4, <1>5, <1>6, <1>7, <1>8
  DEF Next, Login, Verify, Setup, Enable, Disable, Passwd

\* No sign-in puts an earlier password back, whatever it read and however late its
\* upgrade of the hash lands (service/user.go:114-120).
THEOREM SignInKeepsPasswordHolds == Spec => SignInKeepsPassword
<1>1. TypeOK /\ UpgradeInv /\ [Next]_vars =>
        [ user'.password.plain # user.password.plain =>
            \/ \E r \in Requests : Answered(r, "passwd_write")
            \/ cli = "write" /\ cli' = "idle"
            \/ user'.id = 0 ]_vars
  BY PasswordKept
<1> QED BY <1>1, TypeCorrect, UpgradeInvHolds, PTL DEF Spec, SignInKeepsPassword

-----------------------------------------------------------------------------
(* What a step can do to the enrolment.                                    *)

\* Nothing, except that a step may be recorded in a row that is off.
EnrolmentStays ==
    /\ user'.totpEnabled = user.totpEnabled /\ user'.totpSecret = user.totpSecret
    /\ user'.recoveryCodes = user.recoveryCodes /\ handed' = handed
    /\ user.totpEnabled => user'.totpLastStep = user.totpLastStep

\* A seed that was never in force is pending.
SeedSet ==
    /\ ~user.totpEnabled /\ ~user'.totpEnabled /\ handed' = handed
    /\ user'.totpSecret \in Secrets \ Enrolled

\* The pending seed, if there is one, is cleared.
SeedCleared ==
    /\ ~user.totpEnabled /\ ~user'.totpEnabled /\ handed' = handed
    /\ user'.totpSecret = NoSecret

\* The pending seed is in force, with recovery codes nobody ever had.
SeedConfirmed ==
    /\ ~user.totpEnabled /\ user'.totpEnabled
    /\ user.totpSecret # NoSecret /\ user'.totpSecret = user.totpSecret
    /\ user'.totpLastStep > 0
    /\ user'.recoveryCodes \subseteq Codes \ Issued
    /\ handed' = handed \cup {[secret |-> user.totpSecret, codes |-> user'.recoveryCodes]}

\* A TOTP code of the enrolment is used, or a recovery code.
FactorUsed ==
    /\ user.totpEnabled /\ user'.totpEnabled /\ user'.totpSecret = user.totpSecret
    /\ handed' = handed
    /\ \/ user'.totpLastStep > user.totpLastStep /\ user'.recoveryCodes = user.recoveryCodes
       \/ /\ user'.totpLastStep = user.totpLastStep
          /\ \E c \in user.recoveryCodes : user'.recoveryCodes = user.recoveryCodes \ {c}

\* The enrolment, if there is one, ends on request.
AskedToEnd ==
    \/ \E r \in Requests : /\ Answered(r, "disable_write")
                           /\ req[r].snap.totpEnabled
                           /\ req[r].snap.totpSecret = user.totpSecret
    \/ cli = "write" /\ cli' = "idle"
    \/ user'.id = 0

Ended ==
    /\ AskedToEnd
    /\ ~user'.totpEnabled /\ user'.totpSecret = NoSecret /\ user'.recoveryCodes = {}
    /\ handed' = handed

EnrolmentStep ==
    EnrolmentStays \/ SeedSet \/ SeedCleared \/ SeedConfirmed \/ FactorUsed \/ Ended

\* A sign-in clears a pending seed at most.
LEMMA LoginStep ==
    ASSUME Inv, NEW r \in Requests, Login(r)
    PROVE  EnrolmentStays \/ SeedCleared
<1>0. /\ user \in UserDBModel /\ req[r].snap.totpSecret \in Secrets \cup {NoSecret}
      /\ req[r].snap.password \in Hash /\ HashPassword(req[r].password) \in Hash
  BY HashType DEF Inv, TypeOK, Request, UserDBModel
<1>1. handed' = handed
  BY DEF Login, PostUserLogin, upgradePassword, LoginClear, LoginReread
<1>2. CASE PostUserLogin(r) \/ LoginReread(r)
  BY <1>1, <1>2 DEF PostUserLogin, LoginReread, EnrolmentStays
<1>3. CASE upgradePassword(r)
  BY <1>0, <1>1, <1>3, ReplaceHashEffect DEF upgradePassword, EnrolmentStays
<1>4. CASE LoginClear(r)
  <2>1. PICK ok \in BOOLEAN : user' = ClearPendingTOTP(ok, user, req[r].snap.totpSecret).row
    BY <1>4 DEF LoginClear
  <2>2. \/ user' = user
        \/ ~user.totpEnabled /\ user'.totpEnabled = FALSE /\ user'.totpSecret = NoSecret
    BY <1>0, <2>1, ClearEffect
  <2> QED BY <1>1, <2>2 DEF EnrolmentStays, SeedCleared
<1> QED BY <1>2, <1>3, <1>4 DEF Login

\* A verify uses one factor at most.
LEMMA VerifyStep ==
    ASSUME Inv, NEW r \in Requests, Verify(r)
    PROVE  EnrolmentStays \/ FactorUsed
<1>0. /\ user \in UserDBModel /\ req[r].step \in Nat
      /\ req[r].codes \in SUBSET Codes /\ req[r].snap.recoveryCodes \in SUBSET Codes
  BY DEF Inv, TypeOK, Request, UserDBModel, Steps
<1>1. handed' = handed
  BY DEF Verify, PostUser2FAVerify, VerifyConsume, RecoveryRead, RecoveryWrite, past
<1>2. CASE PostUser2FAVerify(r) \/ RecoveryRead(r)
  BY <1>1, <1>2 DEF PostUser2FAVerify, RecoveryRead, stored, EnrolmentStays
<1>3. CASE VerifyConsume(r)
  <2>1. PICK ok \in BOOLEAN : user' = ConsumeTOTPStep(ok, user, req[r].step).row
    BY <1>3 DEF VerifyConsume
  <2>2. \/ user' = user
        \/ /\ user.totpLastStep < req[r].step /\ user'.totpLastStep = req[r].step
           /\ user'.totpEnabled = user.totpEnabled /\ user'.totpSecret = user.totpSecret
           /\ user'.recoveryCodes = user.recoveryCodes
    BY <1>0, <2>1, ConsumeEffect
  <2>3. user.totpLastStep \in Nat
    BY <1>0 DEF UserDBModel
  <2> QED BY <1>0, <1>1, <2>2, <2>3 DEF EnrolmentStays, FactorUsed
<1>4. CASE RecoveryWrite(r)
  <2>1. PICK ok \in BOOLEAN, code \in req[r].codes :
            user' = UseRecoveryCode(ok, user, req[r].snap.recoveryCodes, code).row
    BY <1>4 DEF RecoveryWrite
  <2>2. \/ user' = user
        \/ /\ user.recoveryCodes = req[r].snap.recoveryCodes
           /\ user'.recoveryCodes = user.recoveryCodes \ {code}
           /\ user'.totpEnabled = user.totpEnabled /\ user'.totpSecret = user.totpSecret
           /\ user'.totpLastStep = user.totpLastStep
    BY <1>0, <2>1 DEF UseRecoveryCode, ConsumeRecoveryCode, changedOne, UserDBModel
  <2>3. code \in req[r].snap.recoveryCodes
    BY <1>4 DEF RecoveryWrite, Inv, RequestInv
  <2>4. user.recoveryCodes = req[r].snap.recoveryCodes => user.totpEnabled
    BY <2>3 DEF Inv, RowInv
  <2> QED BY <1>1, <2>2, <2>3, <2>4 DEF EnrolmentStays, FactorUsed
<1> QED BY <1>2, <1>3, <1>4 DEF Verify

\* A setup makes a fresh seed pending.
LEMMA SetupStep ==
    ASSUME Inv, NEW r \in Requests, Setup(r)
    PROVE  EnrolmentStays \/ SeedSet
<1>0. user \in UserDBModel /\ req[r].secret \in Secrets \cup {NoSecret}
  BY DEF Inv, TypeOK, Request
<1>1. handed' = handed
  BY DEF Setup, PostUser2FASetup, SetupWrite, past
<1>2. CASE PostUser2FASetup(r)
  BY <1>1, <1>2 DEF PostUser2FASetup, stored, EnrolmentStays
<1>3. CASE SetupWrite(r)
  <2>1. PICK ok \in BOOLEAN : user' = SetPendingTOTP(ok, user, req[r].secret).row
    BY <1>3 DEF SetupWrite
  <2>2. \/ user' = user
        \/ ~user.totpEnabled /\ user'.totpEnabled = FALSE /\ user'.totpSecret = req[r].secret
    BY <1>0, <2>1, SetPendingEffect
  <2>3. req[r].secret \in Secrets \ Enrolled
    BY <1>3 DEF SetupWrite, Inv, RequestInv, FreshSeed, TypeOK
  <2> QED BY <1>1, <2>2, <2>3 DEF EnrolmentStays, SeedSet
<1> QED BY <1>2, <1>3 DEF Setup

\* An enable turns the pending seed on.
LEMMA EnableStep ==
    ASSUME Inv, NEW r \in Requests, Enable(r)
    PROVE  EnrolmentStays \/ SeedConfirmed
<1>0. /\ user \in UserDBModel /\ req[r].snap.totpSecret \in Secrets \cup {NoSecret}
      /\ req[r].step \in Nat /\ req[r].codes \in SUBSET Codes
  BY DEF Inv, TypeOK, Request, UserDBModel, Steps
<1>1. CASE PostUser2FAEnable(r)
  BY <1>1 DEF PostUser2FAEnable, stored, past, EnrolmentStays
<1>2. CASE EnableWrite(r)
  <2> DEFINE seed == req[r].snap.totpSecret
  <2>1. \/ user' = user /\ handed' = handed
        \/ /\ ~user.totpEnabled /\ user'.totpEnabled = TRUE
           /\ user.totpSecret = seed /\ user'.totpSecret = user.totpSecret
           /\ user'.totpLastStep = req[r].step /\ user'.recoveryCodes = req[r].codes
           /\ handed' = handed \cup {[secret |-> seed, codes |-> req[r].codes]}
    BY <1>0, <1>2 DEF EnableWrite, EnableUserTOTP, changedOne, UserDBModel
  <2>2. /\ req[r].codes \cap Issued = {} /\ req[r].step > 0 /\ seed # NoSecret
    BY <1>2 DEF EnableWrite, Inv, RequestInv, FreshCodes
  <2> QED BY <1>0, <2>1, <2>2 DEF EnrolmentStays, SeedConfirmed
<1> QED BY <1>1, <1>2 DEF Enable

\* A disable ends the enrolment it was checked against.
LEMMA DisableStep ==
    ASSUME Inv, NEW r \in Requests, Disable(r)
    PROVE  EnrolmentStays \/ Ended
<1>0. user \in UserDBModel /\ req[r].snap.totpSecret \in Secrets \cup {NoSecret}
  BY DEF Inv, TypeOK, Request, UserDBModel
<1>1. handed' = handed
  BY DEF Disable, PostUser2FADisable, DisableWrite, past
<1>2. CASE PostUser2FADisable(r)
  BY <1>1, <1>2 DEF PostUser2FADisable, stored, EnrolmentStays
<1>3. CASE DisableWrite(r)
  <2>1. PICK ok \in BOOLEAN : user' = DisableUserTOTP(ok, user, req[r].snap.totpSecret).row
    BY <1>3 DEF DisableWrite
  <2>2. \/ user' = user
        \/ /\ user.totpSecret = req[r].snap.totpSecret
           /\ user'.totpEnabled = FALSE /\ user'.totpSecret = NoSecret
           /\ user'.recoveryCodes = {}
    BY <1>0, <2>1 DEF DisableUserTOTP, changedOne, UserDBModel
  <2>3. Answered(r, "disable_write")
    BY <1>3 DEF DisableWrite, Return, Answered, Idle, Inv, TypeOK
  <2>4. req[r].snap.totpEnabled
    BY <1>3 DEF DisableWrite, Inv, RequestInv
  <2> QED BY <1>1, <2>2, <2>3, <2>4 DEF EnrolmentStays, Ended, AskedToEnd
<1> QED BY <1>2, <1>3 DEF Disable

\* So do -ru and a deletion; a password change and a restart leave it alone.
LEMMA OtherStep ==
    ASSUME Inv,
           \/ \E r \in Requests : Passwd(r)
           \/ ResetRead \/ ResetWrite \/ DeleteUser \/ Restart
    PROVE  EnrolmentStays \/ Ended
<1>0. user \in UserDBModel /\ \A r \in Requests : HashPassword(req[r].password) \in Hash
  BY HashType DEF Inv, TypeOK, Request
<1>1. handed' = handed
  BY DEF Passwd, PutUserPassword, PasswdWrite, ResetRead, ResetWrite, DeleteUser, Restart, past
<1>2. ASSUME UNCHANGED user PROVE EnrolmentStays
  BY <1>1, <1>2 DEF EnrolmentStays
<1>3. ASSUME NEW r \in Requests, Passwd(r) PROVE EnrolmentStays
  <2>1. \/ user' = user
        \/ user' = UpdateUserPassword(user, HashPassword(req[r].password))
    BY <1>3 DEF Passwd, PutUserPassword, PasswdWrite, stored
  <2> QED BY <1>0, <1>1, <2>1, PasswordEffect DEF EnrolmentStays
<1>4. CASE ResetRead \/ Restart
  BY <1>2, <1>4 DEF ResetRead, Restart
<1>5. CASE ResetWrite
  <2>1. \/ user' = user
        \/ \E password \in Hash : user' = ResetUserCredentials(user, password)
    BY <1>5, HashType DEF ResetWrite
  <2>2. \/ user' = user
        \/ user'.totpEnabled = FALSE /\ user'.totpSecret = NoSecret /\ user'.recoveryCodes = {}
    BY <1>0, <2>1 DEF ResetUserCredentials, UserDBModel
  <2>3. cli = "write" /\ cli' = "idle"
    BY <1>5 DEF ResetWrite
  <2> QED BY <1>1, <2>2, <2>3 DEF EnrolmentStays, Ended, AskedToEnd
<1>6. CASE DeleteUser
  BY <1>1, <1>6 DEF DeleteUser, NoUser, Ended, AskedToEnd
<1> QED BY <1>3, <1>4, <1>5, <1>6

\* Every step of the system is one of these.
LEMMA NextStep ==
    ASSUME Inv, [Next]_vars
    PROVE  EnrolmentStep
<1>1. CASE UNCHANGED vars
  BY <1>1 DEF vars, EnrolmentStays, EnrolmentStep
<1>2. CASE Next
  BY <1>2, LoginStep, VerifyStep, SetupStep, EnableStep, DisableStep, OtherStep
  DEF Next, EnrolmentStep
<1> QED BY <1>1, <1>2

\* An enrolment in force ends only by a disable whose factor was checked against it, by
\* -ru, or with the account, whichever stale requests are still on their way
\* (service/user.go:130-145).
THEOREM EnrolmentEndsAsAskedHolds == Spec => EnrolmentEndsAsAsked
<1>1. Inv /\ [Next]_vars =>
        [ user.totpEnabled /\ ~(user'.totpEnabled /\ user'.totpSecret = user.totpSecret) =>
            \/ \E r \in Requests : /\ Answered(r, "disable_write")
                                   /\ req[r].snap.totpEnabled
                                   /\ req[r].snap.totpSecret = user.totpSecret
            \/ cli = "write" /\ cli' = "idle"
            \/ user'.id = 0 ]_vars
  <2> SUFFICES ASSUME Inv, [Next]_vars, user.totpEnabled,
                      ~(user'.totpEnabled /\ user'.totpSecret = user.totpSecret)
               PROVE  AskedToEnd
    BY DEF AskedToEnd
  <2>1. EnrolmentStep
    BY NextStep
  <2> QED
    BY <2>1 DEF EnrolmentStep, EnrolmentStays, SeedSet, SeedCleared, SeedConfirmed,
                FactorUsed, Ended
<1> QED BY <1>1, InvHolds, PTL DEF Spec, EnrolmentEndsAsAsked

-----------------------------------------------------------------------------
(* The refinement of module Enrolment.                                     *)

\* The seeds and the recovery codes ever in force follow from what was handed out.
LEMMA HandedKept == handed' = handed => Enrolled' = Enrolled /\ Issued' = Issued
BY DEF Enrolled, Issued

\* An account starts without an enrolment.
LEMMA OwnerInit == Init => Owner!EnrolmentInit
<1> SUFFICES ASSUME Init PROVE Owner!EnrolmentInit
  OBVIOUS
<1>1. user.totpEnabled = FALSE /\ user.totpSecret = NoSecret
  BY DEF Init, NoUser
<1>2. Enrolled = {} /\ Issued = {}
  BY DEF Init, Enrolled, Issued
<1> QED BY <1>1, <1>2 DEF Owner!EnrolmentInit, Pending

\* Each step is a step of Enrolment, or leaves what the owner sees as it is.
LEMMA OwnerStep ==
    ASSUME Inv, Inv', [Next]_vars
    PROVE  [Owner!EnrolmentNext]_(Owner!evars)
<1>0. EnrolmentStep
  BY NextStep
<1>1. /\ user.totpEnabled \in BOOLEAN /\ user'.totpEnabled \in BOOLEAN
      /\ user.totpLastStep \in Nat /\ user'.totpLastStep \in Nat
  BY DEF Inv, TypeOK, UserDBModel
<1>2. CASE EnrolmentStays
  <2>1. Enrolled' = Enrolled /\ Issued' = Issued
    BY <1>2, HandedKept DEF EnrolmentStays
  <2> QED BY <1>1, <1>2, <2>1 DEF EnrolmentStays, Owner!evars, Pending
<1>3. CASE SeedSet
  <2>1. Enrolled' = Enrolled /\ Issued' = Issued
    BY <1>3, HandedKept DEF SeedSet
  <2>2. user'.totpSecret # NoSecret
    BY <1>3 DEF SeedSet
  <2>3. Owner!Propose
    BY <1>1, <1>3, <2>1, <2>2 DEF SeedSet, Owner!Propose, Pending
  <2> QED BY <2>3 DEF Owner!EnrolmentNext
<1>4. CASE SeedCleared
  <2>1. Enrolled' = Enrolled /\ Issued' = Issued
    BY <1>4, HandedKept DEF SeedCleared
  <2>2. CASE user.totpSecret = NoSecret
    BY <1>1, <1>4, <2>1, <2>2 DEF SeedCleared, Owner!evars, Pending
  <2>3. CASE user.totpSecret # NoSecret
    <3>1. Owner!Withdraw
      BY <1>1, <1>4, <2>1, <2>3 DEF SeedCleared, Owner!Withdraw, Pending
    <3> QED BY <3>1 DEF Owner!EnrolmentNext
  <2> QED BY <2>2, <2>3
<1>5. CASE SeedConfirmed
  <2> DEFINE h == [secret |-> user.totpSecret, codes |-> user'.recoveryCodes]
  <2>1. handed' = handed \cup {h} /\ h.secret = user.totpSecret /\ h.codes = user'.recoveryCodes
    BY <1>5 DEF SeedConfirmed
  <2> HIDE DEF h
  <2>2. Enrolled' = Enrolled \cup {user.totpSecret}
    BY <2>1, OneMoreHanded, Zenon DEF Enrolled
  <2>3. Issued' = Issued \cup user'.recoveryCodes
    BY <2>1, OneMoreHanded DEF Issued
  <2>4. Owner!Confirm
    BY <1>1, <1>5, <2>2, <2>3 DEF SeedConfirmed, Owner!Confirm, Pending
  <2> QED BY <2>4 DEF Owner!EnrolmentNext
<1>6. CASE FactorUsed
  <2>1. Enrolled' = Enrolled /\ Issued' = Issued
    BY <1>6, HandedKept DEF FactorUsed
  <2>2. Owner!UseStep \/ Owner!UseCode
    BY <1>1, <1>6, <2>1 DEF FactorUsed, Owner!UseStep, Owner!UseCode
  <2> QED BY <2>2 DEF Owner!EnrolmentNext
<1>7. CASE Ended
  <2>1. Enrolled' = Enrolled /\ Issued' = Issued
    BY <1>7, HandedKept DEF Ended
  <2>2. Owner!End
    BY <1>1, <1>7, <2>1 DEF Ended, Owner!End, Pending
  <2> QED BY <2>2 DEF Owner!EnrolmentNext
<1> QED BY <1>0, <1>2, <1>3, <1>4, <1>5, <1>6, <1>7 DEF EnrolmentStep

\* The handlers implement the enrolment its owner sees, for any number of requests,
\* seeds, recovery codes and clock readings: each statement of theirs is one step of it,
\* or none.
THEOREM ImplementsEnrolmentHolds == Spec => ImplementsEnrolment
<1>1. Init => Owner!EnrolmentInit
  BY OwnerInit
<1>2. Inv /\ Inv' /\ [Next]_vars => [Owner!EnrolmentNext]_(Owner!evars)
  BY OwnerStep
<1> QED
  BY <1>1, <1>2, InvHolds, PTL DEF Spec, ImplementsEnrolment, Owner!EnrolmentSpec

=============================================================================
