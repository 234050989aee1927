----------------------------- MODULE UserStore -----------------------------
(***************************************************************************)
(* One row of o_users and the statements the user service runs on it       *)
(* (service/user.go, service/totp.go, pkg/utils/encryption/password.go).   *)
(*                                                                         *)
(* SQLite executes a statement under its write lock and the service holds  *)
(* a single connection, so each statement is one atomic function of the    *)
(* row.  A conditional UPDATE yields the row it leaves and whether it      *)
(* changed exactly one row; ok says whether the database executed it at    *)
(* all (a locked or broken database does not).                             *)
(***************************************************************************)
EXTENDS Naturals

CONSTANTS
    Passwords,      \* plaintext passwords a person may choose
    NoPassword,     \* the password column of a row that is not there
    Secrets,        \* TOTP seeds totp.Generate may draw
    NoSecret,       \* the empty totp_secret
    Batches,        \* one per call of NewRecoveryCodes
    NumCodes        \* recovery codes in a batch (8 in the code)

ASSUME SecretsAssumption == NoSecret \notin Secrets
ASSUME PasswordsAssumption == NoPassword \notin Passwords
ASSUME NumCodesAssumption == NumCodes \in Nat \ {0}

-----------------------------------------------------------------------------
(* Passwords.  A stored hash is abstracted to its format and the password  *)
(* it was made from.  "legacy" stands for the unsalted MD5 and for argon2id *)
(* with other parameters than today's.  The salt is left out: the only     *)
(* comparison of two hashes is the one of ReplacePasswordHash, whose left  *)
(* side is legacy, and no statement ever writes a legacy hash.             *)

Hash == [format : {"none", "legacy", "argon2id"}, plain : Passwords \cup {NoPassword}]

HashPassword(password) == [format |-> "argon2id", plain |-> password]

VerifyPassword(stored, candidate) == stored.format # "none" /\ stored.plain = candidate

NeedsRehash(stored) == stored.format # "argon2id"

-----------------------------------------------------------------------------
(* Second factors.  A six-digit code is the pair of the seed and the 30 s  *)
(* step it was computed from.  A recovery code is a member of its batch;   *)
(* the stored list never holds a code twice and only ever loses members,   *)
(* so the set of its codes determines the list.                            *)

Codes == Batches \X Nat

NewRecoveryCodes(batch) == {batch} \X (1..NumCodes)

Code(secret, step) == [secret |-> secret, step |-> step]

\* VerifyTOTP's loop over the current step and its two neighbours: the step
\* matched must be later than lastStep.
VerifyTOTP(secret, code, lastStep, now) ==
    /\ code.secret = secret
    /\ \E step \in {now - 1, now, now + 1} : code.step = step /\ step > lastStep

ConsumeRecoveryCode(hashes, code) == hashes \ {code}

-----------------------------------------------------------------------------
(* The row.  A read that finds nothing, or fails, leaves the zero model,   *)
(* whose Id is 0.                                                          *)

UserDBModel ==
    [ id            : {0, 1},
      password      : Hash,
      totpSecret    : Secrets \cup {NoSecret},
      totpEnabled   : BOOLEAN,
      totpLastStep  : Nat,
      recoveryCodes : SUBSET Codes ]

NoUser ==
    [ id            |-> 0,
      password      |-> [format |-> "none", plain |-> NoPassword],
      totpSecret    |-> NoSecret,
      totpEnabled   |-> FALSE,
      totpLastStep  |-> 0,
      recoveryCodes |-> {} ]

\* GetUserAllInfoById and GetUserAllInfoByName drop the error of First.
GetUserAllInfo(ok, row) == IF ok THEN row ELSE NoUser

-----------------------------------------------------------------------------
(* Conditional updates.                                                    *)

\* changedOne that takes a statement that failed for one that changed a row.
Bug_changedOne(ok, where, row, new) ==
    [row |-> IF ok /\ row.id # 0 /\ where THEN new ELSE row,
     changed |-> ~ok \/ (row.id # 0 /\ where)]

changedOne(ok, where, row, new) ==
    [row |-> IF ok /\ row.id # 0 /\ where THEN new ELSE row,
     changed |-> ok /\ row.id # 0 /\ where]

\* EnableUserTOTP keyed on the id alone.
Bug_EnableUserTOTP(ok, row, secret, step, codes) ==
    changedOne(ok, TRUE, row,
        [row EXCEPT !.totpEnabled = TRUE, !.totpLastStep = step, !.recoveryCodes = codes])

EnableUserTOTP(ok, row, secret, step, codes) ==
    changedOne(ok, ~row.totpEnabled /\ row.totpSecret = secret, row,
        [row EXCEPT !.totpEnabled = TRUE, !.totpLastStep = step, !.recoveryCodes = codes])

\* ReplacePasswordHash keyed on the id alone.
Bug_ReplacePasswordHash(ok, row, current, replacement) ==
    changedOne(ok, TRUE, row, [row EXCEPT !.password = replacement])

ReplacePasswordHash(ok, row, current, replacement) ==
    changedOne(ok, row.password = current, row, [row EXCEPT !.password = replacement])

\* ClearPendingTOTP that does not ask for the row to be still disabled.
Bug_ClearPendingTOTP(ok, row, secret) ==
    changedOne(ok, row.totpSecret = secret, row, [row EXCEPT !.totpSecret = NoSecret])

ClearPendingTOTP(ok, row, secret) ==
    changedOne(ok, ~row.totpEnabled /\ row.totpSecret = secret, row,
        [row EXCEPT !.totpSecret = NoSecret])

\* SetPendingTOTP keyed on the id alone.
Bug_SetPendingTOTP(ok, row, secret) ==
    changedOne(ok, TRUE, row, [row EXCEPT !.totpSecret = secret])

SetPendingTOTP(ok, row, secret) ==
    changedOne(ok, ~row.totpEnabled, row, [row EXCEPT !.totpSecret = secret])

\* DisableUserTOTP that turns off whatever enrolment it finds.
Bug_DisableUserTOTP(ok, row, secret) ==
    changedOne(ok, row.totpEnabled, row,
        [row EXCEPT !.totpSecret = NoSecret, !.totpEnabled = FALSE,
                    !.totpLastStep = 0, !.recoveryCodes = {}])

DisableUserTOTP(ok, row, secret) ==
    changedOne(ok, row.totpEnabled /\ row.totpSecret = secret, row,
        [row EXCEPT !.totpSecret = NoSecret, !.totpEnabled = FALSE,
                    !.totpLastStep = 0, !.recoveryCodes = {}])

\* ConsumeTOTPStep that accepts the recorded step again.
Bug_ConsumeTOTPStep(ok, row, step) ==
    changedOne(ok, row.totpLastStep <= step, row, [row EXCEPT !.totpLastStep = step])

ConsumeTOTPStep(ok, row, step) ==
    changedOne(ok, row.totpLastStep < step, row, [row EXCEPT !.totpLastStep = step])

\* The UPDATE of UseRecoveryCode without its compare-and-set.
Bug_UseRecoveryCode(ok, row, prev, code) ==
    changedOne(ok, TRUE, row, [row EXCEPT !.recoveryCodes = ConsumeRecoveryCode(prev, code)])

\* The UPDATE of UseRecoveryCode, keyed on the list prev as it was read.
UseRecoveryCode(ok, row, prev, code) ==
    changedOne(ok, row.recoveryCodes = prev, row,
        [row EXCEPT !.recoveryCodes = ConsumeRecoveryCode(prev, code)])

-----------------------------------------------------------------------------
(* Unconditional updates, keyed on the id only: they report an error when  *)
(* the statement fails and none when it changed no row.                    *)

ResetUserCredentials(row, password) ==
    IF row.id = 0 THEN row
    ELSE [row EXCEPT !.password = password, !.totpSecret = NoSecret, !.totpEnabled = FALSE,
                     !.totpLastStep = 0, !.recoveryCodes = {}]

UpdateUserPassword(row, password) ==
    IF row.id = 0 THEN row ELSE [row EXCEPT !.password = password]

=============================================================================
