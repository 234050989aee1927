----------------------------- MODULE Enrolment -----------------------------
(***************************************************************************)
(* What two-factor authentication promises the owner of an account, as if  *)
(* every request were served at once: an enrolment is proposed with a seed *)
(* no enrolment had before, confirmed, used, and ended.  While it is in    *)
(* force its seed does not change, the recorded step only grows, recovery  *)
(* codes only disappear; once ended, its seed and its recovery codes never *)
(* come back.                                                              *)
(***************************************************************************)
EXTENDS Naturals

CONSTANTS Secrets, NoSecret, Codes

VARIABLES
    phase,      \* "off", "pending", "on"
    secret,     \* the seed proposed or in force
    last,       \* the last step accepted in this enrolment
    unused,     \* the recovery codes left in this enrolment
    enrolled,   \* every seed that has been in force
    issued      \* every recovery code handed to the owner

evars == <<phase, secret, last, unused, enrolled, issued>>

EnrolmentInit ==
    /\ phase = "off" /\ secret = NoSecret /\ last = 0 /\ unused = {}
    /\ enrolled = {} /\ issued = {}

\* /2fa/setup: a new seed replaces one that was only proposed.
Propose ==
    /\ phase # "on" /\ phase' = "pending"
    /\ secret' \in Secrets \ enrolled
    /\ UNCHANGED <<last, unused, enrolled, issued>>

\* A sign-in drops a proposal that was never confirmed.
Withdraw ==
    /\ phase = "pending" /\ phase' = "off" /\ secret' = NoSecret
    /\ UNCHANGED <<last, unused, enrolled, issued>>

\* /2fa/enable: the code it was confirmed with counts as used.
Confirm ==
    /\ phase = "pending" /\ phase' = "on" /\ UNCHANGED secret
    /\ last' \in Nat \ {0}
    /\ unused' \subseteq Codes \ issued
    /\ enrolled' = enrolled \cup {secret}
    /\ issued' = issued \cup unused'

\* /2fa/verify with a TOTP code.
UseStep ==
    /\ phase = "on" /\ last' \in Nat /\ last' > last
    /\ UNCHANGED <<phase, secret, unused, enrolled, issued>>

\* /2fa/verify with a recovery code.
UseCode ==
    /\ phase = "on" /\ \E c \in unused : unused' = unused \ {c}
    /\ UNCHANGED <<phase, secret, last, enrolled, issued>>

\* /2fa/disable, -ru, or the deletion of the account.
End ==
    /\ phase' = "off" /\ secret' = NoSecret /\ last' = 0 /\ unused' = {}
    /\ UNCHANGED <<enrolled, issued>>

EnrolmentNext == Propose \/ Withdraw \/ Confirm \/ UseStep \/ UseCode \/ End

EnrolmentSpec == EnrolmentInit /\ [][EnrolmentNext]_evars

=============================================================================
