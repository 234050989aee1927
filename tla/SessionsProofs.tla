--------------------------- MODULE SessionsProofs ---------------------------
(***************************************************************************)
(* What the two keys keep apart, and when sessions survive, for any number *)
(* of processes, starts, tokens and key pairs.                             *)
(***************************************************************************)
EXTENDS Sessions, TLAPS

\* Nothing has been drawn or signed at first.
LEMMA InitInv == Init => Inv
<1> SUFFICES ASSUME Init PROVE Inv
  OBVIOUS
<1>1. TypeOK
  BY DEF Init, TypeOK, Process, Down
<1>2. ProcInv
  BY KeyPairsAssumption DEF Init, ProcInv, Down
<1>3. SeparateInv /\ CurrentInv
  BY KeyPairsAssumption DEF Init, SeparateInv, CurrentInv, Down
<1>4. AloneInv
  BY DEF Init, AloneInv, Making, Down
<1> QED BY <1>1, <1>2, <1>3, <1>4 DEF Inv

-----------------------------------------------------------------------------
(* A process that changes.                                                 *)

\* p comes to sign with the key that the file now has, and with a pre-auth key of its
\* own (the end of NewUserService).
LEMMA UpKeeps ==
    ASSUME Inv, NEW p \in Procs, NEW key \in drawnKeys, NewUserService(p, key), keyFile' = key,
           \A q \in Procs : proc[q].at = "up" => proc[q].preAuth # key,
           \A token \in tokens : token.issuer = "2fa" => token.key # key,
           \/ contested
           \/ /\ \A q \in Procs \ {p} : ~Making(q) /\ (proc[q].at = "up" => proc[q].key = key)
              /\ \A token \in tokens : token.issuer # "2fa" => token.key = key,
           UNCHANGED <<tokens, current, contested>>
    PROVE  Inv'
<1>1. PICK fresh \in KeyPairs \ drawnKeys :
        /\ drawnKeys' = drawnKeys \cup {fresh}
        /\ proc' = [proc EXCEPT ![p] = [at |-> "up", key |-> key, preAuth |-> fresh]]
  BY DEF NewUserService
<1>2. drawnKeys \subseteq KeyPairs /\ key \in KeyPairs /\ fresh # key
  BY DEF Inv, TypeOK
<1>3. proc'[p].at = "up" /\ proc'[p].key = key /\ proc'[p].preAuth = fresh
      /\ \A q \in Procs : q # p => proc'[q] = proc[q]
  BY <1>1 DEF Inv, TypeOK
<1>4. TypeOK'
  <2>1. proc' \in [Procs -> Process]
    BY <1>1, <1>2 DEF Inv, TypeOK, Process
  <2> QED BY <1>1, <1>2, <2>1 DEF Inv, TypeOK
<1>5. ProcInv'
  BY <1>1, <1>2, <1>3, KeyPairsAssumption DEF Inv, ProcInv
<1>6. \A q \in Procs : proc[q].key # fresh /\ proc[q].preAuth # fresh
  BY <1>1, KeyPairsAssumption DEF Inv, ProcInv
<1>7. SeparateInv'
  <2>1. \A token \in tokens : token.key # fresh /\ token.key \in drawnKeys
    BY <1>1 DEF Inv, SeparateInv
  <2>2. ASSUME NEW o \in Procs, proc'[o].at = "up"
        PROVE  proc'[o].preAuth # keyFile' /\ \A q \in Procs : proc'[o].preAuth # proc'[q].key
    <3>1. CASE o = p
      BY <1>2, <1>3, <1>6, <3>1
    <3>2. CASE o # p
      BY <1>3, <2>2, <3>2 DEF Inv, SeparateInv
    <3> QED BY <3>1, <3>2
  <2>3. ASSUME NEW token \in tokens, token.issuer = "2fa"
        PROVE  token.key # keyFile' /\ \A q \in Procs : token.key # proc'[q].key
    BY <1>3, <2>3 DEF Inv, SeparateInv
  <2> QED BY <1>1, <2>1, <2>2, <2>3 DEF SeparateInv
<1>8. CurrentInv'
  <2>1. \A token \in tokens : token.key # fresh
    BY <1>1 DEF Inv, SeparateInv
  <2>2. CASE p = Service
    BY <1>3, <2>1, <2>2 DEF CurrentInv
  <2>3. CASE p # Service
    BY <1>3, <2>3 DEF Inv, CurrentInv, Procs
  <2> QED BY <2>2, <2>3
<1>9. ASSUME ~contested PROVE AloneInv'
  <2>1. \A q \in Procs : (Making(q))' => FALSE
    BY <1>3, <1>9 DEF Making
  <2>2. \A q \in Procs : proc'[q].at = "up" => proc'[q].key = key
    BY <1>3, <1>9
  <2> QED BY <1>9, <2>1, <2>2 DEF AloneInv
<1> QED BY <1>4, <1>5, <1>7, <1>8, <1>9 DEF Inv

\* A start whose file has a key takes it.
LEMMA LoadKeeps ==
    ASSUME Inv, NEW p \in Procs, loadOrCreateKeyPair(p), keyFile \in KeyPairs
    PROVE  Inv'
<1>1. proc[p].at = "down" /\ NewUserService(p, keyFile) /\ UNCHANGED <<keyFile, tokens, current, contested>>
  BY DEF loadOrCreateKeyPair
<1>2. keyFile \in drawnKeys /\ (\A q \in Procs : proc[q].at = "up" => proc[q].preAuth # keyFile)
      /\ \A token \in tokens : token.issuer = "2fa" => token.key # keyFile
  BY DEF Inv, SeparateInv
<1>3. ASSUME ~contested
      PROVE  /\ \A q \in Procs \ {p} : ~Making(q) /\ (proc[q].at = "up" => proc[q].key = keyFile)
             /\ \A token \in tokens : token.issuer # "2fa" => token.key = keyFile
  <2>1. AloneInv
    BY <1>3 DEF Inv
  <2>2. \A q \in Procs : ~Making(q)
    BY <2>1 DEF AloneInv
  <2>3. \A q \in Procs : proc[q].at = "up" => proc[q].key = keyFile
    BY <2>1 DEF AloneInv
  <2>4. \A token \in tokens : token.issuer # "2fa" => token.key = keyFile
    BY <2>1 DEF AloneInv
  <2> QED BY <2>2, <2>3, <2>4
<1> QED BY <1>1, <1>2, <1>3, UpKeeps

\* A start without a key draws one, which nobody has.
LEMMA MakeKeeps ==
    ASSUME Inv, NEW p \in Procs, loadOrCreateKeyPair(p), keyFile \notin KeyPairs
    PROVE  Inv'
<1>1. PICK key \in KeyPairs \ drawnKeys :
        /\ drawnKeys' = drawnKeys \cup {key}
        /\ proc' = [proc EXCEPT ![p] = [Down EXCEPT !.at = "create", !.key = key]]
  BY DEF loadOrCreateKeyPair
<1>2. proc[p].at = "down" /\ UNCHANGED <<keyFile, tokens, current>>
  BY DEF loadOrCreateKeyPair
<1>3. contested' = (contested \/ \E q \in Procs \ {p} : Making(q))
  BY DEF loadOrCreateKeyPair
<1>4. proc' \in [Procs -> Process] /\ proc'[p].at = "create" /\ proc'[p].key = key /\ proc'[p].preAuth = NoKey
      /\ \A q \in Procs : q # p => proc'[q] = proc[q]
  BY <1>1 DEF Inv, TypeOK, Process, Down
<1>5. TypeOK'
  <2>1. contested' \in BOOLEAN
    BY <1>3
  <2> QED BY <1>1, <1>2, <1>4, <2>1 DEF Inv, TypeOK
<1>6. ProcInv'
  BY <1>1, <1>4, KeyPairsAssumption DEF Inv, ProcInv
<1>7. SeparateInv'
  <2>1. \A token \in tokens : token.key # key /\ token.key \in drawnKeys
    BY <1>1 DEF Inv, SeparateInv
  <2>2. \A q \in Procs : proc[q].preAuth # key
    BY <1>1, KeyPairsAssumption DEF Inv, ProcInv
  <2> QED BY <1>1, <1>2, <1>4, <2>1, <2>2 DEF Inv, SeparateInv
<1>8. CurrentInv'
  <2>1. \A token \in tokens : token.key # NoKey
    BY KeyPairsAssumption DEF Inv, TypeOK, Token
  <2>2. CASE p = Service
    BY <1>2, <1>4, <2>1, <2>2 DEF CurrentInv
  <2>3. CASE p # Service
    BY <1>2, <1>4, <2>3 DEF Inv, CurrentInv, Procs
  <2> QED BY <2>2, <2>3
<1>9. ASSUME ~contested' PROVE AloneInv'
  <2>1. ~contested /\ \A q \in Procs \ {p} : ~Making(q)
    BY <1>3, <1>9
  <2>2. AloneInv
    BY <2>1 DEF Inv
  <2>3. \A q \in Procs : (Making(q))' => q = p
    BY <1>4, <2>1 DEF Making
  <2>4. \A q \in Procs : proc'[q].at = "up" => keyFile = proc'[q].key
    BY <1>4, <2>2 DEF AloneInv
  <2> QED BY <1>2, <2>2, <2>3, <2>4 DEF AloneInv
<1> QED BY <1>5, <1>6, <1>7, <1>8, <1>9 DEF Inv

\* os.WriteFile empties the file.
LEMMA OpenKeeps ==
    ASSUME Inv, NEW p \in Procs, OpenKeyFile(p)
    PROVE  Inv'
<1>1. proc[p].at = "create" /\ keyFile' = Unreadable /\ UNCHANGED <<drawnKeys, tokens, current, contested>>
      /\ proc' = [proc EXCEPT ![p] = [proc[p] EXCEPT !.at = "write"]]
  BY DEF OpenKeyFile
<1>2. proc' \in [Procs -> Process] /\ proc'[p].at = "write" /\ proc'[p].key = proc[p].key
      /\ proc'[p].preAuth = proc[p].preAuth /\ \A q \in Procs : q # p => proc'[q] = proc[q]
  BY <1>1 DEF Inv, TypeOK, Process
<1>3. TypeOK' /\ ProcInv'
  BY <1>1, <1>2 DEF Inv, TypeOK, ProcInv
<1>4. SeparateInv'
  <2>1. drawnKeys \subseteq KeyPairs
    BY DEF Inv, TypeOK
  <2>2. \A q \in Procs : proc'[q].key = proc[q].key /\ proc'[q].preAuth = proc[q].preAuth
        /\ (proc'[q].at = "up" => proc[q].at = "up")
    BY <1>1, <1>2
  <2>3. \A q \in Procs : proc'[q].at = "up" => proc'[q].preAuth # Unreadable
    BY <2>1, <2>2, KeyPairsAssumption DEF Inv, ProcInv
  <2>4. \A token \in tokens : token.key # Unreadable
    BY <2>1, KeyPairsAssumption DEF Inv, SeparateInv
  <2> QED BY <1>1, <2>2, <2>3, <2>4, KeyPairsAssumption DEF Inv, SeparateInv
<1>5. CurrentInv'
  BY <1>1, <1>2 DEF Inv, CurrentInv, Procs
<1>6. ASSUME ~contested PROVE AloneInv'
  <2>1. AloneInv /\ Making(p)
    BY <1>1, <1>6 DEF Inv, Making
  <2>2. keyFile \notin KeyPairs /\ \A q \in Procs : Making(q) => q = p
    BY <2>1 DEF AloneInv
  <2>3. \A q \in Procs : proc[q].at # "up"
    BY <2>1, <2>2 DEF Inv, ProcInv, AloneInv, TypeOK
  <2>4. \A token \in tokens : token.issuer = "2fa"
    BY <2>1, <2>2 DEF Inv, TypeOK, SeparateInv, AloneInv
  <2>5. \A q \in Procs : (Making(q))' => q = p
    BY <1>2, <2>2 DEF Making
  <2>6. \A q \in Procs : proc'[q].at # "up"
    BY <1>2, <2>3
  <2> QED BY <1>1, <2>4, <2>5, <2>6, KeyPairsAssumption DEF AloneInv
<1> QED BY <1>1, <1>3, <1>4, <1>5, <1>6 DEF Inv

\* ... and writes the key: who did so alone has the key of every session there is.
LEMMA WriteKeeps ==
    ASSUME Inv, NEW p \in Procs, WriteKeyFile(p)
    PROVE  Inv'
<1>1. proc[p].at = "write" /\ keyFile' = proc[p].key /\ NewUserService(p, proc[p].key)
      /\ UNCHANGED <<tokens, current, contested>>
  BY DEF WriteKeyFile
<1>2. proc[p].key \in drawnKeys /\ (\A q \in Procs : proc[q].at = "up" => proc[q].preAuth # proc[p].key)
      /\ \A token \in tokens : token.issuer = "2fa" => token.key # proc[p].key
  BY <1>1 DEF Inv, ProcInv, SeparateInv
<1>3. ASSUME ~contested
      PROVE  /\ \A q \in Procs \ {p} : ~Making(q) /\ (proc[q].at = "up" => proc[q].key = proc[p].key)
             /\ \A token \in tokens : token.issuer # "2fa" => token.key = proc[p].key
  <2>1. AloneInv /\ Making(p)
    BY <1>1, <1>3 DEF Inv, Making
  <2>2. keyFile \notin KeyPairs /\ \A q \in Procs : Making(q) => q = p
    BY <2>1 DEF AloneInv
  <2>3. \A q \in Procs : proc[q].at # "up"
    BY <2>1, <2>2 DEF Inv, ProcInv, AloneInv, TypeOK
  <2>4. \A token \in tokens : token.issuer = "2fa"
    BY <2>1, <2>2 DEF Inv, TypeOK, SeparateInv, AloneInv
  <2> QED BY <2>2, <2>3, <2>4
<1> QED BY <1>1, <1>2, <1>3, UpKeeps

\* A process that ends has no keys.
LEMMA EndKeeps ==
    ASSUME Inv, NEW p \in Procs, End(p)
    PROVE  Inv'
<1>1. proc' = [proc EXCEPT ![p] = Down] /\ UNCHANGED <<keyFile, drawnKeys, tokens, contested>>
      /\ current' = IF p = Service THEN {} ELSE current
  BY DEF End
<1>2. proc' \in [Procs -> Process] /\ proc'[p].at = "down" /\ proc'[p].key = NoKey /\ proc'[p].preAuth = NoKey
      /\ \A q \in Procs : q # p => proc'[q] = proc[q]
  BY <1>1 DEF Inv, TypeOK, Process, Down
<1>3. TypeOK'
  BY <1>1, <1>2 DEF Inv, TypeOK
<1>4. ProcInv'
  BY <1>1, <1>2 DEF Inv, ProcInv
<1>5. \A k \in drawnKeys : k # NoKey
  BY KeyPairsAssumption DEF Inv, TypeOK
<1>6. SeparateInv'
  BY <1>1, <1>2, <1>5 DEF Inv, ProcInv, SeparateInv
<1>7. CurrentInv'
  <2>1. \A token \in tokens : token.key # NoKey
    BY <1>5 DEF Inv, SeparateInv
  <2>2. CASE p = Service
    BY <1>1, <1>2, <2>1, <2>2 DEF CurrentInv
  <2>3. CASE p # Service
    BY <1>1, <1>2, <2>3 DEF Inv, CurrentInv, Procs
  <2> QED BY <2>2, <2>3
<1>8. ASSUME ~contested PROVE AloneInv'
  <2>1. \A q \in Procs : (Making(q))' => Making(q)
    BY <1>2 DEF Making
  <2>2. \A q \in Procs : proc'[q].at = "up" => proc'[q] = proc[q]
    BY <1>2
  <2> QED BY <1>1, <1>8, <2>1, <2>2 DEF Inv, AloneInv
<1> QED BY <1>1, <1>3, <1>4, <1>6, <1>7, <1>8 DEF Inv

-----------------------------------------------------------------------------
(* Tokens, which only a service that is up signs.                          *)

\* A pre-auth token is signed with the pre-auth key, every other token with the key.
LEMMA SignedKeeps ==
    ASSUME Inv, NEW new, Signed(new), proc[Service].at = "up",
           \A token \in new : /\ token \in Token
                              /\ token.issuer = "2fa" => token.key = proc[Service].preAuth
                              /\ token.issuer # "2fa" => token.key = proc[Service].key
    PROVE  Inv'
<1>1. tokens' = tokens \cup new /\ current' = current \cup new /\ UNCHANGED <<keyFile, proc, drawnKeys, contested>>
  BY DEF Signed
<1>2. Service \in Procs
  BY DEF Procs
<1>3. TypeOK' /\ ProcInv'
  BY <1>1 DEF Inv, TypeOK, ProcInv
<1>4. \A token \in new : token.key \in drawnKeys
  BY <1>2 DEF Inv, ProcInv
<1>5. \A token \in new : token.issuer = "2fa" => token.key # keyFile /\ \A q \in Procs : token.key # proc[q].key
  BY <1>2 DEF Inv, SeparateInv
<1>6. SeparateInv'
  BY <1>1, <1>4, <1>5 DEF Inv, SeparateInv
<1>7. CurrentInv'
  BY <1>1 DEF Inv, CurrentInv
<1>8. ASSUME ~contested PROVE AloneInv'
  <2>1. AloneInv /\ keyFile = proc[Service].key
    BY <1>2, <1>8 DEF Inv, AloneInv
  <2> QED BY <1>1, <2>1 DEF AloneInv, Making
<1> QED BY <1>1, <1>3, <1>6, <1>7, <1>8 DEF Inv

\* Sign-in and refresh sign with the key of the file, the password alone with the other.
LEMMA TokensKeep ==
    ASSUME Inv, issueTokens \/ IssuePreAuthToken \/ PostUserRefreshToken
    PROVE  Inv'
<1>1. Service \in Procs /\ proc[Service].at = "up"
  BY DEF Procs, issueTokens, IssuePreAuthToken, PostUserRefreshToken
<1>2. proc[Service].key \in KeyPairs /\ proc[Service].preAuth \in KeyPairs
  BY <1>1 DEF Inv, TypeOK, ProcInv
<1>3. CASE issueTokens \/ PostUserRefreshToken
  <2> DEFINE new == {[issuer |-> "access", key |-> proc[Service].key],
                     [issuer |-> "refresh", key |-> proc[Service].key]}
  <2>1. Signed(new)
    BY <1>3 DEF issueTokens, PostUserRefreshToken
  <2>2. \A token \in new : token \in Token /\ token.issuer # "2fa" /\ token.key = proc[Service].key
    BY <1>2 DEF Token
  <2> QED BY <1>1, <2>1, <2>2, SignedKeeps
<1>4. CASE IssuePreAuthToken
  <2> DEFINE new == {[issuer |-> "2fa", key |-> proc[Service].preAuth]}
  <2>1. Signed(new)
    BY <1>4 DEF IssuePreAuthToken
  <2>2. \A token \in new : token \in Token /\ token.issuer = "2fa" /\ token.key = proc[Service].preAuth
    BY <1>2 DEF Token
  <2> QED BY <1>1, <2>1, <2>2, SignedKeeps
<1> QED BY <1>3, <1>4

\* Inv is an invariant of the service and the commands beside it.
LEMMA Invariant == Spec => []Inv
<1>1. Inv /\ Next => Inv'
  BY LoadKeeps, MakeKeeps, OpenKeeps, WriteKeeps, EndKeeps, TokensKeep DEF Next
<1>2. Inv /\ UNCHANGED vars => Inv'
  BY DEF vars, Inv, TypeOK, ProcInv, SeparateInv, CurrentInv, AloneInv, Making
<1> QED BY InitInv, <1>1, <1>2, PTL DEF Spec

-----------------------------------------------------------------------------
(* The theorems.                                                           *)

\* The variables have their types, for any number of processes and key pairs.
THEOREM SessionsTypeCorrect == Spec => []TypeOK
BY Invariant, PTL DEF Inv

\* For any number of commands and starts, cut off anywhere, the service that is up takes
\* every session token signed so far, unless two processes were making the key file at
\* the same time (user_key.go:31-58).
THEOREM SessionsLostOnlyInContestHolds == Spec => []SessionsLostOnlyInContest
<1>1. Inv => SessionsLostOnlyInContest
  <2> SUFFICES ASSUME Inv, ~contested, proc[Service].at = "up", NEW token \in tokens, token.issuer # "2fa"
               PROVE  token.key = proc[Service].key
    BY DEF SessionsLostOnlyInContest, SessionsOutliveRestart, Validate
  <2> QED BY DEF Inv, AloneInv, Procs
<1> QED BY <1>1, Invariant, PTL

\* No pre-auth token, of any start, verifies under the key sessions are signed with
\* (route/v1.go:51-65, route/v2.go:70-84, service/user.go:63-65).
THEOREM PreAuthIsNoSessionHolds == Spec => []PreAuthIsNoSession
<1>1. Inv => PreAuthIsNoSession
  BY DEF Inv, SeparateInv, PreAuthIsNoSession, Validate, Procs
<1> QED BY <1>1, Invariant, PTL

\* A pre-auth token is accepted only by the start of the service that signed it
\* (user_key.go:21-23, service/user.go:236-245).
THEOREM PreAuthEndsWithServiceHolds == Spec => []PreAuthEndsWithService
<1>1. Inv => PreAuthEndsWithService
  BY DEF Inv, CurrentInv, PreAuthEndsWithService, ParsePreAuthToken
<1> QED BY <1>1, Invariant, PTL

=============================================================================
