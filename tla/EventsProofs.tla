---------------------------- MODULE EventsProofs ----------------------------
(***************************************************************************)
(* When the listener of events gives up, for any budget, any number of     *)
(* messages and any behaviour of the bus.                                  *)
(***************************************************************************)
EXTENDS Events, TLAPS

\* The listener starts with its whole budget.
LEMMA InitInv == Init => Inv
<1> SUFFICES ASSUME Init PROVE Inv
  OBVIOUS
<1>1. TypeOK
  <2>1. wire \in Seq(Message) /\ Len(wire) <= MaxWire
    BY MaxWireAssumption DEF Init
  <2>2. i \in 0..MaxDials /\ failed \in 0..MaxDials
    BY MaxDialsAssumption DEF Init
  <2>3. req \in [Requests -> SUBSET Uuids] /\ events \subseteq Uuids
    BY DEF Init
  <2>4. conn \in BOOLEAN /\ gone \in BOOLEAN /\ at \in {"dial", "receive", "done"} /\ bus \in {"gone", "down", "up"}
    BY DEF Init
  <2> QED BY <2>1, <2>2, <2>3, <2>4 DEF TypeOK
<1>2. LoopInv
  BY MaxDialsAssumption DEF Init, LoopInv
<1> QED BY <1>1, <1>2 DEF Inv

\* The steps that leave the listener, its counts and the wire alone.
LEMMA BesideKeeps ==
    ASSUME Inv, UNCHANGED <<at, i, wire, failed, gone>>, bus' \in {"gone", "down", "up"}, conn' \in BOOLEAN,
           events' \subseteq Uuids, req' \in [Requests -> SUBSET Uuids]
    PROVE  Inv'
<1>1. TypeOK'
  BY DEF Inv, TypeOK
<1>2. LoopInv'
  BY DEF Inv, LoopInv
<1> QED BY <1>1, <1>2 DEF Inv

\* A message is sent while there is room.
LEMMA PublishKeeps ==
    ASSUME Inv, Publish
    PROVE  Inv'
<1>1. PICK message \in Message : wire' = Append(wire, message)
  BY DEF Publish
<1>2. Len(wire) < MaxWire /\ UNCHANGED <<bus, at, i, conn, events, req, failed, gone>>
  BY DEF Publish
<1>3. wire \in Seq(Message) /\ wire' \in Seq(Message) /\ Len(wire') = Len(wire) + 1
  BY <1>1 DEF Inv, TypeOK
<1>4. Len(wire') <= MaxWire
  BY <1>2, <1>3, MaxWireAssumption
<1>5. TypeOK'
  BY <1>2, <1>3, <1>4 DEF Inv, TypeOK
<1>6. LoopInv'
  BY <1>2 DEF Inv, LoopInv
<1> QED BY <1>5, <1>6 DEF Inv

\* A message is received, and its row is there or not.
LEMMA ReceiveKeeps ==
    ASSUME Inv, Receive
    PROVE  Inv'
<1>1. wire # <<>> /\ wire' = Tail(wire) /\ UNCHANGED <<bus, at, i, conn, req, failed, gone>>
  BY DEF Receive
<1>2. wire \in Seq(Message) /\ Len(wire) <= MaxWire
  BY DEF Inv, TypeOK
<1>3. wire' \in Seq(Message) /\ Len(wire') = Len(wire) - 1 /\ Head(wire) \in Message
  BY <1>1, <1>2
<1>4. Len(wire') <= MaxWire
  BY <1>2, <1>3, MaxWireAssumption
<1>5. events' \subseteq Uuids
  BY <1>3 DEF Receive, CreateEvemt, Message, Inv, TypeOK
<1>6. TypeOK'
  BY <1>1, <1>3, <1>4, <1>5 DEF Inv, TypeOK
<1>7. LoopInv'
  BY <1>1 DEF Inv, LoopInv
<1> QED BY <1>6, <1>7 DEF Inv

\* A turn of the loop ends without a subscription, or with one that was lost.
LEMMA TurnKeeps ==
    ASSUME Inv, DialFails \/ Lost
    PROVE  Inv'
<1>1. i' = i + 1 /\ at' = (IF i + 1 < MaxDials THEN "dial" ELSE "done")
      /\ UNCHANGED <<bus, conn, wire, events, req, gone>>
  BY DEF DialFails, Lost, Loop, busVars
<1>2. \/ at = "dial" /\ failed' = failed + 1
      \/ at = "receive" /\ failed' = failed
  BY DEF DialFails, Lost
<1>3. i \in Nat /\ failed \in Nat /\ i < MaxDials /\ failed <= i /\ i <= failed + 1 /\ (at = "receive" => i = 0)
  BY <1>2, MaxDialsAssumption DEF Inv, TypeOK, LoopInv
<1>4. i' \in 0..MaxDials /\ failed' \in 0..MaxDials /\ at' \in {"dial", "receive", "done"}
  BY <1>1, <1>2, <1>3, MaxDialsAssumption
<1>5. TypeOK'
  BY <1>1, <1>4 DEF Inv, TypeOK
<1>6. failed' <= i' /\ i' <= failed' + 1
  BY <1>1, <1>2, <1>3
<1>7. (at' = "dial" => i' < MaxDials) /\ at' # "receive" /\ (at' = "done" => i' = MaxDials)
  BY <1>1, <1>3, MaxDialsAssumption
<1>8. LoopInv'
  BY <1>6, <1>7 DEF LoopInv
<1> QED BY <1>5, <1>8 DEF Inv

\* Every step keeps the invariant.
LEMMA NextInv == Inv /\ [Next]_vars => Inv'
<1> SUFFICES ASSUME Inv, [Next]_vars PROVE Inv'
  OBVIOUS
<1>1. CASE UNCHANGED vars
  BY <1>1, BesideKeeps DEF vars, Inv, TypeOK
<1>2. CASE BusMoves \/ Drop
  BY <1>2, BesideKeeps DEF BusMoves, Drop, Inv, TypeOK
<1>3. CASE Publish
  BY <1>3, PublishKeeps
<1>4. CASE NoAddress
  <2>1. TypeOK'
    BY <1>4 DEF NoAddress, busVars, Inv, TypeOK
  <2>2. LoopInv'
    BY <1>4 DEF NoAddress, Inv, LoopInv
  <2> QED BY <2>1, <2>2 DEF Inv
<1>5. CASE DialFails \/ Lost
  BY <1>5, TurnKeeps
<1>6. CASE DialSucceeds
  <2>1. wire' \in Seq(Message) /\ Len(wire') <= MaxWire /\ i' \in 0..MaxDials /\ failed' \in 0..MaxDials
    BY <1>6, MaxDialsAssumption, MaxWireAssumption DEF DialSucceeds
  <2>2. TypeOK'
    BY <1>6, <2>1 DEF DialSucceeds, Inv, TypeOK
  <2>3. LoopInv'
    BY <1>6 DEF DialSucceeds, LoopInv
  <2> QED BY <2>2, <2>3 DEF Inv
<1>7. CASE Receive
  BY <1>7, ReceiveKeeps
<1>8. CASE DeleteEvent
  BY <1>8, BesideKeeps DEF DeleteEvent, busVars, Inv, TypeOK
<1>9. ASSUME NEW r \in Requests, DeleteEventBySerial(r) \/ DeleteListed(r) PROVE Inv'
  <2>1. events' \subseteq Uuids /\ req' \in [Requests -> SUBSET Uuids]
    BY <1>9 DEF DeleteEventBySerial, DeleteListed, Inv, TypeOK
  <2> QED BY <1>9, <2>1, BesideKeeps DEF DeleteEventBySerial, DeleteListed, busVars, Inv, TypeOK
<1> QED BY <1>1, <1>2, <1>3, <1>4, <1>5, <1>6, <1>7, <1>8, <1>9 DEF Next, EventListen

-----------------------------------------------------------------------------
\* The variables of the listener and of the table keep the types the code gives them.
THEOREM EventsTypeCorrect == Spec => []TypeOK
<1>1. Inv => TypeOK
  BY DEF Inv
<1> QED BY <1>1, InitInv, NextInv, PTL DEF Spec

\* Whatever the budget, the listener gives up only for want of an address or when all but
\* one of its dials failed in a row (event_listen.go:22-40).
THEOREM GivesUpOnlyWhenExhaustedHolds == Spec => []GivesUpOnlyWhenExhausted
<1>1. Inv => GivesUpOnlyWhenExhausted
  <2> SUFFICES ASSUME Inv, at = "done", ~gone PROVE failed >= MaxDials - 1
    BY DEF GivesUpOnlyWhenExhausted
  <2>1. i = MaxDials /\ i <= failed + 1
    BY DEF Inv, LoopInv
  <2>2. failed \in Nat
    BY MaxDialsAssumption DEF Inv, TypeOK
  <2> QED BY <2>1, <2>2, MaxDialsAssumption
<1> QED BY <1>1, InitInv, NextInv, PTL DEF Spec

=============================================================================
