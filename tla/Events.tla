------------------------------- MODULE Events -------------------------------
(***************************************************************************)
(* The notification list: EventListen subscribes to the message bus and    *)
(* stores what arrives (route/event_listen.go), and the /v2/users API      *)
(* deletes from the table (route/v2/api_route_event.go, service/event.go). *)
(*                                                                         *)
(* The bus is another process: it comes and goes, its address file with    *)
(* it, and the connection may drop while both ends are up.  The sleep of   *)
(* one second between two dials is the time the environment has to move.   *)
(***************************************************************************)
EXTENDS Naturals, Sequences

CONSTANTS
    Uuids,          \* event identifiers, the primary key
    Serials,        \* drives
    SerialOf,       \* the drive in the properties of an event
    NoSerial,       \* of an event of another source, or whose properties name none
    Requests,       \* requests of DELETE /v2/users/event/serial/:serial
    Ignored,        \* a message that is not stored: invalid, or a raid status
    MaxDials,       \* the retry budget: 1000 in the code
    MaxWire         \* bound: messages sent and not yet received

ASSUME SerialOfAssumption == NoSerial \notin Serials /\ SerialOf \in [Uuids -> Serials \cup {NoSerial}]
ASSUME IgnoredAssumption == Ignored \notin Uuids
ASSUME MaxDialsAssumption == MaxDials \in Nat \ {0}
ASSUME MaxWireAssumption == MaxWire \in Nat

VARIABLES
    bus,            \* "gone": no address file; "down": nobody answers there; "up"
    at,             \* EventListen: "dial", "receive", or "done" once it has returned
    i,              \* its loop variable
    conn,           \* the subscription is connected at both ends
    wire,           \* messages sent on it
    events,         \* identifiers of the rows of the table
    req,            \* what DeleteEventBySerial requests have left to delete
    \* What happened, for the properties:
    failed,         \* dials that failed in a row
    gone            \* EventListen found no address file

busVars == <<bus, conn, wire>>
vars    == <<bus, at, i, conn, wire, events, req, failed, gone>>

Message == Uuids \cup {Ignored}

-----------------------------------------------------------------------------
(* The message bus.                                                        *)

\* It starts, stops answering, or is gone with its address file.  A bus that is
\* not up has dropped the subscription.
BusMoves ==
    /\ bus' \in {"gone", "down", "up"} \ {bus}
    /\ conn' = (conn /\ bus' = "up")
    /\ UNCHANGED <<at, i, wire, events, req, failed, gone>>

\* The connection drops.
Drop ==
    /\ conn /\ conn' = FALSE
    /\ UNCHANGED <<bus, at, i, wire, events, req, failed, gone>>

\* A message is sent to the subscriber, again perhaps.
Publish ==
    /\ conn /\ Len(wire) < MaxWire
    /\ \E message \in Message : wire' = Append(wire, message)
    /\ UNCHANGED <<bus, at, i, conn, events, req, failed, gone>>

-----------------------------------------------------------------------------
(* EventListen.                                                            *)

\* A loop with one turn too many.
Bug_Loop(n) == i' = n /\ at' = IF n <= MaxDials THEN "dial" ELSE "done"

\* The head of the loop with variable n: another turn, or the end of the budget.
Loop(n) == i' = n /\ at' = IF n < MaxDials THEN "dial" ELSE "done"

\* No address file: it returns.
NoAddress ==
    /\ at = "dial" /\ bus = "gone"
    /\ at' = "done" /\ gone' = TRUE
    /\ UNCHANGED <<busVars, i, events, req, failed>>

DialFails ==
    /\ at = "dial" /\ bus = "down"
    /\ Loop(i + 1)
    /\ failed' = failed + 1
    /\ UNCHANGED <<busVars, events, req, gone>>

\* A subscription that does not give the budget back.
Bug_DialSucceeds ==
    /\ at = "dial" /\ bus = "up"
    /\ at' = "receive"
    /\ conn' = TRUE /\ wire' = <<>>
    /\ failed' = 0
    /\ UNCHANGED <<bus, i, events, req, gone>>

DialSucceeds ==
    /\ at = "dial" /\ bus = "up"
    /\ at' = "receive" /\ i' = 0
    /\ conn' = TRUE /\ wire' = <<>>
    /\ failed' = 0
    /\ UNCHANGED <<bus, events, req, gone>>

\* The insert of an identifier that is there fails, as any insert may; the error
\* is ignored.
CreateEvemt(uuid) == events' \in {events, events \cup {uuid}}

\* A message is received, and stored if it is one to store.
Receive ==
    /\ at = "receive" /\ wire # <<>>
    /\ wire' = Tail(wire)
    /\ \/ Head(wire) # Ignored /\ CreateEvemt(Head(wire))
       \/ Head(wire) = Ignored /\ UNCHANGED events
    /\ UNCHANGED <<bus, at, i, conn, req, failed, gone>>

\* A receive loop that goes on after an error.
Bug_Lost ==
    /\ at = "receive" /\ ~conn
    /\ UNCHANGED vars

\* The receive fails: the loop is left, and the next dial is a turn later.
Lost ==
    /\ at = "receive" /\ ~conn
    /\ Loop(i + 1)
    /\ UNCHANGED <<busVars, events, req, failed, gone>>

-----------------------------------------------------------------------------
(* The API.                                                                *)

\* DELETE /v2/users/event/:uuid.  The row it reads first is only for the answer.
DeleteEvent ==
    /\ \E uuid \in events : events' = events \ {uuid}
    /\ UNCHANGED <<busVars, at, i, req, failed, gone>>

\* DELETE /v2/users/event/serial/:serial: the list is read ...
DeleteEventBySerial(r) ==
    /\ req[r] = {}
    /\ \E serial \in Serials :
        req' = [req EXCEPT ![r] = {uuid \in events : SerialOf[uuid] = serial}]
    /\ UNCHANGED <<busVars, at, i, events, failed, gone>>

\* ... and what matched is deleted row by row; the error of a delete is ignored.
DeleteListed(r) ==
    /\ \E uuid \in req[r] :
        /\ events' \in {events, events \ {uuid}}
        /\ req' = [req EXCEPT ![r] = @ \ {uuid}]
    /\ UNCHANGED <<busVars, at, i, failed, gone>>

-----------------------------------------------------------------------------
\* The service starts, before or after the bus.
Init ==
    /\ bus \in {"gone", "down", "up"}
    /\ at = "dial" /\ i = 0
    /\ conn = FALSE /\ wire = <<>>
    /\ events = {}
    /\ req = [r \in Requests |-> {}]
    /\ failed = 0 /\ gone = FALSE

EventListen == NoAddress \/ DialFails \/ DialSucceeds \/ Receive \/ Lost

Next ==
    \/ BusMoves \/ Drop \/ Publish
    \/ EventListen
    \/ DeleteEvent
    \/ \E r \in Requests : DeleteEventBySerial(r) \/ DeleteListed(r)

\* The listener is a goroutine: the scheduler runs it again and again.  Nothing is
\* asked of the bus or of the clients.
Spec == Init /\ [][Next]_vars /\ WF_vars(EventListen)

-----------------------------------------------------------------------------
(* Properties.                                                             *)

\* The variables have the types the code gives them.
TypeOK ==
    /\ bus \in {"gone", "down", "up"}
    /\ at \in {"dial", "receive", "done"}
    /\ i \in 0..MaxDials
    /\ conn \in BOOLEAN
    /\ wire \in Seq(Message) /\ Len(wire) <= MaxWire
    /\ events \subseteq Uuids
    /\ req \in [Requests -> SUBSET Uuids]
    /\ failed \in 0..MaxDials
    /\ gone \in BOOLEAN

\* The listener gives up for ever only when it found no address file or when all
\* but one of the dials of the budget failed in a row: failures spread over several
\* outages, with a subscription between them, never add up (event_listen.go:22-40).
GivesUpOnlyWhenExhausted == at = "done" => gone \/ failed >= MaxDials - 1

\* If the bus comes back and stays, and the connection holds, the listener is
\* subscribed again and stays so, unless it has given up: no lost connection leaves
\* it waiting on a dead socket (event_listen.go:41-47, 76-77).
Resubscribes ==
    <>[][bus' = bus /\ (conn => conn')]_vars /\ <>[](bus = "up")
        => <>[](at = "receive" /\ conn) \/ <>(at = "done")

-----------------------------------------------------------------------------
(* The inductive invariant behind GivesUpOnlyWhenExhausted.                *)

\* The loop variable counts the dials that failed in a row, and at most one turn that
\* was lost to a subscription; the loop ends at the budget or for want of an address.
LoopInv ==
    /\ failed <= i /\ i <= failed + 1
    /\ at = "dial" => i < MaxDials
    /\ at = "receive" => i = 0
    /\ at = "done" => gone \/ i = MaxDials

Inv == TypeOK /\ LoopInv

=============================================================================
