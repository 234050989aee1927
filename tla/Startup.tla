------------------------------ MODULE Startup ------------------------------
(***************************************************************************)
(* The start of the service (main.go, config/init.go, service/service.go): *)
(* the configuration file, the listener, the routes at the gateway, the    *)
(* address file, the word to systemd, the event types at the message bus,  *)
(* and the server.  Systemd starts the service again whenever it ends      *)
(* (Restart=always), until it ends too often in too short a time.          *)
(*                                                                         *)
(* The gateway, the bus and systemd are external.  The gateway keeps the   *)
(* routes it was given: the service registers them once per start.         *)
(***************************************************************************)
EXTENDS Naturals, Sequences

CONSTANTS
    Ports,          \* what net.Listen may be given by the kernel
    NoPort,
    ApiPaths,       \* the sequence apiPaths
    MaxDials,       \* how often the event types are offered
    StartLimit,     \* starts after which systemd gives up, if they come in a row
    MaxCrashes      \* bound: ends that are none of the code's own

ASSUME PortsAssumption == NoPort \notin Ports
ASSUME PathsAssumption == Len(ApiPaths) \in Nat \ {0}
ASSUME DialsAssumption == MaxDials \in Nat \ {0} /\ StartLimit \in Nat \ {0} /\ MaxCrashes \in Nat

VARIABLES
    at,             \* where the process is
    port,           \* of the listener
    step,           \* of the loop the process is in
    conf,           \* the configuration file
    addressFile,    \* the address other services find; NoPort when it is absent or empty
    routes,         \* the address the gateway has for each path
    gateway,        \* it can be reached
    disk,           \* what the process writes reaches the disk
    bus,            \* "up", "refuses" (an answer other than 200) or "away"
    starts,         \* starts in a row, as systemd counts them
    crashes

vars == <<at, port, step, conf, addressFile, routes, gateway, disk, bus, starts, crashes>>

outside == <<gateway, disk, bus, starts, crashes>>

Begun == {"conf_create", "conf_write", "load", "database", "service", "listen", "route", "address_open",
          "address_write", "notify", "dial", "serve"}

\* The states in which systemd takes the service for started.
Ready == {"dial", "serve"}

Paths == {ApiPaths[i] : i \in 1..Len(ApiPaths)}

Goto(next) == at' = next /\ UNCHANGED outside

\* An error that ends main and leaves the listener open.
Bug_End == at' = "ended" /\ UNCHANGED <<port, step>> /\ UNCHANGED outside

\* A panic or an exit: the listener is closed.
End == at' = "ended" /\ port' = NoPort /\ step' = 0 /\ UNCHANGED outside

-----------------------------------------------------------------------------
(* init: InitSetup, GetDb and NewService.                                  *)

\* systemd starts the process, and InitSetup looks for the file.
Start ==
    /\ at \in {"down", "ended"}
    /\ starts < StartLimit
    /\ starts' = starts + 1
    /\ at' = IF conf = "absent" THEN "conf_create" ELSE "load"
    /\ UNCHANGED <<port, step, conf, addressFile, routes, gateway, disk, bus, crashes>>

CreateConf ==
    /\ at = "conf_create"
    /\ IF disk THEN conf' = "empty" /\ Goto("conf_write") /\ UNCHANGED <<port, step>>
               ELSE End /\ UNCHANGED conf
    /\ UNCHANGED <<addressFile, routes>>

\* The sample is written; when only a part is, the process ends, and the file may be one
\* that cannot be read.
WriteConf ==
    /\ at = "conf_write"
    /\ IF disk THEN conf' = "whole" /\ Goto("load") /\ UNCHANGED <<port, step>>
               ELSE conf' \in {"empty", "broken"} /\ End
    /\ UNCHANGED <<addressFile, routes>>

\* An empty file leaves the values compiled in.
LoadConf ==
    /\ at = "load"
    /\ IF conf = "broken" THEN End ELSE Goto("database") /\ UNCHANGED <<port, step>>
    /\ UNCHANGED <<conf, addressFile, routes>>

\* A database that cannot be opened ends the process, a migration that fails does not.
GetDb ==
    /\ at = "database"
    /\ \/ Goto("service") /\ UNCHANGED <<port, step>>
       \/ ~disk /\ End
    /\ UNCHANGED <<conf, addressFile, routes>>

\* The gateway is looked up in a file, which it may have left behind; the signing key is
\* read or made (module Sessions).
NewService ==
    /\ at = "service"
    /\ \/ Goto("listen") /\ UNCHANGED <<port, step>>
       \/ ~(gateway /\ disk) /\ End
    /\ UNCHANGED <<conf, addressFile, routes>>

-----------------------------------------------------------------------------
(* main                                                                    *)

Listen ==
    /\ at = "listen"
    /\ port' \in Ports
    /\ step' = 1
    /\ Goto("route")
    /\ UNCHANGED <<conf, addressFile, routes>>

\* An error of the gateway is not looked at.
Bug_CreateRoute ==
    /\ at = "route"
    /\ IF gateway THEN routes' = [routes EXCEPT ![ApiPaths[step]] = port] ELSE UNCHANGED routes
    /\ IF step < Len(ApiPaths)
       THEN step' = step + 1 /\ Goto("route")
       ELSE step' = 0 /\ Goto("address_open")
    /\ UNCHANGED <<port, conf, addressFile>>

\* One route after the other; a call that gets no answer may have been carried out.
CreateRoute ==
    /\ at = "route"
    /\ \/ /\ gateway
          /\ routes' = [routes EXCEPT ![ApiPaths[step]] = port]
          /\ IF step < Len(ApiPaths)
             THEN step' = step + 1 /\ Goto("route")
             ELSE step' = 0 /\ Goto("address_open")
          /\ UNCHANGED port
       \/ /\ ~gateway
          /\ routes' \in {routes, [routes EXCEPT ![ApiPaths[step]] = port]}
          /\ End
    /\ UNCHANGED <<conf, addressFile>>

\* writeAddressFile truncates ...
OpenAddressFile ==
    /\ at = "address_open"
    /\ \/ addressFile' = NoPort /\ Goto("address_write") /\ UNCHANGED <<port, step>>
       \/ ~disk /\ End /\ UNCHANGED addressFile
    /\ UNCHANGED <<conf, routes>>

\* ... and writes; an error ends the process.
WriteAddressFile ==
    /\ at = "address_write"
    /\ IF disk THEN addressFile' = port /\ Goto("notify") /\ UNCHANGED <<port, step>>
               ELSE End /\ UNCHANGED addressFile
    /\ UNCHANGED <<conf, routes>>

\* SdNotify; the listener of events starts (module Events).
Notify ==
    /\ at = "notify"
    /\ step' = 1
    /\ Goto("dial")
    /\ UNCHANGED <<port, conf, addressFile, routes>>

\* Event types that are offered until the bus takes them.
Bug_RegisterEventTypes ==
    /\ at = "dial"
    /\ IF bus = "up"
       THEN step' = 0 /\ Goto("serve")
       ELSE step' = step /\ Goto("dial")
    /\ UNCHANGED <<port, conf, addressFile, routes>>

\* The event types are offered until the bus takes them, MaxDials times.
RegisterEventTypes ==
    /\ at = "dial"
    /\ IF bus = "up" \/ step = MaxDials
       THEN step' = 0 /\ Goto("serve")
       ELSE step' = step + 1 /\ Goto("dial")
    /\ UNCHANGED <<port, conf, addressFile, routes>>

-----------------------------------------------------------------------------
(* What happens beside the process.                                        *)

\* The process is ended, or the box is.
Crash ==
    /\ at \in Begun /\ crashes < MaxCrashes
    /\ at' = "ended" /\ port' = NoPort /\ step' = 0
    /\ crashes' = crashes + 1
    /\ UNCHANGED <<conf, addressFile, routes, gateway, disk, bus, starts>>

\* The starts are no longer counted as in a row, as long as systemd has not given up.
Calm ==
    /\ starts # 0 /\ ~(starts = StartLimit /\ at = "ended")
    /\ starts' = 0
    /\ UNCHANGED <<at, port, step, conf, addressFile, routes, gateway, disk, bus, crashes>>

GatewayChanges ==
    /\ gateway' = ~gateway
    /\ UNCHANGED <<at, port, step, conf, addressFile, routes, disk, bus, starts, crashes>>

DiskChanges ==
    /\ disk' = ~disk
    /\ UNCHANGED <<at, port, step, conf, addressFile, routes, gateway, bus, starts, crashes>>

BusChanges ==
    /\ bus' \in {"up", "refuses", "away"} \ {bus}
    /\ UNCHANGED <<at, port, step, conf, addressFile, routes, gateway, disk, starts, crashes>>

Init ==
    /\ at = "down" /\ port = NoPort /\ step = 0
    /\ conf \in {"absent", "whole"}
    /\ addressFile = NoPort
    /\ routes = [p \in Paths |-> NoPort]
    /\ gateway \in BOOLEAN /\ disk \in BOOLEAN /\ bus \in {"up", "refuses", "away"}
    /\ starts = 0 /\ crashes = 0

Main ==
    \/ Start \/ CreateConf \/ WriteConf \/ LoadConf \/ GetDb \/ NewService \/ Listen \/ CreateRoute
    \/ OpenAddressFile \/ WriteAddressFile \/ Notify \/ RegisterEventTypes

Next == Main \/ Crash \/ Calm \/ GatewayChanges \/ DiskChanges \/ BusChanges

\* The process is not kept from its next step, and systemd starts it.
Spec == Init /\ [][Next]_vars /\ WF_vars(Main)

-----------------------------------------------------------------------------
(* Properties.                                                             *)

\* The variables have the types the code gives them; a process past net.Listen, and no
\* other, has a listener.
TypeOK ==
    /\ at \in Begun \cup {"down", "ended"}
    /\ port \in Ports \cup {NoPort}
    /\ port # NoPort <=> at \in {"route", "address_open", "address_write", "notify", "dial", "serve"}
    /\ step \in 0..(MaxDials + Len(ApiPaths))
    /\ conf \in {"absent", "empty", "broken", "whole"}
    /\ addressFile \in Ports \cup {NoPort}
    /\ routes \in [Paths -> Ports \cup {NoPort}]
    /\ gateway \in BOOLEAN /\ disk \in BOOLEAN /\ bus \in {"up", "refuses", "away"}
    /\ starts \in 0..StartLimit /\ crashes \in 0..MaxCrashes

\* Once systemd has been told that the service is ready, every route and the address file
\* lead to its listener, whatever earlier starts that failed half way left behind
\* (main.go:152-180).
ReadyMeansReachable ==
    at \in Ready => addressFile = port /\ \A p \in Paths : routes[p] = port

\* The service comes to serve, and stays, once the gateway and the disk do, unless
\* systemd has given up: whatever the bus does, up, refusing, or away for good
\* (main.go:193-215), and whatever the starts that were cut off left at the gateway and
\* of the files, except a configuration that cannot be read (config/init.go:39-61).
Serves ==
    /\ <>[](gateway /\ disk)
    /\ []~(at = "ended" /\ starts = StartLimit)
    /\ [](conf # "broken")
    => <>[](at = "serve")

-----------------------------------------------------------------------------
(* The inductive invariant behind ReadyMeansReachable: what a start has    *)
(* done by the time it is at a step.                                       *)

\* The loops are within their bounds, and every path the loop has passed leads here.
LoopInv ==
    /\ at = "route" => /\ step \in 1..Len(ApiPaths)
                       /\ \A i \in 1..Len(ApiPaths) : i < step => routes[ApiPaths[i]] = port
    /\ at = "dial" => step \in 1..MaxDials

\* Every path leads here from the address file on, which does once it is written.
DoneInv ==
    /\ at \in {"address_open", "address_write", "notify", "dial", "serve"} => \A p \in Paths : routes[p] = port
    /\ at \in {"notify", "dial", "serve"} => addressFile = port

Inv == TypeOK /\ LoopInv /\ DoneInv

=============================================================================
