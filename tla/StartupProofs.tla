--------------------------- MODULE StartupProofs ---------------------------
(***************************************************************************)
(* That a service which says it is ready can be reached, for any routes,   *)
(* ports, dials and number of starts that were cut off.                    *)
(***************************************************************************)
EXTENDS Startup, TLAPS

\* A process that ended promises nothing.
LEMMA EndKeeps ==
    ASSUME Inv, End, conf' \in {"absent", "empty", "broken", "whole"},
           addressFile' \in Ports \cup {NoPort}, routes' \in [Paths -> Ports \cup {NoPort}]
    PROVE  Inv'
<1>1. at' = "ended" /\ port' = NoPort /\ step' = 0 /\ UNCHANGED outside
  BY DEF End
<1>2. TypeOK'
  BY <1>1, DialsAssumption, PathsAssumption DEF Inv, TypeOK, outside
<1> QED BY <1>1, <1>2 DEF Inv, LoopInv, DoneInv

\* The initial state has promised nothing.
LEMMA InitInv == Init => Inv
BY PortsAssumption, DialsAssumption, PathsAssumption DEF Init, Inv, TypeOK, LoopInv, DoneInv

\* Every step of init keeps the invariant.
LEMMA InitStepsKeep ==
    ASSUME Inv, Start \/ CreateConf \/ WriteConf \/ LoadConf \/ GetDb \/ NewService
    PROVE  Inv'
<1>1. CASE End
  <2>1. conf' \in {"absent", "empty", "broken", "whole"} /\ UNCHANGED <<addressFile, routes>>
    BY <1>1 DEF Inv, TypeOK, End, Start, CreateConf, WriteConf, LoadConf, GetDb, NewService
  <2> QED BY <1>1, <2>1, EndKeeps DEF Inv, TypeOK
<1>2. CASE ~End
  <2>1. /\ at \in {"down", "ended", "conf_create", "conf_write", "load", "database", "service"}
        /\ at' \in {"conf_create", "load", "conf_write", "database", "service", "listen"}
        /\ conf' \in {"absent", "empty", "broken", "whole"}
        /\ starts' \in 0..StartLimit
        /\ UNCHANGED <<port, step, addressFile, routes, gateway, disk, bus, crashes>>
    BY <1>2, DialsAssumption DEF Inv, TypeOK, Start, CreateConf, WriteConf, LoadConf, GetDb, NewService, Goto, outside
  <2>2. TypeOK'
    BY <2>1 DEF Inv, TypeOK, Begun
  <2> QED BY <2>1, <2>2 DEF Inv, LoopInv, DoneInv
<1> QED BY <1>1, <1>2

\* The loop over the routes leaves every path at this listener.
LEMMA CreateRouteKeeps ==
    ASSUME Inv, CreateRoute
    PROVE  Inv'
<1>1. at = "route" /\ step \in 1..Len(ApiPaths) /\ port \in Ports /\ UNCHANGED <<conf, addressFile>>
  BY DEF Inv, LoopInv, TypeOK, CreateRoute
<1>2. ApiPaths[step] \in Paths
  BY <1>1 DEF Paths
<1>3. CASE ~gateway
  <2>1. End /\ routes' \in {routes, [routes EXCEPT ![ApiPaths[step]] = port]}
    BY <1>3 DEF CreateRoute
  <2>2. routes' \in [Paths -> Ports \cup {NoPort}]
    BY <1>1, <1>2, <2>1 DEF Inv, TypeOK
  <2> QED BY <1>1, <2>1, <2>2, EndKeeps DEF Inv, TypeOK
<1>4. CASE gateway
  <2>1. routes' = [routes EXCEPT ![ApiPaths[step]] = port] /\ port' = port /\ UNCHANGED outside
    BY <1>4 DEF CreateRoute, Goto
  <2>2. routes' \in [Paths -> Ports \cup {NoPort}]
    BY <1>1, <1>2, <2>1 DEF Inv, TypeOK
  <2>3. ASSUME NEW i \in 1..Len(ApiPaths), i <= step
        PROVE  routes'[ApiPaths[i]] = port'
    <3>1. ApiPaths[i] \in Paths
      BY DEF Paths
    <3>2. i = step \/ routes[ApiPaths[i]] = port
      BY <1>1, <2>3, PathsAssumption DEF Inv, LoopInv
    <3> QED BY <1>2, <2>1, <3>1, <3>2 DEF Inv, TypeOK
  <2>4. CASE step < Len(ApiPaths)
    <3>1. step' = step + 1 /\ at' = "route"
      BY <1>4, <2>4 DEF CreateRoute, Goto
    <3>2. TypeOK'
      BY <1>1, <2>1, <2>2, <2>4, <3>1, DialsAssumption, PathsAssumption DEF Inv, TypeOK, outside, Begun
    <3>3. step' \in 1..Len(ApiPaths) /\ \A i \in 1..Len(ApiPaths) : i < step' => i <= step
      BY <1>1, <2>4, <3>1, PathsAssumption
    <3>4. LoopInv'
      BY <2>3, <3>1, <3>3 DEF LoopInv
    <3> QED BY <3>1, <3>2, <3>4 DEF Inv, DoneInv
  <2>5. CASE ~(step < Len(ApiPaths))
    <3>1. step' = 0 /\ at' = "address_open"
      BY <1>4, <2>5 DEF CreateRoute, Goto
    <3>2. TypeOK'
      BY <1>1, <2>1, <2>2, <3>1, DialsAssumption, PathsAssumption DEF Inv, TypeOK, outside, Begun
    <3>3. \A i \in 1..Len(ApiPaths) : i <= step
      BY <1>1, <2>5, PathsAssumption
    <3>4. \A p \in Paths : routes'[p] = port'
      BY <2>3, <3>3 DEF Paths
    <3> QED BY <3>1, <3>2, <3>4 DEF Inv, LoopInv, DoneInv
  <2> QED BY <2>4, <2>5
<1> QED BY <1>3, <1>4

\* Every other step of main keeps the invariant.
LEMMA MainStepsKeep ==
    ASSUME Inv, Listen \/ OpenAddressFile \/ WriteAddressFile \/ Notify \/ RegisterEventTypes
    PROVE  Inv'
<1>1. CASE Listen
  <2>1. at' = "route" /\ step' = 1 /\ port' \in Ports /\ UNCHANGED <<conf, addressFile, routes>> /\ UNCHANGED outside
    BY <1>1 DEF Listen, Goto
  <2>2. TypeOK'
    BY <2>1, PortsAssumption, DialsAssumption, PathsAssumption DEF Inv, TypeOK, outside, Begun
  <2>3. LoopInv'
    BY <2>1, PathsAssumption DEF LoopInv
  <2> QED BY <2>1, <2>2, <2>3 DEF Inv, DoneInv
<1>2. CASE (OpenAddressFile \/ WriteAddressFile) /\ End
  <2>1. UNCHANGED <<conf, routes>> /\ addressFile' \in {addressFile, NoPort, port}
    BY <1>2 DEF OpenAddressFile, WriteAddressFile
  <2> QED BY <1>2, <2>1, EndKeeps DEF Inv, TypeOK
<1>3. CASE (OpenAddressFile \/ WriteAddressFile) /\ ~End
  <2>1. /\ at \in {"address_open", "address_write"} /\ at' \in {"address_write", "notify"}
        /\ addressFile' = IF at' = "notify" THEN port ELSE NoPort
        /\ UNCHANGED <<port, step, conf, routes>> /\ UNCHANGED outside
    BY <1>3 DEF OpenAddressFile, WriteAddressFile, Goto
  <2>2. TypeOK'
    BY <2>1 DEF Inv, TypeOK, outside, Begun
  <2> QED BY <2>1, <2>2 DEF Inv, LoopInv, DoneInv
<1>4. CASE Notify \/ RegisterEventTypes
  <2>1. /\ at \in {"notify", "dial"} /\ at' \in {"dial", "serve"}
        /\ step' \in 0..MaxDials /\ (at' = "dial" => step' \in 1..MaxDials)
        /\ UNCHANGED <<port, conf, addressFile, routes>> /\ UNCHANGED outside
    BY <1>4, DialsAssumption DEF Notify, RegisterEventTypes, Goto, Inv, LoopInv
  <2>2. TypeOK'
    BY <2>1, DialsAssumption, PathsAssumption DEF Inv, TypeOK, outside, Begun
  <2> QED BY <2>1, <2>2 DEF Inv, LoopInv, DoneInv
<1> QED BY <1>1, <1>2, <1>3, <1>4

\* What happens beside the process keeps the invariant, and so does a crash.
LEMMA OutsideKeeps ==
    ASSUME Inv, Crash \/ Calm \/ GatewayChanges \/ DiskChanges \/ BusChanges \/ UNCHANGED vars
    PROVE  Inv'
<1>1. CASE Crash
  <2>1. at' = "ended" /\ port' = NoPort /\ step' = 0 /\ crashes' \in 0..MaxCrashes
        /\ UNCHANGED <<conf, addressFile, routes, gateway, disk, bus, starts>>
    BY <1>1, DialsAssumption DEF Crash, Inv, TypeOK
  <2>2. TypeOK'
    BY <2>1, DialsAssumption, PathsAssumption DEF Inv, TypeOK
  <2> QED BY <2>1, <2>2 DEF Inv, LoopInv, DoneInv
<1>2. CASE ~Crash
  <2>1. UNCHANGED <<at, port, step, conf, addressFile, routes, crashes>>
    BY <1>2 DEF Calm, GatewayChanges, DiskChanges, BusChanges, vars
  <2>2. starts' \in 0..StartLimit
    BY <1>2, DialsAssumption DEF Calm, GatewayChanges, DiskChanges, BusChanges, vars, Inv, TypeOK
  <2>3. bus' \in {"up", "refuses", "away"}
    BY <1>2 DEF Calm, GatewayChanges, DiskChanges, BusChanges, vars, Inv, TypeOK
  <2>4. gateway' \in BOOLEAN /\ disk' \in BOOLEAN
    BY <1>2, Zenon DEF Calm, GatewayChanges, DiskChanges, BusChanges, vars, Inv, TypeOK
  <2>5. TypeOK'
    BY <2>1, <2>2, <2>3, <2>4 DEF Inv, TypeOK
  <2> QED BY <2>1, <2>5 DEF Inv, LoopInv, DoneInv
<1> QED BY <1>1, <1>2

\* Inv is an invariant of every start and of what comes between starts.
LEMMA Invariant == Spec => []Inv
<1>1. Inv /\ [Next]_vars => Inv'
  BY InitStepsKeep, CreateRouteKeeps, MainStepsKeep, OutsideKeeps DEF Next, Main
<1> QED BY InitInv, <1>1, PTL DEF Spec

\* For any ports, routes, dials and start limit, the variables have their types: a
\* process past net.Listen, and no other, has a listener (main.go:152).
THEOREM StartupTypeCorrect == Spec => []TypeOK
BY Invariant, PTL DEF Inv

\* For any routes and any number of starts cut off at any step, a service that has told
\* systemd it is ready is where every route and the address file lead (main.go:152-180).
THEOREM ReadyMeansReachableHolds == Spec => []ReadyMeansReachable
<1>1. Inv => ReadyMeansReachable
  BY DEF Inv, DoneInv, ReadyMeansReachable, Ready
<1> QED BY <1>1, Invariant, PTL

=============================================================================
