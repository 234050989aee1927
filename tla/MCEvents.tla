----------------------------- MODULE MCEvents -----------------------------
(* Events for TLC: three events, two about one drive and one about none.   *)
EXTENDS Events

MCUuids == 1..3
MCSerialOf == [uuid \in MCUuids |-> IF uuid = 3 THEN NoSerial ELSE "sda"]

=============================================================================
