CONSTANTS
    Uuids <- MCUuids
    Serials = {"sda", "sdb"}
    SerialOf <- MCSerialOf
    NoSerial = "none"
    Requests = {r1}
    Ignored = Ignored
    MaxDials = 3
    MaxWire = 1
SPECIFICATION Spec
INVARIANTS TypeOK GivesUpOnlyWhenExhausted
PROPERTIES Resubscribes
