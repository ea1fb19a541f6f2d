SPECIFICATION Spec
CONSTANTS
    Config <- AllConfigs
    First <- Gatt
    Number <- HostNumber
    UavHosts <- Hosts
    MaxEvents = 2
INVARIANTS TypeOK Faithful
PROPERTIES OneBearer Settles Recovers
CHECK_DEADLOCK FALSE
