\* A closed connection does nothing any more.
CHECK_DEADLOCK FALSE
SPECIFICATION FairSpec
CONSTANTS
    Handles = {1, 2, 3}
    Ports = {"port", "other"}
    NoPort = "none"
    Workloads <- MCWorkloads
    Udp <- MCUdp
    TcpPorts = {1, 2, 3}
    OutPorts = {1024, 1025}
    Sizes = {1, 2}
    MaxQueue = 2
    MaxBytes = 5
    SndBuf = 3
    RcvBuf = 3
    Protos = {"ltudp", "utp", "stream"}
INVARIANTS BookkeepingExact SentToPeer 
PROPERTY Reusable
