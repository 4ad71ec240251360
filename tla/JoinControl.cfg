SPECIFICATION FairSpec
CONSTANTS
    Table <- MCTable
    Persisted = {"S0A", "S0C", "S12"}
    Protected = {"S0A", "S0C"}
    Volatile = {}
    CopyOf <- MCCopyOf
    Numeric = {"S0A", "S12"}
    Password = "S0C"
    UartReg = "S12"
    EchoOff = 4
    Digits <- MCDigits
    Values <- MCValues
    Default <- MCDefault
    MainReg = "S0A"
    HostRegs = {"S0A"}
    MaxPending = 1
INVARIANTS
    ChainAlive
    TcStaysClosed
    LocalStaysClosed
    PolicyFollows
PROPERTIES
    KeptOpen
