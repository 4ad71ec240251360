SPECIFICATION Spec
CONSTANTS
    Table <- MCTable
    Persisted = {"S09", "S0A", "S0C", "S12", "S43"}
    Protected = {"S09", "S0A", "S0C"}
    Volatile = {"S42"}
    CopyOf <- MCCopyOf
    Numeric = {"S0A", "S12", "S42", "S43"}
    Password = "S0C"
    UartReg = "S12"
    EchoOff = 4
    Digits <- MCDigits
    Values <- MCValues
    Default <- MCDefault
INVARIANTS
    Durable
PROPERTIES
    SavedAsTyped
    PasswordFallsLast
