SPECIFICATION MCTenantsSpec
CONSTANTS
    Phones = {p1}
    Emails = {e1}
    Jobs = {1, 2}
    Sweeps = {s1}
    MaxRows = 2
    MaxLines = 2
    MaxBookFaults = 1
    Tenants = {"a", "b"}
    Subscriptions = {"s1"}
    Deliveries = {1, 2, 3}
    AdminRequests = {1}
    MaxOccurredAt = 2
    MaxBillingFaults = 1
    None = "none"
    HostingRequests = {1, 2, 3}
    Numbers = {n1}
    SharedAccount = TRUE
    MaxOrders = 2
    NoValue = NoValue
    Attempts = {1, 2, 3, 4}
    MaxOtpAttempts = 2
    MaxSecrets = 2
    MaxSignInFaults = 1
    Owners = {"a", "b"}
    Members = {"m"}
    Addresses = {e1}
    Changes = {1, 2, 3}
    Unset = "unset"
INVARIANTS
    OneRowPerContact
    NewestEventDecides
    RefreshKeepsConfig
    GuessesBounded
    SecretUsedOnce
    OneAccountPerAddress
PROPERTIES
    StopIsRemembered
    EventSettles
CHECK_DEADLOCK FALSE
