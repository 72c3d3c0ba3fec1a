SPECIFICATION Spec
CONSTANTS
    f1 = f1
    f2 = f2
    Fetches = {f1, f2}
    Urls <- MCUrls
    HostOf <- MCHostOf
    AllowedOrigins <- MCAllowed
    EndsWith <- MCEndsWith
    DenyAll = TRUE
    AllowPrivateIPs = FALSE
    AllowRedirects = TRUE
    MaxRedirects = 3
    Resolve <- MCResolve
    PrivateLiterals = {}
    Redirects <- MCRedirects
    Ttl = 1
    Timeout = 1
    MaxTime = 3
    MaxResponses = 2
SYMMETRY Same
INVARIANTS
    TypeOK
    OnlyAllowedContacted
    ServedIsAskedAndYoung
    MissersOwnTheirResponse
\* The runtime may stop the process, and clients may stop asking.
CHECK_DEADLOCK FALSE
