\* Up to three listeners, the second with reloadable certificates, the third
\* one hybrid.
SPECIFICATION Spec
CONSTANTS
    MaxListeners = 3
    Tls = {1, 2}
    Reloadable = {1}
    Hybrid = {2}
    MaxVersion = 2
    Base = 2
    MaxDelay = 3
    MaxArrive = 2
    MaxErr = 2
INVARIANTS
    ConnectionConservation
PROPERTIES
    FreshCertificate
    RotatesSelection
    BackoffEnds
CHECK_DEADLOCK FALSE
