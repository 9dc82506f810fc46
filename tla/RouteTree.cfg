\* Every pair of patterns of up to two segments, hooked ones, other roots.
SPECIFICATION RouteSpec
CONSTANTS
    Specs <- MCSpecs
    Paths <- MCPaths
    Methods = {"GET", "HEAD"}
    Special <- MCSpecial
    Numeric = {"1"}
    MaxRoutes = 2
INVARIANTS
    DispatchSound
    CapturesAgree
    ExactStaticWins
    NotFoundOnlyAtPrefix
    MiddlewareChain
CHECK_DEADLOCK FALSE
