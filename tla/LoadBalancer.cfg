\* Two endpoints of one type that bring up to one connection, two clients that
\* may share a session, each way to select.  The leaked lock stops everything:
\* behaviours end.
CONSTANTS
    e1 = e1
    e2 = e2
    llm = llm
    other = other
    c1 = c1
    c2 = c2
    s1 = s1
    Endpoints <- MCEndpoints
    Types <- MCOneType
    Clients <- MCClients
    SessionIDs <- MCSessions
    Configured <- MCConfigured
    Presets <- MCPresets
SPECIFICATION LBSpec
VIEW LBView
SYMMETRY LBSymmetry
CHECK_DEADLOCK FALSE
INVARIANTS
    NoLeakedConnections
PROPERTIES
    ServedIsHealthy
    RoundRobinIsEven
