\* One endpoint, two types, two clients: a request for a type without endpoints.
CONSTANTS
    e1 = e1
    e2 = e2
    llm = llm
    other = other
    c1 = c1
    c2 = c2
    s1 = s1
    Endpoints <- MCOneEndpoint
    Types <- MCTypes
    Clients <- MCClients
    SessionIDs <- MCSessions
    Configured <- MCConfigured
    Presets <- MCPresets
SPECIFICATION LBFairSpec
CHECK_DEADLOCK FALSE
PROPERTY GetEndpointReturns
