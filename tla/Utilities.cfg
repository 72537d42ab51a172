SPECIFICATION Spec
CONSTANTS
    k1 = k1
    k2 = k2
    k3 = k3
    v1 = v1
    v2 = v2
    Missing = Missing
    Key <- MCKey
    Value <- MCValue
    Hashes <- MCHashes
    INITIAL_SIZE = 4
    MAX_CHAIN_LENGTH = 2
    MaxTable = 32
    c1 = c1
    c2 = c2
    known = known
    n1 = n1
    n2 = n2
    Client <- MCClient
    Server = Server
    Relay = Relay
    NoAddr = NoAddr
    QueryId = {1, 2}
    Queries <- MCQueries
    Known <- MCKnown
INVARIANTS
    AnswersGoBack
PROPERTIES
    MapKept
