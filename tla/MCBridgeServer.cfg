CONSTANTS
    c1 = c1
    Callers = {c1}
    MaxChildren = 1
    MaxRequests = 2
    Overrides = {"auto", "json", "msgpack"}
    Offers = {}
SPECIFICATION EngineSpec
INVARIANT BootstrapDecodable
CHECK_DEADLOCK FALSE
