SPECIFICATION RegistrySpec
CONSTANTS
    Keys = {k1}
    Requests = {r1, r2}
    Ids = {e1, e2, e3}
    Limit = 1
PROPERTIES
    OnlyAddsCreate
CHECK_DEADLOCK FALSE
