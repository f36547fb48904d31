\* Two instruments, two ids, two tables of components, one place for fetches; one fault.
SPECIFICATION HoldingsSpec
CONSTANTS
    Funds = {f, g}
    NoISIN = NoISIN
    Parts <- MCParts
    MaxFetches = 1
    MaxHoldings = 2
    MaxRequests = 2
    MaxFaults = 1
INVARIANTS ComponentsMatchUnlessDisturbed EnteredISINStays
PROPERTIES EtfsAreMadeWhole
CHECK_DEADLOCK FALSE
