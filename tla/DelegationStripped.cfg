SPECIFICATION ChainSpec
CONSTANTS
    edge = edge
    core = core
    low = low
    mid = mid
    high = high
    alice = alice
    Threads = {edge, core}
    Agents = {low, mid, high}
    Hosts <- MCHosts
    Declared <- MCHigh
    Principals = {alice}
    MaxHops = 4
INVARIANT RemovalTightens
