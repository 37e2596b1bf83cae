\* One failure, then hostsync for ever.
SPECIFICATION FairSpec
CONSTANTS
    h1 = h1
    h2 = h2
    p1 = p1
    p2 = p2
    None = None
    Hosts <- MCHosts
    Procs <- MCProcs
    HostOf <- MCHostOf
    Users = {u1}
    DefaultHost = None
    MaxFaults = 1
PROPERTY
    AddResolved
