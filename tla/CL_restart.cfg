SPECIFICATION Spec
CONSTANTS
    Panels = {p1, p2}
    Commands = {c1, c2}
    Handlers = {h1}
    Front = front
    Addrs = {all, local}
    Default = all
    Loopback = local
    Secrets = {s1, s2}
    None = None
SYMMETRY Symmetry
CHECK_DEADLOCK FALSE
INVARIANTS TypeOK OneOwner LoadedAsSaved
