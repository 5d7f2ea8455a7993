SPECIFICATION Spec
CONSTANTS
    Plugins = {files, term}
    Ports = {1, 2}
    Requests = {r1, r2}
    Admins = {}
    AdminOps = {}
    Bundled = {files, term}
    ManifestKeepalive = {}
    PidReuse = FALSE
    DiskFails = FALSE
    SquatPorts = {2}
    MaxProcs = 2
    MaxOps = 0
    MaxCrashes = 0
    MaxShutdowns = 0
    NoPlugin = NoPlugin
SYMMETRY RequestSymmetry
CHECK_DEADLOCK FALSE
INVARIANTS TypeOK PortsExclusive NoLostProcess
