SPECIFICATION Spec
CONSTANTS
    Plugins = {files, term}
    Ports = {1}
    Requests = {r1, r2}
    Admins = {}
    AdminOps = {}
    Bundled = {files, term}
    ManifestKeepalive = {}
    PidReuse = FALSE
    DiskFails = FALSE
    SquatPorts = {}
    MaxProcs = 2
    MaxOps = 0
    MaxCrashes = 0
    MaxShutdowns = 0
    NoPlugin = NoPlugin
CHECK_DEADLOCK FALSE
INVARIANT RequestReachesPlugin
