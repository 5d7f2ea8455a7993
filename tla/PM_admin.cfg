SPECIFICATION Spec
CONSTANTS
    Plugins = {files}
    Ports = {1, 2}
    Requests = {r1}
    Admins = {a1, a2}
    AdminOps = {"start", "stop", "restart", "keepalive", "uninstall", "install", "upgrade"}
    Bundled = {files}
    ManifestKeepalive = {}
    PidReuse = FALSE
    DiskFails = FALSE
    SquatPorts = {}
    MaxProcs = 2
    MaxOps = 2
    MaxCrashes = 0
    MaxShutdowns = 0
    NoPlugin = NoPlugin
SYMMETRY AdminSymmetry
CHECK_DEADLOCK FALSE
INVARIANT DeadEntryIsDue
PROPERTIES OnlyIdleExits
