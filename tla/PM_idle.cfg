SPECIFICATION FairSpec
CONSTANTS
    Plugins = {files}
    Ports = {1}
    Requests = {r1, r2}
    Admins = {a1}
    AdminOps = {"keepalive"}
    Bundled = {files}
    ManifestKeepalive = {}
    PidReuse = FALSE
    DiskFails = FALSE
    SquatPorts = {}
    MaxProcs = 1
    MaxOps = 4
    MaxCrashes = 0
    MaxShutdowns = 0
    NoPlugin = NoPlugin
CHECK_DEADLOCK FALSE
INVARIANT IdleIsTimed
PROPERTIES UnusedPluginExits OwnDeadEntryLeaves
