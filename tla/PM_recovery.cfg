SPECIFICATION Spec
CONSTANTS
    Plugins = {files, agent}
    Ports = {1, 2}
    Requests = {}
    Admins = {a1}
    AdminOps = {"restart"}
    Bundled = {files, agent}
    ManifestKeepalive = {agent}
    PidReuse = TRUE
    DiskFails = TRUE
    SquatPorts = {}
    MaxProcs = 3
    MaxOps = 1
    MaxCrashes = 1
    MaxShutdowns = 1
    NoPlugin = NoPlugin
CHECK_DEADLOCK FALSE
INVARIANTS PortMapAgrees OwnTickNeverStray
PROPERTIES ServingIsAdopted LeaseSpec SupervisionSpec
