SPECIFICATION FairSpec
CONSTANTS
    Plugins = {files, term}
    Sessions = {s1, s2}
    Mine = s1
    Servers <- MCServers
    Landing = {"plugins", "settings"}
    Menus = {files}
    Eager = {term}
    Tasks = {1, 2}
    MaxEvents = 2
    None = None
CHECK_DEADLOCK FALSE
INVARIANTS TypeOK DrawerFromList InstallOnce
PROPERTIES RevokedIsGone ReadYourWrites DotsConverge SessionEndLeaves ButtonReturns
