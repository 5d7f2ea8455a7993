SPECIFICATION FairSpec
CONSTANTS
    Langs = {"zh-CN", "en"}
    Foreign = {"fr"}
    Themes = {"sage", "ocean"}
    Plugins = {files, term}
    Loads <- MCLoads
    MaxEvents = 3
CHECK_DEADLOCK FALSE
INVARIANTS TypeOK LangSettles HonestOverlay
PROPERTIES SettingsQuiet OverlayEnds
