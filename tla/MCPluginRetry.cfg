CONSTANTS
    Dirs = {"sys", "devel", "extra"}
    DefaultPath <- MCDefaultPath
    Types = {"Service"}
    MaxArgDirs = 2
    PluginKinds = {"params"}
SPECIFICATION Spec
PROPERTY CreateFindsInstalledPlugin
