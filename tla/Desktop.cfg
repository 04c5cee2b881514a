SPECIFICATION DesktopSpec
CONSTANTS
    mine = mine
    Development = Unset
    Unset = Unset
    Unreadable = Unreadable
    NoFile = NoFile
    Executables <- MCExecutables
    Files <- MCFiles
    Edits <- MCEdits
    MaxClicks = 2
    MaxCrashes = 1
    MaxSaves = 1
    MaxBrowserFaults = 1
    MaxFaults = 1
INVARIANTS ManagerInv WindowTellsTruth BrowserIsClosed
PROPERTIES RefinesServiceGroup StopIsObeyed BrowserIsShown BrowserComesBack
