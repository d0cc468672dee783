SPECIFICATION FairSpec
CONSTANTS
    Texts <- MCTexts
    Size <- MCSize
    Browsers = {b1}
    SessionIDs = {s1, s2}
    Deployments <- Rotations
    LoginTimeout = 1
    SessionTimeout = 3
    TokenLife = 1
    MaxLives = 3
    None = None
INVARIANTS
    TypeOK
    RunningCanEncode
    RowsSurviveRotation
    FirstRotationKeepsCookies
PROPERTIES
    BrowsersRecover
    UnreadableRowsGo
