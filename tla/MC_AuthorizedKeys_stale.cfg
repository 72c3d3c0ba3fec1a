SPECIFICATION Spec
CONSTANTS
    a = a
    b = b
    Handshakes = {h1, h2}
    Keys <- MCKeys
    Names <- MCNames
    Files <- MCFiles
    MaxVersions = 2
INVARIANT
    EveryConnectionSeesTheFile
