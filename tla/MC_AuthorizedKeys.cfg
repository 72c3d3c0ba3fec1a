SPECIFICATION Spec
CONSTANTS
    a = a
    b = b
    Handshakes = {h1, h2}
    Keys <- MCKeys
    Names <- MCNames
    Files <- MCFiles
    MaxVersions = 3
INVARIANTS
    TypeOK
    StoreIsOneFile
    TrustedExactlyWhenListed
    FreshUnlessOvertaken
PROPERTY
    RegistrationTakesEffect
