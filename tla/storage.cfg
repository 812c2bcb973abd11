SPECIFICATION Spec
CONSTANTS
    Words <- MCWords
    OtherWords = {"a b"}
    Longer <- MCLonger
    Ids <- MCIds
    Keys <- MCKeys
    Extensions = {"", ".mp3", ".wav", ".m4a", ".exe"}
    BasePath <- MCBasePath
    Bodies = {b1, b2}
    DefaultKeys = 2
INVARIANTS TypeOK AcceptedNamesHaveKeys KeysAgree ListRawIsOfItsTrack
