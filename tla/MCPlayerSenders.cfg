CONSTANTS
    Players = {p1, p2}
    InitVersion = 3
    NoSender = NoSender
    Versions <- MCVersions
    SerializerVersions <- MCSerializerVersions
    Creators <- MCCreators

SPECIFICATION Spec

INVARIANT SendersMatchVersion
