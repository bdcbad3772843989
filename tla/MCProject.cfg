SPECIFICATION ProjectSpec
CONSTANTS
    Manifests <- MCManifests
    Overrides <- MCOverrides
    ProtoFiles <- MCProtoFiles
    Files <- MCFiles
    CommonProtos <- MCCommonProtos
    RpcMessages = {"MsgSend", "MsgVote", "MsgBare", "MsgMissing"}
    Errors = {"io", "Dependency"}
    Edits <- MCEdits
    MaxEdits = 1
INVARIANTS
    StartTypeOK
    LoadedAsWritten
    RegistryComplete
    ConnectedAsConfigured
    TempDirRemoved
    CauseTold
    ImportsResolve
PROPERTY
    StartEnds
