SPECIFICATION ProjectSpec
CONSTANTS
    Manifests <- MCEdits
    Overrides = {}
    ProtoFiles <- MCProtoFiles
    Files <- MCFiles
    CommonProtos <- MCCommonProtos
    RpcMessages = {"MsgSend", "MsgVote", "MsgBare", "MsgMissing"}
    Errors = {"io", "Dependency"}
    Edits = {}
    MaxEdits = 0
INVARIANT
    ProtoImportsResolve
