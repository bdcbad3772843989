SPECIFICATION IndexingSpec
CONSTANT Threads = {"main", "worker"}
CONSTANT MaxHeight = 2
CONSTANT Entries = {"e1", "e2"}
CONSTANT StaticDs <- MCStaticDs
CONSTANT Templates <- MCTemplates
CONSTANT Args <- MCArgs
CONSTANT MaxDynamic = 2
CONSTANT NoThread = "none"
CONSTANT Workers = {"worker"}
CONSTANT MaxHead = 3
INVARIANT ContextTypeOK
INVARIANT HandlerSeesItsBlock
INVARIANT ArgsStayApart
INVARIANT NoForkReported
PROPERTY SameAfterRestart
