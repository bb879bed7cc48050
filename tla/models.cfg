SPECIFICATION Spec
CONSTANTS
    h1 = h1
    h2 = h2
    a = a
    b = b
    w = w
    sa = sa
    sw = sw
    None = None
    Handlers <- MCHandlers
    Clients <- Everyone
    Ingesters <- Workshop
    Sessions <- OneSession
    Cookie <- Anonymous
    Faults = {"save", "db", "unlink", "crash"}
    MaxUploads = 2
    RendererMax = 2
SYMMETRY AnyHandler
INVARIANTS
    TypeOK
    NoOverwrite
    OnlyTheSender
    KeptIsOfItsFile
    FilesHaveOwners
CHECK_DEADLOCK FALSE
