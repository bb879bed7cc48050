SPECIFICATION Spec
CONSTANTS
    h1 = h1
    h2 = h2
    a = a
    b = b
    w = w
    sa = sa
    sw = sw
    None = None
    Handlers <- OneHandler
    Clients <- ToolOnly
    Ingesters <- Workshop
    Sessions <- MCSessions
    Cookie <- ToolCookie
    Faults = {"crash"}
    MaxUploads = 1
    RendererMax = 1
PROPERTIES
    RowLeavesWithItsFile
CHECK_DEADLOCK FALSE
