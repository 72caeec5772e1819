CONSTANTS
    NoSlug = NoSlug
    NoId = NoId
    NoRow = NoRow
    Deleted = Deleted
    Slugs = {"a"}
    Bodies = {"x"}
    Visibilities = {"public"}
    MaxTime = 1
    Ids = {i1, i2}
    Handlers = {h1}
    McpCalls = {m1}
    Ops = {"create", "update", "delete", "upload", "setStatus", "mcpUpdate", "tick"}
    Overlap = TRUE
    LostReplies = TRUE
    MaxFaults = 1
SPECIFICATION Spec
SYMMETRY MCSymmetry
INVARIANTS TypeOK Lifecycle IInv
PROPERTIES IdentityKept
CHECK_DEADLOCK FALSE
