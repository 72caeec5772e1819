CONSTANTS
    NoSlug = NoSlug
    NoId = NoId
    NoRow = NoRow
    Deleted = Deleted
    Slugs = {"a"}
    Bodies = {"x"}
    Visibilities = {"public"}
    MaxTime = 2
    Ids = {i1}
    Handlers = {}
    McpCalls = {m1}
    Ops = {"mcpCreate", "setStatus", "mcpUpdate", "tick"}
    Overlap = TRUE
    LostReplies = FALSE
    MaxFaults = 0
SPECIFICATION Spec
PROPERTIES PatchKeepsOmitted
CHECK_DEADLOCK FALSE
