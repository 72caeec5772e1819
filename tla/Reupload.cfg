CONSTANTS
    NoSlug = NoSlug
    NoId = NoId
    NoRow = NoRow
    Deleted = Deleted
    Slugs = {"a"}
    Bodies = {"x"}
    Visibilities = {"public"}
    MaxTime = 1
    Ids = {i1, i2}
    Handlers = {h1}
    McpCalls = {}
    Ops = {"upload"}
    Overlap = FALSE
    LostReplies = FALSE
    MaxFaults = 0
SPECIFICATION Spec
INVARIANTS FilesMatchRows
CHECK_DEADLOCK FALSE
