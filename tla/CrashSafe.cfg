CONSTANTS
    NoSlug = NoSlug
    NoId = NoId
    NoRow = NoRow
    Deleted = Deleted
    Slugs = {"a", "b"}
    Bodies = {"x"}
    Visibilities = {"public"}
    MaxTime = 1
    Ids = {i1, i2}
    Handlers = {h1, h2}
    McpCalls = {m1}
    Ops = {"upload", "delete", "setStatus", "tick"}
    Overlap = TRUE
    LostReplies = FALSE
    MaxFaults = 1
SPECIFICATION FreshSpec
SYMMETRY MCSymmetry
INVARIANTS PagesHaveFiles
CHECK_DEADLOCK FALSE
