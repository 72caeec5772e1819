CONSTANTS
    NoSlug = NoSlug
    NoId = NoId
    NoRow = NoRow
    Deleted = Deleted
    Slugs = {a, b, c}
    Bodies = {"x"}
    Visibilities = {"public", "private"}
    MaxTime = 2
    Ids = {i1, i2}
    Handlers = {h1}
    McpCalls = {m1}
    Ops = {"create", "update", "delete", "upload", "mcpCreate", "setStatus", "mcpUpdate", "setVisibility", "tick"}
    Overlap = FALSE
    LostReplies = FALSE
    MaxFaults = 0
SPECIFICATION FreshSpec
SYMMETRY AllSymmetry
INVARIANTS OldUrlsWork FilesMatchRows
PROPERTIES VisibilityOnly PatchKeepsOmitted TickPublishesDue PublishedAtKept
CHECK_DEADLOCK FALSE
