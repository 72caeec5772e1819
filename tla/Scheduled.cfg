CONSTANTS
    NoSlug = NoSlug
    NoId = NoId
    NoRow = NoRow
    Deleted = Deleted
    Slugs = {"a","b"}
    Bodies = {"x"}
    Visibilities = {"public"}
    MaxTime = 2
    Ids = {i1, i2}
    Handlers = {}
    McpCalls = {m1}
    Ops = {"mcpCreate", "setStatus", "setVisibility", "tick", "redirect"}
    Overlap = TRUE
    LostReplies = TRUE
    MaxFaults = 1
SPECIFICATION FairSpec
PROPERTIES ScheduleHonoured
CHECK_DEADLOCK FALSE
