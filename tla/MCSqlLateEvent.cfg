CONSTANTS
    a = a
    b = b
    Ids = {a, b}
    Keys = {"k1"}
    Writers = {w1, w2}
    Target <- OneTarget
    Accepts <- AcceptsUntilClosed
    Setups <- TwoStreams
    MaxPolls = 1
    MaxAttempts = 2
SPECIFICATION Spec
INVARIANT FeedHasNoLateEvents
CHECK_DEADLOCK FALSE
