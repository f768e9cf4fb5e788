CONSTANTS
    Captures = {"c1", "c2"}
    NoCapture = "nocapture"
    Permalinks = {"p"}
    PermalinkOf <- MCPermalinkOf
    Operations = {"o1", "o3", "o5"}
    Commands = {"m1", "m4", "m5"}
    OperationOf <- MCOperationOf
    CaptureOf <- MCCaptureOf
    Workers = {w1, w2}
    Captions = {"x", "y"}
    MaxAttempts = 1
    BatchSize = 2
    MaxPasses = 2
    MaxFaults = 1
SYMMETRY Interchangeable
SPECIFICATION ServiceSafety
INVARIANT PreservedIsPublished
INVARIANT CapturedOnceAndFirst
