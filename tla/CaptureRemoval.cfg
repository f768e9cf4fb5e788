CONSTANTS
    Captures = {"c1"}
    NoCapture = "nocapture"
    Permalinks = {"p"}
    PermalinkOf <- MCPermalinkOf
    Operations = {"o1"}
    Commands = {"m1"}
    OperationOf <- MCOperationOf
    CaptureOf <- MCCaptureOf
    Workers = {w1}
    Captions = {"x"}
    MaxAttempts = 1
    BatchSize = 1
    MaxPasses = 1
    MaxFaults = 0
SPECIFICATION Spec
INVARIANT NothingAfterRemoval
