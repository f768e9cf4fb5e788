CONSTANTS
    Captures = {"c1", "c2"}
    NoCapture = "nocapture"
    Permalinks = {"p"}
    PermalinkOf <- MCPermalinkOf
    Operations = {"o1", "o5"}
    Commands = {"m1", "m5"}
    OperationOf <- MCOperationOf
    CaptureOf <- MCCaptureOf
    Workers = {w1}
    Captions = {"x", "y"}
    MaxAttempts = 1
    BatchSize = 1
    MaxPasses = 3
    MaxFaults = 0
SPECIFICATION Spec
PROPERTY StoredStateIsPublished
