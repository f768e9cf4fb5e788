CONSTANTS
    Captures = {"c1"}
    NoCapture = "nocapture"
    Permalinks = {"p"}
    PermalinkOf <- MCPermalinkOf
    Operations = {"o1", "o2", "o3"}
    Commands = {"m1", "m2", "m3", "m4"}
    OperationOf <- MCOperationOf
    CaptureOf <- MCCaptureOf
    Workers = {w1, w2}
    Captions = {"x"}
    MaxAttempts = 2
    BatchSize = 1
    MaxPasses = 3
    MaxFaults = 1
SYMMETRY Interchangeable
SPECIFICATION RaceSpec
INVARIANT TypeOK
INVARIANT OneReportPerOperation
INVARIANT OneReportPerRejection
INVARIANT PendingIsScheduled
INVARIANT RemovedOnce
