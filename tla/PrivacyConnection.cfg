SPECIFICATION Spec
CONSTANTS
    None = None
    o1 = o1
    Owners = {o1, o2}
    Accounts = {a1}
    OwnerOf <- MCOwnerOf
    Urls = {u1}
    Posts = {p1}
    CaptureIds = {c1}
    MediaIds = {m1}
    RawIds = {r1, r2}
    Operations = {d1}
    Callers = {k1}
INVARIANT ConnectionErasable
CHECK_DEADLOCK FALSE
