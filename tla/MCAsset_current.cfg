SPECIFICATION Spec
CONSTANTS
    p1 = p1
    p2 = p2
    f1 = f1
    f2 = f2
    s1 = s1
    s2 = s2
    s3 = s3
    Procs = {p1}
    Gc = Gc
    Free = Free
    Files = {f1, f2}
    Canonical = Canonical
    Fingerprint = Fingerprint
    Scratch = {s1, s2}
    NoName = NoName
    MaxFaults = 0
    MaxEdits = 0
CHECK_DEADLOCK FALSE
PROPERTIES
    CurrentCachePreserved
