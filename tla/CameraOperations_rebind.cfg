SPECIFICATION Spec
CONSTANTS
    t1 = t1  t2 = t2  t3 = t3  c1 = c1  b1 = b1  low = low  high = high  usb1 = usb1  usb2 = usb2
    None = None  Offline = Offline  Dirty = Dirty  Operator = Operator
    Tasks = {t1, t2}
    CaptureRequests = {c1}
    BiasRequests = {b1}
    Bands = {low}
    Bindings = {usb1, usb2}
    Commands <- RebindWorkload
    Shots = 1
    MaxAttempts = 1
    MaximumCancelledRequests = 1
    MaxApplications = 2
SYMMETRY TaskSymmetry
INVARIANTS AppliedMatchesRegisters
