SPECIFICATION Spec
CONSTANTS
    t1 = t1  t2 = t2  t3 = t3  c1 = c1  b1 = b1  low = low  high = high  usb1 = usb1  usb2 = usb2
    None = None  Offline = Offline  Dirty = Dirty  Operator = Operator
    Tasks = {t1, t2}
    CaptureRequests = {c1}
    BiasRequests = {b1}
    Bands = {low, high}
    Bindings = {usb1}
    Commands <- BiasWorkload
    Shots = 2
    MaxAttempts = 2
    MaximumCancelledRequests = 1
    MaxApplications = 2
SYMMETRY TaskSymmetry
INVARIANTS TypeOK GateExclusion VerifiedFileOnDisk CaptureUsesRequiredBias NoOlderThanOwnSearch
