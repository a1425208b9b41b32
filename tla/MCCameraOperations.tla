------------------------- MODULE MCCameraOperations -------------------------
(* Small instances of CameraOperations for TLC.                             *)
EXTENDS CameraOperations, TLC

CONSTANTS t1, t2, t3, c1, b1, low, high, usb1, usb2

TaskSymmetry == Permutations(Tasks)

Capture(bias) == [op |-> "capture", request |-> c1, bias |-> bias]
Bias(op, file) == [op |-> op, request |-> b1, band |-> low, file |-> file]
Abort(op, target) == [op |-> op, target |-> target]
Control(op) == [op |-> op]

\* Everything that waits for something else, and aborts of both kinds contending for a
\* memory of one entry; a request may be delivered again.
WaitingWorkload == {Capture(None), Bias("bias", FALSE), Abort("captureAbort", None),
                    Abort("biasAbort", b1), Control("runtimeLoad")}

\* A BIAS, the adoption of the current BIAS, captures that require it, plain controls and
\* the unloading of the runtime.
BiasWorkload == {Capture(b1), Bias("bias", TRUE), Bias("useCurrent", TRUE), Control("control"),
                 Control("runtimeUnload")}

\* A BIAS, captures that require it and new serial settings, with the device bound anew
\* underneath.
RebindWorkload == {Capture(b1), Bias("bias", TRUE), Control("serialConfig")}
=============================================================================
