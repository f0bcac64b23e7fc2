------------------------------ MODULE MCCapture ------------------------------
(* One handle, for windows of two processes, one of them in scope; and the *)
(* time when no window is in front, or none that the provider knows.       *)
EXTENDS Capture, TLC

CONSTANTS h1, a, b

OneWindow == h1 :> a
=============================================================================
