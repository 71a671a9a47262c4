--------------------------- MODULE MCMotionCapture ---------------------------
(* The detector and the camera, with restarts of the program.              *)
EXTENDS MotionCapture
=============================================================================
