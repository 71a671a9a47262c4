---------------------------- MODULE MCDetection ----------------------------
(* The detector on its own, with a reader that empties the queue.          *)
EXTENDS Detection
=============================================================================
