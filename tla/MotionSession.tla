---------------------------- MODULE MotionSession ----------------------------
(***************************************************************************)
(* What the motion detector promises to whoever listens to its events,     *)
(* without its state machine: a session of motion is opened only by a      *)
(* sample that shows motion, and closed only when the samples have shown   *)
(* none for at least HOLD units of time.  A pause shorter than HOLD never  *)
(* splits a session, which is what the README means by "continuous motion  *)
(* detection without gaps".                                                *)
(***************************************************************************)
EXTENDS Integers

CONSTANT HOLD         \* the length of the hold-off

VARIABLES
  active,             \* a session is open
  moving,             \* the last sample of the sensor showed motion
  quiet               \* time since the last sample that did, up to HOLD

vars == <<active, moving, quiet>>

Init ==
  /\ active = FALSE
  /\ moving = FALSE
  /\ quiet = HOLD

\* The sensor is sampled; motion restarts the measure of quiet.
Sample ==
  /\ moving' \in BOOLEAN
  /\ quiet' = IF moving' THEN 0 ELSE quiet
  /\ UNCHANGED active

Tick ==
  /\ quiet < HOLD
  /\ quiet' = quiet + 1
  /\ UNCHANGED <<active, moving>>

Open ==
  /\ moving
  /\ active' = TRUE
  /\ UNCHANGED <<moving, quiet>>

Close ==
  /\ active
  /\ ~moving
  /\ quiet >= HOLD
  /\ active' = FALSE
  /\ UNCHANGED <<moving, quiet>>

Next == Sample \/ Tick \/ Open \/ Close

Spec == Init /\ [][Next]_vars
=============================================================================
