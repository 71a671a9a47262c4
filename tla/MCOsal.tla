------------------------------- MODULE MCOsal -------------------------------
(* Two tasks with the periods of the detection task and of the camera task, *)
(* or one task with either, and one slot without a task.                    *)
EXTENDS Osal

\* The last one of them.
MCCapturing == {NUM_TASKS - 1}

MCPeriod == [i \in Id |-> {11 * (i + 1)}]
MCPeriods == [i \in Id |-> {11, 22}]
=============================================================================
