------------------------------ MODULE MCPipeline ------------------------------
(* The smallest rings in which the tasks can lap each other.               *)
EXTENDS Pipeline
=============================================================================
