-------------------------------- MODULE MCSession --------------------------------
(* Instances of Session: two intervals, a heartbeat that falls between them, a task
   that outlasts the debounce window, two buttons on one collection,
   which one report can press together. *)
EXTENDS Session

CONSTANTS up, down
=============================================================================
