-------------------------------- MODULE MCHealth --------------------------------
(* Instances of Health: three mice and room for two subjects and two incidents, so
   that both caps are reached, one of them by incidents of a mouse that left. *)
EXTENDS Health

CONSTANTS a, b, c, hz, none

MCFound ==
  {[sequence |-> 3, status |-> "degraded", current |-> b, subjects |-> {a, b},
    rate |-> hz, failures |-> 1,
    incidents |-> {[code |-> "hid", mouse |-> a, count |-> 2, open |-> TRUE, at |-> 1],
                   [code |-> "not_found", mouse |-> b, count |-> 1, open |-> TRUE, at |-> 2]}]}
=============================================================================
