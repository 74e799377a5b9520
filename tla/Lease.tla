---------------------------------- MODULE Lease ----------------------------------
(***************************************************************************)
(* What the control lease promises the programs of one machine, without    *)
(* saying how: the mouse belongs to one process at a time; only its        *)
(* threads have handles of it, as many as they like; it is given up only   *)
(* when the last of them is closed, or with the process; and the next      *)
(* process takes it from nobody.                                           *)
(*                                                                         *)
(* Processes is the detailed specification and implements this one.        *)
(***************************************************************************)
CONSTANT Threads \* <<process, thread>>

VARIABLES owner, \* the process that has the mouse: a set of one, or of none
          open   \* its threads that have a handle of the mouse

leaseVars == <<owner, open>>

LeaseInit == owner = {} /\ open = {}

Take(t) ==
  /\ owner = {}
  /\ owner' = {t[1]}
  /\ UNCHANGED open

Open(t) ==
  /\ t[1] \in owner
  /\ open' = open \cup {t}
  /\ UNCHANGED owner

Close(t) ==
  /\ open' = open \ {t}
  /\ UNCHANGED owner

GiveUp ==
  /\ open = {}
  /\ owner' = {}
  /\ UNCHANGED open

(* The owner ends, and its handles with it. *)
End ==
  /\ owner' = {} /\ open' = {}

LeaseNext == (\E t \in Threads : Take(t) \/ Open(t) \/ Close(t)) \/ GiveUp \/ End

LeaseSpec == LeaseInit /\ [][LeaseNext]_leaseVars

==================================================================================
