----------------------------- MODULE SafetyGate -----------------------------
(***************************************************************************)
(* What the command channel of crates/razer-hid promises to the rest of    *)
(* the process, without saying how.  One thread at a time owns the         *)
(* channel; only the owner puts reports on the wire, and only while its    *)
(* command has not failed and the process-wide latch is clear; a failed    *)
(* command cannot give the channel back without setting the latch; the     *)
(* latch keeps its first reason for the rest of the process.               *)
(*                                                                         *)
(* Transport is the detailed specification and implements this one.        *)
(***************************************************************************)
CONSTANTS Threads,   \* threads of the process that issue device commands
          Reasons,   \* the failures that stop device commands
          Nobody,    \* no thread
          Clear      \* the latch is not set

VARIABLES owner,     \* the thread inside a command, or Nobody
          onWire,    \* the owner has a report on the wire
          failure,   \* why the owner's command failed, or Clear
          latch      \* why device commands stopped, or Clear

gateVars == <<owner, onWire, failure, latch>>

GateTypeOK ==
  /\ owner \in Threads \cup {Nobody}
  /\ onWire \in BOOLEAN
  /\ failure \in Reasons \cup {Clear}
  /\ latch \in Reasons \cup {Clear}

GateInit ==
  /\ owner = Nobody
  /\ onWire = FALSE
  /\ failure = Clear
  /\ latch = Clear

(* A thread starts a command: the channel is free and the latch is clear. *)
Enter(t) ==
  /\ owner = Nobody /\ latch = Clear
  /\ owner' = t
  /\ UNCHANGED <<onWire, failure, latch>>

(* The owner puts one report on the wire. *)
Report(t) ==
  /\ owner = t /\ ~onWire /\ failure = Clear
  /\ onWire' = TRUE
  /\ UNCHANGED <<owner, failure, latch>>

(* The owner has its answer; with the last one it may give the channel back. *)
Answered(t) ==
  /\ owner = t /\ onWire
  /\ onWire' = FALSE
  /\ owner' \in {t, Nobody}
  /\ UNCHANGED <<failure, latch>>

(* The owner's command fails, before or after its report went out. *)
Fail(t) ==
  /\ owner = t /\ failure = Clear
  /\ failure' \in Reasons
  /\ onWire' = FALSE
  /\ UNCHANGED <<owner, latch>>

(* The only way out of a failed command sets the latch. *)
LeaveFailed(t) ==
  /\ owner = t /\ failure # Clear
  /\ latch' = failure
  /\ owner' = Nobody
  /\ failure' = Clear
  /\ UNCHANGED onWire

(* A failure seen outside the channel latches too, between two commands. *)
Stop(r) ==
  /\ owner = Nobody /\ latch = Clear
  /\ latch' = r
  /\ UNCHANGED <<owner, onWire, failure>>

GateNext ==
  \/ \E t \in Threads : \/ Enter(t) \/ Report(t) \/ Answered(t)
                        \/ Fail(t) \/ LeaveFailed(t)
  \/ \E r \in Reasons : Stop(r)

GateSpec == GateInit /\ [][GateNext]_gateVars

=============================================================================
