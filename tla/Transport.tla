------------------------------ MODULE Transport ------------------------------
(***************************************************************************)
(* crates/razer-hid: every device command of the process goes through one  *)
(* mutex-guarded latch (COMMANDS) and is a short script of request/answer  *)
(* exchanges, held under the mutex from the first to the last.  Threads    *)
(* are the main loop, the listener threads and the notice thread that      *)
(* resets on-board binds.                                                  *)
(*                                                                         *)
(* A definition named X_Y is the variant of X with the plausible mistake   *)
(* Y; no specification uses it, it shows which property would notice.      *)
(***************************************************************************)
EXTENDS Naturals, Sequences

CONSTANTS Threads,   \* threads of the process that issue device commands
          Regs,      \* what a command can read or set: mode, DPI, polling, a bind
          Captured,  \* the registers this model has a known read form for
          Writable,  \* the <<register, value>> pairs local validation accepts
          ProbeReg,  \* the DPI register, read before an effect is written
          Values,
          Leds,
          Zones,     \* the spec's rgb_zones, in order; <<>> without lighting
          Requested, \* the commands callers make
          Nobody,
          Clear

ASSUME TransportAssumption ==
  /\ Nobody \notin Threads
  /\ Captured \subseteq Regs /\ ProbeReg \in Captured
  /\ Writable \subseteq Captured \X Values
  /\ Zones \in Seq(Leds)

(* The device failures of Error::requires_stop, by where they arise: the    *)
(* HID call, the reply's length, status or echo, a reply whose payload      *)
(* means nothing (polling code, keymap button), and a read-back mismatch.   *)
StopErrors == {"Hid", "Reply", "Payload", "Verify"}
(* Local: an error found before any I/O.  SafetyStop: the latch said no.    *)
Results == {"none", "ok", "Local", "SafetyStop"} \cup StopErrors

ASSUME ClearAssumption == Clear \notin StopErrors

Commands ==
       [kind : {"check"}]                                  \* ensure_active
  \cup [kind : {"get"}, reg : Regs]
  \cup [kind : {"set"}, reg : Regs, val : Values]
  \cup [kind : {"light"},
        zones : {Zones, <<>>} \cup {<<Zones[i]>> : i \in DOMAIN Zones}]

ASSUME RequestedAssumption == Requested \subseteq Commands

NoCommand == [kind |-> "check"]

(* The checks a command makes before it takes the mutex. *)
LocallyValid(c) ==
  /\ c.kind = "get" => c.reg \in Captured
  /\ c.kind = "set" => <<c.reg, c.val>> \in Writable

(* Lighting on a device, or a zone, that is not there is a silent success. *)
NoOp(c) == c.kind = "light" /\ c.zones = <<>>

Read(r)  == [dir |-> "read", reg |-> r]
Write(r) == [dir |-> "write", reg |-> r]

Script_NoFirstRead(c) ==
  CASE c.kind = "check" -> <<>>
    [] c.kind = "get"   -> <<Read(c.reg)>>
    [] c.kind = "set"   -> <<Write(c.reg), Read(c.reg)>>
    [] c.kind = "light" -> [i \in 1..Len(c.zones) |-> Write(c.zones[i])]

(* The exchanges of a command, in order: write_verified reads, writes and   *)
(* reads back; an effect has no read form, so a DPI read stands before it.  *)
Script(c) ==
  CASE c.kind = "check" -> <<>>
    [] c.kind = "get"   -> <<Read(c.reg)>>
    [] c.kind = "set"   -> <<Read(c.reg), Write(c.reg), Read(c.reg)>>
    [] c.kind = "light" -> <<Read(ProbeReg)>>
                           \o [i \in 1..Len(c.zones) |-> Write(c.zones[i])]

VARIABLES
  lock,      \* holder of COMMANDS, or Nobody
  stopped,   \* SafetyGate.stopped: the first reason, or Clear
  pc,        \* where each thread is
  cmd,       \* the command each thread runs
  step,      \* index in Script(cmd) of the exchange it is at
  result,    \* what its last command returned, or is about to return
  device,    \* the mouse's readable registers
  (* History, for the properties only. *)
  held,      \* values the register being set has had since the write's answer
  wire,      \* the last report sent: its thread and its index in the script
  faulted    \* some exchange has failed

vars == <<lock, stopped, pc, cmd, step, result, device, held, wire, faulted>>

PCs == {"idle", "queued", "ready", "sent", "failed", "stopping"}
InCommand(t) == pc[t] \in {"ready", "sent", "failed"}

TypeOK ==
  /\ lock \in Threads \cup {Nobody}
  /\ stopped \in StopErrors \cup {Clear}
  /\ pc \in [Threads -> PCs]
  /\ cmd \in [Threads -> Commands]
  /\ step \in [Threads -> Nat \ {0}]
  /\ result \in [Threads -> Results]
  /\ device \in [Captured -> Values]
  /\ held \in [Threads -> SUBSET Values]
  /\ wire \in [by : Threads \cup {Nobody}, at : Nat]
  /\ faulted \in BOOLEAN

Init ==
  /\ lock = Nobody
  /\ stopped = Clear
  /\ pc = [t \in Threads |-> "idle"]
  /\ cmd = [t \in Threads |-> NoCommand]
  /\ step = [t \in Threads |-> 1]
  /\ result = [t \in Threads |-> "none"]
  /\ device \in [Captured -> Values]
  /\ held = [t \in Threads |-> {}]
  /\ wire = [by |-> Nobody, at |-> 0]
  /\ faulted = FALSE

-----------------------------------------------------------------------------
Goto(t, l)   == pc' = [pc EXCEPT ![t] = l]
Return(t, r) == result' = [result EXCEPT ![t] = r]
(* Back to the caller: the call's locals are gone. *)
Leave(t) ==
  /\ Goto(t, "idle")
  /\ cmd' = [cmd EXCEPT ![t] = NoCommand]
  /\ step' = [step EXCEPT ![t] = 1]
  /\ held' = [held EXCEPT ![t] = {}]
Current(t)   == Script(cmd[t])[step[t]]
LastStep(t)  == step[t] = Len(Script(cmd[t]))

(* A bad argument, or lighting that is not there, never reaches the mutex. *)
Reject(t, c) ==
  /\ pc[t] = "idle"
  /\ ~LocallyValid(c) \/ NoOp(c)
  /\ Return(t, IF NoOp(c) THEN "ok" ELSE "Local")
  /\ UNCHANGED <<lock, stopped, pc, cmd, step, device, held, wire, faulted>>

(* A command that passed its local checks asks for the mutex. *)
Call(t, c) ==
  /\ pc[t] = "idle"
  /\ LocallyValid(c) /\ ~NoOp(c)
  /\ cmd' = [cmd EXCEPT ![t] = c]
  /\ Goto(t, "queued")
  /\ Return(t, "none")
  /\ UNCHANGED <<lock, stopped, step, device, held, wire, faulted>>

(* SafetyGate::check fails under the mutex: nothing is sent. *)
Refused(t) ==
  /\ pc[t] = "queued" /\ lock = Nobody
  /\ stopped # Clear
  /\ Leave(t)
  /\ Return(t, "SafetyStop")
  /\ UNCHANGED <<lock, stopped, device, wire, faulted>>

(* ensure_active: the check alone. *)
StillActive(t) ==
  /\ pc[t] = "queued" /\ lock = Nobody
  /\ stopped = Clear
  /\ Script(cmd[t]) = <<>>
  /\ Leave(t)
  /\ Return(t, "ok")
  /\ UNCHANGED <<lock, stopped, device, wire, faulted>>

TakeOver(t) ==
  /\ lock' = t
  /\ Goto(t, "ready")
  /\ UNCHANGED <<stopped, cmd, step, result, device, held, wire, faulted>>

Acquire_NoLatchCheck(t) ==
  /\ pc[t] = "queued" /\ lock = Nobody
  /\ Script(cmd[t]) # <<>>
  /\ TakeOver(t)

(* The mutex is free and the latch clear: the operation starts. *)
Acquire(t) ==
  /\ pc[t] = "queued" /\ lock = Nobody
  /\ stopped = Clear
  /\ Script(cmd[t]) # <<>>
  /\ TakeOver(t)

(* exchange: the request goes out ... *)
Send(t) ==
  /\ pc[t] = "ready"
  /\ Goto(t, "sent")
  /\ wire' = [by |-> t, at |-> step[t]]
  /\ UNCHANGED <<lock, stopped, cmd, step, result, device, held, faulted>>

(* ... or HID refuses to send it. *)
SendFails(t) ==
  /\ pc[t] = "ready"
  /\ Goto(t, "failed")
  /\ Return(t, "Hid")
  /\ faulted' = TRUE
  /\ UNCHANGED <<lock, stopped, cmd, step, device, held, wire>>

(* Sixty milliseconds later the device has acted on the request.  A write  *)
(* it acknowledged may still not have been applied; what an effect did to  *)
(* a zone cannot be read.                                                  *)
Acts(t) ==
  IF Current(t).dir = "write" /\ cmd[t].kind = "set"
    THEN \E v \in {cmd[t].val, device[cmd[t].reg]} :
           /\ device' = [device EXCEPT ![cmd[t].reg] = v]
           /\ held' = [held EXCEPT ![t] = {v}]
    ELSE UNCHANGED <<device, held>>

(* A valid answer, and more exchanges to come. *)
Answer(t) ==
  /\ pc[t] = "sent" /\ ~LastStep(t)
  /\ Acts(t)
  /\ Goto(t, "ready")
  /\ step' = [step EXCEPT ![t] = @ + 1]
  /\ UNCHANGED <<lock, stopped, cmd, result, wire, faulted>>

ReadsBack(t) == cmd[t].kind = "set" => device[cmd[t].reg] = cmd[t].val

Finish_NotCompared(t) ==
  /\ pc[t] = "sent" /\ LastStep(t)
  /\ Leave(t)
  /\ Return(t, "ok")
  /\ lock' = Nobody
  /\ UNCHANGED <<stopped, device, wire, faulted>>

Finish_KeepsMutex(t) ==
  /\ pc[t] = "sent" /\ LastStep(t) /\ ReadsBack(t)
  /\ Leave(t)
  /\ Return(t, "ok")
  /\ lock' = IF cmd[t].kind = "light" THEN lock ELSE Nobody
  /\ UNCHANGED <<stopped, device, wire, faulted>>

(* The last answer, and a set that reads back what it asked for: Ok, and   *)
(* the mutex is released.                                                  *)
Finish(t) ==
  /\ pc[t] = "sent" /\ LastStep(t) /\ ReadsBack(t)
  /\ Leave(t)
  /\ Return(t, "ok")
  /\ lock' = Nobody
  /\ UNCHANGED <<stopped, device, wire, faulted>>

(* The read-back differs: Error::Verify. *)
Mismatch(t) ==
  /\ pc[t] = "sent" /\ LastStep(t) /\ ~ReadsBack(t)
  /\ Goto(t, "failed")
  /\ Return(t, "Verify")
  /\ faulted' = TRUE
  /\ UNCHANGED <<lock, stopped, cmd, step, device, held, wire>>

(* No answer, a malformed one, a status other than success (BUSY too), or  *)
(* a payload with no meaning: the operation ends here, whatever the device *)
(* did with the request.                                                   *)
BadAnswer(t, e) ==
  /\ pc[t] = "sent"
  /\ e \in {"Hid", "Reply"} \/ (e = "Payload" /\ Current(t).dir = "read")
  /\ Acts(t)
  /\ Goto(t, "failed")
  /\ Return(t, e)
  /\ faulted' = TRUE
  /\ UNCHANGED <<lock, stopped, cmd, step, wire>>

FirstReason(e) == stopped' = IF stopped = Clear THEN e ELSE stopped

(* SafetyGate::run sets the latch before it lets go of the mutex. *)
Latch(t) ==
  /\ pc[t] = "failed"
  /\ FirstReason(result[t])
  /\ lock' = Nobody
  /\ Leave(t)
  /\ UNCHANGED <<result, device, wire, faulted>>

(* A failure outside the control transport: a listener's read error, a     *)
(* listener that closed, an endpoint that would not open.                  *)
Observe(t, e) ==
  /\ pc[t] = "idle"
  /\ e \in {"Hid", "Verify"}
  /\ Goto(t, "stopping")
  /\ Return(t, e)
  /\ UNCHANGED <<lock, stopped, cmd, step, device, held, wire, faulted>>

(* stop_commands: wait for the mutex, then latch. *)
StopCommands(t) ==
  /\ pc[t] = "stopping" /\ lock = Nobody
  /\ FirstReason(result[t])
  /\ Goto(t, "idle")
  /\ UNCHANGED <<lock, cmd, step, result, device, held, wire, faulted>>

(* The mouse changes a register by itself: a DPI button pressed in         *)
(* hardware mode, another profile chosen under the mouse.                  *)
Drift(r, v) ==
  /\ device[r] # v
  /\ device' = [device EXCEPT ![r] = v]
  /\ held' = [t \in Threads |->
                IF InCommand(t) /\ cmd[t].kind = "set" /\ cmd[t].reg = r
                     /\ held[t] # {}
                  THEN held[t] \cup {v} ELSE held[t]]
  /\ UNCHANGED <<lock, stopped, pc, cmd, step, result, wire, faulted>>

Next ==
  \/ \E t \in Threads :
       \/ \E c \in Requested : Reject(t, c) \/ Call(t, c)
       \/ Refused(t) \/ StillActive(t) \/ Acquire(t)
       \/ Send(t) \/ SendFails(t)
       \/ Answer(t) \/ Finish(t) \/ Mismatch(t)
       \/ \E e \in StopErrors : BadAnswer(t, e) \/ Observe(t, e)
       \/ Latch(t) \/ StopCommands(t)
  \/ \E r \in Captured, v \in Values : Drift(r, v)

(* Every HID call returns, so a thread inside a command goes on; the mutex *)
(* itself is not fair, so waiting for it is not assumed to end.            *)
Progress(t) == \/ Send(t) \/ SendFails(t) \/ Answer(t) \/ Finish(t) \/ Mismatch(t)
               \/ \E e \in StopErrors : BadAnswer(t, e)
               \/ Latch(t)
Fairness == \A t \in Threads : WF_vars(Progress(t))

Spec == Init /\ [][Next]_vars
FairSpec == Spec /\ Fairness

-----------------------------------------------------------------------------
Sends(t) == pc[t] = "ready" /\ pc'[t] = "sent"

(* "Device failures are terminal" (Error::requires_stop): from the exchange *)
(* that fails, no thread puts another report on the wire, neither in the    *)
(* window before the latch is set nor after it.                             *)
NoSendAfterFault == [][\A t \in Threads : Sends(t) => ~faulted /\ stopped = Clear]_vars

(* A command's reports follow one another on the wire: no other thread's    *)
(* report comes between a read, its write and its read-back.                *)
ReportsContiguous ==
  [][\A t \in Threads :
       Sends(t) /\ step[t] > 1 => wire = [by |-> t, at |-> step[t] - 1]]_vars

(* No write is sent on a channel this command has not read from first       *)
(* ("Confirm this command's read form before its write"): the first report  *)
(* of every command is a read, and of a set, a read of the same register.   *)
ConfirmedChannel ==
  [][\A t \in Threads : Sends(t) /\ Current(t).dir = "write" =>
        /\ step[t] > 1
        /\ LET first == Script(cmd[t])[1]
           IN first.dir = "read" /\ (cmd[t].kind = "set" => first.reg = cmd[t].reg)]_vars

(* A set returns Ok only if it took effect: the register had the requested  *)
(* value at some time after the device answered the write.                  *)
VerifiedWrite ==
  [][\A t \in Threads :
       pc[t] = "sent" /\ result'[t] = "ok" /\ cmd[t].kind = "set" => cmd[t].val \in held[t]]_vars

(* No thread is told of a device failure while commands are still allowed:  *)
(* by the time a stop-class error is returned the latch is set.             *)
FailureLatched ==
  \A t \in Threads : pc[t] = "idle" /\ result[t] \in StopErrors => stopped # Clear

(* The mutex is always given back: no command keeps the others waiting.     *)
ChannelReleased == \A t \in Threads : lock = t ~> lock # t

Gate == INSTANCE SafetyGate WITH
          Reasons <- StopErrors,
          owner   <- lock,
          onWire  <- lock # Nobody /\ pc[lock] = "sent",
          failure <- IF lock # Nobody /\ pc[lock] = "failed" THEN result[lock] ELSE Clear,
          latch   <- stopped

(* The transport keeps the promise of SafetyGate.                           *)
ImplementsGate == Gate!GateSpec

=============================================================================
