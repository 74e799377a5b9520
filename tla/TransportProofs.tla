--------------------------- MODULE TransportProofs ---------------------------
(***************************************************************************)
(* Proofs about Transport for any threads, registers, values and zones.    *)
(***************************************************************************)
EXTENDS Transport, TLAPS

USE TransportAssumption, ClearAssumption, RequestedAssumption

(* A thread past the local checks runs a command that passed them. *)
CallInv   == \A t \in Threads :
               pc[t] \in {"queued", "ready", "sent", "failed"} => LocallyValid(cmd[t])
(* Exactly the holder of the mutex is inside a command. *)
LockInv   == \A t \in Threads : InCommand(t) <=> lock = t
(* Once the latch is set nobody is inside a command again. *)
LatchInv  == stopped # Clear => lock = Nobody
ErrorInv  == \A t \in Threads : pc[t] \in {"failed", "stopping"} => result[t] \in StopErrors
(* A failed exchange is latched already, or about to be by the lock's holder. *)
FaultInv  == faulted => \/ stopped # Clear
                        \/ \E t \in Threads : lock = t /\ pc[t] = "failed"

IInv == /\ TypeOK /\ CallInv /\ LockInv /\ LatchInv /\ ErrorInv /\ FaultInv
        /\ FailureLatched

LEMMA NoCommandType == NoCommand \in Commands
BY DEF NoCommand, Commands

(* What Acts leaves behind is well typed when the command is valid. *)
LEMMA ActsType ==
  ASSUME TypeOK, NEW t \in Threads, LocallyValid(cmd[t]), Acts(t)
  PROVE  device' \in [Captured -> Values] /\ held' \in [Threads -> SUBSET Values]
<1>1. CASE Current(t).dir = "write" /\ cmd[t].kind = "set"
  <2>1. cmd[t].reg \in Captured /\ cmd[t].val \in Values
    BY <1>1 DEF TypeOK, LocallyValid
  <2>2. PICK v \in {cmd[t].val, device[cmd[t].reg]} :
               /\ device' = [device EXCEPT ![cmd[t].reg] = v]
               /\ held' = [held EXCEPT ![t] = {v}]
    BY <1>1 DEF Acts
  <2>3. v \in Values
    BY <2>1, <2>2 DEF TypeOK
  <2> QED
    BY <2>1, <2>2, <2>3 DEF TypeOK
<1>2. CASE ~(Current(t).dir = "write" /\ cmd[t].kind = "set")
  BY <1>2 DEF Acts, TypeOK
<1> QED
  BY <1>1, <1>2

LEMMA InitIInv == Init => IInv
<1> SUFFICES ASSUME Init PROVE IInv
  OBVIOUS
<1>1. TypeOK
  <2>1. cmd \in [Threads -> Commands]
    BY NoCommandType DEF Init
  <2>2. pc \in [Threads -> PCs] /\ result \in [Threads -> Results]
    BY DEF Init, PCs, Results
  <2>3. step \in [Threads -> Nat \ {0}] /\ held \in [Threads -> SUBSET Values]
    BY DEF Init
  <2>4. wire \in [by : Threads \cup {Nobody}, at : Nat]
    BY DEF Init
  <2> QED
    BY <2>1, <2>2, <2>3, <2>4 DEF Init, TypeOK
<1>2. CallInv /\ LockInv
  BY DEF Init, CallInv, LockInv, InCommand
<1>3. LatchInv /\ ErrorInv /\ FaultInv /\ FailureLatched
  BY DEF Init, LatchInv, ErrorInv, FaultInv, FailureLatched, StopErrors
<1> QED
  BY <1>1, <1>2, <1>3 DEF IInv

LEMMA NextIInv == IInv /\ [Next]_vars => IInv'
<1> SUFFICES ASSUME IInv, [Next]_vars PROVE IInv'
  OBVIOUS
<1> USE DEF IInv, TypeOK, CallInv, LockInv, LatchInv, ErrorInv, FaultInv,
            FailureLatched, InCommand, PCs, Results, Goto, Return, Leave
<1>1. ASSUME NEW t \in Threads, NEW c \in Requested, Reject(t, c) PROVE IInv'
  BY <1>1 DEF Reject, StopErrors
<1>2. ASSUME NEW t \in Threads, NEW c \in Requested, Call(t, c) PROVE IInv'
  BY <1>2 DEF Call, StopErrors
<1>3. ASSUME NEW t \in Threads, Refused(t) PROVE IInv'
  BY <1>3, NoCommandType DEF Refused, StopErrors
<1>4. ASSUME NEW t \in Threads, StillActive(t) PROVE IInv'
  BY <1>4, NoCommandType DEF StillActive, StopErrors
<1>5. ASSUME NEW t \in Threads, Acquire(t) PROVE IInv'
  BY <1>5 DEF Acquire, TakeOver
<1>6. ASSUME NEW t \in Threads, Send(t) PROVE IInv'
  BY <1>6 DEF Send
<1>7. ASSUME NEW t \in Threads, SendFails(t) PROVE IInv'
  BY <1>7 DEF SendFails, StopErrors
<1>8. ASSUME NEW t \in Threads, Answer(t) PROVE IInv'
  BY <1>8, ActsType DEF Answer
<1>9. ASSUME NEW t \in Threads, Finish(t) PROVE IInv'
  BY <1>9, NoCommandType DEF Finish, StopErrors
<1>10. ASSUME NEW t \in Threads, Mismatch(t) PROVE IInv'
  BY <1>10 DEF Mismatch, StopErrors
<1>11. ASSUME NEW t \in Threads, NEW e \in StopErrors, BadAnswer(t, e) PROVE IInv'
  BY <1>11, ActsType DEF BadAnswer
<1>12. ASSUME NEW t \in Threads, NEW e \in StopErrors, Observe(t, e) PROVE IInv'
  BY <1>12 DEF Observe
<1>13. ASSUME NEW t \in Threads, Latch(t) PROVE IInv'
  BY <1>13, NoCommandType DEF Latch, FirstReason
<1>14. ASSUME NEW t \in Threads, StopCommands(t) PROVE IInv'
  BY <1>14, NoCommandType DEF StopCommands, FirstReason
<1>15. ASSUME NEW r \in Captured, NEW v \in Values, Drift(r, v) PROVE IInv'
  BY <1>15 DEF Drift
<1>16. CASE UNCHANGED vars
  BY <1>16 DEF vars, LocallyValid
<1> QED
  BY <1>1, <1>2, <1>3, <1>4, <1>5, <1>6, <1>7, <1>8, <1>9, <1>10, <1>11, <1>12,
     <1>13, <1>14, <1>15, <1>16 DEF Next

(* The channel invariant holds in every reachable state, for any number of  *)
(* threads and commands.                                                    *)
THEOREM ChannelInvariant == Spec => []IInv
BY InitIInv, NextIInv, PTL DEF Spec

(* Every variable keeps its type.                                           *)
THEOREM TypeCorrect == Spec => []TypeOK
BY ChannelInvariant, PTL DEF IInv

(* By the time a device failure is returned to a caller, device commands    *)
(* are stopped for the whole process.                                       *)
THEOREM FailuresLatch == Spec => []FailureLatched
BY ChannelInvariant, PTL DEF IInv

(* From a failed exchange on, no thread puts a report on the wire.          *)
THEOREM FaultsAreTerminal == Spec => NoSendAfterFault
<1>1. IInv /\ [Next]_vars =>
        [\A t \in Threads : Sends(t) => ~faulted /\ stopped = Clear]_vars
  BY DEF IInv, LockInv, LatchInv, FaultInv, InCommand, Sends, TypeOK
<1> QED
  BY <1>1, ChannelInvariant, PTL DEF Spec, NoSendAfterFault

-----------------------------------------------------------------------------
(* What a script looks like: every script that is not empty starts with a   *)
(* read, and a set's script is a read, the write and a read-back.           *)
Exchanges == [dir : {"read", "write"}, reg : Regs \cup Leds]

LEMMA ZonesType ==
  ASSUME NEW c \in Commands, c.kind = "light"
  PROVE  c.zones \in Seq(Leds)
<1>1. c.zones \in {Zones, <<>>} \cup {<<Zones[i]>> : i \in DOMAIN Zones}
  BY DEF Commands
<1>2. \A i \in DOMAIN Zones : <<Zones[i]>> \in Seq(Leds)
  BY DEF TransportAssumption
<1>3. Zones \in Seq(Leds) /\ <<>> \in Seq(Leds)
  BY DEF TransportAssumption
<1> QED
  BY <1>1, <1>2, <1>3, Zenon

LEMMA ScriptType ==
  ASSUME NEW c \in Commands
  PROVE  Script(c) \in Seq(Exchanges)
<1>1. CASE c.kind = "check"
  BY <1>1 DEF Script
<1>2. CASE c.kind = "get"
  <2>1. Read(c.reg) \in Exchanges
    BY <1>2 DEF Commands, Read, Exchanges
  <2> QED
    BY <1>2, <2>1 DEF Script
<1>3. CASE c.kind = "set"
  <2>1. Read(c.reg) \in Exchanges /\ Write(c.reg) \in Exchanges
    BY <1>3 DEF Commands, Read, Write, Exchanges
  <2> QED
    BY <1>3, <2>1 DEF Script
<1>4. CASE c.kind = "light"
  <2> DEFINE tail == [i \in 1..Len(c.zones) |-> Write(c.zones[i])]
  <2>1. Read(ProbeReg) \in Exchanges
    BY DEF Read, Exchanges
  <2>2. c.zones \in Seq(Leds) /\ Len(c.zones) \in Nat
    BY <1>4, ZonesType
  <2>3. \A i \in 1..Len(c.zones) : Write(c.zones[i]) \in Exchanges
    BY <2>2 DEF Write, Exchanges
  <2>4. tail \in Seq(Exchanges)
    BY <2>2, <2>3
  <2>5. <<Read(ProbeReg)>> \in Seq(Exchanges)
    BY <2>1
  <2>6. Script(c) = <<Read(ProbeReg)>> \o tail
    BY <1>4 DEF Script
  <2> HIDE DEF tail
  <2> QED
    BY <2>4, <2>5, <2>6
<1> QED
  BY <1>1, <1>2, <1>3, <1>4 DEF Commands

LEMMA ScriptShape ==
  ASSUME NEW c \in Commands, Script(c) # <<>>
  PROVE  /\ Len(Script(c)) \in Nat \ {0}
         /\ Script(c)[1].dir = "read"
         /\ c.kind = "set" => /\ Len(Script(c)) = 3
                              /\ Script(c)[1].reg = c.reg
                              /\ Script(c)[2].dir = "write"
<1>1. Len(Script(c)) \in Nat \ {0}
  BY ScriptType
<1>2. CASE c.kind = "get" \/ c.kind = "set"
  BY <1>1, <1>2 DEF Script, Read, Write
<1>3. CASE c.kind = "light"
  <2> DEFINE tail == [i \in 1..Len(c.zones) |-> Write(c.zones[i])]
  <2>1. c.zones \in Seq(Leds) /\ Len(c.zones) \in Nat
    BY <1>3, ZonesType
  <2>2. tail \in Seq({Write(c.zones[i]) : i \in 1..Len(c.zones)})
    BY <2>1
  <2>3. Script(c) = <<Read(ProbeReg)>> \o tail
    BY <1>3 DEF Script
  <2> HIDE DEF tail
  <2>4. Script(c)[1] = Read(ProbeReg)
    BY <2>2, <2>3
  <2> QED
    BY <1>1, <1>3, <2>4 DEF Read
<1>4. CASE c.kind = "check"
  BY <1>4 DEF Script
<1> QED
  BY <1>2, <1>3, <1>4 DEF Commands

-----------------------------------------------------------------------------
(* The second invariant: where a command stands in its script, which report *)
(* was last on the wire, and what the register being set has been seen at.  *)
StepInv == \A t \in Threads :
  /\ pc[t] \in {"idle", "queued", "stopping"} => step[t] = 1
  /\ pc[t] \in {"ready", "sent"} => step[t] \in 1..Len(Script(cmd[t]))

WireInv == \A t \in Threads :
  /\ pc[t] = "sent" => wire = [by |-> t, at |-> step[t]]
  /\ pc[t] = "ready" /\ step[t] > 1 => wire = [by |-> t, at |-> step[t] - 1]

HeldInv == \A t \in Threads :
  /\ pc[t] \in {"queued", "ready", "sent"} => result[t] = "none"
  /\ pc[t] \in {"ready", "sent"} /\ cmd[t].kind = "set" /\ step[t] = 3
       => device[cmd[t].reg] \in held[t]

ScriptInv == IInv /\ StepInv /\ WireInv /\ HeldInv

LEMMA InitScriptInv == Init => ScriptInv
BY InitIInv DEF Init, ScriptInv, StepInv, WireInv, HeldInv

LEMMA NextScriptInv == ScriptInv /\ [Next]_vars => ScriptInv'
<1> SUFFICES ASSUME ScriptInv, [Next]_vars PROVE ScriptInv'
  OBVIOUS
<1>0. IInv'
  BY NextIInv DEF ScriptInv
<1> SUFFICES (StepInv /\ WireInv /\ HeldInv)'
  BY <1>0 DEF ScriptInv
<1> USE DEF ScriptInv, IInv, TypeOK, LockInv, InCommand, StepInv, WireInv, HeldInv,
            PCs, Goto, Return, Leave
<1>1. ASSUME NEW t \in Threads, NEW c \in Requested, Reject(t, c)
      PROVE  (StepInv /\ WireInv /\ HeldInv)'
  BY <1>1 DEF Reject
<1>2. ASSUME NEW t \in Threads, NEW c \in Requested, Call(t, c)
      PROVE  (StepInv /\ WireInv /\ HeldInv)'
  BY <1>2 DEF Call
<1>3. ASSUME NEW t \in Threads, Refused(t) \/ StillActive(t)
      PROVE  (StepInv /\ WireInv /\ HeldInv)'
  <2>1. CASE Refused(t)
    BY <2>1 DEF Refused
  <2>2. CASE StillActive(t)
    BY <2>2 DEF StillActive
  <2> QED
    BY <1>3, <2>1, <2>2
<1>4. ASSUME NEW t \in Threads, Acquire(t)
      PROVE  (StepInv /\ WireInv /\ HeldInv)'
  <2>1. Len(Script(cmd[t])) \in Nat \ {0}
    BY <1>4, ScriptShape DEF Acquire
  <2> QED
    BY <1>4, <2>1 DEF Acquire, TakeOver
<1>5. ASSUME NEW t \in Threads, Send(t)
      PROVE  (StepInv /\ WireInv /\ HeldInv)'
  BY <1>5 DEF Send
<1>6. ASSUME NEW t \in Threads, SendFails(t) \/ Mismatch(t)
      PROVE  (StepInv /\ WireInv /\ HeldInv)'
  BY <1>6 DEF SendFails, Mismatch
<1>7. ASSUME NEW t \in Threads, Answer(t)
      PROVE  (StepInv /\ WireInv /\ HeldInv)'
  <2>1. Script(cmd[t]) # <<>> /\ Len(Script(cmd[t])) \in Nat \ {0}
    BY <1>7, ScriptType DEF Answer
  <2>2. StepInv' /\ WireInv'
    BY <1>7, <2>1 DEF Answer, LastStep
  <2>3. cmd[t].kind = "set" => Current(t).dir = "write" \/ step[t] # 2
    BY <2>1, ScriptShape DEF Current
  <2>4. CASE cmd[t].kind = "set" /\ step[t] = 2
    <3>1. cmd[t].reg \in Captured
      BY <1>7, <2>4 DEF Answer, CallInv, LocallyValid
    <3>2. PICK v : /\ device' = [device EXCEPT ![cmd[t].reg] = v]
                   /\ held' = [held EXCEPT ![t] = {v}]
      BY <1>7, <2>3, <2>4 DEF Answer, Acts
    <3> QED
      BY <1>7, <2>2, <2>4, <3>1, <3>2 DEF Answer
  <2>5. CASE ~(cmd[t].kind = "set" /\ step[t] = 2)
    BY <1>7, <2>2, <2>5 DEF Answer
  <2> QED
    BY <2>4, <2>5
<1>8. ASSUME NEW t \in Threads, Finish(t)
      PROVE  (StepInv /\ WireInv /\ HeldInv)'
  BY <1>8 DEF Finish
<1>9. ASSUME NEW t \in Threads, NEW e \in StopErrors, BadAnswer(t, e)
      PROVE  (StepInv /\ WireInv /\ HeldInv)'
  BY <1>9 DEF BadAnswer
<1>10. ASSUME NEW t \in Threads, NEW e \in StopErrors, Observe(t, e)
       PROVE  (StepInv /\ WireInv /\ HeldInv)'
  BY <1>10 DEF Observe
<1>11. ASSUME NEW t \in Threads, Latch(t) \/ StopCommands(t)
       PROVE  (StepInv /\ WireInv /\ HeldInv)'
  <2>1. CASE Latch(t)
    BY <2>1 DEF Latch
  <2>2. CASE StopCommands(t)
    BY <2>2 DEF StopCommands
  <2> QED
    BY <1>11, <2>1, <2>2
<1>12. ASSUME NEW r \in Captured, NEW v \in Values, Drift(r, v)
       PROVE  (StepInv /\ WireInv /\ HeldInv)'
  BY <1>12 DEF Drift
<1>13. CASE UNCHANGED vars
  BY <1>13 DEF vars
<1> QED
  BY <1>1, <1>2, <1>3, <1>4, <1>5, <1>6, <1>7, <1>8, <1>9, <1>10, <1>11, <1>12,
     <1>13 DEF Next

LEMMA ScriptInvariant == Spec => []ScriptInv
BY InitScriptInv, NextScriptInv, PTL DEF Spec

(* The reports of one command follow one another on the wire.               *)
THEOREM CommandsDoNotInterleave == Spec => ReportsContiguous
<1>1. ScriptInv /\ [Next]_vars =>
        [\A t \in Threads :
           Sends(t) /\ step[t] > 1 => wire = [by |-> t, at |-> step[t] - 1]]_vars
  BY DEF ScriptInv, WireInv, Sends
<1> QED
  BY <1>1, ScriptInvariant, PTL DEF Spec, ReportsContiguous

(* Every write is preceded, within its command, by a read of the channel.   *)
THEOREM WritesAreConfirmed == Spec => ConfirmedChannel
<1> DEFINE Confirmed ==
      \A t \in Threads : Sends(t) /\ Current(t).dir = "write" =>
        /\ step[t] > 1
        /\ LET first == Script(cmd[t])[1]
           IN first.dir = "read" /\ (cmd[t].kind = "set" => first.reg = cmd[t].reg)
<1>1. ScriptInv => Confirmed
  <2> SUFFICES ASSUME ScriptInv, NEW t \in Threads, Sends(t), Current(t).dir = "write"
               PROVE  /\ step[t] > 1
                      /\ Script(cmd[t])[1].dir = "read"
                      /\ cmd[t].kind = "set" => Script(cmd[t])[1].reg = cmd[t].reg
    OBVIOUS
  <2>1. cmd[t] \in Commands /\ step[t] \in 1..Len(Script(cmd[t]))
    BY DEF ScriptInv, IInv, TypeOK, StepInv, Sends
  <2>2. Script(cmd[t]) # <<>>
    BY <2>1, ScriptType
  <2>3. step[t] # 1
    BY <2>1, <2>2, ScriptShape DEF Current
  <2> QED
    BY <2>1, <2>2, <2>3, ScriptShape, ScriptType
<1>2. ScriptInv /\ [Next]_vars => [Confirmed]_vars
  BY <1>1
<1> QED
  BY <1>2, ScriptInvariant, PTL DEF Spec, ConfirmedChannel

(* A set that returns Ok took effect on the device.                         *)
THEOREM SetsTakeEffect == Spec => VerifiedWrite
<1> DEFINE Effective ==
      \A t \in Threads :
        pc[t] = "sent" /\ result'[t] = "ok" /\ cmd[t].kind = "set" => cmd[t].val \in held[t]
<1>1. ScriptInv /\ [Next]_vars => [Effective]_vars
  <2> SUFFICES ASSUME ScriptInv, Next, NEW t \in Threads,
                      pc[t] = "sent", result'[t] = "ok", cmd[t].kind = "set"
               PROVE  cmd[t].val \in held[t]
    OBVIOUS
  <2>1. result[t] = "none" /\ lock = t
    BY DEF ScriptInv, HeldInv, IInv, LockInv, InCommand
  <2>2. CASE Finish(t)
    <3>1. cmd[t] \in Commands /\ Script(cmd[t]) # <<>>
      BY <2>2, ScriptType DEF Finish, LastStep, ScriptInv, IInv, TypeOK, StepInv
    <3>2. step[t] = 3
      BY <2>2, <3>1, ScriptShape DEF Finish, LastStep
    <3> QED
      BY <2>2, <3>2 DEF Finish, ReadsBack, ScriptInv, HeldInv
  <2>3. CASE ~Finish(t)
    <3>1. \A u \in Threads : pc[u] \in {"ready", "sent", "failed"} => u = t
      BY <2>1 DEF ScriptInv, IInv, LockInv, InCommand
    <3>2. result'[t] # "ok"
      BY <2>1, <2>3, <3>1 DEF ScriptInv, IInv, TypeOK, StopErrors, Next, Reject, Call,
         Refused, StillActive, Acquire, TakeOver, Send, SendFails, Answer, Finish,
         Mismatch, BadAnswer, Observe, Latch, StopCommands, Drift, Return
    <3> QED
      BY <3>2
  <2> QED
    BY <2>2, <2>3
<1> QED
  BY <1>1, ScriptInvariant, PTL DEF Spec, VerifiedWrite

-----------------------------------------------------------------------------
(* The transport implements the abstract gate: every step of it is a step   *)
(* of SafetyGate or leaves the gate's variables alone.                      *)
LEMMA GateStep == IInv /\ [Next]_vars => [Gate!GateNext]_(Gate!gateVars)
<1> SUFFICES ASSUME IInv, [Next]_vars PROVE [Gate!GateNext]_(Gate!gateVars)
  OBVIOUS
<1> USE DEF IInv, TypeOK, LockInv, LatchInv, ErrorInv, InCommand, Goto, Return, Leave,
            Gate!gateVars
<1>1. ASSUME NEW t \in Threads, NEW c \in Requested, Reject(t, c) \/ Call(t, c)
      PROVE  UNCHANGED Gate!gateVars
  BY <1>1 DEF Reject, Call
<1>2. ASSUME NEW t \in Threads, Refused(t) \/ StillActive(t)
      PROVE  UNCHANGED Gate!gateVars
  BY <1>2 DEF Refused, StillActive
<1>3. ASSUME NEW t \in Threads, Acquire(t) PROVE Gate!Enter(t)
  BY <1>3 DEF Acquire, TakeOver, Gate!Enter
<1>4. ASSUME NEW t \in Threads, Send(t) PROVE Gate!Report(t)
  BY <1>4 DEF Send, Gate!Report
<1>5. ASSUME NEW t \in Threads, SendFails(t) PROVE Gate!Fail(t)
  BY <1>5 DEF SendFails, Gate!Fail, StopErrors
<1>6. ASSUME NEW t \in Threads, Answer(t) \/ Finish(t) PROVE Gate!Answered(t)
  BY <1>6 DEF Answer, Finish, Gate!Answered
<1>7. ASSUME NEW t \in Threads, Mismatch(t) PROVE Gate!Fail(t)
  BY <1>7 DEF Mismatch, Gate!Fail, StopErrors
<1>8. ASSUME NEW t \in Threads, NEW e \in StopErrors, BadAnswer(t, e) PROVE Gate!Fail(t)
  BY <1>8 DEF BadAnswer, Gate!Fail
<1>9. ASSUME NEW t \in Threads, NEW e \in StopErrors, Observe(t, e)
      PROVE  UNCHANGED Gate!gateVars
  BY <1>9 DEF Observe
<1>10. ASSUME NEW t \in Threads, Latch(t) PROVE Gate!LeaveFailed(t)
  BY <1>10 DEF Latch, FirstReason, Gate!LeaveFailed
<1>11. ASSUME NEW t \in Threads, StopCommands(t)
       PROVE  Gate!Stop(result[t]) \/ UNCHANGED Gate!gateVars
  BY <1>11 DEF StopCommands, FirstReason, Gate!Stop
<1>12. ASSUME NEW r \in Captured, NEW v \in Values, Drift(r, v)
       PROVE  UNCHANGED Gate!gateVars
  BY <1>12 DEF Drift
<1>13. CASE UNCHANGED vars
  BY <1>13 DEF vars
<1>14. ASSUME NEW t \in Threads, StopCommands(t) PROVE result[t] \in StopErrors
  BY <1>14 DEF StopCommands
<1> QED
  BY <1>1, <1>2, <1>3, <1>4, <1>5, <1>6, <1>7, <1>8, <1>9, <1>10, <1>11, <1>12, <1>13,
     <1>14 DEF Next, Gate!GateNext

THEOREM TransportImplementsGate == Spec => ImplementsGate
<1>1. Init => Gate!GateInit
  BY DEF Init, Gate!GateInit
<1> QED
  BY <1>1, GateStep, ChannelInvariant, PTL DEF Spec, ImplementsGate, Gate!GateSpec
=============================================================================
