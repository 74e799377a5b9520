--------------------------- MODULE SessionHookProofs ---------------------------
(***************************************************************************)
(* Proofs about the two modules through which a press of a button passes:  *)
(* Session, for any deadlines, intervals and time that tasks and handlers  *)
(* take, and MouseHook, for any buttons, remaps, handles and queue.        *)
(***************************************************************************)
EXTENDS Session, MouseHook, SequenceTheorems, FiniteSetTheorems, TLAPS

USE SessionAssumption

LEMMA Numbers ==
  /\ MaxInterval \in Intervals /\ \A i \in Intervals : i \in Nat /\ i <= MaxInterval
  /\ Cap \in Nat /\ Cap = MaxInterval + Five + 3 * Slow
<1>1. \E i \in Intervals : \A j \in Intervals : j <= i
  OBVIOUS
<1>2. MaxInterval \in Intervals /\ \A j \in Intervals : j <= MaxInterval
  BY <1>1, Zenon DEF MaxInterval
<1>3. \A i \in Intervals : i \in Nat
  OBVIOUS
<1>4. Cap = MaxInterval + Five + 3 * Slow
  BY DEF Cap
<1> HIDE DEF MaxInterval
<1> QED
  BY <1>2, <1>3, <1>4

-----------------------------------------------------------------------------
(* Types.                                                                  *)

ClockTypes ==
  /\ phase \in Loop \cup {"opening", "gap", "over"}
  /\ listeners \in BOOLEAN /\ interval \in Intervals
  /\ reasserted \in 0..Cap /\ contacted \in 0..Cap /\ attempted \in 0..Heartbeat
  /\ contacted <= reasserted
  /\ wait \in 0..MaxInterval /\ busy \in 0..Slow
  /\ task \in {"none", "reassert", "liveness"}
  /\ locked \in BOOLEAN /\ idle \in BOOLEAN
KeyTypes ==
  /\ lasted \in 0..RetryHealthy /\ delay \in Delays /\ left \in Delays
  /\ queue \in Seq(Codes)
  /\ held \in [Collections -> SUBSET Codes]
  /\ lastCode \in Codes \cup {NoCode} /\ lastFire \in 0..Debounce

LEMMA DelaysKept ==
  /\ \A d \in Delays : d \in Nat /\ Minus(d, 1) \in Delays
  /\ \A d \in Delays, a \in Nat : NextDelay(d, a) \in Delays
  /\ 0 \in Delays
<1>1. \A d \in Delays : d \in Nat
  BY DEF Delays
<1>2. ASSUME NEW d \in Delays PROVE Minus(d, 1) \in Delays
  BY <1>1 DEF Delays, Minus
<1> QED
  BY <1>1, <1>2 DEF Delays, NextDelay, Lesser

LEMMA TypeInit == Init => TypeOK
<1> SUFFICES ASSUME Init PROVE TypeOK
  OBVIOUS
<1>1. Cap \in Nat /\ MaxInterval \in Nat
  BY Numbers
<1> HIDE DEF MaxInterval, Cap
<1>2. ClockTypes
  <2>1. /\ reasserted \in 0..Cap /\ contacted \in 0..Cap /\ attempted \in 0..Heartbeat
        /\ contacted <= reasserted /\ wait \in 0..MaxInterval /\ busy \in 0..Slow
    BY <1>1 DEF Init
  <2>2. listeners \in BOOLEAN /\ locked \in BOOLEAN /\ idle \in BOOLEAN
    BY DEF Init
  <2> QED
    BY <2>1, <2>2 DEF Init, ClockTypes, Loop
<1>3. queue \in Seq(Codes) /\ held \in [Collections -> SUBSET Codes]
  BY DEF Init
<1>4. lasted \in 0..RetryHealthy /\ delay \in Delays /\ left \in Delays
  BY DEF Init, Delays
<1>5. lastCode \in Codes \cup {NoCode} /\ lastFire \in 0..Debounce
  BY DEF Init
<1> QED
  BY <1>2, <1>3, <1>4, <1>5 DEF TypeOK, ClockTypes

(* What the main thread and time do to the clocks. *)
LEMMA ClockStep == TypeOK /\ [Next]_vars => ClockTypes'
<1> SUFFICES ASSUME TypeOK, [Next]_vars PROVE ClockTypes'
  OBVIOUS
<1>0. /\ MaxInterval \in Nat /\ \A i \in Intervals : i \in Nat /\ i <= MaxInterval
      /\ Cap \in Nat /\ Heartbeat \in Nat /\ Five \in Nat /\ Slow \in Nat
  BY Numbers
<1> HIDE DEF MaxInterval, Cap
<1> USE <1>0 DEF TypeOK, ClockTypes, Loop, Goto, timers, round, retry, keys, InLoop
<1>1. ASSUME NEW l \in BOOLEAN, Open(l) PROVE ClockTypes'
  BY <1>1 DEF Open
<1>2. CASE Plan
  <2>1. interval \in Nat /\ interval <= MaxInterval
    OBVIOUS
  <2>2. wait' \in 0..MaxInterval
    BY <1>2, <2>1 DEF Plan, Minus, Lesser
  <2> QED
    BY <1>2, <2>2 DEF Plan
<1>3. CASE Timeout
  BY <1>3 DEF Timeout
<1>4. CASE Drop
  BY <1>4 DEF Drop
<1>5. CASE Fire
  BY <1>5 DEF Fire, Handling
<1>6. CASE Handled
  BY <1>6 DEF Handled
<1>7. CASE Perform
  <2>1. locked' \in BOOLEAN
    BY <1>7 DEF Perform
  <2>2. task' \in {"reassert", "liveness"} /\ busy' = Slow /\ idle' = FALSE /\ phase' = "perform"
    BY <1>7 DEF Perform
  <2>3. UNCHANGED <<listeners, interval, timers, wait>>
    BY <1>7 DEF Perform
  <2>4. /\ reasserted' \in 0..Cap /\ contacted' \in 0..Cap /\ attempted' \in 0..Heartbeat
        /\ contacted' <= reasserted' /\ wait' \in 0..MaxInterval /\ busy' \in 0..Slow
    BY <2>2, <2>3
  <2>5. listeners' \in BOOLEAN /\ interval' \in Intervals /\ idle' \in BOOLEAN
    BY <2>2, <2>3
  <2> QED
    BY <2>1, <2>2, <2>4, <2>5
<1>8. CASE NotDue
  BY <1>8 DEF NotDue
<1>9. CASE Performed
  BY <1>9 DEF Performed
<1>10. CASE Beat
  <2>1. idle' \in BOOLEAN
    BY <1>10 DEF Beat
  <2> QED
    BY <1>10, <2>1 DEF Beat
<1>11. CASE Command
  BY <1>11 DEF Command, Handling
<1>12. ASSUME NEW i \in Intervals, Reload(i) PROVE ClockTypes'
  BY <1>12 DEF Reload, Handling
<1>13. CASE End
  BY <1>13 DEF End
<1>14. CASE Over \/ GapOver
  BY <1>14 DEF Over, GapOver
<1>15. ASSUME NEW l \in Collections, NEW down \in SUBSET Codes, Report(l, down) PROVE ClockTypes'
  BY <1>15 DEF Report
<1>16. CASE Drift
  BY <1>16 DEF Drift
<1>17. CASE Tick
  BY <1>17 DEF Tick, Minus, Lesser
<1>18. CASE UNCHANGED vars
  BY <1>18 DEF vars
<1> QED
  BY <1>1, <1>2, <1>3, <1>4, <1>5, <1>6, <1>7, <1>8, <1>9, <1>10, <1>11, <1>12, <1>13, <1>14,
     <1>15, <1>16, <1>17, <1>18 DEF Next

(* What happens to the delays, the buttons and the queue. *)
LEMMA KeyStep == TypeOK /\ [Next]_vars => KeyTypes'
<1> SUFFICES ASSUME TypeOK, [Next]_vars PROVE KeyTypes'
  OBVIOUS
<1> HIDE DEF MaxInterval, Cap
<1> USE DEF TypeOK, KeyTypes, timers, round, retry, keys
<1>0. RetryHealthy \in Nat /\ Debounce \in Nat /\ <<>> \in Seq(Codes)
  BY EmptySeq
<1>1. ASSUME NEW l \in BOOLEAN, Open(l) PROVE KeyTypes'
  BY <1>0, <1>1 DEF Open
<1>2. CASE Drop \/ Fire
  <2>1. Head(queue) \in Codes /\ Tail(queue) \in Seq(Codes)
    BY <1>2, HeadTailProperties DEF Drop, Fire
  <2>2. CASE Drop
    BY <2>1, <2>2 DEF Drop
  <2>3. CASE Fire
    <3>1. queue' = Tail(queue) /\ lastCode' = Head(queue) /\ lastFire' = 0
      BY <2>3 DEF Fire
    <3>2. UNCHANGED <<retry, held>>
      BY <2>3 DEF Fire
    <3> QED
      BY <1>0, <2>1, <3>1, <3>2
  <2> QED
    BY <1>2, <2>2, <2>3
<1>3. CASE End
  BY <1>3, DelaysKept DEF End
<1>4. CASE GapOver
  BY <1>0, <1>4, DelaysKept DEF GapOver
<1>5. ASSUME NEW l \in Collections, NEW down \in SUBSET Codes, Report(l, down) PROVE KeyTypes'
  <2>1. PICK new \in SetToSeqs(down \ held[l]) : queue' = queue \o new
    BY <1>5 DEF Report
  <2>2. new \in Seq(Codes)
    <3>1. IsFiniteSet(down \ held[l])
      BY FS_Subset
    <3>2. Cardinality(down \ held[l]) \in Nat
      BY <3>1, FS_CardinalityType
    <3>3. new \in [1..Cardinality(down \ held[l]) -> Codes]
      BY <2>1 DEF SetToSeqs
    <3>4. Seq(Codes) = UNION {[1..n -> Codes] : n \in Nat}
      BY SeqDef
    <3> QED
      BY <3>2, <3>3, <3>4
  <2>3. queue' \in Seq(Codes)
    BY <2>1, <2>2, ConcatProperties
  <2> QED
    BY <1>5, <2>3 DEF Report
<1>6. CASE Tick
  <2>1. lasted' \in 0..RetryHealthy /\ lastFire' \in 0..Debounce
    BY <1>0, <1>6 DEF Tick, Lesser
  <2> QED
    BY <1>6, <2>1, DelaysKept DEF Tick
<1>7. CASE Plan \/ Timeout \/ Handled \/ Perform \/ NotDue \/ Performed \/ Beat \/ Command \/ Over
           \/ Drift
  BY <1>7 DEF Plan, Timeout, Handled, Perform, NotDue, Performed, Beat, Command, Over, Drift
<1>8. ASSUME NEW i \in Intervals, Reload(i) PROVE KeyTypes'
  BY <1>8 DEF Reload
<1>9. CASE UNCHANGED vars
  BY <1>9 DEF vars
<1> QED
  BY <1>1, <1>2, <1>3, <1>4, <1>5, <1>6, <1>7, <1>8, <1>9 DEF Next

LEMMA TypeStep == TypeOK /\ [Next]_vars => TypeOK'
BY ClockStep, KeyStep DEF TypeOK, ClockTypes, KeyTypes

(* Every variable keeps its range. *)
THEOREM TypeCorrect == Spec => []TypeOK
BY TypeInit, TypeStep, PTL DEF Spec

-----------------------------------------------------------------------------
(* Why a wait ends.  The wait was computed from a deadline, and that one   *)
(* is due when it is over: service_due or refresh_if_due finds it.         *)

OneIsDue(in) ==
  \/ reasserted + in >= interval
  \/ ~listeners /\ contacted + in >= Five
  \/ attempted + in >= Heartbeat
IdleInv ==
  /\ phase \notin {"due", "beat", "over"} => ~idle
  /\ phase = "wait" => OneIsDue(wait)
  /\ phase = "due" /\ idle => OneIsDue(0)
  /\ phase = "beat" /\ idle => attempted >= Heartbeat

LEMMA IdleStep == TypeOK /\ IdleInv /\ [Next]_vars => IdleInv'
<1> SUFFICES ASSUME TypeOK, IdleInv, [Next]_vars PROVE IdleInv'
  OBVIOUS
<1>0. /\ MaxInterval \in Nat /\ interval \in Nat /\ interval <= Cap
      /\ Cap \in Nat /\ Heartbeat \in Nat /\ Five \in Nat /\ Five <= Cap
      /\ reasserted \in 0..Cap /\ contacted \in 0..Cap /\ attempted \in 0..Heartbeat
      /\ wait \in Nat
  BY Numbers DEF TypeOK
<1> HIDE DEF MaxInterval, Cap
<1> USE <1>0 DEF IdleInv, OneIsDue, Goto, timers, round
<1>1. ASSUME NEW l \in BOOLEAN, Open(l) PROVE IdleInv'
  BY <1>1 DEF Open
<1>2. CASE Plan
  BY <1>2 DEF Plan, Minus, Lesser
<1>3. CASE Timeout
  BY <1>3 DEF Timeout
<1>4. CASE Drop \/ Fire \/ Handled \/ Command
  BY <1>4 DEF Drop, Fire, Handled, Command, Handling
<1>5. CASE Perform
  BY <1>5 DEF Perform
<1>6. CASE NotDue
  BY <1>6 DEF NotDue
<1>7. CASE Performed
  BY <1>7 DEF Performed
<1>8. CASE Beat
  <2>1. ~(idle /\ attempted < Heartbeat)
    BY <1>8 DEF Beat
  <2>2. phase' = "plan" /\ idle' = (idle /\ attempted < Heartbeat)
    BY <1>8 DEF Beat
  <2>3. ~idle'
    BY <2>1, <2>2, Zenon
  <2> QED
    BY <2>2, <2>3
<1>9. ASSUME NEW i \in Intervals, Reload(i) PROVE IdleInv'
  BY <1>9 DEF Reload, Handling
<1>10. CASE End \/ Over \/ GapOver
  BY <1>10 DEF End, Over, GapOver
<1>11. ASSUME NEW l \in Collections, NEW down \in SUBSET Codes, Report(l, down) PROVE IdleInv'
  BY <1>11 DEF Report
<1>12. CASE Drift
  BY <1>12 DEF Drift
<1>13. CASE Tick
  <2>1. UNCHANGED <<phase, idle, listeners, interval>>
    BY <1>13 DEF Tick
  <2>2. phase \notin {"due", "beat"} /\ (phase = "wait" => wait > 0 /\ wait' = wait - 1)
    BY <1>13 DEF Tick, Minus
  <2>3. /\ reasserted' = IF reasserted + 1 <= Cap THEN reasserted + 1 ELSE Cap
        /\ contacted' = IF contacted + 1 <= Cap THEN contacted + 1 ELSE Cap
        /\ attempted' = IF attempted + 1 <= Heartbeat THEN attempted + 1 ELSE Heartbeat
    BY <1>13 DEF Tick, Lesser
  <2> QED
    BY <2>1, <2>2, <2>3
<1>14. CASE UNCHANGED vars
  BY <1>14 DEF vars
<1> QED
  BY <1>1, <1>2, <1>3, <1>4, <1>5, <1>6, <1>7, <1>8, <1>9, <1>10, <1>11, <1>12, <1>13, <1>14
     DEF Next

(* No round of the session's loop is for nothing: when the wait ended with *)
(* no event, a task ran or a publication was tried (daemon.rs:769-778,     *)
(* 936-941).                                                               *)
THEOREM RoundsHaveReasons == Spec => []NoIdleRound
<1>1. Init => IdleInv
  BY DEF Init, IdleInv
<1>2. IdleInv => NoIdleRound
  BY DEF IdleInv, NoIdleRound
<1> QED
  BY <1>1, <1>2, TypeInit, TypeStep, IdleStep, PTL DEF Spec

-----------------------------------------------------------------------------
(* The deadlines.  Each position of the loop has its own bound: what an    *)
(* age may be when it is entered, and what may still be added.             *)

LivenessInv ==
  ~listeners =>
    /\ phase \in {"plan", "beat"} => contacted <= Five
    /\ phase = "wait" => contacted + wait <= Five
    /\ phase = "handle" => contacted + busy <= Five + Slow
    /\ phase = "due" => contacted <= Five + Slow
ReassertInv ==
  /\ phase \in {"plan", "beat"} => reasserted <= MaxInterval + Slow
  /\ phase = "wait" =>
       reasserted + wait <= MaxInterval \/ (wait = 0 /\ reasserted <= MaxInterval + Slow)
  /\ phase = "handle" => reasserted + busy <= MaxInterval + 2 * Slow
  /\ phase = "due" => reasserted <= MaxInterval + 2 * Slow
  /\ phase = "perform" /\ task # "reassert" => reasserted + busy <= MaxInterval + Slow
DeadlineInv == LivenessInv /\ ReassertInv

LEMMA DeadlineStep == TypeOK /\ DeadlineInv /\ [Next]_vars => DeadlineInv'
<1> SUFFICES ASSUME TypeOK, DeadlineInv, [Next]_vars PROVE DeadlineInv'
  OBVIOUS
<1>0. /\ MaxInterval \in Nat /\ interval \in Nat /\ interval <= MaxInterval
      /\ Cap \in Nat /\ Five \in Nat /\ Slow \in Nat /\ Heartbeat \in Nat
      /\ reasserted \in Nat /\ contacted \in Nat /\ wait \in Nat /\ busy \in Nat
      /\ attempted \in 0..Heartbeat
  BY Numbers DEF TypeOK
<1> HIDE DEF MaxInterval, Cap
<1> USE <1>0 DEF DeadlineInv, LivenessInv, ReassertInv, Goto, timers, round
<1>1. ASSUME NEW l \in BOOLEAN, Open(l) PROVE DeadlineInv'
  BY <1>1 DEF Open
<1>2. CASE Plan
  <2>1. UNCHANGED <<listeners, reasserted, contacted>> /\ phase' = "wait" /\ phase = "plan"
    BY <1>2 DEF Plan
  <2>2. ~listeners => contacted + wait' <= Five
    BY <1>2 DEF Plan, Minus, Lesser
  <2>3. reasserted + wait' <= MaxInterval \/ (wait' = 0 /\ reasserted <= MaxInterval + Slow)
    BY <1>2 DEF Plan, Minus, Lesser
  <2> QED
    BY <2>1, <2>2, <2>3
<1>3. CASE Timeout \/ Drop
  BY <1>3 DEF Timeout, Drop
<1>4. CASE Fire \/ Command
  BY <1>4 DEF Fire, Command, Handling
<1>5. CASE Handled
  BY <1>5 DEF Handled
<1>6. CASE Perform
  BY <1>6 DEF Perform
<1>7. CASE NotDue
  BY <1>7 DEF NotDue
<1>8. CASE Performed
  BY <1>8 DEF Performed
<1>9. CASE Beat
  BY <1>9 DEF Beat
<1>10. ASSUME NEW i \in Intervals, Reload(i) PROVE DeadlineInv'
  BY <1>10 DEF Reload, Handling
<1>11. CASE End \/ Over \/ GapOver
  BY <1>11 DEF End, Over, GapOver
<1>12. ASSUME NEW l \in Collections, NEW down \in SUBSET Codes, Report(l, down)
       PROVE  DeadlineInv'
  BY <1>12 DEF Report
<1>13. CASE Drift
  BY <1>13 DEF Drift
<1>14. CASE Tick
  <2>1. UNCHANGED <<phase, task, listeners>>
    BY <1>14 DEF Tick
  <2>2. /\ phase \notin {"plan", "due", "beat"}
        /\ phase = "wait" => wait > 0 /\ wait' = wait - 1
        /\ phase \in {"handle", "perform"} => busy > 0 /\ busy' = busy - 1
    BY <1>14 DEF Tick, Minus
  <2>3. reasserted' <= reasserted + 1 /\ contacted' <= contacted + 1
    BY <1>14 DEF Tick, Lesser
  <2>4. reasserted' \in Nat /\ contacted' \in Nat
    BY <1>14 DEF Tick, Lesser
  <2> QED
    BY <2>1, <2>2, <2>3, <2>4
<1>15. CASE UNCHANGED vars
  BY <1>15 DEF vars
<1> QED
  BY <1>1, <1>2, <1>3, <1>4, <1>5, <1>6, <1>7, <1>8, <1>9, <1>10, <1>11, <1>12, <1>13, <1>14,
     <1>15 DEF Next

(* Events, reloads and heartbeats cannot postpone the device checks: the   *)
(* ages exceed their deadlines by no more than what was already running    *)
(* (daemon.rs:922-1003).                                                   *)
THEOREM ChecksAreNotPostponed == Spec => []DeadlinesHold
<1>1. Init => DeadlineInv
  BY DEF Init, DeadlineInv, LivenessInv, ReassertInv
<1>2. TypeOK /\ DeadlineInv => DeadlinesHold
  <2> SUFFICES ASSUME TypeOK, DeadlineInv, InLoop, phase # "perform"
               PROVE  /\ ~listeners => contacted <= Five + Slow
                      /\ reasserted <= MaxInterval + 2 * Slow
    BY DEF DeadlinesHold
  <2>1. /\ MaxInterval \in Nat /\ Five \in Nat /\ Slow \in Nat /\ wait \in Nat /\ busy \in Nat
        /\ reasserted \in Nat /\ contacted \in Nat
    BY Numbers DEF TypeOK
  <2> HIDE DEF MaxInterval
  <2> QED
    BY <2>1 DEF DeadlineInv, LivenessInv, ReassertInv, InLoop, Loop
<1> QED
  BY <1>1, <1>2, TypeInit, TypeStep, DeadlineStep, PTL DEF Spec

-----------------------------------------------------------------------------
(* The mouse hook.                                                         *)

USE HookAssumption

(* The tray thread and HOOK account for every hook while the daemon runs. *)
HandleInv ==
  /\ tray \in {"installing", "removing"} => mine \in Hooks /\ (Running => HOOK = NoHook)
  /\ tray \notin {"installing", "removing"} => mine = NoHook
  /\ Running => installed = {HOOK, mine} \ {NoHook}

(* What the tray thread last read of WANTED is still so, unless a message   *)
(* is on its way or the first sync is still to come.                        *)
SyncInv ==
  /\ main \in {"idle", "posting"} => (WANTED <=> remaps # {})
  /\ ~up => tray = "starting"
  /\ main = "idle" /\ posts = 0 /\ tray # "starting" =>
       /\ tray \in {"wanted", "installing"} => WANTED
       /\ tray \in {"unwanted", "removing"} => ~WANTED
       /\ tray = "pumping" => /\ WANTED => HOOK # NoHook \/ refused
                              /\ ~WANTED => HOOK = NoHook
  /\ main \in {"wanted", "locked"} => (WANTED <=> wish # {})

HookInv == HookTypeOK /\ HandleInv /\ SyncInv /\ DownIsRemembered

LEMMA HookInitInv == HookInit => HookInv
<1> SUFFICES ASSUME HookInit PROVE HookInv
  OBVIOUS
<1>1. ~WANTED /\ ~up /\ ~refused /\ WANTED \in BOOLEAN /\ up \in BOOLEAN /\ refused \in BOOLEAN
  BY DEF HookInit
<1>2. HookTypeOK
  BY <1>1 DEF HookInit, HookTypeOK
<1>3. HandleInv /\ DownIsRemembered
  BY DEF HookInit, HandleInv, DownIsRemembered
<1>4. SyncInv
  BY <1>1 DEF HookInit, SyncInv
<1> QED
  BY <1>2, <1>3, <1>4 DEF HookInv

LEMMA HookNextInv == HookInv /\ [HookNext]_hookVars => HookInv'
<1> SUFFICES ASSUME HookInv, [HookNext]_hookVars PROVE HookInv'
  OBVIOUS
<1> USE DEF HookInv, HookTypeOK, HandleInv, SyncInv, DownIsRemembered, Running, Ended,
            cells, handle, thumbs, BeginSync
<1>1. ASSUME NEW w \in Wishes, StoreWanted(w) PROVE HookInv'
  BY <1>1 DEF StoreWanted
<1>2. CASE Lock
  BY <1>2 DEF Lock
<1>3. CASE Unlock
  BY <1>3 DEF Unlock
<1>4. CASE RequestSync
  BY <1>4 DEF RequestSync
<1>5. CASE Leave
  BY <1>5 DEF Leave
<1>6. CASE Removed
  BY <1>6 DEF Removed
<1>7. CASE Exit
  BY <1>7 DEF Exit
<1>8. CASE Starts
  BY <1>8 DEF Starts
<1>9. CASE FirstSync
  BY <1>9 DEF FirstSync
<1>10. CASE Dispatch
  BY <1>10 DEF Dispatch
<1>11. CASE Agrees
  BY <1>11 DEF Agrees
<1>12. CASE Install
  BY <1>12 DEF Install
<1>13. CASE StoreHook
  BY <1>13 DEF StoreHook
<1>14. CASE TakeHook
  BY <1>14 DEF TakeHook
<1>15. CASE Unhook
  BY <1>15 DEF Unhook
<1>16. ASSUME NEW b \in Thumbs, Press(b) PROVE HookInv'
  BY <1>16 DEF Press
<1>17. ASSUME NEW b \in Thumbs, Release(b) PROVE HookInv'
  BY <1>17 DEF Release
<1>18. CASE UNCHANGED hookVars
  BY <1>18 DEF hookVars
<1> QED
  BY <1>1, <1>2, <1>3, <1>4, <1>5, <1>6, <1>7, <1>8, <1>9, <1>10, <1>11, <1>12,
     <1>13, <1>14, <1>15, <1>16, <1>17, <1>18 DEF HookNext, Setting, Syncing

(* The invariant holds in every reachable state. *)
THEOREM HookInvariant == HookSpec => []HookInv
BY HookInitInv, HookNextInv, PTL DEF HookSpec

(* Every variable keeps its type.                                           *)
THEOREM HookTypeCorrect == HookSpec => []HookTypeOK
BY HookInvariant, PTL DEF HookInv

(* Whenever nothing is left to do, the hook exists exactly for a remap.     *)
THEOREM HookSettles == HookSpec => []Settled
<1>1. HookInv => Settled
  BY DEF HookInv, HookTypeOK, HandleInv, SyncInv, Settled, Quiet, Running
<1> QED
  BY <1>1, HookInvariant, PTL

(* Until the daemon leaves, no hook leaks.                                  *)
THEOREM NoHookLeaks == HookSpec => []OneHook
<1>1. HookInv => OneHook
  BY DEF HookInv, HookTypeOK, HandleInv, OneHook, Running
<1> QED
  BY <1>1, HookInvariant, PTL

(* The hook is there exactly for a remap, and once.                         *)
THEOREM HookOwned == HookSpec => []HookIsOwned
BY HookSettles, NoHookLeaks, PTL DEF HookIsOwned

(* A suppressed press is remembered until it ends.                          *)
THEOREM DownsAreRemembered == HookSpec => []DownIsRemembered
BY HookInvariant, PTL DEF HookInv
=============================================================================
