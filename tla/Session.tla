--------------------------------- MODULE Session ---------------------------------
(***************************************************************************)
(* Time in src/daemon.rs: Maintenance, the loop of run_session that obeys  *)
(* it, the heartbeat of src/health.rs that shares its wait, next_retry_    *)
(* delay between sessions, and the presses of DPI buttons that reader_     *)
(* thread queues and handle_code debounces.  What commands do is           *)
(* Transport's, what events do is Daemon's and ConfigStore's.              *)
(*                                                                         *)
(* Instants are ages, advanced by Tick while the main thread waits or is   *)
(* busy and capped where no comparison tells them apart.  A definition X_Y *)
(* is X with the plausible mistake Y; no specification uses it.            *)
(***************************************************************************)
EXTENDS Integers, Sequences, SequencesExt

CONSTANTS Five,        \* the liveness deadline
          Intervals,   \* reassert_interval_secs, at least 5
          Heartbeat,   \* of health.rs
          Slow,        \* the longest a handler or a task takes
          Codes,       \* the vendor codes of the DPI buttons
          Collections, \* those a listener reads
          Debounce,
          RetryMin, RetryMax, RetryHealthy,
          QueueMax,    \* bound: presses wait until the channel is shorter
          NoCode

MaxInterval == CHOOSE i \in Intervals : \A j \in Intervals : j <= i
(* Bound: the ages go no higher. *)
Cap == MaxInterval + Five + 3 * Slow

ASSUME SessionAssumption ==
  /\ Five \in Nat \ {0} /\ Heartbeat \in Nat \ {0} /\ Slow \in Nat
  /\ Intervals \subseteq Nat /\ \A i \in Intervals : i >= Five
  /\ \E i \in Intervals : \A j \in Intervals : j <= i
  /\ Debounce \in Nat /\ QueueMax \in Nat
  /\ RetryMax \in Nat /\ RetryMin \in 1..RetryMax /\ RetryHealthy \in Nat
  /\ IsFiniteSet(Codes) /\ NoCode \notin Codes

VARIABLES
  phase,      \* where the main thread is
  listeners,  \* has_listeners
  interval,   \* the configured interval, which a reload changes
  reasserted, contacted, \* the ages of Maintenance
  attempted,  \* age of the last publication
  wait,       \* what is left of recv_timeout
  busy,       \* time the handler or task may still take
  task,       \* the task service_due performs
  locked,     \* the mouse has mode, DPI and polling rate of the configuration
  idle,       \* history: the wait of this round ended, and nothing was done since
  lasted,     \* age of the session, or of the attempt to open one
  delay,      \* prev_delay
  left,       \* of the gap
  queue,      \* button events
  held,       \* prev of each reader: the codes that are down
  lastCode, lastFire \* last_fire

timers == <<reasserted, contacted, attempted>>
round  == <<wait, busy, task, idle>>
retry  == <<lasted, delay, left>>
keys   == <<queue, held, lastCode, lastFire>>
vars == <<phase, listeners, interval, timers, round, locked, retry, keys>>

Loop == {"plan", "wait", "handle", "due", "perform", "beat"}
InLoop == phase \in Loop
Delays == 0..RetryMax

TypeOK ==
  /\ phase \in Loop \cup {"opening", "gap", "over"}
  /\ listeners \in BOOLEAN /\ interval \in Intervals
  /\ reasserted \in 0..Cap /\ contacted \in 0..Cap /\ attempted \in 0..Heartbeat
  /\ contacted <= reasserted
  /\ wait \in 0..MaxInterval /\ busy \in 0..Slow
  /\ task \in {"none", "reassert", "liveness"}
  /\ locked \in BOOLEAN /\ idle \in BOOLEAN
  /\ lasted \in 0..RetryHealthy /\ delay \in Delays /\ left \in Delays
  /\ queue \in Seq(Codes)
  /\ held \in [Collections -> SUBSET Codes]
  /\ lastCode \in Codes \cup {NoCode} /\ lastFire \in 0..Debounce

Init ==
  /\ phase = "opening" /\ listeners = FALSE /\ interval \in Intervals
  /\ reasserted = 0 /\ contacted = 0 /\ attempted = 0
  /\ wait = 0 /\ busy = 0 /\ task = "none" /\ idle = FALSE
  /\ locked = FALSE
  /\ lasted = 0 /\ delay = 0 /\ left = 0
  /\ queue = <<>>
  /\ held = [l \in Collections |-> {}]
  /\ lastCode = NoCode /\ lastFire = Debounce

Goto(p) == phase' = p
Lesser(a, b) == IF a <= b THEN a ELSE b
Minus(a, b) == IF a <= b THEN 0 ELSE a - b

-----------------------------------------------------------------------------
(* A session.                                                              *)

(* The mouse is opened and set up; a round of publications came with it.   *)
Open(l) ==
  /\ phase = "opening"
  /\ listeners' = l /\ locked' = TRUE
  /\ reasserted' = 0 /\ contacted' = 0
  /\ attempted' = 0
  /\ lastCode' = NoCode /\ lastFire' = Debounce
  /\ held' = [c \in Collections |-> {}]
  /\ Goto("plan")
  /\ UNCHANGED <<interval, round, retry, queue>>

(* Maintenance.wait, and the heartbeat's. *)
Plan ==
  LET reassert == Minus(interval, reasserted)
      own == IF listeners THEN reassert
             ELSE Lesser(reassert, Minus(Five, contacted))
  IN /\ phase = "plan"
     /\ wait' = Lesser(own, Minus(Heartbeat, attempted))
     /\ idle' = FALSE
     /\ Goto("wait")
     /\ UNCHANGED <<listeners, interval, timers, busy, task, locked, retry, keys>>

(* recv_timeout: nothing came. *)
Timeout ==
  /\ phase = "wait" /\ wait = 0 /\ queue = <<>>
  /\ idle' = TRUE
  /\ Goto("due")
  /\ UNCHANGED <<listeners, interval, timers, wait, busy, task, locked, retry, keys>>

Handling == Goto("handle") /\ busy' = Slow

(* handle_code: a repeat of the code that fired last is dropped while the  *)
(* window is open, ...                                                     *)
Repeats(c) == c = lastCode /\ lastFire < Debounce

Drop ==
  /\ phase = "wait" /\ queue # <<>> /\ Repeats(Head(queue))
  /\ queue' = Tail(queue)
  /\ Goto("due")
  /\ UNCHANGED <<listeners, interval, timers, round, locked, retry>>
  /\ UNCHANGED <<held, lastCode, lastFire>>

(* ... any other fires, and opens a window of its own. *)
Fire ==
  /\ phase = "wait" /\ queue # <<>> /\ ~Repeats(Head(queue))
  /\ queue' = Tail(queue)
  /\ lastCode' = Head(queue) /\ lastFire' = 0
  /\ Handling
  /\ UNCHANGED <<listeners, interval, timers, wait, task, idle, locked, retry>>
  /\ UNCHANGED held

(* A command of the menu, one that publishes perhaps. *)
Command ==
  /\ phase = "wait"
  /\ attempted' \in {0, attempted}
  /\ Handling
  /\ UNCHANGED <<listeners, interval, reasserted, contacted, wait, task, idle>>
  /\ UNCHANGED <<locked, retry, keys>>

(* A reload applies the configuration and may change the interval. *)
Reload(i) ==
  /\ phase = "wait"
  /\ interval' = i /\ locked' = TRUE /\ attempted' = 0
  /\ Handling
  /\ UNCHANGED <<listeners, reasserted, contacted, wait, task, idle, retry, keys>>

Handled_SkipsDue ==
  /\ phase = "handle"
  /\ busy' = 0
  /\ Goto("plan")
  /\ UNCHANGED <<listeners, interval, timers, wait, task, idle, locked, retry, keys>>

Handled ==
  /\ phase = "handle"
  /\ busy' = 0
  /\ Goto("due")
  /\ UNCHANGED <<listeners, interval, timers, wait, task, idle, locked, retry, keys>>

(* service_due begins the task that is due, with a clock read of its own:  *)
(* a reassert before a liveness read.  reassert sets what differs.         *)
Perform ==
  /\ phase = "due"
  /\ \/ reasserted >= interval /\ task' = "reassert" /\ locked' = TRUE
     \/ /\ reasserted < interval /\ ~listeners /\ contacted >= Five
        /\ task' = "liveness" /\ UNCHANGED locked
  /\ busy' = Slow /\ idle' = FALSE
  /\ Goto("perform")
  /\ UNCHANGED <<listeners, interval, timers, wait, retry, keys>>

NotDue ==
  /\ phase = "due" /\ reasserted < interval
  /\ listeners \/ contacted < Five
  /\ Goto("beat")
  /\ UNCHANGED <<listeners, interval, timers, round, locked, retry, keys>>

Performed_AnyTask ==
  /\ phase = "perform"
  /\ contacted' = 0 /\ reasserted' = 0
  /\ busy' = 0 /\ task' = "none"
  /\ Goto("beat")
  /\ UNCHANGED <<listeners, interval, attempted, wait, idle, locked, retry, keys>>

(* It has completed: the deadlines count from now. *)
Performed ==
  /\ phase = "perform"
  /\ contacted' = 0
  /\ reasserted' = IF task = "reassert" THEN 0 ELSE reasserted
  /\ busy' = 0 /\ task' = "none"
  /\ Goto("beat")
  /\ UNCHANGED <<listeners, interval, attempted, wait, idle, locked, retry, keys>>

Beat_IfWritten ==
  /\ phase = "beat"
  /\ \/ attempted >= Heartbeat /\ attempted' \in {0, attempted}
     \/ attempted < Heartbeat /\ UNCHANGED attempted
  /\ idle' = (idle /\ attempted' = attempted)
  /\ Goto("plan")
  /\ UNCHANGED <<listeners, interval, reasserted, contacted, wait, busy, task>>
  /\ UNCHANGED <<locked, retry, keys>>

(* refresh_if_due: the attempt counts, written or not. *)
Beat ==
  /\ phase = "beat"
  /\ attempted' = IF attempted >= Heartbeat THEN 0 ELSE attempted
  /\ idle' = (idle /\ attempted < Heartbeat)
  /\ Goto("plan")
  /\ UNCHANGED <<listeners, interval, reasserted, contacted, wait, busy, task>>
  /\ UNCHANGED <<locked, retry, keys>>

(* next_retry_delay. *)
NextDelay(prev, age) ==
  IF age >= RetryHealthy \/ prev = 0 THEN RetryMin ELSE Lesser(2 * prev, RetryMax)

(* A session, or the attempt to open one, ends without a stop. *)
End ==
  /\ phase \in {"opening", "plan", "handle"}
  /\ delay' = NextDelay(delay, lasted) /\ left' = delay'
  /\ busy' = 0
  /\ attempted' = 0
  /\ Goto("gap")
  /\ UNCHANGED <<listeners, interval, reasserted, contacted, wait, task, idle>>
  /\ UNCHANGED <<locked, lasted, keys>>

(* A stop, or Quit. *)
Over ==
  /\ phase # "over"
  /\ Goto("over")
  /\ UNCHANGED <<listeners, interval, timers, round, locked, retry, keys>>

(* The gap times out, or a user asks for a probe; stragglers are dropped.  *)
GapOver ==
  /\ phase = "gap"
  /\ left' = 0 /\ lasted' = 0
  /\ queue' = <<>>
  /\ Goto("opening")
  /\ UNCHANGED <<listeners, interval, timers, round, locked, delay>>
  /\ UNCHANGED <<held, lastCode, lastFire>>

-----------------------------------------------------------------------------
(* The listeners.                                                          *)

(* A report says which codes are down; only new ones are events, in any    *)
(* order (difference of HashSets).                                         *)
Report(l, down) ==
  /\ InLoop /\ listeners /\ down # held[l]
  /\ held' = [held EXCEPT ![l] = down]
  /\ \E new \in SetToSeqs(down \ held[l]) :
       Len(queue) + Len(new) <= QueueMax /\ queue' = queue \o new
  /\ UNCHANGED <<phase, listeners, interval, timers, round, locked, retry>>
  /\ UNCHANGED <<lastCode, lastFire>>

-----------------------------------------------------------------------------
(* The mouse loses a setting: asleep, replugged, or another program's. *)
Drift ==
  /\ InLoop /\ locked
  /\ locked' = FALSE
  /\ UNCHANGED <<phase, listeners, interval, timers, round, retry, keys>>

(* Time passes in a wait, a handler, a task, an attempt to open a mouse or *)
(* a gap.                                                                  *)
Tick ==
  /\ \/ phase = "wait" /\ wait > 0
     \/ phase \in {"handle", "perform"} /\ busy > 0
     \/ phase = "gap" /\ left > 0
     \/ phase = "opening"
  /\ reasserted' = Lesser(reasserted + 1, Cap)
  /\ contacted' = Lesser(contacted + 1, Cap)
  /\ attempted' = Lesser(attempted + 1, Heartbeat)
  /\ wait' = Minus(wait, 1) /\ busy' = Minus(busy, 1) /\ left' = Minus(left, 1)
  /\ lasted' = Lesser(lasted + 1, RetryHealthy)
  /\ lastFire' = Lesser(lastFire + 1, Debounce)
  /\ UNCHANGED <<phase, listeners, interval, task, idle, locked, delay>>
  /\ UNCHANGED <<queue, held, lastCode>>

Receive == Timeout \/ Drop \/ Fire
Main == Plan \/ Receive \/ Handled \/ Perform \/ NotDue \/ Performed \/ Beat

Next ==
  \/ \E l \in BOOLEAN : Open(l)
  \/ Plan \/ Timeout \/ Drop \/ Fire \/ Handled
  \/ Perform \/ NotDue \/ Performed \/ Beat
  \/ Command \/ \E i \in Intervals : Reload(i)
  \/ End \/ Over \/ GapOver
  \/ \E l \in Collections, down \in SUBSET Codes : Report(l, down)
  \/ Drift \/ Tick

(* The main thread runs on, and time passes however many events come. *)
Fairness == WF_vars(Main) /\ SF_vars(Tick)

Spec == Init /\ [][Next]_vars /\ Fairness

-----------------------------------------------------------------------------
(* Properties.                                                             *)

(* "Button presses and health refreshes cannot postpone device checks":    *)
(* between tasks neither age exceeds its deadline by more than what was    *)
(* running when it passed, whichever events, reloads and heartbeats came   *)
(* (daemon.rs:922-1003).                                                   *)
DeadlinesHold ==
  InLoop /\ phase # "perform" =>
    /\ ~listeners => contacted <= Five + Slow
    /\ reasserted <= MaxInterval + 2 * Slow

(* A wait that ends with no event ends for a reason: the same round runs a *)
(* task or attempts a publication.  A zero wait that nothing consumes      *)
(* would spin (daemon.rs:769-778, 936-941).                                *)
NoIdleRound == phase = "plan" => ~idle

(* A setting the mouse loses is set again while the session lasts, with or *)
(* without liveness reads in between.                                      *)
Relocks == (InLoop /\ ~locked) ~> (locked \/ ~InLoop)
=============================================================================
