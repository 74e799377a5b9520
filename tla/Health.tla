--------------------------------- MODULE Health ---------------------------------
(***************************************************************************)
(* src/health.rs: the PC Vitals capsule, a small status file that the main *)
(* thread rewrites at each event of its life (the calls of src/daemon.rs   *)
(* and src/daemon/menu.rs) and every HEARTBEAT_INTERVAL of a session.      *)
(*                                                                         *)
(* Times are relative: ages, in units a Tick advances.  Identifiers stand  *)
(* for what they identify; what no event changes is left out of a capsule. *)
(* A definition X_Y is X with the plausible mistake Y; no specification    *)
(* uses it.                                                                *)
(***************************************************************************)
EXTENDS Integers, FiniteSets

CONSTANTS Mice,         \* what subject_id tells apart
          Rates,        \* configured_polling_rate_hz, or none
          Retryable,    \* error codes of a session that ended
          Terminal,     \* error codes of a stop
          MaxSubjects, MaxIncidents,
          Heartbeat,    \* HEARTBEAT_INTERVAL
          Retention,    \* INCIDENT_RETENTION_MS
          MaxSequence,  \* u64::MAX
          MaxCount,     \* u32::MAX
          Found,        \* capsules an earlier process may have left
          MaxMoves,     \* bound: events of mouse, user and disk
          Missing,      \* no file
          Unusable,     \* one restore_previous rejects
          NoSubject, Never

Codes    == Retryable \cup Terminal
Statuses == {"healthy", "degraded", "unavailable", "unknown"}
Phases   == {"new", "restored", "opening", "session", "gap", "publishing", "over"}

(* recovered: how long ago, once it is. *)
Incidents ==
  [at : Nat, code : Codes, mouse : Mice, count : 1..MaxCount, recovered : Nat \cup {Never}]
Entries  == [code : Codes, mouse : Mice, count : 1..MaxCount, open : BOOLEAN, at : Nat]
Capsules ==
  [sequence : 1..MaxSequence, status : Statuses, current : Mice \cup {NoSubject},
   subjects : SUBSET Mice, rate : Rates, failures : 0..MaxCount, incidents : SUBSET Entries]

(* Every incident cites a subject of its own capsule: a mouse that left is *)
(* carried along for as long as something cites it (health.rs:169-182),    *)
(* and goes only with what cites it (health.rs:323-327).                   *)
Cited(c) == \A i \in c.incidents : i.mouse \in c.subjects

(* A failure that repeats is one episode until its mouse recovers          *)
(* (health.rs:217-223).                                                    *)
OneEpisode(c) ==
  \A i, j \in c.incidents : i.open /\ j.open /\ i.code = j.code /\ i.mouse = j.mouse => i = j

(* A healthy capsule is about a mouse that has nothing open. *)
HealthyIsClean(c) ==
  c.status = "healthy" =>
    /\ c.current # NoSubject /\ c.failures = 0
    /\ \A i \in c.incidents : i.open => i.mouse # c.current

Bounded(c) ==
  Cardinality(c.subjects) <= MaxSubjects /\ Cardinality(c.incidents) <= MaxIncidents

Consistent(c) == Cited(c) /\ OneEpisode(c) /\ HealthyIsClean(c) /\ Bounded(c)

ASSUME HealthAssumption ==
  /\ NoSubject \notin Mice
  /\ Retryable \cap Terminal = {}
  /\ MaxSubjects \in Nat \ {0} /\ MaxIncidents \in Nat \ {0}
  /\ Heartbeat \in Nat \ {0} /\ Retention \in Nat /\ Never \notin Int
  /\ MaxSequence \in Nat \ {0} /\ MaxCount \in Nat \ {0} /\ MaxMoves \in Nat
  /\ Missing \notin Capsules /\ Unusable \notin Capsules
  /\ \A c \in Found : c \in Capsules /\ Consistent(c)

VARIABLES
  phase,      \* where the main thread is
  next,       \* and where it goes on after a publication
  sequence,   \* of the last capsule this process committed
  status, subject, rate, failures,
  historical, \* historical_subjects: [mouse, at], at in the order of arrival
  incidents,  \* in the order of at
  arrivals,   \* the last at
  age,        \* since last_publish_attempt
  file,       \* the capsule on disk
  moves       \* what the environment did so far

memory == <<sequence, status, subject, rate, failures, historical, incidents, arrivals>>
vars == <<phase, next, memory, age, file, moves>>

TypeOK ==
  /\ phase \in Phases /\ next \in Phases
  /\ sequence \in 0..MaxSequence
  /\ status \in Statuses /\ subject \in Mice \cup {NoSubject}
  /\ rate \in Rates /\ failures \in 0..MaxCount
  /\ historical \subseteq [mouse : Mice, at : Nat]
  /\ incidents \subseteq Incidents
  /\ arrivals \in Nat
  /\ age \in 0..Heartbeat
  /\ file \in Capsules \cup {Missing, Unusable}
  /\ moves \in Nat

(* with_paths, before restore_previous: nothing is known. *)
Forget(r) ==
  /\ sequence' = 0 /\ status' = "unknown" /\ subject' = NoSubject
  /\ rate' = r /\ failures' = 0
  /\ historical' = {} /\ incidents' = {} /\ arrivals' = 0
  /\ age' = 0

Init ==
  /\ phase = "new" /\ next = "opening"
  /\ sequence = 0 /\ status = "unknown" /\ subject = NoSubject
  /\ rate \in Rates /\ failures = 0
  /\ historical = {} /\ incidents = {} /\ arrivals = 0
  /\ age = 0
  /\ file \in {Missing, Unusable} \cup Found
  /\ moves = 0

Move == moves < MaxMoves /\ moves' = moves + 1
Lesser(a, b) == IF a <= b THEN a ELSE b
Open(i) == i.recovered = Never

-----------------------------------------------------------------------------
(* publish_at.                                                             *)

(* What came last. *)
Newest(S, n) == {x \in S : Cardinality({y \in S : y.at > x.at}) < n}
Retained(S) == {i \in S : Open(i) \/ i.recovered <= Retention}
Cites(S, m) == \E i \in S : i.mouse = m
Room(m) == IF m = NoSubject THEN MaxSubjects ELSE MaxSubjects - 1

PublishAfter_KeepsCitations(mouse, past, found, then) ==
  LET kept  == Retained(found)
      cited == {h \in past : h.mouse # mouse /\ Cites(kept, h.mouse)}
  IN /\ subject' = mouse
     /\ historical' = Newest(cited, Room(mouse))
     /\ incidents' = kept
     /\ age' = 0
     /\ phase' = "publishing" /\ next' = then
     /\ UNCHANGED <<sequence, file>>

(* The reporter publishes: incidents it no longer needs go, then subjects  *)
(* nothing cites, then the oldest of too many subjects with what cites     *)
(* them.  Only then is a capsule built and its writing tried.              *)
PublishAfter(mouse, past, found, then) ==
  LET kept  == Retained(found)
      cited == {h \in past : h.mouse # mouse /\ Cites(kept, h.mouse)}
      fits  == Newest(cited, Room(mouse))
  IN /\ subject' = mouse
     /\ historical' = fits
     /\ incidents' = {i \in kept : \A h \in cited \ fits : i.mouse # h.mouse}
     /\ age' = 0
     /\ phase' = "publishing" /\ next' = then
     /\ UNCHANGED <<sequence, file>>

Publish(then) == PublishAfter(subject, historical, incidents, then)

NextSequence == Lesser(sequence + 1, MaxSequence)

Capsule ==
  [sequence |-> NextSequence, status |-> status, current |-> subject,
   subjects |-> {h.mouse : h \in historical} \cup ({subject} \ {NoSubject}),
   rate |-> rate, failures |-> failures,
   incidents |-> {[code |-> i.code, mouse |-> i.mouse, count |-> i.count,
                   open |-> Open(i), at |-> i.at] : i \in incidents}]

(* persist_capsule: a temporary file moved over the capsule, and only then *)
(* is the sequence taken.                                                  *)
Persist ==
  /\ phase = "publishing"
  /\ file' = Capsule /\ sequence' = NextSequence
  /\ phase' = next
  /\ UNCHANGED <<next, status, subject, rate, failures, historical, incidents>>
  /\ UNCHANGED <<arrivals, age, moves>>

PersistFails_Advances ==
  /\ phase = "publishing"
  /\ sequence' = NextSequence
  /\ phase' = next
  /\ Move
  /\ UNCHANGED <<next, status, subject, rate, failures, historical, incidents>>
  /\ UNCHANGED <<arrivals, age, file>>

(* Any step of it fails: a log line, and the daemon goes on. *)
PersistFails ==
  /\ phase = "publishing"
  /\ phase' = next
  /\ Move
  /\ UNCHANGED <<next, memory, age, file>>

-----------------------------------------------------------------------------
(* The events.                                                             *)

(* restore_previous: of the earlier capsule only its sequence. *)
Restore ==
  /\ phase = "new"
  /\ sequence' = IF file \in Capsules
                   THEN (IF file.sequence < MaxSequence THEN file.sequence ELSE 0)
                   ELSE 0
  /\ phase' = "restored"
  /\ UNCHANGED <<next, status, subject, rate, failures, historical, incidents>>
  /\ UNCHANGED <<arrivals, age, file, moves>>

(* starting. *)
Starting ==
  /\ phase = "restored"
  /\ status' = "unknown"
  /\ Publish("opening")
  /\ UNCHANGED <<rate, failures, arrivals, moves>>

(* connected: the mouse before it becomes history if an incident cites it, *)
(* and the incidents of this one have recovered.                           *)
Connected(m) ==
  LET leaves == {s \in {subject} : s \notin {NoSubject, m} /\ Cites(incidents, s)
                                   /\ \A h \in historical : h.mouse # s}
      recovers(i) == i.mouse = m /\ Open(i)
  IN /\ phase = "opening"
     /\ status' = "healthy" /\ failures' = 0
     /\ arrivals' = arrivals + 1
     /\ PublishAfter(m, {h \in historical : h.mouse # m}
                          \cup {[mouse |-> s, at |-> arrivals + 1] : s \in leaves},
                     {i \in incidents : ~recovers(i)}
                       \cup {[i EXCEPT !.recovered = 0] : i \in {j \in incidents : recovers(j)}},
                     "session")
     /\ Move
     /\ UNCHANGED rate

(* session_failed: one more of the episode that is open, or a new one, and *)
(* the oldest of too many goes.  A failure before any mouse was seen is    *)
(* nobody's.                                                               *)
SessionFailed(e, then) ==
  LET same == {i \in incidents : i.code = e /\ i.mouse = subject /\ Open(i)}
      more == {[i EXCEPT !.count = Lesser(@ + 1, MaxCount)] : i \in same}
      new  == [at |-> arrivals + 1, code |-> e, mouse |-> subject, count |-> 1,
               recovered |-> Never]
      now  == IF subject = NoSubject THEN incidents
              ELSE Newest(IF same = {} THEN incidents \cup {new}
                                       ELSE (incidents \ same) \cup more, MaxIncidents)
  IN /\ status' = "degraded" /\ failures' = Lesser(failures + 1, MaxCount)
     /\ arrivals' = arrivals + 1
     /\ PublishAfter(subject, historical, now, then)
     /\ Move
     /\ UNCHANGED rate

(* A session could not start or ended, and another follows, ... *)
Fails == phase \in {"opening", "session"} /\ \E e \in Retryable : SessionFailed(e, "gap")
(* ... or none does: stop_for_safety, also from shutdown. *)
SafetyStop == phase \in {"opening", "session"} /\ \E e \in Terminal : SessionFailed(e, "over")

RetryGap ==
  /\ phase = "gap"
  /\ phase' = "opening"
  /\ UNCHANGED <<next, memory, age, file, moves>>

(* stopped: Quit, or a configuration the mouse refuses. *)
Stopped ==
  /\ phase \in {"opening", "session", "gap"}
  /\ status' = "unavailable"
  /\ Publish("over")
  /\ UNCHANGED <<rate, failures, arrivals, moves>>

(* polling_rate_changed: by the menu or a reload. *)
PollingRateChanged(r) ==
  /\ phase = "session"
  /\ rate' = r
  /\ Publish("session")
  /\ Move
  /\ UNCHANGED <<status, failures, arrivals>>

Refresh_NothingNew ==
  /\ phase = "session" /\ age >= Heartbeat
  /\ age' = 0
  /\ UNCHANGED <<phase, next, memory, file, moves>>

(* refresh_if_due: the session's wait ends when refresh_due_in is over. *)
Refresh ==
  /\ phase = "session" /\ age >= Heartbeat
  /\ Publish("session")
  /\ UNCHANGED <<status, rate, failures, arrivals, moves>>

-----------------------------------------------------------------------------
(* The world around it.                                                    *)

Older(i) == IF Open(i) THEN i ELSE [i EXCEPT !.recovered = Lesser(@ + 1, Retention + 1)]

(* Time passes; the ages say no more than the comparisons ask. *)
Tick ==
  /\ phase # "publishing"
  /\ age' = Lesser(age + 1, Heartbeat)
  /\ incidents' = {Older(i) : i \in incidents}
  /\ UNCHANGED <<phase, next, sequence, status, subject, rate, failures, historical>>
  /\ UNCHANGED <<arrivals, file, moves>>

(* The wall clock is set back: saturating_sub finds that every recovery    *)
(* has just been.                                                          *)
ClockSetBack ==
  /\ incidents # {}
  /\ incidents' = {IF Open(i) THEN i ELSE [i EXCEPT !.recovered = 0] : i \in incidents}
  /\ Move
  /\ UNCHANGED <<phase, next, sequence, status, subject, rate, failures, historical>>
  /\ UNCHANGED <<arrivals, age, file>>

(* "It is safe to delete." *)
Delete ==
  /\ file # Missing
  /\ file' = Missing
  /\ Move
  /\ UNCHANGED <<phase, next, memory, age>>

(* The process ends, also in the middle of a publication, and is started   *)
(* again.                                                                  *)
Restart ==
  /\ phase # "new"
  /\ phase' = "new" /\ next' = "opening"
  /\ \E r \in Rates : Forget(r)
  /\ Move
  /\ UNCHANGED file

Events ==
  \/ Restore \/ Starting \/ \E m \in Mice : Connected(m)
  \/ Fails \/ SafetyStop \/ RetryGap \/ Stopped
  \/ \E r \in Rates : PollingRateChanged(r)
  \/ Refresh

Next ==
  \/ Events \/ Persist \/ PersistFails
  \/ Tick \/ ClockSetBack \/ Delete \/ Restart

(* Publications end, time passes, and the loop comes round when its wait   *)
(* ends.                                                                   *)
Fairness ==
  /\ WF_vars(Persist \/ PersistFails) /\ WF_vars(Refresh) /\ WF_vars(Tick)

Spec == Init /\ [][Next]_vars /\ Fairness

-----------------------------------------------------------------------------
(* Properties.                                                             *)

(* What a reader of the file may rely on, whatever devices came and went,  *)
(* whichever writes failed and whenever the process ended.                 *)
CapsuleIsConsistent ==
  file \in Capsules => Consistent(file)

(* A capsule that replaces another has the sequence after it, across       *)
(* restarts, crashes and failed writes alike: a publication that reached   *)
(* no disk has used none up (health.rs:270-305, 394-395), until u64 is.    *)
SequenceGrows ==
  [][(file \in Capsules /\ file' \in Capsules /\ file' # file /\ file.sequence < MaxSequence)
       => file'.sequence = file.sequence + 1]_vars

(* The capsule on disk says what the reporter knows. *)
Current == file \in Capsules /\ [file EXCEPT !.sequence = 0] = [Capsule EXCEPT !.sequence = 0]

(* A session, the publications in the middle of it included. *)
InSession == phase = "session" \/ (phase = "publishing" /\ next = "session")

(* A publication that failed, or a file that someone deleted, is made up   *)
(* for on the disk, and not just tried again, unless the session ends      *)
(* before: the heartbeat publishes what no event would (health.rs:252-268).*)
(* Bound: writes fail only so often (MaxMoves).                            *)
HeartbeatMends == InSession ~> (Current \/ ~InSession)
=============================================================================
