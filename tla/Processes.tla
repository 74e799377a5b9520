-------------------------------- MODULE Processes --------------------------------
(***************************************************************************)
(* What the processes on one machine share: the mouse, which one of them   *)
(* may control at a time (crates/platform/src/process_lease.rs and the     *)
(* control lease of crates/razer-hid/src/lib.rs), and the registration to  *)
(* start with Windows (crates/platform/src/autostart.rs, with its callers  *)
(* in src/daemon.rs), of one user.                                         *)
(*                                                                         *)
(* Windows destroys a named object with its last handle.  No variable says *)
(* who has one: a thread's position does.                                  *)
(*                                                                         *)
(* A definition X_Y is X with the plausible mistake Y.                     *)
(***************************************************************************)
EXTENDS Naturals, FiniteSets

CONSTANTS Daemons, Tools,  \* processes: daemons, runs of charmctl
          Threads,         \* <<process, thread>>: those that open the mouse
          NoTick           \* the tray has no menu yet

(* The two programs are two processes. *)
ASSUME ProcessesAssumption == Daemons \cap Tools = {}

VARIABLES
  running, \* processes
  guarded, \* daemons that created the single-instance object
  pc,      \* each thread's position in Mouse::open_with and in Drop
  run,     \* the Run value: absent, unreadable, current, or of an old place
  saved,   \* config.toml says autostart_bootstrapped
  latch,   \* so does each daemon's configuration
  task,    \* what each daemon's main thread does to the registration
  tick,    \* what each tray's menu shows
  moved,   \* history: somebody else wrote the Run value since tick was read
  removed, \* history: the user removed the registration, which was made once
  shared   \* history: two daemons have run at once

startup == <<run, saved, latch, task, tick, moved, removed>>
vars == <<running, guarded, pc, run, saved, latch, task, tick, moved, removed, shared>>

Main(p) == <<p, "main">>
ThreadsOf(p) == {t \in Threads : t[1] = p}
Booting == {"boot", "register", "save", "refresh", "rewrite", "menu"}
Values == {"absent", "unreadable", "current", "old"}
States == {"Registered", "Absent", "Unknown"}

-----------------------------------------------------------------------------
(* The control lease.                                                      *)

(* Threads that share the process's Arc, and those with a handle of the    *)
(* named object: these, one that lets go of the last Arc, and one that got *)
(* a handle of an object which existed.                                    *)
Sharing(p) == {t \in ThreadsOf(p) : pc[t] \in {"leased", "open", "dropping"}}
Handles == {t \in Threads : pc[t] \in {"leased", "open", "dropping", "closing", "busy"}}

(* CONTROL_LEASE's mutex is held from the failed upgrade to the answer.    *)
SlotIsFree(p) == \A t \in ThreadsOf(p) : pc[t] \notin {"acquiring", "busy"}

(* A daemon's main thread opens the mouse when it is not busy with the     *)
(* registration, and so does a notice's thread once the daemon is up.      *)
Ready(t) ==
  /\ t[1] \in running
  /\ t[1] \in Daemons => task[t[1]] \notin Booting /\ (t = Main(t[1]) => task[t[1]] = "none")

(* control_lease: the Weak upgrades, or the object must be created.        *)
Upgrade(t) ==
  /\ pc[t] = "idle" /\ Ready(t) /\ SlotIsFree(t[1])
  /\ pc' = [pc EXCEPT ![t] = IF Sharing(t[1]) = {} THEN "acquiring" ELSE "leased"]
  /\ UNCHANGED <<running, guarded, startup, shared>>

Acquire_NotChecked(t) ==
  /\ pc[t] = "acquiring"
  /\ pc' = [pc EXCEPT ![t] = "leased"]
  /\ UNCHANGED <<running, guarded, startup, shared>>

(* ProcessLease::acquire: only who creates the object may proceed.         *)
Acquire(t) ==
  /\ pc[t] = "acquiring"
  /\ pc' = [pc EXCEPT ![t] = IF Handles = {} THEN "leased" ELSE "busy"]
  /\ UNCHANGED <<running, guarded, startup, shared>>

(* CreateMutexW fails. *)
AcquireFails(t) ==
  /\ pc[t] = "acquiring"
  /\ pc' = [pc EXCEPT ![t] = "idle"]
  /\ UNCHANGED <<running, guarded, startup, shared>>

Refuse_Leaks(t) == pc[t] = "busy" /\ UNCHANGED vars

(* The handle that came with ERROR_ALREADY_EXISTS is closed; the caller    *)
(* gets Busy.                                                              *)
Refuse(t) ==
  /\ pc[t] = "busy"
  /\ pc' = [pc EXCEPT ![t] = "idle"]
  /\ UNCHANGED <<running, guarded, startup, shared>>

-----------------------------------------------------------------------------
(* The registration.                                                       *)

(* registration(): a read may fail. *)
Seen(v) == CASE v \in {"current", "old"} -> "Registered" [] v = "absent" -> "Absent"
             [] v = "unreadable" -> "Unknown"
Registrations == {Seen(run), "Unknown"}

Reads(d, state) ==
  /\ tick' = [tick EXCEPT ![d] = state]
  /\ moved' = [moved EXCEPT ![d] = FALSE]

(* write_command and delete_command may fail. *)
Writes(d, value) ==
  /\ run' \in {value, run}
  /\ moved' = [e \in Daemons |-> moved[e] \/ (e # d /\ run' # run)]

(* open_device; a session that finds the mouse builds the menu again.      *)
OpenDevice(t) ==
  /\ pc[t] = "leased"
  /\ pc' \in {[pc EXCEPT ![t] = "open"], [pc EXCEPT ![t] = "dropping"]}
  /\ IF pc'[t] = "open" /\ t[1] \in Daemons /\ t = Main(t[1])
     THEN \E state \in Registrations : Reads(t[1], state)
     ELSE UNCHANGED <<tick, moved>>
  /\ UNCHANGED <<running, guarded, run, saved, latch, task, removed, shared>>

(* Mouse's fields drop in their order: the device, then the lease.         *)
CloseDevice(t) ==
  /\ pc[t] = "open" /\ Ready(t)
  /\ pc' = [pc EXCEPT ![t] = "dropping"]
  /\ UNCHANGED <<running, guarded, startup, shared>>

(* The Arc's count falls; the last one closes the object's handle, which   *)
(* the Weak does not upgrade to any more.                                  *)
DropLease(t) ==
  /\ pc[t] = "dropping"
  /\ pc' = [pc EXCEPT ![t] = IF Sharing(t[1]) = {t} THEN "closing" ELSE "idle"]
  /\ UNCHANGED <<running, guarded, startup, shared>>
CloseHandle(t) ==
  /\ pc[t] = "closing"
  /\ pc' = [pc EXCEPT ![t] = "idle"]
  /\ UNCHANGED <<running, guarded, startup, shared>>

(* autostart_boot_plan *)
Plan_IgnoresLatch(bootstrapped, state) ==
  CASE state = "Unknown" -> "menu" [] state = "Registered" /\ bootstrapped -> "refresh"
    [] OTHER -> "register"

Plan(bootstrapped, state) ==
  CASE state = "Unknown" -> "menu"
    [] state # "Unknown" /\ ~bootstrapped -> "register"
    [] state = "Registered" /\ bootstrapped -> "refresh"
    [] state = "Absent" /\ bootstrapped -> "menu"

(* main, bootstrap_autostart and the start of the tray, one step for each  *)
(* access to what others can change.                                       *)
BootPlan(d) ==
  /\ task[d] = "boot"
  /\ \E state \in Registrations : task' = [task EXCEPT ![d] = Plan(latch[d], state)]
  /\ UNCHANGED <<running, guarded, pc, run, saved, latch, tick, moved, removed, shared>>

(* The latch is set whether or not the write succeeded. *)
BootRegister(d) ==
  /\ task[d] = "register"
  /\ Writes(d, "current")
  /\ latch' = [latch EXCEPT ![d] = TRUE]
  /\ task' = [task EXCEPT ![d] = "save"]
  /\ UNCHANGED <<running, guarded, pc, saved, tick, removed, shared>>
BootSave(d) ==
  /\ task[d] = "save"
  /\ saved' \in {latch[d], saved}
  /\ task' = [task EXCEPT ![d] = "menu"]
  /\ UNCHANGED <<running, guarded, pc, run, latch, tick, moved, removed, shared>>

(* refresh() reads again, and repairs a stale path. *)
BootRefresh(d) ==
  /\ task[d] = "refresh"
  /\ task' \in {[task EXCEPT ![d] = IF run = "old" THEN "rewrite" ELSE "menu"],
                [task EXCEPT ![d] = "menu"]}
  /\ UNCHANGED <<running, guarded, pc, run, saved, latch, tick, moved, removed, shared>>
BootRewrite(d) ==
  /\ task[d] = "rewrite"
  /\ Writes(d, "current")
  /\ task' = [task EXCEPT ![d] = "menu"]
  /\ UNCHANGED <<running, guarded, pc, saved, latch, tick, removed, shared>>

BootMenu(d) ==
  /\ task[d] = "menu"
  /\ \E state \in Registrations : Reads(d, state)
  /\ task' = [task EXCEPT ![d] = "none"]
  /\ UNCHANGED <<running, guarded, pc, run, saved, latch, removed, shared>>

(* toggle_autostart: read and invert, write, read back. *)
MayToggle(d) == task[d] = "none" /\ d \in running /\ pc[Main(d)] \in {"idle", "open"}

Toggle(d) ==
  /\ MayToggle(d)
  /\ \E state \in Registrations :
       CASE state = "Unknown" -> Reads(d, state) /\ UNCHANGED task
         [] state = "Registered" -> task' = [task EXCEPT ![d] = "clear"] /\ UNCHANGED <<tick, moved>>
         [] state = "Absent" -> task' = [task EXCEPT ![d] = "set"] /\ UNCHANGED <<tick, moved>>
  /\ UNCHANGED <<running, guarded, pc, run, saved, latch, removed, shared>>

NobodyBoots == \A d \in Daemons : task[d] \notin Booting
ToggleWrite(d) ==
  /\ task[d] \in {"set", "clear"}
  /\ Writes(d, IF task[d] = "set" THEN "current" ELSE "absent")
  /\ task' = [task EXCEPT ![d] = IF task[d] = "set" THEN "wasSet" ELSE "wasCleared"]
  /\ removed' = (run' = "absent" /\ (removed \/ (saved /\ NobodyBoots)))
  /\ UNCHANGED <<running, guarded, pc, saved, latch, tick, shared>>

ToggleShow_Assumes(d) ==
  /\ task[d] \in {"wasSet", "wasCleared"}
  /\ Reads(d, IF task[d] = "wasSet" THEN "Registered" ELSE "Absent")
  /\ task' = [task EXCEPT ![d] = "none"]
  /\ UNCHANGED <<running, guarded, pc, run, saved, latch, removed, shared>>

ToggleShow(d) ==
  /\ task[d] \in {"wasSet", "wasCleared"}
  /\ \E state \in Registrations : Reads(d, state)
  /\ task' = [task EXCEPT ![d] = "none"]
  /\ UNCHANGED <<running, guarded, pc, run, saved, latch, removed, shared>>

(* Any other command that saves, and a reload. *)
SaveConfig(d) ==
  /\ MayToggle(d)
  /\ saved' = latch[d]
  /\ UNCHANGED <<running, guarded, pc, run, latch, task, tick, moved, removed, shared>>
Reload(d) ==
  /\ MayToggle(d)
  /\ latch' = [latch EXCEPT ![d] = saved]
  /\ UNCHANGED <<running, guarded, pc, run, saved, task, tick, moved, removed, shared>>

(* Settings, regedit or an installer. *)
Outside(value) ==
  /\ value # run
  /\ run' = value
  /\ moved' = [d \in Daemons |-> TRUE]
  /\ removed' = (value = "absent" /\ saved /\ NobodyBoots)
  /\ UNCHANGED <<running, guarded, pc, saved, latch, task, tick, shared>>

-----------------------------------------------------------------------------
(* Processes.                                                              *)

(* acquire_single_instance: a second daemon exits; where the object cannot *)
(* be created at all, the daemon runs.                                     *)
StartDaemon(d) ==
  /\ d \notin running
  /\ \/ guarded = {} /\ guarded' = {d}
     \/ UNCHANGED guarded
  /\ running' = running \cup {d}
  /\ shared' = (shared \/ running \cap Daemons # {})
  /\ latch' = [latch EXCEPT ![d] = saved]
  /\ task' = [task EXCEPT ![d] = "boot"]
  /\ UNCHANGED <<pc, run, saved, tick, moved, removed>>

StartTool(p) ==
  /\ p \notin running
  /\ running' = running \cup {p}
  /\ UNCHANGED <<guarded, pc, startup, shared>>

(* A process ends anywhere, and Windows closes its handles. *)
Exit(p) ==
  /\ p \in running
  /\ running' = running \ {p}
  /\ guarded' = guarded \ {p}
  /\ pc' = [t \in Threads |-> IF t[1] = p THEN "idle" ELSE pc[t]]
  /\ IF p \in Daemons
     THEN task' = [task EXCEPT ![p] = "none"] /\ tick' = [tick EXCEPT ![p] = NoTick]
     ELSE UNCHANGED <<task, tick>>
  /\ UNCHANGED <<run, saved, latch, moved, removed, shared>>

Init ==
  /\ running = {} /\ guarded = {}
  /\ pc = [t \in Threads |-> "idle"]
  /\ run \in Values /\ saved \in BOOLEAN
  /\ latch = [d \in Daemons |-> FALSE]
  /\ task = [d \in Daemons |-> "none"]
  /\ tick = [d \in Daemons |-> NoTick]
  /\ moved = [d \in Daemons |-> FALSE]
  /\ removed = FALSE /\ shared = FALSE

ThreadStep(t) ==
  Refuse(t) \/ OpenDevice(t) \/ DropLease(t) \/ CloseHandle(t)
DaemonStep(d) ==
  \/ BootPlan(d) \/ BootRegister(d) \/ BootSave(d) \/ BootRefresh(d) \/ BootRewrite(d)
  \/ BootMenu(d) \/ ToggleWrite(d) \/ ToggleShow(d)

Next ==
  \/ \E t \in Threads : \/ Upgrade(t) \/ Acquire(t) \/ AcquireFails(t) \/ CloseDevice(t)
                         \/ ThreadStep(t)
  \/ \E d \in Daemons : StartDaemon(d) \/ DaemonStep(d) \/ Toggle(d) \/ SaveConfig(d) \/ Reload(d)
  \/ \E p \in Tools : StartTool(p)
  \/ \E p \in Daemons \cup Tools : Exit(p)
  \/ \E value \in Values : Outside(value)

(* Threads and daemons go on; a retry comes, whatever the menu is asked in *)
(* between (Session); and CreateMutexW does not fail for ever.             *)
Fairness ==
  /\ \A t \in Threads : WF_vars(ThreadStep(t)) /\ SF_vars(Acquire(t))
  /\ \A d \in Daemons : WF_vars(DaemonStep(d)) /\ SF_vars(Upgrade(Main(d)))

Spec == Init /\ [][Next]_vars /\ Fairness

-----------------------------------------------------------------------------
(* Properties.                                                             *)

Positions == {"idle", "acquiring", "busy", "leased", "open", "dropping", "closing"}
TypeOK ==
  /\ running \subseteq Daemons \cup Tools /\ guarded \subseteq running \cap Daemons
  /\ pc \in [Threads -> Positions]
  /\ run \in Values /\ saved \in BOOLEAN
  /\ latch \in [Daemons -> BOOLEAN]
  /\ task \in [Daemons -> Booting \cup {"none", "set", "clear", "wasSet", "wasCleared"}]
  /\ tick \in [Daemons -> States \cup {NoTick}]
  /\ moved \in [Daemons -> BOOLEAN] /\ removed \in BOOLEAN /\ shared \in BOOLEAN

(* The threads that have the lease or are about to give it back. *)
Holders == {t \in Threads : pc[t] \in {"leased", "open", "dropping", "closing"}}

Shared == INSTANCE Lease WITH
  owner <- {t[1] : t \in Holders},
  open <- {t \in Threads : pc[t] = "open"}

(* The processes keep the promise of Lease however their threads share,    *)
(* drop and take it, and although a second daemon may run where the        *)
(* single-instance object failed: handles of the mouse that are open at    *)
(* once are of one process, and the last is closed before the lease goes   *)
(* on to another (lib.rs:118-136, 294-298; process_lease.rs:4-7).          *)
ImplementsLease == Shared!LeaseSpec

(* While nobody else writes the Run value, the tray's tick is what it says *)
(* or admits that it could not be read, also after a write that failed     *)
(* (daemon.rs:370-373).                                                    *)
TickIsRead ==
  \A d \in running \cap Daemons :
    ~moved[d] /\ task[d] = "none" => tick[d] \in Registrations

(* A registration that the user removed, after the first run had made its  *)
(* one request, stays removed through every restart, failed save, failed   *)
(* read and reload, unless the user asks for it (daemon.rs:419-427,        *)
(* 437-442).  Two daemons at once can undo each other's latch, and a       *)
(* removal in the middle of a start can be overwritten by its refresh.     *)
RemovalIsRespected == removed /\ ~shared => run = "absent"

(* A daemon that retries while nobody else has the mouse, or tries to,     *)
(* gets the lease: no refused attempt and no last handle on its way out    *)
(* keeps it for good (process_lease.rs:4-7).                               *)
LeaseComesBack ==
  \A d \in Daemons :
    <>[](\A t \in Threads \ {Main(d)} : pc[t] = "idle") =>
      []<>(d \notin running \/ pc[Main(d)] \in {"leased", "open", "dropping", "closing"})
=============================================================================
