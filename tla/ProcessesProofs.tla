----------------------------- MODULE ProcessesProofs -----------------------------
(***************************************************************************)
(* Proofs about Processes, for any number of daemons, runs of charmctl and *)
(* threads.                                                                *)
(***************************************************************************)
EXTENDS Processes, TLAPS

(* TypeOK is inductive. *)
LEMMA TypeStep == TypeOK /\ [Next]_vars => TypeOK'
<1> SUFFICES ASSUME TypeOK, [Next]_vars PROVE TypeOK'
  OBVIOUS
<1> USE DEF TypeOK, Positions, Booting, startup
<1>1. ASSUME NEW t \in Threads, Upgrade(t) PROVE TypeOK'
  BY <1>1 DEF Upgrade
<1>2. ASSUME NEW t \in Threads, Acquire(t) PROVE TypeOK'
  BY <1>2 DEF Acquire
<1>3. ASSUME NEW t \in Threads, AcquireFails(t) PROVE TypeOK'
  BY <1>3 DEF AcquireFails
<1>4. ASSUME NEW t \in Threads, Refuse(t) PROVE TypeOK'
  BY <1>4 DEF Refuse
<1>5. ASSUME NEW t \in Threads, OpenDevice(t) PROVE TypeOK'
  <2>1. pc' \in [Threads -> Positions]
    BY <1>5 DEF OpenDevice
  <2>2. tick' \in [Daemons -> States \cup {NoTick}] /\ moved' \in [Daemons -> BOOLEAN]
    BY <1>5 DEF OpenDevice, Reads, Registrations, Seen, States, Values
  <2> QED
    BY <1>5, <2>1, <2>2 DEF OpenDevice
<1>6. ASSUME NEW t \in Threads, CloseDevice(t) PROVE TypeOK'
  BY <1>6 DEF CloseDevice
<1>7. ASSUME NEW t \in Threads, DropLease(t) PROVE TypeOK'
  BY <1>7 DEF DropLease
<1>8. ASSUME NEW t \in Threads, CloseHandle(t) PROVE TypeOK'
  BY <1>8 DEF CloseHandle
<1>9. ASSUME NEW d \in Daemons, StartDaemon(d) PROVE TypeOK'
  <2>1. guarded' \subseteq running' \cap Daemons
    BY <1>9 DEF StartDaemon
  <2>2. latch' \in [Daemons -> BOOLEAN]
    BY <1>9 DEF StartDaemon
  <2>3. shared' \in BOOLEAN
    BY <1>9 DEF StartDaemon
  <2> QED
    BY <1>9, <2>1, <2>2, <2>3 DEF StartDaemon
<1>10. ASSUME NEW d \in Daemons, BootPlan(d) PROVE TypeOK'
  BY <1>10 DEF BootPlan, Plan, Registrations, Seen, Values
<1>11. ASSUME NEW d \in Daemons, BootRegister(d) PROVE TypeOK'
  BY <1>11 DEF BootRegister, Writes, Values
<1>12. ASSUME NEW d \in Daemons, BootSave(d) PROVE TypeOK'
  BY <1>12 DEF BootSave
<1>13. ASSUME NEW d \in Daemons, BootRefresh(d) PROVE TypeOK'
  BY <1>13 DEF BootRefresh
<1>14. ASSUME NEW d \in Daemons, BootRewrite(d) PROVE TypeOK'
  BY <1>14 DEF BootRewrite, Writes, Values
<1>15. ASSUME NEW d \in Daemons, BootMenu(d) PROVE TypeOK'
  BY <1>15 DEF BootMenu, Reads, Registrations, Seen, States, Values
<1>16. ASSUME NEW d \in Daemons, ToggleWrite(d) PROVE TypeOK'
  <2>1. run' \in Values /\ moved' \in [Daemons -> BOOLEAN]
    BY <1>16 DEF ToggleWrite, Writes, Values
  <2>2. removed' \in BOOLEAN
    BY <1>16 DEF ToggleWrite
  <2> QED
    BY <1>16, <2>1, <2>2 DEF ToggleWrite
<1>17. ASSUME NEW d \in Daemons, ToggleShow(d) PROVE TypeOK'
  BY <1>17 DEF ToggleShow, Reads, Registrations, Seen, States, Values
<1>18. ASSUME NEW d \in Daemons, Toggle(d) PROVE TypeOK'
  BY <1>18 DEF Toggle, Reads, Registrations, Seen, States, Values
<1>19. ASSUME NEW d \in Daemons, SaveConfig(d) PROVE TypeOK'
  BY <1>19 DEF SaveConfig
<1>20. ASSUME NEW d \in Daemons, Reload(d) PROVE TypeOK'
  BY <1>20 DEF Reload
<1>21. ASSUME NEW p \in Tools, StartTool(p) PROVE TypeOK'
  BY <1>21 DEF StartTool
<1>22. ASSUME NEW p \in Daemons \cup Tools, Exit(p) PROVE TypeOK'
  BY <1>22 DEF Exit
<1>23. ASSUME NEW value \in Values, Outside(value) PROVE TypeOK'
  <2>1. removed' \in BOOLEAN
    BY <1>23 DEF Outside
  <2> QED
    BY <1>23, <2>1 DEF Outside
<1>24. CASE UNCHANGED vars
  BY <1>24 DEF vars
<1> QED
  BY <1>1, <1>2, <1>3, <1>4, <1>5, <1>6, <1>7, <1>8, <1>9, <1>10, <1>11, <1>12, <1>13,
     <1>14, <1>15, <1>16, <1>17, <1>18, <1>19, <1>20, <1>21, <1>22, <1>23, <1>24
     DEF Next, ThreadStep, DaemonStep

LEMMA TypeInit == Init => TypeOK
BY DEF Init, TypeOK, Positions, Booting, States

(* Every variable keeps its range. *)
THEOREM TypeCorrect == Spec => []TypeOK
BY TypeInit, TypeStep, PTL DEF Spec

-----------------------------------------------------------------------------
(* The lease.  Whoever has the object, or is about to give it back, is of  *)
(* one process: a thread joins its own process's Arc, or creates the       *)
(* object when nobody has a handle of it.                                  *)

LeaseInv == \A t, u \in Holders : t[1] = u[1]

LEMMA LeaseStep == TypeOK /\ LeaseInv /\ [Next]_vars => LeaseInv'
<1> SUFFICES ASSUME TypeOK, LeaseInv, [Next]_vars PROVE LeaseInv'
  OBVIOUS
<1> USE DEF TypeOK, LeaseInv, Holders
<1>1. ASSUME NEW t \in Threads, Upgrade(t) PROVE LeaseInv'
  <2>1. CASE Sharing(t[1]) = {}
    BY <1>1, <2>1 DEF Upgrade
  <2>2. CASE Sharing(t[1]) # {}
    <3>1. PICK s \in Threads : s[1] = t[1] /\ pc[s] \in {"leased", "open", "dropping"}
      BY <2>2 DEF Sharing, ThreadsOf
    <3>2. \A u \in Holders : u[1] = t[1]
      BY <3>1
    <3>3. Holders' \subseteq Holders \cup {t}
      BY <1>1, <2>2 DEF Upgrade
    <3> QED
      BY <3>2, <3>3
  <2> QED
    BY <2>1, <2>2
<1>2. ASSUME NEW t \in Threads, Acquire(t) PROVE LeaseInv'
  <2>1. CASE Handles = {}
    <3>1. Holders = {}
      BY <2>1 DEF Handles
    <3>2. Holders' \subseteq {t}
      BY <1>2, <3>1 DEF Acquire
    <3> QED
      BY <3>2
  <2>2. CASE Handles # {}
    BY <1>2, <2>2 DEF Acquire
  <2> QED
    BY <2>1, <2>2
<1>3. ASSUME Holders' \subseteq Holders PROVE LeaseInv'
  BY <1>3
<1>4. ASSUME NEW t \in Threads,
             \/ AcquireFails(t) \/ Refuse(t) \/ OpenDevice(t)
             \/ CloseDevice(t) \/ DropLease(t) \/ CloseHandle(t)
      PROVE  Holders' \subseteq Holders
  <2>1. CASE OpenDevice(t)
    BY <2>1 DEF OpenDevice
  <2>2. CASE DropLease(t)
    BY <2>2 DEF DropLease
  <2>3. CASE AcquireFails(t) \/ Refuse(t) \/ CloseDevice(t) \/ CloseHandle(t)
    BY <2>3 DEF AcquireFails, Refuse, CloseDevice, CloseHandle
  <2> QED
    BY <1>4, <2>1, <2>2, <2>3
<1>5. ASSUME NEW p \in Daemons \cup Tools, Exit(p) PROVE Holders' \subseteq Holders
  BY <1>5 DEF Exit
<1>6. ASSUME UNCHANGED pc PROVE Holders' \subseteq Holders
  BY <1>6
<1>7. ASSUME NEW d \in Daemons, DaemonStep(d) PROVE UNCHANGED pc
  BY <1>7 DEF DaemonStep, BootPlan, BootRegister, BootSave, BootRefresh, BootRewrite,
     BootMenu, ToggleWrite, ToggleShow
<1>8. ASSUME NEW d \in Daemons, StartDaemon(d) \/ Toggle(d) \/ SaveConfig(d) \/ Reload(d)
      PROVE  UNCHANGED pc
  BY <1>8 DEF StartDaemon, Toggle, SaveConfig, Reload
<1>9. ASSUME NEW p \in Tools, StartTool(p) PROVE UNCHANGED pc
  BY <1>9 DEF StartTool
<1>10. ASSUME NEW value \in Values, Outside(value) PROVE UNCHANGED pc
  BY <1>10 DEF Outside
<1>11. CASE UNCHANGED vars
  BY <1>3, <1>6, <1>11 DEF vars
<1> QED
  BY <1>1, <1>2, <1>3, <1>4, <1>5, <1>6, <1>7, <1>8, <1>9, <1>10, <1>11
     DEF Next, ThreadStep

LEMMA LeaseHolds == Spec => [](TypeOK /\ LeaseInv)
<1>1. Init => LeaseInv
  BY DEF Init, LeaseInv, Holders
<1> QED
  BY <1>1, TypeInit, TypeStep, LeaseStep, PTL DEF Spec

(* A step that leaves the processes of the holders alone takes no part, or *)
(* opens or closes one handle.                                             *)
Owner == {t[1] : t \in Holders}
Opened == {t \in Threads : pc[t] = "open"}

LEMMA PromiseStep == TypeOK /\ LeaseInv /\ [Next]_vars => [Shared!LeaseNext]_(Shared!leaseVars)
<1> SUFFICES ASSUME TypeOK, LeaseInv, [Next]_vars PROVE [Shared!LeaseNext]_(Shared!leaseVars)
  OBVIOUS
<1> USE DEF TypeOK
<1>0. Opened \subseteq Holders
  BY DEF Opened, Holders
<1>1. ASSUME Owner' = Owner, Opened' = Opened PROVE UNCHANGED Shared!leaseVars
  BY <1>1 DEF Shared!leaseVars, Owner, Opened
<1>2. ASSUME NEW t \in Threads, Owner = {}, Owner' = {t[1]}, Opened' = Opened PROVE Shared!Take(t)
  BY <1>2 DEF Shared!Take, Owner, Opened
<1>3. ASSUME NEW t \in Threads, t[1] \in Owner, Owner' = Owner, Opened' = Opened \cup {t}
      PROVE  Shared!Open(t)
  BY <1>3 DEF Shared!Open, Owner, Opened
<1>4. ASSUME NEW t \in Threads, Owner' = Owner, Opened' = Opened \ {t} PROVE Shared!Close(t)
  BY <1>4 DEF Shared!Close, Owner, Opened
<1>5. ASSUME Opened = {}, Owner' = {}, Opened' = {} PROVE Shared!GiveUp
  BY <1>5 DEF Shared!GiveUp, Owner, Opened
<1>6. ASSUME Owner' = {}, Opened' = {} PROVE Shared!End
  BY <1>6 DEF Shared!End, Owner, Opened
<1>7. ASSUME Holders' = Holders PROVE Owner' = Owner
  BY <1>7 DEF Owner
<1>8. ASSUME NEW t \in Threads, Upgrade(t) PROVE UNCHANGED Shared!leaseVars
  <2>1. Opened' = Opened
    BY <1>8 DEF Upgrade, Opened
  <2>2. CASE Sharing(t[1]) = {}
    <3>1. Holders' = Holders
      BY <1>8, <2>2 DEF Upgrade, Holders
    <3> QED
      BY <1>1, <1>7, <2>1, <3>1
  <2>3. CASE Sharing(t[1]) # {}
    <3>1. PICK s \in Threads : s[1] = t[1] /\ pc[s] \in {"leased", "open", "dropping"}
      BY <2>3 DEF Sharing, ThreadsOf
    <3>2. s \in Holders /\ Holders' = Holders \cup {t}
      BY <1>8, <2>3, <3>1 DEF Upgrade, Holders
    <3>3. Owner' = Owner
      BY <3>1, <3>2 DEF Owner
    <3> QED
      BY <1>1, <2>1, <3>3
  <2> QED
    BY <2>2, <2>3
<1>9. ASSUME NEW t \in Threads, Acquire(t) PROVE Shared!Take(t) \/ UNCHANGED Shared!leaseVars
  <2>1. Opened' = Opened
    BY <1>9 DEF Acquire, Opened
  <2>2. CASE Handles = {}
    <3>1. Holders = {}
      BY <2>2 DEF Handles, Holders
    <3>2. Holders' = {t}
      BY <1>9, <2>2, <3>1 DEF Acquire, Holders
    <3>3. Owner = {} /\ Owner' = {t[1]}
      BY <3>1, <3>2 DEF Owner
    <3> QED
      BY <1>2, <2>1, <3>3
  <2>3. CASE Handles # {}
    <3>1. Holders' = Holders
      BY <1>9, <2>3 DEF Acquire, Holders
    <3> QED
      BY <1>1, <1>7, <2>1, <3>1
  <2> QED
    BY <2>2, <2>3
<1>10. ASSUME NEW t \in Threads, AcquireFails(t) \/ Refuse(t) PROVE UNCHANGED Shared!leaseVars
  <2>1. Holders' = Holders /\ Opened' = Opened
    BY <1>10 DEF AcquireFails, Refuse, Holders, Opened
  <2> QED
    BY <1>1, <1>7, <2>1
<1>11. ASSUME NEW t \in Threads, OpenDevice(t)
       PROVE  Shared!Open(t) \/ UNCHANGED Shared!leaseVars
  <2>1. t \in Holders /\ Holders' = Holders
    BY <1>11 DEF OpenDevice, Holders
  <2>2. t[1] \in Owner /\ Owner' = Owner
    BY <1>7, <2>1 DEF Owner
  <2>3. Opened' = Opened \cup {t} \/ Opened' = Opened
    BY <1>11 DEF OpenDevice, Opened
  <2> QED
    BY <1>1, <1>3, <2>2, <2>3
<1>12. ASSUME NEW t \in Threads, CloseDevice(t) PROVE Shared!Close(t)
  <2>1. Holders' = Holders /\ Opened' = Opened \ {t}
    BY <1>12 DEF CloseDevice, Holders, Opened
  <2> QED
    BY <1>4, <1>7, <2>1
<1>13. ASSUME NEW t \in Threads, DropLease(t) PROVE UNCHANGED Shared!leaseVars
  <2>1. Opened' = Opened
    BY <1>13 DEF DropLease, Opened
  <2>2. CASE Sharing(t[1]) = {t}
    <3>1. Holders' = Holders
      BY <1>13, <2>2 DEF DropLease, Holders
    <3> QED
      BY <1>1, <1>7, <2>1, <3>1
  <2>3. CASE Sharing(t[1]) # {t}
    <3>1. t \in Sharing(t[1])
      BY <1>13 DEF DropLease, Sharing, ThreadsOf
    <3>2. PICK s \in Sharing(t[1]) : s # t
      BY <2>3, <3>1
    <3>3. s \in Holders /\ s[1] = t[1] /\ t \in Holders
      BY <3>1, <3>2 DEF Sharing, ThreadsOf, Holders
    <3>4. Holders' = Holders \ {t}
      BY <1>13, <2>3 DEF DropLease, Holders
    <3>5. Owner' = Owner
      BY <3>2, <3>3, <3>4 DEF Owner
    <3> QED
      BY <1>1, <2>1, <3>5
  <2> QED
    BY <2>2, <2>3
<1>14. ASSUME NEW t \in Threads, CloseHandle(t)
       PROVE  Shared!GiveUp \/ UNCHANGED Shared!leaseVars
  <2>1. Holders' = Holders \ {t} /\ t \in Holders /\ Opened' = Opened /\ t \notin Opened
    BY <1>14 DEF CloseHandle, Holders, Opened
  <2>2. CASE Holders' = {}
    <3>1. Opened = {} /\ Owner' = {}
      BY <1>0, <2>1, <2>2 DEF Owner
    <3> QED
      BY <1>5, <2>1, <3>1
  <2>3. CASE Holders' # {}
    <3>1. PICK s \in Holders : s # t
      BY <2>1, <2>3
    <3>2. s[1] = t[1]
      BY <2>1 DEF LeaseInv
    <3>3. Owner' = Owner
      BY <2>1, <3>1, <3>2 DEF Owner
    <3> QED
      BY <1>1, <2>1, <3>3
  <2> QED
    BY <2>2, <2>3
<1>15. ASSUME NEW p \in Daemons \cup Tools, Exit(p)
       PROVE  Shared!End \/ UNCHANGED Shared!leaseVars
  <2>1. /\ Holders' = {t \in Holders : t[1] # p}
        /\ Opened' = {t \in Opened : t[1] # p}
    BY <1>15 DEF Exit, Holders, Opened
  <2>2. CASE \E t \in Holders : t[1] = p
    <3>1. Holders' = {} /\ Opened' = {}
      BY <1>0, <2>1, <2>2 DEF LeaseInv
    <3>2. Owner' = {}
      BY <3>1 DEF Owner
    <3> QED
      BY <1>6, <3>1, <3>2
  <2>3. CASE \A t \in Holders : t[1] # p
    <3>1. Holders' = Holders /\ Opened' = Opened
      BY <1>0, <2>1, <2>3
    <3> QED
      BY <1>1, <1>7, <3>1
  <2> QED
    BY <2>2, <2>3
<1>16. ASSUME UNCHANGED pc PROVE UNCHANGED Shared!leaseVars
  <2>1. Holders' = Holders /\ Opened' = Opened
    BY <1>16 DEF Holders, Opened
  <2> QED
    BY <1>1, <1>7, <2>1
<1>17. ASSUME NEW d \in Daemons,
              StartDaemon(d) \/ DaemonStep(d) \/ Toggle(d) \/ SaveConfig(d) \/ Reload(d)
       PROVE  UNCHANGED pc
  BY <1>17 DEF StartDaemon, DaemonStep, BootPlan, BootRegister, BootSave, BootRefresh,
     BootRewrite, BootMenu, ToggleWrite, ToggleShow, Toggle, SaveConfig, Reload
<1>18. ASSUME NEW p \in Tools, StartTool(p) PROVE UNCHANGED pc
  BY <1>18 DEF StartTool
<1>19. ASSUME NEW value \in Values, Outside(value) PROVE UNCHANGED pc
  BY <1>19 DEF Outside
<1>20. CASE UNCHANGED vars
  BY <1>16, <1>20 DEF vars
<1>21. ASSUME NEW t \in Threads,
              \/ Upgrade(t) \/ Acquire(t) \/ AcquireFails(t) \/ CloseDevice(t) \/ ThreadStep(t)
       PROVE  (\E u \in Threads : Shared!Take(u) \/ Shared!Open(u) \/ Shared!Close(u))
                \/ Shared!GiveUp \/ UNCHANGED Shared!leaseVars
  BY <1>8, <1>9, <1>10, <1>11, <1>12, <1>13, <1>14, <1>21 DEF ThreadStep
<1> QED
  BY <1>15, <1>16, <1>17, <1>18, <1>19, <1>20, <1>21 DEF Next, Shared!LeaseNext

(* The processes keep the promise of Lease, for any number of daemons,     *)
(* runs of charmctl and threads, and although two daemons may run          *)
(* (razer-hid/src/lib.rs:118-136, 294-298).                                *)
THEOREM ProcessesImplementLease == Spec => ImplementsLease
<1>1. Init => Shared!LeaseInit
  BY DEF Init, Shared!LeaseInit, Holders
<1> QED
  BY <1>1, PromiseStep, LeaseHolds, PTL DEF Spec, ImplementsLease, Shared!LeaseSpec

(* Of two processes at most one has handles of the mouse, and they are     *)
(* open only under the lease (razer-hid/src/lib.rs:118-136).               *)
OneController == \A t, u \in Threads : {pc[t], pc[u]} = {"open"} => t[1] = u[1]
THEOREM MouseHasOneController == Spec => []OneController
<1>1. TypeOK /\ LeaseInv => OneController
  BY DEF LeaseInv, Holders, OneController
<1> QED
  BY <1>1, LeaseHolds, PTL

-----------------------------------------------------------------------------
(* The tray's tick.  The property is inductive as it stands: who writes    *)
(* the Run value marks everybody else's tick, and shows his own only after *)
(* a read.                                                                 *)

LEMMA SeenRange == \A v \in Values : Seen(v) \in States
BY DEF Values, States, Seen

(* What a daemon plans at its start goes on to the menu. *)
LEMMA PlanRange ==
  ASSUME TypeOK, NEW b \in BOOLEAN, NEW state \in Registrations
  PROVE  /\ Plan(b, state) \in {"menu", "register", "refresh"}
         /\ run = "absent" /\ b => Plan(b, state) = "menu"
<1>1. state \in States /\ (run = "absent" => state \in {"Absent", "Unknown"})
  BY SeenRange DEF TypeOK, Registrations, States, Seen
<1> QED
  BY <1>1 DEF Plan, States

LEMMA TickStep == TypeOK /\ TickIsRead /\ [Next]_vars => TickIsRead'
<1> SUFFICES ASSUME TypeOK, TickIsRead, [Next]_vars,
                    NEW d \in Daemons, d \in running',
                    ~moved'[d], task'[d] = "none"
             PROVE  tick'[d] \in Registrations'
  BY DEF TickIsRead
<1> USE DEF TypeOK, TickIsRead, Booting
<1>1. ASSUME d \in running, ~moved[d], task[d] = "none", tick'[d] = tick[d], run' = run
      PROVE  tick'[d] \in Registrations'
  BY <1>1 DEF Registrations
<1>2. ASSUME NEW e \in Daemons, NEW state \in Registrations, Reads(e, state), run' = run,
             e # d => d \in running /\ task[d] = "none"
      PROVE  tick'[d] \in Registrations'
  <2>1. CASE e = d
    BY <1>2, <2>1 DEF Reads, Registrations
  <2>2. CASE e # d
    <3>1. ~moved[d] /\ tick'[d] = tick[d]
      BY <1>2, <2>2 DEF Reads
    <3> QED
      BY <1>1, <1>2, <2>2, <3>1
  <2> QED
    BY <2>1, <2>2
<1>3. ASSUME NEW e \in Daemons, NEW v, Writes(e, v), UNCHANGED <<running, tick>>,
             task'[e] # "none", e # d => task[d] = task'[d]
      PROVE  tick'[d] \in Registrations'
  <2>1. e # d
    BY <1>3
  <2>2. ~moved[d] /\ run' = run
    BY <1>3, <2>1 DEF Writes
  <2> QED
    BY <1>1, <1>3, <2>1, <2>2
<1>4. ASSUME NEW t \in Threads, OpenDevice(t) PROVE tick'[d] \in Registrations'
  <2>1. UNCHANGED <<running, run, task>>
    BY <1>4 DEF OpenDevice
  <2>2. CASE UNCHANGED <<tick, moved>>
    BY <1>1, <2>1, <2>2
  <2>3. ASSUME NEW state \in Registrations, t[1] \in Daemons, Reads(t[1], state)
        PROVE  tick'[d] \in Registrations'
    BY <1>2, <2>1, <2>3
  <2> QED
    BY <1>4, <2>2, <2>3 DEF OpenDevice
<1>5. ASSUME NEW t \in Threads,
             \/ Upgrade(t) \/ Acquire(t) \/ AcquireFails(t) \/ Refuse(t)
             \/ CloseDevice(t) \/ DropLease(t) \/ CloseHandle(t)
      PROVE  tick'[d] \in Registrations'
  <2>1. UNCHANGED <<running, startup>>
    BY <1>5 DEF Upgrade, Acquire, AcquireFails, Refuse, CloseDevice, DropLease, CloseHandle
  <2> QED
    BY <1>1, <2>1 DEF startup
<1>6. ASSUME NEW e \in Daemons, StartDaemon(e) PROVE tick'[d] \in Registrations'
  <2>1. e # d
    BY <1>6 DEF StartDaemon
  <2> QED
    BY <1>1, <1>6, <2>1 DEF StartDaemon
<1>7. ASSUME NEW e \in Daemons,
             BootPlan(e) \/ BootSave(e) \/ BootRefresh(e) \/ SaveConfig(e) \/ Reload(e)
      PROVE  tick'[d] \in Registrations'
  <2>1. UNCHANGED <<running, run, tick, moved>>
    BY <1>7 DEF BootPlan, BootSave, BootRefresh, SaveConfig, Reload
  <2>2. task[d] = "none"
    <3>1. CASE BootPlan(e)
      <4>1. PICK state \in Registrations : task' = [task EXCEPT ![e] = Plan(latch[e], state)]
        BY <3>1 DEF BootPlan
      <4>2. Plan(latch[e], state) # "none"
        BY <4>1, PlanRange
      <4> QED
        BY <4>1, <4>2
    <3>2. CASE BootSave(e) \/ BootRefresh(e) \/ SaveConfig(e) \/ Reload(e)
      BY <3>2 DEF BootSave, BootRefresh, SaveConfig, Reload
    <3> QED
      BY <1>7, <3>1, <3>2
  <2> QED
    BY <1>1, <2>1, <2>2
<1>8. ASSUME NEW e \in Daemons, BootRegister(e) PROVE tick'[d] \in Registrations'
  BY <1>3, <1>8 DEF BootRegister
<1>9. ASSUME NEW e \in Daemons, BootRewrite(e) PROVE tick'[d] \in Registrations'
  <2>1. task'[e] = "menu" /\ (e # d => task[d] = task'[d])
    BY <1>9 DEF BootRewrite
  <2> QED
    BY <1>3, <1>9, <2>1 DEF BootRewrite
<1>10. ASSUME NEW e \in Daemons, BootMenu(e) PROVE tick'[d] \in Registrations'
  <2>1. e # d => d \in running /\ task[d] = "none"
    BY <1>10 DEF BootMenu
  <2> QED
    BY <1>2, <1>10, <2>1 DEF BootMenu
<1>11. ASSUME NEW e \in Daemons, ToggleWrite(e) PROVE tick'[d] \in Registrations'
  <2>1. task'[e] # "none" /\ (e # d => task[d] = task'[d])
    BY <1>11 DEF ToggleWrite
  <2> QED
    BY <1>3, <1>11, <2>1 DEF ToggleWrite
<1>12. ASSUME NEW e \in Daemons, ToggleShow(e) PROVE tick'[d] \in Registrations'
  <2>1. e # d => d \in running /\ task[d] = "none"
    BY <1>12 DEF ToggleShow
  <2> QED
    BY <1>2, <1>12, <2>1 DEF ToggleShow
<1>13. ASSUME NEW e \in Daemons, Toggle(e) PROVE tick'[d] \in Registrations'
  <2>0. UNCHANGED <<running, run>>
    BY <1>13 DEF Toggle
  <2>1. PICK state \in Registrations :
          CASE state = "Unknown" -> Reads(e, state) /\ UNCHANGED task
            [] state = "Registered" ->
                 task' = [task EXCEPT ![e] = "clear"] /\ UNCHANGED <<tick, moved>>
            [] state = "Absent" ->
                 task' = [task EXCEPT ![e] = "set"] /\ UNCHANGED <<tick, moved>>
    BY <1>13 DEF Toggle
  <2>2. state \in States
    BY SeenRange DEF Registrations, States
  <2>3. CASE state = "Unknown"
    BY <1>2, <2>0, <2>1, <2>3
  <2>4. CASE state = "Registered"
    BY <1>1, <2>0, <2>1, <2>4
  <2>5. CASE state = "Absent"
    BY <1>1, <2>0, <2>1, <2>5
  <2> QED
    BY <2>2, <2>3, <2>4, <2>5 DEF States
<1>14. ASSUME NEW p \in Tools, StartTool(p) PROVE tick'[d] \in Registrations'
  <2>1. UNCHANGED startup /\ running' = running \cup {p}
    BY <1>14 DEF StartTool
  <2> QED
    BY <1>1, <2>1, ProcessesAssumption DEF startup
<1>15. ASSUME NEW p \in Daemons \cup Tools, Exit(p) PROVE tick'[d] \in Registrations'
  <2>1. d # p
    BY <1>15 DEF Exit
  <2>2. tick'[d] = tick[d] /\ task'[d] = task[d] /\ UNCHANGED <<run, moved>>
    BY <1>15, <2>1 DEF Exit
  <2> QED
    BY <1>1, <1>15, <2>2 DEF Exit
<1>16. ASSUME NEW value \in Values, Outside(value) PROVE tick'[d] \in Registrations'
  BY <1>16 DEF Outside
<1>17. CASE UNCHANGED vars
  BY <1>1, <1>17 DEF vars
<1> QED
  BY <1>4, <1>5, <1>6, <1>7, <1>8, <1>9, <1>10, <1>11, <1>12, <1>13, <1>14, <1>15, <1>16, <1>17
     DEF Next, ThreadStep, DaemonStep

(* The tray's tick is what the Run value says, or admits that it could not *)
(* be read, unless somebody else wrote (daemon.rs:370-373).                *)
THEOREM TickTellsTheRead == Spec => []TickIsRead
<1>1. Init => TickIsRead
  BY DEF Init, TickIsRead
<1> QED
  BY <1>1, TypeInit, TypeStep, TickStep, PTL DEF Spec

-----------------------------------------------------------------------------
(* The removal.  While two daemons have never run at once, the file's      *)
(* latch is known to whichever daemon runs, so that a removal which came   *)
(* after it was saved finds nobody who would register again.               *)

Alone ==
  ~shared => /\ \A d, e \in running \cap Daemons : d = e
             /\ \A d \in running \cap Daemons : saved => latch[d]
RemovalInv ==
  /\ \A d \in Daemons : task[d] # "none" => d \in running
  /\ \A d \in Daemons : task[d] = "save" => latch[d]
  /\ Alone
  /\ removed /\ ~shared =>
       saved /\ run = "absent" /\ \A d \in Daemons : task[d] \notin {"register", "rewrite"}

LEMMA RemovalStep == TypeOK /\ RemovalInv /\ [Next]_vars => RemovalInv'
<1> SUFFICES ASSUME TypeOK, RemovalInv, [Next]_vars PROVE RemovalInv'
  OBVIOUS
<1> USE DEF TypeOK, RemovalInv, Alone, Booting
<1>1. ASSUME UNCHANGED <<running, run, saved, latch, task, removed, shared>>
      PROVE  RemovalInv'
  BY <1>1
<1>2. ASSUME NEW t \in Threads,
             \/ Upgrade(t) \/ Acquire(t) \/ AcquireFails(t) \/ Refuse(t) \/ OpenDevice(t)
             \/ CloseDevice(t) \/ DropLease(t) \/ CloseHandle(t)
      PROVE  RemovalInv'
  BY <1>1, <1>2 DEF Upgrade, Acquire, AcquireFails, Refuse, OpenDevice, CloseDevice,
     DropLease, CloseHandle, startup
<1>3. ASSUME NEW d \in Daemons, StartDaemon(d) PROVE RemovalInv'
  <2>1. Alone'
    BY <1>3 DEF StartDaemon
  <2> QED
    BY <1>3, <2>1 DEF StartDaemon
<1>4. ASSUME NEW d \in Daemons, BootPlan(d) PROVE RemovalInv'
  <2>1. PICK state \in Registrations : task' = [task EXCEPT ![d] = Plan(latch[d], state)]
    BY <1>4 DEF BootPlan
  <2>2. /\ Plan(latch[d], state) \in {"menu", "register", "refresh"}
        /\ run = "absent" /\ latch[d] => Plan(latch[d], state) = "menu"
    BY <2>1, PlanRange
  <2>3. d \in running /\ UNCHANGED <<running, run, saved, latch, removed, shared>>
    BY <1>4 DEF BootPlan
  <2> QED
    BY <2>1, <2>2, <2>3
<1>5. ASSUME NEW d \in Daemons, BootRegister(d) PROVE RemovalInv'
  BY <1>5 DEF BootRegister, Writes
<1>6. ASSUME NEW d \in Daemons, BootSave(d) PROVE RemovalInv'
  BY <1>6 DEF BootSave
<1>7. ASSUME NEW d \in Daemons, BootRefresh(d) PROVE RemovalInv'
  BY <1>7 DEF BootRefresh
<1>8. ASSUME NEW d \in Daemons, BootRewrite(d) PROVE RemovalInv'
  BY <1>8 DEF BootRewrite, Writes
<1>9. ASSUME NEW d \in Daemons, BootMenu(d) PROVE RemovalInv'
  BY <1>9 DEF BootMenu
<1>10. ASSUME NEW d \in Daemons, ToggleWrite(d) PROVE RemovalInv'
  <2>1. \A e \in Daemons :
          (task'[e] \in {"wasSet", "wasCleared"} /\ d = e) \/ task'[e] = task[e]
    BY <1>10 DEF ToggleWrite
  <2>2. removed' => run' = "absent" /\ (removed \/ (saved /\ NobodyBoots))
    BY <1>10 DEF ToggleWrite
  <2>3. d \in running /\ UNCHANGED <<running, saved, latch, shared>>
    BY <1>10 DEF ToggleWrite
  <2> QED
    BY <2>1, <2>2, <2>3 DEF NobodyBoots
<1>11. ASSUME NEW d \in Daemons, ToggleShow(d) PROVE RemovalInv'
  BY <1>11 DEF ToggleShow
<1>12. ASSUME NEW d \in Daemons, Toggle(d) PROVE RemovalInv'
  <2>1. d \in running /\ UNCHANGED <<running, run, saved, latch, removed, shared>>
    BY <1>12 DEF Toggle, MayToggle
  <2>2. PICK state \in Registrations :
          CASE state = "Unknown" -> Reads(d, state) /\ UNCHANGED task
            [] state = "Registered" ->
                 task' = [task EXCEPT ![d] = "clear"] /\ UNCHANGED <<tick, moved>>
            [] state = "Absent" ->
                 task' = [task EXCEPT ![d] = "set"] /\ UNCHANGED <<tick, moved>>
    BY <1>12 DEF Toggle
  <2>3. state \in States
    BY SeenRange DEF Registrations, States
  <2>4. task' = task \/ \E v \in {"clear", "set"} : task' = [task EXCEPT ![d] = v]
    BY <2>2, <2>3 DEF States
  <2> QED
    BY <2>1, <2>4
<1>13. ASSUME NEW d \in Daemons, SaveConfig(d) PROVE RemovalInv'
  BY <1>13 DEF SaveConfig, MayToggle
<1>14. ASSUME NEW d \in Daemons, Reload(d) PROVE RemovalInv'
  BY <1>14 DEF Reload, MayToggle
<1>15. ASSUME NEW p \in Tools, StartTool(p) PROVE RemovalInv'
  BY <1>15, ProcessesAssumption DEF StartTool, startup
<1>16. ASSUME NEW p \in Daemons \cup Tools, Exit(p) PROVE RemovalInv'
  <2>1. \A e \in Daemons : task'[e] = "none" \/ (task'[e] = task[e] /\ e # p)
    BY <1>16 DEF Exit
  <2>2. running' = running \ {p} /\ UNCHANGED <<run, saved, latch, removed, shared>>
    BY <1>16 DEF Exit
  <2> QED
    BY <2>1, <2>2
<1>17. ASSUME NEW value \in Values, Outside(value) PROVE RemovalInv'
  <2>1. removed' => run' = "absent" /\ saved /\ NobodyBoots
    BY <1>17 DEF Outside
  <2>2. UNCHANGED <<running, saved, latch, task, shared>>
    BY <1>17 DEF Outside
  <2> QED
    BY <2>1, <2>2 DEF NobodyBoots
<1>18. CASE UNCHANGED vars
  BY <1>1, <1>18 DEF vars
<1> QED
  BY <1>2, <1>3, <1>4, <1>5, <1>6, <1>7, <1>8, <1>9, <1>10, <1>11, <1>12, <1>13, <1>14, <1>15,
     <1>16, <1>17, <1>18
     DEF Next, ThreadStep, DaemonStep

(* A registration the user removed stays removed (daemon.rs:419-427,       *)
(* 437-442), as long as two daemons never run at once.                     *)
THEOREM RemovalLasts == Spec => []RemovalIsRespected
<1>1. Init => RemovalInv
  BY DEF Init, RemovalInv, Alone
<1>2. RemovalInv => RemovalIsRespected
  BY DEF RemovalInv, RemovalIsRespected
<1> QED
  BY <1>1, <1>2, TypeInit, TypeStep, RemovalStep, PTL DEF Spec
=============================================================================
