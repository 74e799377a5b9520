--------------------------- MODULE ConfigStoreProofs ---------------------------
(***************************************************************************)
(* Proofs about ConfigStore, for every keymap, every pair of parsers and   *)
(* every table of mice that its assumptions allow.  The first lemmas say   *)
(* what the operators of Onboard return; the invariants follow.            *)
(***************************************************************************)
EXTENDS ConfigStore, TLAPS

-----------------------------------------------------------------------------
(* What the operators return.                                              *)

(* A bind the parser makes for a writable button can be stored. *)
LEMMA ParseKnown ==
  ASSUME NEW b \in Writable, NEW t \in Texts, ParseBind(t, b) # NotBind
  PROVE  ParseBind(t, b) \in Known
BY KeymapAssumption DEF ParseBind

(* What an approved entry asks for is what write_binding_report takes. *)
LEMMA EntryAllowed ==
  ASSUME NEW k \in Keys, NEW t \in Texts, EntryOk(k, t)
  PROVE  /\ ButtonOf[k] \in Buttons /\ ParseBind(t, ButtonOf[k]) \in Binds
         /\ WriteAllowed(ButtonOf[k], ParseBind(t, ButtonOf[k]))
BY ParseKnown, KeymapAssumption DEF EntryOk, WriteAllowed

LEMMA TableFacts ==
  ASSUME NEW tab \in Tables
  PROVE  DOMAIN tab \subseteq Keys /\ \A k \in DOMAIN tab : tab[k] \in Texts
BY DEF Tables

LEMMA WantsAllowed ==
  ASSUME NEW tab \in Tables, TableOk(tab)
  PROVE  /\ Wants(tab) \subseteq Pairs
         /\ \A w \in Wants(tab) : WriteAllowed(w.button, w.bind)
<1> SUFFICES ASSUME NEW k \in DOMAIN tab,
                    NEW w, w = [button |-> ButtonOf[k],
                                bind   |-> ParseBind(tab[k], ButtonOf[k])]
             PROVE  w \in Pairs /\ WriteAllowed(w.button, w.bind)
  BY DEF Wants
<1> QED BY EntryAllowed, TableFacts DEF TableOk, Pairs

(* The default of a writable button may always be written back to it. *)
LEMMA DefaultAllowed ==
  ASSUME NEW b \in Writable
  PROVE  b \in Buttons /\ Default[b] \in Binds /\ WriteAllowed(b, Default[b])
BY KeymapAssumption DEF WriteAllowed, RebindsMain

LEMMA WithoutTable ==
  ASSUME NEW tab \in Tables, NEW b
  PROVE  Without(tab, b) \in Tables /\ (TableOk(tab) => TableOk(Without(tab, b)))
<1> DEFINE K == {j \in DOMAIN tab : ButtonOf[j] # b}
<1>1. K \in SUBSET Keys /\ \A k \in K : k \in DOMAIN tab /\ tab[k] \in Texts
  BY TableFacts
<1>2. Without(tab, b) \in [K -> Texts]
  BY <1>1 DEF Without
<1>3. TableOk(tab) => TableOk(Without(tab, b))
  BY <1>1 DEF Without, TableOk
<1> QED BY <1>1, <1>2, <1>3 DEF Tables

LEMMA SetEntryTable ==
  ASSUME NEW tab \in Tables, NEW b \in Buttons, NEW t \in Texts
  PROVE  /\ SetEntry(tab, b, t) \in Tables
         /\ TableOk(tab) /\ EntryOk(KeyOf[b], t) => TableOk(SetEntry(tab, b, t))
<1>1. Without(tab, b) \in Tables /\ KeyOf[b] \in Keys
  BY WithoutTable, KeymapAssumption
<1>2. SetEntry(tab, b, t) \in Tables
  <2> DEFINE K == DOMAIN Without(tab, b) \cup {KeyOf[b]}
  <2>1. K \in SUBSET Keys /\ \A k \in K : k # KeyOf[b] => tab[k] \in Texts
    BY <1>1, TableFacts DEF Without
  <2>2. SetEntry(tab, b, t) \in [K -> Texts]
    BY <2>1 DEF SetEntry
  <2> QED BY <2>1, <2>2 DEF Tables
<1>3. TableOk(tab) /\ EntryOk(KeyOf[b], t) => TableOk(SetEntry(tab, b, t))
  BY DEF TableOk, SetEntry, Without
<1> QED BY <1>2, <1>3

(* Migration makes a configuration of a configuration. *)
LEMMA MigrateConfig ==
  ASSUME NEW c \in Configs, NEW m \in Mice
  PROVE  Migrate(c, m) \in Configs
<1>1. c.onboard \in Tables /\ c.thumb \in [Thumbs -> Texts]
  BY DEF Configs
<1>2. MigrateThumb(c.onboard, c.thumb) \in [Thumbs -> Texts]
  BY <1>1, KeymapAssumption DEF MigrateThumb
<1>3. MigrateTable(c.onboard, c.thumb) \in Tables
  <2> DEFINE M == Moved(c.onboard, c.thumb)
             K == DOMAIN c.onboard \cup {KeyOf[b] : b \in M}
  <2>1. M \subseteq Thumbs /\ \A b \in M : KeyOf[b] \in Keys /\ ButtonOf[KeyOf[b]] = b
    BY KeymapAssumption DEF Moved, Remapped
  <2>2. K \in SUBSET Keys
    BY <1>1, <2>1, TableFacts
  <2>3. MigrateTable(c.onboard, c.thumb) \in [K -> Texts]
    BY <1>1, <2>1, <2>2, TableFacts DEF MigrateTable
  <2> QED BY <2>2, <2>3 DEF Tables
<1> QED BY <1>1, <1>2, <1>3 DEF Migrate, Configs

(* So does a change of one setting. *)
LEMMA ChangedConfig ==
  ASSUME NEW c \in Configs
  PROVE  /\ \A r \in Registers, v \in Values \cup {Keep} :
              [c EXCEPT !.reg[r] = v] \in Configs
         /\ \A b \in Thumbs, t \in Texts : [c EXCEPT !.thumb[b] = t] \in Configs
         /\ \A tab \in Tables : [c EXCEPT !.onboard = tab] \in Configs
BY DEF Configs

-----------------------------------------------------------------------------
(* Types, and where the main thread may be.                                *)

Flags == migrated \in BOOLEAN /\ apart \in BOOLEAN /\ latched \in BOOLEAN

(* The places where a mouse is open. *)
Open == \/ phase \in {"consider", "apply", "write", "applied", "listen", "loop"}
        \/ phase = "save" /\ save.next # "waiting"

(* Where saves lead, and who comes to consider and to commit. *)
PhaseInv ==
  /\ Open => mouse \in Mice
  /\ phase = "save" =>
       \/ save.next = "waiting" /\ save.failed = "over"
       \/ save.next \in {"loop", "listen"} /\ save.failed = save.next
       \/ save.next = "consider" /\ save.failed = "loop" /\ job = "reload"
  /\ phase \in {"consider", "applied"} => job # "command"
  /\ phase \in {"apply", "write", "applied"} /\ job # "command" => Valid(cand, mouse)

(* What is still to be written is what write_binding_report takes. *)
WriteInv ==
  /\ \A w \in wants : WriteAllowed(w.button, w.bind)
  /\ phase = "write" => hand \in wants
  /\ notice \in {"resetting", "writing"} => left \subseteq Writable
  /\ notice = "writing" => target \in Writable

BaseInv == TypeOK /\ PhaseInv /\ WriteInv

LEMMA FlagStep == TypeOK /\ [Next]_vars => Flags'
<1> SUFFICES ASSUME TypeOK, [Next]_vars PROVE Flags'
  OBVIOUS
<1> USE DEF vars, main, work, disk, device, reset, Next, Main, Notice, Clicks,
        Load, Create, LoadRefused, WriteTemp, FlushTemp, Replace, SaveFails, HandEdit,
        Attach, Consider, Forget, Reject, ApplyRegister, ReadBind, WriteBind,
        CommandFails, CheckOnboard, CheckNothing, Commit, Listen, NoListener,
        SetRegister, KeepRegister, SetThumb, SetOnboard, OnboardSet, ClearOnboard,
        SaveNow, Reload, LoopStops, Declined, Accepted, ResetReads, ResetPlan,
        ResetRereads, ResetWrites, ResetDone, ResetFails, Restart
<1>1. migrated' \in {migrated, FALSE} \/ Consider
  OBVIOUS
<1>2. Consider => migrated' \in BOOLEAN
  OBVIOUS
<1>3. apart' \in {apart, TRUE, FALSE}
  OBVIOUS
<1>4. latched' \in {latched, TRUE, FALSE}
  OBVIOUS
<1> QED BY <1>1, <1>2, <1>3, <1>4 DEF TypeOK, Flags

(* A pair that may be written has a button and a bind. *)
LEMMA AllowedPair ==
  ASSUME NEW b, NEW x, WriteAllowed(b, x)
  PROVE  b \in Buttons /\ x \in Binds
BY KeymapAssumption DEF WriteAllowed

(* TypeOK without the flags. *)
Data ==
  /\ phase \in Phases /\ job \in {"start", "reload", "command"}
  /\ mouse \in Mice \cup {NoMouse}
  /\ cfg \in Configs /\ cand \in Configs
  /\ regs \subseteq Registers /\ wants \subseteq Pairs
  /\ hand \in Pairs \cup {Absent}
  /\ save \in [what : Configs \cup {Absent}, next : Phases, failed : Phases]
  /\ temp \in Configs \cup {Absent, Torn}
  /\ file \in Configs \cup {Missing, Malformed}
  /\ sent \in [Registers -> Values \cup {Keep}]
  /\ stored \in [Buttons -> Binds]
  /\ notice \in {"none", "asking", "reading", "resetting", "writing", "told"}
  /\ spares \subseteq Buttons /\ read \in Nat /\ left \subseteq Buttons
  /\ target \in Buttons \cup {NoButton}
  /\ moves \in Nat

LEMMA DataIsType == (TypeOK <=> Data /\ Flags) /\ (TypeOK' <=> Data' /\ Flags')
BY DEF TypeOK, Data, Flags

LEMMA DataInit == Init => Data
BY StoreAssumption, KeymapAssumption DEF Init, Data, Phases, NoSave

LEMMA DataStep == BaseInv /\ [Next]_vars => Data'
<1> SUFFICES ASSUME BaseInv, [Next]_vars PROVE Data'
  OBVIOUS
<1>0. Data /\ PhaseInv /\ WriteInv
  BY DataIsType DEF BaseInv
<1> USE <1>0 DEF Data, Goto, Move, main, work, disk, device, reset
<1>1. CASE UNCHANGED vars
  BY <1>1 DEF vars
<1>2. CASE Load
  BY <1>2 DEF Load, Phases
<1>3. CASE Create
  BY <1>3, StoreAssumption DEF Create, Saving, Phases
<1>4. CASE LoadRefused
  BY <1>4 DEF LoadRefused, Phases
<1>5. CASE WriteTemp
  BY <1>5 DEF WriteTemp
<1>6. CASE FlushTemp
  BY <1>6 DEF FlushTemp
<1>7. CASE Replace
  BY <1>7 DEF Replace, Phases, NoSave
<1>8. CASE SaveFails
  BY <1>8 DEF SaveFails, Phases, NoSave
<1>9. ASSUME NEW m \in Mice, Attach(m) PROVE Data'
  BY <1>9 DEF Attach, Phases
<1>10. CASE Consider
  <2> DEFINE c == Migrate(cand, mouse)
  <2>1. mouse \in Mice
    BY <1>10 DEF Consider, PhaseInv, Open
  <2>2. c \in Configs
    BY <2>1, MigrateConfig
  <2>3. c.onboard \in Tables
    BY <2>2 DEF Configs
  <2>4. wants' \subseteq Pairs
    BY <1>10, <2>3, WantsAllowed DEF Consider, Valid
  <2>5. cand' = c /\ regs' \subseteq Registers /\ phase' = "apply"
    BY <1>10 DEF Consider
  <2>6. UNCHANGED <<job, mouse, cfg, hand, disk, device, reset, moves>>
    BY <1>10 DEF Consider
  <2> HIDE DEF c
  <2> QED BY <2>2, <2>4, <2>5, <2>6 DEF Phases
<1>11. CASE Reject
  BY <1>11, StoreAssumption DEF Reject, Forget, Phases
<1>12. CASE ApplyRegister
  <2>1. PICK r \in regs : sent' = [sent EXCEPT ![r] = cand.reg[r]] /\ regs' = regs \ {r}
    BY <1>12 DEF ApplyRegister
  <2>2. cand.reg[r] \in Values \cup {Keep}
    BY <2>1 DEF Configs
  <2> QED BY <1>12, <2>1, <2>2 DEF ApplyRegister
<1>13. CASE ReadBind
  BY <1>13 DEF ReadBind, Phases
<1>14. CASE WriteBind
  <2>1. hand.button \in Buttons /\ hand.bind \in Binds
    BY <1>14, AllowedPair DEF WriteBind
  <2> QED BY <1>14, <2>1 DEF WriteBind, Phases
<1>15. CASE CommandFails
  <2>1. phase = "write" => hand.button \in Buttons /\ hand.bind \in Binds
    BY <1>15 DEF WriteInv, Pairs
  <2>2. stored' \in [Buttons -> Binds]
    BY <1>15, <2>1 DEF CommandFails
  <2> QED BY <1>15, <2>2 DEF CommandFails, Phases
<1>16. CASE CheckOnboard
  <2>1. cand.onboard \in Tables /\ TableOk(cand.onboard)
    BY <1>16 DEF CheckOnboard, Checks, Done, PhaseInv, Valid, Configs
  <2>2. Managed(cand.onboard) \subseteq Buttons
    BY <2>1, TableFacts, EntryAllowed DEF Managed, TableOk
  <2> QED BY <1>16, <2>2 DEF CheckOnboard, Ask, Phases
<1>17. CASE CheckNothing
  BY <1>17 DEF CheckNothing, Phases
<1>18. CASE Commit
  BY <1>18, StoreAssumption DEF Commit, Committed, Forget, SaveConfig, Saving, Phases
<1>19. CASE Listen
  BY <1>19 DEF Listen, Phases
<1>20. CASE NoListener
  BY <1>20 DEF NoListener, Phases
<1>21. ASSUME NEW r \in Registers, NEW v \in Values, SetRegister(r, v) PROVE Data'
  <2>1. cfg' \in Configs
    BY <1>21, ChangedConfig DEF SetRegister
  <2> QED BY <1>21, <2>1 DEF SetRegister, SaveConfig, Saving, Phases
<1>22. ASSUME NEW r \in Registers, KeepRegister(r) PROVE Data'
  <2>1. cfg' \in Configs
    BY <1>22, ChangedConfig DEF KeepRegister
  <2> QED BY <1>22, <2>1 DEF KeepRegister, SaveConfig, Saving, Phases
<1>23. ASSUME NEW b \in Thumbs, NEW t \in Texts, SetThumb(b, t) PROVE Data'
  <2>1. cfg' \in Configs
    BY <1>23, ChangedConfig DEF SetThumb
  <2> QED BY <1>23, <2>1 DEF SetThumb, SaveConfig, Saving, Phases
<1>24. ASSUME NEW b \in Writable, NEW t \in Texts, SetOnboard(b, t) PROVE Data'
  <2>1. b \in Buttons /\ KeyOf[b] \in Keys /\ ButtonOf[KeyOf[b]] = b
    BY KeymapAssumption
  <2>2. SetEntry(cfg.onboard, b, t) \in Tables
    BY <2>1, SetEntryTable DEF Configs
  <2>3. cfg' \in Configs
    BY <1>24, <2>2, ChangedConfig DEF SetOnboard
  <2>4. ParseBind(t, b) \in Binds
    BY <1>24, <2>1, EntryAllowed DEF SetOnboard
  <2> QED BY <1>24, <2>1, <2>3, <2>4 DEF SetOnboard, Pairs, Phases
<1>25. CASE OnboardSet
  BY <1>25 DEF OnboardSet, Phases
<1>26. ASSUME NEW b \in Writable, ClearOnboard(b) PROVE Data'
  <2>1. Without(cfg.onboard, b) \in Tables
    BY WithoutTable DEF Configs
  <2>2. cfg' \in Configs
    BY <1>26, <2>1, ChangedConfig DEF ClearOnboard
  <2> QED BY <1>26, <2>2 DEF ClearOnboard
<1>27. CASE SaveNow
  BY <1>27 DEF SaveNow, SaveConfig, Saving, Phases
<1>28. CASE Reload
  BY <1>28, StoreAssumption DEF Reload, Saving, Phases
<1>29. CASE LoopStops
  BY <1>29 DEF LoopStops, Phases
<1>30. CASE Declined \/ Accepted \/ ResetPlan \/ ResetDone
  BY <1>30 DEF Declined, Accepted, ResetPlan, ResetDone
<1>31. CASE ResetReads
  <2>1. Order[read + 1] \in Buttons
    BY <1>31, StoreAssumption DEF ResetReads
  <2> QED BY <1>31, <2>1 DEF ResetReads
<1>32. CASE ResetRereads
  BY <1>32 DEF ResetRereads
<1>33. CASE ResetWrites
  BY <1>33, AllowedPair DEF ResetWrites
<1>34. CASE ResetFails
  <2>1. notice = "writing" => target \in Buttons /\ Default[target] \in Binds
    BY DefaultAllowed DEF WriteInv
  <2>2. stored' \in [Buttons -> Binds]
    BY <1>34, <2>1 DEF ResetFails
  <2> QED BY <1>34, <2>2 DEF ResetFails
<1>35. CASE Restart
  BY <1>35, StoreAssumption DEF Restart, Phases, NoSave
<1>36. ASSUME NEW e \in Edits, HandEdit(e) PROVE Data'
  BY <1>36, StoreAssumption DEF HandEdit
<1> QED
  BY <1>1, <1>2, <1>3, <1>4, <1>5, <1>6, <1>7, <1>8, <1>9, <1>10, <1>11, <1>12, <1>13,
     <1>14, <1>15, <1>16, <1>17, <1>18, <1>19, <1>20, <1>21, <1>22, <1>23, <1>24, <1>25,
     <1>26, <1>27, <1>28, <1>29, <1>30, <1>31, <1>32, <1>33, <1>34, <1>35, <1>36
     DEF Next, Main, Notice, Clicks

(* PhaseInv and WriteInv are kept by the few actions that touch them.      *)
LEMMA PhaseStep == BaseInv /\ [Next]_vars => PhaseInv'
<1> SUFFICES ASSUME BaseInv, [Next]_vars PROVE PhaseInv'
  OBVIOUS
<1>0. Data /\ PhaseInv
  BY DataIsType DEF BaseInv
<1> USE <1>0 DEF PhaseInv, Open, Goto, main, work, disk
<1>1. UNCHANGED <<phase, job, mouse, cand, save>> => PhaseInv'
  OBVIOUS
<1>2. CASE Load
  BY <1>2 DEF Load
<1>3. CASE Create
  BY <1>3 DEF Create, Saving
<1>4. CASE LoadRefused
  BY <1>4 DEF LoadRefused
<1>5. CASE Replace
  BY <1>5 DEF Replace
<1>6. CASE SaveFails
  BY <1>6 DEF SaveFails
<1>7. ASSUME NEW m \in Mice, Attach(m) PROVE PhaseInv'
  BY <1>7 DEF Attach
<1>8. CASE Consider
  BY <1>8 DEF Consider
<1>9. CASE Reject
  BY <1>9 DEF Reject
<1>10. CASE ReadBind
  BY <1>10 DEF ReadBind
<1>11. CASE WriteBind
  BY <1>11 DEF WriteBind
<1>12. CASE CommandFails
  BY <1>12 DEF CommandFails
<1>13. CASE CheckOnboard
  BY <1>13 DEF CheckOnboard, Checks, Done
<1>14. CASE CheckNothing
  BY <1>14 DEF CheckNothing, Done
<1>15. CASE Commit
  BY <1>15 DEF Commit, Committed, SaveConfig, Saving, Data
<1>16. CASE Listen
  BY <1>16 DEF Listen
<1>17. CASE NoListener
  BY <1>17 DEF NoListener
<1>18. ASSUME NEW r \in Registers, NEW v \in Values, SetRegister(r, v) PROVE PhaseInv'
  BY <1>18 DEF SetRegister, SaveConfig, Saving, Data
<1>19. ASSUME NEW r \in Registers, KeepRegister(r) PROVE PhaseInv'
  BY <1>19 DEF KeepRegister, SaveConfig, Saving, Data
<1>20. ASSUME NEW b \in Thumbs, NEW t \in Texts, SetThumb(b, t) PROVE PhaseInv'
  BY <1>20 DEF SetThumb, SaveConfig, Saving, Data
<1>21. ASSUME NEW b \in Writable, NEW t \in Texts, SetOnboard(b, t) PROVE PhaseInv'
  BY <1>21 DEF SetOnboard
<1>22. CASE OnboardSet
  BY <1>22 DEF OnboardSet, Done
<1>23. CASE SaveNow
  BY <1>23 DEF SaveNow, SaveConfig, Saving, Data
<1>24. CASE Reload
  BY <1>24 DEF Reload, Saving, Data
<1>25. CASE LoopStops
  BY <1>25 DEF LoopStops
<1>26. CASE Restart
  BY <1>26 DEF Restart
<1>27. CASE WriteTemp \/ FlushTemp \/ ApplyRegister \/ Notice \/ UNCHANGED vars
  BY <1>27, <1>1 DEF WriteTemp, FlushTemp, ApplyRegister, Notice, vars, Declined, Accepted,
     ResetReads, ResetPlan, ResetRereads, ResetWrites, ResetDone, ResetFails
<1>28. ASSUME NEW e \in Edits, HandEdit(e) PROVE PhaseInv'
  BY <1>28, <1>1 DEF HandEdit
<1>29. ASSUME NEW b \in Writable, ClearOnboard(b) PROVE PhaseInv'
  BY <1>29, <1>1 DEF ClearOnboard
<1> QED
  BY <1>2, <1>3, <1>4, <1>5, <1>6, <1>7, <1>8, <1>9, <1>10, <1>11, <1>12, <1>13, <1>14,
     <1>15, <1>16, <1>17, <1>18, <1>19, <1>20, <1>21, <1>22, <1>23, <1>24, <1>25, <1>26,
     <1>27, <1>28, <1>29 DEF Next, Main, Clicks

LEMMA WriteStep == BaseInv /\ [Next]_vars => WriteInv'
<1> SUFFICES ASSUME BaseInv, [Next]_vars PROVE WriteInv'
  OBVIOUS
<1>0. Data /\ PhaseInv /\ WriteInv
  BY DataIsType DEF BaseInv
<1> USE <1>0 DEF WriteInv, Goto, work, reset
<1>1. UNCHANGED <<wants, hand, notice, left, target>> /\ phase' # "write" => WriteInv'
  OBVIOUS
<1>2. UNCHANGED <<phase, wants, hand, notice, left, target>> => WriteInv'
  OBVIOUS
<1>3. CASE Consider
  <2> DEFINE c == Migrate(cand, mouse)
  <2>1. c \in Configs
    <3>1. mouse \in Mice /\ cand \in Configs
      BY <1>3 DEF Consider, PhaseInv, Open, Data
    <3> QED BY <3>1, MigrateConfig
  <2>2. c.onboard \in Tables
    BY <2>1 DEF Configs
  <2>3. \A w \in wants' : WriteAllowed(w.button, w.bind)
    BY <1>3, <2>2, WantsAllowed DEF Consider, Valid
  <2> QED BY <1>3, <2>3 DEF Consider
<1>4. CASE ReadBind
  BY <1>4 DEF ReadBind
<1>5. CASE WriteBind
  BY <1>5 DEF WriteBind
<1>6. CASE CheckOnboard
  BY <1>6 DEF CheckOnboard, Ask
<1>7. ASSUME NEW b \in Writable, NEW t \in Texts, SetOnboard(b, t) PROVE WriteInv'
  <2>1. b \in Buttons /\ KeyOf[b] \in Keys /\ ButtonOf[KeyOf[b]] = b
    BY KeymapAssumption
  <2>2. WriteAllowed(b, ParseBind(t, b))
    BY <1>7, <2>1, EntryAllowed DEF SetOnboard
  <2> QED BY <1>7, <2>2 DEF SetOnboard
<1>8. CASE ResetReads \/ Declined \/ Accepted
  BY <1>8 DEF ResetReads, Declined, Accepted, main
<1>9. CASE ResetPlan
  BY <1>9 DEF ResetPlan, main
<1>10. CASE ResetRereads
  BY <1>10 DEF ResetRereads, main
<1>11. CASE ResetWrites
  BY <1>11 DEF ResetWrites, main
<1>12. CASE ResetDone
  BY <1>12 DEF ResetDone, main
<1>13. CASE ResetFails
  BY <1>13 DEF ResetFails, main
<1>14. CASE Restart
  BY <1>14 DEF Restart
<1>15. CASE \/ Load \/ Create \/ LoadRefused \/ WriteTemp \/ FlushTemp \/ Replace \/ SaveFails
            \/ \E m \in Mice : Attach(m)
  BY <1>15, <1>1 DEF Load, Create, LoadRefused, WriteTemp, FlushTemp, Replace, SaveFails,
     Attach, Saving, PhaseInv, main
<1>16. CASE \/ Reject \/ CommandFails \/ CheckNothing \/ Commit \/ Listen \/ NoListener
            \/ OnboardSet \/ LoopStops
  BY <1>16, <1>1 DEF Reject, CommandFails, CheckNothing, Commit, Listen, NoListener,
     OnboardSet, LoopStops, Committed, SaveConfig, Saving
<1>17. CASE ApplyRegister \/ UNCHANGED vars
  BY <1>17, <1>2 DEF ApplyRegister, vars, main
<1>18. ASSUME NEW r \in Registers, NEW v \in Values, SetRegister(r, v) PROVE WriteInv'
  BY <1>18, <1>1 DEF SetRegister, SaveConfig, Saving
<1>19. ASSUME NEW r \in Registers, KeepRegister(r) PROVE WriteInv'
  BY <1>19, <1>1 DEF KeepRegister, SaveConfig, Saving
<1>20. ASSUME NEW b \in Thumbs, NEW t \in Texts, SetThumb(b, t) PROVE WriteInv'
  BY <1>20, <1>1 DEF SetThumb, SaveConfig, Saving
<1>21. CASE SaveNow
  BY <1>21, <1>1 DEF SaveNow, SaveConfig, Saving
<1>22. CASE Reload
  BY <1>22, <1>1 DEF Reload, Saving
<1>23. ASSUME NEW e \in Edits, HandEdit(e) PROVE WriteInv'
  BY <1>23, <1>2 DEF HandEdit, main
<1>24. ASSUME NEW b \in Writable, ClearOnboard(b) PROVE WriteInv'
  BY <1>24, <1>2 DEF ClearOnboard, main
<1> QED
  BY <1>3, <1>4, <1>5, <1>6, <1>7, <1>8, <1>9, <1>10, <1>11, <1>12, <1>13, <1>14, <1>15,
     <1>16, <1>17, <1>18, <1>19, <1>20, <1>21, <1>22, <1>23, <1>24
     DEF Next, Main, Notice, Clicks

THEOREM Base == Spec => []BaseInv
<1>1. Init => BaseInv
  <2>1. Init => TypeOK
    <3>1. Init => Flags
      BY DEF Init, Flags
    <3> QED BY <3>1, DataInit, DataIsType
  <2>2. Init => PhaseInv /\ WriteInv
    BY DEF Init, PhaseInv, Open, WriteInv
  <2> QED BY <2>1, <2>2 DEF BaseInv
<1>2. BaseInv /\ [Next]_vars => BaseInv'
  BY FlagStep, DataStep, PhaseStep, WriteStep, DataIsType DEF BaseInv
<1> QED BY <1>1, <1>2, PTL DEF Spec

(* Every reachable state is well typed. *)
THEOREM TypeCorrect == Spec => []TypeOK
<1>1. BaseInv => TypeOK
  BY DEF BaseInv
<1> QED BY <1>1, Base, PTL

(* No write is refused by write_binding_report: neither a bind the         *)
(* configuration asks for nor a default that the reset puts back.          *)
THEOREM WritesApproved == Spec => []WritesAreApproved
<1>1. BaseInv => WritesAreApproved
  BY DefaultAllowed DEF BaseInv, WriteInv, WritesAreApproved
<1> QED BY <1>1, Base, PTL

-----------------------------------------------------------------------------
(* The active configuration.                                               *)

(* The main thread works on behalf of a session that has begun. *)
InSession == \/ phase \in {"listen", "loop"}
             \/ phase = "save" /\ save.failed \in {"listen", "loop"}
             \/ phase \in {"consider", "apply", "write", "applied"} /\ job # "start"

ValidInv == InSession => Valid(cfg, mouse)

(* Changes of the window leave a valid configuration valid. *)
LEMMA ChangedValid ==
  ASSUME NEW c \in Configs, NEW m \in Mice, Valid(c, m)
  PROVE  /\ \A r \in Registers : \A v \in Takes[m][r] : Valid([c EXCEPT !.reg[r] = v], m)
         /\ \A r \in Optional : Valid([c EXCEPT !.reg[r] = Keep], m)
         /\ \A b \in Thumbs, t \in Texts :
              SoftOf[t] # NotAction => Valid([c EXCEPT !.thumb[b] = t], m)
         /\ \A tab \in Tables : TableOk(tab) => Valid([c EXCEPT !.onboard = tab], m)
BY StoreAssumption DEF Valid, Configs

LEMMA ValidStep == BaseInv /\ ValidInv /\ [Next]_vars => ValidInv'
<1> SUFFICES ASSUME BaseInv, ValidInv, [Next]_vars PROVE ValidInv'
  OBVIOUS
<1>0. Data /\ PhaseInv
  BY DataIsType DEF BaseInv
<1>a. cfg \in Configs /\ (InSession => mouse \in Mice)
  BY <1>0 DEF Data, PhaseInv, InSession, Open
<1> USE DEF ValidInv, InSession, Goto, main
<1>1. UNCHANGED <<phase, job, mouse, cfg, save>> => ValidInv'
  OBVIOUS
<1>2. UNCHANGED <<mouse, cfg>> /\ (InSession' => InSession) => ValidInv'
  OBVIOUS
<1>3. CASE Commit
  <2>1. Valid(cand, mouse)
    BY <1>0, <1>3 DEF Commit, PhaseInv
  <2> QED BY <1>3, <2>1 DEF Commit
<1>4. ASSUME NEW r \in Registers, NEW v \in Values, SetRegister(r, v) PROVE ValidInv'
  <2>1. Valid(cfg', mouse)
    BY <1>4, <1>a, ChangedValid DEF SetRegister
  <2> QED BY <1>4, <2>1 DEF SetRegister
<1>5. ASSUME NEW r \in Registers, KeepRegister(r) PROVE ValidInv'
  <2>1. Valid(cfg', mouse)
    BY <1>5, <1>a, ChangedValid DEF KeepRegister
  <2> QED BY <1>5, <2>1 DEF KeepRegister
<1>6. ASSUME NEW b \in Thumbs, NEW t \in Texts, SetThumb(b, t) PROVE ValidInv'
  <2>1. Valid(cfg', mouse)
    BY <1>6, <1>a, ChangedValid DEF SetThumb
  <2> QED BY <1>6, <2>1 DEF SetThumb
<1>7. ASSUME NEW b \in Writable, NEW t \in Texts, SetOnboard(b, t) PROVE ValidInv'
  <2>1. b \in Buttons /\ cfg.onboard \in Tables /\ TableOk(cfg.onboard)
    BY <1>7, <1>a, KeymapAssumption DEF SetOnboard, Valid, Configs
  <2>2. /\ SetEntry(cfg.onboard, b, t) \in Tables
        /\ TableOk(SetEntry(cfg.onboard, b, t))
    BY <1>7, <2>1, SetEntryTable DEF SetOnboard
  <2>3. Valid(cfg', mouse)
    BY <1>7, <1>a, <2>2, ChangedValid DEF SetOnboard
  <2> QED BY <1>7, <2>3 DEF SetOnboard
<1>8. ASSUME NEW b \in Writable, ClearOnboard(b) PROVE ValidInv'
  <2>1. cfg.onboard \in Tables /\ TableOk(cfg.onboard)
    BY <1>8, <1>a DEF ClearOnboard, Valid, Configs
  <2>2. Without(cfg.onboard, b) \in Tables /\ TableOk(Without(cfg.onboard, b))
    BY <2>1, WithoutTable
  <2>3. Valid(cfg', mouse)
    BY <1>8, <1>a, <2>2, ChangedValid DEF ClearOnboard
  <2> QED BY <1>8, <2>3 DEF ClearOnboard
<1>9. CASE Load \/ LoadRefused \/ Restart \/ NoListener
  BY <1>9 DEF Load, LoadRefused, Restart, NoListener
<1>10. CASE Create
  BY <1>10, <1>0 DEF Create, Saving, Data
<1>11. CASE WriteTemp \/ FlushTemp
  BY <1>11, <1>2 DEF WriteTemp, FlushTemp
<1>12. CASE Replace \/ SaveFails
  BY <1>12, <1>2, <1>0 DEF Replace, SaveFails, PhaseInv
<1>13. ASSUME NEW m \in Mice, Attach(m) PROVE ValidInv'
  BY <1>13 DEF Attach
<1>14. CASE Consider \/ Reject \/ ApplyRegister \/ ReadBind \/ WriteBind \/ CommandFails
  BY <1>14, <1>2, <1>0
     DEF Consider, Reject, ApplyRegister, ReadBind, WriteBind, CommandFails, Data
<1>15. CASE CheckOnboard \/ CheckNothing \/ Listen \/ OnboardSet \/ LoopStops
  BY <1>15, <1>2, <1>0
     DEF CheckOnboard, CheckNothing, Listen, OnboardSet, LoopStops, Checks, Done, Data
<1>16. CASE SaveNow \/ Reload
  BY <1>16, <1>2, <1>0 DEF SaveNow, Reload, SaveConfig, Saving, Data
<1>17. CASE Notice \/ UNCHANGED vars
  BY <1>17, <1>1 DEF Notice, vars, Declined, Accepted, ResetReads, ResetPlan, ResetRereads,
     ResetWrites, ResetDone, ResetFails, disk
<1>18. ASSUME NEW e \in Edits, HandEdit(e) PROVE ValidInv'
  BY <1>18, <1>1 DEF HandEdit
<1> QED
  BY <1>3, <1>4, <1>5, <1>6, <1>7, <1>8, <1>9, <1>10, <1>11, <1>12, <1>13, <1>14, <1>15,
     <1>16, <1>17, <1>18 DEF Next, Main, Clicks

(* The session loop runs on a configuration that its mouse accepts.        *)
THEOREM ActiveConfigIsValid == Spec => []ActiveIsValid
<1>1. Init => ValidInv
  BY DEF Init, ValidInv, InSession
<1>2. BaseInv /\ ValidInv /\ [Next]_vars => ValidInv'
  BY ValidStep
<1>3. ValidInv => ActiveIsValid
  BY DEF ValidInv, InSession, ActiveIsValid
<1> QED BY <1>1, <1>2, <1>3, Base, PTL DEF Spec

-----------------------------------------------------------------------------
(* The file.                                                               *)

(* The temporary file exists only during a save, and holds nothing else.   *)
TempInv ==
  /\ phase # "save" => temp = Absent
  /\ temp \in {Absent, Torn, save.what}

LEMMA TempStep == TempInv /\ [Next]_vars => TempInv'
<1> SUFFICES ASSUME TempInv, [Next]_vars PROVE TempInv'
  OBVIOUS
<1> USE DEF TempInv, Goto, main, disk
<1>1. UNCHANGED <<phase, save, temp>> => TempInv'
  OBVIOUS
<1>2. phase # "save" /\ UNCHANGED temp => TempInv'
  OBVIOUS
<1>3. CASE WriteTemp \/ FlushTemp \/ Replace \/ SaveFails
  BY <1>3 DEF WriteTemp, FlushTemp, Replace, SaveFails
<1>4. CASE \/ Load \/ Create \/ LoadRefused \/ Consider \/ Reject \/ ReadBind \/ WriteBind
           \/ CommandFails \/ CheckOnboard \/ CheckNothing \/ Commit \/ Listen \/ NoListener
           \/ LoopStops \/ OnboardSet \/ \E m \in Mice : Attach(m)
  BY <1>4, <1>2 DEF Load, Create, LoadRefused, Consider, Reject, ReadBind, WriteBind,
     CommandFails, CheckOnboard, CheckNothing, Commit, Listen, NoListener, LoopStops,
     OnboardSet, Done, Attach
<1>5. CASE Clicks
  BY <1>5, <1>2 DEF Clicks, SetRegister, KeepRegister, SetThumb, SetOnboard, ClearOnboard,
     SaveNow, Reload
<1>6. CASE ApplyRegister \/ Notice \/ UNCHANGED vars \/ \E e \in Edits : HandEdit(e)
  BY <1>6, <1>1 DEF ApplyRegister, HandEdit, Notice, vars, Declined, Accepted, ResetReads,
     ResetPlan, ResetRereads, ResetWrites, ResetDone, ResetFails
<1>7. CASE Restart
  BY <1>7 DEF Restart
<1> QED
  BY <1>3, <1>4, <1>5, <1>6, <1>7 DEF Next, Main

(* The program replaces its file only by the whole of what it is saving,   *)
(* in one step: no crash leaves a part of it.                              *)
THEOREM NoTornFile == Spec => OnlyWholeFiles
<1> DEFINE A == file' = file \/ (\E e \in Edits : HandEdit(e)) \/ file' = save.what
<1>1. Init => TempInv
  BY DEF Init, TempInv
<1>2. TempInv /\ [Next]_vars => TempInv'
  BY TempStep
<1>3. TempInv /\ [Next]_vars => [A]_vars
  <2> SUFFICES ASSUME TempInv, Next, ~A PROVE FALSE
    OBVIOUS
  <2>1. Replace => file' = save.what
    BY StoreAssumption DEF TempInv, Replace
  <2>2. ~Replace /\ ~(\E e \in Edits : HandEdit(e)) => file' = file
    BY DEF Next, Main, Notice, Clicks, disk, Load, Create, LoadRefused, WriteTemp,
       FlushTemp, SaveFails, Attach, Consider, Reject, ApplyRegister, ReadBind, WriteBind,
       CommandFails, CheckOnboard, CheckNothing, Commit, Listen, NoListener, SetRegister,
       KeepRegister, SetThumb, SetOnboard, OnboardSet, ClearOnboard, SaveNow, Reload,
       LoopStops, Declined, Accepted, ResetReads, ResetPlan, ResetRereads, ResetWrites,
       ResetDone, ResetFails, Restart
  <2> QED BY <2>1, <2>2
<1> QED BY <1>1, <1>2, <1>3, PTL DEF Spec, OnlyWholeFiles

(* Migration loses no software remap: it moves to the mouse under its text *)
(* or stays, unless the button already had an entry.                       *)
THEOREM NoRemapLost == Spec => RemapsSurvive
<1> DEFINE Kept(b) ==
      \/ b \in Managed(cand.onboard)
      \/ cand'.thumb[b] = cand.thumb[b]
      \/ (cand'.thumb[b] = NoneText /\ KeyOf[b] \in DOMAIN cand'.onboard
            /\ cand'.onboard[KeyOf[b]] = cand.thumb[b])
<1>1. TypeOK /\ Consider => \A b \in Thumbs : Kept(b)
  <2> SUFFICES ASSUME TypeOK, Consider, NEW b \in Thumbs, b \notin Managed(cand.onboard)
               PROVE  Kept(b)
    OBVIOUS
  <2>1. /\ cand \in Configs /\ cand' = Migrate(cand, mouse)
        /\ b \in Buttons /\ KeyOf[b] \in Keys /\ ButtonOf[KeyOf[b]] = b
    BY KeymapAssumption DEF TypeOK, Consider
  <2>2. KeyOf[b] \notin DOMAIN cand.onboard
    BY <2>1 DEF Managed
  <2>3. CASE ~HasKeymap(mouse)
    BY <2>1, <2>3 DEF Migrate
  <2>4. CASE HasKeymap(mouse)
    <3>1. /\ cand'.onboard = MigrateTable(cand.onboard, cand.thumb)
          /\ cand'.thumb = MigrateThumb(cand.onboard, cand.thumb)
      BY <2>1, <2>4 DEF Migrate, Configs
    <3>2. CASE b \in Moved(cand.onboard, cand.thumb)
      BY <3>1, <3>2, <2>1, <2>2 DEF MigrateTable, MigrateThumb
    <3>3. CASE b \notin Moved(cand.onboard, cand.thumb)
      BY <3>1, <3>3 DEF MigrateThumb
    <3> QED BY <3>2, <3>3
  <2> QED BY <2>3, <2>4
<1>2. TypeOK /\ [Next]_vars =>
        [Consider =>
           \A b \in Thumbs :
             b \in Managed(cand.onboard)
             \/ cand'.thumb[b] = cand.thumb[b]
             \/ (cand'.thumb[b] = NoneText /\ KeyOf[b] \in DOMAIN cand'.onboard
                   /\ cand'.onboard[KeyOf[b]] = cand.thumb[b])]_vars
  BY <1>1
<1> QED BY <1>2, TypeCorrect, PTL DEF Spec, RemapsSurvive

(* The file has the settings of c. *)
FileHas(c) == file \in Configs /\ file = [c EXCEPT !.onboard = file.onboard]

(* When that is cfg, and when it is the candidate. *)
HoldsCfg == \/ phase \in {"waiting", "listen", "loop"}
            \/ phase \in {"apply", "write"} /\ job = "command"
HoldsCand == \/ phase = "consider"
             \/ phase \in {"apply", "write", "applied"} /\ job # "command" /\ ~migrated

SavedInv ==
  /\ phase = "save" => save.what = IF save.next = "consider" THEN cand ELSE cfg
  /\ ~apart /\ HoldsCfg => FileHas(cfg)
  /\ ~apart /\ HoldsCand => FileHas(cand)

LEMMA SameSettings ==
  ASSUME NEW c \in Configs
  PROVE  /\ c = [c EXCEPT !.onboard = c.onboard]
         /\ \A tab : FileHas(c) => FileHas([c EXCEPT !.onboard = tab])
BY DEF Configs, FileHas

LEMMA SavedStep == BaseInv /\ TempInv /\ SavedInv /\ [Next]_vars => SavedInv'
<1> SUFFICES ASSUME BaseInv, TempInv, SavedInv, [Next]_vars PROVE SavedInv'
  OBVIOUS
<1>0. Data /\ PhaseInv
  BY DataIsType DEF BaseInv
<1>a. cfg \in Configs /\ cand \in Configs
  BY <1>0 DEF Data
<1> USE DEF SavedInv, HoldsCfg, HoldsCand, Goto, main, work, disk
<1>1. UNCHANGED <<phase, job, cfg, cand, migrated, save, file, apart>> => SavedInv'
  BY DEF FileHas
<1>2. /\ UNCHANGED <<cfg, cand, migrated, file, apart>> /\ phase' # "save"
      /\ (HoldsCfg' => HoldsCfg) /\ (HoldsCand' => HoldsCand)
      => SavedInv'
  BY DEF FileHas
<1>3. CASE Load
  <2>1. file \in Configs /\ cfg' = file /\ file' = file
    BY <1>3 DEF Load
  <2>2. FileHas(cfg)'
    BY <2>1, SameSettings DEF FileHas
  <2> QED BY <1>3, <2>2 DEF Load
<1>4. CASE Create \/ SaveNow
  BY <1>4 DEF Create, SaveNow, SaveConfig, Saving
<1>5. CASE Replace
  <2>1. temp = save.what /\ file' = save.what /\ save.what \in Configs
    BY <1>5, StoreAssumption DEF Replace, TempInv
  <2>2. CASE save.next = "consider"
    <3>1. FileHas(cand)'
      BY <1>5, <2>1, <2>2, <1>a, SameSettings DEF Replace, FileHas
    <3> QED BY <1>5, <2>2, <3>1 DEF Replace
  <2>3. CASE save.next # "consider"
    <3>1. FileHas(cfg)'
      BY <1>5, <2>1, <2>3, <1>a, SameSettings DEF Replace, FileHas
    <3>2. save.next \in {"waiting", "loop", "listen"}
      BY <1>5, <2>3, <1>0 DEF Replace, PhaseInv
    <3> QED BY <1>5, <3>1, <3>2 DEF Replace
  <2> QED BY <2>2, <2>3
<1>6. CASE SaveFails
  BY <1>6, <1>0 DEF SaveFails, PhaseInv
<1>7. ASSUME NEW m \in Mice, Attach(m) PROVE SavedInv'
  BY <1>7 DEF Attach, FileHas
<1>8. CASE Consider
  <2>1. ~migrated' => cand' = cand
    BY <1>8, Zenon DEF Consider
  <2> QED BY <1>8, <2>1, <1>0 DEF Consider, FileHas, PhaseInv
<1>9. CASE Reject
  BY <1>9, <1>0 DEF Reject, PhaseInv
<1>10. CASE Commit
  BY <1>10, <1>0 DEF Commit, Committed, SaveConfig, Saving, PhaseInv, FileHas
<1>11. CASE Clicks
  <2>1. ASSUME NEW r \in Registers, NEW v \in Values, SetRegister(r, v) PROVE SavedInv'
    BY <2>1 DEF SetRegister, SaveConfig, Saving
  <2>2. ASSUME NEW r \in Registers, KeepRegister(r) PROVE SavedInv'
    BY <2>2 DEF KeepRegister, SaveConfig, Saving
  <2>3. ASSUME NEW b \in Thumbs, NEW t \in Texts, SetThumb(b, t) PROVE SavedInv'
    BY <2>3 DEF SetThumb, SaveConfig, Saving
  <2>4. ASSUME NEW b \in Writable, NEW t \in Texts, SetOnboard(b, t) PROVE SavedInv'
    <3>1. FileHas(cfg) => FileHas(cfg)'
      BY <2>4, <1>a, SameSettings DEF SetOnboard, FileHas
    <3> QED BY <2>4, <3>1 DEF SetOnboard
  <2>5. ASSUME NEW b \in Writable, ClearOnboard(b) PROVE SavedInv'
    <3>1. FileHas(cfg) => FileHas(cfg)'
      BY <2>5, <1>a, SameSettings DEF ClearOnboard, FileHas
    <3> QED BY <2>5, <3>1 DEF ClearOnboard
  <2>6. CASE Reload
    <3>1. CASE file = Missing
      BY <2>6, <3>1 DEF Reload, Saving
    <3>2. CASE file # Missing
      <4>1. file \in Configs /\ cand' = file /\ file' = file
        BY <2>6, <3>2, <1>0 DEF Reload, Data
      <4>2. FileHas(cand)'
        BY <4>1, SameSettings DEF FileHas
      <4> QED BY <2>6, <3>2, <4>2 DEF Reload
    <3> QED BY <3>1, <3>2
  <2> QED BY <1>11, <1>4, <2>1, <2>2, <2>3, <2>4, <2>5, <2>6 DEF Clicks
<1>12. CASE WriteTemp \/ FlushTemp \/ ApplyRegister \/ Notice \/ UNCHANGED vars
  BY <1>12, <1>1 DEF WriteTemp, FlushTemp, ApplyRegister, Notice, vars, Declined, Accepted,
     ResetReads, ResetPlan, ResetRereads, ResetWrites, ResetDone, ResetFails
<1>13. CASE \/ LoadRefused \/ ReadBind \/ WriteBind \/ CommandFails \/ CheckOnboard
            \/ CheckNothing \/ Listen \/ NoListener \/ OnboardSet \/ LoopStops
  BY <1>13, <1>2, <1>0 DEF LoadRefused, ReadBind, WriteBind, CommandFails, CheckOnboard,
     CheckNothing, Listen, NoListener, OnboardSet, LoopStops, Checks, Done
<1>14. CASE Restart
  BY <1>14 DEF Restart
<1>15. ASSUME NEW e \in Edits, HandEdit(e) PROVE SavedInv'
  BY <1>15 DEF HandEdit
<1> QED
  BY <1>3, <1>4, <1>5, <1>6, <1>7, <1>8, <1>9, <1>10, <1>11, <1>12, <1>13, <1>14, <1>15
     DEF Next, Main

(* Unless a save failed or someone edited the file, it has every setting   *)
(* the session runs on but the on-board table.                             *)
THEOREM SettingsSaved == Spec => []SettingsAreSaved
<1>1. Init => TempInv /\ SavedInv
  BY DEF Init, TempInv, SavedInv, HoldsCfg, HoldsCand
<1>2. BaseInv /\ TempInv /\ SavedInv /\ [Next]_vars => (TempInv /\ SavedInv)'
  BY TempStep, SavedStep
<1>3. SavedInv => SettingsAreSaved
  BY DEF SavedInv, HoldsCfg, FileHas, SettingsAreSaved
<1> QED BY <1>1, <1>2, <1>3, Base, PTL DEF Spec

-----------------------------------------------------------------------------
(* The mouse.                                                              *)

(* cfg is the active configuration, and nothing else is being applied;     *)
(* only a click in the window may be on its way to the mouse.              *)
Held == \/ phase \in {"listen", "loop"}
        \/ phase = "save" /\ save.failed \in {"listen", "loop"}
        \/ phase = "consider" /\ job # "start"
        \/ phase \in {"apply", "write"} /\ job = "command"
Applying == phase \in {"apply", "write", "applied"} /\ job # "command"
(* A session has not got as far as the check that raises the notice. *)
Starting == \/ phase \in {"boot", "waiting"}
            \/ phase = "save" /\ save.next = "waiting"
            \/ phase \in {"consider", "apply", "write"} /\ job = "start"

(* What is still to be done belongs to what is applied, and the notice to  *)
(* the session that raised it; it never works on a button it was told of.  *)
WorkInv ==
  /\ phase \in {"apply", "over"} \/ regs = {}
  /\ phase = "apply" /\ job = "command" => regs = {}
  /\ phase = "applied" => wants = {}
  /\ Applying => wants \subseteq Wants(cand.onboard)
  /\ phase \in {"apply", "write"} /\ job = "command" => wants \subseteq Wants(cfg.onboard)
NoticeInv ==
  /\ Starting => notice = "none"
  /\ notice # "none" => HasKeymap(mouse)
  /\ left \cap spares = {}
  /\ notice = "writing" => target \in left

(* The registers that are not in rs, and the lone entries whose binds are  *)
(* not in ws, are as asked, but for those that a reset may undo.           *)
Registered(c, rs) == \A r \in Registers \ rs : c.reg[r] # Keep => sent[r] = c.reg[r]
Pair(tab, k) == [button |-> ButtonOf[k], bind |-> ParseBind(tab[k], ButtonOf[k])]
Spared(b) == b \in spares \/ notice \in {"none", "asking"}
Put(tab, ws) ==
  \A k \in Lone(tab) :
    Pair(tab, k) \in ws \/ (Spared(ButtonOf[k])
      => stored[ButtonOf[k]] = ParseBind(tab[k], ButtonOf[k]))

Pending == IF phase \in {"apply", "write"} THEN wants ELSE {}
SentInv ==
  /\ Applying => Registered(cand, regs)
  /\ Held => Registered(cfg, {})
PutInv ==
  ~latched /\ HasKeymap(mouse) =>
    /\ Applying => Put(cand.onboard, Pending)
    /\ Held => Put(cfg.onboard, Pending)

LEMMA WorkStep == BaseInv /\ WorkInv /\ [Next]_vars => WorkInv'
<1> SUFFICES ASSUME BaseInv, WorkInv, [Next]_vars PROVE WorkInv'
  OBVIOUS
<1>0. Data /\ PhaseInv /\ WriteInv
  BY DataIsType DEF BaseInv
<1> USE <1>0 DEF WorkInv, Applying, Goto, main, work
<1>1. UNCHANGED <<phase, job, cfg, cand, regs, wants>> => WorkInv'
  OBVIOUS
<1>2. UNCHANGED regs /\ phase \notin {"apply", "over"}
        /\ phase' \notin {"apply", "write", "applied"} => WorkInv'
  OBVIOUS
<1>3. CASE Consider
  <2> DEFINE c == Migrate(cand, mouse)
  <2>1. wants' \subseteq Wants(c.onboard) /\ cand' = c /\ phase' = "apply" /\ job' # "command"
    BY <1>3 DEF Consider, PhaseInv
  <2> HIDE DEF c
  <2> QED BY <2>1
<1>4. CASE ApplyRegister \/ ReadBind
  BY <1>4 DEF ApplyRegister, ReadBind
<1>5. CASE WriteBind
  BY <1>5 DEF WriteBind
<1>6. CASE CommandFails
  BY <1>6 DEF CommandFails
<1>7. CASE CheckOnboard \/ CheckNothing
  BY <1>7 DEF CheckOnboard, CheckNothing, Done, Checks
<1>8. ASSUME NEW b \in Writable, NEW t \in Texts, SetOnboard(b, t) PROVE WorkInv'
  <2> DEFINE tab == SetEntry(cfg.onboard, b, t)
  <2>1. b \in Buttons /\ ButtonOf[KeyOf[b]] = b
    BY KeymapAssumption
  <2>2. KeyOf[b] \in DOMAIN tab /\ tab[KeyOf[b]] = t
    BY DEF SetEntry
  <2>3. [button |-> b, bind |-> ParseBind(t, b)] \in Wants(tab)
    BY <2>1, <2>2 DEF Wants
  <2>4. cfg'.onboard = tab
    BY <1>8 DEF SetOnboard, Data, Configs
  <2> HIDE DEF tab
  <2>5. wants' = {[button |-> b, bind |-> ParseBind(t, b)]} /\ regs' = {} /\ phase' = "apply"
        /\ job' = "command"
    BY <1>8 DEF SetOnboard
  <2> QED BY <2>3, <2>4, <2>5
<1>9. CASE OnboardSet
  BY <1>9 DEF OnboardSet, Done
<1>10. ASSUME NEW m \in Mice, Attach(m) PROVE WorkInv'
  BY <1>10, <1>2 DEF Attach
<1>11. CASE Load \/ Create \/ LoadRefused \/ Restart
  BY <1>11 DEF Load, Create, LoadRefused, Restart, Saving
<1>12. CASE WriteTemp \/ FlushTemp \/ Notice \/ UNCHANGED vars
  BY <1>12, <1>1 DEF WriteTemp, FlushTemp, Notice, vars, Declined, Accepted, ResetReads,
     ResetPlan, ResetRereads, ResetWrites, ResetDone, ResetFails
<1>13. CASE Replace \/ SaveFails
  BY <1>13, <1>2 DEF Replace, SaveFails, PhaseInv
<1>14. CASE Reject \/ Commit \/ Listen \/ NoListener \/ LoopStops
  BY <1>14, <1>2 DEF Reject, Commit, Committed, SaveConfig, Saving, Listen, NoListener,
     LoopStops
<1>15. ASSUME NEW r \in Registers, NEW v \in Values, SetRegister(r, v) PROVE WorkInv'
  BY <1>15, <1>2 DEF SetRegister, SaveConfig, Saving
<1>16. ASSUME NEW r \in Registers, KeepRegister(r) PROVE WorkInv'
  BY <1>16, <1>2 DEF KeepRegister, SaveConfig, Saving
<1>17. ASSUME NEW b \in Thumbs, NEW t \in Texts, SetThumb(b, t) PROVE WorkInv'
  BY <1>17, <1>2 DEF SetThumb, SaveConfig, Saving
<1>18. CASE SaveNow \/ Reload
  BY <1>18, <1>2 DEF SaveNow, Reload, SaveConfig, Saving
<1>19. ASSUME NEW e \in Edits, HandEdit(e) PROVE WorkInv'
  BY <1>19, <1>1 DEF HandEdit
<1>20. ASSUME NEW b \in Writable, ClearOnboard(b) PROVE WorkInv'
  BY <1>20, <1>2 DEF ClearOnboard
<1> QED
  BY <1>3, <1>4, <1>5, <1>6, <1>7, <1>8, <1>9, <1>10, <1>11, <1>12, <1>13, <1>14, <1>15,
     <1>16, <1>17, <1>18, <1>19, <1>20 DEF Next, Main, Clicks

LEMMA NoticeStep == BaseInv /\ NoticeInv /\ [Next]_vars => NoticeInv'
<1> SUFFICES ASSUME BaseInv, NoticeInv, [Next]_vars PROVE NoticeInv'
  OBVIOUS
<1>0. Data /\ PhaseInv /\ WriteInv
  BY DataIsType DEF BaseInv
<1>k. \A m \in Keymapped : m \notin DpiButtons
  BY StoreAssumption
<1> USE <1>0 DEF NoticeInv, Starting, Goto, main, work, disk, device, reset, HasKeymap
<1>1. UNCHANGED <<phase, job, mouse, save, notice, spares, left, target>> => NoticeInv'
  OBVIOUS
<1>2. UNCHANGED <<mouse, notice, spares, left, target>> /\ ~Starting' => NoticeInv'
  OBVIOUS
<1>3. Starting /\ UNCHANGED <<notice, spares, left, target>> => NoticeInv'
  OBVIOUS
<1>4. CASE CheckOnboard
  BY <1>4 DEF CheckOnboard, Ask, Checks
<1>5. CASE Restart
  BY <1>5 DEF Restart
<1>6. CASE NoListener
  BY <1>6, <1>k DEF NoListener
<1>7. CASE Load \/ Create \/ LoadRefused \/ \E m \in Mice : Attach(m)
  BY <1>7, <1>3 DEF Load, Create, LoadRefused, Attach, Saving
<1>8. CASE WriteTemp \/ FlushTemp \/ UNCHANGED vars \/ ApplyRegister
  BY <1>8, <1>1 DEF WriteTemp, FlushTemp, vars, ApplyRegister
<1>9. CASE Replace \/ SaveFails
  <2>1. CASE Starting
    BY <1>9, <2>1, <1>3 DEF Replace, SaveFails
  <2>2. CASE ~Starting
    BY <1>9, <2>2, <1>2 DEF Replace, SaveFails, PhaseInv
  <2> QED BY <2>1, <2>2
<1>10. CASE Consider \/ Reject \/ ReadBind \/ WriteBind \/ CommandFails \/ CheckNothing
  <2>1. CASE Starting
    BY <1>10, <2>1, <1>3 DEF Consider, Reject, ReadBind, WriteBind, CommandFails, CheckNothing
  <2>2. CASE ~Starting
    BY <1>10, <2>2, <1>2
       DEF Consider, Reject, ReadBind, WriteBind, CommandFails, CheckNothing, Done, PhaseInv
  <2> QED BY <2>1, <2>2
<1>11. CASE Commit \/ Listen \/ OnboardSet \/ LoopStops
  BY <1>11, <1>2 DEF Commit, Committed, SaveConfig, Saving, Listen, OnboardSet, LoopStops
<1>12. CASE Declined \/ Accepted
  BY <1>12 DEF Declined, Accepted
<1>13. CASE ResetReads
  <2>1. left' \cap spares = {}
    BY <1>13 DEF ResetReads, Leftover
  <2> QED BY <1>13, <2>1 DEF ResetReads
<1>14. CASE ResetPlan \/ ResetRereads
  BY <1>14 DEF ResetPlan, ResetRereads
<1>15. CASE ResetWrites \/ ResetDone
  BY <1>15 DEF ResetWrites, ResetDone
<1>16. CASE ResetFails
  BY <1>16 DEF ResetFails
<1>17. ASSUME NEW r \in Registers, NEW v \in Values, SetRegister(r, v) PROVE NoticeInv'
  BY <1>17, <1>2 DEF SetRegister, SaveConfig, Saving
<1>18. ASSUME NEW r \in Registers, KeepRegister(r) PROVE NoticeInv'
  BY <1>18, <1>2 DEF KeepRegister, SaveConfig, Saving
<1>19. ASSUME NEW b \in Thumbs, NEW t \in Texts, SetThumb(b, t) PROVE NoticeInv'
  BY <1>19, <1>2 DEF SetThumb, SaveConfig, Saving
<1>20. CASE SaveNow \/ Reload
  BY <1>20, <1>2 DEF SaveNow, Reload, SaveConfig, Saving
<1>21. ASSUME NEW b \in Writable, NEW t \in Texts, SetOnboard(b, t) PROVE NoticeInv'
  BY <1>21, <1>2 DEF SetOnboard
<1>22. ASSUME NEW e \in Edits, HandEdit(e) PROVE NoticeInv'
  BY <1>22, <1>1 DEF HandEdit
<1>23. ASSUME NEW b \in Writable, ClearOnboard(b) PROVE NoticeInv'
  BY <1>23, <1>1 DEF ClearOnboard
<1> QED
  BY <1>4, <1>5, <1>6, <1>7, <1>8, <1>9, <1>10, <1>11, <1>12, <1>13, <1>14, <1>15, <1>16,
     <1>17, <1>18, <1>19, <1>20, <1>21, <1>22, <1>23 DEF Next, Main, Notice, Clicks

LEMMA SentStep == BaseInv /\ WorkInv /\ SentInv /\ [Next]_vars => SentInv'
<1> SUFFICES ASSUME BaseInv, WorkInv, SentInv, [Next]_vars PROVE SentInv'
  OBVIOUS
<1>0. Data /\ PhaseInv
  BY DataIsType DEF BaseInv
<1> USE <1>0 DEF SentInv, Registered, Applying, Held, Goto, main, work, disk, device
<1>1. UNCHANGED <<phase, job, save, cfg, cand, regs, sent>> => SentInv'
  OBVIOUS
<1>2. UNCHANGED <<cfg, sent>> /\ (Held' => Held) /\ ~Applying' => SentInv'
  OBVIOUS
<1>3. CASE Consider
  BY <1>3 DEF Consider, PhaseInv
<1>4. CASE ApplyRegister
  <2>1. PICK r \in regs : sent' = [sent EXCEPT ![r] = cand.reg[r]] /\ regs' = regs \ {r}
    BY <1>4 DEF ApplyRegister
  <2>2. Applying /\ ~Held
    BY <1>4, <2>1 DEF ApplyRegister, WorkInv
  <2>3. \A q \in Registers \ regs' : cand.reg[q] # Keep => sent'[q] = cand.reg[q]
    BY <2>1, <2>2 DEF Data
  <2>4. ~Held' /\ cand' = cand
    BY <1>4, <2>2 DEF ApplyRegister
  <2> QED BY <2>3, <2>4
<1>5. CASE ReadBind \/ WriteBind
  BY <1>5 DEF ReadBind, WriteBind
<1>6. CASE CheckOnboard \/ CheckNothing
  BY <1>6 DEF CheckOnboard, CheckNothing, Checks, Done
<1>7. CASE Commit
  <2>1. Registered(cand, {})
    BY <1>7 DEF Commit, WorkInv, PhaseInv
  <2>2. cfg' = cand /\ sent' = sent /\ ~Applying'
    BY <1>7 DEF Commit, Committed, SaveConfig, Saving
  <2> QED BY <2>1, <2>2
<1>8. ASSUME NEW r \in Registers, NEW v \in Values, SetRegister(r, v) PROVE SentInv'
  <2>1. sent' = [sent EXCEPT ![r] = v] /\ cfg'.reg = [cfg.reg EXCEPT ![r] = v]
    BY <1>8 DEF SetRegister, Data, Configs
  <2>2. Registered(cfg, {}) /\ cfg.reg \in [Registers -> Values \cup {Keep}]
    BY <1>8 DEF SetRegister, Data, Configs
  <2>3. \A q \in Registers : cfg'.reg[q] # Keep => sent'[q] = cfg'.reg[q]
    BY <2>1, <2>2 DEF Data
  <2> QED BY <1>8, <2>3 DEF SetRegister, SaveConfig, Saving
<1>9. ASSUME NEW r \in Registers, KeepRegister(r) PROVE SentInv'
  <2>1. sent' = sent /\ cfg'.reg = [cfg.reg EXCEPT ![r] = Keep]
    BY <1>9 DEF KeepRegister, Data, Configs
  <2>2. Registered(cfg, {}) /\ cfg.reg \in [Registers -> Values \cup {Keep}]
    BY <1>9 DEF KeepRegister, Data, Configs
  <2>3. \A q \in Registers : cfg'.reg[q] # Keep => sent'[q] = cfg'.reg[q]
    BY <2>1, <2>2
  <2> QED BY <1>9, <2>3 DEF KeepRegister, SaveConfig, Saving
<1>10. ASSUME NEW b \in Thumbs, NEW t \in Texts, SetThumb(b, t) PROVE SentInv'
  <2>1. sent' = sent /\ cfg'.reg = cfg.reg
    BY <1>10 DEF SetThumb, Data, Configs
  <2> QED BY <1>10, <2>1 DEF SetThumb, SaveConfig, Saving
<1>11. ASSUME NEW b \in Writable, NEW t \in Texts, SetOnboard(b, t) PROVE SentInv'
  <2>1. sent' = sent /\ cfg'.reg = cfg.reg
    BY <1>11 DEF SetOnboard, Data, Configs
  <2> QED BY <1>11, <2>1 DEF SetOnboard
<1>12. ASSUME NEW b \in Writable, ClearOnboard(b) PROVE SentInv'
  <2>1. sent' = sent /\ cfg'.reg = cfg.reg
    BY <1>12 DEF ClearOnboard, Data, Configs
  <2> QED BY <1>12, <2>1 DEF ClearOnboard
<1>13. CASE Load \/ Create \/ LoadRefused \/ Restart \/ \E m \in Mice : Attach(m)
  BY <1>13 DEF Load, Create, LoadRefused, Restart, Attach, Saving
<1>14. CASE WriteTemp \/ FlushTemp \/ Notice \/ UNCHANGED vars
  BY <1>14, <1>1 DEF WriteTemp, FlushTemp, Notice, vars, Declined, Accepted, ResetReads,
     ResetPlan, ResetRereads, ResetWrites, ResetDone, ResetFails
<1>15. CASE Replace \/ SaveFails
  BY <1>15, <1>2 DEF Replace, SaveFails, PhaseInv
<1>16. CASE Reject \/ CommandFails
  BY <1>16, <1>2 DEF Reject, CommandFails, PhaseInv
<1>17. CASE Listen \/ NoListener \/ OnboardSet \/ LoopStops
  BY <1>17, <1>2 DEF Listen, NoListener, OnboardSet, Done, LoopStops
<1>18. CASE SaveNow \/ Reload
  BY <1>18, <1>2 DEF SaveNow, Reload, SaveConfig, Saving
<1>19. ASSUME NEW e \in Edits, HandEdit(e) PROVE SentInv'
  BY <1>19, <1>1 DEF HandEdit
<1> QED
  BY <1>3, <1>4, <1>5, <1>6, <1>7, <1>8, <1>9, <1>10, <1>11, <1>12, <1>13, <1>14, <1>15,
     <1>16, <1>17, <1>18, <1>19 DEF Next, Main, Clicks

(* A step that changes no bind and no one's mind keeps what was put. *)
LEMMA SamePut ==
  ASSUME UNCHANGED <<notice, spares, stored>>
  PROVE  \A tab, ws : (Put(tab, ws) => Put(tab, ws)')
BY DEF Put, Spared

(* The bind of one of the wants is put: no other lone entry is about it.   *)
LEMMA PutOne ==
  ASSUME NEW tab \in Tables, NEW ws \in SUBSET Wants(tab), NEW h \in ws,
         UNCHANGED <<notice, spares>>, stored \in [Buttons -> Binds], h.button \in Buttons,
         stored' = [stored EXCEPT ![h.button] = h.bind], Put(tab, ws)
  PROVE  Put(tab, ws \ {h})'
<1> SUFFICES ASSUME NEW k \in Lone(tab), Pair(tab, k) \notin ws \ {h}, Spared(ButtonOf[k])
             PROVE  stored'[ButtonOf[k]] = ParseBind(tab[k], ButtonOf[k])
  BY DEF Put, Spared
<1>1. k \in DOMAIN tab /\ \A j \in DOMAIN tab : ButtonOf[j] = ButtonOf[k] => j = k
  BY DEF Lone
<1>2. PICK j \in DOMAIN tab : h = Pair(tab, j)
  BY DEF Wants, Pair
<1>3. h.button = ButtonOf[j] /\ h.bind = ParseBind(tab[j], ButtonOf[j])
  BY <1>2 DEF Pair
<1>4. CASE ButtonOf[j] = ButtonOf[k]
  <2>1. j = k
    BY <1>1, <1>4
  <2> QED
    BY <1>3, <2>1
<1>5. CASE ButtonOf[j] # ButtonOf[k]
  <2>1. Pair(tab, k) # h
    BY <1>3, <1>5 DEF Pair
  <2>2. stored[ButtonOf[k]] = ParseBind(tab[k], ButtonOf[k])
    BY <2>1 DEF Put
  <2> QED
    BY <1>3, <1>5, <2>2
<1> QED
  BY <1>4, <1>5

(* What a reset writes was not on the list it was told of.                 *)
LEMMA NoticeLeaves ==
  ASSUME BaseInv, NoticeInv, Notice, ~latched'
  PROVE  ~latched /\ \A tab, ws : (Put(tab, ws) => Put(tab, ws)')
<1>0. Data /\ WriteInv
  BY DataIsType DEF BaseInv
<1> SUFFICES ASSUME NEW tab, NEW ws, Put(tab, ws) PROVE ~latched /\ Put(tab, ws)'
  BY DEF Notice, Declined, Accepted, ResetReads, ResetPlan, ResetRereads, ResetWrites,
     ResetDone, ResetFails
<1>1. CASE ResetWrites
  <2>1. target \notin spares /\ notice = "writing"
    BY <1>1 DEF ResetWrites, NoticeInv
  <2>2. \A b : b # target => stored'[b] = stored[b]
    BY <1>0, <1>1 DEF ResetWrites, Data
  <2> QED
    BY <1>1, <2>1, <2>2 DEF ResetWrites, Put, Spared
<1>2. CASE ~ResetWrites
  <2>1. stored' = stored /\ spares' = spares /\ ~latched
    BY <1>2 DEF Notice, Declined, Accepted, ResetReads, ResetPlan, ResetRereads, ResetDone,
       ResetFails, device
  <2>2. notice' \in {"none", "asking"} => notice \in {"none", "asking"}
    BY <1>2 DEF Notice, Declined, Accepted, ResetReads, ResetPlan, ResetRereads, ResetDone,
       ResetFails
  <2> QED
    BY <2>1, <2>2 DEF Put, Spared
<1> QED
  BY <1>1, <1>2

(* One entry more, whose bind is still to be put, or one fewer.            *)
LEMMA PutChanged ==
  ASSUME NEW tab \in Tables, NEW b \in Buttons, Put(tab, {}),
         UNCHANGED <<notice, spares, stored>>
  PROVE  /\ \A t \in Texts : Put(SetEntry(tab, b, t),
                                 {[button |-> b, bind |-> ParseBind(t, b)]})'
         /\ Put(Without(tab, b), {})'
<1>1. ButtonOf[KeyOf[b]] = b
  BY KeymapAssumption
<1>2. ASSUME NEW t \in Texts, NEW k \in Lone(SetEntry(tab, b, t)),
             Pair(SetEntry(tab, b, t), k) # [button |-> b, bind |-> ParseBind(t, b)]
      PROVE  k \in Lone(tab) /\ SetEntry(tab, b, t)[k] = tab[k]
  <2> DEFINE new == SetEntry(tab, b, t)
  <2>1. /\ k \in DOMAIN new
        /\ \A j \in DOMAIN new : ButtonOf[j] = ButtonOf[k] => j = k
    BY DEF Lone
  <2>2. DOMAIN new = {j \in DOMAIN tab : ButtonOf[j] # b} \cup {KeyOf[b]}
    BY DEF SetEntry, Without
  <2>3. \A j \in DOMAIN new : new[j] = IF j = KeyOf[b] THEN t ELSE tab[j]
    BY DEF SetEntry
  <2> HIDE DEF new
  <2>4. k # KeyOf[b]
    BY <1>1, <1>2, <2>1, <2>3 DEF Pair, new
  <2>5. k \in DOMAIN tab /\ ButtonOf[k] # b /\ new[k] = tab[k]
    BY <2>1, <2>2, <2>3, <2>4
  <2>6. ASSUME NEW j \in DOMAIN tab, ButtonOf[j] = ButtonOf[k] PROVE j = k
    BY <2>1, <2>2, <2>5, <2>6
  <2> QED
    BY <2>5, <2>6 DEF Lone, new
<1>3. ASSUME NEW k \in Lone(Without(tab, b))
      PROVE  k \in Lone(tab) /\ Without(tab, b)[k] = tab[k]
  <2>1. /\ k \in DOMAIN tab /\ ButtonOf[k] # b /\ Without(tab, b)[k] = tab[k]
        /\ \A j \in DOMAIN tab : ButtonOf[j] # b /\ ButtonOf[j] = ButtonOf[k] => j = k
    BY DEF Lone, Without
  <2> QED
    BY <2>1 DEF Lone
<1>4. \A k \in Lone(tab) : Spared(ButtonOf[k]) =>
        stored[ButtonOf[k]] = ParseBind(tab[k], ButtonOf[k])
  BY DEF Put
<1>5. \A x : Spared(x)' => Spared(x)
  BY DEF Spared
<1>6. ASSUME NEW t \in Texts
      PROVE  Put(SetEntry(tab, b, t), {[button |-> b, bind |-> ParseBind(t, b)]})'
  BY <1>2, <1>4, <1>5 DEF Put
<1>7. Put(Without(tab, b), {})'
  BY <1>3, <1>4, <1>5 DEF Put
<1> QED
  BY <1>6, <1>7

LEMMA PutStep == BaseInv /\ WorkInv /\ NoticeInv /\ PutInv /\ [Next]_vars => PutInv'
<1> SUFFICES ASSUME BaseInv, WorkInv, NoticeInv, PutInv, [Next]_vars PROVE PutInv'
  OBVIOUS
<1>0. Data /\ PhaseInv /\ WriteInv
  BY DataIsType DEF BaseInv
<1>a. /\ cand \in Configs /\ cand.onboard \in Tables
      /\ cfg \in Configs /\ cfg.onboard \in Tables
      /\ stored \in [Buttons -> Binds]
      /\ \A w \in wants : w.button \in Buttons
  BY <1>0 DEF Data, Configs, Pairs
<1>b. UNCHANGED <<notice, spares, stored>> => \A tab, ws : (Put(tab, ws) => Put(tab, ws)')
  BY SamePut
<1> USE DEF PutInv, Goto
<1>1. /\ UNCHANGED <<phase, job, save, mouse, cfg, cand, wants, notice, spares, stored>>
      /\ ~latched' => ~latched
      => PutInv'
  BY <1>b DEF Held, Applying, Pending
<1>2. /\ UNCHANGED <<mouse, notice, spares, stored>> /\ cfg'.onboard = cfg.onboard
      /\ Held' => Held
      /\ ~Applying'
      /\ Pending' = Pending
      /\ ~latched' => ~latched
      => PutInv'
  BY <1>b
<1>3. ~Held' /\ ~Applying' => PutInv'
  OBVIOUS
<1>4. CASE Consider
  <2> DEFINE c == Migrate(cand, mouse)
  <2>1. /\ cand' = c /\ mouse' = mouse /\ ~Held' /\ phase' = "apply"
        /\ wants' = IF HasKeymap(mouse) THEN Wants(c.onboard) ELSE {}
    BY <1>0, <1>4 DEF Consider, Held, PhaseInv
  <2>2. \A tab : Put(tab, Wants(tab))'
    BY DEF Put, Lone, Wants, Pair
  <2> HIDE DEF c
  <2>3. HasKeymap(mouse') => Pending' = Wants(cand'.onboard)
    BY <2>1 DEF Pending
  <2> QED BY <2>1, <2>2, <2>3
<1>5. CASE ReadBind \/ WriteBind
  <2>1. PICK h \in wants :
          \/ stored' = [stored EXCEPT ![h.button] = h.bind] /\ Pending' = Pending \ {h}
          \/ stored' = stored /\ Pending' = Pending
    <3>1. CASE WriteBind
      BY <1>0, <3>1 DEF WriteBind, WriteInv, Pending
    <3>2. CASE ReadBind
      <4>1. PICK w \in wants :
              IF stored[w.button] = w.bind
                THEN wants' = wants \ {w} /\ UNCHANGED <<phase, hand>>
                ELSE hand' = w /\ phase' = "write" /\ UNCHANGED wants
        BY <3>2 DEF ReadBind
      <4>2. stored' = stored /\ phase = "apply"
        BY <3>2 DEF ReadBind, device
      <4>3. CASE stored[w.button] = w.bind
        <5>1. stored' = [stored EXCEPT ![w.button] = w.bind]
          BY <1>a, <4>2, <4>3
        <5> QED BY <4>1, <4>2, <4>3, <5>1 DEF Pending
      <4>4. CASE stored[w.button] # w.bind
        BY <4>1, <4>2, <4>4 DEF Pending
      <4> QED BY <4>3, <4>4
    <3> QED BY <1>5, <3>1, <3>2
  <2>2. /\ UNCHANGED <<job, mouse, cfg, cand, latched, notice, spares>>
        /\ phase \in {"apply", "write"} /\ phase' \in {"apply", "write"}
    BY <1>5 DEF ReadBind, WriteBind, reset
  <2>3. Pending = wants /\ (Held' => Held) /\ (Applying' => Applying)
    BY <2>2 DEF Pending, Held, Applying
  <2>4. ASSUME NEW tab \in Tables, wants \subseteq Wants(tab), Put(tab, wants)
        PROVE  \A ws : ws = Pending' => Put(tab, ws)'
    <3>1. CASE stored' = stored /\ Pending' = wants
      BY <2>2, <2>4, <3>1, <1>b
    <3>2. CASE stored' = [stored EXCEPT ![h.button] = h.bind] /\ Pending' = wants \ {h}
      <4>1. PICK vs \in SUBSET Wants(tab) : vs = wants
        BY <2>4
      <4>2. h.button \in Buttons /\ UNCHANGED <<notice, spares>> /\ h \in vs /\ Put(tab, vs)
        BY <1>a, <2>2, <2>4, <4>1
      <4>3. Put(tab, vs \ {h})'
        BY <1>a, <3>2, <4>2, PutOne
      <4>4. \A ws : ws = vs \ {h} => Put(tab, ws)'
        BY <4>3
      <4> QED BY <3>2, <4>1, <4>4
    <3> QED BY <2>1, <2>3, <3>1, <3>2
  <2>5. ~latched /\ HasKeymap(mouse) /\ Applying => Put(cand.onboard, Pending)'
    BY <1>a, <2>2, <2>3, <2>4 DEF WorkInv
  <2>6. ~latched /\ HasKeymap(mouse) /\ Held => Put(cfg.onboard, Pending)'
    <3>1. Held => wants \subseteq Wants(cfg.onboard)
      BY <2>2 DEF WorkInv, Held
    <3> QED BY <1>a, <2>2, <2>3, <2>4, <3>1
  <2> QED BY <2>2, <2>3, <2>5, <2>6
<1>6. CASE CommandFails \/ LoopStops
  BY <1>6 DEF CommandFails, LoopStops
<1>7. CASE CheckOnboard
  <2>1. /\ notice = "none" /\ notice' \in {"none", "asking"} /\ phase = "apply" /\ wants = {}
        /\ phase' = "applied" /\ job = "start" /\ latched' = latched
        /\ UNCHANGED <<job, mouse, cand, wants, stored>>
    BY <1>7 DEF CheckOnboard, Done, Checks, NoticeInv, Starting, Ask, reset, work, device
  <2>2. Pending = {} /\ Pending' = {} /\ Applying /\ ~Held'
    BY <2>1 DEF Pending, Applying, Held
  <2>3. \A tab, ws : (Put(tab, ws) => Put(tab, ws)')
    BY <2>1 DEF Put, Spared
  <2> QED BY <2>1, <2>2, <2>3
<1>8. CASE CheckNothing
  <2>1. /\ phase = "apply" /\ wants = {} /\ phase' = "applied" /\ job # "command"
        /\ UNCHANGED <<job, mouse, cand, wants, stored, latched, notice, spares>>
    BY <1>8 DEF CheckNothing, Done, reset, work, device
  <2>2. Pending = {} /\ Pending' = {} /\ Applying /\ ~Held'
    BY <2>1 DEF Pending, Applying, Held
  <2> QED BY <2>1, <2>2, <1>b
<1>9. CASE Commit
  <2>1. /\ phase = "applied" /\ cfg' = cand /\ phase' \in {"listen", "loop", "save"}
        /\ UNCHANGED <<mouse, stored, latched, notice, spares>>
    BY <1>9 DEF Commit, Committed, SaveConfig, Saving, reset, device
  <2>2. Pending = {} /\ Pending' = {} /\ Applying /\ ~Applying'
    BY <1>0, <2>1 DEF Pending, Applying, PhaseInv
  <2> QED BY <2>1, <2>2, <1>b
<1>10. ASSUME NEW b \in Writable, NEW t \in Texts, SetOnboard(b, t) PROVE PutInv'
  <2>1. b \in Buttons
    BY KeymapAssumption
  <2>2. /\ phase = "loop" /\ phase' = "apply" /\ job' = "command"
        /\ wants' = {[button |-> b, bind |-> ParseBind(t, b)]}
        /\ cfg'.onboard = SetEntry(cfg.onboard, b, t)
        /\ UNCHANGED <<mouse, stored, latched, notice, spares>>
    BY <1>10, <1>a DEF SetOnboard, reset, device, Configs
  <2>3. Held /\ Pending = {} /\ ~Applying' /\ Pending' = wants'
    BY <2>2 DEF Held, Pending, Applying
  <2>4. ASSUME ~latched, HasKeymap(mouse) PROVE Put(cfg.onboard, Pending)'
    <3>1. Put(cfg.onboard, {})
      BY <2>3, <2>4
    <3>2. \A tab, ws : tab = SetEntry(cfg.onboard, b, t) /\ ws = wants' => Put(tab, ws)'
      BY <1>a, <2>1, <2>2, <3>1, PutChanged
    <3> QED BY <2>2, <2>3, <3>2
  <2> QED BY <2>2, <2>3, <2>4
<1>11. ASSUME NEW b \in Writable, ClearOnboard(b) PROVE PutInv'
  <2>1. b \in Buttons
    BY KeymapAssumption
  <2>2. /\ phase = "loop" /\ cfg'.onboard = Without(cfg.onboard, b)
        /\ UNCHANGED <<phase, mouse, stored, latched, notice, spares>>
    BY <1>11, <1>a DEF ClearOnboard, main, reset, device, Configs
  <2>3. Held /\ Pending = {} /\ ~Applying' /\ Pending' = {}
    BY <2>2 DEF Held, Pending, Applying
  <2>4. ASSUME ~latched, HasKeymap(mouse) PROVE Put(cfg.onboard, Pending)'
    <3>1. Put(cfg.onboard, {})
      BY <2>3, <2>4
    <3>2. \A tab : tab = Without(cfg.onboard, b) => Put(tab, {})'
      BY <1>a, <2>1, <2>2, <3>1, PutChanged
    <3> QED BY <2>2, <2>3, <3>2
  <2> QED BY <2>2, <2>3, <2>4
<1> USE DEF Held, Applying, Pending, main, work, disk, device, reset
<1>12. CASE Load \/ Create \/ LoadRefused \/ Restart \/ NoListener \/ \E m \in Mice : Attach(m)
  BY <1>12, <1>3 DEF Load, Create, LoadRefused, Restart, NoListener, Attach, Saving
<1>13. CASE Replace \/ SaveFails
  BY <1>13, <1>2, <1>0 DEF Replace, SaveFails, PhaseInv
<1>14. CASE Reject \/ Listen
  BY <1>14, <1>2 DEF Reject, Listen
<1>15. CASE OnboardSet
  BY <1>15, <1>2 DEF OnboardSet, Done
<1>16. ASSUME NEW r \in Registers, NEW v \in Values, SetRegister(r, v) PROVE PutInv'
  <2>1. cfg'.onboard = cfg.onboard
    BY <1>16, <1>a DEF SetRegister, Configs
  <2> QED BY <1>16, <1>2, <2>1 DEF SetRegister, SaveConfig, Saving
<1>17. ASSUME NEW r \in Registers, KeepRegister(r) PROVE PutInv'
  <2>1. cfg'.onboard = cfg.onboard
    BY <1>17, <1>a DEF KeepRegister, Configs
  <2> QED BY <1>17, <1>2, <2>1 DEF KeepRegister, SaveConfig, Saving
<1>18. ASSUME NEW b \in Thumbs, NEW t \in Texts, SetThumb(b, t) PROVE PutInv'
  <2>1. cfg'.onboard = cfg.onboard
    BY <1>18, <1>a DEF SetThumb, Configs
  <2> QED BY <1>18, <1>2, <2>1 DEF SetThumb, SaveConfig, Saving
<1>19. CASE SaveNow \/ Reload
  BY <1>19, <1>2 DEF SaveNow, Reload, SaveConfig, Saving
<1>20. CASE WriteTemp \/ FlushTemp \/ ApplyRegister \/ UNCHANGED vars
  BY <1>20, <1>1 DEF WriteTemp, FlushTemp, ApplyRegister, vars
<1>21. ASSUME NEW e \in Edits, HandEdit(e) PROVE PutInv'
  BY <1>21, <1>1 DEF HandEdit
<1>22. CASE Notice
  <2>1. UNCHANGED <<phase, job, save, mouse, cfg, cand, wants>>
    BY <1>22 DEF Notice, Declined, Accepted, ResetReads, ResetPlan, ResetRereads, ResetWrites,
       ResetDone, ResetFails
  <2>2. ~latched' => ~latched /\ \A tab, ws : (Put(tab, ws) => Put(tab, ws)')
    BY <1>22, NoticeLeaves
  <2> QED BY <2>1, <2>2
<1> QED
  BY <1>4, <1>5, <1>6, <1>7, <1>8, <1>9, <1>10, <1>11, <1>12, <1>13, <1>14, <1>15, <1>16,
     <1>17, <1>18, <1>19, <1>20, <1>21, <1>22 DEF Next, Main, Clicks

(* In the session loop the mouse has every setting and every bind that the *)
(* active configuration asks for, but those a reset on its way may undo,   *)
(* whatever start, reload, click or migration they came from               *)
(* (config_application.rs:27-47, menu.rs:168-196, 285-324).                *)
THEOREM MouseIsConfigured == Spec => []MouseHasConfig
<1> DEFINE I == WorkInv /\ NoticeInv /\ SentInv /\ PutInv
<1>1. Init => I
  BY DEF Init, WorkInv, NoticeInv, SentInv, PutInv, Applying, Held, Starting
<1>2. BaseInv /\ I /\ [Next]_vars => I'
  BY WorkStep, NoticeStep, SentStep, PutStep
<1>3. I => MouseHasConfig
  <2>1. SentInv /\ Serving => \A r \in Registers : cfg.reg[r] # Keep => sent[r] = cfg.reg[r]
    BY DEF SentInv, Serving, Held, Registered
  <2>2. PutInv /\ Serving /\ HasKeymap(mouse) => Put(cfg.onboard, {})
    BY DEF PutInv, Serving, Held, Pending
  <2> QED BY <2>1, <2>2 DEF MouseHasConfig, Put, Spared
<1> QED BY <1>1, <1>2, <1>3, Base, PTL DEF Spec
=============================================================================
