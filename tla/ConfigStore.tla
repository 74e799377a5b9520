------------------------------ MODULE ConfigStore ------------------------------
(***************************************************************************)
(* src/config.rs, src/daemon/config_application.rs, handle_menu of         *)
(* src/daemon/menu.rs and the on-board part of src/daemon.rs: the active   *)
(* configuration, its file and what the mouse was told, with the main      *)
(* thread that keeps the three together, the reset notice that changes     *)
(* the mouse behind its back, and someone with an editor.                  *)
(*                                                                         *)
(* The mouse's binds change only on command; the drift of its DPI, which   *)
(* reassert mends, is left out, and so is lighting.  A command works or    *)
(* latches (Transport).  A definition X_Y is X with the plausible mistake  *)
(* Y; no specification uses it.                                            *)
(***************************************************************************)
EXTENDS Naturals, Sequences, Onboard

CONSTANTS Mice,       \* models that may be plugged in
          Keymapped,  \* those with a recorded keymap
          DpiButtons, \* those with wheel DPI buttons
          Registers,  \* the plain settings: DPI, polling rate
          Values,     \* their values
          Takes,      \* what each model accepts
          Keep,       \* polling_rate absent: leave the mouse alone
          Optional,   \* the registers that may be so
          Defaults,   \* Config::default()
          Edits,      \* bound: files a user may write by hand
          Order,      \* Buttons, in the order of KeymapSpec.buttons
          Found,      \* binds a mouse may come with
          MaxMoves,   \* bound: clicks and hand edits
          Missing, Malformed, Absent, Torn, NoMouse

Configs ==
  [reg : [Registers -> Values \cup {Keep}],
   thumb : [Thumbs -> Texts],
   onboard : Tables]

ASSUME StoreAssumption ==
  /\ DpiButtons \subseteq Mice /\ NoMouse \notin Mice
  /\ Keymapped \subseteq Mice \ DpiButtons
  /\ Optional \subseteq Registers /\ Keep \notin Values
  /\ Takes \in [Mice -> [Registers -> SUBSET Values]]
  /\ Defaults \in Configs
  /\ Edits \subseteq Configs \cup {Missing, Malformed}
  /\ Order \in Seq(Buttons)
  /\ Found \subseteq [Buttons -> Binds]
  /\ Missing # Malformed /\ Absent # Torn
  /\ {Missing, Malformed, Absent, Torn} \cap Configs = {}
  /\ MaxMoves \in Nat

VARIABLES
  phase,    \* where the main thread is
  job,      \* why it applies something: start, reload or command
  mouse,    \* the opened model
  cfg,      \* run's cfg
  cand,     \* the candidate of apply_config_candidate
  migrated, \* it differs from what was loaded
  regs,     \* registers still to be set
  wants,    \* binds still to be put
  hand,     \* the one read and found to differ
  save,     \* the save in progress: what, and the phase after it
  temp,     \* its temporary file
  file,     \* config.toml
  apart,    \* history: the file and cfg differ for a known reason
  sent,     \* the last value each register took
  stored,   \* the binds in the mouse
  latched,  \* COMMANDS has latched
  notice,   \* the thread that offers to reset leftovers
  spares,   \* the buttons it was told are configured
  read,     \* how many buttons it has read
  left,     \* leftovers it has still to reset
  target,   \* the one read again and found to differ
  moves     \* what users did so far

main  == <<phase, job, mouse>>
work  == <<cand, migrated, regs, wants, hand>>
disk  == <<save, temp, file, apart>>
device == <<sent, stored>>
reset == <<notice, spares, read, left, target>>
vars == <<main, cfg, work, disk, device, latched, reset, moves>>

Pairs   == [button : Buttons, bind : Binds]
NoSave  == [what |-> Absent, next |-> "loop", failed |-> "loop"]
Phases  == {"boot", "waiting", "consider", "apply", "write", "applied", "save",
            "listen", "loop", "over"}

TypeOK ==
  /\ phase \in Phases /\ job \in {"start", "reload", "command"}
  /\ mouse \in Mice \cup {NoMouse}
  /\ cfg \in Configs /\ cand \in Configs /\ migrated \in BOOLEAN
  /\ regs \subseteq Registers /\ wants \subseteq Pairs
  /\ hand \in Pairs \cup {Absent}
  /\ save \in [what : Configs \cup {Absent}, next : Phases, failed : Phases]
  /\ temp \in Configs \cup {Absent, Torn}
  /\ file \in Configs \cup {Missing, Malformed}
  /\ apart \in BOOLEAN
  /\ sent \in [Registers -> Values \cup {Keep}]
  /\ stored \in [Buttons -> Binds]
  /\ latched \in BOOLEAN
  /\ notice \in {"none", "asking", "reading", "resetting", "writing", "told"}
  /\ spares \subseteq Buttons /\ read \in Nat /\ left \subseteq Buttons
  /\ target \in Buttons \cup {NoButton}
  /\ moves \in Nat

(* The process has just started: nothing is known of the mouse. *)
Init ==
  /\ phase = "boot" /\ job = "start" /\ mouse = NoMouse
  /\ cfg = Defaults /\ cand = Defaults /\ migrated = FALSE
  /\ regs = {} /\ wants = {} /\ hand = Absent
  /\ save = NoSave /\ temp = Absent /\ apart = FALSE
  /\ sent = [r \in Registers |-> Keep]
  /\ latched = FALSE
  /\ notice = "none" /\ spares = {} /\ read = 0 /\ left = {} /\ target = NoButton
  /\ file \in Edits /\ stored \in Found /\ moves = 0

Goto(p) == phase' = p
(* What users do is counted, and bounded. *)
Move == moves < MaxMoves /\ moves' = moves + 1
(* Config::save begins; its caller goes on at next, or at failed if it    *)
(* cares about the error.                                                  *)
Saving(c, next, failed) ==
  /\ Goto("save")
  /\ save' = [what |-> c, next |-> next, failed |-> failed]
(* save_config only logs a failure. *)
SaveConfig(c, next) == Saving(c, next, next)

-----------------------------------------------------------------------------
(* The configuration file.                                                 *)

(* load_or_create at the start of the process: the file is good, ... *)
Load ==
  /\ phase = "boot" /\ file \in Configs
  /\ cfg' = file
  /\ Goto("waiting")
  /\ UNCHANGED <<job, mouse, work, disk, device, latched, reset, moves>>

(* ... missing, so that the defaults are written, ... *)
Create ==
  /\ phase = "boot" /\ file = Missing
  /\ cfg' = Defaults
  /\ Saving(Defaults, "waiting", "over")
  /\ UNCHANGED <<job, mouse, work, temp, file, apart>>
  /\ UNCHANGED <<device, latched, reset, moves>>

(* ... or malformed: an alert, and the process ends. *)
LoadRefused ==
  /\ phase = "boot" /\ file = Malformed
  /\ Goto("over")
  /\ UNCHANGED <<job, mouse, cfg, work, disk, device, latched, reset, moves>>

(* A temporary file of its own, written, ... *)
WriteTemp ==
  /\ phase = "save" /\ temp = Absent
  /\ temp' = Torn
  /\ UNCHANGED <<main, cfg, work, save, file, apart>>
  /\ UNCHANGED <<device, latched, reset, moves>>

(* ... flushed ... *)
FlushTemp ==
  /\ phase = "save" /\ temp = Torn
  /\ temp' = save.what
  /\ UNCHANGED <<main, cfg, work, save, file, apart>>
  /\ UNCHANGED <<device, latched, reset, moves>>

Replace_Unflushed ==
  /\ phase = "save" /\ temp # Absent
  /\ file' = temp
  /\ temp' = Absent
  /\ apart' = FALSE
  /\ Goto(save.next) /\ save' = NoSave
  /\ UNCHANGED <<job, mouse, cfg, work, device, latched, reset, moves>>

(* ... and moved over the old one. *)
Replace ==
  /\ phase = "save" /\ temp \in Configs
  /\ file' = temp
  /\ temp' = Absent
  /\ apart' = FALSE
  /\ Goto(save.next) /\ save' = NoSave
  /\ UNCHANGED <<job, mouse, cfg, work, device, latched, reset, moves>>

(* Any step of it may fail; the temporary file is dropped. *)
SaveFails ==
  /\ phase = "save"
  /\ temp' = Absent
  /\ apart' = TRUE
  /\ Goto(save.failed) /\ save' = NoSave
  /\ UNCHANGED <<job, mouse, cfg, work, file, device, latched, reset, moves>>

(* Someone edits, replaces or deletes the file. *)
HandEdit(e) ==
  /\ file' = e /\ apart' = TRUE
  /\ Move
  /\ UNCHANGED <<main, cfg, work, save, temp, device, latched, reset>>

-----------------------------------------------------------------------------
(* Applying a candidate.                                                   *)

HasKeymap(m) == m \in Keymapped

(* migrate_thumbs, on a mouse that stores binds. *)
Migrate(c, m) ==
  IF HasKeymap(m)
    THEN [c EXCEPT !.onboard = MigrateTable(c.onboard, c.thumb),
                   !.thumb   = MigrateThumb(c.onboard, c.thumb)]
    ELSE c

(* validate_for. *)
Valid(c, m) ==
  /\ \A r \in Registers :
       c.reg[r] \in Takes[m][r] \/ (r \in Optional /\ c.reg[r] = Keep)
  /\ \A b \in Thumbs : SoftOf[c.thumb[b]] # NotAction
  /\ HasKeymap(m) => TableOk(c.onboard)

(* run_session opens a mouse; the candidate is the active configuration.   *)
(* Open fails once COMMANDS has latched.                                   *)
Attach(m) ==
  /\ phase = "waiting" /\ ~latched
  /\ mouse' = m /\ job' = "start" /\ cand' = cfg
  /\ Goto("consider")
  /\ UNCHANGED <<cfg, migrated, regs, wants, hand, disk>>
  /\ UNCHANGED <<device, latched, reset, moves>>

(* apply_config_candidate migrates and validates before any command ... *)
Consider ==
  LET c == Migrate(cand, mouse) IN
  /\ phase = "consider" /\ Valid(c, mouse)
  /\ cand' = c /\ migrated' = (c # cand)
  /\ regs' = {r \in Registers : c.reg[r] # Keep}
  /\ wants' = IF HasKeymap(mouse) THEN Wants(c.onboard) ELSE {}
  /\ Goto("apply")
  /\ UNCHANGED <<job, mouse, cfg, hand, disk, device, latched, reset, moves>>

(* The candidate lives no longer than apply_config_candidate. *)
Forget == cand' = Defaults /\ migrated' = FALSE

(* ... or rejects: an exit at the start, the old settings at a reload. *)
Reject ==
  /\ phase = "consider" /\ ~Valid(Migrate(cand, mouse), mouse)
  /\ Goto(IF job = "start" THEN "over" ELSE "loop")
  /\ apart' = TRUE /\ Forget
  /\ UNCHANGED <<job, mouse, cfg, regs, wants, hand, save>>
  /\ UNCHANGED <<temp, file, device, latched, reset, moves>>

(* set_dpi, set_polling_rate: the order among them is left open. *)
ApplyRegister ==
  /\ phase = "apply" /\ ~latched
  /\ \E r \in regs :
       /\ sent' = [sent EXCEPT ![r] = cand.reg[r]]
       /\ regs' = regs \ {r}
  /\ UNCHANGED <<main, cfg, cand, migrated, wants, hand>>
  /\ UNCHANGED <<disk, stored, latched, reset, moves>>

(* onboard::apply reads a button, and is done with it if it already        *)
(* stores what is wanted.  The order of the table is left open.            *)
ReadBind ==
  /\ phase = "apply" /\ regs = {} /\ ~latched
  /\ \E w \in wants :
       IF stored[w.button] = w.bind
         THEN wants' = wants \ {w} /\ UNCHANGED <<phase, hand>>
         ELSE hand' = w /\ Goto("write") /\ UNCHANGED wants
  /\ UNCHANGED <<job, mouse, cfg, cand, migrated, regs>>
  /\ UNCHANGED <<disk, device, latched, reset, moves>>

(* set_button_binding; a write that write_binding_report refuses is never  *)
(* sent.                                                                   *)
WriteBind ==
  /\ phase = "write" /\ ~latched /\ WriteAllowed(hand.button, hand.bind)
  /\ stored' = [stored EXCEPT ![hand.button] = hand.bind]
  /\ wants' = wants \ {hand} /\ hand' = Absent
  /\ Goto("apply")
  /\ UNCHANGED <<job, mouse, cfg, cand, migrated, regs>>
  /\ UNCHANGED <<disk, sent, latched, reset, moves>>

Done == phase = "apply" /\ regs = {} /\ wants = {}
(* The start reads every bind once more. *)
Checks == job = "start" /\ HasKeymap(mouse)

(* A command fails, a write perhaps after it took effect: the daemon stops.*)
CommandFails ==
  /\ phase = "write" \/ (phase = "apply" /\ (Done => Checks))
  /\ latched' = TRUE /\ Goto("over")
  /\ stored' \in {stored} \cup
       (IF phase = "write" /\ ~latched
          THEN {[stored EXCEPT ![hand.button] = hand.bind]} ELSE {})
  /\ UNCHANGED <<job, mouse, cfg, work, disk, sent, reset, moves>>

Ask(tab) ==
  /\ notice' = "asking" /\ spares' = Managed(tab)
  /\ read' = 0 /\ left' = {} /\ target' = NoButton

(* check_onboard_binds, after the writes: leftovers raise the notice, on a *)
(* thread of its own.  Nothing else changes binds yet, so the reads are    *)
(* one step.                                                               *)
CheckOnboard ==
  /\ Done /\ Checks /\ ~latched
  /\ IF \E b \in Buttons : Leftover(stored, b, Managed(cand.onboard))
       THEN Ask(cand.onboard) ELSE UNCHANGED reset
  /\ Goto("applied")
  /\ UNCHANGED <<job, mouse, cfg, work, disk, device, latched, moves>>

(* A mouse without a keymap has no binds to check; a reload checks none. *)
CheckNothing ==
  /\ Done /\ job # "command" /\ ~Checks
  /\ Goto("applied")
  /\ UNCHANGED <<job, mouse, cfg, work, disk, device, latched, reset, moves>>

(* At the start the rest of the session's setting up follows. *)
Committed == IF job = "start" THEN "listen" ELSE "loop"

Commit_NotSaved ==
  /\ phase = "applied"
  /\ cfg' = cand /\ Forget
  /\ Goto(Committed)
  /\ UNCHANGED <<job, mouse, regs, wants, hand, disk>>
  /\ UNCHANGED <<device, latched, reset, moves>>

(* The candidate becomes the active configuration; a migrated one is saved.*)
Commit ==
  /\ phase = "applied"
  /\ cfg' = cand /\ Forget
  /\ IF migrated THEN SaveConfig(cand, Committed)
                ELSE Goto(Committed) /\ UNCHANGED save
  /\ UNCHANGED <<job, mouse, regs, wants, hand, temp>>
  /\ UNCHANGED <<file, apart, device, latched>>
  /\ UNCHANGED <<reset, moves>>

(* Driver mode and listeners, on a mouse with DPI buttons, then the loop,  *)
(* ...                                                                     *)
Listen ==
  /\ phase = "listen"
  /\ mouse \in DpiButtons => ~latched
  /\ Goto("loop")
  /\ UNCHANGED <<job, mouse, cfg, work, disk, device, latched, reset, moves>>

(* ... or no collection is readable: the next session starts from the      *)
(* configuration this one committed.                                       *)
NoListener ==
  /\ phase = "listen" /\ mouse \in DpiButtons /\ ~latched
  /\ Goto("waiting") /\ mouse' = NoMouse
  /\ UNCHANGED <<job, cfg, work, disk, device, latched, reset, moves>>

-----------------------------------------------------------------------------
(* handle_menu: commands of the tray and the settings window.              *)

(* SetDpi, SetPollingRate(Some). *)
SetRegister(r, v) ==
  /\ phase = "loop" /\ ~latched /\ v \in Takes[mouse][r]
  /\ sent' = [sent EXCEPT ![r] = v]
  /\ cfg' = [cfg EXCEPT !.reg[r] = v]
  /\ SaveConfig(cfg', "loop")
  /\ Move
  /\ UNCHANGED <<job, mouse, work, temp, file, apart, stored, latched, reset>>

(* SetPollingRate(None): the mouse keeps what it has. *)
KeepRegister(r) ==
  /\ phase = "loop" /\ r \in Optional
  /\ cfg' = [cfg EXCEPT !.reg[r] = Keep]
  /\ SaveConfig(cfg', "loop")
  /\ Move
  /\ UNCHANGED <<job, mouse, work, temp, file, apart, device, latched, reset>>

(* SetThumbBack, SetThumbForward; an invalid text changes nothing. *)
SetThumb(b, t) ==
  /\ phase = "loop" /\ SoftOf[t] # NotAction
  /\ cfg' = [cfg EXCEPT !.thumb[b] = t]
  /\ SaveConfig(cfg', "loop")
  /\ Move
  /\ UNCHANGED <<job, mouse, work, temp, file, apart, device, latched, reset>>

SetOnboard_Unchecked(b, t) ==
  /\ phase = "loop" /\ HasKeymap(mouse)
  /\ cfg' = [cfg EXCEPT !.onboard = SetEntry(@, b, t)]
  /\ wants' = {[button |-> b, bind |-> x] : x \in {ParseBind(t, b)} \ {NotBind}}
  /\ job' = "command"
  /\ Goto("apply")
  /\ Move
  /\ UNCHANGED <<mouse, cand, migrated, regs, hand, disk, device, latched, reset>>

(* SetOnboard: the entry is staged, then put on the mouse, and not saved;  *)
(* a rejected one changes nothing.                                         *)
SetOnboard(b, t) ==
  /\ phase = "loop" /\ HasKeymap(mouse) /\ EntryOk(KeyOf[b], t)
  /\ cfg' = [cfg EXCEPT !.onboard = SetEntry(@, b, t)]
  /\ wants' = {[button |-> b, bind |-> ParseBind(t, b)]} /\ job' = "command"
  /\ Goto("apply")
  /\ Move
  /\ UNCHANGED <<mouse, cand, migrated, regs, hand>>
  /\ UNCHANGED <<disk, device, latched, reset>>

(* onboard_result: the bind is on the mouse. *)
OnboardSet ==
  /\ Done /\ job = "command"
  /\ Goto("loop")
  /\ UNCHANGED <<job, mouse, cfg, work, disk, device, latched, reset, moves>>

(* SetOnboard with a blank text: the button is left alone from now on. *)
ClearOnboard(b) ==
  /\ phase = "loop" /\ HasKeymap(mouse)
  /\ cfg' = [cfg EXCEPT !.onboard = Without(@, b)]
  /\ Move
  /\ UNCHANGED <<main, work, disk, device, latched, reset>>

(* Save. *)
SaveNow ==
  /\ phase = "loop"
  /\ SaveConfig(cfg, "loop")
  /\ Move
  /\ UNCHANGED <<job, mouse, cfg, work, temp, file>>
  /\ UNCHANGED <<apart, device, latched, reset>>

(* ReloadConfig: load_or_create again; a malformed file changes nothing,   *)
(* and a missing one is written first.                                     *)
Reload ==
  /\ phase = "loop" /\ file # Malformed
  /\ job' = "reload"
  /\ IF file = Missing
       THEN cand' = Defaults /\ Saving(Defaults, "consider", "loop") /\ UNCHANGED apart
       ELSE cand' = file /\ Goto("consider") /\ apart' = FALSE /\ UNCHANGED save
  /\ Move
  /\ UNCHANGED <<mouse, cfg, migrated, regs, wants, hand>>
  /\ UNCHANGED <<temp, file, device, latched, reset>>

(* A command of the loop fails, or ensure_active finds the latch: a stop. *)
LoopStops ==
  /\ phase \in {"listen", "loop"}
  /\ latched' = TRUE /\ Goto("over")
  /\ UNCHANGED <<job, mouse, cfg, work, disk, device, reset, moves>>

-----------------------------------------------------------------------------
(* The notice: reset_leftovers on its own thread, with its own handle.     *)

Declined ==
  /\ notice = "asking"
  /\ notice' = "none"
  /\ UNCHANGED <<main, cfg, work, disk, device, latched>>
  /\ UNCHANGED <<spares, read, left, target, moves>>

(* Yes: Mouse::open, then read_binds, a button at a time. *)
Accepted ==
  /\ notice = "asking" /\ ~latched /\ HasKeymap(mouse)
  /\ notice' = "reading"
  /\ UNCHANGED <<main, cfg, work, disk, device, latched>>
  /\ UNCHANGED <<spares, read, left, target, moves>>

ResetReads_SparesNone ==
  /\ notice = "reading" /\ ~latched /\ read < Len(Order)
  /\ read' = read + 1
  /\ left' = left \cup {b \in {Order[read + 1]} : Leftover(stored, b, {})}
  /\ UNCHANGED <<main, cfg, work, disk, device, latched>>
  /\ UNCHANGED <<notice, spares, target, moves>>

ResetReads ==
  /\ notice = "reading" /\ ~latched /\ read < Len(Order)
  /\ read' = read + 1
  /\ left' = left \cup {b \in {Order[read + 1]} : Leftover(stored, b, spares)}
  /\ UNCHANGED <<main, cfg, work, disk, device, latched>>
  /\ UNCHANGED <<notice, spares, target, moves>>

(* reset_plan: a leftover that cannot be written is only reported. *)
ResetPlan ==
  /\ notice = "reading" /\ read >= Len(Order)
  /\ notice' = "resetting" /\ left' = left \cap Writable
  /\ UNCHANGED <<main, cfg, work, disk, device, latched>>
  /\ UNCHANGED <<spares, read, target, moves>>

(* apply, as for the session: read a button again ... *)
ResetRereads ==
  /\ notice = "resetting" /\ ~latched
  /\ \E b \in left :
       IF stored[b] = Default[b]
         THEN left' = left \ {b} /\ UNCHANGED <<notice, target>>
         ELSE notice' = "writing" /\ target' = b /\ UNCHANGED left
  /\ UNCHANGED <<main, cfg, work, disk, device, latched, spares, read, moves>>

(* ... and write its default. *)
ResetWrites ==
  /\ notice = "writing" /\ ~latched /\ WriteAllowed(target, Default[target])
  /\ stored' = [stored EXCEPT ![target] = Default[target]]
  /\ left' = left \ {target} /\ target' = NoButton
  /\ notice' = "resetting"
  /\ UNCHANGED <<main, cfg, work, disk, sent, latched, spares, read, moves>>

ResetDone ==
  /\ notice = "resetting" /\ left = {}
  /\ notice' = "told"
  /\ UNCHANGED <<main, cfg, work, disk, device, latched>>
  /\ UNCHANGED <<spares, read, left, target, moves>>

(* The open is refused, or a command fails and latches. *)
ResetFails ==
  /\ \/ notice = "asking" /\ UNCHANGED latched
     \/ notice \in {"asking", "reading", "resetting", "writing"} /\ latched' = TRUE
  /\ notice' = "told" /\ left' = {} /\ target' = NoButton
  /\ stored' \in {stored} \cup
       (IF notice = "writing" /\ ~latched
          THEN {[stored EXCEPT ![target] = Default[target]]} ELSE {})
  /\ UNCHANGED <<main, cfg, work, disk, sent, spares, read, moves>>

-----------------------------------------------------------------------------
(* The process ends (Quit, a stop's exit, a crash, power lost) and is      *)
(* started again; file and binds are what they were.                       *)
Restart ==
  /\ phase # "boot"
  /\ phase' = "boot" /\ job' = "start" /\ mouse' = NoMouse
  /\ cfg' = Defaults /\ cand' = Defaults /\ migrated' = FALSE
  /\ regs' = {} /\ wants' = {} /\ hand' = Absent
  /\ save' = NoSave /\ temp' = Absent /\ apart' = FALSE
  /\ sent' = [r \in Registers |-> Keep]
  /\ latched' = FALSE
  /\ notice' = "none" /\ spares' = {} /\ read' = 0 /\ left' = {} /\ target' = NoButton
  /\ UNCHANGED <<file, stored, moves>>

(* The window shows the software remaps of a mouse without a keymap, the   *)
(* on-board binds of the others, and never those of the main clicks.  A    *)
(* value its mouse refuses cannot reach the loop (Daemon's NoReconnect).   *)
Clicks ==
  \/ \E r \in Registers, v \in Values : SetRegister(r, v)
  \/ \E r \in Registers : KeepRegister(r)
  \/ \E b \in Thumbs, t \in Texts : SetThumb(b, t) /\ ~HasKeymap(mouse)
  \/ \E b \in Writable \ MainClicks, t \in Texts : SetOnboard(b, t)
  \/ \E b \in Writable \ MainClicks : ClearOnboard(b)
  \/ SaveNow \/ Reload

Main ==
  \/ Load \/ Create \/ LoadRefused
  \/ WriteTemp \/ FlushTemp \/ Replace \/ SaveFails
  \/ \E m \in Mice : Attach(m)
  \/ Consider \/ Reject
  \/ ApplyRegister \/ ReadBind \/ WriteBind \/ CommandFails
  \/ CheckOnboard \/ CheckNothing \/ Commit \/ Listen \/ NoListener \/ OnboardSet
  \/ LoopStops

Notice ==
  \/ Declined \/ Accepted \/ ResetReads \/ ResetPlan
  \/ ResetRereads \/ ResetWrites \/ ResetDone \/ ResetFails

Next == Main \/ Notice \/ Clicks \/ Restart \/ \E e \in Edits : HandEdit(e)

Spec == Init /\ [][Next]_vars

-----------------------------------------------------------------------------
(* Properties.                                                             *)

Serving == phase = "loop" /\ ~latched

(* What a session runs on is valid for the mouse it opened, whichever of   *)
(* start, reload, window and migration it came from, and whatever the file *)
(* says by now (config_application.rs:27-29).                              *)
ActiveIsValid == phase = "loop" => Valid(cfg, mouse)

(* The lone entries of the [onboard] table; with two spellings of a button *)
(* the last one in the table's order wins.                                 *)
Lone(tab) ==
  {k \in DOMAIN tab : \A j \in DOMAIN tab : ButtonOf[j] = ButtonOf[k] => j = k}

(* In the session loop the mouse has what the active configuration asks    *)
(* for: every register it manages, and every bind, except those that a     *)
(* reset on its way does not know to be configured.                        *)
MouseHasConfig ==
  Serving =>
    /\ \A r \in Registers : cfg.reg[r] # Keep => sent[r] = cfg.reg[r]
    /\ HasKeymap(mouse) =>
         \A k \in Lone(cfg.onboard) :
           ButtonOf[k] \in spares \/ notice \in {"none", "asking"} =>
             stored[ButtonOf[k]] = ParseBind(cfg.onboard[k], ButtonOf[k])

(* No write reaches write_binding_report that it would refuse: what        *)
(* parse_config and reset_plan let through can be written, and a main      *)
(* click is never rebound.                                                 *)
WritesAreApproved ==
  /\ phase = "write" => WriteAllowed(hand.button, hand.bind)
  /\ notice \in {"resetting", "writing"} =>
       \A b \in left : WriteAllowed(b, Default[b])

(* Back in the loop the file has the settings that were made, unless its   *)
(* save failed or someone edited it: all but the on-board table, which     *)
(* waits for Save.                                                         *)
SettingsAreSaved ==
  phase = "loop" /\ ~apart =>
    file \in Configs /\ file = [cfg EXCEPT !.onboard = file.onboard]

(* The program changes the file in one way: to the whole configuration it  *)
(* is saving.  A crash leaves the old file or the new one.                 *)
OnlyWholeFiles ==
  [][file' = file \/ (\E e \in Edits : HandEdit(e)) \/ file' = save.what]_vars

(* A remap that moves to the mouse is there under the same text, and one   *)
(* the mouse cannot store stays in software.                               *)
RemapsSurvive ==
  [][Consider =>
       \A b \in Thumbs :
         b \in Managed(cand.onboard)
         \/ cand'.thumb[b] = cand.thumb[b]
         \/ (cand'.thumb[b] = NoneText /\ KeyOf[b] \in DOMAIN cand'.onboard
               /\ cand'.onboard[KeyOf[b]] = cand.thumb[b])]_vars
=============================================================================
