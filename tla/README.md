# Snakecharmer in TLA+

Snakecharmer is a tray daemon for three Razer mice. It owns the mouse's control
endpoint, keeps DPI, polling rate, lighting and driver mode as configured, turns
the wheel's DPI buttons and the thumb buttons into keystrokes, stores binds on the
mice that have a keymap, and stops for good when a device command fails. This
directory holds TLA+ models of it, the TLC configurations that check them, and
proofs that TLAPS checks.

## The system

| component | state | operations | hard because | modules |
|---|---|---|---|---|
| command transport (`crates/razer-hid`) | `COMMANDS`: a mutex over the latch `stopped`; the mouse's registers | get, set (read, write, read back), light; `ensure_active`, `stop_commands` | three kinds of thread share one device; each exchange can fail anywhere | `SafetyGate`, `Transport` |
| daemon (`src/daemon.rs`) | the session, `settings_open`, `popup_open`, the event channel | `run`, `run_session`, `service_retry_gap`, `shutdown`, `stop_for_safety` | one channel fed by five kinds of thread; two loops that read it; process exit | `Daemon` |
| maintenance and retries (`Maintenance`, `next_retry_delay`) | last re-assertion, last contact, retry delay | `wait`, `service_due` | event traffic, a reload of the interval, slow commands | `Session` |
| listeners (`reader_thread`, `handle_code`) | previous report, last code fired | read, rising edges, debounce | end the daemon when they fail; presses wait behind commands | `Daemon`, `Session` |
| tray (`crates/platform/src/tray.rs`) | `MENU`, `TRAY_HWND`, the menu on screen | `run`, `set_menu`, clicks, hook sync | its own thread; stale menus | `Daemon`, `MouseHook`, `Values` |
| settings window (`crates/platform/src/settings.rs`) | `SETTINGS_HWND`, the boxes, the test step, the layout | open, focus, record, save, close | its own thread; outcomes arrive later | `SettingsWindow`, `SettingsForm`, `Values` |
| mouse hook (`crates/platform/src/mouse_hook.rs`) | `WANTED`, `HOOK`, `STATE`, `SUPPRESSED` | `set_thumb_actions`, `sync`, `uninstall`, `hook_proc` | wanted on one thread, installed on another, removed on a third's way out | `MouseHook` |
| control lease (`process_lease.rs`, `control_lease`) | a named kernel object, a weak reference | open, share, drop | last drop against a new open; `charmctl` | `Lease`, `Processes` |
| start with Windows (`autostart.rs`) | the Run value, `autostart_bootstrapped`, the tray's tick | bootstrap, toggle, refresh | unreadable values, other writers | `Processes` |
| on-board binds (`src/onboard.rs`, keymap) | the mouse's keymap, `[onboard]`, leftovers offered | parse, apply, reset, migrate | the reset notice works from an old configuration | `Onboard`, `ConfigStore` |
| configuration (`src/config.rs`, `config_application.rs`, `daemon/menu.rs`) | active configuration, file | load, validate, apply, save, reload | candidate against active; crash while saving | `ConfigStore`, `Values` |
| health capsule (`src/health.rs`) | subjects, incidents, sequence | starting, connected, session_failed, refresh, stopped | bounded history, failed publication, restarts | `Health` |
| protocol (`crates/razer-proto`) | none | build, validate and parse reports, binds and their texts | ranges, two families of codes, encodings | `Reports`, `Values` |

They interact as follows. The main thread runs a session on one mouse, or waits in
a gap for one; every other thread reaches it by posting an event on its channel.
All device commands, from whichever thread, take the transport's mutex. A failure
anywhere sets the transport's latch, and the main thread finds it at the top of its
loop, in an error, or as `ListenerClosed`. The main thread answers the settings
window by posting to its queue, publishes the capsule, and writes `config.toml`. The
tray menu, the notice flag and the mouse hook are the other shared cells of the
process; the lease, the Run value, `config.toml` and the capsule outlive it.

## Modules

- `SafetyGate` is what the transport promises: one owner at a time, reports only
  from the owner and only before a failure, no way out of a failed command except
  through the latch, a latch that keeps its first reason.
- `Transport` is the code of `crates/razer-hid`: threads that run commands, each a
  script of exchanges, under the mutex. A thread is `idle`, `queued` for the mutex,
  `ready` to send, has `sent` and waits for the answer, or has `failed` and holds the
  mutex until `Latch`; `stopping` is `stop_commands` waiting for it. `Acquire` and
  `Refused` are `SafetyGate::run`'s check, `Send`/`SendFails` and
  `Answer`/`Finish`/`Mismatch`/`BadAnswer` are the two halves of `exchange` and the
  comparison of `write_verified`, `Latch` is the end of `SafetyGate::run`. `Drift`
  is the mouse changing a register by itself. `held`, `wire` and `faulted` are
  history variables for the properties.
- `Daemon` is `src/daemon.rs`: `phase` is where the main thread is. `opening`,
  `starting` and `probing` are the stretches of `run_session` before its loop; `check`,
  `recv` and `maint` are the three steps of a round of the loop (`ensure_active`, one
  event, `service_due`); `gap` is `service_retry_gap`; `alert` is an alert that is up
  before `exit(1)`, `stopped` after it, and `quit` is `exit(0)`. The other actions are
  the other threads, the user and the USB bus. A device command either works, when
  the session's handle is live and nothing latched, or fails and stops; what happens
  inside one is `Transport`'s business.
- `Session` is time in the same loop. Instants are ages that `Tick` advances while the
  main thread waits (`wait`), handles an event (`handle`) or performs a task
  (`perform`). `Plan` is `Maintenance::wait` with the heartbeat's share; `Perform`,
  `NotDue` and `Performed` are `service_due`, with the deadline counted from the end of
  a task; `Beat` is `refresh_if_due`; `End` is `next_retry_delay`. `Report` is a
  listener's difference of two reports, `Drop` and `Fire` are `handle_code`.
- `Health` is `HealthReporter`. An event changes what the reporter remembers and ends
  in `PublishAfter`, which drops what is no longer needed, caps the subjects and drops
  what cites those that go; `Persist` or `PersistFails` follows as a step of its own,
  between which the process may end. `file` is the capsule on disk.
- `Lease` is what the control lease promises the programs: the mouse has one owner or
  none, only its threads have handles, and it changes hands only through nobody.
- `Processes` is what several processes share. A thread's `pc` is its position in
  `Mouse::open_with` and in the drop of a `Mouse`, and says who has a handle of the
  named object and who shares the `Arc`. `task` is where a daemon's main thread is in
  `bootstrap_autostart` or `toggle_autostart`, one step for each access to the Run
  value. `Outside` is anyone else who writes that value; `Exit` is the end of a process
  anywhere.
- `MouseHook` is `mouse_hook.rs` with the tray's part of it, one step for each access
  to a shared cell or call of the system: `StoreWanted`/`Lock`/`Unlock`/`RequestSync`
  are `set_thumb_actions` on the main thread, `Leave`/`Removed`/`Exit` its way out,
  `Starts`/`FirstSync`/`Dispatch` what makes the tray thread sync, and `Agrees`,
  `Install`/`StoreHook` and `TakeHook`/`Unhook` the three ways a sync ends. `Press` and
  `Release` are `hook_proc`, which the system runs on the tray thread while that waits
  for messages; `held` and `seen` record what became of a press and what the programs
  behind the hook believe.
- `Onboard` is the keymap's rules and `src/onboard.rs` as operators: the two parsers a
  text goes through (`SoftOf`, `BindOf`), what an `[onboard]` entry may ask for
  (`EntryOk`), what `write_binding_report` lets out (`WriteAllowed`), leftovers, and the
  migration of software remaps (`MigrateTable`, `MigrateThumb`). A text, a bind or a key
  is a constant; only what the parsers tell apart about it matters.
- `ConfigStore` uses `Onboard` for the state machine around `config.toml`. `phase` is
  where the main thread is: `boot` (`load_or_create`), `waiting` for a mouse,
  `consider`, `apply`, `write` and `applied` (the four stretches of
  `apply_config_candidate`: migrate and validate, set registers and read binds, write
  the bind just read, commit), `save` (the three steps of `Config::save`: a temporary
  file, its flush, its move over the old one), `listen` and `loop` (the session, where
  `handle_menu`'s commands arrive) and `over`. `notice` is the thread that the reset
  notice runs on: it opens the mouse again, reads the binds one at a time, plans, and
  writes what it planned, between the steps of everything else. `HandEdit` is someone
  with an editor and `Restart` a crash, a power cut or a new start, at any moment.
  `apart` is a history variable: file and configuration differ for a reason the user
  was told of or made himself.
- `SettingsWindow` is the window's thread where it holds more than a picture: the
  on-board boxes. `messages` is its queue, `events` the daemon's channel. `Apply` is
  `apply_onboard` wherever it is called from; `FocusBox`, `FocusOther`, `TabOnward` and
  `HandleDefocus` are the ways the focus moves; `Choose` and `PressInBox` the list and
  the key recorder; `HandleResult` is `WM_APP_ONBOARD`; `Press`/`Release` are the mouse as
  raw input shows it and `Judge` the verdict. `SetOnboard` is the main thread's answer.
  `name` tells a window from the one before it. The user acts when the queue is empty,
  since `GetMessageW` hands out posted messages before input.
- `Reports` is `razer-proto` as operators: constructors that refuse, parsers at their
  offsets, the tables of codes, the texts of binds. `SettingsForm` is the pure part of
  the window: which controls there are, the plan of rows and drawing, what each list
  offers and how an entry maps back, the slider's rounding. `Values` composes both with
  the commands of `daemon/menu.rs`: a click is turned into a value, a report, what the
  mouse keeps and what the configuration records.

`Daemon`, `Session`, `ConfigStore` and `Values` look at the same main thread from four
sides: which event it serves and what survives a session, when it does what, what it
applies and saves while things fail, and which bytes it sends. Each leaves the others'
data out. The one fact `ConfigStore` takes from `Daemon` is `NoReconnect`: the window and
the menu of a session meet only the mouse they were made for, so a value that its mouse
refuses does not reach `handle_menu`; that none of those is refused is `NothingRefused`
of `Values`. `SettingsWindow` takes from `Daemon` that there is one window at a time and
repeats just enough of the latch to check its own part; `Processes` takes from `Session`
that a retry comes.

Each definition is mapped to its lines in `PROJECT.json`. Names with an underscore
(`Finish_NotCompared`) are faulty variants of the definition that follows them. No
specification uses them; substituted one at a time they show that each property
notices the mistake it is meant for.

## What the runs check

Each property is stated in words, with the lines it is about, where it is defined; here
is what a reader needs to judge the instance.

`transport` (two threads, one register with a read form and one without, two lit
zones, two values; 20 thousand states). Two threads suffice because every property
relates one thread to one other; three were tried and pass as well.

- `ImplementsGate`: the refinement of `SafetyGate`: reports of different threads do not
  mix, none follows a failed exchange, and whoever is told of a failure finds the latch.
- `ConfirmedChannel`: a write follows a read of the same command.
- `VerifiedWrite`: a set that returns `Ok` took effect, even if the mouse drifts.
- `ChannelReleased`: the mutex is always given back.

`daemon` (one button mouse with the shorter DPI range, one keymapped mouse, an
unsupported one; one listener, two notice threads, clicks while fewer than two
events wait; 2.2 million states under the symmetry of the notice threads).

- `LatchesAreTrue`: `settings_open` is true exactly while there is a window or an
  unhandled `SettingsClosed`, of which there is at most one; `popup_open` is true
  exactly while a notice is up, and only one is.
- `NoReconnect`: once the loop serves a mouse, the process never opens another; its
  window and its listeners therefore never outlive their session. This rests on the
  device table: every mouse accepts the whole DPI ladder, and the mice with DPI
  buttons have the lowest maximum (`RangeAssumption`). Were a button mouse to have
  the higher maximum, a preset left on the screen could end a later session without
  a stop.
- `DriverModeIsHeard`: a mouse in driver mode is heard, or commands have stopped.
- `QuitRestoresSession`: Quit in a session leaves hardware mode.

`daemon_liveness` (the same with one DPI range, one notice thread and one waiting
click): `QuitEnds`, `OpenIsAnswered` (a request for the settings window meets a window
or a notice) and `LostMouseStops` (a lost listener or an unplugged mouse stops the
daemon). The bound on waiting clicks only delays the user; messages of the program's own
threads are never held back, so the channel can be longer than it.

`session` (a liveness deadline of 2, intervals of 2 and 4, a heartbeat of 3 that falls
between them, tasks and handlers of up to 1, a debounce of 1, two buttons that one report
can press together, two waiting presses; 616 thousand states). What matters is the order
of the deadlines and that a handler may outlast each of them; the numbers give every
order, and `SessionHookProofs` has every other value.

- `DeadlinesHold`: presses, clicks, reloads and heartbeats do not postpone a device check.
- `NoIdleRound`: a wait that times out is followed by a task or a publication, whatever
  the clock did between the reads that `wait` and `service_due` take of it.
- `Relocks`: a setting the mouse loses is set again while the session lasts.

`health` (three mice and room for two subjects and two incidents, so that both caps are
reached, one of them by incidents of a mouse that left; a counter that saturates at 2, a
sequence that ends at 6, an earlier capsule; six moves of mice, disk and user; 185
thousand states).

- `CapsuleIsConsistent`: citations, episodes, status and caps of every capsule on disk.
- `SequenceGrows`: a capsule that replaces another has the sequence after it, across
  failed writes, crashes and restarts. A failed publication that used a number up would
  leave a gap.
- `HeartbeatMends`: from any moment of a session, the file comes to say what the reporter
  knows, or the session ends. A publication on its way counts as the session
  (`InSession`), so that trying to write is not enough: what a failed write or a deleted
  file lost has to be on disk. That writes do not fail for ever is the bound `MaxMoves`.

`processes` (a daemon with its main thread and a notice's, two runs of `charmctl`;
187 thousand states). Two tools are enough for a tool to meet a tool that is on its way
out while the daemon retries. Two daemons at once and a tool were tried for the two
invariants and `OneController` (8.2 million states); `ProcessesProofs` has any number.

- `ImplementsLease`: the refinement of `Lease`: one process has the mouse, its threads have
  handles only under the lease, and the last is closed before the next process takes it.
- `TickIsRead`: the tray's tick is what a read said, or admits that it failed.
- `RemovalIsRespected`: a registration the user removed stays removed. Two daemons at
  once and a removal in the middle of a start are excepted: `refresh` can write back what
  was removed after its read (`autostart.rs:98-104`).
- `LeaseComesBack`: a daemon that retries alone gets the lease.

`mouse_hook` (two thumb buttons, every set of remaps, two handles, a queue of two
messages; 138 thousand states). Two handles suffice, since one hook can be on its way
out while the next comes, and two messages, since a sync reads the latest wish.

- `HookIsOwned`: once no sync is left to run, the hook exists exactly for a remap,
  whichever thread was first and whether or not the tray was there to be asked; and no
  hook leaks before the daemon leaves.
- `DownIsRemembered`: a suppressed press keeps its bit until its release.
- `WishIsMet`: when the configuration is left alone, the hook comes to match it.

`config_store` (one mouse with a keymap and one with DPI buttons and without; four
buttons: a thumb button, the wheel click, the main clicks; a register with two values,
of which one mouse takes both; texts that are a bind and a software action, one of the
two, or neither; a file that is missing, malformed, right for both mice with a remap to
migrate, or right for one of them; two states the mouse may come in; three clicks or hand edits;
1 million states). Every property relates one setting or one bind to the file or to
the mouse, so one of each kind is enough. Three moves give what takes most of them: an
edit, a reload and a click. Restarts are not bounded.

- `ActiveIsValid`: the loop runs on a configuration that its mouse accepts.
- `MouseHasConfig`: in the loop the mouse has what the active configuration asks for,
  except where a reset on its way does not know of an entry.
- `WritesAreApproved`: nothing is handed to `write_binding_report` that it refuses, by
  the session or by the reset; a refusal would latch and stop the daemon.
- `SettingsAreSaved`: back in the loop the file has every setting but the on-board
  table, unless a save failed or someone edited the file.
- `OnlyWholeFiles`: the program changes `config.toml` only to the whole of what it saves.
- `RemapsSurvive`: migration loses no software remap.

`settings_window` (two boxes; a text for a chord, one for a disabled button and one that
is no bind; a user who waits while two events are queued; 902 thousand states). Two boxes
are enough for a result of one to arrive in the test of the other. A blank text is in the
model and not in this instance, where it would be one more text that changes no bind.

- `ResultsComeHome`: a result meets the window that asked for it, or none.
- `TestIsStored`: the window waits for a press that the mouse's bind can produce.
- `UntouchedIsQuiet`: nothing is sent for a box that the user did not choose or type in.
- `SavingEnds`: "saving" is never the last word of the status line.
- `TypeOK` says here that a test is always for a bind that sends something.

`values` (a mouse with two zones, one with DPI buttons, one with a plain sensor, one with
seven rates and one with stored buttons, each used for what it has, from three
configurations: a fresh one, one with two DPI values, "none" for an effect and a custom
action, and one at the end of the range with a color that is none; and 504 mice that are
only looked at: every mix of zones, DPI buttons, keymaps and drawings with all slots, none
or one missing, narrow, too wide and lopsided; 87 thousand states). The user of each mouse
is limited to its feature (`Acts`), since commands of different features touch different
registers; slider positions are the ends, the halves of a step and what lies between.

- `MouseAnswersConfig`: what the mouse would answer to each get is what the
  configuration says.
- `WindowShowsConfig`: what the window shows is, too. A text that is no color, as in the
  third configuration, shows as green (`Swatch`, `daemon.rs:223`) until a color is chosen,
  and is excepted; so is "none" for an effect, which shows as "keep", and what the tray
  changes behind the window.
- `NothingRefused`: the program offers no value that its own reports refuse.
- `FormIsWhole`: every capability has one control with an id of its own, and the rows,
  the drawing and the bottom bar fit the plan.
- `TypeOK` says here that bytes are bytes and the slider is within its range.

Two runs show the program contradicting its own text, each with the shortest
behaviour as its counterexample (`findings` in `PROJECT.json` quotes the text):

- `quit_in_gap`: Quit in the gap leaves a mouse in driver mode that was found unreadable.
- `stuck_thumb_button`: a stale bit swallows the release of a press that was passed on.

The models have these other places where code and text differ; no run is spent on them:

- The stop notice can be up with a hook installed: `uninstall` on the main thread does not
  clear `WANTED`, and a sync still to come installs the hook again (`daemon.rs:722`;
  docs/SPEC.md:78-80 says the stop removes it).
- An on-board bind reaches the mouse and the active table, and the file only with the next
  save (`menu.rs:303`; docs/SPEC.md:286-287 says every change goes to the file right away).
- The reset notice works from the `[onboard]` table of the attach and so undoes a bind that
  was chosen in the window since (`daemon.rs:1059`; onboard.rs:47-48). `MouseHasConfig`
  excepts this case.
- Migration drops a software remap whose button has the entry "default", although the
  remap, not the stored bind, was what the button sent (`onboard.rs:309`). `RemapsSurvive`
  excepts a button with an entry.
- A reset whose own open fails is announced as "Device communication has stopped"
  (`daemon.rs:1088`), although nothing latched.
- The last handle of the mouse on its way out makes an open of the same process `Busy`
  (`CloseHandle` and `Acquire` of `Processes`), although handles within one process are to
  share the lease (`crates/razer-hid/src/lib.rs:323-324`). It heals with the next retry.
- Right-hand modifiers, unknown binds and unnamed usages are displayed in a way that does
  not parse (`keymap.rs:209` says that it does).

### Fairness

In `Transport`, weak fairness for a thread inside a command: every HID call returns. None
for a thread waiting for the mutex: `std::sync::Mutex` is not fair, so freedom from
starvation is not claimed. In `Daemon`, weak fairness for the main thread (its HID
calls return and `recv_timeout` ends; the first receive of a gap takes a waiting
event, since the gap is at least three seconds long), for the posting threads, and
for a listener's read only once the mouse is gone; strong fairness for a maintenance
that is due, because deadlines pass in every stretch of time. The user owes nothing:
alerts and notices may stay up for ever. In `MouseHook`, weak fairness for the rest of
`set_thumb_actions` once begun and for the tray thread.

In `Session`, weak fairness for the main thread's own steps and strong fairness for time,
which events without end could otherwise hold still. In `Health`, a publication that is
under way ends, well or badly, the loop comes round to a due heartbeat, and time passes;
a write need not succeed, but fails only `MaxMoves` times. In `SettingsWindow`, both
threads serve their queues. In `Processes`, threads that open, close or refuse go on, and
so do a daemon's steps; `Acquire` is strongly fair because `CreateMutexW` may fail and be
tried again, and `Upgrade` of a daemon's main thread because the retries of `Session` come
back however often the menu is used in between.

## What is proved

TLAPS checks these for every value of the constants that the named assumptions allow.
A property that no run's instance could settle, such as one about any cap, any interval
or any number of processes, is proved for that reason.

`TransportProofs` proves, for every set of threads, registers, values, zones and
requested commands allowed by `TransportAssumption`, `ClearAssumption` and
`RequestedAssumption`, that `Transport` keeps `TypeOK`, `FailureLatched`,
`NoSendAfterFault`, `ReportsContiguous`, `ConfirmedChannel` and `VerifiedWrite`, and
implements `SafetyGate`. None of them is inductive by itself. The invariant says who
holds the mutex (exactly the thread inside a command), that a fault is either still
in the hands of the mutex's holder or already in the latch, that the last report on
the wire is the holder's previous step, and what `held` contains at each step of a
set; a second one says that a thread past its first exchange runs a command whose
script has the shape `write_verified` gives it.

`DaemonProofs` proves, for any mice, notices and listeners, any DPI ranges that satisfy
`RangeAssumption` and a channel of any length, that `Daemon` keeps `TypeOK`,
`LatchesAreTrue`, `DriverModeIsHeard`, `NoReconnect` and
`QuitRestoresSession`. `NoReconnect` needs `RangeInv`: every DPI in the channel, every
value the slider can still send and every preset of the menu stored or shown is within
the range of the mouse being served or, while there is none, of every mouse, so that
`RecvSet` never takes its refusing branch. `DriverModeIsHeard` needs that only a mouse
with DPI buttons is ever in driver mode (`ModeInv`) and that its listeners were started
and latch when they fail (`ReaderInv`). `WindowLatch` is inductive over the indices of
`SettingsClosed` in the channel; two lemmas say what taking the head and appending do
to them. Each invariant is proved for the few actions that touch its variables, which a
lemma singles out (`DeviceSteps`, `NoticeSteps`, `ReaderSteps`, `SettingSteps`,
`QueueSteps`, `WindowSteps`).

`SessionHookProofs` is about `Session` and `MouseHook`. Of `Session` it proves `TypeOK`,
`DeadlinesHold` and `NoIdleRound` for any deadlines, intervals, buttons, collections and
queue that `SessionAssumption` allows. `DeadlinesHold` is not inductive: its strengthening says what has been waited or worked so far, that is,
age plus what is left of the wait or the handler is within the bound in each phase
(`LivenessInv`, `ReassertInv`). `NoIdleRound` needs `IdleInv`: when a wait has run out
with nothing done, one of the three ages has reached the deadline that the wait was
planned from, and stays there until `service_due` or the heartbeat finds it.

`HealthProofs` proves `TypeOK`, `SequenceGrows` and `CapsuleIsConsistent` for any mice,
codes, caps and files found. `SequenceInv` says that once the reporter has restored its
sequence, the file's is the same, until u64 is used up: a failed or interrupted
publication changes neither. `CapsuleIsConsistent` follows because what makes a
capsule consistent holds of the reporter's memory all the time (`MemoryInv`): its
incidents cite the current mouse or one of its history, episodes are single, a healthy
status is clean, both sets are within their caps and nothing in them is later than the
last arrival. That the caps hold rests on a lemma about `Newest` (`NewestBounded`): of a
finite set whose elements arrived one by one it keeps at most n, because what each of them
has above it is a different number below n; hence the invariant also says that arrivals
tell incidents apart, and subjects.

`ProcessesProofs` proves `TypeOK`, `TickIsRead` and `RemovalIsRespected` for any daemons,
tools and threads, and that `Processes` implements `Lease`; that no two processes have the
mouse open at once (`OneController`) follows. `LeaseInv` says that the threads which have
the lease or are about to give it back are of one process, since a thread joins its own
process's `Arc` or creates the object when nobody has a handle of it. With it each step
maps to one of `Lease` or to none: letting go of an `Arc` that others share changes
nothing, closing the object's handle gives the mouse up. `TickIsRead` is inductive as it
stands. `RemovalInv` says that while daemons ran one at a time the latch, once saved, is
known to whichever runs (`Alone`), and that after a removal none is about to register or
to rewrite.

Of `MouseHook`, `SessionHookProofs` proves `HookTypeOK`, `HookIsOwned` and
`DownIsRemembered` for any buttons, handles and queue. The invariant says that `HOOK` and the tray thread's handle
account for every hook, and that what the tray thread last read of `WANTED` is still so
unless a message is waiting or the first sync is to come.

`ConfigStoreProofs` proves, for any keymap, parsers and tables of mice that
`KeymapAssumption` and `StoreAssumption` allow, any files and any number of moves, that
`ConfigStore` keeps `TypeOK`, `WritesAreApproved`, `ActiveIsValid`, `OnlyWholeFiles`,
`RemapsSurvive`, `SettingsAreSaved` and `MouseHasConfig`. Its first lemmas say what the operators of
`Onboard` return: an approved entry asks for what may be written (`EntryAllowed`), setting
and removing an entry keep a good table good, migration makes a configuration of a
configuration. The types need the invariant's other parts: that a mouse is open wherever
the candidate is looked at, that the candidate is valid from `apply` to `applied`
(`PhaseInv`), and that what is left to write may be written (`WriteInv`). `ActiveIsValid`
then follows because every way into the loop commits such a candidate and every click
changes one setting to a good value (`ChangedValid`). `TempInv` ties the temporary file
to the save in progress. `SavedInv` says what the file has before the loop is reached:
the candidate's settings while an unmigrated candidate is applied, the active ones
otherwise, and that a save is always of one of the two. `MouseHasConfig` is what is left
of two statements when nothing is pending: of the candidate while it is applied and of the
active configuration elsewhere, the registers not in `regs` (`SentInv`) and the entries
whose binds are not in `wants` (`PutInv`) are on the mouse. That `wants` and `regs` belong
to what is being applied is `WorkInv`. The reset on its thread does not disturb `PutInv`,
because it never works on a button it was told of, and a notice is only raised when none
is up, a mouse with a keymap having no way back to `waiting` (`NoticeInv`).

`SettingsWindowProofs` proves `TypeOK`, `ResultsComeHome`, `TestIsStored` and
`UntouchedIsQuiet` for any buttons, texts, binds and length of the channel that
`SettingsWindowAssumption` allows. `QueueInv` ties both queues to one window: "closed" is
the last thing a window sends, the daemon opens no other before it has taken it, and then
nothing of the old window is left. `TouchInv` says that what a box shows and has not sent
was typed or chosen in it. `TestIsStored` is not inductive, since a result may be queued
behind others: `TestInv` says it of the last queued result for each button that has no
choice on its way to the daemon. What the handlers of the window may do to the queues is
stated once (`BoxStep`) and shown of each; lemmas about appending and taking the head
(`OthersAdded`, `ResultAdded`, `Dispatched`, `EventTaken`) do the rest.

`ValuesProofs` proves `TypeOK`, `MouseAnswersConfig`, `WindowShowsConfig`,
`NothingRefused` and `FormIsWhole` for every table of mice that satisfies
`MiceAssumption` (a range of DPI in two bytes, rates of the mouse's own family of
commands, writable buttons listed once each, drawings in whole pixels), any colors,
actions and binds, and any configuration a session may start with (`StartsAssumption`).
`MarksAssumption` only keeps the model's markers for "none" and "refused" apart from
values. The proof has three layers.

- Round trips of `Reports`: for each kind of setting, that a value in the mouse's range is
  not refused and that the get path reads back what the set path wrote (`DpiRoundTrip`,
  `PollingRoundTrip`, and `BindRoundTrip` for every bind that may be written). `SettingsForm` has the same for lists (the entry shown for a value
  gives the value back) and for the slider, whose rounding stays within the range.
- The inductive invariant `IInv`. `CoreInv` says, of each setting by itself (`ModeInv`,
  `DpiInv`, `RateInv`, `LightInv`, `BindInv`), that what the configuration has is accepted
  by its report, and that in a session the mouse has exactly the arguments of that report;
  the bytes, not their meaning, because only the bytes survive a change of another setting.
  `WindowInv` says that the window shows the configuration, and that the action shown is
  in the list the window was opened with. There is one lemma for each command of
  `handle_menu` and one for each click.
- `FormIsWhole`, which needs only that the mouse is of the table. The lists of controls
  are taken apart one by one: each has names of its own and none twice (`LightingParts`,
  `StoredParts`, `ConcatOnce`), what the drawing hosts and what the rows show complement
  each other (`FallbackParts`, `HostedParts`), nothing that the drawing is chosen to host
  fails to find its slot (`MountedParts`), and so `Controls` is a list of the capabilities
  without repetition (`ControlsOnce`). Ids are apart because the zones stay below
  `MAX_ZONES`, half the distance of the two blocks of ids, and a button's index grows from
  one button to the next (`ButtonsNumbered`). That the k-th swatch is zone k's needs where
  the zones are in the list (`AtConcat`). The plan is arithmetic: `RowsFit` compares what
  is planned for the rows with where the cursor ends, whatever their number; `MouseCentred`
  shows that the clamp of the pane's position never acts.

Every invariant and every action property that a run checks is proved. What is
model-checked only is liveness (`ChannelReleased`, `QuitEnds`, `OpenIsAnswered`,
`LostMouseStops`, `WishIsMet`, `Relocks`, `HeartbeatMends`, `LeaseComesBack`,
`SavingEnds`), because the prover does not do fairness and ENABLED, and the two
counterexamples, which are single behaviours.

## Not modelled

- Drawing: the diagrams' shapes and their painting, the icon, the diagram editor, the
  color dialog, the swatches' hover. `SettingsForm` takes a drawing's size, the middle of
  its body and its slots as data.
- Strings: TOML, JSON and the parser of action texts are tables of outcomes; only the
  texts of binds are followed, in `Reports`. The log is wording.
- Checksums, transaction ids and status bytes: an answer that fails one of them is
  `BadAnswer` of `Transport`.
- Lock poisoning: nothing panics while it holds one of these locks. The branch of both
  loops for a channel without senders cannot be taken, because `run` keeps a sender.
- The commands of `charmctl` one by one: each is a call of the methods `Transport` models,
  by a process that has the lease.
- What Windows does beyond the calls: the trackbar with a maximum above 32767
  (`settings.rs:874`), the shell's own switch for login items, the delivery of raw input.

## What comes next

1. The settings window's other events against the daemon's channel, so that a window left
   open across a reload is modelled in one place.
2. `charmctl keymap reset` beside a running daemon that could not get the lease.
