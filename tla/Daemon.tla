-------------------------------- MODULE Daemon --------------------------------
(***************************************************************************)
(* src/daemon.rs: the main thread (run, service_retry_gap, run_session,    *)
(* shutdown, stop_for_safety) and the threads it shares a channel, a       *)
(* notice flag, the tray menu and the device latch with: the tray, the     *)
(* settings window, the no-device notices, the listeners of the DPI        *)
(* buttons and the notice that resets on-board binds.                      *)
(*                                                                         *)
(* How commands reach the device is Transport; here a command works or     *)
(* latches.  Events that change none of this state (buttons, save, binds,  *)
(* effects) are not sent: the main thread treats them as a wait that times *)
(* out.  A definition X_Y is X with the plausible mistake Y; no            *)
(* specification uses it.                                                  *)
(***************************************************************************)
EXTENDS Naturals, Sequences

CONSTANTS Mice,        \* supported models
          Buttons,     \* those with wheel DPI buttons: driver mode, listeners
          Keymapped,   \* those with a recorded keymap
          MaxDpi,      \* dpi_max of each model
          Ladder,      \* DPI_LADDER, the presets before a mouse is known
          Slider,      \* positions of the settings window's DPI slider
          Readers,     \* auxiliary collections a button mouse may have
          Notices,     \* slots for no-device notice threads
          UserMax,     \* bound: clicks wait until the channel is shorter
          Unsupported, \* some other Razer mouse
          None         \* no mouse

ASSUME DaemonAssumption ==
  /\ None \notin Mice /\ Unsupported \notin Mice
  /\ Buttons \subseteq Mice /\ Keymapped \subseteq Mice \ Buttons
  /\ MaxDpi \in [Mice -> Nat]
  /\ Ladder \subseteq Nat /\ Slider \subseteq Nat
  /\ UserMax \in Nat

(* Of the device table: every model takes every preset of the ladder, and  *)
(* the models with DPI buttons have the lowest maximum.                    *)
ASSUME RangeAssumption ==
  /\ \A d \in Ladder, m \in Mice : d <= MaxDpi[m]
  /\ \A b \in Buttons, m \in Mice : MaxDpi[b] <= MaxDpi[m]

(* dpi_presets. *)
Presets(m) ==
  IF m = None THEN Ladder
  ELSE {d \in Ladder : d <= MaxDpi[m]} \cup {MaxDpi[m]}

(* Event and MenuAction, as far as the daemon's own state goes. *)
Msg(k)    == [kind |-> k, dpi |-> 0]
SetDpi(d) == [kind |-> "set", dpi |-> d]
Messages ==
  [kind : {"open", "closed", "set", "toggle", "retry", "quit", "lost"}, dpi : Nat]

VARIABLES
  phase,        \* where the main thread is
  serving,      \* the model this session opened
  live,         \* its handle still reaches a mouse
  plugged,      \* what is on the bus
  mode,         \* the mode of the mouse on the bus
  stopped,      \* COMMANDS has latched
  queue,        \* the mpsc channel
  settingsOpen, \* run's settings_open
  window,       \* the settings window's thread
  slider,       \* the largest value its slider can send
  popupOpen,    \* run's popup_open
  notices,      \* the notice threads
  readers,      \* the listener threads
  reset,        \* the thread that offers to reset on-board binds
  trayUp,       \* tray::run has started
  menu,         \* MENU: the model it was built for
  shown         \* the model of the menu on screen, if one is

device  == <<plugged, mode>>
session == <<serving, live>>
win     == <<window, slider>>
popups  == <<popupOpen, notices>>
tray    == <<trayUp, menu, shown>>
vars == <<phase, session, device, stopped, queue, settingsOpen, win, popups,
          readers, reset, tray>>

Loop      == {"check", "recv", "maint"}
Ended     == {"alert", "quit", "stopped"}
InLoop    == phase \in Loop
InService == phase \notin Ended
NoMenu    == "no menu"
Menus     == Mice \cup {None, NoMenu}

TypeOK ==
  /\ phase \in {"opening", "starting", "probing", "gap"} \cup Loop \cup Ended
  /\ serving \in Mice \cup {None} /\ live \in BOOLEAN
  /\ plugged \in Mice \cup {None, Unsupported}
  /\ mode \in {"hardware", "driver"}
  /\ stopped \in BOOLEAN
  /\ queue \in Seq(Messages)
  /\ settingsOpen \in BOOLEAN
  /\ window \in {"none", "open", "gone"} /\ slider \in Nat
  /\ popupOpen \in BOOLEAN
  /\ notices \in [Notices -> {"off", "looking", "yesno", "retry", "clicked"}]
  /\ readers \in [Readers -> {"off", "reading", "failed", "latched", "closed"}]
  /\ reset \in {"none", "asking", "running", "told", "done"}
  /\ trayUp \in BOOLEAN /\ menu \in Menus /\ shown \in Menus

Init ==
  /\ phase = "opening"
  /\ serving = None /\ live = FALSE
  /\ plugged \in Mice \cup {None, Unsupported} /\ mode = "hardware"
  /\ stopped = FALSE
  /\ queue = <<>>
  /\ settingsOpen = FALSE
  /\ window = "none" /\ slider = 0
  /\ popupOpen = FALSE /\ notices = [n \in Notices |-> "off"]
  /\ readers = [r \in Readers |-> "off"]
  /\ reset = "none"
  /\ trayUp = FALSE /\ menu = NoMenu /\ shown = NoMenu

Post(m)    == queue' = Append(queue, m)
First(k) == queue # <<>> /\ Head(queue).kind = k
Take       == queue' = Tail(queue)
Goto(p)    == phase' = p
(* run on a stop-class error: stop_for_safety latches, then raises its alert. *)
Stop       == Goto("alert") /\ stopped' = TRUE
(* A command can work only on a mouse that is there, before the latch. *)
Works      == live /\ ~stopped

-----------------------------------------------------------------------------
(* The main thread: opening a session.                                     *)

(* open_api, the latch or the endpoint refuses. *)
OpenFails ==
  /\ phase = "opening"
  /\ Stop
  /\ UNCHANGED <<session, device, queue, settingsOpen, win, popups, readers, reset, tray>>

(* No supported mouse on the bus, or another process owns device control. *)
OpenNothing ==
  /\ phase = "opening" /\ ~stopped
  /\ Goto("gap")
  /\ UNCHANGED <<session, device, stopped, queue, settingsOpen, win, popups,
                 readers, reset, tray>>

(* The mouse is opened and the tray menu built for it. *)
Open ==
  /\ phase = "opening" /\ ~stopped /\ plugged \in Mice
  /\ Goto("starting")
  /\ serving' = plugged /\ live' = TRUE
  /\ menu' = plugged
  /\ UNCHANGED <<device, stopped, queue, settingsOpen, win, popups, readers, reset,
                 trayUp, shown>>

(* The configuration is wrong for this mouse: run's alert, then exit. *)
ConfigRejected ==
  /\ phase = "starting"
  /\ Goto("alert")
  /\ UNCHANGED <<session, device, stopped, queue, settingsOpen, win, popups,
                 readers, reset, tray>>

(* A command of the start-up fails; the last one sets driver mode. *)
StartFails ==
  /\ phase = "starting"
  /\ Stop
  /\ mode' \in IF serving \in Buttons /\ live THEN {mode, "driver"} ELSE {mode}
  /\ UNCHANGED <<session, plugged, queue, settingsOpen, win, popups, readers, reset, tray>>

(* The configuration is applied, leftovers are offered for a reset, and a  *)
(* mouse with DPI buttons is in driver mode.                               *)
Start ==
  /\ phase = "starting" /\ Works
  /\ Goto(IF serving \in Buttons THEN "probing" ELSE "check")
  /\ mode' = IF serving \in Buttons THEN "driver" ELSE mode
  /\ reset' \in IF serving \in Keymapped /\ reset = "none" THEN {"none", "asking"} ELSE {reset}
  /\ UNCHANGED <<session, plugged, stopped, queue, settingsOpen, win, popups, readers, tray>>

EndSession == Goto("gap") /\ serving' = None /\ live' = FALSE

ProbeEmpty_Serves ==
  /\ phase = "probing"
  /\ Goto("check")
  /\ UNCHANGED <<session, device, stopped, queue, settingsOpen, win, popups,
                 readers, reset, tray>>

(* No collection could be read: DeviceNotFound, which is not a stop. *)
ProbeEmpty ==
  /\ phase = "probing"
  /\ EndSession
  /\ UNCHANGED <<device, stopped, queue, settingsOpen, win, popups, readers, reset, tray>>

(* set_blocking fails. *)
ProbeFails ==
  /\ phase = "probing"
  /\ Stop
  /\ UNCHANGED <<session, device, queue, settingsOpen, win, popups, readers, reset, tray>>

(* One reader thread for each collection that could be read. *)
Listen ==
  /\ phase = "probing" /\ live
  /\ \E readable \in (SUBSET Readers) \ {{}} :
       readers' = [r \in Readers |-> IF r \in readable THEN "reading" ELSE readers[r]]
  /\ Goto("check")
  /\ UNCHANGED <<session, device, stopped, queue, settingsOpen, win, popups, reset, tray>>

-----------------------------------------------------------------------------
(* The main thread: the session loop.                                      *)

(* ensure_active at the top of every round. *)
Check ==
  /\ phase = "check"
  /\ Goto(IF stopped THEN "alert" ELSE "recv")
  /\ UNCHANGED <<session, device, stopped, queue, settingsOpen, win, popups,
                 readers, reset, tray>>

RecvTimeout ==
  /\ phase = "recv" /\ queue = <<>>
  /\ Goto("maint")
  /\ UNCHANGED <<session, device, stopped, queue, settingsOpen, win, popups,
                 readers, reset, tray>>

RecvOpen_FixedRange ==
  /\ phase = "recv" /\ First("open") /\ Take
  /\ settingsOpen' = TRUE
  /\ IF settingsOpen THEN UNCHANGED win
     ELSE window' = "open" /\ slider' \in {d \in Slider : \A e \in Slider : e <= d}
  /\ Goto("maint")
  /\ UNCHANGED <<session, device, stopped, popups, readers, reset, tray>>

(* Focus the window there is, or open one over this mouse's DPI range; a   *)
(* mouse with a keymap is read first.                                      *)
RecvOpen ==
  /\ phase = "recv" /\ First("open") /\ Take
  /\ settingsOpen' = TRUE
  /\ IF settingsOpen THEN UNCHANGED win
     ELSE /\ serving \in Keymapped => Works
          /\ window' = "open" /\ slider' = MaxDpi[serving]
  /\ Goto("maint")
  /\ UNCHANGED <<session, device, stopped, popups, readers, reset, tray>>

RecvOpenFails ==
  /\ phase = "recv" /\ First("open") /\ Take
  /\ ~settingsOpen /\ serving \in Keymapped
  /\ settingsOpen' = TRUE
  /\ Stop
  /\ UNCHANGED <<session, device, win, popups, readers, reset, tray>>

RecvClosed ==
  /\ phase = "recv" /\ First("closed") /\ Take
  /\ settingsOpen' = FALSE
  /\ Goto("maint")
  /\ UNCHANGED <<session, device, stopped, win, popups, readers, reset, tray>>

(* A DPI outside the mouse's range is refused before any I/O, and ends the *)
(* session without a stop; any other command works.                        *)
RecvSet ==
  /\ phase = "recv" /\ First("set") /\ Take
  /\ IF Head(queue).dpi > MaxDpi[serving]
       THEN EndSession
       ELSE Works /\ Goto("maint") /\ UNCHANGED session
  /\ UNCHANGED <<device, stopped, settingsOpen, win, popups, readers, reset, tray>>

RecvSetFails ==
  /\ phase = "recv" /\ First("set") /\ Take
  /\ Head(queue).dpi <= MaxDpi[serving]
  /\ Stop
  /\ UNCHANGED <<session, device, settingsOpen, win, popups, readers, reset, tray>>

(* Start with Windows: the menu is rebuilt for this mouse. *)
RecvToggle ==
  /\ phase = "recv" /\ First("toggle") /\ Take
  /\ menu' = serving
  /\ Goto("maint")
  /\ UNCHANGED <<session, device, stopped, settingsOpen, win, popups, readers, reset,
                 trayUp, shown>>

(* A probe is already behind us: nothing to do. *)
RecvRetry ==
  /\ phase = "recv" /\ First("retry") /\ Take
  /\ Goto("maint")
  /\ UNCHANGED <<session, device, stopped, settingsOpen, win, popups, readers, reset, tray>>

RecvLost ==
  /\ phase = "recv" /\ First("lost") /\ Take
  /\ Stop
  /\ UNCHANGED <<session, device, settingsOpen, win, popups, readers, reset, tray>>

RecvQuit_KeepsMode ==
  /\ phase = "recv" /\ First("quit") /\ Take
  /\ Goto("quit")
  /\ UNCHANGED <<session, device, stopped, settingsOpen, win, popups, readers, reset, tray>>

(* shutdown: hardware mode first, if the session set driver mode. *)
RecvQuit ==
  /\ phase = "recv" /\ First("quit") /\ Take
  /\ serving \in Buttons => Works
  /\ mode' = IF serving \in Buttons THEN "hardware" ELSE mode
  /\ Goto("quit")
  /\ UNCHANGED <<session, plugged, stopped, settingsOpen, win, popups, readers, reset, tray>>

RecvQuitFails ==
  /\ phase = "recv" /\ First("quit") /\ Take
  /\ serving \in Buttons
  /\ Stop
  /\ mode' \in IF live THEN {mode, "hardware"} ELSE {mode}
  /\ UNCHANGED <<session, plugged, settingsOpen, win, popups, readers, reset, tray>>

(* service_due with no deadline passed, ... *)
NotDue ==
  /\ phase = "maint"
  /\ Goto("check")
  /\ UNCHANGED <<session, device, stopped, queue, settingsOpen, win, popups,
                 readers, reset, tray>>

(* ... with one passed and a command that fails, ... *)
DueFails ==
  /\ phase = "maint"
  /\ Stop
  /\ UNCHANGED <<session, device, queue, settingsOpen, win, popups, readers, reset, tray>>

(* ... or with commands that work: the re-assertion of driver mode, or the *)
(* liveness read.                                                          *)
Due ==
  /\ phase = "maint" /\ Works
  /\ mode' = IF serving \in Buttons THEN "driver" ELSE mode
  /\ Goto("check")
  /\ UNCHANGED <<session, plugged, stopped, queue, settingsOpen, win, popups,
                 readers, reset, tray>>

-----------------------------------------------------------------------------
(* The main thread: service_retry_gap.  The first receive of a gap takes   *)
(* the event at the head, and handling one may take until the deadline.    *)
GapOver == phase' \in {"gap", "opening"}

GapTimeout ==
  /\ phase = "gap" /\ queue = <<>>
  /\ Goto("opening")
  /\ UNCHANGED <<session, device, stopped, queue, settingsOpen, win, popups,
                 readers, reset, tray>>

GapOpen_Dropped ==
  /\ phase = "gap" /\ First("open") /\ Take
  /\ GapOver
  /\ UNCHANGED <<session, device, stopped, settingsOpen, win, popups, readers, reset, tray>>

(* Focus a window that is still up; otherwise one notice at a time. *)
GapOpen ==
  /\ phase = "gap" /\ First("open") /\ Take
  /\ IF settingsOpen \/ popupOpen THEN UNCHANGED popups
     ELSE \E n \in Notices :
            /\ notices[n] = "off"
            /\ popupOpen' = TRUE
            /\ notices' = [notices EXCEPT ![n] = "looking"]
  /\ GapOver
  /\ UNCHANGED <<session, device, stopped, settingsOpen, win, readers, reset, tray>>

(* The Retry button: the request goes back in the channel, and the gap is over. *)
GapRetry ==
  /\ phase = "gap" /\ First("retry")
  /\ queue' = Append(Tail(queue), Msg("open"))
  /\ Goto("opening")
  /\ UNCHANGED <<session, device, stopped, settingsOpen, win, popups, readers, reset, tray>>

GapQuit_Dropped ==
  /\ phase = "gap" /\ First("quit") /\ Take
  /\ GapOver
  /\ UNCHANGED <<session, device, stopped, settingsOpen, win, popups, readers, reset, tray>>

(* shutdown without a mouse to restore. *)
GapQuit ==
  /\ phase = "gap" /\ First("quit") /\ Take
  /\ Goto("quit")
  /\ UNCHANGED <<session, device, stopped, settingsOpen, win, popups, readers, reset, tray>>

(* Start with Windows needs no mouse; the menu is rebuilt without one. *)
GapToggle ==
  /\ phase = "gap" /\ First("toggle") /\ Take
  /\ menu' = None
  /\ GapOver
  /\ UNCHANGED <<session, device, stopped, settingsOpen, win, popups, readers, reset,
                 trayUp, shown>>

(* SettingsClosed clears the flag; what needs a mouse is dropped. *)
GapOther ==
  /\ phase = "gap" /\ queue # <<>> /\ Take
  /\ Head(queue).kind \in {"set", "closed", "lost"}
  /\ settingsOpen' = IF Head(queue).kind = "closed" THEN FALSE ELSE settingsOpen
  /\ GapOver
  /\ UNCHANGED <<session, device, stopped, win, popups, readers, reset, tray>>

(* The user dismisses the alert: exit(1). *)
Dismiss ==
  /\ phase = "alert"
  /\ Goto("stopped")
  /\ UNCHANGED <<session, device, stopped, queue, settingsOpen, win, popups,
                 readers, reset, tray>>

Main ==
  \/ OpenFails \/ OpenNothing \/ Open
  \/ ConfigRejected \/ StartFails \/ Start
  \/ ProbeEmpty \/ ProbeFails \/ Listen
  \/ Check \/ RecvTimeout \/ RecvOpen \/ RecvOpenFails \/ RecvClosed
  \/ RecvSet \/ RecvSetFails \/ RecvToggle \/ RecvRetry \/ RecvLost
  \/ RecvQuit \/ RecvQuitFails
  \/ NotDue \/ DueFails \/ Due
  \/ GapTimeout \/ GapOpen \/ GapRetry \/ GapQuit \/ GapToggle \/ GapOther

-----------------------------------------------------------------------------
(* The other threads, and the user.  Bound: once an alert is up nothing    *)
(* reads the channel again, and what still happens is left out.            *)

(* A click reaches the channel. *)
Click(m) ==
  /\ InService /\ Len(queue) < UserMax
  /\ Post(m)

(* tray::run stores the menu it was spawned with, whatever is there. *)
TrayStarts ==
  /\ InService /\ ~trayUp
  /\ trayUp' = TRUE
  /\ menu' = None
  /\ UNCHANGED <<phase, session, device, stopped, queue, settingsOpen, win, popups,
                 readers, reset, shown>>

(* A right-click shows the menu of the moment. *)
ShowMenu ==
  /\ InService /\ trayUp /\ shown = NoMenu
  /\ shown' = menu
  /\ UNCHANGED <<phase, session, device, stopped, queue, settingsOpen, win, popups,
                 readers, reset, trayUp, menu>>

(* A DPI preset, Settings, the startup item or Quit of the menu on screen. *)
PickMenu ==
  /\ shown # NoMenu
  /\ \/ \E d \in Presets(shown) : Click(SetDpi(d))
     \/ \E k \in {"open", "toggle", "quit"} : Click(Msg(k))
  /\ shown' = NoMenu
  /\ UNCHANGED <<phase, session, device, stopped, settingsOpen, win, popups,
                 readers, reset, trayUp, menu>>

(* A click on the icon itself. *)
LeftClick ==
  /\ trayUp /\ shown = NoMenu
  /\ Click(Msg("open"))
  /\ UNCHANGED <<phase, session, device, stopped, settingsOpen, win, popups,
                 readers, reset, tray>>

(* The window's slider sends a DPI of the range the window was built for. *)
MoveSlider ==
  /\ window = "open"
  /\ \E d \in Slider : d <= slider /\ Click(SetDpi(d))
  /\ UNCHANGED <<phase, session, device, stopped, settingsOpen, win, popups,
                 readers, reset, tray>>

(* The window is closed, or its construction panics. *)
WindowEnds ==
  /\ InService /\ window = "open"
  /\ window' = "gone"
  /\ UNCHANGED <<phase, session, device, stopped, queue, settingsOpen, slider, popups,
                 readers, reset, tray>>

CloseGuard_NotOnPanic ==
  /\ InService /\ window = "gone"
  /\ window' = "none"
  /\ queue' \in {queue, Append(queue, Msg("closed"))}
  /\ UNCHANGED <<phase, session, device, stopped, settingsOpen, slider, popups,
                 readers, reset, tray>>

(* Either way the guard's drop reports it as the thread ends. *)
CloseGuard ==
  /\ InService /\ window = "gone"
  /\ window' = "none"
  /\ Post(Msg("closed"))
  /\ UNCHANGED <<phase, session, device, stopped, settingsOpen, slider, popups,
                 readers, reset, tray>>

(* found_but_unsupported decides which notice to show. *)
Look(n) ==
  /\ InService /\ notices[n] = "looking"
  /\ \E s \in IF plugged = Unsupported THEN {"yesno", "retry"} ELSE {"retry"} :
       notices' = [notices EXCEPT ![n] = s]
  /\ UNCHANGED <<phase, session, device, stopped, queue, settingsOpen, win, popupOpen,
                 readers, reset, tray>>

(* The notice is answered and the flag cleared; only then is Retry sent. *)
Answer(n) ==
  /\ InService /\ notices[n] \in {"yesno", "retry"}
  /\ popupOpen' = FALSE
  /\ \E s \in IF notices[n] = "retry" THEN {"off", "clicked"} ELSE {"off"} :
       notices' = [notices EXCEPT ![n] = s]
  /\ UNCHANGED <<phase, session, device, stopped, queue, settingsOpen, win,
                 readers, reset, tray>>

SendRetry(n) ==
  /\ InService /\ notices[n] = "clicked"
  /\ notices' = [notices EXCEPT ![n] = "off"]
  /\ Post(Msg("retry"))
  /\ UNCHANGED <<phase, session, device, stopped, settingsOpen, win, popupOpen,
                 readers, reset, tray>>

(* A blocking read fails, of itself or because the mouse is gone. *)
ReadFails(r) ==
  /\ InService /\ readers[r] = "reading"
  /\ readers' = [readers EXCEPT ![r] = "failed"]
  /\ UNCHANGED <<phase, session, device, stopped, queue, settingsOpen, win, popups,
                 reset, tray>>

ReaderStops_Silent(r) ==
  /\ InService /\ readers[r] = "failed"
  /\ readers' = [readers EXCEPT ![r] = "closed"]
  /\ UNCHANGED <<phase, session, device, stopped, queue, settingsOpen, win, popups,
                 reset, tray>>

(* Its thread latches ... *)
ReaderStops(r) ==
  /\ InService /\ readers[r] = "failed"
  /\ readers' = [readers EXCEPT ![r] = "latched"]
  /\ stopped' = TRUE
  /\ UNCHANGED <<phase, session, device, queue, settingsOpen, win, popups, reset, tray>>

(* ... and tells the main thread. *)
ReaderCloses(r) ==
  /\ InService /\ readers[r] = "latched"
  /\ readers' = [readers EXCEPT ![r] = "closed"]
  /\ Post(Msg("lost"))
  /\ UNCHANGED <<phase, session, device, stopped, settingsOpen, win, popups, reset, tray>>

(* "Reset them now?": no, or yes. *)
AnswerReset ==
  /\ InService /\ reset = "asking"
  /\ reset' \in {"done", "running"}
  /\ UNCHANGED <<phase, session, device, stopped, queue, settingsOpen, win, popups,
                 readers, tray>>

ResetDone ==
  /\ InService /\ reset = "running" /\ ~stopped
  /\ reset' = "done"
  /\ UNCHANGED <<phase, session, device, stopped, queue, settingsOpen, win, popups,
                 readers, tray>>

(* The thread's own Mouse::open fails (nothing found, endpoint refused), or *)
(* the mouse it found has another keymap: nothing was sent, nothing latches. *)
ResetRefused ==
  /\ InService /\ reset = "running"
  /\ reset' = "told"
  /\ UNCHANGED <<phase, session, device, stopped, queue, settingsOpen, win, popups,
                 readers, tray>>

(* One of its commands fails. *)
ResetFails ==
  /\ InService /\ reset = "running"
  /\ reset' = "told" /\ stopped' = TRUE
  /\ UNCHANGED <<phase, session, device, queue, settingsOpen, win, popups, readers, tray>>

(* One mouse at a time; a mouse that is plugged in is in hardware mode. *)
Plug(m) ==
  /\ InService /\ plugged = None
  /\ plugged' = m /\ mode' = "hardware"
  /\ UNCHANGED <<phase, session, stopped, queue, settingsOpen, win, popups,
                 readers, reset, tray>>

Unplug ==
  /\ InService /\ plugged # None
  /\ plugged' = None /\ mode' = "hardware"
  /\ live' = FALSE
  /\ UNCHANGED <<phase, serving, stopped, queue, settingsOpen, win, popups,
                 readers, reset, tray>>

Next ==
  \/ Main \/ Dismiss
  \/ TrayStarts \/ ShowMenu \/ PickMenu \/ LeftClick
  \/ MoveSlider \/ WindowEnds \/ CloseGuard
  \/ \E n \in Notices : Look(n) \/ Answer(n) \/ SendRetry(n)
  \/ \E r \in Readers : ReadFails(r) \/ ReaderStops(r) \/ ReaderCloses(r)
  \/ AnswerReset \/ ResetDone \/ ResetRefused \/ ResetFails
  \/ \E m \in Mice \cup {Unsupported} : Plug(m)
  \/ Unplug

(* The code's threads go on; the user need not.  The main thread always has *)
(* a step: HID calls return, recv_timeout ends.  A listener's read fails    *)
(* once the mouse is gone.  A maintenance deadline passes again and again.  *)
Fairness ==
  /\ WF_vars(Main) /\ SF_vars(Due \/ DueFails)
  /\ WF_vars(CloseGuard)
  /\ \A n \in Notices : WF_vars(Look(n)) /\ WF_vars(SendRetry(n))
  /\ \A r \in Readers : /\ WF_vars(~live /\ ReadFails(r))
                        /\ WF_vars(ReaderStops(r)) /\ WF_vars(ReaderCloses(r))

Spec == Init /\ [][Next]_vars
FairSpec == Spec /\ Fairness

-----------------------------------------------------------------------------
Queued(k) == {i \in DOMAIN queue : queue[i].kind = k}
Asking    == {n \in Notices : notices[n] \in {"looking", "yesno", "retry"}}

(* The settings_open latch is set exactly while there is a settings window, *)
(* or one whose SettingsClosed is still to be handled, and there is never a *)
(* second window: run_session's flag and open_settings_window's CloseGuard. *)
WindowLatch ==
  InService =>
    /\ settingsOpen <=> window # "none" \/ Queued("closed") # {}
    /\ Queued("closed") # {} => window = "none"
    /\ \A i, j \in Queued("closed") : i = j

(* "popup_open collapses repeat clicks while one is already up": one notice *)
(* at a time, and the flag is never left set when its notice is gone.       *)
OneNotice ==
  /\ popupOpen <=> Asking # {}
  /\ \A n, m \in Asking : n = m

(* Both latches tell the truth about what is on the screen. *)
LatchesAreTrue == WindowLatch /\ OneNotice

(* "does not reconnect automatically": a session that came to serve a mouse *)
(* is never followed by another, whatever is clicked, so that neither its   *)
(* window nor its listener threads outlive it; every out of the loop is     *)
(* Quit or a stop.                                                          *)
NoReconnect == [][InLoop => phase' \notin {"gap", "opening"}]_vars

(* A mouse in driver mode is heard: while the loop serves it, a listener is *)
(* reading or has just failed, or commands have stopped.                    *)
DriverModeIsHeard ==
  InLoop /\ mode = "driver" /\ ~stopped =>
    \E r \in Readers : readers[r] \in {"reading", "failed"}

(* "Quit puts the mouse back in its hardware mode" when a session has it.   *)
QuitRestoresSession ==
  [][InLoop /\ phase' = "quit" => mode' = "hardware"]_vars

(* Quit is never deaf, in a session or in a retry gap.                      *)
QuitEnds == Queued("quit") # {} ~> ~InService

(* A request for the settings window made while there is none meets a       *)
(* window or a notice: no latch left set swallows it, and it is not lost    *)
(* between a gap and a session.                                             *)
Requested ==
  window = "none" /\ \E i \in Queued("open") : \A j \in Queued("closed") : j < i
OpenIsAnswered ==
  Requested ~> window # "none" \/ Asking # {} \/ ~InService

(* A mouse that goes away stops the daemon even if nothing else happens: a  *)
(* lost input collection does, through the latch and ListenerClosed, and an *)
(* unplug does with listeners or without them (the liveness read).          *)
LostMouseStops ==
  /\ \A r \in Readers : readers[r] = "failed" ~> ~InService
  /\ InLoop /\ ~live ~> ~InService

(* README, Uninstall: "Quit puts the mouse back in its hardware mode".      *)
QuitRestores == phase = "quit" => mode = "hardware"
=============================================================================
