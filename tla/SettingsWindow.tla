----------------------------- MODULE SettingsWindow -----------------------------
(***************************************************************************)
(* The on-board boxes of crates/platform/src/settings.rs: the window's own *)
(* thread, with its queue of messages, records keys, sends what was chosen *)
(* to the main thread of src/daemon.rs and, when the write is reported,    *)
(* waits for the press that proves it.  Closing and opening it again is    *)
(* part of it; what the main thread does with the other events is          *)
(* ConfigStore's, and where the boxes are is SettingsForm's.               *)
(*                                                                         *)
(* A definition X_Y is X with the plausible mistake Y; no specification    *)
(* uses it.                                                                *)
(***************************************************************************)
EXTENDS Naturals, Sequences

CONSTANTS Buttons,   \* those with a box
          Texts,     \* what a box can hold
          Binds,     \* what the mouse stores
          MeaningOf, \* what set_entry makes of a text: a bind, Blank or Bad
          TextOf,    \* what the window shows for a bind
          Mods,      \* the modifier keys
          SendsOf,   \* what a bind sends: [mods, key], or Silence
          Typed,     \* keys, as opposed to mouse buttons
          Left,      \* the send of a left click
          QueueMax,  \* bound: a user waits while so many events are queued
          NoButton, NoText, NoTest, Blank, Bad, Silence, Unmanaged, Failed

Sends == {SendsOf[d] : d \in Binds} \ {Silence}
Outcomes == Sends \cup {Silence, Unmanaged, Failed}

ASSUME SettingsWindowAssumption ==
  /\ MeaningOf \in [Texts -> Binds \cup {Blank, Bad}]
  /\ TextOf \in [Binds -> Texts] /\ \A d \in Binds : MeaningOf[TextOf[d]] = d
  /\ \A s \in Sends \cup {Left} : s \in [mods : SUBSET Mods, key : {s.key}]
  /\ \A s \in Sends : s.key \notin Typed => s.mods = {}
  /\ Left.key \notin Typed
  /\ NoButton \notin Buttons /\ NoText \notin Texts /\ {Blank, Bad} \cap Binds = {}
  /\ {Silence, Unmanaged, Failed} \cap (Sends \cup Texts) = {}
  /\ NoTest \notin [button : Buttons, expect : Sends]
  /\ QueueMax \in Nat

VARIABLES
  window,   \* "closed", "open", or "ended": destroyed, SettingsClosed not yet sent
  name,     \* tells a window from the one before it
  focus,    \* a box, "window" or "other"
  text,     \* what each box shows
  last,     \* OnboardEdit.last
  testing, returnFocus, status, inputMods,
  messages, \* the queue of the window's thread
  events,   \* the daemon's channel
  opened,   \* settings_open
  stored,   \* the mouse's binds, which the entries of [onboard] agree with
  down,     \* the modifiers that the mouse holds down
  over,     \* the daemon has stopped
  touched,  \* history: boxes the user chose or typed in
  meddled   \* history: a reload rewrote binds under this window

view == <<focus, text, last, testing, returnFocus, status>>
queues == <<messages, events>>
daemon == <<opened, stored, over>>
history == <<touched, meddled>>
vars == <<window, name, view, inputMods, queues, daemon, down, history>>

Events ==
  [kind : {"onboard", "save", "closed"}, button : Buttons \cup {NoButton},
   text : Texts \cup {NoText}, from : BOOLEAN]
Messages ==
  [kind : {"defocus"}, button : {NoButton}, outcome : {Failed}, to : BOOLEAN]
    \cup [kind : {"result"}, button : Buttons, outcome : Outcomes, to : BOOLEAN]
Kinds == {"hint", "record", "saving", "test", "saved", "failed", "proved", "wrong"}

TypeOK ==
  /\ window \in {"closed", "open", "ended"} /\ name \in BOOLEAN
  /\ focus \in Buttons \cup {"window", "other"}
  /\ text \in [Buttons -> Texts] /\ last \in [Buttons -> Texts]
  /\ testing \in [button : Buttons, expect : Sends] \cup {NoTest}
  /\ returnFocus \in Buttons \cup {NoButton}
  /\ status \in [kind : Kinds, button : Buttons \cup {NoButton}]
  /\ inputMods \in SUBSET Mods
  /\ messages \in Seq(Messages) /\ events \in Seq(Events)
  /\ opened \in BOOLEAN /\ over \in BOOLEAN
  /\ stored \in [Buttons -> Binds]
  /\ down \in SUBSET Mods
  /\ touched \in SUBSET Buttons /\ meddled \in BOOLEAN

Status(k, b) == [kind |-> k, button |-> b]
Event(k, b, t) == [kind |-> k, button |-> b, text |-> t, from |-> name]
Defocus == [kind |-> "defocus", button |-> NoButton, outcome |-> Failed, to |-> name]

Init ==
  /\ window = "closed" /\ name = FALSE
  /\ focus = "other" /\ testing = NoTest /\ returnFocus = NoButton
  /\ status = Status("hint", NoButton) /\ inputMods = {}
  /\ messages = <<>> /\ events = <<>>
  /\ opened = FALSE /\ over = FALSE
  /\ stored \in [Buttons -> Binds]
  /\ text = [b \in Buttons |-> TextOf[stored[b]]] /\ last = text
  /\ down = {}
  /\ touched = {} /\ meddled = FALSE

Live == window = "open" /\ ~over
(* GetMessageW hands out what was posted before it hands out input.        *)
(* Bound: the user's next act comes when the channel is short.             *)
UserActs == Live /\ messages = <<>> /\ Len(events) < QueueMax

-----------------------------------------------------------------------------
(* The main thread.                                                        *)

Open_NotLatched ==
  /\ window # "open" /\ ~over
  /\ opened' = TRUE /\ window' = "open" /\ name' = ~name
  /\ focus' = "other" /\ testing' = NoTest /\ returnFocus' = NoButton
  /\ status' = Status("hint", NoButton) /\ inputMods' = {}
  /\ text' = [b \in Buttons |-> TextOf[stored[b]]] /\ last' = text'
  /\ messages' = <<>>
  /\ touched' = {} /\ meddled' = FALSE
  /\ UNCHANGED <<events, stored, over, down>>

(* A click on the tray opens a window, unless one is open: a box shows its *)
(* entry, or what the mouse stores (controls).                             *)
Open ==
  /\ ~opened /\ ~over
  /\ opened' = TRUE /\ window' = "open" /\ name' = ~name
  /\ focus' = "other" /\ testing' = NoTest /\ returnFocus' = NoButton
  /\ status' = Status("hint", NoButton) /\ inputMods' = {}
  /\ text' = [b \in Buttons |-> TextOf[stored[b]]] /\ last' = text'
  /\ messages' = <<>>
  /\ touched' = {} /\ meddled' = FALSE
  /\ UNCHANGED <<events, stored, over, down>>

Report_OnlySuccess(b, o) ==
  messages' = IF window = "open" /\ o # Failed
                THEN Append(messages, [kind |-> "result", button |-> b, outcome |-> o,
                                       to |-> Head(events).from])
                ELSE messages

(* onboard_result: posted to the window there is; none, no message. *)
Report(b, o) ==
  messages' = IF window = "open"
                THEN Append(messages, [kind |-> "result", button |-> b, outcome |-> o,
                                       to |-> Head(events).from])
                ELSE messages

Receive(k) == events # <<>> /\ ~over /\ Head(events).kind = k /\ events' = Tail(events)

(* handle_menu, SetOnboard: blank drops the entry, a bad text changes      *)
(* nothing, a bind is written and its send expected.                       *)
SetOnboard ==
  /\ Receive("onboard")
  /\ LET b == Head(events).button
         m == MeaningOf[Head(events).text] IN
       \/ /\ m \in {Blank, Bad}
          /\ Report(b, IF m = Blank THEN Unmanaged ELSE Failed)
          /\ UNCHANGED <<stored, over>>
       \/ /\ m \in Binds
          /\ stored' = [stored EXCEPT ![b] = m]
          /\ Report(b, SendsOf[m])
          /\ UNCHANGED over
       \/ m \in Binds /\ Report(b, Failed) /\ over' = TRUE /\ UNCHANGED stored
  /\ UNCHANGED <<window, name, view, inputMods, opened, down, history>>

SaveConfig ==
  /\ Receive("save")
  /\ UNCHANGED <<window, name, view, inputMods, messages, daemon, down, history>>

SettingsClosed ==
  /\ Receive("closed")
  /\ opened' = FALSE
  /\ UNCHANGED <<window, name, view, inputMods, messages, stored, over, down, history>>

(* A reload of a file with another entry for b, of which no window is told. *)
Reload(b, d) ==
  /\ ~over /\ stored[b] # d
  /\ stored' = [stored EXCEPT ![b] = d]
  /\ meddled' = TRUE
  /\ UNCHANGED <<window, name, view, inputMods, queues, opened, over, down, touched>>

-----------------------------------------------------------------------------
(* The window: what a handler does to the boxes.                           *)

(* apply_onboard: only what differs from the text applied last is sent,    *)
(* and then the focus is to leave the box.  sent is what the same handler  *)
(* sends after it.                                                         *)
Apply(b, t, sent) ==
  IF t = last[b]
  THEN /\ events' = events \o sent
       /\ UNCHANGED <<last, testing, returnFocus, status, messages>>
  ELSE /\ last' = [last EXCEPT ![b] = t]
       /\ testing' = NoTest /\ returnFocus' = b /\ status' = Status("saving", b)
       /\ messages' = Append(messages, Defocus)
       /\ events' = events \o <<Event("onboard", b, t)>> \o sent

NoApply == UNCHANGED <<last, testing, returnFocus, status, messages, events>>

KillFocus_NotCompared ==
  IF focus \in Buttons
  THEN /\ last' = [last EXCEPT ![focus] = text[focus]]
       /\ testing' = NoTest /\ returnFocus' = focus /\ status' = Status("saving", focus)
       /\ messages' = Append(messages, Defocus)
       /\ events' = Append(events, Event("onboard", focus, text[focus]))
  ELSE NoApply

(* CBN_KILLFOCUS of the box the focus leaves. *)
KillFocus == IF focus \in Buttons THEN Apply(focus, text[focus], <<>>) ELSE NoApply

(* CBN_SETFOCUS after it: whatever was tested no longer is. *)
Enter(b) ==
  /\ IF focus \in Buttons /\ text[focus] # last[focus]
       THEN /\ last' = [last EXCEPT ![focus] = text[focus]]
            /\ returnFocus' = focus
            /\ messages' = Append(messages, Defocus)
            /\ events' = Append(events, Event("onboard", focus, text[focus]))
       ELSE UNCHANGED <<last, returnFocus, messages, events>>
  /\ focus' = b /\ testing' = NoTest /\ status' = Status("record", b)

FocusBox(b) ==
  /\ UserActs /\ focus # b
  /\ Enter(b)
  /\ UNCHANGED <<window, name, text, inputMods, daemon, down, history>>

FocusOther ==
  /\ UserActs /\ focus # "other"
  /\ KillFocus
  /\ focus' = "other"
  /\ UNCHANGED <<window, name, text, inputMods, daemon, down, history>>

(* Tab from the window itself goes on where the last write left, once. *)
TabOnward(f) ==
  /\ UserActs /\ focus = "window" /\ returnFocus # NoButton
  /\ returnFocus' = NoButton
  /\ focus' = f
  /\ IF f \in Buttons THEN testing' = NoTest /\ status' = Status("record", f)
                      ELSE UNCHANGED <<testing, status>>
  /\ UNCHANGED <<window, name, text, last, inputMods, queues, daemon, down, history>>

(* recorder_wndproc, or CBN_SELENDOK of the list: applied at once. *)
Choose(b, t) ==
  /\ UserActs /\ focus = b
  /\ text' = [text EXCEPT ![b] = t]
  /\ Apply(b, t, <<>>)
  /\ touched' = touched \cup {b}
  /\ UNCHANGED <<window, name, focus, inputMods, daemon, down, meddled>>

(* Pasted, or cut: applied when the focus leaves, or on Save. *)
Paste(b, t) ==
  /\ UserActs /\ focus = b /\ text[b] # t
  /\ text' = [text EXCEPT ![b] = t]
  /\ touched' = touched \cup {b}
  /\ UNCHANGED <<window, name, focus, last, testing, returnFocus, status, inputMods>>
  /\ UNCHANGED <<queues, daemon, down, meddled>>

(* ID_BTN_SAVE, from the keyboard or an accessibility tool with the focus  *)
(* still in a box: the text in it is sent before the save.                 *)
ClickSave ==
  /\ UserActs
  /\ LET save == <<Event("save", NoButton, NoText)>> IN
       IF focus \in Buttons THEN Apply(focus, text[focus], save)
       ELSE /\ events' = events \o save
            /\ UNCHANGED <<last, testing, returnFocus, status, messages>>
  /\ UNCHANGED <<window, name, focus, text, inputMods, daemon, down, history>>

(* WM_CLOSE, WM_DESTROY: a box that has the focus may lose it on the way.  *)
(* What is in the queue is never dispatched.                               *)
Close ==
  /\ UserActs
  /\ window' = "ended"
  /\ \/ focus \in Buttons /\ text[focus] # last[focus]
        /\ events' = Append(events, Event("onboard", focus, text[focus]))
     \/ UNCHANGED events
  /\ messages' = <<>>
  /\ testing' = NoTest
  /\ UNCHANGED <<name, focus, text, last, returnFocus, status, inputMods, daemon>>
  /\ UNCHANGED <<down, history>>

(* CloseGuard, when the thread ends. *)
ThreadEnds ==
  /\ window = "ended" /\ ~over
  /\ window' = "closed"
  /\ events' = Append(events, Event("closed", NoButton, NoText))
  /\ UNCHANGED <<name, view, inputMods, messages, daemon, down, history>>

Message(k) == Live /\ messages # <<>> /\ Head(messages).kind = k

(* WM_APP_DEFOCUS, and the WM_SETFOCUS it causes: the window keeps the     *)
(* focus if Tab knows where to go on, or hands it to its first control.    *)
HandleDefocus ==
  /\ Message("defocus")
  /\ IF focus \in Buttons /\ text[focus] # last[focus]
       THEN /\ last' = [last EXCEPT ![focus] = text[focus]]
            /\ testing' = NoTest /\ returnFocus' = focus
            /\ status' = Status("saving", focus)
            /\ messages' = Append(Tail(messages), Defocus)
            /\ events' = Append(events, Event("onboard", focus, text[focus]))
       ELSE /\ messages' = Tail(messages)
            /\ UNCHANGED <<last, testing, returnFocus, status, events>>
  /\ focus' = IF returnFocus' = NoButton THEN "other" ELSE "window"
  /\ UNCHANGED <<window, name, text, inputMods, daemon, down, history>>

HandleResult_AnyOutcome ==
  /\ Message("result")
  /\ messages' = Tail(messages)
  /\ testing' = [button |-> Head(messages).button, expect |-> Head(messages).outcome]
  /\ status' = Status("test", Head(messages).button)
  /\ UNCHANGED <<window, name, focus, text, last, returnFocus, inputMods, events, daemon>>
  /\ UNCHANGED <<down, history>>

HandleResult_KeepsTest ==
  /\ Message("result")
  /\ messages' = Tail(messages)
  /\ LET b == Head(messages).button
         o == Head(messages).outcome IN
       /\ testing' = IF o \in Sends THEN [button |-> b, expect |-> o] ELSE testing
       /\ status' = Status(IF o \in Sends THEN "test"
                           ELSE IF o = Failed THEN "failed" ELSE "saved", b)
  /\ UNCHANGED <<window, name, focus, text, last, returnFocus, inputMods, events, daemon>>
  /\ UNCHANGED <<down, history>>

(* WM_APP_ONBOARD: a bind that sends something is tested now, instead of   *)
(* whatever was; anything else ends the test.                              *)
HandleResult ==
  /\ Message("result")
  /\ messages' = Tail(messages)
  /\ LET b == Head(messages).button
         o == Head(messages).outcome IN
       /\ testing' = IF o \in Sends THEN [button |-> b, expect |-> o] ELSE NoTest
       /\ status' = Status(IF o \in Sends THEN "test"
                           ELSE IF o = Failed THEN "failed" ELSE "saved", b)
  /\ UNCHANGED <<window, name, focus, text, last, returnFocus, inputMods, events, daemon>>
  /\ UNCHANGED <<down, history>>

-----------------------------------------------------------------------------
(* The mouse.                                                              *)

(* interpret_test_input: a key with the modifiers the window believes are  *)
(* held, or a mouse button.                                                *)
Got(s) == IF s.key \in Typed THEN [s EXCEPT !.mods = inputMods'] ELSE s

(* verdict, and what the handler of WM_INPUT makes of it: a left click is  *)
(* how people use the window.                                              *)
Judge(got) ==
  IF got = testing.expect
  THEN testing' = NoTest /\ status' = Status("proved", testing.button)
  ELSE /\ status' = IF got = Left THEN status ELSE Status("wrong", testing.button)
       /\ UNCHANGED testing

(* The user presses b: its modifiers go down, then its key.  Outside a     *)
(* test the window reads neither.                                          *)
Press(b) ==
  LET s == SendsOf[stored[b]] IN
    /\ UserActs /\ down = {} /\ s # Silence
    /\ s.key \in Typed => focus \notin Buttons
    /\ down' = s.mods
    /\ IF testing = NoTest
       THEN UNCHANGED <<inputMods, testing, status>>
       ELSE inputMods' = inputMods \cup s.mods /\ Judge(Got(s))
    /\ UNCHANGED <<window, name, focus, text, last, returnFocus, queues>>
    /\ UNCHANGED <<daemon, history>>

(* With the focus in a box the key is recorded as well: the raw input is   *)
(* judged first, and whatever it said the box takes the key for its own.   *)
PressInBox(b) ==
  LET s == SendsOf[stored[b]]
      t == TextOf[stored[b]] IN
    /\ UserActs /\ down = {} /\ focus \in Buttons /\ s # Silence
    /\ s.key \in Typed
    /\ down' = s.mods
    /\ inputMods' = IF testing = NoTest THEN inputMods ELSE inputMods \cup s.mods
    /\ text' = [text EXCEPT ![focus] = t]
    /\ IF t # last[focus] \/ testing = NoTest THEN Apply(focus, t, <<>>)
       ELSE Judge(Got(s)) /\ UNCHANGED <<last, returnFocus, messages, events>>
    /\ touched' = touched \cup {focus}
    /\ UNCHANGED <<window, name, focus, daemon, meddled>>

(* And releases it. *)
Release ==
  /\ down # {}
  /\ down' = {}
  /\ inputMods' = IF window = "open" /\ testing # NoTest THEN inputMods \ down ELSE inputMods
  /\ UNCHANGED <<window, name, view, queues, daemon, history>>

Dispatch == HandleDefocus \/ HandleResult
Main == SetOnboard \/ SaveConfig \/ SettingsClosed

Next ==
  \/ Open \/ SetOnboard \/ SaveConfig \/ SettingsClosed
  \/ \E b \in Buttons, d \in Binds : Reload(b, d)
  \/ \E b \in Buttons, t \in Texts : Choose(b, t)
  \/ \E b \in Buttons, t \in Texts : Paste(b, t)
  \/ \E b \in Buttons : FocusBox(b)
  \/ \E b \in Buttons : Press(b)
  \/ \E b \in Buttons : PressInBox(b)
  \/ FocusOther \/ ClickSave \/ Close \/ ThreadEnds
  \/ \E f \in Buttons \cup {"other"} : TabOnward(f)
  \/ HandleDefocus \/ HandleResult \/ Release

(* Both threads serve their queues. *)
Fairness == WF_vars(Main) /\ WF_vars(Dispatch) /\ WF_vars(ThreadEnds)

Spec == Init /\ [][Next]_vars /\ Fairness

-----------------------------------------------------------------------------
(* Properties.                                                             *)

Asked(b) == \E i \in DOMAIN events : events[i].kind = "onboard" /\ events[i].button = b

(* A result is for the window that asked: those of a window that was       *)
(* closed meet no window, however soon another opens (settings.rs:392-407, *)
(* with CloseGuard, daemon.rs:284-294).                                    *)
ResultsComeHome ==
  \A i \in DOMAIN messages : messages[i].to = name

(* The window asks for a press that can prove something: with no other     *)
(* choice for that button under way, the mouse stores the bind the window  *)
(* waits to see.  Results come late, for several buttons, and for one that *)
(* was chosen twice (settings.rs:1670-1697).                               *)
TestIsStored ==
  testing # NoTest /\ ~meddled /\ ~Asked(testing.button)
    /\ (\A i \in DOMAIN messages : messages[i].button # testing.button)
      => SendsOf[stored[testing.button]] = testing.expect

(* "Opening and saving never writes to the mouse", nor do focus changes:   *)
(* only what a user chose or typed in a box is asked for that button       *)
(* (settings.rs:409-419, 1515-1520).                                       *)
UntouchedIsQuiet ==
  \A i \in DOMAIN events :
    events[i].kind = "onboard" => events[i].button \in touched

(* "Saving" is never the last word. *)
SavingEnds == status.kind = "saving" ~> (status.kind # "saving" \/ ~Live)
=============================================================================
