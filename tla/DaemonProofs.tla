----------------------------- MODULE DaemonProofs -----------------------------
(***************************************************************************)
(* Proofs about Daemon for any models, listeners and notices, a channel of *)
(* any length and any DPI ranges that satisfy RangeAssumption.             *)
(***************************************************************************)
EXTENDS Daemon, TLAPS

USE DaemonAssumption

(* Which mouse the main thread serves, by where it is. *)
ServeInv ==
  /\ phase \in {"opening", "gap"} => serving = None
  /\ phase \in {"starting", "probing"} \cup Loop => serving \in Mice
  /\ phase = "probing" => serving \in Buttons

(* A DPI that no later command can refuse: within the range of the mouse   *)
(* being served or, while there is none, of every mouse.                   *)
Fits(d)     == \A m \in Mice : serving \in {None, m} => d <= MaxDpi[m]
AllFit(q)   == \A i \in DOMAIN q : q[i].kind = "set" => Fits(q[i].dpi)
MenuFits(m) == m \in Mice \ {NoMenu} => Fits(MaxDpi[m])
RangeInv    == AllFit(queue) /\ Fits(slider) /\ MenuFits(menu) /\ MenuFits(shown)

(* Only a mouse with DPI buttons is ever in driver mode. *)
ModeInv ==
  /\ live => plugged = serving /\ serving \in Mice
  /\ mode = "driver" => plugged \in Buttons
  /\ serving \in Mice \ Buttons => mode = "hardware"

(* A session in its loop started its listeners, and one that ended latched. *)
ReaderInv ==
  /\ InLoop /\ serving \in Buttons => \E r \in Readers : readers[r] # "off"
  /\ \A r \in Readers : readers[r] \in {"latched", "closed"} => stopped

BaseInv == TypeOK /\ ServeInv

-----------------------------------------------------------------------------
(* What the channel holds.                                                 *)

LEMMA MsgType ==
  /\ \A k \in {"open", "closed", "toggle", "retry", "quit", "lost"} :
       Msg(k) \in Messages /\ Msg(k).kind = k
  /\ \A d \in Nat : SetDpi(d) \in Messages /\ SetDpi(d).kind = "set" /\ SetDpi(d).dpi = d
BY DEF Msg, SetDpi, Messages

LEMMA DpiType == TypeOK => \A i \in DOMAIN queue : queue[i].dpi \in Nat
<1> SUFFICES ASSUME TypeOK, NEW i \in DOMAIN queue PROVE queue[i].dpi \in Nat
  OBVIOUS
<1>1. queue[i] \in Messages
  BY DEF TypeOK
<1> QED
  BY <1>1 DEF Messages

(* What the menu offers. *)
LEMMA PresetType ==
  ASSUME TypeOK, shown # NoMenu PROVE Presets(shown) \subseteq Nat
<1>1. shown = None \/ shown \in Mice
  BY DEF TypeOK, Menus
<1> QED
  BY <1>1 DEF Presets

LEMMA InitBase == Init => BaseInv
<1> SUFFICES ASSUME Init PROVE BaseInv
  OBVIOUS
<1>1. phase \in {"opening"} /\ queue \in Seq(Messages)
  BY DEF Init
<1>2. notices \in [Notices -> {"off"}] /\ readers \in [Readers -> {"off"}]
  BY DEF Init
<1>3. menu \in Menus /\ shown \in Menus
  BY DEF Init, Menus
<1>4. TypeOK
  BY <1>1, <1>2, <1>3 DEF Init, TypeOK
<1>5. ServeInv
  BY DEF Init, ServeInv, Loop
<1> QED
  BY <1>4, <1>5 DEF BaseInv

LEMMA NextBase == BaseInv /\ [Next]_vars => BaseInv'
<1> SUFFICES ASSUME BaseInv, [Next]_vars PROVE BaseInv'
  OBVIOUS
<1> USE DEF BaseInv, TypeOK, ServeInv, Loop, Ended, Menus, Goto, Stop,
            session, device, win, popups, tray
<1>1. CASE OpenFails
  BY <1>1 DEF OpenFails
<1>2. CASE OpenNothing
  BY <1>2 DEF OpenNothing
<1>3. CASE Open
  BY <1>3 DEF Open
<1>4. CASE ConfigRejected
  BY <1>4 DEF ConfigRejected
<1>5. CASE StartFails
  BY <1>5 DEF StartFails
<1>6. CASE Start
  BY <1>6 DEF Start
<1>7. CASE ProbeEmpty
  <2>1. live' \in BOOLEAN
    BY <1>7 DEF ProbeEmpty, EndSession
  <2> QED
    BY <2>1, <1>7 DEF ProbeEmpty, EndSession
<1>8. CASE ProbeFails
  BY <1>8 DEF ProbeFails
<1>9. CASE Listen
  BY <1>9 DEF Listen
<1>10. CASE Check
  BY <1>10 DEF Check
<1>11. CASE RecvTimeout
  BY <1>11 DEF RecvTimeout
<1>12. CASE RecvOpen
  BY <1>12 DEF RecvOpen, First, Take
<1>13. CASE RecvOpenFails
  BY <1>13 DEF RecvOpenFails, First, Take
<1>14. CASE RecvClosed
  <2>1. settingsOpen' \in BOOLEAN
    BY <1>14 DEF RecvClosed, First, Take
  <2> QED
    BY <2>1, <1>14 DEF RecvClosed, First, Take
<1>15. CASE RecvSet
  <2>1. live' \in BOOLEAN
    BY <1>15 DEF RecvSet, First, Take, EndSession
  <2> QED
    BY <2>1, <1>15 DEF RecvSet, First, Take, EndSession
<1>16. CASE RecvSetFails
  BY <1>16 DEF RecvSetFails, First, Take
<1>17. CASE RecvToggle
  BY <1>17 DEF RecvToggle, First, Take
<1>18. CASE RecvRetry
  BY <1>18 DEF RecvRetry, First, Take
<1>19. CASE RecvLost
  BY <1>19 DEF RecvLost, First, Take
<1>20. CASE RecvQuit
  BY <1>20 DEF RecvQuit, First, Take
<1>21. CASE RecvQuitFails
  BY <1>21 DEF RecvQuitFails, First, Take
<1>22. CASE NotDue
  BY <1>22 DEF NotDue
<1>23. CASE DueFails
  BY <1>23 DEF DueFails
<1>24. CASE Due
  BY <1>24 DEF Due
<1>25. CASE GapTimeout
  BY <1>25 DEF GapTimeout, GapOver
<1>26. CASE GapOpen
  <2>1. popupOpen' \in BOOLEAN
    BY <1>26 DEF GapOpen, First, Take, GapOver
  <2> QED
    BY <2>1, <1>26 DEF GapOpen, First, Take, GapOver
<1>27. CASE GapRetry
  BY <1>27, MsgType DEF GapRetry, First
<1>28. CASE GapQuit
  BY <1>28 DEF GapQuit, First, Take
<1>29. CASE GapToggle
  BY <1>29 DEF GapToggle, First, Take, GapOver
<1>30. CASE GapOther
  <2>1. settingsOpen' \in BOOLEAN
    BY <1>30 DEF GapOther
  <2>2. /\ phase = "gap" /\ queue # <<>> /\ Take /\ GapOver
        /\ UNCHANGED <<session, device, stopped, win, popups, readers, reset, tray>>
    BY <1>30 DEF GapOther
  <2> QED
    BY <2>1, <2>2 DEF Take, GapOver
<1>31. CASE Dismiss
  BY <1>31 DEF Dismiss
<1>32. CASE TrayStarts
  BY <1>32 DEF TrayStarts
<1>33. CASE ShowMenu
  BY <1>33 DEF ShowMenu
<1>34. CASE PickMenu
  <2>1. PICK msg \in Messages : queue' = Append(queue, msg)
    <3>1. CASE \E d \in Presets(shown) : Click(SetDpi(d))
      BY <1>34, <3>1, MsgType, PresetType DEF PickMenu, Click, Post
    <3>2. CASE \E k \in {"open", "toggle", "quit"} : Click(Msg(k))
      BY <3>2, MsgType DEF Click, Post
    <3> QED
      BY <1>34, <3>1, <3>2 DEF PickMenu
  <2> QED
    BY <1>34, <2>1 DEF PickMenu
<1>35. CASE LeftClick
  BY <1>35, MsgType DEF LeftClick, Click, Post
<1>36. CASE MoveSlider
  BY <1>36, MsgType DEF MoveSlider, Click, Post
<1>37. CASE WindowEnds
  BY <1>37 DEF WindowEnds
<1>38. CASE CloseGuard
  BY <1>38, MsgType DEF CloseGuard, Post
<1>39. CASE AnswerReset
  BY <1>39 DEF AnswerReset
<1>40. CASE ResetDone
  BY <1>40 DEF ResetDone
<1>41. CASE ResetRefused
  BY <1>41 DEF ResetRefused
<1>42. CASE ResetFails
  BY <1>42 DEF ResetFails
<1>43. CASE Unplug
  <2>1. live' \in BOOLEAN
    BY <1>43 DEF Unplug
  <2> QED
    BY <2>1, <1>43 DEF Unplug
<1>44. ASSUME NEW n \in Notices, Look(n) PROVE BaseInv'
  BY <1>44 DEF Look
<1>45. ASSUME NEW n \in Notices, Answer(n) PROVE BaseInv'
  <2>1. popupOpen' \in BOOLEAN
    BY <1>45 DEF Answer
  <2> QED
    BY <2>1, <1>45 DEF Answer
<1>46. ASSUME NEW n \in Notices, SendRetry(n) PROVE BaseInv'
  BY <1>46, MsgType DEF SendRetry, Post
<1>47. ASSUME NEW r \in Readers, ReadFails(r) PROVE BaseInv'
  BY <1>47 DEF ReadFails
<1>48. ASSUME NEW r \in Readers, ReaderStops(r) PROVE BaseInv'
  BY <1>48 DEF ReaderStops
<1>49. ASSUME NEW r \in Readers, ReaderCloses(r) PROVE BaseInv'
  BY <1>49, MsgType DEF ReaderCloses, Post
<1>50. ASSUME NEW m \in Mice \cup {Unsupported}, Plug(m) PROVE BaseInv'
  BY <1>50 DEF Plug
<1>51. CASE UNCHANGED vars
  BY <1>51 DEF vars
<1> QED
  BY <1>1, <1>2, <1>3, <1>4, <1>5, <1>6, <1>7, <1>8, <1>9, <1>10, <1>11,
     <1>12, <1>13, <1>14, <1>15, <1>16, <1>17, <1>18, <1>19, <1>20, <1>21,
     <1>22, <1>23, <1>24, <1>25, <1>26, <1>27, <1>28, <1>29, <1>30, <1>31,
     <1>32, <1>33, <1>34, <1>35, <1>36, <1>37, <1>38, <1>39, <1>40, <1>41,
     <1>42, <1>43, <1>44, <1>45, <1>46, <1>47, <1>48, <1>49, <1>50, <1>51 DEF
     Next, Main

-----------------------------------------------------------------------------
(* Which actions move what an invariant is about.                          *)

LEMMA DeviceSteps ==
  ASSUME [Next]_vars
  PROVE  \/ UNCHANGED <<session, device>>
         \/ Open \/ StartFails \/ Start \/ ProbeEmpty \/ RecvSet
         \/ RecvQuit \/ RecvQuitFails \/ Due \/ Unplug
         \/ \E m \in Mice \cup {Unsupported} : Plug(m)
BY DEF vars, Next, Main, Dismiss, OpenFails, OpenNothing, ConfigRejected, ProbeFails,
       Listen, Check, RecvTimeout, RecvOpen, RecvOpenFails, RecvClosed, RecvSetFails,
       RecvToggle, RecvRetry, RecvLost, NotDue, DueFails, GapTimeout, GapOpen, GapRetry,
       GapQuit, GapToggle, GapOther, TrayStarts, ShowMenu, PickMenu, LeftClick,
       MoveSlider, WindowEnds, CloseGuard, Look, Answer, SendRetry, ReadFails,
       ReaderStops, ReaderCloses, AnswerReset, ResetDone, ResetRefused, ResetFails

LEMMA NoticeSteps ==
  ASSUME [Next]_vars
  PROVE  \/ UNCHANGED popups
         \/ GapOpen
         \/ \E n \in Notices : Look(n) \/ Answer(n) \/ SendRetry(n)
BY DEF vars, Next, Main, Dismiss, OpenFails, OpenNothing, Open, ConfigRejected, StartFails,
       Start, ProbeEmpty, ProbeFails,
       Listen, Check, RecvTimeout, RecvOpen, RecvOpenFails, RecvClosed, RecvSet, RecvSetFails,
       RecvToggle, RecvRetry, RecvLost, RecvQuit, RecvQuitFails, NotDue, DueFails, Due,
       GapTimeout, GapRetry,
       GapQuit, GapToggle, GapOther, TrayStarts, ShowMenu, PickMenu, LeftClick,
       MoveSlider, WindowEnds, CloseGuard, ReadFails,
       ReaderStops, ReaderCloses, AnswerReset, ResetDone, ResetRefused, ResetFails,
       Plug, Unplug

LEMMA ModeInductive ==
  ASSUME BaseInv, ModeInv, [Next]_vars PROVE ModeInv'
<1> USE DEF BaseInv, TypeOK, ServeInv, ModeInv, Loop, Goto, session, device
<1>1. CASE UNCHANGED <<session, device>>
  BY <1>1
<1>2. CASE Open
  BY <1>2 DEF Open
<1>3. CASE StartFails
  BY <1>3 DEF StartFails
<1>4. CASE Start
  BY <1>4 DEF Start, Works
<1>5. CASE ProbeEmpty
  BY <1>5 DEF ProbeEmpty, EndSession
<1>6. CASE RecvSet
  BY <1>6 DEF RecvSet, EndSession
<1>7. CASE RecvQuit
  BY <1>7 DEF RecvQuit
<1>8. CASE RecvQuitFails
  BY <1>8 DEF RecvQuitFails
<1>9. CASE Due
  BY <1>9 DEF Due, Works
<1>10. CASE Unplug
  BY <1>10 DEF Unplug
<1>11. ASSUME NEW m \in Mice \cup {Unsupported}, Plug(m) PROVE ModeInv'
  BY <1>11 DEF Plug
<1> QED
  BY DeviceSteps, <1>1, <1>2, <1>3, <1>4, <1>5, <1>6, <1>7, <1>8, <1>9, <1>10, <1>11

LEMMA OneNoticeInductive ==
  ASSUME TypeOK, OneNotice, [Next]_vars PROVE OneNotice'
<1> USE DEF TypeOK, OneNotice, Asking, popups
<1>1. CASE UNCHANGED popups
  BY <1>1
<1>2. CASE GapOpen
  BY <1>2 DEF GapOpen
<1>3. ASSUME NEW n \in Notices, Look(n) PROVE OneNotice'
  BY <1>3 DEF Look
<1>4. ASSUME NEW n \in Notices, Answer(n) PROVE OneNotice'
  <2>1. ~popupOpen'
    BY <1>4 DEF Answer
  <2>2. notices'[n] \in {"off", "clicked"} /\ Asking' \subseteq Asking /\ n \in Asking
    BY <1>4 DEF Answer
  <2>3. Asking' = {}
    BY <2>2
  <2> QED
    BY <2>1, <2>3
<1>5. ASSUME NEW n \in Notices, SendRetry(n) PROVE OneNotice'
  BY <1>5 DEF SendRetry
<1> QED
  BY NoticeSteps, <1>1, <1>2, <1>3, <1>4, <1>5

(* ReaderInv and what it is for. *)
LEMMA ReaderSteps ==
  ASSUME [Next]_vars
  PROVE  \/ UNCHANGED readers /\ (stopped => stopped')
         \/ Listen
         \/ \E r \in Readers : ReadFails(r) \/ ReaderStops(r) \/ ReaderCloses(r)
BY DEF vars, Stop, Next, Main, Dismiss, OpenFails, OpenNothing, Open, ConfigRejected,
       StartFails, Start, ProbeEmpty, ProbeFails, Check, RecvTimeout, RecvOpen,
       RecvOpenFails, RecvClosed, RecvSet, RecvSetFails, RecvToggle, RecvRetry, RecvLost,
       RecvQuit, RecvQuitFails, NotDue, DueFails, Due, GapTimeout, GapOpen, GapRetry,
       GapQuit, GapToggle, GapOther, TrayStarts, ShowMenu, PickMenu, LeftClick,
       MoveSlider, WindowEnds, CloseGuard, Look, Answer, SendRetry, AnswerReset,
       ResetDone, ResetRefused, ResetFails, Plug, Unplug

(* The loop is entered by Start, for a mouse without DPI buttons, and by Listen. *)
LEMMA LoopSteps ==
  ASSUME BaseInv, [Next]_vars, InLoop'
  PROVE  \/ InLoop /\ serving' = serving
         \/ serving' \notin Buttons
         \/ Listen
BY DEF BaseInv, ServeInv, InLoop, Loop, Goto, Stop, EndSession, session,
       vars, Next, Main, Dismiss, OpenFails, OpenNothing, Open, ConfigRejected,
       StartFails, Start, ProbeEmpty, ProbeFails, Check, RecvTimeout, RecvOpen,
       RecvOpenFails, RecvClosed, RecvSet, RecvSetFails, RecvToggle, RecvRetry, RecvLost,
       RecvQuit, RecvQuitFails, NotDue, DueFails, Due, GapTimeout, GapOpen, GapRetry,
       GapQuit, GapToggle, GapOther, GapOver, TrayStarts, ShowMenu, PickMenu, LeftClick,
       MoveSlider, WindowEnds, CloseGuard, Look, Answer, SendRetry, AnswerReset,
       ReadFails, ReaderStops, ReaderCloses,
       ResetDone, ResetRefused, ResetFails, Plug, Unplug

LEMMA ReaderInductive ==
  ASSUME BaseInv, ReaderInv, [Next]_vars PROVE ReaderInv'
<1> USE DEF BaseInv, TypeOK, ReaderInv
<1>1. \A r \in Readers : readers'[r] \in {"latched", "closed"} => stopped'
  <2>1. CASE UNCHANGED readers /\ (stopped => stopped')
    BY <2>1
  <2>2. CASE Listen
    BY <2>2 DEF Listen
  <2>3. ASSUME NEW r \in Readers, ReadFails(r) \/ ReaderStops(r) \/ ReaderCloses(r)
        PROVE  <1>1!:
    BY <2>3 DEF ReadFails, ReaderStops, ReaderCloses
  <2> QED
    BY ReaderSteps, <2>1, <2>2, <2>3
<1>2. ASSUME InLoop', serving' \in Buttons PROVE \E r \in Readers : readers'[r] # "off"
  <2>1. CASE Listen
    <3>1. PICK readable \in (SUBSET Readers) \ {{}} : \A r \in readable : readers'[r] = "reading"
      BY <2>1 DEF Listen
    <3>2. PICK r \in readable : TRUE
      BY <3>1
    <3> QED
      BY <3>1, <3>2
  <2>2. CASE InLoop /\ serving' = serving /\ ~Listen
    <3>1. PICK r \in Readers : readers[r] # "off"
      BY <2>2, <1>2
    <3>2. readers'[r] # "off"
      BY <3>1, <2>2, ReaderSteps DEF ReadFails, ReaderStops, ReaderCloses
    <3> QED
      BY <3>2
  <2> QED
    BY LoopSteps, <1>2, <2>1, <2>2
<1> QED
  BY <1>1, <1>2

-----------------------------------------------------------------------------
(* What fits stays in range.                                               *)

LEMMA SettingSteps ==
  ASSUME BaseInv, [Next]_vars
  PROVE  /\ \/ serving' = serving
            \/ Open \/ ProbeEmpty \/ RecvSet
         /\ slider' = slider \/ RecvOpen
         /\ menu' \in {menu, None, serving'}
         /\ shown' \in {shown, menu, NoMenu}
BY DEF BaseInv, ServeInv, Loop, Stop, session, win, tray, vars, Next, Main,
       Dismiss, OpenFails, OpenNothing, Open, ConfigRejected, StartFails, Start,
       ProbeEmpty, ProbeFails, Listen, Check, RecvTimeout, RecvOpen,
       RecvOpenFails, RecvClosed, RecvSet, EndSession, RecvSetFails, RecvToggle, RecvRetry, RecvLost, RecvQuit,
       RecvQuitFails, NotDue, DueFails, Due, GapTimeout, GapOpen, GapRetry,
       GapQuit, GapToggle, GapOther, TrayStarts, ShowMenu, PickMenu, LeftClick,
       MoveSlider, WindowEnds, CloseGuard, Look, Answer, SendRetry, ReadFails,
       ReaderStops, ReaderCloses, AnswerReset, ResetDone, ResetRefused,
       ResetFails, Plug, Unplug

LEMMA QueueSteps ==
  ASSUME [Next]_vars
  PROVE  \/ UNCHANGED queue
         \/ queue # <<>> /\ Take
         \/ queue # <<>> /\ queue' = Append(Tail(queue), Msg("open"))
         \/ PickMenu \/ MoveSlider
         \/ \E k \in {"open", "closed", "retry", "lost"} : Post(Msg(k))
BY DEF First, Click, vars, Next, Main, Dismiss, OpenFails, OpenNothing, Open,
       ConfigRejected, StartFails, Start, ProbeEmpty, ProbeFails, Listen, Check,
       RecvTimeout, RecvOpen, RecvOpenFails, RecvClosed, RecvSet, RecvSetFails,
       RecvToggle, RecvRetry, RecvLost, RecvQuit, RecvQuitFails, NotDue,
       DueFails, Due, GapTimeout, GapOpen, GapRetry, GapQuit, GapToggle,
       GapOther, TrayStarts, ShowMenu, LeftClick, WindowEnds, CloseGuard, Look,
       Answer, SendRetry, ReadFails, ReaderStops, ReaderCloses, AnswerReset,
       ResetDone, ResetRefused, ResetFails, Plug, Unplug

LEMMA TailFits ==
  ASSUME NEW q \in Seq(Messages), q # <<>>, AllFit(q) PROVE AllFit(Tail(q))
<1>1. ASSUME NEW i \in DOMAIN Tail(q) PROVE i + 1 \in DOMAIN q /\ Tail(q)[i] = q[i + 1]
  OBVIOUS
<1> QED
  BY <1>1 DEF AllFit

LEMMA AppendFits ==
  ASSUME NEW q \in Seq(Messages), AllFit(q),
         NEW m \in Messages, m.kind = "set" => Fits(m.dpi)
  PROVE  AllFit(Append(q, m))
<1>1. ASSUME NEW i \in DOMAIN Append(q, m)
      PROVE  \/ i \in DOMAIN q /\ Append(q, m)[i] = q[i]
             \/ Append(q, m)[i] = m
  OBVIOUS
<1> QED
  BY <1>1 DEF AllFit

(* A DPI the menu on screen offers is one that fits. *)
LEMMA PresetFits ==
  ASSUME BaseInv, RangeInv, shown # NoMenu, NEW d \in Presets(shown)
  PROVE  d \in Nat /\ Fits(d)
<1>1. CASE shown = None
  BY <1>1, RangeAssumption DEF Presets, Fits
<1>2. CASE shown # None
  <2>1. shown \in Mice
    BY <1>2 DEF BaseInv, TypeOK, Menus
  <2>2. Fits(MaxDpi[shown]) /\ MaxDpi[shown] \in Nat
    BY <2>1 DEF RangeInv, MenuFits
  <2>3. d \in Nat /\ d <= MaxDpi[shown]
    BY <2>1, <2>2, <1>2 DEF Presets
  <2> QED
    BY <2>2, <2>3 DEF Fits
<1> QED
  BY <1>1, <1>2

(* Whatever is posted fits, so that RecvSet never refuses a DPI. *)
LEMMA QueueFits ==
  ASSUME BaseInv, RangeInv, [Next]_vars PROVE AllFit(queue')
<1> USE DEF BaseInv, TypeOK, RangeInv
<1>1. CASE UNCHANGED queue
  BY <1>1
<1>2. CASE queue # <<>> /\ Take
  BY <1>2, TailFits DEF Take
<1>3. CASE queue # <<>> /\ queue' = Append(Tail(queue), Msg("open"))
  <2>1. Tail(queue) \in Seq(Messages)
    BY <1>3
  <2> QED
    BY <1>3, <2>1, TailFits, AppendFits, MsgType
<1>4. ASSUME NEW k \in {"open", "closed", "toggle", "quit", "retry", "lost"}, Post(Msg(k))
      PROVE  AllFit(queue')
  <2>1. Msg(k) \in Messages /\ Msg(k).kind # "set"
    BY MsgType
  <2> QED
    BY <1>4, <2>1, AppendFits DEF Post
<1>5. ASSUME NEW d \in Nat, Fits(d), Post(SetDpi(d)) PROVE AllFit(queue')
  BY <1>5, AppendFits, MsgType DEF Post
<1>6. CASE PickMenu
  <2>1. CASE \E d \in Presets(shown) : Click(SetDpi(d))
    BY <1>6, <2>1, <1>5, PresetFits DEF PickMenu, Click
  <2>2. CASE \E k \in {"open", "toggle", "quit"} : Click(Msg(k))
    BY <2>2, <1>4 DEF Click
  <2> QED
    BY <1>6, <2>1, <2>2 DEF PickMenu
<1>7. CASE MoveSlider
  <2>1. PICK d \in Slider : d <= slider /\ Post(SetDpi(d))
    BY <1>7 DEF MoveSlider, Click
  <2>2. d \in Nat /\ Fits(d)
    BY <2>1 DEF Fits
  <2> QED
    BY <2>1, <2>2, <1>5
<1> QED
  BY QueueSteps, <1>1, <1>2, <1>3, <1>4, <1>6, <1>7

LEMMA HeadFits ==
  ASSUME BaseInv, RangeInv, RecvSet
  PROVE  UNCHANGED session /\ phase' = "maint"
<1>1. queue # <<>> /\ Head(queue).kind = "set" /\ phase = "recv"
  BY DEF RecvSet, First
<1>2. Fits(Head(queue).dpi) /\ Head(queue).dpi \in Nat
  <2>1. 1 \in DOMAIN queue /\ Head(queue) = queue[1]
    BY <1>1 DEF BaseInv, TypeOK
  <2> QED
    BY <1>1, <2>1, DpiType DEF RangeInv, AllFit, BaseInv
<1>3. serving \in Mice /\ MaxDpi[serving] \in Nat
  BY <1>1 DEF BaseInv, ServeInv, Loop
<1>4. ~(Head(queue).dpi > MaxDpi[serving])
  BY <1>2, <1>3 DEF Fits
<1> QED
  BY <1>4 DEF RecvSet, Goto

LEMMA RangeInductive ==
  ASSUME BaseInv, RangeInv, [Next]_vars PROVE RangeInv'
<1>1. ASSUME NEW d \in Nat, Fits(d) PROVE Fits(d)'
  <2>1. CASE serving' = serving
    BY <2>1, <1>1 DEF Fits
  <2>2. CASE Open
    <3>1. serving = None
      BY <2>2 DEF Open, BaseInv, ServeInv
    <3> QED
      BY <3>1, <1>1 DEF Fits
  <2>3. CASE ProbeEmpty
    <3>1. serving \in Buttons
      BY <2>3 DEF ProbeEmpty, BaseInv, ServeInv
    <3>2. d <= MaxDpi[serving] /\ MaxDpi[serving] \in Nat
      BY <3>1, <1>1 DEF Fits
    <3>3. \A m \in Mice : MaxDpi[serving] <= MaxDpi[m] /\ MaxDpi[m] \in Nat
      BY <3>1, RangeAssumption
    <3> QED
      BY <3>2, <3>3 DEF Fits
  <2>4. CASE RecvSet
    BY <2>4, HeadFits, <2>1 DEF session
  <2> QED
    BY SettingSteps, <2>1, <2>2, <2>3, <2>4
<1>2. AllFit(queue)'
  <2>1. queue' \in Seq(Messages) /\ \A i \in DOMAIN queue' : queue'[i].dpi \in Nat
    <3>1. TypeOK'
      BY NextBase DEF BaseInv
    <3>2. ASSUME NEW i \in DOMAIN queue' PROVE queue'[i] \in Messages
      BY <3>1 DEF TypeOK
    <3> QED
      BY <3>1, <3>2 DEF TypeOK, Messages
  <2> QED
    BY <2>1, <1>1, QueueFits DEF AllFit
<1>3. Fits(slider)'
  <2>1. CASE slider' = slider
    BY <2>1, <1>1 DEF RangeInv, BaseInv, TypeOK
  <2>2. CASE RecvOpen
    <3>1. serving \in Mice /\ serving' = serving
      BY <2>2 DEF RecvOpen, BaseInv, ServeInv, Loop, session
    <3>2. slider' = slider \/ slider' = MaxDpi[serving]
      BY <2>2 DEF RecvOpen, win
    <3>3. MaxDpi[serving] \in Nat
      BY <3>1
    <3> QED
      BY <2>1, <3>1, <3>2, <3>3 DEF Fits, BaseInv, TypeOK
  <2> QED
    BY SettingSteps, <2>1, <2>2
<1>4. ASSUME NEW m \in Menus, MenuFits(m) PROVE MenuFits(m)'
  BY <1>1, <1>4 DEF MenuFits
<1>5. MenuFits(menu)'
  <2>1. CASE menu' = menu
    BY <2>1, <1>4 DEF RangeInv, BaseInv, TypeOK, MenuFits
  <2>2. CASE menu' \in {None, serving'}
    BY <2>2 DEF MenuFits, Fits
  <2> QED
    BY SettingSteps, <2>1, <2>2
<1>6. MenuFits(shown)'
  <2>1. shown' = NoMenu \/ MenuFits(shown')
    BY SettingSteps DEF RangeInv
  <2>2. shown' \in Menus
    BY NextBase DEF BaseInv, TypeOK
  <2> QED
    BY <2>1, <2>2, <1>4 DEF MenuFits
<1> QED
  BY <1>2, <1>3, <1>5, <1>6 DEF RangeInv

-----------------------------------------------------------------------------
(* The settings window's latch.                                            *)

ClosedIn(q) == {i \in DOMAIN q : q[i].kind = "closed"}
(* q and r hold as many SettingsClosed events, when q holds at most one. *)
AsClosed(q, r) ==
  /\ ClosedIn(q) = {} <=> ClosedIn(r) = {}
  /\ (\A i, j \in ClosedIn(q) : i = j) => \A i, j \in ClosedIn(r) : i = j

LEMMA TailClosed ==
  ASSUME NEW q \in Seq(Messages), q # <<>>
  PROVE  /\ Head(q).kind # "closed" => AsClosed(q, Tail(q))
         /\ Head(q).kind = "closed" =>
              /\ ClosedIn(q) # {}
              /\ (\A i, j \in ClosedIn(q) : i = j) => ClosedIn(Tail(q)) = {}
<1>1. ASSUME NEW i \in DOMAIN Tail(q)
      PROVE  i \in Nat \ {0} /\ i + 1 \in DOMAIN q /\ Tail(q)[i] = q[i + 1]
  OBVIOUS
<1>2. ASSUME NEW i \in DOMAIN q, i # 1
      PROVE  i \in Nat /\ i - 1 \in DOMAIN Tail(q) /\ Tail(q)[i - 1] = q[i]
  <2>1. i \in 2 .. Len(q) /\ i - 1 \in 1 .. Len(q) - 1
    BY <1>2
  <2>2. Tail(q) \in Seq(Messages) /\ Len(Tail(q)) = Len(q) - 1
    OBVIOUS
  <2>3. Tail(q)[i - 1] = q[(i - 1) + 1]
    BY <2>1, <2>2
  <2> QED
    BY <2>1, <2>2, <2>3
<1>3. 1 \in DOMAIN q /\ Head(q) = q[1]
  OBVIOUS
<1>4. \A i \in ClosedIn(Tail(q)) : i \in Nat \ {0} /\ i + 1 \in ClosedIn(q)
  BY <1>1 DEF ClosedIn
<1>5. \A i \in ClosedIn(q) : i # 1 => i - 1 \in ClosedIn(Tail(q))
  BY <1>2 DEF ClosedIn
<1>6. 1 \in ClosedIn(q) <=> Head(q).kind = "closed"
  BY <1>3 DEF ClosedIn
<1>7. CASE Head(q).kind # "closed"
  <2>1. ASSUME \A i, j \in ClosedIn(q) : i = j, NEW i \in ClosedIn(Tail(q)),
               NEW j \in ClosedIn(Tail(q))
        PROVE  i = j
    <3>1. i + 1 = j + 1 /\ i \in Nat /\ j \in Nat
      BY <1>4, <2>1
    <3> QED
      BY <3>1
  <2>2. ClosedIn(q) = {} <=> ClosedIn(Tail(q)) = {}
    BY <1>4, <1>5, <1>6, <1>7
  <2> QED
    BY <1>7, <2>1, <2>2 DEF AsClosed
<1>8. CASE Head(q).kind = "closed"
  <2>1. ASSUME \A i, j \in ClosedIn(q) : i = j, NEW i \in ClosedIn(Tail(q)) PROVE FALSE
    <3>1. i + 1 = 1 /\ i \in Nat \ {0}
      BY <1>4, <1>6, <1>8, <2>1
    <3> QED
      BY <3>1
  <2> QED
    BY <1>6, <1>8, <2>1
<1> QED
  BY <1>7, <1>8

LEMMA AppendClosed ==
  ASSUME NEW q \in Seq(Messages), NEW m \in Messages
  PROVE  /\ m.kind # "closed" => AsClosed(q, Append(q, m))
         /\ m.kind = "closed" => ClosedIn(Append(q, m)) = ClosedIn(q) \cup {Len(q) + 1}
<1>1. ASSUME NEW i \in DOMAIN Append(q, m)
      PROVE  \/ i \in DOMAIN q /\ Append(q, m)[i] = q[i]
             \/ i = Len(q) + 1 /\ Append(q, m)[i] = m
  OBVIOUS
<1>2. ASSUME NEW i \in DOMAIN q
      PROVE  i \in DOMAIN Append(q, m) /\ Append(q, m)[i] = q[i]
  OBVIOUS
<1>3. Len(q) + 1 \in DOMAIN Append(q, m) /\ Append(q, m)[Len(q) + 1] = m
  OBVIOUS
<1>4. m.kind # "closed" => ClosedIn(Append(q, m)) = ClosedIn(q)
  BY <1>1, <1>2 DEF ClosedIn
<1>5. m.kind = "closed" => ClosedIn(Append(q, m)) = ClosedIn(q) \cup {Len(q) + 1}
  BY <1>1, <1>2, <1>3 DEF ClosedIn
<1> QED
  BY <1>4, <1>5 DEF AsClosed

(* What a step does that leaves the window and its flag alone. *)
QuietWindow == UNCHANGED <<settingsOpen, window>>

LEMMA WindowSteps ==
  ASSUME [Next]_vars, InService'
  PROVE  /\ InService
         /\ \/ QuietWindow /\ UNCHANGED queue
            \/ QuietWindow /\ queue # <<>> /\ Head(queue).kind # "closed" /\ Take
            \/ QuietWindow /\ GapRetry
            \/ QuietWindow /\ (PickMenu \/ MoveSlider)
            \/ QuietWindow /\ \E k \in {"open", "retry", "lost"} : Post(Msg(k))
            \/ RecvOpen \/ RecvClosed \/ GapOther \/ WindowEnds \/ CloseGuard
BY DEF QuietWindow, InService, Ended, Goto, Stop, GapOver, EndSession, First,
       Click, win, vars, Next, Main, Dismiss, OpenFails, OpenNothing, Open,
       ConfigRejected, StartFails, Start, ProbeEmpty, ProbeFails, Listen, Check,
       RecvTimeout, RecvOpen, RecvOpenFails, RecvClosed, RecvSet, RecvSetFails,
       RecvToggle, RecvRetry, RecvLost, RecvQuit, RecvQuitFails, NotDue,
       DueFails, Due, GapTimeout, GapOpen, GapRetry, GapQuit, GapToggle,
       GapOther, TrayStarts, ShowMenu, PickMenu, LeftClick, MoveSlider,
       WindowEnds, CloseGuard, Look, Answer, SendRetry, ReadFails, ReaderStops,
       ReaderCloses, AnswerReset, ResetDone, ResetRefused, ResetFails, Plug,
       Unplug

LEMMA WindowInductive ==
  ASSUME BaseInv, WindowLatch, [Next]_vars PROVE WindowLatch'
<1> SUFFICES ASSUME InService' PROVE WindowLatch'
  BY DEF WindowLatch
<1> DEFINE Latch(o, w, q) == /\ o <=> w # "none" \/ ClosedIn(q) # {}
                             /\ ClosedIn(q) # {} => w = "none"
                             /\ \A i, j \in ClosedIn(q) : i = j
           Latched == Latch(settingsOpen', window', queue')
<1>1. Latch(settingsOpen, window, queue)
  BY WindowSteps DEF WindowLatch, Queued, ClosedIn
<1>2. SUFFICES Latched
  BY DEF WindowLatch, Queued, ClosedIn
<1>3. queue \in Seq(Messages) /\ settingsOpen \in BOOLEAN
  BY DEF BaseInv, TypeOK
<1>4. ASSUME QuietWindow, AsClosed(queue, queue') PROVE Latched
  BY <1>1, <1>4 DEF QuietWindow, AsClosed
<1>5. CASE QuietWindow /\ UNCHANGED queue
  BY <1>1, <1>5 DEF QuietWindow, ClosedIn
<1>6. CASE QuietWindow /\ queue # <<>> /\ Head(queue).kind # "closed" /\ Take
  BY <1>3, <1>4, <1>6, TailClosed DEF Take
<1>7. ASSUME QuietWindow, NEW m \in Messages, m.kind # "closed", Post(m) PROVE Latched
  BY <1>3, <1>4, <1>7, AppendClosed DEF Post
<1>8. CASE QuietWindow /\ GapRetry
  <2>1. /\ queue # <<>> /\ Head(queue).kind # "closed"
        /\ queue' = Append(Tail(queue), Msg("open"))
    BY <1>8 DEF GapRetry, First
  <2>2. Tail(queue) \in Seq(Messages)
    BY <1>3, <2>1
  <2>3. AsClosed(queue, Tail(queue)) /\ AsClosed(Tail(queue), queue')
    BY <1>3, <2>1, <2>2, TailClosed, AppendClosed, MsgType
  <2> QED
    BY <1>4, <1>8, <2>3 DEF AsClosed
<1>9. CASE QuietWindow /\ (PickMenu \/ MoveSlider)
  <2>1. CASE PickMenu /\ \E d \in Presets(shown) : Click(SetDpi(d))
    <3>1. PICK d \in Nat : Post(SetDpi(d))
      BY <2>1, PresetType DEF PickMenu, Click, BaseInv
    <3> QED
      BY <1>7, <1>9, <3>1, MsgType
  <2>2. CASE \E k \in {"open", "toggle", "quit"} : Click(Msg(k))
    BY <1>7, <1>9, <2>2, MsgType DEF Click
  <2>3. CASE MoveSlider
    <3>1. PICK d \in Nat : Post(SetDpi(d))
      BY <2>3 DEF MoveSlider, Click
    <3> QED
      BY <1>7, <1>9, <3>1, MsgType
  <2> QED
    BY <1>9, <2>1, <2>2, <2>3 DEF PickMenu
<1>10. CASE QuietWindow /\ \E k \in {"open", "retry", "lost"} : Post(Msg(k))
  BY <1>7, <1>10, MsgType
<1>11. CASE RecvOpen
  <2>1. AsClosed(queue, queue')
    BY <1>3, <1>11, TailClosed DEF RecvOpen, First, Take
  <2>2. settingsOpen' /\ (settingsOpen => window' = window) /\ (~settingsOpen => window' = "open")
    BY <1>11 DEF RecvOpen, win
  <2> QED
    BY <1>1, <2>1, <2>2 DEF AsClosed
<1>12. ASSUME queue # <<>>, Head(queue).kind = "closed", Take, ~settingsOpen', window' = window
       PROVE  Latched
  <2>1. ClosedIn(queue) # {} /\ ClosedIn(queue') = {}
    BY <1>1, <1>3, <1>12, TailClosed DEF Take
  <2> QED
    BY <1>1, <1>12, <2>1
<1>13. CASE RecvClosed
  <2>1. ~settingsOpen'
    BY <1>13 DEF RecvClosed
  <2> QED
    BY <1>12, <1>13, <2>1 DEF RecvClosed, First, win
<1>14. CASE GapOther
  <2>1. CASE Head(queue).kind = "closed"
    <3>1. ~settingsOpen'
      BY <1>14, <2>1 DEF GapOther
    <3> QED
      BY <1>12, <1>14, <2>1, <3>1 DEF GapOther, win
  <2>2. CASE Head(queue).kind # "closed"
    <3>1. settingsOpen' = settingsOpen /\ QuietWindow
      BY <1>14, <2>2 DEF GapOther, QuietWindow, win
    <3> QED
      BY <1>3, <1>4, <1>14, <2>2, <3>1, TailClosed DEF GapOther, Take
  <2> QED
    BY <2>1, <2>2
<1>15. CASE WindowEnds
  BY <1>1, <1>15 DEF WindowEnds, ClosedIn
<1>16. CASE CloseGuard
  <2>1. window = "gone" /\ window' = "none" /\ settingsOpen' = settingsOpen
    BY <1>16 DEF CloseGuard
  <2>2. ClosedIn(queue) = {} /\ settingsOpen
    BY <1>1, <2>1
  <2>3. ClosedIn(queue') = {Len(queue) + 1}
    BY <1>3, <1>16, <2>2, AppendClosed, MsgType DEF CloseGuard, Post
  <2> QED
    BY <2>1, <2>2, <2>3
<1> QED
  BY WindowSteps, <1>5, <1>6, <1>8, <1>9, <1>10, <1>11, <1>13, <1>14, <1>15, <1>16

-----------------------------------------------------------------------------
(* The theorems.                                                           *)

IInv == BaseInv /\ RangeInv /\ ModeInv /\ ReaderInv /\ OneNotice /\ WindowLatch

LEMMA InitIInv == Init => IInv
<1> SUFFICES ASSUME Init PROVE IInv
  OBVIOUS
<1>1. BaseInv
  BY InitBase
<1>2. RangeInv
  <2>1. Fits(slider)
    BY DEF Init, Fits
  <2>2. AllFit(queue)
    BY DEF Init, AllFit
  <2> QED
    BY <2>1, <2>2 DEF Init, RangeInv, MenuFits
<1>3. ModeInv
  BY DEF Init, ModeInv
<1>4. ReaderInv
  BY DEF Init, ReaderInv, InLoop, Loop
<1>5. OneNotice
  <2>1. ~popupOpen /\ Asking = {}
    BY DEF Init, Asking
  <2> QED
    BY <2>1 DEF OneNotice
<1>6. WindowLatch
  <2>1. ~settingsOpen /\ window = "none" /\ Queued("closed") = {}
    BY DEF Init, Queued
  <2> QED
    BY <2>1 DEF WindowLatch
<1> QED
  BY <1>1, <1>2, <1>3, <1>4, <1>5, <1>6 DEF IInv

LEMMA NextIInv == IInv /\ [Next]_vars => IInv'
BY NextBase, RangeInductive, ModeInductive, ReaderInductive, OneNoticeInductive,
   WindowInductive DEF IInv, BaseInv

(* Every reachable state satisfies the inductive invariant, for any set of  *)
(* mice, listeners and notices and a channel of any length.                 *)
THEOREM DaemonInvariant == Spec => []IInv
BY InitIInv, NextIInv, PTL DEF Spec

(* Every variable keeps its type.                                           *)
THEOREM TypeCorrect == Spec => []TypeOK
BY DaemonInvariant, PTL DEF IInv, BaseInv

(* The flag that run keeps for the settings window never disagrees with the *)
(* window and the SettingsClosed events on their way.                       *)
THEOREM WindowIsLatched == Spec => []WindowLatch
BY DaemonInvariant, PTL DEF IInv

(* popup_open is set exactly while one notice, and only one, is up.         *)
THEOREM OneNoticeAtATime == Spec => []OneNotice
BY DaemonInvariant, PTL DEF IInv

(* Neither latch ever disagrees with what is on the screen.                 *)
THEOREM LatchesHold == Spec => []LatchesAreTrue
BY WindowIsLatched, OneNoticeAtATime, PTL DEF LatchesAreTrue

(* A mouse in driver mode always has a listener, while commands work.       *)
THEOREM ListenersHear == Spec => []DriverModeIsHeard
<1>1. IInv => DriverModeIsHeard
  <2> SUFFICES ASSUME IInv, InLoop, mode = "driver", ~stopped
               PROVE  \E r \in Readers : readers[r] \in {"reading", "failed"}
    BY DEF DriverModeIsHeard
  <2>1. serving \in Buttons
    BY DEF IInv, BaseInv, ServeInv, ModeInv, InLoop
  <2>2. PICK r \in Readers : readers[r] # "off"
    BY <2>1 DEF IInv, ReaderInv
  <2> QED
    BY <2>2 DEF IInv, ReaderInv, BaseInv, TypeOK
<1> QED
  BY <1>1, DaemonInvariant, PTL

(* A session that came to serve a mouse is never followed by another: no    *)
(* DPI that any menu or window still offers is out of its range.            *)
THEOREM SessionsEndForGood == Spec => NoReconnect
<1>1. IInv /\ [Next]_vars => (InLoop => phase' \notin {"gap", "opening"})
  <2> SUFFICES ASSUME IInv, [Next]_vars, InLoop PROVE phase' \notin {"gap", "opening"}
    OBVIOUS
  <2>1. CASE RecvSet
    BY <2>1, HeadFits DEF IInv
  <2>2. CASE ~RecvSet
    BY <2>2
       DEF InLoop, Loop, Goto, Stop, GapOver, EndSession, session, vars, Next,
           Main, Dismiss, OpenFails, OpenNothing, Open, ConfigRejected,
           StartFails, Start, ProbeEmpty, ProbeFails, Listen, Check,
           RecvTimeout, RecvOpen, RecvOpenFails, RecvClosed, RecvSetFails,
           RecvToggle, RecvRetry, RecvLost, RecvQuit, RecvQuitFails, NotDue,
           DueFails, Due, GapTimeout, GapOpen, GapRetry, GapQuit, GapToggle,
           GapOther, TrayStarts, ShowMenu, PickMenu, LeftClick, MoveSlider,
           WindowEnds, CloseGuard, Look, Answer, SendRetry, ReadFails,
           ReaderStops, ReaderCloses, AnswerReset, ResetDone, ResetRefused,
           ResetFails, Plug, Unplug
  <2> QED
    BY <2>1, <2>2
<1> QED
  BY <1>1, DaemonInvariant, PTL DEF Spec, NoReconnect

(* A session's Quit leaves its mouse in hardware mode.                      *)
THEOREM QuitRestoresMode == Spec => QuitRestoresSession
<1>1. IInv /\ [Next]_vars => (InLoop /\ phase' = "quit" => mode' = "hardware")
  <2> SUFFICES ASSUME IInv, [Next]_vars, InLoop, phase' = "quit" PROVE mode' = "hardware"
    OBVIOUS
  <2>1. RecvQuit
    BY
       DEF InLoop, Loop, Goto, Stop, GapOver, EndSession, session, vars, Next,
           Main, Dismiss, OpenFails, OpenNothing, Open, ConfigRejected,
           StartFails, Start, ProbeEmpty, ProbeFails, Listen, Check,
           RecvTimeout, RecvOpen, RecvOpenFails, RecvClosed, RecvSet,
           RecvSetFails, RecvToggle, RecvRetry, RecvLost, RecvQuitFails, NotDue,
           DueFails, Due, GapTimeout, GapOpen, GapRetry, GapQuit, GapToggle,
           GapOther, TrayStarts, ShowMenu, PickMenu, LeftClick, MoveSlider,
           WindowEnds, CloseGuard, Look, Answer, SendRetry, ReadFails,
           ReaderStops, ReaderCloses, AnswerReset, ResetDone, ResetRefused,
           ResetFails, Plug, Unplug
  <2> QED
    BY <2>1 DEF RecvQuit, IInv, BaseInv, TypeOK, ServeInv, ModeInv, InLoop
<1> QED
  BY <1>1, DaemonInvariant, PTL DEF Spec, QuitRestoresSession
=============================================================================
