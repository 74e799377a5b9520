-------------------------- MODULE SettingsWindowProofs --------------------------
(***************************************************************************)
(* Proofs about SettingsWindow, for any buttons, texts, binds and length   *)
(* of the queues.                                                          *)
(***************************************************************************)
EXTENDS SettingsWindow, SequenceTheorems, TLAPS

USE SettingsWindowAssumption

-----------------------------------------------------------------------------
(* The invariant.                                                          *)

Statuses == [kind : Kinds, button : Buttons \cup {NoButton}]
Tests == [button : Buttons, expect : Sends] \cup {NoTest}

BoxTypes ==
  /\ window \in {"closed", "open", "ended"} /\ name \in BOOLEAN
  /\ focus \in Buttons \cup {"window", "other"}
  /\ text \in [Buttons -> Texts] /\ last \in [Buttons -> Texts]
  /\ testing \in Tests
  /\ returnFocus \in Buttons \cup {NoButton}
  /\ status \in Statuses
  /\ inputMods \in SUBSET Mods
OtherTypes ==
  /\ opened \in BOOLEAN /\ over \in BOOLEAN
  /\ stored \in [Buttons -> Binds]
  /\ down \in SUBSET Mods
  /\ touched \in SUBSET Buttons /\ meddled \in BOOLEAN

(* What the window called n sends when the user touched the boxes ts, and  *)
(* what the daemon sends it.                                               *)
Known(n, ts) ==
  {e \in Events : e.from = n /\ (e.kind = "onboard" => e.button \in ts /\ e.text \in Texts)}
Fresh(n, ts) == {e \in Known(n, ts) : e.kind # "closed"}
Post(n) == {m \in Messages : m.to = n}

(* Both queues belong to one window: the daemon thinks it is open until it *)
(* has received everything, "closed" last, and opens no other before.      *)
QueueInv ==
  /\ events \in Seq(Known(name, touched))
  /\ messages \in Seq(Post(name))
  /\ \A i \in 1..Len(events) : events[i].kind = "closed" => window = "closed" /\ i = Len(events)
  /\ window # "closed" => opened
  /\ ~opened => events = <<>>
  /\ window # "open" => messages = <<>> /\ testing = NoTest

(* A box that shows something not sent yet was touched. *)
TouchInv == \A b \in Buttons : text[b] # last[b] => b \in touched

(* With no choice for b on its way to the daemon, a bind that sends s is   *)
(* what the last result for b is about.                                    *)
AskedIn(es, b) == \E i \in 1..Len(es) : es[i].kind = "onboard" /\ es[i].button = b
NoneFor(ms, b) == \A i \in 1..Len(ms) : ms[i].button # b
LastAgrees(ms, b, s) ==
  \A i \in 1..Len(ms) :
    ms[i].button = b /\ (\A j \in 1..Len(ms) : j > i => ms[j].button # b)
      /\ ms[i].outcome \in Sends => ms[i].outcome = s

TestInv ==
  ~meddled => \A b \in Buttons : ~AskedIn(events, b) =>
    /\ LastAgrees(messages, b, SendsOf[stored[b]])
    /\ testing # NoTest /\ testing.button = b /\ NoneFor(messages, b) =>
         testing.expect = SendsOf[stored[b]]

IInv == BoxTypes /\ OtherTypes /\ QueueInv /\ TouchInv /\ TestInv

-----------------------------------------------------------------------------
(* Sequences.                                                              *)

(* A queue that has more added to it has what it had. *)
LEMMA AddedTo ==
  ASSUME NEW S, NEW T, NEW U, NEW s \in Seq(S), NEW t \in Seq(T), S \subseteq U, T \subseteq U
  PROVE  /\ s \o t \in Seq(U) /\ Len(s \o t) = Len(s) + Len(t)
         /\ \A i \in 1..Len(s) : (s \o t)[i] = s[i]
         /\ \A i \in 1..Len(s \o t) : i > Len(s) => (s \o t)[i] \in T
<1>1. s \in Seq(U) /\ t \in Seq(U)
  BY SeqMonotonic
<1>2. /\ s \o t \in Seq(U) /\ Len(s \o t) = Len(s) + Len(t)
      /\ \A i \in 1..Len(s) + Len(t) :
           (s \o t)[i] = IF i <= Len(s) THEN s[i] ELSE t[i - Len(s)]
  BY <1>1, ConcatProperties
<1>3. Len(s) \in Nat /\ Len(t) \in Nat
  BY LenProperties
<1>4. \A i \in 1..Len(s) : (s \o t)[i] = s[i]
  BY <1>2, <1>3
<1>5. ASSUME NEW i \in 1..Len(s \o t), i > Len(s) PROVE (s \o t)[i] \in T
  <2>1. i - Len(s) \in 1..Len(t)
    BY <1>2, <1>3, <1>5
  <2>2. (s \o t)[i] = t[i - Len(s)]
    BY <1>2, <1>3, <1>5
  <2> QED
    BY <2>1, <2>2, ElementOfSeq
<1> QED
  BY <1>2, <1>4, <1>5

(* What is appended to the events takes back no question. *)
LEMMA StillAsked ==
  ASSUME NEW S, NEW T, NEW s \in Seq(S), NEW t \in Seq(T), NEW b, AskedIn(s, b)
  PROVE  AskedIn(s \o t, b)
<1>1. /\ Len(s \o t) = Len(s) + Len(t)
      /\ \A i \in 1..Len(s) : (s \o t)[i] = s[i]
  <2>1. S \subseteq S \cup T /\ T \subseteq S \cup T
    OBVIOUS
  <2> QED
    BY <2>1, AddedTo
<1>2. Len(s) \in Nat /\ Len(t) \in Nat
  BY LenProperties
<1>3. PICK i \in 1..Len(s) : s[i].kind = "onboard" /\ s[i].button = b
  BY DEF AskedIn
<1> QED
  BY <1>1, <1>2, <1>3 DEF AskedIn

(* Messages that are not about b say nothing new of it ... *)
LEMMA OthersAdded ==
  ASSUME NEW S, NEW T, NEW s \in Seq(S), NEW t \in Seq(T), NEW b, NEW x,
         \A m \in T : m.button # b, LastAgrees(s, b, x)
  PROVE  LastAgrees(s \o t, b, x) /\ (NoneFor(s \o t, b) => NoneFor(s, b))
<1>1. /\ Len(s \o t) = Len(s) + Len(t)
      /\ \A i \in 1..Len(s) : (s \o t)[i] = s[i]
      /\ \A i \in 1..Len(s \o t) : i > Len(s) => (s \o t)[i] \in T
  <2>1. S \subseteq S \cup T /\ T \subseteq S \cup T
    OBVIOUS
  <2> QED
    BY <2>1, AddedTo
<1>2. Len(s) \in Nat /\ Len(t) \in Nat
  BY LenProperties
<1>3. NoneFor(s \o t, b) => NoneFor(s, b)
  BY <1>1, <1>2 DEF NoneFor
<1>4. ASSUME NEW i \in 1..Len(s \o t), (s \o t)[i].button = b, (s \o t)[i].outcome \in Sends,
             \A j \in 1..Len(s \o t) : j > i => (s \o t)[j].button # b
      PROVE  (s \o t)[i].outcome = x
  <2>1. i <= Len(s)
    BY <1>1, <1>2, <1>4
  <2>2. i \in 1..Len(s) /\ (s \o t)[i] = s[i]
    BY <1>1, <1>2, <2>1
  <2>3. \A j \in 1..Len(s) : j > i => s[j].button # b
    BY <1>1, <1>2, <1>4
  <2> QED
    BY <1>4, <2>2, <2>3 DEF LastAgrees
<1> QED
  BY <1>3, <1>4 DEF LastAgrees

(* ... one about b has the last word ... *)
LEMMA ResultAdded ==
  ASSUME NEW S, NEW s \in Seq(S), NEW m \in S, NEW x,
         m.outcome \in Sends => m.outcome = x
  PROVE  LastAgrees(Append(s, m), m.button, x) /\ ~NoneFor(Append(s, m), m.button)
<1>1. /\ Len(Append(s, m)) = Len(s) + 1
      /\ Append(s, m)[Len(s) + 1] = m
  BY AppendProperties
<1>2. Len(s) \in Nat
  BY LenProperties
<1> DEFINE n == Len(Append(s, m))
<1>3. n \in 1..n /\ Append(s, m)[n] = m
  BY <1>1, <1>2
<1>4. ~NoneFor(Append(s, m), m.button)
  BY <1>3 DEF NoneFor
<1>5. ASSUME NEW i \in 1..n, Append(s, m)[i].outcome \in Sends,
             \A j \in 1..n : j > i => Append(s, m)[j].button # m.button
      PROVE  Append(s, m)[i].outcome = x
  <2>1. i = n
    BY <1>1, <1>2, <1>3, <1>5
  <2> QED
    BY <1>3, <1>5, <2>1
<1> QED
  BY <1>4, <1>5 DEF LastAgrees

(* ... and the one dispatched had it if no other about b is left. *)
LEMMA Dispatched ==
  ASSUME NEW S, NEW s \in Seq(S), s # <<>>, NEW b, NEW x, LastAgrees(s, b, x)
  PROVE  /\ LastAgrees(Tail(s), b, x)
         /\ NoneFor(Tail(s), b) /\ Head(s).button # b => NoneFor(s, b)
         /\ NoneFor(Tail(s), b) /\ Head(s).button = b /\ Head(s).outcome \in Sends
              => Head(s).outcome = x
<1>1. /\ Len(Tail(s)) = Len(s) - 1
      /\ \A i \in 1..Len(Tail(s)) : Tail(s)[i] = s[i + 1]
  BY HeadTailProperties
<1>2. Len(s) \in Nat \ {0}
  BY EmptySeq
<1>3. Head(s) = s[1]
  OBVIOUS
<1>4. \A j \in 2..Len(s) : j - 1 \in 1..Len(Tail(s)) /\ Tail(s)[j - 1] = s[j]
  BY <1>1, <1>2
<1>5. NoneFor(Tail(s), b) => \A j \in 2..Len(s) : s[j].button # b
  BY <1>4 DEF NoneFor
<1>6. NoneFor(Tail(s), b) /\ Head(s).button # b => NoneFor(s, b)
  BY <1>2, <1>3, <1>5 DEF NoneFor
<1>7. NoneFor(Tail(s), b) /\ Head(s).button = b /\ Head(s).outcome \in Sends
        => Head(s).outcome = x
  BY <1>2, <1>3, <1>5 DEF LastAgrees
<1>8. ASSUME NEW i \in 1..Len(Tail(s)), Tail(s)[i].button = b, Tail(s)[i].outcome \in Sends,
             \A j \in 1..Len(Tail(s)) : j > i => Tail(s)[j].button # b
      PROVE  Tail(s)[i].outcome = x
  <2>1. i + 1 \in 1..Len(s) /\ Tail(s)[i] = s[i + 1]
    BY <1>1, <1>2
  <2>2. \A j \in 1..Len(s) : j > i + 1 => s[j].button # b
    BY <1>2, <1>4, <1>8
  <2> QED
    BY <1>8, <2>1, <2>2 DEF LastAgrees
<1> QED
  BY <1>6, <1>7, <1>8 DEF LastAgrees

-----------------------------------------------------------------------------
(* What a handler of the open window does: it sends questions for touched  *)
(* boxes, tells itself to take the focus, and at most ends the test.       *)

Grown(new, old, S) == \E added \in Seq(S) : new = old \o added
Sending(rest) ==
  /\ Grown(events', events, Fresh(name, touched'))
  /\ Grown(messages', rest, {Defocus})
  /\ testing' \in {testing, NoTest}
BoxStep(rest) ==
  /\ window = "open" /\ UNCHANGED <<window, name, opened, stored, over, meddled>>
  /\ BoxTypes' /\ OtherTypes' /\ TouchInv'
  /\ touched \subseteq touched'
  /\ Sending(rest)

LEMMA Defocuses == QueueInv /\ BoxTypes => Defocus \in Post(name)
BY DEF Defocus, Post, Messages, BoxTypes

(* Sending one more question, and then perhaps the save, or nothing. *)
LEMMA EventsAdded ==
  ASSUME IInv, NEW ts \in SUBSET Buttons,
         NEW b \in ts, NEW t \in Texts, NEW sent \in Seq(Fresh(name, ts))
  PROVE  /\ Grown(events \o <<Event("onboard", b, t)>> \o sent, events, Fresh(name, ts))
         /\ Grown(Append(events, Event("onboard", b, t)), events, Fresh(name, ts))
<1> DEFINE F == Fresh(name, ts)
           e == Event("onboard", b, t)
<1>1. e \in F
  BY DEF IInv, BoxTypes, Fresh, Known, Events, Event
<1>2. events \in Seq(Events) /\ F \subseteq Events
  <2>1. Known(name, touched) \subseteq Events /\ F \subseteq Events
    BY DEF Known, Fresh
  <2> QED
    BY <2>1, SeqMonotonic DEF IInv, QueueInv
<1>3. <<e>> \in Seq(F) /\ <<e>> \in Seq(Events) /\ sent \in Seq(Events)
  <2>1. <<e>> \in Seq(F)
    BY <1>1
  <2> QED
    BY <2>1, <1>2, SeqMonotonic
<1> HIDE DEF F, e
<1>4. <<e>> \o sent \in Seq(F)
  BY <1>3, ConcatProperties DEF F
<1>5. events \o <<e>> \o sent = events \o (<<e>> \o sent)
  BY <1>2, <1>3, ConcatAssociative
<1>6. Append(events, e) = events \o <<e>>
  BY <1>1, <1>2, AppendIsConcat
<1> QED
  BY <1>1, <1>3, <1>4, <1>5, <1>6 DEF F, e, Grown

LEMMA NothingAdded ==
  ASSUME IInv, NEW S
  PROVE  Grown(events, events, S) /\ Grown(messages, messages, S)
<1>1. events \o <<>> = events /\ messages \o <<>> = messages
  BY ConcatEmptySeq DEF IInv, QueueInv
<1>2. <<>> \in Seq(S)
  BY EmptySeq
<1> QED
  BY <1>1, <1>2 DEF Grown

LEMMA DefocusAdded ==
  ASSUME IInv, NEW rest \in Seq(Post(name))
  PROVE  Grown(Append(rest, Defocus), rest, {Defocus})
<1>1. Append(rest, Defocus) = rest \o <<Defocus>>
  BY Defocuses, AppendIsConcat DEF IInv
<1>2. <<Defocus>> \in Seq({Defocus})
  OBVIOUS
<1> QED
  BY <1>1, <1>2 DEF Grown

LEMMA ApplyEffect ==
  ASSUME IInv, touched' \in SUBSET Buttons, touched \subseteq touched',
         NEW b \in Buttons, NEW t \in Texts, NEW sent \in Seq(Fresh(name, touched')),
         t # last[b] => b \in touched', Apply(b, t, sent)
  PROVE  /\ Sending(messages)
         /\ last' = [last EXCEPT ![b] = t]
         /\ returnFocus' \in Buttons \cup {NoButton} /\ status' \in Statuses
<1>1. events \in Seq(Events) /\ Fresh(name, touched') \subseteq Events
  <2>1. Known(name, touched) \subseteq Events /\ Fresh(name, touched') \subseteq Events
    BY DEF Known, Fresh
  <2> QED
    BY <2>1, SeqMonotonic DEF IInv, QueueInv
<1>2. CASE t = last[b]
  <2>1. last' = last /\ last = [last EXCEPT ![b] = t]
    BY <1>2 DEF Apply, IInv, BoxTypes
  <2>2. UNCHANGED <<testing, returnFocus, status, messages>> /\ events' = events \o sent
    BY <1>2 DEF Apply
  <2>3. Sending(messages)
    <3>1. Grown(events', events, Fresh(name, touched'))
      BY <2>2 DEF Grown
    <3>2. Grown(messages', messages, {Defocus})
      BY <2>2, NothingAdded
    <3> QED
      BY <2>2, <3>1, <3>2 DEF Sending
  <2> QED
    BY <2>1, <2>2, <2>3 DEF IInv, BoxTypes
<1>3. CASE t # last[b]
  <2>1. /\ last' = [last EXCEPT ![b] = t]
        /\ testing' = NoTest /\ returnFocus' = b /\ status' = Status("saving", b)
        /\ messages' = Append(messages, Defocus)
        /\ events' = events \o <<Event("onboard", b, t)>> \o sent
    BY <1>3 DEF Apply
  <2>2. Sending(messages)
    <3>1. Grown(events', events, Fresh(name, touched'))
      BY <1>3, <2>1, EventsAdded
    <3>2. Grown(messages', messages, {Defocus})
      BY <2>1, DefocusAdded DEF IInv, QueueInv
    <3> QED
      BY <3>1, <3>2, <2>1 DEF Sending
  <2>3. status' \in Statuses
    BY <2>1 DEF Status, Statuses, Kinds
  <2> QED
    BY <2>1, <2>2, <2>3
<1> QED
  BY <1>2, <1>3

LEMMA FocusSends ==
  ASSUME IInv, focus \in Buttons, text[focus] # last[focus], touched' = touched,
         events' = Append(events, Event("onboard", focus, text[focus]))
  PROVE  Grown(events', events, Fresh(name, touched'))
<1>1. focus \in touched /\ text[focus] \in Texts /\ touched \in SUBSET Buttons
  BY DEF IInv, TouchInv, BoxTypes, OtherTypes
<1>2. <<>> \in Seq(Fresh(name, touched))
  BY EmptySeq
<1> QED
  BY <1>1, <1>2, EventsAdded

(* What the window keeps of a step that touches no box. *)
LEMMA Untouching ==
  ASSUME IInv, UNCHANGED <<window, name, opened, stored, over, meddled, touched>>,
         window = "open", down' \in SUBSET Mods
  PROVE  /\ UNCHANGED <<window, name, opened, stored, over, meddled>>
         /\ OtherTypes' /\ touched \subseteq touched'
<1>1. opened' \in BOOLEAN /\ over' \in BOOLEAN /\ meddled' \in BOOLEAN
  BY DEF IInv, OtherTypes
<1> QED
  BY <1>1 DEF IInv, OtherTypes

LEMMA KillFocusStep ==
  ASSUME IInv, KillFocus, touched' = touched, UNCHANGED text
  PROVE  /\ Sending(messages) /\ TouchInv'
         /\ last' \in [Buttons -> Texts] /\ returnFocus' \in Buttons \cup {NoButton}
         /\ status' \in Statuses
<1>1. CASE focus \in Buttons
  <2>1. Apply(focus, text[focus], <<>>) /\ <<>> \in Seq(Fresh(name, touched'))
    BY <1>1, EmptySeq DEF KillFocus
  <2>2. touched' \in SUBSET Buttons /\ text[focus] \in Texts
    BY <1>1 DEF IInv, OtherTypes, BoxTypes
  <2>3. text[focus] # last[focus] => focus \in touched'
    BY <1>1 DEF IInv, TouchInv
  <2>4. /\ Sending(messages) /\ last' = [last EXCEPT ![focus] = text[focus]]
        /\ returnFocus' \in Buttons \cup {NoButton} /\ status' \in Statuses
    BY <1>1, <2>1, <2>2, <2>3, ApplyEffect
  <2>5. last' \in [Buttons -> Texts]
    BY <1>1, <2>2, <2>4 DEF IInv, BoxTypes
  <2>6. TouchInv'
    BY <2>4 DEF IInv, BoxTypes, TouchInv
  <2> QED
    BY <2>4, <2>5, <2>6
<1>2. CASE focus \notin Buttons
  <2>1. UNCHANGED <<last, testing, returnFocus, status, messages, events>>
    BY <1>2 DEF KillFocus, NoApply
  <2>2. Sending(messages)
    BY <2>1, NothingAdded DEF Sending
  <2> QED
    BY <2>1, <2>2 DEF IInv, BoxTypes, TouchInv
<1> QED
  BY <1>1, <1>2

LEMMA EnterStep ==
  ASSUME IInv, NEW b \in Buttons, Enter(b), touched' = touched, UNCHANGED text
  PROVE  /\ Sending(messages) /\ TouchInv' /\ focus' = b
         /\ last' \in [Buttons -> Texts] /\ returnFocus' \in Buttons \cup {NoButton}
         /\ status' \in Statuses
<1>1. focus' = b /\ testing' = NoTest /\ status' \in Statuses
  BY DEF Enter, Status, Statuses, Kinds
<1>2. CASE focus \in Buttons /\ text[focus] # last[focus]
  <2>1. /\ last' = [last EXCEPT ![focus] = text[focus]] /\ returnFocus' = focus
        /\ messages' = Append(messages, Defocus)
        /\ events' = Append(events, Event("onboard", focus, text[focus]))
    BY <1>2 DEF Enter
  <2>2. Grown(messages', messages, {Defocus})
    BY <2>1, DefocusAdded DEF IInv, QueueInv
  <2>3. Grown(events', events, Fresh(name, touched'))
    BY <1>2, <2>1, FocusSends
  <2>4. TouchInv' /\ last' \in [Buttons -> Texts]
    BY <1>2, <2>1 DEF IInv, BoxTypes, TouchInv
  <2> QED
    BY <1>1, <1>2, <2>1, <2>2, <2>3, <2>4 DEF Sending
<1>3. CASE ~(focus \in Buttons /\ text[focus] # last[focus])
  <2>1. UNCHANGED <<last, returnFocus, messages, events>>
    BY <1>3 DEF Enter
  <2>2. Sending(messages)
    BY <1>1, <2>1, NothingAdded DEF Sending
  <2> QED
    BY <1>1, <2>1, <2>2 DEF IInv, BoxTypes, TouchInv
<1> QED
  BY <1>2, <1>3

LEMMA FocusStep ==
  ASSUME IInv, \/ \E b \in Buttons : FocusBox(b)
               \/ FocusOther
               \/ \E f \in Buttons \cup {"other"} : TabOnward(f)
  PROVE  BoxStep(messages)
<1>1. /\ UNCHANGED <<window, name, text, inputMods, opened, stored, over, down, touched, meddled>>
      /\ window = "open"
  BY DEF FocusBox, FocusOther, TabOnward, UserActs, Live, daemon, history
<1>2. OtherTypes' /\ touched \subseteq touched'
  BY <1>1, Untouching DEF IInv, OtherTypes
<1>3. ASSUME NEW b \in Buttons, FocusBox(b) PROVE BoxStep(messages)
  <2>1. /\ Sending(messages) /\ TouchInv' /\ focus' = b
        /\ last' \in [Buttons -> Texts] /\ returnFocus' \in Buttons \cup {NoButton}
        /\ status' \in Statuses
    BY <1>1, <1>3, EnterStep DEF FocusBox
  <2>2. testing' \in Tests
    BY <2>1 DEF Sending, Tests, IInv, BoxTypes
  <2>3. BoxTypes'
    BY <1>1, <2>1, <2>2 DEF IInv, BoxTypes
  <2> QED
    BY <1>1, <1>2, <2>1, <2>3 DEF BoxStep
<1>4. CASE FocusOther
  <2>1. /\ Sending(messages) /\ TouchInv' /\ focus' = "other"
        /\ last' \in [Buttons -> Texts] /\ returnFocus' \in Buttons \cup {NoButton}
        /\ status' \in Statuses
    BY <1>1, <1>4, KillFocusStep DEF FocusOther
  <2>2. testing' \in Tests
    BY <2>1 DEF Sending, Tests, IInv, BoxTypes
  <2>3. BoxTypes'
    BY <1>1, <2>1, <2>2 DEF IInv, BoxTypes
  <2> QED
    BY <1>1, <1>2, <2>1, <2>3 DEF BoxStep
<1>5. ASSUME NEW f \in Buttons \cup {"other"}, TabOnward(f) PROVE BoxStep(messages)
  <2>1. /\ UNCHANGED <<last, messages, events>> /\ focus' = f /\ returnFocus' = NoButton
        /\ testing' \in {testing, NoTest} /\ status' \in Statuses
    BY <1>5 DEF TabOnward, queues, IInv, BoxTypes, Status, Statuses, Kinds
  <2>2. Sending(messages)
    BY <2>1, NothingAdded DEF Sending
  <2>3. testing' \in Tests
    BY <2>1 DEF Tests, IInv, BoxTypes
  <2>4. BoxTypes' /\ TouchInv'
    BY <1>1, <2>1, <2>3 DEF IInv, BoxTypes, TouchInv
  <2> QED
    BY <1>1, <1>2, <2>2, <2>4 DEF BoxStep
<1> QED
  BY <1>3, <1>4, <1>5

LEMMA ApplyStep ==
  ASSUME IInv, NEW b \in Buttons, NEW t \in Texts, NEW sent \in Seq(Fresh(name, touched')),
         Apply(b, t, sent), touched' = touched \cup {b}, text' = [text EXCEPT ![b] = t]
  PROVE  /\ Sending(messages) /\ TouchInv'
         /\ text' \in [Buttons -> Texts] /\ last' \in [Buttons -> Texts]
         /\ returnFocus' \in Buttons \cup {NoButton} /\ status' \in Statuses
<1>1. touched' \in SUBSET Buttons /\ touched \subseteq touched' /\ b \in touched'
  BY DEF IInv, OtherTypes
<1>2. /\ Sending(messages) /\ last' = [last EXCEPT ![b] = t]
      /\ returnFocus' \in Buttons \cup {NoButton} /\ status' \in Statuses
  BY <1>1, ApplyEffect
<1>3. text' \in [Buttons -> Texts] /\ last' \in [Buttons -> Texts] /\ TouchInv'
  BY <1>1, <1>2 DEF IInv, BoxTypes, TouchInv
<1> QED
  BY <1>2, <1>3

LEMMA TouchingStep ==
  ASSUME IInv, UNCHANGED <<window, name, opened, stored, over, meddled>>,
         NEW b \in Buttons, touched' = touched \cup {b}, down' \in SUBSET Mods
  PROVE  OtherTypes' /\ touched \subseteq touched'
<1>1. opened' \in BOOLEAN /\ over' \in BOOLEAN /\ meddled' \in BOOLEAN
  BY DEF IInv, OtherTypes
<1> QED
  BY <1>1 DEF IInv, OtherTypes

LEMMA EditStep ==
  ASSUME IInv, \E b \in Buttons, t \in Texts : Choose(b, t) \/ Paste(b, t)
  PROVE  BoxStep(messages)
<1>1. PICK b \in Buttons, t \in Texts : Choose(b, t) \/ Paste(b, t)
  OBVIOUS
<1>2. /\ UNCHANGED <<window, name, focus, inputMods, opened, stored, over, down, meddled>>
      /\ window = "open" /\ touched' = touched \cup {b} /\ text' = [text EXCEPT ![b] = t]
  BY <1>1 DEF Choose, Paste, UserActs, Live, daemon
<1>3. OtherTypes' /\ touched \subseteq touched'
  BY <1>2, TouchingStep DEF IInv, OtherTypes
<1>4. CASE Choose(b, t)
  <2>1. Apply(b, t, <<>>) /\ <<>> \in Seq(Fresh(name, touched'))
    BY <1>4, EmptySeq DEF Choose
  <2>2. /\ Sending(messages) /\ TouchInv'
        /\ text' \in [Buttons -> Texts] /\ last' \in [Buttons -> Texts]
        /\ returnFocus' \in Buttons \cup {NoButton} /\ status' \in Statuses
    BY <1>2, <2>1, ApplyStep
  <2>3. testing' \in Tests
    BY <2>2 DEF Sending, Tests, IInv, BoxTypes
  <2>4. BoxTypes'
    BY <1>2, <2>2, <2>3 DEF IInv, BoxTypes
  <2> QED
    BY <1>2, <1>3, <2>2, <2>4 DEF BoxStep
<1>5. CASE Paste(b, t)
  <2>1. UNCHANGED <<last, testing, returnFocus, status, messages, events>>
    BY <1>5 DEF Paste, queues
  <2>2. Sending(messages)
    BY <2>1, NothingAdded DEF Sending
  <2>3. TouchInv' /\ BoxTypes'
    BY <1>2, <2>1 DEF IInv, BoxTypes, TouchInv
  <2> QED
    BY <1>2, <1>3, <2>2, <2>3 DEF BoxStep
<1> QED
  BY <1>1, <1>4, <1>5

LEMMA SaveStep ==
  ASSUME IInv, ClickSave
  PROVE  BoxStep(messages)
<1> DEFINE e == Event("save", NoButton, NoText)
           F == Fresh(name, touched')
<1>1. /\ UNCHANGED <<window, name, text, focus, inputMods, opened, stored, over, down>>
      /\ UNCHANGED <<touched, meddled>>
      /\ window = "open"
  BY DEF ClickSave, UserActs, Live, daemon, history
<1>2. OtherTypes' /\ touched \subseteq touched'
  BY <1>1, Untouching DEF IInv, OtherTypes
<1>3. <<e>> \in Seq(F)
  <2>1. e \in F
    BY DEF Event, Fresh, Known, Events, IInv, BoxTypes
  <2> HIDE DEF e, F
  <2> QED
    BY <2>1
<1>4. CASE focus \in Buttons
  <2>1. Apply(focus, text[focus], <<e>>)
    BY <1>4 DEF ClickSave
  <2>2. touched' \in SUBSET Buttons /\ text[focus] \in Texts
    BY <1>1, <1>4 DEF IInv, OtherTypes, BoxTypes
  <2>3. text[focus] # last[focus] => focus \in touched'
    BY <1>1, <1>4 DEF IInv, TouchInv
  <2>4. /\ Sending(messages) /\ last' = [last EXCEPT ![focus] = text[focus]]
        /\ returnFocus' \in Buttons \cup {NoButton} /\ status' \in Statuses
    BY <1>2, <1>3, <1>4, <2>1, <2>2, <2>3, ApplyEffect
  <2>5. testing' \in Tests
    BY <2>4 DEF Sending, Tests, IInv, BoxTypes
  <2>6. TouchInv' /\ BoxTypes'
    BY <1>1, <1>4, <2>2, <2>4, <2>5 DEF IInv, BoxTypes, TouchInv
  <2> QED
    BY <1>1, <1>2, <2>4, <2>6 DEF BoxStep
<1>5. CASE focus \notin Buttons
  <2>1. UNCHANGED <<last, testing, returnFocus, status, messages>> /\ events' = events \o <<e>>
    BY <1>5 DEF ClickSave
  <2>2. Sending(messages)
    <3>1. Grown(events', events, F)
      BY <1>3, <2>1 DEF Grown
    <3>2. Grown(messages', messages, {Defocus})
      BY <2>1, NothingAdded
    <3> QED
      BY <2>1, <3>1, <3>2 DEF Sending
  <2>3. TouchInv' /\ BoxTypes'
    BY <1>1, <2>1 DEF IInv, BoxTypes, TouchInv
  <2> QED
    BY <1>1, <1>2, <2>2, <2>3 DEF BoxStep
<1> QED
  BY <1>4, <1>5

(* A press changes the verdict at most. *)
LEMMA JudgeEffect ==
  ASSUME IInv, NEW got, testing # NoTest, Judge(got)
  PROVE  testing' \in {testing, NoTest} /\ status' \in Statuses
<1>1. testing.button \in Buttons
  BY DEF IInv, BoxTypes, Tests
<1> QED
  BY <1>1 DEF Judge, IInv, BoxTypes, Status, Statuses, Kinds

LEMMA SendMods ==
  ASSUME IInv, NEW b \in Buttons, SendsOf[stored[b]] # Silence
  PROVE  SendsOf[stored[b]].mods \in SUBSET Mods
<1>1. SendsOf[stored[b]] \in Sends
  BY DEF IInv, OtherTypes, Sends
<1> QED
  BY <1>1

LEMMA PressStep ==
  ASSUME IInv, \E b \in Buttons : Press(b)
  PROVE  BoxStep(messages)
<1>1. PICK b \in Buttons : Press(b)
  OBVIOUS
<1> DEFINE s == SendsOf[stored[b]]
<1>2. /\ UNCHANGED <<window, name, focus, text, last, returnFocus, messages, events>>
      /\ UNCHANGED <<opened, stored, over, touched, meddled>>
      /\ window = "open" /\ down' = s.mods /\ s # Silence
  BY <1>1 DEF Press, UserActs, Live, daemon, history, queues
<1>3. s.mods \in SUBSET Mods
  BY <1>2, SendMods
<1>4. OtherTypes' /\ touched \subseteq touched'
  BY <1>2, <1>3, Untouching
<1>5. testing' \in {testing, NoTest} /\ status' \in Statuses /\ inputMods' \in SUBSET Mods
  <2>1. CASE testing = NoTest
    BY <1>1, <2>1 DEF Press, IInv, BoxTypes
  <2>2. CASE testing # NoTest
    <3>1. inputMods' = inputMods \cup s.mods /\ Judge(Got(s))
      BY <1>1, <2>2 DEF Press
    <3> QED
      BY <1>3, <2>2, <3>1, JudgeEffect DEF IInv, BoxTypes
  <2> QED
    BY <2>1, <2>2
<1> HIDE DEF s
<1>6. Sending(messages)
  BY <1>2, <1>5, NothingAdded DEF Sending
<1>7. testing' \in Tests
  BY <1>5 DEF Tests, IInv, BoxTypes
<1>8. TouchInv' /\ BoxTypes'
  BY <1>2, <1>5, <1>7 DEF IInv, BoxTypes, TouchInv
<1> QED
  BY <1>2, <1>4, <1>6, <1>8 DEF BoxStep

LEMMA PressInBoxStep ==
  ASSUME IInv, \E b \in Buttons : PressInBox(b)
  PROVE  BoxStep(messages)
<1>1. PICK b \in Buttons : PressInBox(b)
  OBVIOUS
<1> DEFINE s == SendsOf[stored[b]]
           t == TextOf[stored[b]]
<1>2. /\ UNCHANGED <<window, name, focus, opened, stored, over, meddled>>
      /\ window = "open" /\ down' = s.mods /\ s # Silence /\ focus \in Buttons
      /\ text' = [text EXCEPT ![focus] = t] /\ touched' = touched \cup {focus}
      /\ inputMods' = IF testing = NoTest THEN inputMods ELSE inputMods \cup s.mods
  BY <1>1 DEF PressInBox, UserActs, Live, daemon
<1>3. s.mods \in SUBSET Mods /\ t \in Texts
  BY <1>2, SendMods DEF IInv, OtherTypes
<1>4. OtherTypes' /\ touched \subseteq touched'
  BY <1>2, <1>3, TouchingStep
<1>5. inputMods' \in SUBSET Mods
  BY <1>2, <1>3 DEF IInv, BoxTypes
<1>6. /\ Sending(messages) /\ TouchInv'
      /\ text' \in [Buttons -> Texts] /\ last' \in [Buttons -> Texts]
      /\ returnFocus' \in Buttons \cup {NoButton} /\ status' \in Statuses
  <2>1. CASE t # last[focus] \/ testing = NoTest
    <3>1. Apply(focus, t, <<>>) /\ <<>> \in Seq(Fresh(name, touched'))
      BY <1>1, <2>1, EmptySeq DEF PressInBox
    <3> HIDE DEF t
    <3> QED
      BY <1>2, <1>3, <3>1, ApplyStep
  <2>2. CASE ~(t # last[focus] \/ testing = NoTest)
    <3>1. Judge(Got(s)) /\ UNCHANGED <<last, returnFocus, messages, events>>
      BY <1>1, <2>2 DEF PressInBox
    <3>2. testing' \in {testing, NoTest} /\ status' \in Statuses
      BY <2>2, <3>1, JudgeEffect
    <3> HIDE DEF s, t
    <3>3. Sending(messages)
      BY <3>1, <3>2, NothingAdded DEF Sending
    <3> QED
      BY <1>2, <1>3, <2>2, <3>1, <3>2, <3>3 DEF IInv, BoxTypes, TouchInv
  <2> QED
    BY <2>1, <2>2
<1> HIDE DEF s, t
<1>7. testing' \in Tests
  BY <1>6 DEF Sending, Tests, IInv, BoxTypes
<1>8. BoxTypes'
  BY <1>2, <1>5, <1>6, <1>7 DEF IInv, BoxTypes
<1> QED
  BY <1>2, <1>4, <1>6, <1>8 DEF BoxStep

LEMMA DefocusStep ==
  ASSUME IInv, HandleDefocus
  PROVE  BoxStep(Tail(messages))
<1>1. /\ UNCHANGED <<window, name, text, inputMods, opened, stored, over, down, touched, meddled>>
      /\ window = "open" /\ messages # <<>>
      /\ focus' = IF returnFocus' = NoButton THEN "other" ELSE "window"
  BY DEF HandleDefocus, Message, Live, daemon, history
<1>2. OtherTypes' /\ touched \subseteq touched'
  BY <1>1, Untouching DEF IInv, OtherTypes
<1>3. Tail(messages) \in Seq(Post(name))
  BY <1>1, HeadTailProperties DEF IInv, QueueInv
<1>4. /\ Sending(Tail(messages)) /\ TouchInv' /\ last' \in [Buttons -> Texts]
      /\ returnFocus' \in Buttons \cup {NoButton} /\ status' \in Statuses
  <2>1. CASE focus \in Buttons /\ text[focus] # last[focus]
    <3>1. /\ last' = [last EXCEPT ![focus] = text[focus]]
          /\ testing' = NoTest /\ returnFocus' = focus
          /\ status' = Status("saving", focus)
          /\ messages' = Append(Tail(messages), Defocus)
          /\ events' = Append(events, Event("onboard", focus, text[focus]))
      BY <2>1 DEF HandleDefocus
    <3>2. Grown(messages', Tail(messages), {Defocus})
      BY <1>3, <3>1, DefocusAdded
    <3>3. Grown(events', events, Fresh(name, touched'))
      BY <1>1, <2>1, <3>1, FocusSends
    <3>4. TouchInv' /\ last' \in [Buttons -> Texts] /\ status' \in Statuses
      BY <1>1, <2>1, <3>1 DEF IInv, BoxTypes, TouchInv, Status, Statuses, Kinds
    <3> QED
      BY <2>1, <3>1, <3>2, <3>3, <3>4 DEF Sending
  <2>2. CASE ~(focus \in Buttons /\ text[focus] # last[focus])
    <3>1. messages' = Tail(messages) /\ UNCHANGED <<last, testing, returnFocus, status, events>>
      BY <2>2 DEF HandleDefocus
    <3>2. Grown(events', events, Fresh(name, touched'))
      BY <3>1, NothingAdded
    <3>3. Grown(messages', Tail(messages), {Defocus})
      BY <1>3, <3>1, EmptySeq, ConcatEmptySeq DEF Grown
    <3> QED
      BY <1>1, <3>1, <3>2, <3>3 DEF Sending, IInv, BoxTypes, TouchInv
  <2> QED
    BY <2>1, <2>2
<1>5. testing' \in Tests
  BY <1>4 DEF Sending, Tests, IInv, BoxTypes
<1>6. BoxTypes'
  BY <1>1, <1>4, <1>5 DEF IInv, BoxTypes
<1> QED
  BY <1>1, <1>2, <1>4, <1>6 DEF BoxStep

-----------------------------------------------------------------------------
(* What such a step leaves of the queues, and of the test.                 *)

LEMMA KnownMore ==
  ASSUME NEW n, NEW ts, NEW us, ts \subseteq us
  PROVE  Known(n, ts) \subseteq Known(n, us) /\ Fresh(n, us) \subseteq Known(n, us)
BY DEF Known, Fresh

LEMMA BoxQueues ==
  ASSUME IInv, NEW rest \in Seq(Post(name)), BoxStep(rest)
  PROVE  QueueInv'
<1>1. /\ window = "open" /\ UNCHANGED <<window, name, opened>>
      /\ touched \subseteq touched'
      /\ testing' \in {testing, NoTest}
  BY DEF BoxStep, Sending
<1> DEFINE F == Fresh(name, touched')
           K == Known(name, touched')
<1>2. PICK xs \in Seq(F) : events' = events \o xs
  BY DEF BoxStep, Sending, Grown
<1>3. PICK ms \in Seq({Defocus}) : messages' = rest \o ms
  BY DEF BoxStep, Sending, Grown
<1>4. events \in Seq(Known(name, touched)) /\ Known(name, touched) \subseteq K /\ F \subseteq K
  BY <1>1, KnownMore DEF IInv, QueueInv
<1>5. \A e \in F : e.kind # "closed"
  BY DEF Fresh
<1>6. Len(events) \in Nat /\ \A i \in 1..Len(events) : events[i].kind # "closed"
  BY <1>1, <1>4, LenProperties DEF IInv, QueueInv
<1> HIDE DEF F, K
<1>7. /\ events' \in Seq(K)
      /\ \A i \in 1..Len(events) : events'[i] = events[i]
      /\ \A i \in 1..Len(events') : i > Len(events) => events'[i] \in F
  BY <1>2, <1>4, AddedTo
<1>8. \A i \in 1..Len(events') : events'[i].kind # "closed"
  BY <1>5, <1>6, <1>7
<1>9. messages' \in Seq(Post(name))
  <2>1. {Defocus} \subseteq Post(name)
    BY Defocuses DEF IInv
  <2> QED
    BY <1>3, <2>1, AddedTo
<1>10. events' \in Seq(Known(name', touched')) /\ messages' \in Seq(Post(name'))
  BY <1>1, <1>7, <1>9 DEF K
<1>11. window' = "open" /\ opened' /\ opened
  <2>1. opened
    BY <1>1 DEF IInv, QueueInv
  <2> QED
    BY <1>1, <2>1
<1> QED
  BY <1>8, <1>10, <1>11 DEF QueueInv

LEMMA BoxTest ==
  ASSUME IInv, NEW rest \in Seq(Post(name)), BoxStep(rest),
         \/ rest = messages
         \/ messages # <<>> /\ rest = Tail(messages) /\ Head(messages).kind = "defocus"
  PROVE  TestInv'
<1>1. UNCHANGED <<stored, meddled>> /\ testing' \in {testing, NoTest}
  BY DEF BoxStep, Sending
<1>2. PICK xs \in Seq(Fresh(name, touched')) : events' = events \o xs
  BY DEF BoxStep, Sending, Grown
<1>3. PICK ms \in Seq({Defocus}) : messages' = rest \o ms
  BY DEF BoxStep, Sending, Grown
<1> SUFFICES ASSUME ~meddled, NEW b \in Buttons, ~AskedIn(events', b)
             PROVE  /\ LastAgrees(messages', b, SendsOf[stored[b]])
                    /\ testing # NoTest /\ testing.button = b /\ NoneFor(messages', b) =>
                         testing.expect = SendsOf[stored[b]]
  BY <1>1 DEF TestInv
<1> DEFINE x == SendsOf[stored[b]]
<1>4. ~AskedIn(events, b)
  BY <1>2, StillAsked DEF IInv, QueueInv
<1>5. /\ LastAgrees(messages, b, x)
      /\ testing # NoTest /\ testing.button = b /\ NoneFor(messages, b) => testing.expect = x
  BY <1>4 DEF IInv, TestInv
<1> HIDE DEF x
<1>6. LastAgrees(rest, b, x) /\ (NoneFor(rest, b) => NoneFor(messages, b))
  <2>1. CASE rest = messages
    BY <1>5, <2>1
  <2>2. CASE messages # <<>> /\ rest = Tail(messages) /\ Head(messages).kind = "defocus"
    <3>1. Head(messages) \in Post(name)
      BY <2>2, HeadTailProperties DEF IInv, QueueInv
    <3>2. Head(messages).button # b
      BY <2>2, <3>1 DEF Post, Messages
    <3> QED
      BY <1>5, <2>2, <3>2, Dispatched DEF IInv, QueueInv
  <2> QED
    BY <2>1, <2>2
<1>7. \A m \in {Defocus} : m.button # b
  BY DEF Defocus
<1>8. LastAgrees(messages', b, x) /\ (NoneFor(messages', b) => NoneFor(rest, b))
  BY <1>3, <1>6, <1>7, OthersAdded
<1> QED
  BY <1>5, <1>6, <1>8 DEF x

LEMMA BoxesStep ==
  ASSUME IInv,
         \/ \E b \in Buttons, t \in Texts : Choose(b, t) \/ Paste(b, t)
         \/ \E b \in Buttons : FocusBox(b)
         \/ \E b \in Buttons : Press(b)
         \/ \E b \in Buttons : PressInBox(b)
         \/ FocusOther \/ ClickSave \/ HandleDefocus
         \/ \E f \in Buttons \cup {"other"} : TabOnward(f)
  PROVE  IInv'
<1>1. messages \in Seq(Post(name))
  BY DEF IInv, QueueInv
<1>2. CASE HandleDefocus
  <2>1. BoxStep(Tail(messages)) /\ messages # <<>> /\ Head(messages).kind = "defocus"
    BY <1>2, DefocusStep DEF HandleDefocus, Message
  <2>2. Tail(messages) \in Seq(Post(name))
    BY <1>1, <2>1, HeadTailProperties
  <2>3. QueueInv' /\ TestInv'
    BY <2>1, <2>2, BoxQueues, BoxTest
  <2> QED
    BY <2>1, <2>3 DEF IInv, BoxStep
<1>3. CASE ~HandleDefocus
  <2>1. BoxStep(messages)
    BY <1>3, FocusStep, EditStep, SaveStep, PressStep, PressInBoxStep
  <2>2. QueueInv' /\ TestInv'
    BY <1>1, <2>1, BoxQueues, BoxTest
  <2> QED
    BY <2>1, <2>2 DEF IInv, BoxStep
<1> QED
  BY <1>2, <1>3

-----------------------------------------------------------------------------
(* The main thread.                                                        *)

LEMMA EventTaken ==
  ASSUME IInv, events # <<>>, events' = Tail(events)
  PROVE  /\ events' \in Seq(Known(name, touched))
         /\ \A i \in 1..Len(events') :
              events'[i].kind = "closed" => window = "closed" /\ i = Len(events')
         /\ Head(events) \in Known(name, touched)
         /\ Head(events).kind = "closed" => window = "closed" /\ events' = <<>>
         /\ \A b \in Buttons : AskedIn(events, b) /\ ~AskedIn(events', b) =>
              Head(events).kind = "onboard" /\ Head(events).button = b
<1>1. /\ events \in Seq(Known(name, touched))
      /\ \A i \in 1..Len(events) :
           events[i].kind = "closed" => window = "closed" /\ i = Len(events)
  BY DEF IInv, QueueInv
<1>2. /\ Head(events) \in Known(name, touched) /\ events' \in Seq(Known(name, touched))
      /\ Len(events') = Len(events) - 1
      /\ \A i \in 1..Len(events') : events'[i] = events[i + 1]
  BY <1>1, HeadTailProperties
<1>3. Len(events) \in Nat \ {0} /\ Head(events) = events[1]
  BY <1>1, EmptySeq
<1>4. \A i \in 1..Len(events') :
        events'[i].kind = "closed" => window = "closed" /\ i = Len(events')
  BY <1>1, <1>2, <1>3
<1>5. Head(events).kind = "closed" => window = "closed" /\ events' = <<>>
  <2>1. Len(events') = 0 => events' = <<>>
    BY <1>2, EmptySeq
  <2> QED
    BY <1>1, <1>2, <1>3, <2>1
<1>6. ASSUME NEW b \in Buttons, AskedIn(events, b), ~AskedIn(events', b)
      PROVE  Head(events).kind = "onboard" /\ Head(events).button = b
  <2>1. PICK i \in 1..Len(events) : events[i].kind = "onboard" /\ events[i].button = b
    BY <1>6 DEF AskedIn
  <2>2. i = 1 \/ (i - 1 \in 1..Len(events') /\ events'[i - 1] = events[i])
    BY <1>2, <1>3
  <2> QED
    BY <1>3, <1>6, <2>1, <2>2 DEF AskedIn
<1> QED
  BY <1>2, <1>4, <1>5, <1>6

LEMMA QuietEvents ==
  ASSUME IInv, SaveConfig \/ SettingsClosed
  PROVE  IInv'
<1>1. /\ events # <<>> /\ events' = Tail(events) /\ Head(events).kind # "onboard"
      /\ UNCHANGED <<window, name, focus, text, last, testing, returnFocus, status, inputMods>>
      /\ UNCHANGED <<messages, stored, over, down, touched, meddled>>
  BY DEF SaveConfig, SettingsClosed, Receive, view, daemon, history
<1>2. BoxTypes' /\ TouchInv'
  BY <1>1 DEF IInv, BoxTypes, TouchInv
<1>3. opened' \in BOOLEAN
  BY DEF SaveConfig, SettingsClosed, daemon, IInv, OtherTypes
<1>4. OtherTypes'
  BY <1>1, <1>3 DEF IInv, OtherTypes
<1>5. QueueInv'
  <2>1. CASE SaveConfig
    <3>1. opened' = opened /\ opened
      BY <1>1, <2>1 DEF SaveConfig, daemon, IInv, QueueInv
    <3> QED
      BY <1>1, <3>1, EventTaken DEF IInv, QueueInv
  <2>2. CASE SettingsClosed
    <3>1. window = "closed" /\ events' = <<>>
      BY <1>1, <2>2, EventTaken DEF SettingsClosed, Receive
    <3> QED
      BY <1>1, <3>1, EventTaken DEF IInv, QueueInv
  <2> QED
    BY <2>1, <2>2
<1>6. TestInv'
  <2>1. \A b \in Buttons : ~AskedIn(events', b) => ~AskedIn(events, b)
    BY <1>1, EventTaken
  <2> QED
    BY <1>1, <2>1 DEF IInv, TestInv
<1> QED
  BY <1>2, <1>4, <1>5, <1>6 DEF IInv

(* The outcome of a question is about the bind that the mouse has then. *)
LEMMA SetOnboardStep ==
  ASSUME IInv, SetOnboard
  PROVE  IInv'
<1> DEFINE a == Head(events).button
           m == MeaningOf[Head(events).text]
<1>1. /\ events # <<>> /\ events' = Tail(events) /\ Head(events).kind = "onboard" /\ ~over
      /\ UNCHANGED <<window, name, focus, text, last, testing, returnFocus, status, inputMods>>
      /\ UNCHANGED <<opened, down, touched, meddled>>
  BY DEF SetOnboard, Receive, view, history
<1>2. Head(events).from = name /\ a \in Buttons /\ Head(events).text \in Texts
  <2>1. Head(events) \in Known(name, touched)
    BY <1>1, EventTaken
  <2> QED
    BY <1>1, <2>1 DEF Known, IInv, OtherTypes
<1>3. PICK o \in Outcomes :
        /\ Report(a, o)
        /\ \/ stored' = stored /\ o \notin Sends
           \/ m \in Binds /\ stored' = [stored EXCEPT ![a] = m] /\ o = SendsOf[m]
        /\ over' \in BOOLEAN
  <2>1. Unmanaged \in Outcomes \ Sends /\ Failed \in Outcomes \ Sends
    BY DEF Outcomes
  <2>2. m \in Binds => SendsOf[m] \in Outcomes
    BY DEF Outcomes, Sends
  <2>3. over' \in BOOLEAN
    <3>1. over' = TRUE \/ over' = over
      BY DEF SetOnboard
    <3>2. over \in BOOLEAN
      BY DEF IInv, OtherTypes
    <3> QED
      BY <3>1, <3>2
  <2> HIDE DEF m, a
  <2>4. \/ Report(a, IF m = Blank THEN Unmanaged ELSE Failed) /\ stored' = stored
        \/ m \in Binds /\ stored' = [stored EXCEPT ![a] = m] /\ Report(a, SendsOf[m])
        \/ Report(a, Failed) /\ stored' = stored
    BY DEF SetOnboard, m, a
  <2> QED
    BY <2>1, <2>2, <2>3, <2>4, Zenon
<1>4. BoxTypes' /\ TouchInv'
  BY <1>1 DEF IInv, BoxTypes, TouchInv
<1>5. OtherTypes'
  <2>1. stored' \in [Buttons -> Binds]
    BY <1>2, <1>3 DEF IInv, OtherTypes
  <2>2. opened' \in BOOLEAN /\ meddled' \in BOOLEAN
    BY <1>1 DEF IInv, OtherTypes
  <2> QED
    BY <1>1, <1>3, <2>1, <2>2 DEF IInv, OtherTypes
<1> DEFINE r == [kind |-> "result", button |-> a, outcome |-> o, to |-> Head(events).from]
<1>6. r \in Post(name)
  BY <1>2, <1>3 DEF Post, Messages, IInv, BoxTypes
<1>7. r.button = a /\ r.outcome = o
  OBVIOUS
<1>8. messages' = IF window = "open" THEN Append(messages, r) ELSE messages
  BY <1>3 DEF Report
<1> HIDE DEF r, a, m
<1>9. QueueInv'
  <2>1. messages' \in Seq(Post(name))
    BY <1>6, <1>8, AppendProperties DEF IInv, QueueInv
  <2>2. opened
    BY <1>1 DEF IInv, QueueInv
  <2> QED
    BY <1>1, <1>8, <2>1, <2>2, EventTaken DEF IInv, QueueInv
<1>10. TestInv'
  <2> SUFFICES ASSUME ~meddled, NEW b \in Buttons, ~AskedIn(events', b)
               PROVE  /\ LastAgrees(messages', b, SendsOf[stored'[b]])
                      /\ testing # NoTest /\ testing.button = b /\ NoneFor(messages', b) =>
                           testing.expect = SendsOf[stored'[b]]
    BY <1>1 DEF TestInv
  <2>1. CASE b # a
    <3>1. ~AskedIn(events, b)
      BY <1>1, <2>1, EventTaken DEF a
    <3>2. stored'[b] = stored[b]
      BY <1>3, <2>1 DEF IInv, OtherTypes
    <3> DEFINE x == SendsOf[stored[b]]
    <3>3. /\ LastAgrees(messages, b, x)
          /\ testing # NoTest /\ testing.button = b /\ NoneFor(messages, b) => testing.expect = x
      BY <3>1 DEF IInv, TestInv
    <3> HIDE DEF x
    <3>4. LastAgrees(messages', b, x) /\ (NoneFor(messages', b) => NoneFor(messages, b))
      <4>1. CASE window = "open"
        <5>1. messages \in Seq(Post(name))
          BY DEF IInv, QueueInv
        <5>2. messages' = messages \o <<r>>
          BY <1>6, <1>8, <4>1, <5>1, AppendIsConcat
        <5>3. <<r>> \in Seq({r})
          OBVIOUS
        <5>4. PICK added \in Seq({r}) : messages' = messages \o added
          BY <5>2, <5>3
        <5>5. \A q \in {r} : q.button # b
          BY <1>7, <2>1
        <5> QED
          BY <3>3, <5>1, <5>4, <5>5, OthersAdded
      <4>2. CASE window # "open"
        BY <1>8, <3>3, <4>2
      <4> QED
        BY <4>1, <4>2
    <3> QED
      BY <3>2, <3>3, <3>4 DEF x
  <2>2. CASE b = a
    <3>1. CASE window = "open"
      <4>1. o \in Sends => o = SendsOf[stored'[a]]
        BY <1>2, <1>3 DEF IInv, OtherTypes
      <4> DEFINE x == SendsOf[stored'[a]]
      <4> HIDE DEF x
      <4>2. LastAgrees(messages', a, x) /\ ~NoneFor(messages', a)
        BY <1>6, <1>7, <1>8, <3>1, <4>1, ResultAdded DEF IInv, QueueInv, x
      <4> QED
        BY <2>2, <4>2 DEF x
    <3>2. CASE window # "open"
      <4>1. messages' = <<>> /\ testing = NoTest
        BY <1>8, <3>2 DEF IInv, QueueInv
      <4> QED
        BY <4>1 DEF LastAgrees
    <3> QED
      BY <3>1, <3>2
  <2> QED
    BY <2>1, <2>2
<1> QED
  BY <1>4, <1>5, <1>9, <1>10 DEF IInv

-----------------------------------------------------------------------------
(* The other steps.                                                        *)

LEMMA OpenStep ==
  ASSUME IInv, Open
  PROVE  IInv'
<1>1. events = <<>> /\ events' = <<>> /\ messages' = <<>> /\ testing' = NoTest
  BY DEF Open, IInv, QueueInv
<1>2. /\ window' = "open" /\ opened' = TRUE /\ over' = FALSE /\ name' \in BOOLEAN
      /\ meddled' = FALSE
  BY DEF Open, IInv, OtherTypes
<1>3. text' = [b \in Buttons |-> TextOf[stored[b]]] /\ last' = text'
  BY DEF Open
<1>4. text' \in [Buttons -> Texts]
  BY <1>3 DEF IInv, OtherTypes
<1>5. BoxTypes'
  BY <1>1, <1>2, <1>3, <1>4 DEF Open, BoxTypes, Tests, Status, Statuses, Kinds
<1>6. OtherTypes'
  BY <1>2 DEF Open, IInv, OtherTypes
<1>7. QueueInv'
  <2>1. \A S : <<>> \in Seq(S) /\ Len(<<>>) = 0
    BY EmptySeq
  <2> QED
    BY <1>1, <1>2, <2>1 DEF QueueInv
<1>8. TouchInv' /\ TestInv'
  BY <1>1, <1>3 DEF TouchInv, TestInv, LastAgrees
<1> QED
  BY <1>5, <1>6, <1>7, <1>8 DEF IInv

LEMMA CloseStep ==
  ASSUME IInv, Close
  PROVE  IInv'
<1>1. /\ window = "open" /\ window' = "ended" /\ messages' = <<>> /\ testing' = NoTest
      /\ UNCHANGED <<name, focus, text, last, returnFocus, status, inputMods>>
      /\ UNCHANGED <<opened, stored, over, down, touched, meddled>>
  BY DEF Close, UserActs, Live, daemon, history
<1>2. BoxTypes' /\ TouchInv'
  BY <1>1 DEF IInv, BoxTypes, TouchInv, Tests
<1>3. OtherTypes' /\ opened' /\ opened
  <2>1. over' \in BOOLEAN /\ meddled' \in BOOLEAN /\ opened
    BY <1>1 DEF IInv, OtherTypes, QueueInv
  <2> QED
    BY <1>1, <2>1 DEF IInv, OtherTypes
<1>4. PICK xs \in Seq(Fresh(name, touched)) : events' = events \o xs
  <2>1. Grown(events', events, Fresh(name, touched))
    <3>1. CASE focus \in Buttons /\ text[focus] # last[focus]
                 /\ events' = Append(events, Event("onboard", focus, text[focus]))
      BY <1>1, <3>1, FocusSends
    <3>2. CASE events' = events
      BY <3>2, NothingAdded
    <3> QED
      BY <3>1, <3>2 DEF Close
  <2> QED
    BY <2>1 DEF Grown
<1>5. QueueInv'
  <2>1. events \in Seq(Known(name, touched)) /\ Fresh(name, touched) \subseteq Known(name, touched)
    BY KnownMore DEF IInv, QueueInv
  <2>2. /\ events' \in Seq(Known(name, touched)) /\ Len(events) \in Nat
        /\ \A i \in 1..Len(events) : events'[i] = events[i]
        /\ \A i \in 1..Len(events') : i > Len(events) => events'[i] \in Fresh(name, touched)
    BY <1>4, <2>1, AddedTo, LenProperties
  <2>3. \A i \in 1..Len(events') : events'[i].kind # "closed"
    BY <1>1, <2>2 DEF IInv, QueueInv, Fresh
  <2>4. messages' \in Seq(Post(name'))
    BY <1>1, EmptySeq
  <2> QED
    BY <1>1, <1>3, <2>2, <2>3, <2>4 DEF QueueInv
<1>6. TestInv'
  BY <1>1 DEF TestInv, LastAgrees
<1> QED
  BY <1>2, <1>3, <1>5, <1>6 DEF IInv

LEMMA EndStep ==
  ASSUME IInv, ThreadEnds
  PROVE  IInv'
<1> DEFINE e == Event("closed", NoButton, NoText)
<1>1. /\ window = "ended" /\ window' = "closed" /\ events' = Append(events, e)
      /\ UNCHANGED <<name, focus, text, last, testing, returnFocus, status, inputMods>>
      /\ UNCHANGED <<messages, opened, stored, over, down, touched, meddled>>
  BY DEF ThreadEnds, view, daemon, history
<1>2. BoxTypes' /\ TouchInv'
  BY <1>1 DEF IInv, BoxTypes, TouchInv
<1>3. OtherTypes' /\ opened' /\ opened
  <2>1. over' \in BOOLEAN /\ meddled' \in BOOLEAN /\ opened
    BY <1>1 DEF IInv, OtherTypes, QueueInv
  <2> QED
    BY <1>1, <2>1 DEF IInv, OtherTypes
<1>4. messages' = <<>> /\ testing' = NoTest
  BY <1>1 DEF IInv, QueueInv
<1>5. e \in Known(name, touched)
  BY DEF Event, Known, Events, IInv, BoxTypes
<1> HIDE DEF e
<1>6. QueueInv'
  <2>1. /\ events' \in Seq(Known(name, touched)) /\ Len(events') = Len(events) + 1
        /\ \A i \in 1..Len(events) : events'[i] = events[i]
        /\ Len(events) \in Nat
    BY <1>1, <1>5, AppendProperties, LenProperties DEF IInv, QueueInv
  <2>2. \A i \in 1..Len(events') : events'[i].kind = "closed" => i = Len(events')
    BY <1>1, <2>1 DEF IInv, QueueInv
  <2>3. messages' \in Seq(Post(name'))
    BY <1>4, EmptySeq
  <2> QED
    BY <1>1, <1>3, <1>4, <2>1, <2>2, <2>3 DEF QueueInv
<1>7. TestInv'
  BY <1>4 DEF TestInv, LastAgrees
<1> QED
  BY <1>2, <1>3, <1>6, <1>7 DEF IInv

LEMMA ReloadStep ==
  ASSUME IInv, NEW b \in Buttons, NEW d \in Binds, Reload(b, d)
  PROVE  IInv'
<1>1. /\ stored' = [stored EXCEPT ![b] = d] /\ meddled' = TRUE
      /\ UNCHANGED <<window, name, focus, text, last, testing, returnFocus, status, inputMods>>
      /\ UNCHANGED <<messages, events, opened, over, down, touched>>
  BY DEF Reload, view, queues
<1>2. BoxTypes' /\ TouchInv' /\ QueueInv' /\ TestInv'
  BY <1>1 DEF IInv, BoxTypes, TouchInv, QueueInv, TestInv
<1>3. OtherTypes'
  <2>1. over' \in BOOLEAN /\ opened' \in BOOLEAN
    BY <1>1 DEF IInv, OtherTypes
  <2> QED
    BY <1>1, <2>1 DEF IInv, OtherTypes
<1> QED
  BY <1>2, <1>3 DEF IInv

(* The last result for the tested button is what the mouse stores. *)
LEMMA ResultStep ==
  ASSUME IInv, HandleResult
  PROVE  IInv'
<1> DEFINE a == Head(messages).button
           o == Head(messages).outcome
<1>1. /\ window = "open" /\ messages # <<>> /\ messages' = Tail(messages)
      /\ Head(messages).kind = "result"
      /\ UNCHANGED <<window, name, focus, text, last, returnFocus, inputMods, events>>
      /\ UNCHANGED <<opened, stored, over, down, touched, meddled>>
  BY DEF HandleResult, Message, Live, daemon, history
<1>2. Head(messages) \in Post(name) /\ messages' \in Seq(Post(name))
  BY <1>1, HeadTailProperties DEF IInv, QueueInv
<1>3. a \in Buttons
  BY <1>1, <1>2 DEF Post, Messages
<1>4. testing' = IF o \in Sends THEN [button |-> a, expect |-> o] ELSE NoTest
  BY DEF HandleResult
<1>5. status' \in Statuses
  BY <1>3 DEF HandleResult, Status, Statuses, Kinds
<1> HIDE DEF a, o
<1>6. testing' \in Tests
  BY <1>3, <1>4 DEF Tests
<1>7. BoxTypes' /\ TouchInv'
  BY <1>1, <1>5, <1>6 DEF IInv, BoxTypes, TouchInv
<1>8. OtherTypes' /\ opened' /\ opened
  <2>1. over' \in BOOLEAN /\ meddled' \in BOOLEAN /\ opened
    BY <1>1 DEF IInv, OtherTypes, QueueInv
  <2> QED
    BY <1>1, <2>1 DEF IInv, OtherTypes
<1>9. QueueInv'
  BY <1>1, <1>2, <1>8 DEF IInv, QueueInv
<1>10. TestInv'
  <2> SUFFICES ASSUME ~meddled, NEW b \in Buttons, ~AskedIn(events, b)
               PROVE  /\ LastAgrees(messages', b, SendsOf[stored[b]])
                      /\ testing' # NoTest /\ testing'.button = b /\ NoneFor(messages', b) =>
                           testing'.expect = SendsOf[stored[b]]
    BY <1>1 DEF TestInv
  <2> DEFINE x == SendsOf[stored[b]]
  <2>1. LastAgrees(messages, b, x)
    BY DEF IInv, TestInv
  <2> HIDE DEF x
  <2>2. /\ LastAgrees(messages', b, x)
        /\ NoneFor(messages', b) /\ a = b /\ o \in Sends => o = x
    BY <1>1, <2>1, Dispatched DEF IInv, QueueInv, a, o
  <2>3. testing' # NoTest => o \in Sends /\ testing'.button = a /\ testing'.expect = o
    BY <1>4
  <2> QED
    BY <2>2, <2>3 DEF x
<1> QED
  BY <1>7, <1>8, <1>9, <1>10 DEF IInv

LEMMA IdleStep ==
  ASSUME IInv, Release \/ UNCHANGED vars
  PROVE  IInv'
<1>1. /\ UNCHANGED <<window, name, focus, text, last, testing, returnFocus, status>>
      /\ UNCHANGED <<messages, events, opened, stored, over, touched, meddled>>
      /\ inputMods' \in SUBSET Mods /\ down' \in SUBSET Mods
  BY DEF Release, vars, view, queues, daemon, history, IInv, BoxTypes, OtherTypes
<1>2. BoxTypes' /\ TouchInv' /\ QueueInv' /\ TestInv'
  BY <1>1 DEF IInv, BoxTypes, TouchInv, QueueInv, TestInv
<1>3. OtherTypes'
  <2>1. over' \in BOOLEAN /\ opened' \in BOOLEAN /\ meddled' \in BOOLEAN
    BY <1>1 DEF IInv, OtherTypes
  <2> QED
    BY <1>1, <2>1 DEF IInv, OtherTypes
<1> QED
  BY <1>2, <1>3 DEF IInv

LEMMA InitIInv == Init => IInv
<1> SUFFICES ASSUME Init PROVE IInv
  OBVIOUS
<1>1. text \in [Buttons -> Texts] /\ last = text
  BY DEF Init
<1>2. /\ name \in BOOLEAN /\ opened \in BOOLEAN /\ over \in BOOLEAN /\ meddled \in BOOLEAN
      /\ ~opened /\ window = "closed"
  BY DEF Init
<1>3. BoxTypes /\ OtherTypes
  BY <1>1, <1>2 DEF Init, BoxTypes, OtherTypes, Tests, Status, Statuses, Kinds
<1>4. QueueInv
  <2>1. \A S : <<>> \in Seq(S) /\ Len(<<>>) = 0
    BY EmptySeq
  <2> QED
    BY <1>2, <2>1 DEF Init, QueueInv
<1>5. TouchInv /\ TestInv
  BY <1>1 DEF Init, TouchInv, TestInv, LastAgrees
<1> QED
  BY <1>3, <1>4, <1>5 DEF IInv

LEMMA NextIInv == IInv /\ [Next]_vars => IInv'
<1> SUFFICES ASSUME IInv, [Next]_vars PROVE IInv'
  OBVIOUS
<1>1. CASE Release \/ UNCHANGED vars
  BY <1>1, IdleStep
<1>2. CASE Open \/ SetOnboard \/ SaveConfig \/ SettingsClosed
  BY <1>2, OpenStep, SetOnboardStep, QuietEvents
<1>3. CASE Close \/ ThreadEnds \/ HandleResult
  BY <1>3, CloseStep, EndStep, ResultStep
<1>4. ASSUME NEW b \in Buttons, NEW d \in Binds, Reload(b, d) PROVE IInv'
  BY <1>4, ReloadStep
<1>5. CASE \/ \E b \in Buttons, t \in Texts : Choose(b, t)
           \/ \E b \in Buttons, t \in Texts : Paste(b, t)
           \/ \E b \in Buttons : FocusBox(b)
           \/ \E b \in Buttons : Press(b)
           \/ \E b \in Buttons : PressInBox(b)
           \/ FocusOther \/ ClickSave \/ HandleDefocus
           \/ \E f \in Buttons \cup {"other"} : TabOnward(f)
  BY <1>5, BoxesStep
<1> QED
  BY <1>1, <1>2, <1>3, <1>4, <1>5 DEF Next

-----------------------------------------------------------------------------
(* What the invariant shows.                                               *)

(* The queues and the test as the invariant describes them, in every state *)
(* (settings.rs:392-421, 1670-1697, daemon.rs:284-294).                    *)
THEOREM WindowInvariant == Spec => []IInv
<1> QED
  BY InitIInv, NextIInv, PTL DEF Spec

(* The boxes, the test and both queues hold what the window's code can put *)
(* in them, at any length of the queues (settings.rs:380-421).             *)
THEOREM TypeCorrect == Spec => []TypeOK
<1>1. IInv => TypeOK
  <2> SUFFICES ASSUME IInv PROVE TypeOK
    OBVIOUS
  <2>1. Known(name, touched) \subseteq Events /\ Post(name) \subseteq Messages
    BY DEF Known, Post
  <2>2. events \in Seq(Events) /\ messages \in Seq(Messages)
    BY <2>1, SeqMonotonic DEF IInv, QueueInv
  <2> QED
    BY <2>2 DEF IInv, BoxTypes, OtherTypes, TypeOK, Tests, Statuses
<1> QED
  BY <1>1, WindowInvariant, PTL

(* No window is told the outcome of a choice that the one before it sent:  *)
(* the daemon opens no other until "closed", which is the last of what the *)
(* window sent (settings.rs:392-407, daemon.rs:284-294).                   *)
THEOREM ResultsAreForTheWindow == Spec => []ResultsComeHome
<1>1. IInv => ResultsComeHome
  <2> SUFFICES ASSUME IInv, NEW i \in DOMAIN messages PROVE messages[i].to = name
    BY DEF ResultsComeHome
  <2>1. messages[i] \in Post(name)
    BY LenProperties, ElementOfSeq DEF IInv, QueueInv
  <2> QED
    BY <2>1 DEF Post
<1> QED
  BY <1>1, WindowInvariant, PTL

(* The press that is waited for is the one that proves the bind the mouse  *)
(* stores, in whatever order results come (settings.rs:1670-1697).         *)
THEOREM TestsProveTheBind == Spec => []TestIsStored
<1>1. IInv => TestIsStored
  <2> SUFFICES ASSUME IInv, testing # NoTest, ~meddled, ~Asked(testing.button),
                      \A i \in DOMAIN messages : messages[i].button # testing.button
               PROVE  SendsOf[stored[testing.button]] = testing.expect
    BY DEF TestIsStored
  <2>1. DOMAIN events = 1..Len(events) /\ DOMAIN messages = 1..Len(messages)
    BY LenProperties DEF IInv, QueueInv
  <2>2. testing.button \in Buttons
    BY DEF IInv, BoxTypes, Tests
  <2>3. ~AskedIn(events, testing.button) /\ NoneFor(messages, testing.button)
    BY <2>1 DEF Asked, AskedIn, NoneFor
  <2> QED
    BY <2>2, <2>3 DEF IInv, TestInv
<1> QED
  BY <1>1, WindowInvariant, PTL

(* A box that nobody touched is asked for nothing, whatever the focus does *)
(* (settings.rs:409-419, 1515-1520).                                       *)
THEOREM OnlyTouchedIsSent == Spec => []UntouchedIsQuiet
<1>1. IInv => UntouchedIsQuiet
  <2> SUFFICES ASSUME IInv, NEW i \in DOMAIN events, events[i].kind = "onboard"
               PROVE  events[i].button \in touched
    BY DEF UntouchedIsQuiet
  <2>1. events[i] \in Known(name, touched)
    BY LenProperties, ElementOfSeq DEF IInv, QueueInv
  <2> QED
    BY <2>1 DEF Known
<1> QED
  BY <1>1, WindowInvariant, PTL
=============================================================================
