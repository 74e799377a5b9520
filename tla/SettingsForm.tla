------------------------------ MODULE SettingsForm ------------------------------
(***************************************************************************)
(* What the settings window offers for a mouse and a configuration, and    *)
(* where: the pure part of open() in crates/platform/src/settings.rs, the  *)
(* lists that src/daemon.rs fills it with and reads its answers from, and  *)
(* the DPI of the slider, of its two buttons and of the tray's menu.       *)
(*                                                                         *)
(* A mouse is [leds, dpiButtons, onboard, diagram, min, max, ...]: its     *)
(* lighting zones, whether it has DPI buttons, the buttons that it stores  *)
(* binds for (or NoKeymap), its drawing [w, h, body, slots] (or            *)
(* NoDiagram), body being twice the middle of the drawn mouse, and its     *)
(* range of DPI.  Pixels are halved where the code has fractions of them;  *)
(* a drawing is scaled in whole pixels.                                    *)
(*                                                                         *)
(* A definition X_Y is X with the plausible mistake Y.                     *)
(***************************************************************************)
EXTENDS Integers, Sequences, FiniteSets, SequencesExt

CONSTANTS NoKeymap, NoDiagram, None

MARGIN == 16
CENTER_SLACK == 16
PANE_MAX_W == 960
LBL_H == 18
LBL_GAP == 2
COMBO_H == 24
GROUP_GAP == 12
HOOK_NOTE_H == 2 * LBL_H
STATUS_H == LBL_H
DIAGRAM_VGAP == 30
ROW1_H == 30
ROW2_H == 26
BOTTOM_H == 28
MIN_CLIENT_W == 430
MAX_ONBOARD == 16
MAX_ZONES == 16

Smaller(a, b) == IF a < b THEN a ELSE b
Clamp(v, lo, hi) == IF v < lo THEN lo ELSE IF v > hi THEN hi ELSE v
CeilDiv(a, b) == (a + b - 1) \div b

(* The elements of s that are in S, in their order. *)
Within(s, S) ==
  LET kept == {i \in DOMAIN s : s[i] \in S} IN
    [k \in 1 .. Cardinality(kept) |->
       s[CHOOSE i \in kept : Cardinality({j \in kept : j <= i}) = k]]

-----------------------------------------------------------------------------
(* Which controls there are, and whether the drawing hosts them.           *)

HasDiagram(m) ==
  m.diagram # NoDiagram /\ m.diagram.w > 0 /\ m.diagram.h > 0
Slotted(m, slots) == HasDiagram(m) /\ slots \subseteq m.diagram.slots

Boxes(m) ==
  IF m.onboard = NoKeymap THEN <<>>
  ELSE SubSeq(m.onboard, 1, Smaller(Len(m.onboard), MAX_ONBOARD))
Zones(m) == 0 .. Smaller(Len(m.leds), MAX_ZONES) - 1
ShowThumbs(m) == m.onboard = NoKeymap

DpiInDiagram(m) == m.dpiButtons /\ Slotted(m, {<<"up", 0>>, <<"down", 0>>})
ThumbInDiagram(m) == Slotted(m, {<<"back", 0>>, <<"forward", 0>>})
OnboardInDiagram(m) ==
  Boxes(m) # <<>> /\ Slotted(m, {<<"button", b>> : b \in ToSet(Boxes(m))})

(* Every zone, or none: a partial set falls back to rows. *)
LightingInDiagram(m) == Len(m.leds) > 0 /\ Slotted(m, {<<"zone", i>> : i \in Zones(m)})

(* The controls in the order they are made: rows of the top cluster, those *)
(* on the drawing, Save.                                                   *)
Optional(p, controls) == IF p THEN controls ELSE <<>>
DpiButtons == << <<"up", 0>>, <<"down", 0>> >>
Thumbs == << <<"back", 0>>, <<"forward", 0>> >>
Stored(m) == [k \in DOMAIN Boxes(m) |-> <<"button", Boxes(m)[k]>>]
(* For each zone in turn its list of effects and its swatch. *)
Lighting(m) ==
  [k \in 1 .. 2 * Smaller(Len(m.leds), MAX_ZONES) |->
     <<IF k % 2 = 1 THEN "effect" ELSE "color", (k - 1) \div 2>>]

Fallback(m) ==
  Optional(m.dpiButtons /\ ~DpiInDiagram(m), DpiButtons)
    \o Optional(~OnboardInDiagram(m), Stored(m))
    \o Optional(ShowThumbs(m) /\ ~ThumbInDiagram(m), Thumbs)
Hosted(m) ==
  Optional(DpiInDiagram(m), DpiButtons)
    \o Optional(ShowThumbs(m) /\ ThumbInDiagram(m), Thumbs)
    \o Optional(OnboardInDiagram(m), Stored(m))
    \o Optional(LightingInDiagram(m), Lighting(m))

(* A control on the drawing is made where the drawing has its slot. *)
SlotOf(c) == IF c[1] \in {"effect", "color"} THEN <<"zone", c[2]>> ELSE c
Mounted(m) == Within(Hosted(m), {c \in ToSet(Hosted(m)) : Slotted(m, {SlotOf(c)})})

Controls(m) ==
  << <<"minus", 0>>, <<"slider", 0>>, <<"plus", 0>>, <<"poll", 0>> >>
    \o Optional(~LightingInDiagram(m), Lighting(m)) \o Fallback(m) \o Mounted(m)
    \o << <<"save", 0>> >>

(* The k-th swatch is st.swatches[k], which a click on it looks up by zone. *)
Swatches(m) == Within(Controls(m), {"color"} \X Zones(m))

ControlId(c, k) ==
  CASE c[1] = "slider" -> 101 [] c[1] = "up" -> 103 [] c[1] = "down" -> 104
    [] c[1] = "save" -> 109 [] c[1] = "back" -> 111 [] c[1] = "forward" -> 112
    [] c[1] = "poll" -> 113 [] c[1] = "minus" -> 115 [] c[1] = "plus" -> 116
    [] c[1] = "effect" -> 200 + c[2] [] c[1] = "color" -> 232 + c[2]
    [] c[1] = "button" -> 300 + k

-----------------------------------------------------------------------------
(* The vertical plan.                                                      *)

FbRow == LBL_H + LBL_GAP + COMBO_H + GROUP_GAP
NoteShown(m) == ShowThumbs(m) /\ ~ThumbInDiagram(m)

FbH_NoNote(m) ==
  IF Fallback(m) = <<>> THEN 0 ELSE GROUP_GAP + (Len(Fallback(m)) - 1) * FbRow

FbH(m) ==
  LET rows == Len(Fallback(m)) * FbRow + (IF NoteShown(m) THEN 4 + HOOK_NOTE_H ELSE 0) IN
    IF rows > 0 THEN rows + GROUP_GAP ELSE 0
TopH(m) ==
  ROW1_H + GROUP_GAP + ROW2_H + FbH(m)
    + (IF LightingInDiagram(m) THEN 0 ELSE Len(m.leds) * (GROUP_GAP + ROW2_H))
BottomH(m) == BOTTOM_H + 6 + 16 + (IF Boxes(m) = <<>> THEN 0 ELSE STATUS_H + 6)
DiaGap(m) == IF HasDiagram(m) THEN DIAGRAM_VGAP ELSE GROUP_GAP

DiaW(m) == IF HasDiagram(m) THEN Smaller(m.diagram.w, PANE_MAX_W) ELSE 0
DiaH(m) ==
  IF ~HasDiagram(m) THEN 0
  ELSE IF m.diagram.w <= PANE_MAX_W THEN m.diagram.h
  ELSE CeilDiv(m.diagram.h * PANE_MAX_W, m.diagram.w)

PaneTop(m) == MARGIN + TopH(m) + DiaGap(m)
ClientH(m) ==
  PaneTop(m) + (IF HasDiagram(m) THEN DiaH(m) + DiaGap(m) ELSE 0) + BottomH(m) + MARGIN
BottomTop(m) == ClientH(m) - MARGIN - BottomH(m)

(* Where the running cursor is when the k-th row of the fallback is made,  *)
(* and after the last one: the note about the hook is tucked under it.     *)
FallbackTop(m) ==
  MARGIN + ROW1_H + GROUP_GAP + ROW2_H + GROUP_GAP
    + (IF LightingInDiagram(m) THEN 0
       ELSE Smaller(Len(m.leds), MAX_ZONES) * (GROUP_GAP + ROW2_H))
RowTop(m, k) == FallbackTop(m) + (k - 1) * FbRow
ClusterEnd(m) ==
  IF FbH(m) = 0 THEN FallbackTop(m) - GROUP_GAP
  ELSE RowTop(m, Len(Fallback(m)) + 1)
         + (IF NoteShown(m) THEN HOOK_NOTE_H + 4 - GROUP_GAP ELSE 0)

-----------------------------------------------------------------------------
(* The horizontal plan, in halves of a pixel.                              *)

Body2(m) ==
  IF m.diagram.w <= PANE_MAX_W THEN m.diagram.body
  ELSE (m.diagram.body * PANE_MAX_W) \div m.diagram.w

(* The window centres on the body, pulled towards the middle of the        *)
(* drawing by at most CENTER_SLACK.                                        *)
Anchor2(m) == Clamp(DiaW(m), Body2(m) - 2 * CENTER_SLACK, Body2(m) + 2 * CENTER_SLACK)
ClientW(m) ==
  IF ~HasDiagram(m) THEN MIN_CLIENT_W
  ELSE LET twice == IF 2 * DiaW(m) - Anchor2(m) > Anchor2(m)
                      THEN 2 * DiaW(m) - Anchor2(m) ELSE Anchor2(m) IN
         IF twice + 2 * MARGIN > MIN_CLIENT_W THEN twice + 2 * MARGIN ELSE MIN_CLIENT_W
PaneX(m) ==
  LET slack == ClientW(m) - DiaW(m) IN
    Clamp(ClientW(m) \div 2 - (Anchor2(m) + 1) \div 2, 0, IF slack > 0 THEN slack ELSE 0)

-----------------------------------------------------------------------------
(* The lists.                                                              *)

ACTION_PRESETS == <<"copy", "paste", "cut", "none", "key:9", "key:0", "key:f13", "key:f14">>
EFFECT_PRESETS == <<"keep", "static", "breathing", "spectrum", "off">>

IndexIn(values, v) ==
  IF v \in ToSet(values) THEN (CHOOSE i \in DOMAIN values : values[i] = v) - 1 ELSE 0

(* combo_options: entry 0 is the button itself and means "none"; a value   *)
(* that is no preset is offered last.                                      *)
ActionValues(current) ==
  LET presets == <<"none">> \o RemoveAt(ACTION_PRESETS, IndexIn(ACTION_PRESETS, "none") + 1) IN
    IF current \in ToSet(presets) THEN presets ELSE Append(presets, current)
ActionIndex(current) == IndexIn(ActionValues(current), current)

(* polling_options and its event: entry 0 leaves the rate alone. *)
PollingIndex(rate, rates) ==
  IF rate # None /\ rate \in ToSet(rates) THEN IndexIn(rates, rate) + 1 ELSE 0

PollingChosen_ZeroBased(i, rates) == IF i = 0 THEN None ELSE rates[Smaller(i + 1, Len(rates))]

PollingChosen(i, rates) == IF i = 0 THEN None ELSE rates[i]

EffectIndex(kind) == IndexIn(EFFECT_PRESETS, kind)
EffectChosen(i) == EFFECT_PRESETS[i + 1]

-----------------------------------------------------------------------------
(* DPI.                                                                    *)

Snap50(v) == Clamp(((v + 25) \div 50) * 50, 0, 65535)
Slid(pos, m) == Clamp(Snap50(pos), m.min, m.max)

Stepped_NotClamped(pos, up, m) == Snap50(pos) + (IF up THEN 50 ELSE -50)

Stepped(pos, up, m) == Clamp(Snap50(pos) + (IF up THEN 50 ELSE -50), m.min, m.max)

DPI_LADDER == {400, 800, 1200, 1600, 1800, 3200, 6400, 12800}
DPI_FLAG == 65536

Presets(m) == {d \in DPI_LADDER : d \in m.min .. m.max} \cup {m.max}
MenuId(dpi) == DPI_FLAG + dpi
IdDpi(id) == IF id \in DPI_FLAG .. DPI_FLAG + 65535 THEN id - DPI_FLAG ELSE None

=============================================================================
