--------------------------------- MODULE Values ---------------------------------
(***************************************************************************)
(* What a user chooses, from the settings window or the tray to the bytes  *)
(* the mouse keeps: the window's lists (SettingsForm), the commands of     *)
(* src/daemon/menu.rs, src/lighting.rs and apply_startup_lighting, and the *)
(* reports that carry them (Reports).                                      *)
(*                                                                         *)
(* A click is handled before the next one, and a command works: the        *)
(* channel is Daemon's, failures are Transport's and ConfigStore's.  A     *)
(* register of the mouse holds the arguments of the last report that set   *)
(* it, and an answer gives them back.  A definition X_Y is X with the      *)
(* plausible mistake Y; no specification uses it.                          *)
(***************************************************************************)
EXTENDS SettingsForm, Reports

CONSTANTS Mice,     \* those that may be plugged in
          Acts,     \* bound: what the user of each mouse plays with
          Starts,   \* configurations to start from
          Positions, \* bound: where the slider is let go of
          Colors,   \* colors of the picker, and of the tray's presets
          BadColor, \* a text that is no color
          Actions,  \* actions a DPI button may be given
          Binds     \* binds a user may choose for a stored button

VARIABLES
  mouse,    \* the mouse
  cfg,      \* the active configuration
  device,   \* the mouse's registers: [mode, dpi, polling, effect, bind]
  attached, \* a session has applied cfg
  failed,   \* it has ended on a refused value
  window,   \* what the window shows, or None
  stale     \* history: the tray, or a refused effect, left it showing another

vars == <<mouse, cfg, device, attached, failed, window, stale>>

Kinds == {"keep", "static", "breathing", "spectrum", "off", "none"}
Word16 == 0 .. MaxWord
TrayEffects ==
  {[kind |-> "spectrum"], [kind |-> "off"]} \cup [kind : {"static", "breathing"}, color : Colors]

(* A mouse of the table: its DPI goes in two bytes (dpi_min, dpi_max: u16), *)
(* its rates are of its own family of commands, the window has boxes for    *)
(* the writable buttons that are no main click (onboard.rs:196), which      *)
(* keymap.rs lists once each, and pixels are whole.                         *)
MouseOK(m) ==
  /\ m.min \in Word16 /\ m.max \in m.min .. MaxWord
  /\ m.protocol \in {"classic", "extended"}
  /\ m.rates \in Seq(DOMAIN RateByte(m.protocol)) /\ m.rates # <<>>
  /\ m.leds \in Seq(Nat) /\ m.dpiButtons \in BOOLEAN
  /\ m.onboard # NoKeymap =>
       m.onboard \in Seq(Writable \ MainClicks) /\ IsInjective(m.onboard)
  /\ m.diagram # NoDiagram => {m.diagram.w, m.diagram.h, m.diagram.body} \subseteq Nat

ASSUME MiceAssumption == \A m \in Mice : MouseOK(m)

(* None and Refused stand for nothing else; what is no color is in no list. *)
ASSUME MarksAssumption ==
  /\ None # Refused /\ BadColor \notin Colors
  /\ None \notin Kinds /\ None \notin Colors /\ None \notin TrayEffects
  /\ Refused \notin TrayEffects
  /\ Refused \notin [class : Nat, id : Nat, size : Nat, args : Seq(Nat)]

ASSUME StartsAssumption ==
  /\ Starts \subseteq [dpi : Word16, dpiY : {None} \cup Word16, rate : {None} \cup Nat,
                       lighting : Kinds, color : Colors \cup {BadColor}, up : Actions]
  /\ ToSet(ACTION_PRESETS) \subseteq Actions

Leds == ToSet(mouse.leds)
Stores == IF mouse.onboard = NoKeymap THEN {} ELSE ToSet(mouse.onboard)

-----------------------------------------------------------------------------
(* The configuration.                                                      *)

DpiXY == <<cfg.dpi, IF cfg.dpiY = None THEN cfg.dpi ELSE cfg.dpiY>>
ZoneLighting(c, led) ==
  IF c.over[led].lighting = None THEN c.lighting ELSE c.over[led].lighting

ZoneColor(c, led) == IF c.over[led].color = None THEN c.color ELSE c.over[led].color

(* EffectSpec::from_config: an effect, None to keep what is there, or      *)
(* Refused.                                                                *)
FromConfig(kind, color) ==
  CASE kind = "keep" -> None
    [] kind \in {"static", "breathing"} ->
         IF color = BadColor THEN Refused ELSE [kind |-> kind, color |-> color]
    [] kind = "spectrum" -> [kind |-> "spectrum"]
    [] OTHER -> [kind |-> "off"]

(* validate_for *)
ValidFor(m, c) ==
  /\ SetDpi(m, c.dpi, IF c.dpiY = None THEN c.dpi ELSE c.dpiY) # Refused
  /\ c.rate # None => SetPolling(m, c.rate) # Refused
  /\ \A led \in ToSet(m.leds) : FromConfig(ZoneLighting(c, led), ZoneColor(c, led)) # Refused
  /\ \A b \in DOMAIN c.onboard :
       c.onboard[b] # None =>
         ParseBind(c.onboard[b], b) # Refused /\ WriteBinding(b, ParseBind(c.onboard[b], b)) # Refused

(* What the sets of one session's start leave in the mouse: the lighting   *)
(* of every zone that is not kept, every bind that is asked for.           *)
Lit(c, d) ==
  [led \in Leds |->
     LET e == FromConfig(ZoneLighting(c, led), ZoneColor(c, led)) IN
       IF e \in {None, Refused} THEN d.effect[led] ELSE Effect(led, e).args]
Bound(c, d) ==
  [b \in Stores |-> IF c.onboard[b] = None THEN d.bind[b]
                    ELSE WriteBinding(b, ParseBind(c.onboard[b], b)).args]
Applied(c, d) ==
  [mode |-> SetMode(IF mouse.dpiButtons THEN Driver ELSE Hardware).args,
   dpi |-> SetDpi(mouse, DpiXY[1], DpiXY[2]).args,
   polling |-> IF c.rate = None THEN d.polling ELSE SetPolling(mouse, c.rate).args,
   effect |-> Lit(c, d), bind |-> Bound(c, d)]

Factory ==
  [mode |-> SetMode(Hardware).args, dpi |-> SetDpi(mouse, mouse.max, mouse.max).args,
   polling |-> SetPolling(mouse, mouse.rates[1]).args,
   effect |-> [led \in Leds |-> Effect(led, [kind |-> "spectrum"]).args],
   bind |-> [b \in Stores |-> WriteBinding(b, DefaultFor(b)).args]]

TypeOK ==
  /\ mouse \in Mice
  /\ cfg \in [dpi : Word16, dpiY : {None} \cup Word16, rate : {None} \cup Nat,
              lighting : Kinds, color : Colors \cup {BadColor},
              over : [Leds -> [lighting : Kinds \cup {None}, color : Colors \cup {None}]],
              up : Actions, onboard : [Stores -> {None} \cup {Display(d) : d \in Binds}]]
  /\ device.mode[1] \in {Hardware, Driver} /\ \A i \in 1 .. 7 : device.dpi[i] \in 0 .. MaxByte
  /\ \A b \in Stores : Len(device.bind[b]) <= 10
  /\ attached \in BOOLEAN /\ failed \in BOOLEAN /\ stale \in BOOLEAN
  /\ window # None =>
       window.pos \in mouse.min .. mouse.max /\ window.label \in mouse.min .. mouse.max

Init ==
  /\ mouse \in Mice
  /\ \E s \in Starts :
       cfg = [dpi |-> s.dpi, dpiY |-> s.dpiY, rate |-> s.rate, lighting |-> s.lighting,
              color |-> s.color, up |-> s.up,
              over |-> [led \in Leds |-> [lighting |-> None, color |-> None]],
              onboard |-> [b \in Stores |-> None]]
  /\ ValidFor(mouse, cfg)
  /\ device = Factory
  /\ attached = FALSE /\ failed = FALSE
  /\ window = None /\ stale = FALSE

(* A session starts: the mouse may have lost its power, and with it what   *)
(* it keeps in no storage.                                                 *)
Attach ==
  /\ ~failed
  /\ \E d \in {device, [device EXCEPT !.dpi = Factory.dpi, !.mode = Factory.mode]} :
       device' = Applied(cfg, d)
  /\ attached' = TRUE
  /\ UNCHANGED <<mouse, cfg, failed, window, stale>>

-----------------------------------------------------------------------------
(* handle_menu: the command, then the configuration.                       *)

PlayedWith(act) == attached /\ ~failed /\ act \in Acts[mouse]

SetDpiTo_KeepsY(v) ==
  IF SetDpi(mouse, v, v) = Refused THEN failed' = TRUE /\ UNCHANGED <<cfg, device>>
  ELSE /\ device' = [device EXCEPT !.dpi = SetDpi(mouse, v, v).args]
       /\ cfg' = [cfg EXCEPT !.dpi = v]
       /\ UNCHANGED failed

SetDpiTo(v) ==
  IF SetDpi(mouse, v, v) = Refused THEN failed' = TRUE /\ UNCHANGED <<cfg, device>>
  ELSE /\ device' = [device EXCEPT !.dpi = SetDpi(mouse, v, v).args]
       /\ cfg' = [cfg EXCEPT !.dpi = v, !.dpiY = None]
       /\ UNCHANGED failed

SetRate(hz) ==
  IF hz # None /\ SetPolling(mouse, hz) = Refused
  THEN failed' = TRUE /\ UNCHANGED <<cfg, device>>
  ELSE /\ cfg' = [cfg EXCEPT !.rate = hz]
       /\ device' = IF hz = None THEN device
                    ELSE [device EXCEPT !.polling = SetPolling(mouse, hz).args]
       /\ UNCHANGED failed

(* A preset of the tray is for every zone. *)
SetEffect(e) ==
  /\ device' = [device EXCEPT !.effect = [led \in Leds |-> Effect(led, e).args]]
  /\ cfg' = [cfg EXCEPT !.lighting = e.kind,
                        !.color = IF e.kind \in {"static", "breathing"} THEN e.color ELSE @,
                        !.over = [led \in Leds |-> [lighting |-> None, color |-> None]]]

(* An effect whose color is no color is logged and forgotten. *)
SetZoneKind(led, kind) ==
  LET e == FromConfig(kind, ZoneColor(cfg, led)) IN
    /\ device' = IF e \in {None, Refused} THEN device
                 ELSE [device EXCEPT !.effect[led] = Effect(led, e).args]
    /\ cfg' = IF e = Refused THEN cfg ELSE [cfg EXCEPT !.over[led].lighting = kind]

(* A color shows at once where the zone's effect has one. *)
SetZoneColor(led, color) ==
  LET e == FromConfig(ZoneLighting(cfg, led), color) IN
    /\ cfg' = [cfg EXCEPT !.over[led].color = color]
    /\ device' = IF e \in {None, Refused} \/ e.kind \in {"off", "spectrum"} THEN device
                 ELSE [device EXCEPT !.effect[led] = Effect(led, e).args]

SetUp(action) == cfg' = [cfg EXCEPT !.up = action] /\ UNCHANGED device

(* A text that is no bind, or one that may not be written, changes nothing. *)
SetBind(b, text) ==
  LET bind == ParseBind(text, b) IN
    IF bind = Refused \/ WriteBinding(b, bind) = Refused THEN UNCHANGED <<cfg, device>>
    ELSE /\ cfg' = [cfg EXCEPT !.onboard[b] = text]
         /\ device' = [device EXCEPT !.bind[b] = WriteBinding(b, bind).args]

-----------------------------------------------------------------------------
(* The window and the tray.                                                *)

(* What a zone's swatch shows of a configured color: green when the text   *)
(* is no color.                                                            *)
Green == <<0, 255, 0>>
Swatch(color) == IF color = BadColor THEN Green ELSE color

(* open_settings_window: what each list offers is settled when it opens. *)
OpenSettings ==
  /\ window = None /\ attached /\ ~failed
  /\ window' = [pos |-> Clamp(cfg.dpi, mouse.min, mouse.max), label |-> cfg.dpi,
                rate |-> PollingIndex(cfg.rate, mouse.rates),
                values |-> ActionValues(cfg.up), up |-> ActionIndex(cfg.up),
                effect |-> [led \in Leds |-> EffectIndex(ZoneLighting(cfg, led))],
                color |-> [led \in Leds |-> Swatch(ZoneColor(cfg, led))]]
  /\ stale' = FALSE
  /\ UNCHANGED <<mouse, cfg, device, attached, failed>>

CloseSettings ==
  /\ window # None
  /\ window' = None
  /\ UNCHANGED <<mouse, cfg, device, attached, failed, stale>>

InWindow(act) == window # None /\ PlayedWith(act)

(* The slider is let go of at a position. *)
Slide(pos) ==
  /\ InWindow("dpi")
  /\ window' = [window EXCEPT !.pos = pos, !.label = Slid(pos, mouse)]
  /\ SetDpiTo(Slid(pos, mouse))
  /\ UNCHANGED <<mouse, attached, stale>>

Step(up) ==
  /\ InWindow("dpi")
  /\ LET dpi == Stepped(window.pos, up, mouse) IN
       window' = [window EXCEPT !.pos = dpi, !.label = dpi] /\ SetDpiTo(dpi)
  /\ UNCHANGED <<mouse, attached, stale>>

ChooseRate(i) ==
  /\ InWindow("rate")
  /\ window' = [window EXCEPT !.rate = i]
  /\ SetRate(PollingChosen(i, mouse.rates))
  /\ UNCHANGED <<mouse, attached, stale>>

ChooseUp(i) ==
  /\ InWindow("action") /\ i < Len(window.values)
  /\ window' = [window EXCEPT !.up = i]
  /\ SetUp(window.values[i + 1])
  /\ UNCHANGED <<mouse, attached, failed, stale>>

ChooseEffect(led, i) ==
  /\ InWindow("light")
  /\ window' = [window EXCEPT !.effect[led] = i]
  /\ SetZoneKind(led, EffectChosen(i))
  /\ stale' = (stale \/ FromConfig(EffectChosen(i), ZoneColor(cfg, led)) = Refused)
  /\ UNCHANGED <<mouse, attached, failed>>

ChooseColor(led, color) ==
  /\ InWindow("light")
  /\ window' = [window EXCEPT !.color[led] = color]
  /\ SetZoneColor(led, color)
  /\ UNCHANGED <<mouse, attached, failed, stale>>

ChooseBind(b, d) ==
  /\ InWindow("bind") /\ Display(d) # Refused
  /\ SetBind(b, Display(d))
  /\ UNCHANGED <<mouse, attached, failed, window, stale>>

(* menu_action_for gives back the DPI that the item's id stands for. *)
TrayDpi(d) ==
  /\ PlayedWith("dpi")
  /\ SetDpiTo(IdDpi(MenuId(d)))
  /\ stale' = TRUE
  /\ UNCHANGED <<mouse, attached, window>>

(* Bound: with the window closed, which is not told of it.                 *)
TrayEffect(e) ==
  /\ PlayedWith("light") /\ window = None
  /\ SetEffect(e)
  /\ UNCHANGED <<mouse, attached, failed, window, stale>>

Next ==
  \/ Attach \/ OpenSettings \/ CloseSettings
  \/ \E pos \in Positions \cap (mouse.min .. mouse.max) : Slide(pos)
  \/ \E up \in BOOLEAN : Step(up)
  \/ \E i \in 0 .. Len(mouse.rates) : ChooseRate(i)
  \/ \E i \in 0 .. Len(ACTION_PRESETS) : ChooseUp(i)
  \/ \E led \in Leds, i \in 0 .. Len(EFFECT_PRESETS) - 1 : ChooseEffect(led, i)
  \/ \E led \in Leds, color \in Colors : ChooseColor(led, color)
  \/ \E b \in Stores, d \in Binds : ChooseBind(b, d)
  \/ \E d \in Presets(mouse) : TrayDpi(d)
  \/ \E e \in TrayEffects : TrayEffect(e)

Spec == Init /\ [][Next]_vars

-----------------------------------------------------------------------------
(* Properties.                                                             *)

(* What the mouse answers is what the configuration says, through either   *)
(* family of polling commands, for both halves of the DPI, for every zone  *)
(* with its own effect and color, and for every bind: a setting is sent as *)
(* it is recorded, and recorded as it is sent (menu.rs:168-310,            *)
(* lib.rs:288-560, keymap.rs:87-220).                                      *)
MouseAnswersConfig ==
  attached =>
    /\ ParseDpi(Report(HexClass.dpi, 133, 7, device.dpi)) = DpiXY
    /\ cfg.rate # None =>
         ParsePolling(mouse.protocol, Report(HexClass.polling, 133, 1, device.polling)) = cfg.rate
    /\ \A led \in Leds :
         LET e == FromConfig(ZoneLighting(cfg, led), ZoneColor(cfg, led)) IN
           e # None => e # Refused /\ device.effect[led] = Effect(led, e).args
    /\ \A b \in Stores :
         cfg.onboard[b] # None =>
           ParseBinding(Report(HexClass.keymap, 140, 10, device.bind[b]), b)
             = ParseBind(cfg.onboard[b], b)
    /\ ParseMode(Report(HexClass.mode, 132, 2, device.mode))
         = IF mouse.dpiButtons THEN Driver ELSE Hardware

(* What the window shows is what the configuration says, however the lists *)
(* were used since it opened: each maps its entries to values through a    *)
(* list of its own (daemon.rs:88-158, 296-335).  The tray and a reload do  *)
(* not tell the window, nor does an effect refused for want of a color;    *)
(* "none" for an effect, which no list has, shows as "keep", and a text    *)
(* that is no color as green (daemon.rs:223), until a color is chosen.     *)
WindowShowsConfig ==
  window # None /\ ~stale /\ ~failed =>
    /\ window.label = cfg.dpi
    /\ PollingChosen(window.rate, mouse.rates) = cfg.rate
    /\ window.values[window.up + 1] = cfg.up
    /\ \A led \in Leds :
         /\ ZoneColor(cfg, led) # BadColor => window.color[led] = ZoneColor(cfg, led)
         /\ ZoneLighting(cfg, led) # "none" =>
              EffectChosen(window.effect[led]) = ZoneLighting(cfg, led)

(* No choice the program offers is one that its own reports refuse: a DPI  *)
(* of the slider, of its buttons or of the tray's menu, through its item's *)
(* id, a polling rate (settings.rs:1649-1651, menu.rs:17-68, 122-156).     *)
NothingRefused == ~failed

Capabilities ==
  { <<"minus", 0>>, <<"slider", 0>>, <<"plus", 0>>, <<"poll", 0>>, <<"save", 0>> }
    \cup (IF mouse.dpiButtons THEN ToSet(DpiButtons) ELSE {})
    \cup (IF mouse.onboard = NoKeymap THEN ToSet(Thumbs)
          ELSE {<<"button", mouse.onboard[k]>>
                 : k \in 1 .. Smaller(Len(mouse.onboard), MAX_ONBOARD)})
    \cup ({"effect", "color"} \X Zones(mouse))

(* However much of a mouse its drawing has places for, every capability    *)
(* has one control, no two share an id, and the swatch that a click on     *)
(* zone i looks up is zone i's ("a partial set falls back to top-cluster   *)
(* rows so no zone vanishes", settings.rs:638-642).                        *)
EveryControlOnce ==
  window # None =>
    LET c == Controls(mouse)
        index(k) == Cardinality({j \in 1 .. k : c[j][1] = "button"}) - 1 IN
      /\ ToSet(c) = Capabilities /\ Len(c) = Cardinality(Capabilities)
      /\ \A j, k \in DOMAIN c : j # k => ControlId(c[j], index(j)) # ControlId(c[k], index(k))
      /\ \A k \in DOMAIN Swatches(mouse) : Swatches(mouse)[k] = <<"color", k - 1>>

(* The plan of the window and the cursor that fills it agree: the rows end *)
(* above the drawing and the drawing above the bottom bar; the drawing has *)
(* its margins, and the mouse in it is off the middle of the window by no  *)
(* more than CENTER_SLACK (settings.rs:644-720, 1063).                     *)
LayoutFits ==
  window # None =>
    /\ ClusterEnd(mouse) <= MARGIN + TopH(mouse)
    /\ PaneTop(mouse) + DiaH(mouse) <= BottomTop(mouse)
    /\ HasDiagram(mouse) =>
         /\ PaneX(mouse) >= MARGIN - 1
         /\ PaneX(mouse) + DiaW(mouse) <= ClientW(mouse) - MARGIN + 1
         /\ 2 * PaneX(mouse) + Body2(mouse) - ClientW(mouse)
              \in -(2 * CENTER_SLACK + 2) .. 2 * CENTER_SLACK + 2

(* The form the window opens with, for every mouse of the table. *)
FormIsWhole == EveryControlOnce /\ LayoutFits
=============================================================================
