-------------------------------- MODULE MCValues --------------------------------
EXTENDS Values

Red == <<255, 0, 0>>
Blue == <<0, 0, 255>>

Mouse(leds, dpiButtons, onboard, diagram, max, protocol, rates) ==
  [leds |-> leds, dpiButtons |-> dpiButtons, onboard |-> onboard, diagram |-> diagram,
   min |-> 100, max |-> max, protocol |-> protocol, rates |-> rates]
Plain == Mouse(<<>>, FALSE, NoKeymap, NoDiagram, 16000, "classic", <<125, 500, 1000>>)

(* Those that are played with, each for one or two of the things a mouse has. *)
Lights == [Plain EXCEPT !.leds = <<1, 4>>]
Buttons == [Plain EXCEPT !.dpiButtons = TRUE]
Sensor == Mouse(<<>>, FALSE, <<>>, NoDiagram, 30000, "extended",
                <<125, 250, 500, 1000, 2000, 4000, 8000>>)
Rates == [Sensor EXCEPT !.dpiButtons = TRUE]
Store == [Sensor EXCEPT !.onboard = <<3, 4>>]

(* Those that are only looked at: drawings with all their slots, none, or  *)
(* one missing; narrow or too wide for the window; lopsided either way.    *)
Slots ==
  {<<"up", 0>>, <<"down", 0>>, <<"back", 0>>, <<"forward", 0>>,
   <<"zone", 0>>, <<"zone", 1>>, <<"zone", 2>>}
    \cup {<<"button", b>> : b \in {3, 4, 5, 9, 10}}
Drawings ==
  {NoDiagram}
    \cup [w : {260, 1200}, h : {300}, body : {200, 330}, slots : {Slots, {}}]
    \cup [w : {260}, h : {300}, body : {260}, slots : {Slots \ {s} : s \in Slots}]
Looks ==
  {Mouse(leds, dpiButtons, onboard, diagram, 16000, "classic", <<125>>)
     : leds \in {<<>>, <<1>>, <<1, 4, 7>>}, dpiButtons \in BOOLEAN,
       onboard \in {NoKeymap, <<>>, <<3>>, <<3, 4, 5, 9, 10>>}, diagram \in Drawings}

MCMice == {Lights, Buttons, Sensor, Rates, Store} \cup Looks
MCActs ==
  [m \in MCMice |-> CASE m = Lights -> {"light"} [] m = Buttons -> {"action"}
                      [] m = Sensor -> {"dpi"} [] m = Rates -> {"rate"}
                      [] m = Store -> {"bind"}
                      [] OTHER -> {}]

Start(dpi, dpiY, rate, lighting, color, up) ==
  [dpi |-> dpi, dpiY |-> dpiY, rate |-> rate, lighting |-> lighting, color |-> color, up |-> up]
MCStarts ==
  { Start(1600, None, None, "static", Red, "copy"),
    Start(800, 1200, 125, "none", Red, "key:f24"),
    Start(16000, None, None, "spectrum", BadColor, "none") }
MCColors == {Red, Blue}
MCActions == ToSet(ACTION_PRESETS) \cup {"key:f24"}
MCPositions == {100, 124, 125, 149, 1024, 1575, 2975, 29974, 29975, 30000}
MCBinds ==
  {[kind |-> "disabled"], [kind |-> "mouse", function |-> 4],
   [kind |-> "key", mods |-> {1, 8}, usage |-> 6], [kind |-> "key", mods |-> {16}, usage |-> 6]}
=============================================================================
