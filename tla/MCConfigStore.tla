----------------------------- MODULE MCConfigStore -----------------------------
(* Instances of ConfigStore: a mouse with a keymap and one with DPI buttons, of
   which the first takes one value more; a thumb button, the wheel click and the
   two main clicks. *)
EXTENDS ConfigStore, TLC

CONSTANTS v3, elite, back, wheel, right, left_, none, copy, default, soft,
          ctrlC, disabled, d_back, d_wheel, d_right, d_left

MCDefault  == back :> d_back @@ wheel :> d_wheel @@ right :> d_right
              @@ left_ :> d_left
MCKeys     == {"back", "wheel_click", "wheel-click", "right", "left"}
MCButtonOf == "back" :> back @@ "wheel_click" :> wheel @@ "wheel-click" :> wheel
              @@ "right" :> right @@ "left" :> left_
MCKeyOf    == back :> "back" @@ wheel :> "wheel_click" @@ right :> "right"
              @@ left_ :> "left"
MCSoftOf   == [t \in Texts |->
                 CASE t = none -> Native [] t = copy -> ctrlC
                   [] t = soft -> "win+x" [] OTHER -> NotAction]
MCBindOf   == [t \in Texts |->
                 CASE t = copy -> ctrlC [] t = default -> AtDefault [] OTHER -> NotBind]
MCOrder    == <<left_, right, wheel, back>>
MCTakes    == v3 :> [rate |-> {1, 2}] @@ elite :> [rate |-> {1}]

Config(rate, thumb, table) ==
  [reg |-> [rate |-> rate], thumb |-> back :> thumb, onboard |-> table]
MCDefaults == Config(Keep, none, <<>>)
(* A good file for both; a remap to migrate; one only the first mouse takes, and
   one only the second. *)
MCEdits == {Missing, Malformed, Config(2, copy, "wheel-click" :> copy),
            Config(1, soft, "right" :> copy)}
MCFound == {[MCDefault EXCEPT ![back] = ctrlC, ![left_] = ctrlC],
            [MCDefault EXCEPT ![wheel] = disabled, ![right] = ctrlC]}
=============================================================================
