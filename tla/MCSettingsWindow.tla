---------------------------- MODULE MCSettingsWindow ----------------------------
(* Instances of SettingsWindow: two boxes; a chord and a disabled button, a
   text that is no bind. *)
EXTENDS SettingsWindow

CONSTANTS back, wheel, copy, off, chord, disabled, junk

MCMeaningOf ==
  [t \in Texts |-> CASE t = copy -> chord [] t = off -> disabled [] t = junk -> Bad]
MCTextOf == [d \in Binds |-> CASE d = chord -> copy [] d = disabled -> off]
MCSendsOf ==
  [d \in Binds |-> CASE d = chord -> [mods |-> {"ctrl"}, key |-> "c"]
                     [] d = disabled -> Silence]
MCLeft == [mods |-> {}, key |-> "left"]
=============================================================================
