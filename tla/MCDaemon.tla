------------------------------ MODULE MCDaemon ------------------------------
(* Daemon with a mouse of each kind: one with DPI buttons, whose range is  *)
(* the shortest, and one with a keymap.                                    *)
EXTENDS Daemon, TLC

CONSTANTS elite, v3, r1, n1, n2

MCMice    == {elite, v3}
MCButtons == {elite}
MCKeymapped == {v3}
MCMaxDpi  == [m \in MCMice |-> IF m = elite THEN 1 ELSE 2]
MCLadder  == {1}
MCSlider  == 1..2
MCReaders == {r1}
MCNotices == {n1, n2}
MCSymmetry == Permutations(MCNotices)

(* Smaller, for liveness: one range for all, one notice thread.            *)
MCOneRange == [m \in MCMice |-> 1]
MCOnePosition == {1}
MCOneNotice == {n1}
=============================================================================
