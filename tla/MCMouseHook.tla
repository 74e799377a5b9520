------------------------------ MODULE MCMouseHook ------------------------------
(* MouseHook with both thumb buttons, every set of remaps, and two handles: *)
(* one may be on its way out while the other comes.                         *)
EXTENDS MouseHook, TLC

CONSTANTS back, forward, h1, h2

MCThumbs == {back, forward}
MCWishes == SUBSET MCThumbs
MCHooks  == {h1, h2}
MCOneThumb  == {back}
MCOneWish   == SUBSET MCOneThumb
=============================================================================
