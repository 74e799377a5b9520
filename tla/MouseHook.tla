------------------------------- MODULE MouseHook -------------------------------
(***************************************************************************)
(* crates/platform/src/mouse_hook.rs, and tray.rs as far as it runs it: the *)
(* main thread says which thumb buttons are remapped and removes the hook   *)
(* on its way out, the tray thread installs and removes the hook to match,  *)
(* and the hook swallows the presses of remapped buttons.  Each step is one *)
(* access to a shared cell or one call of the operating system.             *)
(*                                                                         *)
(* The tray's window is never destroyed while the daemon runs, and a hook   *)
(* whose callback is too slow is not modelled.  The parts of the            *)
(* specification carry the prefix Hook, so that SessionHookProofs can       *)
(* extend Session beside it.  A definition X_Y is X with the plausible      *)
(* mistake Y; no specification uses it.                                     *)
(***************************************************************************)
EXTENDS Integers

CONSTANTS Thumbs,  \* the thumb buttons
          Wishes,  \* the sets of remapped buttons a configuration may have
          Hooks,   \* hook handles
          NoHook,  \* HOOK's zero
          MaxPosts \* bound: HOOK_SYNC messages in the tray's queue

ASSUME HookAssumption ==
  /\ Wishes \subseteq SUBSET Thumbs
  /\ NoHook \notin Hooks
  /\ MaxPosts \in Nat \ {0}

VARIABLES
  main,       \* where the main thread is
  wish,       \* the remaps it is setting
  WANTED,     \* a remap is configured
  remaps,     \* STATE: the remapped buttons
  HOOK,       \* the handle, or NoHook
  SUPPRESSED, \* buttons whose DOWN was suppressed
  leaving,    \* the handle the main thread's uninstall took
  tray,       \* where the tray thread is
  up,         \* TRAY_HWND is set
  posts,      \* HOOK_SYNC messages waiting
  mine,       \* the handle the tray thread is installing or removing
  installed,  \* the hooks the operating system knows
  refused,    \* it refused the last one asked for
  fate,       \* what became of the press of each button that is down
  seen        \* buttons that are down to the programs behind the hook

cells  == <<WANTED, remaps, HOOK>>
handle == <<mine, installed, refused>>
thumbs == <<SUPPRESSED, fate, seen>>
hookVars == <<main, wish, cells, leaving, tray, up, posts, handle, thumbs>>

Running == main \in {"idle", "wanted", "locked", "posting"}
Ended   == main = "exited"

HookTypeOK ==
  /\ main \in {"idle", "wanted", "locked", "posting", "leaving", "notice", "exited"}
  /\ wish \in Wishes \cup {{}} /\ remaps \in Wishes \cup {{}} /\ WANTED \in BOOLEAN
  /\ HOOK \in Hooks \cup {NoHook} /\ leaving \in Hooks \cup {NoHook}
  /\ tray \in {"starting", "pumping", "wanted", "unwanted", "installing", "removing"}
  /\ up \in BOOLEAN /\ posts \in 0..MaxPosts
  /\ mine \in Hooks \cup {NoHook} /\ installed \subseteq Hooks /\ refused \in BOOLEAN
  /\ fate \in [Thumbs -> {"up", "passed", "suppressed"}]
  /\ SUPPRESSED \subseteq Thumbs /\ seen \subseteq Thumbs

HookInit ==
  /\ main = "idle" /\ wish = {} /\ leaving = NoHook
  /\ WANTED = FALSE /\ remaps = {} /\ HOOK = NoHook
  /\ tray = "starting" /\ up = FALSE /\ posts = 0
  /\ mine = NoHook /\ installed = {} /\ refused = FALSE
  /\ fate = [b \in Thumbs |-> "up"] /\ SUPPRESSED = {} /\ seen = {}

-----------------------------------------------------------------------------
(* The main thread: set_thumb_actions.                                     *)

StoreWanted(w) ==
  /\ main = "idle"
  /\ main' = "wanted" /\ wish' = w
  /\ WANTED' = (w # {})
  /\ UNCHANGED <<remaps, HOOK, leaving, tray, up, posts, handle, thumbs>>

Lock ==
  /\ main = "wanted"
  /\ main' = "locked"
  /\ UNCHANGED <<wish, cells, leaving, tray, up, posts, handle, thumbs>>

Unlock ==
  /\ main = "locked"
  /\ main' = "posting"
  /\ remaps' = wish
  /\ UNCHANGED <<wish, WANTED, HOOK, leaving, tray, up, posts, handle, thumbs>>

RequestSync_Never ==
  /\ main = "posting" /\ main' = "idle"
  /\ UNCHANGED <<wish, cells, leaving, tray, up, posts, handle, thumbs>>

(* request_hook_sync: nothing to post to before the tray's window is known. *)
RequestSync ==
  /\ main = "posting" /\ main' = "idle"
  /\ IF up THEN posts < MaxPosts /\ posts' = posts + 1 ELSE UNCHANGED posts
  /\ UNCHANGED <<wish, cells, leaving, tray, up, handle, thumbs>>

(* uninstall on the way out of shutdown, stop_for_safety and a rejected     *)
(* configuration: take the handle, remove the hook, ...                     *)
Leave ==
  /\ main = "idle"
  /\ main' = "leaving"
  /\ leaving' = HOOK /\ HOOK' = NoHook
  /\ UNCHANGED <<wish, WANTED, remaps, tray, up, posts, handle, thumbs>>

Removed ==
  /\ main = "leaving"
  /\ main' = "notice"
  /\ installed' = installed \ {leaving}
  /\ UNCHANGED <<wish, cells, leaving, tray, up, posts, mine, refused, thumbs>>

(* ... show what happened, if there is anything to show, and exit.          *)
Exit ==
  /\ main = "notice"
  /\ main' = "exited"
  /\ installed' = {}
  /\ UNCHANGED <<wish, cells, leaving, tray, up, posts, mine, refused, thumbs>>

-----------------------------------------------------------------------------
(* The tray thread.  It reads WANTED to begin a sync, then HOOK.            *)

BeginSync == tray' = IF WANTED THEN "wanted" ELSE "unwanted"

(* run makes its window known ... *)
Starts ==
  /\ tray = "starting" /\ ~up /\ ~Ended
  /\ up' = TRUE
  /\ UNCHANGED <<main, wish, cells, leaving, tray, posts, handle, thumbs>>

(* ... and only then syncs for the first time.                              *)
FirstSync ==
  /\ tray = "starting" /\ up /\ ~Ended
  /\ BeginSync
  /\ UNCHANGED <<main, wish, cells, leaving, up, posts, handle, thumbs>>

(* The message loop dispatches HOOK_SYNC. *)
Dispatch ==
  /\ tray = "pumping" /\ posts > 0 /\ ~Ended
  /\ posts' = posts - 1
  /\ BeginSync
  /\ UNCHANGED <<main, wish, cells, leaving, up, handle, thumbs>>

(* Nothing to do. *)
Agrees ==
  /\ ~Ended
  /\ \/ tray = "wanted" /\ HOOK # NoHook
     \/ tray = "unwanted" /\ HOOK = NoHook
  /\ tray' = "pumping"
  /\ UNCHANGED <<main, wish, cells, leaving, up, posts, handle, thumbs>>

Install_Again ==
  /\ tray = "wanted" /\ ~Ended
  /\ \/ \E h \in Hooks \ installed :
          /\ mine' = h /\ installed' = installed \cup {h} /\ refused' = FALSE
          /\ tray' = "installing"
     \/ refused' = TRUE /\ tray' = "pumping" /\ UNCHANGED <<mine, installed>>
  /\ UNCHANGED <<main, wish, cells, leaving, up, posts, thumbs>>

(* install: SetWindowsHookEx works or does not, ... *)
Install ==
  /\ tray = "wanted" /\ HOOK = NoHook /\ ~Ended
  /\ \/ \E h \in Hooks \ installed :
          /\ mine' = h /\ installed' = installed \cup {h} /\ refused' = FALSE
          /\ tray' = "installing"
     \/ refused' = TRUE /\ tray' = "pumping" /\ UNCHANGED <<mine, installed>>
  /\ UNCHANGED <<main, wish, cells, leaving, up, posts, thumbs>>

(* ... then HOOK gets the handle.                                           *)
StoreHook ==
  /\ tray = "installing" /\ ~Ended
  /\ HOOK' = mine /\ mine' = NoHook
  /\ tray' = "pumping"
  /\ UNCHANGED <<main, wish, WANTED, remaps, leaving, up, posts, installed, refused, thumbs>>

(* uninstall: the handle is taken out of HOOK, ... *)
TakeHook ==
  /\ tray = "unwanted" /\ HOOK # NoHook /\ ~Ended
  /\ mine' = HOOK /\ HOOK' = NoHook
  /\ tray' = "removing"
  /\ UNCHANGED <<main, wish, WANTED, remaps, leaving, up, posts, installed, refused, thumbs>>

(* ... then the hook is removed.                                            *)
Unhook ==
  /\ tray = "removing" /\ ~Ended
  /\ installed' = installed \ {mine} /\ mine' = NoHook
  /\ tray' = "pumping"
  /\ UNCHANGED <<main, wish, cells, leaving, up, posts, refused, thumbs>>

-----------------------------------------------------------------------------
(* The thumb buttons.  The system calls the hook, if there is one, on the   *)
(* tray thread while that waits for messages.                               *)

Hooked == installed # {}
Heard  == ~Ended /\ (Hooked => tray = "pumping")

(* A DOWN is suppressed if its chord can be read without waiting.           *)
Suppresses(b) == Hooked /\ b \in remaps /\ main # "locked"

Press(b) ==
  /\ Heard /\ fate[b] = "up"
  /\ IF Suppresses(b)
       THEN /\ SUPPRESSED' = SUPPRESSED \cup {b}
            /\ fate' = [fate EXCEPT ![b] = "suppressed"]
            /\ UNCHANGED seen
       ELSE /\ fate' = [fate EXCEPT ![b] = "passed"]
            /\ seen' = seen \cup {b}
            /\ UNCHANGED SUPPRESSED
  /\ UNCHANGED <<main, wish, cells, leaving, tray, up, posts, handle>>

Release_ClearsAll(b) ==
  /\ Heard /\ fate[b] # "up"
  /\ fate' = [fate EXCEPT ![b] = "up"]
  /\ IF Hooked /\ b \in SUPPRESSED
       THEN SUPPRESSED' = {} /\ UNCHANGED seen
       ELSE seen' = seen \ {b} /\ UNCHANGED SUPPRESSED
  /\ UNCHANGED <<main, wish, cells, leaving, tray, up, posts, handle>>

(* An UP is suppressed if the bit of a DOWN is set, and clears it.          *)
Release(b) ==
  /\ Heard /\ fate[b] # "up"
  /\ fate' = [fate EXCEPT ![b] = "up"]
  /\ IF Hooked /\ b \in SUPPRESSED
       THEN SUPPRESSED' = SUPPRESSED \ {b} /\ UNCHANGED seen
       ELSE seen' = seen \ {b} /\ UNCHANGED SUPPRESSED
  /\ UNCHANGED <<main, wish, cells, leaving, tray, up, posts, handle>>

-----------------------------------------------------------------------------
Setting == (\E w \in Wishes : StoreWanted(w)) \/ Lock \/ Unlock \/ RequestSync
Syncing == Starts \/ FirstSync \/ Dispatch \/ Agrees \/ Install \/ StoreHook
             \/ TakeHook \/ Unhook

HookNext ==
  \/ Setting \/ Leave \/ Removed \/ Exit
  \/ Syncing
  \/ \E b \in Thumbs : Press(b) \/ Release(b)

(* Both threads go on; nothing obliges the user to change a remap, to quit, *)
(* or to touch a button.                                                    *)
HookFairness == WF_hookVars(Lock \/ Unlock \/ RequestSync) /\ WF_hookVars(Syncing)

HookSpec     == HookInit /\ [][HookNext]_hookVars
FairHookSpec == HookSpec /\ HookFairness

-----------------------------------------------------------------------------
(* The reconciliation is done: no message is left that would start another. *)
Quiet == main = "idle" /\ tray = "pumping" /\ posts = 0

(* "The hook exists only while a remap is configured", and then it does,    *)
(* unless the system refused it: whichever thread was first, and whether or *)
(* not the tray was up to be asked.                                         *)
Settled ==
  Quiet => /\ installed # {} => remaps # {}
           /\ remaps # {} => installed # {} \/ refused

(* "re-installing leaks the old hook": until the daemon leaves there is one *)
(* hook at most, and HOOK or the tray thread has its handle.                *)
OneHook ==
  Running => /\ \A h, k \in installed : h = k
             /\ installed \subseteq {HOOK, mine}

(* The hook is there when it should be, and once. *)
HookIsOwned == Settled /\ OneHook

(* A suppressed DOWN is not forgotten until its UP, whatever the hook and   *)
(* the other button go through.                                             *)
DownIsRemembered == \A b \in Thumbs : fate[b] = "suppressed" => b \in SUPPRESSED

(* Once the configuration is left alone, the hook comes to match it.        *)
WishIsMet ==
  <>[](main = "idle") => <>[](refused \/ (installed # {} <=> remaps # {}))

(* hook_proc: "Suppress the UP iff we suppressed its DOWN", so that no      *)
(* program sees a button go down and never come up.                         *)
NoStuckButton == Running => \A b \in seen : fate[b] # "up"
=============================================================================
