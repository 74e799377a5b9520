-------------------------------- MODULE Onboard --------------------------------
(***************************************************************************)
(* crates/razer-proto/src/keymap.rs and src/onboard.rs: the binds a mouse  *)
(* stores in its own memory, which of them may be written, and the         *)
(* [onboard] table of the configuration that asks for them.  Constants     *)
(* and operators only; ConfigStore is the state machine.                   *)
(*                                                                         *)
(* A text is what a configuration file or the settings window says of a    *)
(* button; SoftOf and BindOf are the two parsers that read it.  A          *)
(* definition X_Y is X with the plausible mistake Y; no specification      *)
(* uses it.                                                                *)
(***************************************************************************)
CONSTANTS Buttons,    \* KeymapSpec.buttons
          Writable,   \* KeymapSpec.writable
          MainClicks, \* MAIN_CLICKS
          Binds,      \* what a button can store
          Known,      \* binds whose write was captured
          Default,    \* Binding::default_for, or NoBind
          Keys,       \* names an [onboard] table may use, whatever their spelling
          ButtonOf,   \* KeymapSpec::button, or NoButton
          KeyOf,      \* the canonical name of a button
          Texts,      \* what may be asked of a button
          SoftOf,     \* actions::parse: a chord, Native or NotAction
          BindOf,     \* parse_bind: a bind, AtDefault or NotBind
          NoneText,   \* "none", the default of thumb_back and thumb_forward
          Thumbs,     \* the buttons with a software remap
          NoButton, NoBind, Native, NotAction, AtDefault, NotBind

(* Of the table of recorded keymaps and the two parsers: every bind the    *)
(* parser makes can be written, every writable button has a default that   *)
(* can be, and "none" is an action but no bind.                            *)
ASSUME KeymapAssumption ==
  /\ Writable \subseteq Buttons /\ MainClicks \subseteq Buttons
  /\ Thumbs \subseteq Buttons
  /\ Known \subseteq Binds
  /\ Default \in [Buttons -> Binds \cup {NoBind}]
  /\ \A b \in Writable : Default[b] \in Known
  /\ ButtonOf \in [Keys -> Buttons \cup {NoButton}] /\ KeyOf \in [Buttons -> Keys]
  /\ \A b \in Buttons : ButtonOf[KeyOf[b]] = b
  /\ NoButton \notin Buttons /\ {NoBind, AtDefault, NotBind} \cap Binds = {}
  /\ BindOf \in [Texts -> Known \cup {AtDefault, NotBind}]
  /\ Native # NotAction /\ NoneText \in Texts
  /\ SoftOf[NoneText] = Native /\ BindOf[NoneText] = NotBind

(* The [onboard] table: some of the keys, each with its text. *)
Tables == UNION {[K -> Texts] : K \in SUBSET Keys}

(* parse_bind: "default" depends on the button. *)
ParseBind(t, b) ==
  IF BindOf[t] # AtDefault THEN BindOf[t]
  ELSE IF Default[b] = NoBind THEN NotBind ELSE Default[b]

RebindsMain(b, bind) == b \in MainClicks /\ bind # Default[b]

(* The last word on a write: write_binding_report refuses the rest. *)
WriteAllowed(b, bind) == b \in Writable /\ ~RebindsMain(b, bind) /\ bind \in Known

EntryOk_AnyBind(k, t) ==
  LET b == ButtonOf[k] IN b \in Writable /\ ParseBind(t, b) # NotBind

(* One entry, as parse_config judges it. *)
EntryOk(k, t) ==
  LET b == ButtonOf[k] IN
    b \in Writable /\ ParseBind(t, b) # NotBind /\ ~RebindsMain(b, ParseBind(t, b))

TableOk(tab) == \A k \in DOMAIN tab : EntryOk(k, tab[k])

(* What a good table asks for. *)
Wants(tab) ==
  {[button |-> ButtonOf[k], bind |-> ParseBind(tab[k], ButtonOf[k])] : k \in DOMAIN tab}

Managed(tab) == {ButtonOf[k] : k \in DOMAIN tab}

Without(tab, b) == [k \in {j \in DOMAIN tab : ButtonOf[j] # b} |-> tab[k]]

(* set_entry: the canonical key replaces every spelling of the button. *)
SetEntry(tab, b, t) ==
  [k \in DOMAIN Without(tab, b) \cup {KeyOf[b]} |-> IF k = KeyOf[b] THEN t ELSE tab[k]]

(* leftovers: known not to be the default, and not asked for. *)
Leftover(stored, b, spared) ==
  Default[b] # NoBind /\ stored[b] # Default[b] /\ b \notin spared

-----------------------------------------------------------------------------
(* migrate_thumbs, for a table and the software remaps.                    *)

Remapped(thumb) == {b \in Thumbs \cap Writable : thumb[b] # NoneText}
Moved(tab, thumb) ==
  {b \in Remapped(thumb) : b \notin Managed(tab) /\ ParseBind(thumb[b], b) # NotBind}

MigrateTable(tab, thumb) ==
  [k \in DOMAIN tab \cup {KeyOf[b] : b \in Moved(tab, thumb)} |->
     IF k \in DOMAIN tab THEN tab[k] ELSE thumb[ButtonOf[k]]]

MigrateThumb_ClearsAll(tab, thumb) ==
  [b \in Thumbs |-> IF b \in Remapped(thumb) THEN NoneText ELSE thumb[b]]

(* A remap that moved, or that an entry already covers, is cleared. *)
MigrateThumb(tab, thumb) ==
  [b \in Thumbs |-> IF b \in Moved(tab, thumb) \cup (Remapped(thumb) \cap Managed(tab))
                      THEN NoneText ELSE thumb[b]]
=============================================================================
