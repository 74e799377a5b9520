-------------------------------- MODULE Reports --------------------------------
(***************************************************************************)
(* crates/razer-proto/src/lib.rs and keymap.rs: the reports that carry a   *)
(* command to the mouse and its answer back, and the texts people write    *)
(* binds in.  Constants and operators only; Values is the state machine.   *)
(*                                                                         *)
(* A report is [class, id, size, args]: the bytes of args from byte 8 on,  *)
(* zeros after them.  The transaction id, the checksum and the status byte *)
(* are left to Transport, which has the answer that fails them.  A byte of *)
(* flags is the set of its flags.                                          *)
(*                                                                         *)
(* A definition X_Y is X with the plausible mistake Y.                     *)
(***************************************************************************)
EXTENDS Integers, Sequences, FiniteSets

CONSTANT Refused   \* what a constructor or a parser returns for a bad value

MaxArgs == 80
HexClass == [mode |-> 0, dpi |-> 4, polling |-> 0, keymap |-> 2, effect |-> 15]

(* build_report *)
Report(class, id, size, args) ==
  IF Len(args) > MaxArgs THEN Refused
  ELSE [class |-> class, id |-> id, size |-> size, args |-> args]

(* Byte n of a report, of those that carry arguments. *)
Byte(r, n) == IF n - 7 \in DOMAIN r.args THEN r.args[n - 7] ELSE 0

MaxByte == 255
MaxWord == 65535
High(v) == v \div 256
Low(v) == v % 256
Word(high, low) == 256 * high + low

(* validate_response: the answer is one to this command. *)
Echoes(request, answer) == answer.class = request.class /\ answer.id = request.id

-----------------------------------------------------------------------------
(* Device mode.                                                            *)

Hardware == 0
Driver == 3
SetMode(mode) == Report(HexClass.mode, 4, 2, <<mode, 0>>)
GetMode == Report(HexClass.mode, 132, 2, <<>>)
ParseMode(r) == Byte(r, 8)

-----------------------------------------------------------------------------
(* DPI, for a mouse with this range.                                       *)

SetDpi(m, x, y) ==
  IF {x, y} \subseteq m.min .. m.max
  THEN Report(HexClass.dpi, 5, 7, <<0, High(x), Low(x), High(y), Low(y), 0, 0>>)
  ELSE Refused
GetDpi == Report(HexClass.dpi, 133, 7, <<>>)
ParseDpi(r) == <<Word(Byte(r, 9), Byte(r, 10)), Word(Byte(r, 11), Byte(r, 12))>>

-----------------------------------------------------------------------------
(* Polling: two families of commands, with different codes for one rate.   *)

RateByte(protocol) ==
  IF protocol = "classic"
  THEN [hz \in {125, 500, 1000} |-> CASE hz = 1000 -> 1 [] hz = 500 -> 2 [] hz = 125 -> 8]
  ELSE [hz \in {125, 250, 500, 1000, 2000, 4000, 8000} |->
          CASE hz = 8000 -> 1 [] hz = 4000 -> 2 [] hz = 2000 -> 4 [] hz = 1000 -> 8
            [] hz = 500 -> 16 [] hz = 250 -> 32 [] hz = 125 -> 64]
RateHz(protocol, byte) ==
  IF \E hz \in DOMAIN RateByte(protocol) : RateByte(protocol)[hz] = byte
  THEN CHOOSE hz \in DOMAIN RateByte(protocol) : RateByte(protocol)[hz] = byte
  ELSE Refused

SetPolling(m, hz) ==
  IF \/ \A i \in DOMAIN m.rates : m.rates[i] # hz
     \/ hz \notin DOMAIN RateByte(m.protocol)
  THEN Refused
  ELSE IF m.protocol = "classic" THEN Report(HexClass.polling, 5, 1, <<RateByte("classic")[hz]>>)
  ELSE Report(HexClass.polling, 64, 2, <<0, RateByte("extended")[hz]>>)
GetPolling(protocol) ==
  Report(HexClass.polling, IF protocol = "classic" THEN 133 ELSE 192, 1, <<>>)
ParsePolling(protocol, r) == RateHz(protocol, Byte(r, IF protocol = "classic" THEN 8 ELSE 9))

-----------------------------------------------------------------------------
(* Effects of a lighting zone, stored on the mouse (VARSTORE): an effect   *)
(* is [kind] or [kind, color], a color <<r, g, b>>.  Nothing reads them.   *)

EffectId == [off |-> 0, static |-> 1, breathing |-> 2, spectrum |-> 3]

Effect(led, e) ==
  IF e.kind \in {"off", "spectrum"}
  THEN Report(HexClass.effect, 2, 6, <<1, led, EffectId[e.kind]>>)
  ELSE Report(HexClass.effect, 2, 9,
              <<1, led, EffectId[e.kind], IF e.kind = "breathing" THEN 1 ELSE 0, 0, 1>>
                \o e.color)

-----------------------------------------------------------------------------
(* Keymap.  A bind is [kind |-> "disabled"], [kind |-> "mouse", function], *)
(* [kind |-> "key", mods, usage] or [kind |-> "unknown", category].        *)

Writable == {2, 3, 4, 5, 9, 10}
MainClicks == {1, 2}
MouseFunctions == {1, 2, 3, 4, 5, 9, 10}
ModifierFlags == {1, 2, 4, 8, 16, 32, 64, 128}

DefaultFor(b) == IF b \in 1 .. 5 \cup {9, 10} THEN [kind |-> "mouse", function |-> b] ELSE Refused
RebindsMainClick(b, bind) == b \in MainClicks /\ bind # DefaultFor(b)

(* Names of keys: the letters, digits and function keys by their number,   *)
(* the others by their usage; a few have a second spelling.                *)
NamedKeys == (40 .. 57 \ {50}) \cup 70 .. 88 \cup {99, 101}
Synonyms == {41, 70, 76}
UsageName(u) ==
  CASE u \in 4 .. 29 -> <<"letter", u - 4>>
    [] u \in 30 .. 38 -> <<"digit", u - 29>> [] u = 39 -> <<"digit", 0>>
    [] u \in 58 .. 69 -> <<"F", u - 57>> [] u \in 104 .. 115 -> <<"F", u - 91>>
    [] u \in 89 .. 97 -> <<"Num", u - 88>> [] u = 98 -> <<"Num", 0>>
    [] u \in NamedKeys -> <<"key", u>>
    [] OTHER -> Refused
UsageFor(name) ==
  IF name[1] = "synonym" /\ name[2] \in Synonyms THEN name[2]
  ELSE IF \E u \in 4 .. 115 : UsageName(u) = name
  THEN CHOOSE u \in 4 .. 115 : UsageName(u) = name /\ \A v \in 4 .. u - 1 : UsageName(v) # name
  ELSE Refused

ReadBinding(b) == Report(HexClass.keymap, 140, 10, <<1, b, 0>>)

(* write_binding_report: nothing that no capture has shown is sent. *)
WriteBinding(b, bind) ==
  IF b \notin Writable \/ RebindsMainClick(b, bind) THEN Refused
  ELSE CASE bind.kind = "disabled" -> Report(HexClass.keymap, 12, 10, <<1, b, 0, 0, 0>>)
         [] bind.kind = "mouse" /\ bind.function \in MouseFunctions ->
              Report(HexClass.keymap, 12, 10, <<1, b, 0, 1, 1, bind.function>>)
         [] bind.kind = "key" /\ UsageName(bind.usage) # Refused ->
              Report(HexClass.keymap, 12, 10, <<1, b, 0, 2, 2, bind.mods, bind.usage>>)
         [] OTHER -> Refused

(* parse_binding, of a reply to a read or a write. *)
ParseBinding(r, b) ==
  IF Byte(r, 9) # b \/ 13 + Byte(r, 12) > 88 THEN Refused
  ELSE CASE Byte(r, 11) = 0 -> [kind |-> "disabled"]
         [] Byte(r, 11) = 1 /\ Byte(r, 12) = 1 -> [kind |-> "mouse", function |-> Byte(r, 13)]
         [] Byte(r, 11) = 2 /\ Byte(r, 12) = 2 ->
              [kind |-> "key", mods |-> Byte(r, 13), usage |-> Byte(r, 14)]
         [] OTHER -> [kind |-> "unknown", category |-> Byte(r, 11)]

(* Texts: a word, or modifiers (in the order people write them) and a key. *)
Words == [disabled |-> "disabled", left |-> 1, right |-> 2, middle |-> 3, back |-> 4,
          forward |-> 5, up |-> 9, down |-> 10]
FlagNames == << <<1, "Ctrl">>, <<16, "RCtrl">>, <<2, "Shift">>, <<32, "RShift">>,
                <<4, "Alt">>, <<64, "RAlt">>, <<8, "Win">>, <<128, "RWin">> >>

(* Display; a key with no name is not read back, nor an unknown category.  *)
Display(bind) ==
  CASE bind.kind = "disabled" -> [word |-> "disabled"]
    [] bind.kind = "mouse" /\ bind.function \in MouseFunctions ->
         [word |-> CHOOSE w \in DOMAIN Words \ {"disabled"} : Words[w] = bind.function]
    [] bind.kind = "key" /\ UsageName(bind.usage) # Refused ->
         [mods |-> SelectSeq(FlagNames, LAMBDA f : f[1] \in bind.mods),
          key |-> UsageName(bind.usage)]
    [] OTHER -> Refused

(* parse_bind, of a word or of modifiers and a key: the left-hand          *)
(* modifiers only.                                                         *)
ParseBind(text, b) ==
  IF "word" \in DOMAIN text
  THEN IF text.word = "default" THEN DefaultFor(b)
       ELSE IF text.word = "disabled" THEN [kind |-> "disabled"]
       ELSE [kind |-> "mouse", function |-> Words[text.word]]
  ELSE LET flags == {text.mods[i][1] : i \in DOMAIN text.mods}
           usage == UsageFor(text.key) IN
         IF flags \subseteq {1, 2, 4, 8} /\ usage # Refused
         THEN [kind |-> "key", mods |-> flags, usage |-> usage] ELSE Refused
=============================================================================
