------------------------------ MODULE ValuesProofs ------------------------------
(***************************************************************************)
(* Proofs about Values, SettingsForm and Reports, for any table of mice,   *)
(* whatever its ranges, rates, zones, stored buttons and drawings, and for *)
(* any colors, actions, positions of the slider and binds.                 *)
(***************************************************************************)
EXTENDS Values, SequenceTheorems, FiniteSetTheorems, TLAPS

-----------------------------------------------------------------------------
(* Reports: what goes in comes out.                                        *)

LEMMA Sizes ==
  /\ MaxByte \in Nat /\ MaxByte > 254 /\ MaxByte < 256
  /\ MaxWord \in Nat /\ MaxWord > 65534 /\ MaxWord < 65536
BY DEF MaxByte, MaxWord

LEMMA HalvesOfWord ==
  \A v \in Word16 : High(v) \in 0 .. MaxByte /\ Low(v) \in 0 .. MaxByte /\ Word(High(v), Low(v)) = v
<1> SUFFICES ASSUME NEW v \in Nat, v < 65536
             PROVE  High(v) \in 0 .. MaxByte /\ Low(v) \in 0 .. MaxByte /\ Word(High(v), Low(v)) = v
  BY Sizes DEF Word16
<1>1. High(v) \in 0 .. MaxByte
  BY Sizes DEF High
<1>2. Low(v) \in 0 .. MaxByte
  BY Sizes DEF Low
<1>3. Word(High(v), Low(v)) = v
  BY DEF High, Low, Word
<1> QED
  BY <1>1, <1>2, <1>3

(* The bounds of a mouse of the table. *)
LEMMA Range16 ==
  ASSUME NEW m \in Mice
  PROVE  m.min \in Nat /\ m.max \in Nat /\ m.min <= m.max /\ m.max <= MaxWord
<1>1. m.min \in Word16 /\ m.max \in m.min .. MaxWord
  BY MiceAssumption DEF MouseOK
<1> QED
  BY <1>1, Sizes DEF Word16

LEMMA ReportFits ==
  ASSUME NEW class, NEW id, NEW size, NEW args, Len(args) \in 0 .. MaxArgs
  PROVE  Report(class, id, size, args) = [class |-> class, id |-> id, size |-> size, args |-> args]
<1>1. MaxArgs \in Nat
  BY DEF MaxArgs
<1>2. ~(Len(args) > MaxArgs)
  BY <1>1
<1> QED
  BY <1>2 DEF Report

LEMMA IsNoReport ==
  ASSUME NEW class \in Nat, NEW id \in Nat, NEW size \in Nat, NEW args \in Seq(Nat)
  PROVE  [class |-> class, id |-> id, size |-> size, args |-> args] # Refused
BY MarksAssumption

(* A DPI in the range is not refused, and both halves are answered.        *)
LEMMA DpiRoundTrip ==
  ASSUME NEW m \in Mice, NEW x \in m.min .. m.max, NEW y \in m.min .. m.max
  PROVE  /\ SetDpi(m, x, y) # Refused
         /\ SetDpi(m, x, y).args \in [1 .. 7 -> 0 .. MaxByte]
         /\ ParseDpi(Report(HexClass.dpi, 133, 7, SetDpi(m, x, y).args)) = <<x, y>>
<1> DEFINE bytes == <<0, High(x), Low(x), High(y), Low(y), 0, 0>>
<1>1. x \in Word16 /\ y \in Word16
  BY Range16, Sizes DEF Word16
<1>2. /\ High(x) \in 0 .. MaxByte /\ Low(x) \in 0 .. MaxByte /\ High(y) \in 0 .. MaxByte /\ Low(y) \in 0 .. MaxByte
      /\ Word(High(x), Low(x)) = x /\ Word(High(y), Low(y)) = y
  BY <1>1, HalvesOfWord
<1>3. bytes \in Seq(Nat) /\ Len(bytes) = 7 /\ DOMAIN bytes = 1 .. 7 /\ bytes \in [1 .. 7 -> 0 .. MaxByte]
  BY <1>2, Sizes
<1>4. SetDpi(m, x, y) = [class |-> 4, id |-> 5, size |-> 7, args |-> bytes]
  <2>1. SetDpi(m, x, y) = Report(4, 5, 7, bytes)
    BY DEF SetDpi, HexClass
  <2> HIDE DEF bytes
  <2> QED
    BY <1>3, <2>1, ReportFits DEF MaxArgs
<1>5. SetDpi(m, x, y) # Refused
  <2> HIDE DEF bytes
  <2> QED
    BY <1>3, <1>4, IsNoReport
<1>6. Report(HexClass.dpi, 133, 7, bytes) = [class |-> 4, id |-> 133, size |-> 7, args |-> bytes]
  <2> HIDE DEF bytes
  <2> QED
    BY <1>3, ReportFits DEF MaxArgs, HexClass
<1>7. ParseDpi(Report(HexClass.dpi, 133, 7, bytes)) = <<Word(bytes[2], bytes[3]), Word(bytes[4], bytes[5])>>
  <2> HIDE DEF bytes
  <2> QED
    BY <1>3, <1>6 DEF ParseDpi, Byte
<1> QED
  BY <1>2, <1>3, <1>4, <1>5, <1>7

LEMMA DpiInRange ==
  ASSUME NEW m, NEW x, NEW y, SetDpi(m, x, y) # Refused
  PROVE  x \in m.min .. m.max /\ y \in m.min .. m.max
BY DEF SetDpi

(* Two rates of a family have two codes. *)
LEMMA RateRoundTrip ==
  ASSUME NEW p \in {"classic", "extended"}, NEW hz \in DOMAIN RateByte(p)
  PROVE  RateByte(p)[hz] \in Nat /\ RateHz(p, RateByte(p)[hz]) = hz
<1>1. \A a \in DOMAIN RateByte(p) : RateByte(p)[a] \in Nat
  <2>1. CASE p = "classic"
    BY <2>1 DEF RateByte
  <2>2. CASE p = "extended"
    BY <2>2 DEF RateByte
  <2> QED
    BY <2>1, <2>2
<1>2. \A a, c \in DOMAIN RateByte(p) : RateByte(p)[a] = RateByte(p)[c] => a = c
  <2>1. CASE p = "classic"
    BY <2>1 DEF RateByte
  <2>2. CASE p = "extended"
    BY <2>2 DEF RateByte
  <2> QED
    BY <2>1, <2>2
<1> DEFINE codes == RateByte(p)
<1> HIDE DEF codes
<1>3. RateHz(p, codes[hz]) = CHOOSE a \in DOMAIN codes : codes[a] = codes[hz]
  BY DEF RateHz, codes
<1>4. \A a \in DOMAIN codes : codes[a] = codes[hz] => a = hz
  BY <1>2 DEF codes
<1>5. hz \in DOMAIN codes
  BY DEF codes
<1> QED
  BY <1>1, <1>3, <1>4, <1>5 DEF codes

(* A rate of the mouse is not refused, and its own family answers it.      *)
LEMMA PollingRoundTrip ==
  ASSUME NEW m \in Mice, NEW hz \in ToSet(m.rates)
  PROVE  /\ SetPolling(m, hz) # Refused
         /\ ParsePolling(m.protocol, Report(HexClass.polling, 133, 1, SetPolling(m, hz).args)) = hz
<1>1. m.protocol \in {"classic", "extended"} /\ m.rates \in Seq(DOMAIN RateByte(m.protocol))
  BY MiceAssumption DEF MouseOK
<1>2. PICK i \in DOMAIN m.rates : m.rates[i] = hz
  BY DEF ToSet
<1>3. hz \in DOMAIN RateByte(m.protocol)
  BY <1>1, <1>2
<1> DEFINE code == RateByte(m.protocol)[hz]
<1>4. code \in Nat /\ RateHz(m.protocol, code) = hz
  BY <1>1, <1>3, RateRoundTrip
<1>5. SetPolling(m, hz) = IF m.protocol = "classic" THEN Report(0, 5, 1, <<code>>)
                                                    ELSE Report(0, 64, 2, <<0, code>>)
  <2>1. ~ \A j \in DOMAIN m.rates : m.rates[j] # hz
    BY <1>2
  <2>2. m.protocol # "classic" => m.protocol = "extended"
    BY <1>1
  <2> QED
    BY <1>3, <2>1, <2>2 DEF SetPolling, HexClass
<1> HIDE DEF code
<1>6. CASE m.protocol = "classic"
  <2>1. <<code>> \in Seq(Nat) /\ Len(<<code>>) = 1 /\ DOMAIN <<code>> = 1 .. 1
    BY <1>4
  <2>2. SetPolling(m, hz) = [class |-> 0, id |-> 5, size |-> 1, args |-> <<code>>]
    BY <1>5, <1>6, <2>1, ReportFits DEF MaxArgs
  <2>3. Report(0, 133, 1, <<code>>) = [class |-> 0, id |-> 133, size |-> 1, args |-> <<code>>]
    BY <2>1, ReportFits DEF MaxArgs
  <2>4. SetPolling(m, hz) # Refused
    BY <2>1, <2>2, IsNoReport
  <2>5. Byte(Report(0, 133, 1, <<code>>), 8) = code
    BY <2>1, <2>3 DEF Byte
  <2> QED
    BY <1>4, <1>6, <2>2, <2>4, <2>5 DEF ParsePolling, HexClass
<1>7. CASE m.protocol = "extended"
  <2>1. <<0, code>> \in Seq(Nat) /\ Len(<<0, code>>) = 2 /\ DOMAIN <<0, code>> = 1 .. 2
    BY <1>4
  <2>2. SetPolling(m, hz) = [class |-> 0, id |-> 64, size |-> 2, args |-> <<0, code>>]
    BY <1>5, <1>7, <2>1, ReportFits DEF MaxArgs
  <2>3. Report(0, 133, 1, <<0, code>>) = [class |-> 0, id |-> 133, size |-> 1, args |-> <<0, code>>]
    BY <2>1, ReportFits DEF MaxArgs
  <2>4. SetPolling(m, hz) # Refused
    BY <2>1, <2>2, IsNoReport
  <2>5. Byte(Report(0, 133, 1, <<0, code>>), 9) = code
    BY <2>1, <2>3 DEF Byte
  <2> QED
    BY <1>4, <1>7, <2>2, <2>4, <2>5 DEF ParsePolling, HexClass
<1> QED
  BY <1>1, <1>6, <1>7

LEMMA PollingOfTheMouse ==
  ASSUME NEW m, NEW hz, SetPolling(m, hz) # Refused
  PROVE  hz \in ToSet(m.rates)
BY DEF SetPolling, ToSet

(* A bind that is not refused fits its report, and is read back as written. *)
LEMMA BindRoundTrip ==
  ASSUME NEW b \in Writable, NEW text,
         ParseBind(text, b) # Refused, WriteBinding(b, ParseBind(text, b)) # Refused
  PROVE  LET args == WriteBinding(b, ParseBind(text, b)).args IN
           /\ Len(args) <= 10
           /\ ParseBinding(Report(HexClass.keymap, 140, 10, args), b) = ParseBind(text, b)
<1> DEFINE bind == ParseBind(text, b)
           Disabled == [kind |-> "disabled"]
           Mouse(f) == [kind |-> "mouse", function |-> f]
           Key(mods, u) == [kind |-> "key", mods |-> mods, usage |-> u]
<1>1. \/ bind = Disabled
      \/ \E f : bind = Mouse(f)
      \/ \E mods, u : bind = Key(mods, u)
  BY DEF ParseBind, DefaultFor
<1>2. b \in Nat
  BY DEF Writable
<1> HIDE DEF bind
<1> DEFINE written == WriteBinding(b, bind)
           back(args) == ParseBinding(Report(HexClass.keymap, 140, 10, args), b)
           Goal == Len(written.args) <= 10 /\ back(written.args) = bind
<1>3. ASSUME bind = Disabled PROVE Goal
  <2> DEFINE args == <<1, b, 0, 0, 0>>
  <2>1. Len(args) = 5 /\ DOMAIN args = 1 .. 5
    BY <1>2
  <2>2. written = Report(2, 12, 10, args)
    BY <1>3 DEF WriteBinding, HexClass, bind
  <2>3. args[2] = b /\ args[4] = 0 /\ args[5] = 0
    BY <1>2
  <2> HIDE DEF args
  <2>4. written.args = args
    BY <2>1, <2>2, ReportFits DEF MaxArgs
  <2>5. Report(2, 140, 10, args) = [class |-> 2, id |-> 140, size |-> 10, args |-> args]
    BY <2>1, ReportFits DEF MaxArgs
  <2>6. back(args) = Disabled
    BY <2>1, <2>3, <2>5 DEF ParseBinding, Byte, HexClass
  <2>7. Len(written.args) <= 10
    <3>1. Len(written.args) = Len(args)
      BY <2>4, Zenon
    <3> HIDE DEF written
    <3> QED
      BY <2>1, <3>1
  <2>8. back(written.args) = bind
    BY <1>3, <2>4, <2>6, Zenon
  <2> QED
    BY <2>7, <2>8
<1>4. ASSUME NEW f, bind = Mouse(f) PROVE Goal
  <2> DEFINE args == <<1, b, 0, 1, 1, f>>
  <2>1. Len(args) = 6 /\ DOMAIN args = 1 .. 6
    BY <1>2
  <2>2. written = Report(2, 12, 10, args)
    <3>1. WriteBinding(b, Mouse(f)) # Refused
      BY <1>4 DEF bind
    <3>2. WriteBinding(b, Mouse(f)) = Report(2, 12, 10, args)
      BY <3>1 DEF WriteBinding, HexClass
    <3> QED
      BY <1>4, <3>2
  <2>3. args[2] = b /\ args[4] = 1 /\ args[5] = 1 /\ args[6] = f
    BY <1>2
  <2> HIDE DEF args
  <2>4. written.args = args
    BY <2>1, <2>2, ReportFits DEF MaxArgs
  <2>5. Report(2, 140, 10, args) = [class |-> 2, id |-> 140, size |-> 10, args |-> args]
    BY <2>1, ReportFits DEF MaxArgs
  <2>6. back(args) = Mouse(f)
    BY <2>1, <2>3, <2>5 DEF ParseBinding, Byte, HexClass
  <2>7. Len(written.args) <= 10
    <3>1. Len(written.args) = Len(args)
      BY <2>4, Zenon
    <3> HIDE DEF written
    <3> QED
      BY <2>1, <3>1
  <2>8. back(written.args) = bind
    BY <1>4, <2>4, <2>6, Zenon
  <2> QED
    BY <2>7, <2>8
<1>5. ASSUME NEW mods, NEW u, bind = Key(mods, u) PROVE Goal
  <2> DEFINE args == <<1, b, 0, 2, 2, mods, u>>
  <2>1. Len(args) = 7 /\ DOMAIN args = 1 .. 7
    BY <1>2
  <2>2. written = Report(2, 12, 10, args)
    <3>1. WriteBinding(b, Key(mods, u)) # Refused
      BY <1>5 DEF bind
    <3>2. WriteBinding(b, Key(mods, u)) = Report(2, 12, 10, args)
      BY <3>1 DEF WriteBinding, HexClass
    <3> QED
      BY <1>5, <3>2
  <2>3. args[2] = b /\ args[4] = 2 /\ args[5] = 2 /\ args[6] = mods /\ args[7] = u
    BY <1>2
  <2> HIDE DEF args
  <2>4. written.args = args
    BY <2>1, <2>2, ReportFits DEF MaxArgs
  <2>5. Report(2, 140, 10, args) = [class |-> 2, id |-> 140, size |-> 10, args |-> args]
    BY <2>1, ReportFits DEF MaxArgs
  <2>6. back(args) = Key(mods, u)
    BY <2>1, <2>3, <2>5 DEF ParseBinding, Byte, HexClass
  <2>7. Len(written.args) <= 10
    <3>1. Len(written.args) = Len(args)
      BY <2>4, Zenon
    <3> HIDE DEF written
    <3> QED
      BY <2>1, <3>1
  <2>8. back(written.args) = bind
    BY <1>5, <2>4, <2>6, Zenon
  <2> QED
    BY <2>7, <2>8
<1>6. Goal
  BY <1>1, <1>3, <1>4, <1>5
<1> QED
  BY <1>6 DEF bind

(* What a mouse comes with in its stored buttons is writable, too. *)
LEMMA DefaultIsWritten ==
  ASSUME NEW b \in Writable \ MainClicks
  PROVE  Len(WriteBinding(b, DefaultFor(b)).args) <= 10
<1>1. b \in {3, 4, 5, 9, 10}
  BY DEF Writable, MainClicks
<1>2. DefaultFor(b) = [kind |-> "mouse", function |-> b] /\ b \in MouseFunctions
  <2>1. b \in 1 .. 5 \cup {9, 10}
    BY <1>1
  <2> QED
    BY <1>1, <2>1 DEF DefaultFor, MouseFunctions
<1> DEFINE args == <<1, b, 0, 1, 1, b>>
<1>3. WriteBinding(b, DefaultFor(b)) = Report(2, 12, 10, args)
  BY <1>2 DEF WriteBinding, RebindsMainClick, HexClass
<1>4. Len(args) = 6
  BY <1>1
<1> HIDE DEF args
<1>5. WriteBinding(b, DefaultFor(b)).args = args
  BY <1>3, <1>4, ReportFits DEF MaxArgs
<1>6. Len(WriteBinding(b, DefaultFor(b)).args) = Len(args)
  BY <1>5, Zenon
<1> QED
  BY <1>4, <1>6

-----------------------------------------------------------------------------
(* Effects.                                                                *)

LEMMA EffectKinds ==
  ASSUME NEW kind \in Kinds, NEW color \in Colors \cup {BadColor}
  PROVE  /\ FromConfig(kind, color) \in TrayEffects \cup {None, Refused}
         /\ color \in Colors => FromConfig(kind, color) # Refused
         /\ FromConfig(kind, color) \notin {None, Refused} => FromConfig(kind, color).kind = IF kind = "none" THEN "off" ELSE kind
BY MarksAssumption DEF FromConfig, TrayEffects, Kinds

-----------------------------------------------------------------------------
(* The window's lists, its slider and the tray's menu.                     *)

LEMMA ClampIn ==
  ASSUME NEW v \in Int, NEW lo \in Int, NEW hi \in Int, lo <= hi
  PROVE  Clamp(v, lo, hi) \in lo .. hi
BY DEF Clamp

LEMMA SnapIsInt ==
  ASSUME NEW v \in Int
  PROVE  Snap50(v) \in Int
<1>1. (v + 25) \div 50 \in Int
  OBVIOUS
<1> QED
  BY <1>1 DEF Snap50, Clamp

(* Wherever the slider is let go of, the mouse takes the DPI. *)
LEMMA SliderInRange ==
  ASSUME NEW m \in Mice, NEW pos \in m.min .. m.max
  PROVE  /\ Slid(pos, m) \in m.min .. m.max
         /\ \A up \in BOOLEAN : Stepped(pos, up, m) \in m.min .. m.max
<1>1. m.min \in Int /\ m.max \in Int /\ m.min <= m.max
  BY Range16
<1>2. Snap50(pos) \in Int
  BY <1>1, SnapIsInt
<1>3. Slid(pos, m) \in m.min .. m.max
  BY <1>1, <1>2, ClampIn DEF Slid
<1>4. ASSUME NEW up \in BOOLEAN PROVE Stepped(pos, up, m) \in m.min .. m.max
  <2>1. Snap50(pos) + (IF up THEN 50 ELSE -50) \in Int
    BY <1>2
  <2> QED
    BY <1>1, <2>1, ClampIn DEF Stepped
<1> QED
  BY <1>3, <1>4

(* Every preset of the menu is a DPI of the mouse, and its item's id gives  *)
(* it back.                                                                 *)
LEMMA MenuRoundTrip ==
  ASSUME NEW m \in Mice, NEW d \in Presets(m)
  PROVE  d \in m.min .. m.max /\ IdDpi(MenuId(d)) = d
<1>1. m.min \in Nat /\ m.max \in Nat /\ m.min <= m.max /\ m.max < 65536
  BY Range16, Sizes
<1>2. d \in m.min .. m.max
  BY <1>1 DEF Presets
<1>3. DPI_FLAG \in Nat
  BY DEF DPI_FLAG
<1> QED
  BY <1>1, <1>2, <1>3 DEF IdDpi, MenuId

LEMMA IndexFound ==
  ASSUME NEW S, NEW values \in Seq(S), NEW v \in ToSet(values)
  PROVE  IndexIn(values, v) \in 0 .. Len(values) - 1 /\ values[IndexIn(values, v) + 1] = v
<1> DEFINE k == CHOOSE i \in DOMAIN values : values[i] = v
<1>1. \E i \in DOMAIN values : values[i] = v
  BY DEF ToSet
<1>2. k \in DOMAIN values /\ values[k] = v
  BY <1>1
<1>3. IndexIn(values, v) = k - 1
  BY DEF IndexIn
<1> HIDE DEF k
<1>4. k \in 1 .. Len(values)
  BY <1>2
<1> QED
  BY <1>2, <1>3, <1>4

LEMMA PresetTypes ==
  /\ ACTION_PRESETS \in Seq(ToSet(ACTION_PRESETS)) /\ "none" \in ToSet(ACTION_PRESETS)
  /\ EFFECT_PRESETS \in Seq(Kinds) /\ ToSet(EFFECT_PRESETS) = Kinds \ {"none"}
BY DEF ACTION_PRESETS, EFFECT_PRESETS, ToSet, Kinds

(* The list of a button offers actions only, the configured one is in it,  *)
(* and it opens there.                                                      *)
LEMMA ActionListed ==
  ASSUME NEW current \in Actions
  PROVE  /\ ActionValues(current) \in Seq(Actions)
         /\ ActionIndex(current) \in 0 .. Len(ActionValues(current)) - 1
         /\ ActionValues(current)[ActionIndex(current) + 1] = current
<1> DEFINE k == IndexIn(ACTION_PRESETS, "none") + 1
           others == RemoveAt(ACTION_PRESETS, k)
           presets == <<"none">> \o others
<1>1. ACTION_PRESETS \in Seq(Actions) /\ "none" \in Actions
  BY PresetTypes, StartsAssumption
<1>2. k \in 1 .. Len(ACTION_PRESETS)
  BY PresetTypes, IndexFound
<1>3. others \in Seq(Actions)
  <2>1. SubSeq(ACTION_PRESETS, 1, k - 1) \in Seq(Actions)
    BY <1>1, <1>2
  <2>2. SubSeq(ACTION_PRESETS, k + 1, Len(ACTION_PRESETS)) \in Seq(Actions)
    BY <1>1, <1>2
  <2> QED
    BY <2>1, <2>2 DEF RemoveAt
<1> HIDE DEF others
<1>4. presets \in Seq(Actions)
  BY <1>1, <1>3
<1> HIDE DEF presets
<1>5. ActionValues(current) = IF current \in ToSet(presets) THEN presets ELSE Append(presets, current)
  BY DEF ActionValues, presets, others
<1>6. ActionValues(current) \in Seq(Actions)
  BY <1>4, <1>5
<1>7. current \in ToSet(ActionValues(current))
  <2>1. CASE current \in ToSet(presets)
    BY <1>5, <2>1
  <2>2. CASE current \notin ToSet(presets)
    <3>1. ActionValues(current) = Append(presets, current)
      BY <1>5, <2>2
    <3>2. /\ Append(presets, current)[Len(presets) + 1] = current
          /\ Len(presets) + 1 \in DOMAIN Append(presets, current)
      BY <1>4
    <3> QED
      BY <3>1, <3>2 DEF ToSet
  <2> QED
    BY <2>1, <2>2
<1> QED
  BY <1>6, <1>7, IndexFound DEF ActionIndex

(* The list of rates opens on the configured one. *)
LEMMA RateListed ==
  ASSUME NEW m \in Mice, NEW rate \in {None} \cup ToSet(m.rates)
  PROVE  /\ PollingIndex(rate, m.rates) \in Nat
         /\ PollingChosen(PollingIndex(rate, m.rates), m.rates) = rate
<1>1. m.rates \in Seq(DOMAIN RateByte(m.protocol))
  BY MiceAssumption DEF MouseOK
<1>2. CASE rate = None
  BY <1>2 DEF PollingIndex, PollingChosen
<1>3. CASE rate # None
  <2>1. PollingIndex(rate, m.rates) = IndexIn(m.rates, rate) + 1
    BY <1>3 DEF PollingIndex
  <2>2. /\ IndexIn(m.rates, rate) \in 0 .. Len(m.rates) - 1
        /\ m.rates[IndexIn(m.rates, rate) + 1] = rate
    BY <1>1, <1>3, IndexFound
  <2> QED
    BY <1>1, <2>1, <2>2 DEF PollingChosen
<1> QED
  BY <1>2, <1>3

(* The list of effects opens on the configured one, unless that is "none". *)
LEMMA EffectListed ==
  /\ \A kind \in Kinds : /\ EffectIndex(kind) \in Nat
                         /\ kind # "none" => EffectChosen(EffectIndex(kind)) = kind
  /\ \A i \in 0 .. Len(EFFECT_PRESETS) - 1 : EffectChosen(i) \in Kinds
<1>1. ASSUME NEW kind \in Kinds, kind # "none"
      PROVE  EffectIndex(kind) \in Nat /\ EffectChosen(EffectIndex(kind)) = kind
  <2>1. kind \in ToSet(EFFECT_PRESETS)
    BY <1>1, PresetTypes
  <2> QED
    BY <2>1, PresetTypes, IndexFound DEF EffectIndex, EffectChosen
<1>2. EffectIndex("none") \in Nat
  <2>1. "none" \notin ToSet(EFFECT_PRESETS)
    BY PresetTypes
  <2> QED
    BY <2>1 DEF EffectIndex, IndexIn
<1>3. ASSUME NEW i \in 0 .. Len(EFFECT_PRESETS) - 1 PROVE EffectChosen(i) \in Kinds
  <2>1. EFFECT_PRESETS \in Seq(Kinds)
    BY PresetTypes
  <2> QED
    BY <2>1 DEF EffectChosen
<1> QED
  BY <1>1, <1>2, <1>3

-----------------------------------------------------------------------------
(* The inductive invariant: for each kind of setting, what the             *)
(* configuration says is accepted by its report, and once a session has    *)
(* applied it the mouse has what that report carries.                      *)

CfgType ==
  [dpi : Word16, dpiY : {None} \cup Word16, rate : {None} \cup Nat,
   lighting : Kinds, color : Colors \cup {BadColor},
   over : [Leds -> [lighting : Kinds \cup {None}, color : Colors \cup {None}]],
   up : Actions, onboard : [Stores -> {None} \cup {Display(d) : d \in Binds}]]

TypeInv ==
  /\ mouse \in Mice /\ cfg \in CfgType
  /\ device = [mode |-> device.mode, dpi |-> device.dpi, polling |-> device.polling,
               effect |-> device.effect, bind |-> device.bind]
  /\ attached \in BOOLEAN /\ failed = FALSE

ModeInv ==
  /\ device.mode \in {<<Hardware, 0>>, <<Driver, 0>>}
  /\ attached => device.mode = <<IF mouse.dpiButtons THEN Driver ELSE Hardware, 0>>

DpiInv ==
  /\ SetDpi(mouse, DpiXY[1], DpiXY[2]) # Refused
  /\ device.dpi \in [1 .. 7 -> 0 .. MaxByte]
  /\ attached => device.dpi = SetDpi(mouse, DpiXY[1], DpiXY[2]).args

RateInv ==
  cfg.rate # None =>
    /\ SetPolling(mouse, cfg.rate) # Refused
    /\ attached => device.polling = SetPolling(mouse, cfg.rate).args

EffectOf(led) == FromConfig(ZoneLighting(cfg, led), ZoneColor(cfg, led))
LightInv ==
  /\ device.effect = [led \in Leds |-> device.effect[led]]
  /\ \A led \in Leds :
       /\ EffectOf(led) # Refused
       /\ attached /\ EffectOf(led) # None =>
            device.effect[led] = Effect(led, EffectOf(led)).args

BindOf(b) == ParseBind(cfg.onboard[b], b)
BindInv ==
  /\ device.bind = [b \in Stores |-> device.bind[b]]
  /\ \A b \in Stores :
       /\ Len(device.bind[b]) <= 10
       /\ cfg.onboard[b] # None =>
            /\ BindOf(b) # Refused /\ WriteBinding(b, BindOf(b)) # Refused
            /\ attached => device.bind[b] = WriteBinding(b, BindOf(b)).args

CoreInv == TypeInv /\ ModeInv /\ DpiInv /\ RateInv /\ LightInv /\ BindInv

(* The window has a list that its chosen action is in, and shows what the  *)
(* configuration says.                                                     *)
WindowType ==
  [pos : mouse.min .. mouse.max, label : mouse.min .. mouse.max, rate : Nat,
   values : Seq(Actions), up : Nat, effect : [Leds -> Nat],
   color : [Leds -> Colors \cup {Green}]]
WindowInv ==
  /\ stale \in BOOLEAN
  /\ window # None =>
       /\ window \in WindowType /\ window.up < Len(window.values)
       /\ WindowShowsConfig

IInv == CoreInv /\ WindowInv

LEMMA StoresAreWritable ==
  ASSUME mouse \in Mice
  PROVE  Stores \subseteq Writable \ MainClicks
BY MiceAssumption DEF MouseOK, Stores, ToSet

LEMMA ModeArgs == \A mode : SetMode(mode).args = <<mode, 0>>
<1> SUFFICES ASSUME NEW mode PROVE SetMode(mode).args = <<mode, 0>>
  OBVIOUS
<1>1. Len(<<mode, 0>>) = 2
  OBVIOUS
<1>2. SetMode(mode) = Report(0, 4, 2, <<mode, 0>>)
  BY DEF SetMode, HexClass
<1> QED
  BY <1>1, <1>2, ReportFits DEF MaxArgs

LEMMA InitCore == Init => CoreInv
<1> SUFFICES ASSUME Init PROVE CoreInv
  OBVIOUS
<1>1. mouse \in Mice /\ ~attached /\ attached \in BOOLEAN /\ failed = FALSE /\ device = Factory
      /\ ValidFor(mouse, cfg)
  BY DEF Init
<1>2. cfg \in CfgType
  <2>1. PICK s \in Starts :
          cfg = [dpi |-> s.dpi, dpiY |-> s.dpiY, rate |-> s.rate, lighting |-> s.lighting,
                 color |-> s.color, up |-> s.up,
                 over |-> [led \in Leds |-> [lighting |-> None, color |-> None]],
                 onboard |-> [b \in Stores |-> None]]
    BY DEF Init
  <2>2. s \in [dpi : Word16, dpiY : {None} \cup Word16, rate : {None} \cup Nat,
               lighting : Kinds, color : Colors \cup {BadColor}, up : Actions]
    BY StartsAssumption
  <2>3. [led \in Leds |-> [lighting |-> None, color |-> None]]
          \in [Leds -> [lighting : Kinds \cup {None}, color : Colors \cup {None}]]
    OBVIOUS
  <2>4. [b \in Stores |-> None] \in [Stores -> {None} \cup {Display(d) : d \in Binds}]
    OBVIOUS
  <2> QED
    BY <2>1, <2>2, <2>3, <2>4 DEF CfgType
<1>3. TypeInv
  BY <1>1, <1>2 DEF TypeInv, Factory
<1>4. ModeInv
  BY <1>1, ModeArgs DEF ModeInv, Factory
<1>5. DpiInv
  <2>1. mouse.max \in mouse.min .. mouse.max
    BY <1>1, Range16
  <2>2. device.dpi \in [1 .. 7 -> 0 .. MaxByte]
    BY <1>1, <2>1, DpiRoundTrip DEF Factory
  <2> QED
    BY <1>1, <2>2 DEF DpiInv, DpiXY, ValidFor
<1>6. RateInv
  BY <1>1 DEF RateInv, ValidFor
<1>7. LightInv
  BY <1>1 DEF LightInv, ValidFor, EffectOf, Leds, Factory
<1>8. BindInv
  <2>1. device.bind = [b \in Stores |-> WriteBinding(b, DefaultFor(b)).args]
    BY <1>1 DEF Factory
  <2>2. \A b \in Stores : Len(device.bind[b]) <= 10
    BY <1>1, <2>1, StoresAreWritable, DefaultIsWritten
  <2>3. DOMAIN cfg.onboard = Stores
    BY <1>2 DEF CfgType
  <2> QED
    BY <1>1, <2>1, <2>2, <2>3 DEF BindInv, BindOf, ValidFor
<1> QED
  BY <1>3, <1>4, <1>5, <1>6, <1>7, <1>8 DEF CoreInv

-----------------------------------------------------------------------------
(* A session starts.                                                       *)

LEMMA AttachCore ==
  ASSUME CoreInv, Attach
  PROVE  CoreInv'
<1>0. PICK d \in {device, [device EXCEPT !.dpi = Factory.dpi, !.mode = Factory.mode]} :
        device' = Applied(cfg, d)
  BY DEF Attach
<1>1. mouse' = mouse /\ cfg' = cfg /\ failed' = failed /\ attached' = TRUE
  BY DEF Attach
<1>2. mouse \in Mice /\ cfg \in CfgType /\ failed = FALSE
  BY DEF CoreInv, TypeInv
<1>3. d.polling = device.polling /\ d.effect = device.effect /\ d.bind = device.bind
  BY DEF CoreInv, TypeInv
<1>4. /\ device'.mode = SetMode(IF mouse.dpiButtons THEN Driver ELSE Hardware).args
      /\ device'.dpi = SetDpi(mouse, DpiXY[1], DpiXY[2]).args
      /\ device'.polling = IF cfg.rate = None THEN d.polling ELSE SetPolling(mouse, cfg.rate).args
      /\ device'.effect = Lit(cfg, d) /\ device'.bind = Bound(cfg, d)
      /\ device' = [mode |-> device'.mode, dpi |-> device'.dpi, polling |-> device'.polling,
                    effect |-> device'.effect, bind |-> device'.bind]
  BY <1>0 DEF Applied
<1>5. Leds' = Leds /\ Stores' = Stores
  BY <1>1 DEF Leds, Stores
<1>6. TypeInv'
  BY <1>1, <1>2, <1>4, <1>5 DEF TypeInv, CfgType
<1>7. ModeInv'
  <2>1. device'.mode = <<IF mouse.dpiButtons THEN Driver ELSE Hardware, 0>>
    BY <1>4, ModeArgs
  <2> QED
    BY <1>1, <2>1 DEF ModeInv
<1>8. DpiInv'
  <2>1. DpiXY' = DpiXY
    BY <1>1 DEF DpiXY
  <2>2. SetDpi(mouse, DpiXY[1], DpiXY[2]) # Refused
    BY DEF CoreInv, DpiInv
  <2>3. device'.dpi \in [1 .. 7 -> 0 .. MaxByte]
    BY <1>2, <1>4, <2>2, DpiInRange, DpiRoundTrip
  <2> QED
    BY <1>1, <1>4, <2>1, <2>2, <2>3 DEF DpiInv
<1>9. RateInv'
  BY <1>1, <1>4 DEF RateInv, CoreInv
<1>10. LightInv'
  <2>1. \A led \in Leds : EffectOf(led)' = EffectOf(led) /\ EffectOf(led) # Refused
    BY <1>1 DEF EffectOf, ZoneLighting, ZoneColor, CoreInv, LightInv
  <2>2. device'.effect =
          [led \in Leds |-> IF EffectOf(led) \in {None, Refused} THEN d.effect[led]
                            ELSE Effect(led, EffectOf(led)).args]
    BY <1>4 DEF Lit, EffectOf
  <2> QED
    BY <1>1, <1>5, <2>1, <2>2 DEF LightInv
<1>11. BindInv'
  <2>1. \A b \in Stores : BindOf(b)' = BindOf(b)
    BY <1>1 DEF BindOf
  <2>2. device'.bind =
          [b \in Stores |-> IF cfg.onboard[b] = None THEN d.bind[b]
                            ELSE WriteBinding(b, BindOf(b)).args]
    BY <1>4 DEF Bound, BindOf
  <2>3. ASSUME NEW b \in Stores
        PROVE  /\ Len(device'.bind[b]) <= 10
               /\ cfg.onboard[b] # None =>
                    /\ BindOf(b) # Refused /\ WriteBinding(b, BindOf(b)) # Refused
                    /\ device'.bind[b] = WriteBinding(b, BindOf(b)).args
    <3>1. CASE cfg.onboard[b] = None
      BY <1>3, <2>2, <2>3, <3>1 DEF CoreInv, BindInv
    <3>2. CASE cfg.onboard[b] # None
      <4>1. BindOf(b) # Refused /\ WriteBinding(b, BindOf(b)) # Refused
        BY <2>3, <3>2 DEF CoreInv, BindInv
      <4>2. b \in Writable
        BY <1>2, StoresAreWritable
      <4>3. device'.bind[b] = WriteBinding(b, BindOf(b)).args
        BY <2>2, <3>2
      <4>4. Len(WriteBinding(b, BindOf(b)).args) <= 10
        BY <4>1, <4>2, BindRoundTrip DEF BindOf
      <4> QED
        BY <4>1, <4>3, <4>4
    <3> QED
      BY <3>1, <3>2
  <2>4. device'.bind = [b \in Stores |-> device'.bind[b]]
    BY <2>2
  <2> QED
    BY <1>1, <1>5, <2>1, <2>3, <2>4 DEF BindInv
<1> QED
  BY <1>6, <1>7, <1>8, <1>9, <1>10, <1>11 DEF CoreInv

-----------------------------------------------------------------------------
(* The parts of the invariant that a command leaves alone.                 *)

LEMMA ModeKept ==
  ASSUME ModeInv, mouse' = mouse, attached' = attached, device'.mode = device.mode
  PROVE  ModeInv'
BY DEF ModeInv

LEMMA DpiKept ==
  ASSUME DpiInv, mouse' = mouse, attached' = attached, device'.dpi = device.dpi,
         cfg'.dpi = cfg.dpi, cfg'.dpiY = cfg.dpiY
  PROVE  DpiInv'
<1>1. DpiXY' = DpiXY
  BY DEF DpiXY
<1> QED
  BY <1>1 DEF DpiInv

LEMMA RateKept ==
  ASSUME RateInv, mouse' = mouse, attached' = attached, device'.polling = device.polling,
         cfg'.rate = cfg.rate
  PROVE  RateInv'
BY DEF RateInv

LEMMA LightKept ==
  ASSUME LightInv, mouse' = mouse, attached' = attached, device'.effect = device.effect,
         cfg'.lighting = cfg.lighting, cfg'.color = cfg.color, cfg'.over = cfg.over
  PROVE  LightInv'
<1>1. Leds' = Leds /\ \A led \in Leds : EffectOf(led)' = EffectOf(led)
  BY DEF Leds, EffectOf, ZoneLighting, ZoneColor
<1> QED
  BY <1>1 DEF LightInv

LEMMA BindKept ==
  ASSUME BindInv, mouse' = mouse, attached' = attached, device'.bind = device.bind,
         cfg'.onboard = cfg.onboard
  PROVE  BindInv'
<1>1. Stores' = Stores /\ \A b \in Stores : BindOf(b)' = BindOf(b)
  BY DEF Stores, BindOf
<1> QED
  BY <1>1 DEF BindInv

(* The configuration that a command records is one, the mouse has the same *)
(* registers, and no command ends the session.                             *)
LEMMA TypeKept ==
  ASSUME TypeInv, mouse' = mouse, attached' = attached, failed' = failed, cfg' \in CfgType,
         device' = [mode |-> device'.mode, dpi |-> device'.dpi, polling |-> device'.polling,
                    effect |-> device'.effect, bind |-> device'.bind]
  PROVE  TypeInv'
<1>1. CfgType' = CfgType
  BY DEF CfgType, Leds, Stores
<1> QED
  BY <1>1 DEF TypeInv

LEMMA CoreUnchanged ==
  ASSUME CoreInv, UNCHANGED <<mouse, cfg, device, attached, failed>>
  PROVE  CoreInv'
<1>1. TypeInv'
  BY TypeKept DEF CoreInv, TypeInv
<1> QED
  BY <1>1, ModeKept, DpiKept, RateKept, LightKept, BindKept DEF CoreInv

-----------------------------------------------------------------------------
(* The commands.  A DPI of the mouse is not refused: it is sent for both   *)
(* axes, and the configuration has it for both.                            *)

LEMMA SetDpiToCore ==
  ASSUME CoreInv, NEW v \in mouse.min .. mouse.max,
         SetDpiTo(v), UNCHANGED <<mouse, attached>>
  PROVE  /\ CoreInv' /\ failed' = failed
         /\ cfg'.dpi = v /\ cfg'.rate = cfg.rate /\ cfg'.up = cfg.up
         /\ cfg'.lighting = cfg.lighting /\ cfg'.color = cfg.color /\ cfg'.over = cfg.over
<1>1. mouse \in Mice /\ cfg \in CfgType
  BY DEF CoreInv, TypeInv
<1>2. SetDpi(mouse, v, v) # Refused /\ SetDpi(mouse, v, v).args \in [1 .. 7 -> 0 .. MaxByte]
  BY <1>1, DpiRoundTrip
<1>3. /\ device' = [device EXCEPT !.dpi = SetDpi(mouse, v, v).args]
      /\ cfg' = [cfg EXCEPT !.dpi = v, !.dpiY = None]
      /\ failed' = failed
  BY <1>2 DEF SetDpiTo
<1> DEFINE args == SetDpi(mouse, v, v).args
<1>4. /\ device'.dpi = args /\ device'.mode = device.mode
      /\ device'.polling = device.polling /\ device'.effect = device.effect
      /\ device'.bind = device.bind
      /\ device' = [mode |-> device'.mode, dpi |-> device'.dpi, polling |-> device'.polling,
                    effect |-> device'.effect, bind |-> device'.bind]
  <2> HIDE DEF args
  <2>1. device' = [device EXCEPT !.dpi = args]
    BY <1>3 DEF args
  <2> QED
    BY <2>1 DEF CoreInv, TypeInv
<1>5. v \in Word16
  BY <1>1, Range16, Sizes DEF Word16
<1>6. /\ cfg' \in CfgType /\ cfg'.dpi = v /\ cfg'.dpiY = None
      /\ cfg'.rate = cfg.rate /\ cfg'.lighting = cfg.lighting /\ cfg'.color = cfg.color
      /\ cfg'.over = cfg.over /\ cfg'.up = cfg.up /\ cfg'.onboard = cfg.onboard
  BY <1>1, <1>3, <1>5 DEF CfgType
<1>7. TypeInv'
  BY <1>3, <1>4, <1>6, TypeKept DEF CoreInv
<1>8. DpiInv'
  <2>1. DpiXY' = <<v, v>>
    BY <1>6 DEF DpiXY
  <2> QED
    BY <1>2, <1>4, <2>1 DEF DpiInv
<1> QED
  BY <1>3, <1>4, <1>6, <1>7, <1>8, ModeKept, RateKept, LightKept, BindKept DEF CoreInv

LEMMA SetRateCore ==
  ASSUME CoreInv, NEW hz \in {None} \cup ToSet(mouse.rates),
         SetRate(hz), UNCHANGED <<mouse, attached>>
  PROVE  CoreInv' /\ cfg' = [cfg EXCEPT !.rate = hz] /\ UNCHANGED failed
<1>1. mouse \in Mice /\ cfg \in CfgType
  BY DEF CoreInv, TypeInv
<1>2. hz # None => SetPolling(mouse, hz) # Refused
  BY <1>1, PollingRoundTrip
<1>3. /\ device' = IF hz = None THEN device
                   ELSE [device EXCEPT !.polling = SetPolling(mouse, hz).args]
      /\ cfg' = [cfg EXCEPT !.rate = hz]
      /\ failed' = failed
  BY <1>2 DEF SetRate
<1>4. /\ hz # None => device'.polling = SetPolling(mouse, hz).args
      /\ device'.mode = device.mode /\ device'.dpi = device.dpi
      /\ device'.effect = device.effect /\ device'.bind = device.bind
      /\ device' = [mode |-> device'.mode, dpi |-> device'.dpi, polling |-> device'.polling,
                    effect |-> device'.effect, bind |-> device'.bind]
  BY <1>3 DEF CoreInv, TypeInv
<1>5. hz \in {None} \cup Nat
  <2>1. mouse.rates \in Seq(DOMAIN RateByte(mouse.protocol))
        /\ mouse.protocol \in {"classic", "extended"}
    BY <1>1, MiceAssumption DEF MouseOK
  <2>2. DOMAIN RateByte(mouse.protocol) \subseteq Nat
    BY DEF RateByte
  <2> QED
    BY <2>1, <2>2 DEF ToSet
<1>6. /\ cfg' \in CfgType /\ cfg'.rate = hz
      /\ cfg'.dpi = cfg.dpi /\ cfg'.dpiY = cfg.dpiY
      /\ cfg'.lighting = cfg.lighting /\ cfg'.color = cfg.color
      /\ cfg'.over = cfg.over /\ cfg'.onboard = cfg.onboard
  BY <1>1, <1>3, <1>5 DEF CfgType
<1>7. TypeInv'
  BY <1>3, <1>4, <1>6, TypeKept DEF CoreInv
<1>8. RateInv'
  BY <1>2, <1>4, <1>6 DEF RateInv
<1> QED
  BY <1>3, <1>4, <1>6, <1>7, <1>8, ModeKept, DpiKept, LightKept, BindKept DEF CoreInv

(* A preset of the tray is shown by every zone, and no zone has its own.   *)
LEMMA SetEffectCore ==
  ASSUME CoreInv, NEW e \in TrayEffects,
         SetEffect(e), UNCHANGED <<mouse, attached, failed>>
  PROVE  CoreInv'
<1>1. mouse \in Mice /\ cfg \in CfgType
  BY DEF CoreInv, TypeInv
<1> DEFINE lit == [led \in Leds |-> Effect(led, e).args]
           plain == [led \in Leds |-> [lighting |-> None, color |-> None]]
           color == IF e.kind \in {"static", "breathing"} THEN e.color ELSE cfg.color
<1>2. e.kind \in {"static", "breathing", "spectrum", "off"}
      /\ (e.kind \in {"static", "breathing"} => e.color \in Colors)
      /\ FromConfig(e.kind, color) = e
  <2>1. CASE e \in {[kind |-> "spectrum"], [kind |-> "off"]}
    BY <2>1 DEF FromConfig
  <2>2. CASE e \in [kind : {"static", "breathing"}, color : Colors]
    <3>1. e = [kind |-> e.kind, color |-> e.color] /\ e.color \in Colors
          /\ e.kind \in {"static", "breathing"} /\ e.color # BadColor
      BY <2>2, MarksAssumption
    <3> QED
      BY <3>1 DEF FromConfig
  <2> QED
    BY <2>1, <2>2 DEF TrayEffects
<1>3. /\ device' = [device EXCEPT !.effect = lit]
      /\ cfg' = [cfg EXCEPT !.lighting = e.kind, !.color = color, !.over = plain]
  BY <1>1 DEF SetEffect, CfgType
<1>4. /\ device'.effect = lit
      /\ device'.mode = device.mode /\ device'.dpi = device.dpi
      /\ device'.polling = device.polling /\ device'.bind = device.bind
      /\ device' = [mode |-> device'.mode, dpi |-> device'.dpi, polling |-> device'.polling,
                    effect |-> device'.effect, bind |-> device'.bind]
  <2> HIDE DEF lit
  <2> QED
    BY <1>3 DEF CoreInv, TypeInv
<1>5. plain \in [Leds -> [lighting : Kinds \cup {None}, color : Colors \cup {None}]]
      /\ color \in Colors \cup {BadColor} /\ e.kind \in Kinds
  BY <1>1, <1>2 DEF CfgType, Kinds
<1>6. /\ cfg' \in CfgType
      /\ cfg'.lighting = e.kind /\ cfg'.color = color /\ cfg'.over = plain
      /\ cfg'.dpi = cfg.dpi /\ cfg'.dpiY = cfg.dpiY /\ cfg'.rate = cfg.rate
      /\ cfg'.onboard = cfg.onboard
  <2> HIDE DEF color, plain
  <2> QED
    BY <1>1, <1>3, <1>5 DEF CfgType
<1>7. TypeInv'
  BY <1>4, <1>6, TypeKept DEF CoreInv
<1>8. LightInv'
  <2>1. \A led \in Leds : EffectOf(led)' = e
    BY <1>2, <1>6 DEF EffectOf, ZoneLighting, ZoneColor
  <2>2. Leds' = Leds
    BY DEF Leds
  <2>3. e # Refused
    BY MarksAssumption
  <2>4. device'.effect = [led \in Leds |-> device'.effect[led]]
    BY <1>4
  <2>5. \A led \in Leds : device'.effect[led] = Effect(led, e).args
    BY <1>4
  <2> QED
    BY <2>1, <2>2, <2>3, <2>4, <2>5 DEF LightInv
<1> QED
  BY <1>4, <1>6, <1>7, <1>8, ModeKept, DpiKept, RateKept, BindKept DEF CoreInv

(* What a zone shows of its own, and the other zones. *)
LEMMA ZoneShows ==
  ASSUME CoreInv, NEW led \in Leds, UNCHANGED <<mouse, attached>>,
         device' \in {device, [device EXCEPT !.effect[led] = device'.effect[led]]},
         EffectOf(led)' # Refused,
         attached /\ EffectOf(led)' # None =>
           device'.effect[led] = Effect(led, EffectOf(led)').args,
         \A other \in Leds \ {led} : EffectOf(other)' = EffectOf(other)
  PROVE  LightInv'
<1>1. Leds' = Leds
  BY DEF Leds
<1>2. device = [mode |-> device.mode, dpi |-> device.dpi, polling |-> device.polling,
                effect |-> device.effect, bind |-> device.bind]
      /\ device.effect = [l \in Leds |-> device.effect[l]]
  BY DEF CoreInv, TypeInv, LightInv
<1>3. /\ device'.effect = [l \in Leds |-> device'.effect[l]]
      /\ \A other \in Leds \ {led} : device'.effect[other] = device.effect[other]
  <2>1. CASE device' = device
    BY <1>2, <2>1
  <2>2. CASE device' = [device EXCEPT !.effect[led] = device'.effect[led]]
    <3> DEFINE e == device'.effect[led]
    <3>1. device' = [device EXCEPT !.effect[led] = e]
      BY <2>2
    <3> HIDE DEF e
    <3>2. device'.effect = [device.effect EXCEPT ![led] = e]
      BY <1>2, <3>1
    <3>3. device'.effect = [l \in Leds |-> IF l = led THEN e ELSE device.effect[l]]
      BY <1>2, <3>2
    <3> QED
      BY <3>3
  <2> QED
    BY <2>1, <2>2
<1>4. ASSUME NEW other \in Leds
      PROVE  /\ EffectOf(other)' # Refused
             /\ attached /\ EffectOf(other)' # None =>
                  device'.effect[other] = Effect(other, EffectOf(other)').args
  BY <1>3 DEF CoreInv, LightInv
<1> QED
  BY <1>1, <1>3, <1>4 DEF LightInv

(* A zone's own part of the configuration. *)
LEMMA ZoneCfg ==
  ASSUME cfg \in CfgType, NEW led \in Leds, NEW zone,
         zone \in [lighting : Kinds \cup {None}, color : Colors \cup {None}],
         cfg' = [cfg EXCEPT !.over = [cfg.over EXCEPT ![led] = zone]]
  PROVE  /\ cfg' \in CfgType
         /\ cfg'.dpi = cfg.dpi /\ cfg'.dpiY = cfg.dpiY /\ cfg'.rate = cfg.rate
         /\ cfg'.lighting = cfg.lighting /\ cfg'.color = cfg.color
         /\ cfg'.up = cfg.up /\ cfg'.onboard = cfg.onboard
         /\ cfg'.over[led] = zone
         /\ \A other \in Leds \ {led} : cfg'.over[other] = cfg.over[other]
<1> DEFINE Zones16 == [lighting : Kinds \cup {None}, color : Colors \cup {None}]
           over == [cfg.over EXCEPT ![led] = zone]
<1>1. cfg.over \in [Leds -> Zones16]
  BY DEF CfgType
<1>2. over \in [Leds -> Zones16] /\ over[led] = zone
      /\ \A other \in Leds \ {led} : over[other] = cfg.over[other]
  <2> HIDE DEF Zones16
  <2>1. zone \in Zones16
    BY DEF Zones16
  <2> QED
    BY <1>1, <2>1
<1> HIDE DEF over
<1>3. cfg' = [cfg EXCEPT !.over = over]
  BY DEF over
<1> QED
  BY <1>2, <1>3 DEF CfgType

LEMMA SetZoneKindCore ==
  ASSUME CoreInv, attached = TRUE, NEW led \in Leds, NEW kind \in Kinds,
         SetZoneKind(led, kind), UNCHANGED <<mouse, attached, failed>>
  PROVE  /\ CoreInv'
         /\ IF FromConfig(kind, ZoneColor(cfg, led)) = Refused THEN cfg' = cfg
            ELSE /\ cfg' = [cfg EXCEPT !.over = [cfg.over EXCEPT ![led] = cfg'.over[led]]]
                 /\ cfg'.over[led] = [lighting |-> kind, color |-> cfg.over[led].color]
<1>1. mouse \in Mice /\ cfg \in CfgType
  BY DEF CoreInv, TypeInv
<1> DEFINE e == FromConfig(kind, ZoneColor(cfg, led))
<1>2. CASE e = Refused
  BY <1>1, <1>2, CoreUnchanged DEF SetZoneKind
<1>3. CASE e # Refused
  <2> DEFINE zone == [lighting |-> kind, color |-> cfg.over[led].color]
  <2>1. cfg.over[led] \in [lighting : Kinds \cup {None}, color : Colors \cup {None}]
    BY <1>1 DEF CfgType
  <2>2. zone \in [lighting : Kinds \cup {None}, color : Colors \cup {None}]
    BY <2>1
  <2>3. cfg' = [cfg EXCEPT !.over = [cfg.over EXCEPT ![led] = zone]]
    <3>1. cfg' = [cfg EXCEPT !.over[led].lighting = kind]
      BY <1>3 DEF SetZoneKind
    <3>2. zone = [cfg.over[led] EXCEPT !.lighting = kind]
      BY <2>1
    <3> QED
      BY <3>1, <3>2
  <2> HIDE DEF zone
  <2>4. /\ cfg' \in CfgType
        /\ cfg'.dpi = cfg.dpi /\ cfg'.dpiY = cfg.dpiY /\ cfg'.rate = cfg.rate
        /\ cfg'.lighting = cfg.lighting /\ cfg'.color = cfg.color /\ cfg'.onboard = cfg.onboard
        /\ cfg'.over[led] = zone
        /\ \A other \in Leds \ {led} : cfg'.over[other] = cfg.over[other]
    BY <1>1, <2>2, <2>3, ZoneCfg
  <2>5. EffectOf(led)' = e
    <3>1. kind # None
      BY MarksAssumption
    <3>2. zone.lighting = kind /\ zone.color = cfg.over[led].color
      BY DEF zone
    <3> QED
      BY <2>4, <3>1, <3>2 DEF EffectOf, ZoneLighting, ZoneColor
  <2>6. device' = IF e = None THEN device
                  ELSE [device EXCEPT !.effect[led] = Effect(led, e).args]
    BY <1>3 DEF SetZoneKind
  <2> HIDE DEF e
  <2>7. /\ e # None => device'.effect[led] = Effect(led, e).args
        /\ device' \in {device, [device EXCEPT !.effect[led] = device'.effect[led]]}
        /\ device'.mode = device.mode /\ device'.dpi = device.dpi
        /\ device'.polling = device.polling /\ device'.bind = device.bind
        /\ device' = [mode |-> device'.mode, dpi |-> device'.dpi, polling |-> device'.polling,
                      effect |-> device'.effect, bind |-> device'.bind]
    <3>1. device.effect = [l \in Leds |-> device.effect[l]]
      BY DEF CoreInv, LightInv
    <3>2. device = [mode |-> device.mode, dpi |-> device.dpi, polling |-> device.polling,
                    effect |-> device.effect, bind |-> device.bind]
      BY DEF CoreInv, TypeInv
    <3>3. CASE e = None
      BY <2>6, <3>2, <3>3
    <3>4. CASE e # None
      <4> DEFINE args == Effect(led, e).args
      <4>1. device' = [device EXCEPT !.effect[led] = args]
        BY <2>6, <3>4
      <4> HIDE DEF args
      <4>2. device'.effect[led] = args
        BY <3>1, <3>2, <4>1
      <4> QED
        BY <3>2, <4>1, <4>2 DEF args
    <3> QED
      BY <3>3, <3>4
  <2>8. \A other \in Leds \ {led} : EffectOf(other)' = EffectOf(other)
    BY <2>4 DEF EffectOf, ZoneLighting, ZoneColor
  <2>9. LightInv'
    BY <1>3, <2>5, <2>7, <2>8, ZoneShows
  <2>10. TypeInv'
    BY <2>4, <2>7, TypeKept DEF CoreInv
  <2>11. CoreInv'
    BY <2>4, <2>7, <2>9, <2>10, ModeKept, DpiKept, RateKept, BindKept DEF CoreInv
  <2> QED
    BY <1>3, <2>3, <2>4, <2>11 DEF e, zone
<1> QED
  BY <1>2, <1>3

(* A color: where the zone's effect has none, it is as it was. *)
LEMMA SetZoneColorCore ==
  ASSUME CoreInv, attached = TRUE, NEW led \in Leds, NEW color \in Colors,
         SetZoneColor(led, color), UNCHANGED <<mouse, attached, failed>>
  PROVE  /\ CoreInv'
         /\ cfg' = [cfg EXCEPT !.over = [cfg.over EXCEPT ![led] = cfg'.over[led]]]
         /\ cfg'.over[led] = [lighting |-> cfg.over[led].lighting, color |-> color]
<1>1. mouse \in Mice /\ cfg \in CfgType
  BY DEF CoreInv, TypeInv
<1> DEFINE kind == ZoneLighting(cfg, led)
           e == FromConfig(kind, color)
           zone == [lighting |-> cfg.over[led].lighting, color |-> color]
<1>2. cfg.over[led] \in [lighting : Kinds \cup {None}, color : Colors \cup {None}]
  BY <1>1 DEF CfgType
<1>3. zone \in [lighting : Kinds \cup {None}, color : Colors \cup {None}]
  BY <1>2
<1>4. cfg' = [cfg EXCEPT !.over = [cfg.over EXCEPT ![led] = zone]]
  <2>1. cfg' = [cfg EXCEPT !.over[led].color = color]
    BY DEF SetZoneColor
  <2>2. zone = [cfg.over[led] EXCEPT !.color = color]
    BY <1>2
  <2> QED
    BY <2>1, <2>2
<1> HIDE DEF zone
<1>5. /\ cfg' \in CfgType
      /\ cfg'.dpi = cfg.dpi /\ cfg'.dpiY = cfg.dpiY /\ cfg'.rate = cfg.rate
      /\ cfg'.lighting = cfg.lighting /\ cfg'.color = cfg.color /\ cfg'.onboard = cfg.onboard
      /\ cfg'.over[led] = zone
      /\ \A other \in Leds \ {led} : cfg'.over[other] = cfg.over[other]
  BY <1>1, <1>3, <1>4, ZoneCfg
<1>6. kind \in Kinds
  BY <1>1, <1>2 DEF ZoneLighting, CfgType
<1>7. e # Refused
  BY <1>6, EffectKinds
<1>8. EffectOf(led)' = e
  <2>1. color # None
    BY MarksAssumption
  <2>2. zone.lighting = cfg.over[led].lighting /\ zone.color = color
    BY DEF zone
  <2> QED
    BY <1>5, <2>1, <2>2 DEF EffectOf, ZoneLighting, ZoneColor
<1>9. /\ e # None => device'.effect[led] = Effect(led, e).args
      /\ device' \in {device, [device EXCEPT !.effect[led] = device'.effect[led]]}
      /\ device'.mode = device.mode /\ device'.dpi = device.dpi
      /\ device'.polling = device.polling /\ device'.bind = device.bind
      /\ device' = [mode |-> device'.mode, dpi |-> device'.dpi, polling |-> device'.polling,
                    effect |-> device'.effect, bind |-> device'.bind]
  <2>1. device.effect = [l \in Leds |-> device.effect[l]]
    BY DEF CoreInv, LightInv
  <2>2. device = [mode |-> device.mode, dpi |-> device.dpi, polling |-> device.polling,
                  effect |-> device.effect, bind |-> device.bind]
    BY DEF CoreInv, TypeInv
  <2>3. device' = IF e = None \/ e.kind \in {"off", "spectrum"} THEN device
                  ELSE [device EXCEPT !.effect[led] = Effect(led, e).args]
    BY <1>7 DEF SetZoneColor
  <2>4. CASE e = None
    BY <2>2, <2>3, <2>4
  <2>5. CASE e # None /\ e.kind \in {"off", "spectrum"}
    <3>1. kind \in {"off", "spectrum", "none"}
      BY <1>6, <1>7, <2>5, EffectKinds DEF Kinds
    <3>2. EffectOf(led) = e
      BY <3>1 DEF FromConfig, EffectOf
    <3>3. device.effect[led] = Effect(led, e).args
      BY <2>5, <3>2 DEF CoreInv, LightInv
    <3>4. device' = device
      BY <2>3, <2>5
    <3> QED
      BY <2>2, <3>3, <3>4
  <2>6. CASE e # None /\ e.kind \notin {"off", "spectrum"}
    <3> DEFINE args == Effect(led, e).args
    <3>1. device' = [device EXCEPT !.effect[led] = args]
      BY <2>3, <2>6
    <3> HIDE DEF args
    <3>2. device'.effect[led] = args
      BY <2>1, <2>2, <3>1
    <3> QED
      BY <2>2, <3>1, <3>2 DEF args
  <2> QED
    BY <2>4, <2>5, <2>6
<1> HIDE DEF e
<1>10. \A other \in Leds \ {led} : EffectOf(other)' = EffectOf(other)
  BY <1>5 DEF EffectOf, ZoneLighting, ZoneColor
<1>11. LightInv'
  BY <1>7, <1>8, <1>9, <1>10, ZoneShows
<1>12. TypeInv'
  BY <1>5, <1>9, TypeKept DEF CoreInv
<1>13. CoreInv'
  BY <1>5, <1>9, <1>11, <1>12, ModeKept, DpiKept, RateKept, BindKept DEF CoreInv
<1> QED
  BY <1>4, <1>5, <1>13 DEF zone

LEMMA SetUpCore ==
  ASSUME CoreInv, NEW action \in Actions,
         SetUp(action), UNCHANGED <<mouse, attached, failed>>
  PROVE  CoreInv'
<1>1. cfg \in CfgType /\ cfg' = [cfg EXCEPT !.up = action] /\ device' = device
  BY DEF SetUp, CoreInv, TypeInv
<1>2. /\ cfg' \in CfgType
      /\ cfg'.dpi = cfg.dpi /\ cfg'.dpiY = cfg.dpiY /\ cfg'.rate = cfg.rate
      /\ cfg'.lighting = cfg.lighting /\ cfg'.color = cfg.color
      /\ cfg'.over = cfg.over /\ cfg'.onboard = cfg.onboard
  BY <1>1 DEF CfgType
<1>3. TypeInv'
  BY <1>1, <1>2, TypeKept DEF CoreInv, TypeInv
<1> QED
  BY <1>1, <1>2, <1>3, ModeKept, DpiKept, RateKept, LightKept, BindKept DEF CoreInv

(* A bind is written if it can be, and recorded if it was written. *)
LEMMA SetBindCore ==
  ASSUME CoreInv, NEW b \in Stores, NEW text \in {Display(d) : d \in Binds},
         SetBind(b, text), UNCHANGED <<mouse, attached, failed>>
  PROVE  /\ CoreInv' /\ cfg'.dpi = cfg.dpi /\ cfg'.rate = cfg.rate /\ cfg'.up = cfg.up
         /\ cfg'.lighting = cfg.lighting /\ cfg'.color = cfg.color /\ cfg'.over = cfg.over
<1>1. mouse \in Mice /\ cfg \in CfgType
  BY DEF CoreInv, TypeInv
<1> DEFINE bind == ParseBind(text, b)
           args == WriteBinding(b, bind).args
           Recorded == bind # Refused /\ WriteBinding(b, bind) # Refused
<1>2. CASE ~Recorded
  <2>1. cfg' = cfg /\ device' = device
    BY <1>2 DEF SetBind
  <2> QED
    BY <2>1, CoreUnchanged
<1>3. CASE Recorded
  <2>1. /\ cfg' = [cfg EXCEPT !.onboard[b] = text]
        /\ device' = [device EXCEPT !.bind[b] = args]
    BY <1>3 DEF SetBind
  <2>2. b \in Writable
    BY <1>1, StoresAreWritable
  <2>3. Len(args) <= 10
    BY <1>3, <2>2, BindRoundTrip
  <2> HIDE DEF args
  <2>4. /\ cfg' \in CfgType
        /\ cfg'.dpi = cfg.dpi /\ cfg'.dpiY = cfg.dpiY /\ cfg'.rate = cfg.rate
        /\ cfg'.lighting = cfg.lighting /\ cfg'.color = cfg.color
        /\ cfg'.over = cfg.over /\ cfg'.up = cfg.up
        /\ cfg'.onboard[b] = text
        /\ \A other \in Stores \ {b} : cfg'.onboard[other] = cfg.onboard[other]
    <3> DEFINE Texts == {None} \cup {Display(d) : d \in Binds}
               onboard == [cfg.onboard EXCEPT ![b] = text]
    <3>1. cfg.onboard \in [Stores -> Texts] /\ text \in Texts
      BY <1>1 DEF CfgType
    <3>2. cfg' = [cfg EXCEPT !.onboard = onboard]
      BY <2>1
    <3>3. onboard \in [Stores -> Texts] /\ onboard[b] = text
          /\ \A other \in Stores \ {b} : onboard[other] = cfg.onboard[other]
      <4> HIDE DEF Texts
      <4> QED
        BY <3>1
    <3> HIDE DEF onboard
    <3> QED
      BY <1>1, <3>2, <3>3 DEF CfgType
  <2>5. /\ device'.bind = [s \in Stores |-> IF s = b THEN args ELSE device.bind[s]]
        /\ device'.mode = device.mode /\ device'.dpi = device.dpi
        /\ device'.polling = device.polling /\ device'.effect = device.effect
        /\ device' = [mode |-> device'.mode, dpi |-> device'.dpi, polling |-> device'.polling,
                      effect |-> device'.effect, bind |-> device'.bind]
    <3>1. device = [mode |-> device.mode, dpi |-> device.dpi, polling |-> device.polling,
                    effect |-> device.effect, bind |-> device.bind]
          /\ device.bind = [s \in Stores |-> device.bind[s]]
      BY DEF CoreInv, TypeInv, BindInv
    <3>2. device'.bind = [device.bind EXCEPT ![b] = args]
      BY <2>1, <3>1
    <3>3. device'.bind = [s \in Stores |-> IF s = b THEN args ELSE device.bind[s]]
      BY <3>1, <3>2
    <3> QED
      BY <2>1, <3>1, <3>3
  <2>6. TypeInv'
    BY <2>4, <2>5, TypeKept DEF CoreInv
  <2>7. BindInv'
    <3>1. Stores' = Stores
      BY DEF Stores
    <3>2. BindOf(b)' = bind
      BY <2>4 DEF BindOf
    <3>3. \A other \in Stores \ {b} : BindOf(other)' = BindOf(other)
      BY <2>4 DEF BindOf
    <3>4. device'.bind = [s \in Stores |-> device'.bind[s]]
      BY <2>5
    <3>5. ASSUME NEW s \in Stores
          PROVE  /\ Len(device'.bind[s]) <= 10
                 /\ cfg'.onboard[s] # None =>
                      /\ BindOf(s)' # Refused /\ WriteBinding(s, BindOf(s)') # Refused
                      /\ attached => device'.bind[s] = WriteBinding(s, BindOf(s)').args
      <4>1. CASE s = b
        <5>1. device'.bind[s] = args
          BY <2>5, <4>1
        <5> QED
          BY <1>3, <2>3, <3>2, <4>1, <5>1 DEF args
      <4>2. CASE s # b
        <5>1. device'.bind[s] = device.bind[s]
          BY <2>5, <4>2
        <5> QED
          BY <2>4, <3>3, <4>2, <5>1 DEF CoreInv, BindInv
      <4> QED
        BY <4>1, <4>2
    <3> QED
      BY <3>1, <3>4, <3>5 DEF BindInv
  <2> QED
    BY <2>4, <2>5, <2>6, <2>7, ModeKept, DpiKept, RateKept, LightKept DEF CoreInv
<1> QED
  BY <1>2, <1>3

-----------------------------------------------------------------------------
(* The window.  What opens shows the configuration; what is chosen in it   *)
(* shows there and is recorded.                                            *)

LEMMA ZonesKept ==
  ASSUME cfg'.over = cfg.over, cfg'.lighting = cfg.lighting, cfg'.color = cfg.color
  PROVE  \A led : /\ ZoneLighting(cfg', led) = ZoneLighting(cfg, led)
                  /\ ZoneColor(cfg', led) = ZoneColor(cfg, led)
BY DEF ZoneLighting, ZoneColor

LEMMA WindowTypeKept ==
  ASSUME mouse' = mouse
  PROVE  WindowType' = WindowType
BY DEF WindowType, Leds

LEMMA ZoneTypes ==
  ASSUME cfg \in CfgType, NEW led \in Leds
  PROVE  ZoneLighting(cfg, led) \in Kinds /\ ZoneColor(cfg, led) \in Colors \cup {BadColor}
<1>1. cfg.over[led] \in [lighting : Kinds \cup {None}, color : Colors \cup {None}]
      /\ cfg.lighting \in Kinds /\ cfg.color \in Colors \cup {BadColor}
  BY DEF CfgType
<1> QED
  BY <1>1 DEF ZoneLighting, ZoneColor

LEMMA OpenStep ==
  ASSUME CoreInv, WindowInv, OpenSettings
  PROVE  CoreInv' /\ WindowInv'
<1>1. UNCHANGED <<mouse, cfg, device, attached, failed>> /\ stale' = FALSE
  BY DEF OpenSettings
<1>2. CoreInv'
  BY <1>1, CoreUnchanged
<1>3. mouse \in Mice /\ cfg \in CfgType
  BY DEF CoreInv, TypeInv
<1>4. cfg.dpi \in mouse.min .. mouse.max
  <2>1. DpiXY[1] \in mouse.min .. mouse.max
    BY DpiInRange DEF CoreInv, DpiInv
  <2> QED
    BY <2>1 DEF DpiXY
<1>5. Clamp(cfg.dpi, mouse.min, mouse.max) = cfg.dpi
  BY <1>3, <1>4, Range16 DEF Clamp
<1>6. cfg.rate \in {None} \cup ToSet(mouse.rates)
  BY PollingOfTheMouse DEF CoreInv, RateInv
<1>7. /\ PollingIndex(cfg.rate, mouse.rates) \in Nat
      /\ PollingChosen(PollingIndex(cfg.rate, mouse.rates), mouse.rates) = cfg.rate
  BY <1>3, <1>6, RateListed
<1>8. cfg.up \in Actions
  BY <1>3 DEF CfgType
<1>9. /\ ActionValues(cfg.up) \in Seq(Actions)
      /\ ActionIndex(cfg.up) \in Nat /\ ActionIndex(cfg.up) < Len(ActionValues(cfg.up))
      /\ ActionValues(cfg.up)[ActionIndex(cfg.up) + 1] = cfg.up
  <2>1. /\ ActionValues(cfg.up) \in Seq(Actions)
        /\ ActionIndex(cfg.up) \in 0 .. Len(ActionValues(cfg.up)) - 1
        /\ ActionValues(cfg.up)[ActionIndex(cfg.up) + 1] = cfg.up
    BY <1>8, ActionListed
  <2>2. Len(ActionValues(cfg.up)) \in Nat
    BY <2>1
  <2> QED
    BY <2>1, <2>2
<1> DEFINE effects == [led \in Leds |-> EffectIndex(ZoneLighting(cfg, led))]
           colors == [led \in Leds |-> Swatch(ZoneColor(cfg, led))]
           values == ActionValues(cfg.up)
           up == ActionIndex(cfg.up)
           rate == PollingIndex(cfg.rate, mouse.rates)
<1>10. effects \in [Leds -> Nat] /\ colors \in [Leds -> Colors \cup {Green}]
  BY <1>3, ZoneTypes, EffectListed DEF Swatch
<1>11. \A led \in Leds :
         /\ ZoneColor(cfg, led) # BadColor => colors[led] = ZoneColor(cfg, led)
         /\ ZoneLighting(cfg, led) # "none" => EffectChosen(effects[led]) = ZoneLighting(cfg, led)
  BY <1>3, ZoneTypes, EffectListed DEF Swatch
<1>12. window' = [pos |-> cfg.dpi, label |-> cfg.dpi, rate |-> rate, values |-> values, up |-> up,
                  effect |-> effects, color |-> colors]
  BY <1>5 DEF OpenSettings
<1> HIDE DEF effects, colors, values, up, rate
<1>13. window' \in WindowType /\ window'.up < Len(window'.values)
  BY <1>4, <1>7, <1>9, <1>10, <1>12 DEF WindowType, values, up, rate
<1>14. WindowShowsConfig'
  <2>1. /\ window'.label = cfg.dpi /\ window'.rate = rate /\ window'.values = values
        /\ window'.up = up /\ window'.effect = effects /\ window'.color = colors
    BY <1>12
  <2>2. cfg' = cfg /\ mouse' = mouse /\ Leds' = Leds
    BY <1>1 DEF Leds
  <2> QED
    BY <1>7, <1>9, <1>11, <2>1, <2>2 DEF WindowShowsConfig, values, up, rate
<1>15. WindowInv'
  BY <1>1, <1>13, <1>14, WindowTypeKept DEF WindowInv
<1> QED
  BY <1>2, <1>15

(* A DPI chosen in the window, from its slider or its buttons. *)
LEMMA DpiShown ==
  ASSUME CoreInv, WindowInv, window # None, NEW v \in mouse.min .. mouse.max,
         window' \in WindowType, window'.label = v, window'.rate = window.rate,
         window'.values = window.values, window'.up = window.up,
         window'.effect = window.effect, window'.color = window.color,
         SetDpiTo(v), UNCHANGED <<mouse, attached>>, UNCHANGED stale
  PROVE  CoreInv' /\ WindowInv'
<1>1. /\ CoreInv' /\ failed' = failed
      /\ cfg'.dpi = v /\ cfg'.rate = cfg.rate /\ cfg'.up = cfg.up
      /\ cfg'.lighting = cfg.lighting /\ cfg'.color = cfg.color /\ cfg'.over = cfg.over
  BY SetDpiToCore
<1>2. window.up < Len(window.values) /\ WindowShowsConfig
  BY DEF WindowInv
<1>3. WindowShowsConfig'
  <2>1. Leds' = Leds
    BY DEF Leds
  <2> QED
    BY <1>1, <1>2, <2>1, ZonesKept DEF WindowShowsConfig
<1> QED
  BY <1>1, <1>2, <1>3, WindowTypeKept DEF WindowInv

LEMMA SlideStep ==
  ASSUME CoreInv, WindowInv, NEW pos \in mouse.min .. mouse.max, Slide(pos)
  PROVE  CoreInv' /\ WindowInv'
<1>1. mouse \in Mice /\ window # None
  BY DEF CoreInv, TypeInv, Slide, InWindow
<1>2. Slid(pos, mouse) \in mouse.min .. mouse.max
  BY <1>1, SliderInRange
<1>3. PICK v \in mouse.min .. mouse.max : v = Slid(pos, mouse)
  BY <1>1, <1>2, SliderInRange
<1>4. /\ window # None /\ window' = [window EXCEPT !.pos = pos, !.label = v]
      /\ SetDpiTo(v) /\ UNCHANGED <<mouse, attached>> /\ UNCHANGED stale
  BY <1>3 DEF Slide, InWindow
<1>5. window \in WindowType
  BY <1>1 DEF WindowInv
<1>6. /\ window' \in WindowType /\ window'.label = v /\ window'.rate = window.rate
      /\ window'.values = window.values /\ window'.up = window.up
      /\ window'.effect = window.effect /\ window'.color = window.color
  BY <1>4, <1>5 DEF WindowType
<1> QED
  BY <1>4, <1>6, DpiShown

LEMMA StepStep ==
  ASSUME CoreInv, WindowInv, NEW up \in BOOLEAN, Step(up)
  PROVE  CoreInv' /\ WindowInv'
<1>1. mouse \in Mice /\ window # None
  BY DEF CoreInv, TypeInv, Step, InWindow
<1>2. window.pos \in mouse.min .. mouse.max
  BY <1>1 DEF WindowInv, WindowType
<1>3. PICK v \in mouse.min .. mouse.max : v = Stepped(window.pos, up, mouse)
  BY <1>1, <1>2, SliderInRange
<1>4. /\ window # None /\ window' = [window EXCEPT !.pos = v, !.label = v]
      /\ SetDpiTo(v) /\ UNCHANGED <<mouse, attached>> /\ UNCHANGED stale
  BY <1>3 DEF Step, InWindow
<1>5. window \in WindowType
  BY <1>1 DEF WindowInv
<1>6. /\ window' \in WindowType /\ window'.label = v /\ window'.rate = window.rate
      /\ window'.values = window.values /\ window'.up = window.up
      /\ window'.effect = window.effect /\ window'.color = window.color
  BY <1>4, <1>5 DEF WindowType
<1> QED
  BY <1>4, <1>6, DpiShown

LEMMA ChooseRateStep ==
  ASSUME CoreInv, WindowInv, NEW i \in 0 .. Len(mouse.rates), ChooseRate(i)
  PROVE  CoreInv' /\ WindowInv'
<1> DEFINE hz == PollingChosen(i, mouse.rates)
<1>1. mouse \in Mice /\ cfg \in CfgType
  BY DEF CoreInv, TypeInv
<1>2. hz \in {None} \cup ToSet(mouse.rates)
  <2>1. mouse.rates \in Seq(DOMAIN RateByte(mouse.protocol))
    BY <1>1, MiceAssumption DEF MouseOK
  <2>2. i # 0 => i \in DOMAIN mouse.rates
    BY <2>1
  <2> QED
    BY <2>2 DEF PollingChosen, ToSet
<1>3. /\ window # None /\ window' = [window EXCEPT !.rate = i] /\ SetRate(hz)
      /\ UNCHANGED <<mouse, attached, stale>>
  BY DEF ChooseRate, InWindow
<1>4. CoreInv' /\ cfg' = [cfg EXCEPT !.rate = hz] /\ UNCHANGED failed
  BY <1>2, <1>3, SetRateCore
<1>5. /\ cfg'.dpi = cfg.dpi /\ cfg'.rate = hz /\ cfg'.up = cfg.up
      /\ cfg'.lighting = cfg.lighting /\ cfg'.color = cfg.color /\ cfg'.over = cfg.over
  BY <1>1, <1>4 DEF CfgType
<1>6. window \in WindowType /\ window.up < Len(window.values) /\ WindowShowsConfig
  BY <1>3 DEF WindowInv
<1>7. i \in Nat
  OBVIOUS
<1>8. /\ window' \in WindowType
      /\ window'.label = window.label /\ window'.rate = i /\ window'.values = window.values
      /\ window'.up = window.up /\ window'.effect = window.effect /\ window'.color = window.color
  BY <1>3, <1>6, <1>7 DEF WindowType
<1>9. WindowShowsConfig'
  <2>1. Leds' = Leds /\ window # None
    BY <1>3 DEF Leds
  <2> QED
    BY <1>3, <1>4, <1>5, <1>6, <1>8, <2>1, ZonesKept DEF WindowShowsConfig
<1> QED
  BY <1>3, <1>4, <1>6, <1>8, <1>9, WindowTypeKept DEF WindowInv

LEMMA ChooseUpStep ==
  ASSUME CoreInv, WindowInv, NEW i \in Nat, ChooseUp(i)
  PROVE  CoreInv' /\ WindowInv'
<1>1. cfg \in CfgType
  BY DEF CoreInv, TypeInv
<1>2. /\ window # None /\ i < Len(window.values) /\ window' = [window EXCEPT !.up = i]
      /\ SetUp(window.values[i + 1]) /\ UNCHANGED <<mouse, attached, failed, stale>>
  BY DEF ChooseUp, InWindow
<1>3. window \in WindowType /\ WindowShowsConfig
  BY <1>2 DEF WindowInv
<1>4. window.values \in Seq(Actions)
  BY <1>3 DEF WindowType
<1>5. window.values[i + 1] \in Actions
  BY <1>2, <1>4
<1>6. CoreInv'
  BY <1>2, <1>5, SetUpCore
<1>7. /\ cfg'.dpi = cfg.dpi /\ cfg'.rate = cfg.rate /\ cfg'.up = window.values[i + 1]
      /\ cfg'.lighting = cfg.lighting /\ cfg'.color = cfg.color /\ cfg'.over = cfg.over
  BY <1>1, <1>2 DEF CfgType, SetUp
<1>8. /\ window' \in WindowType
      /\ window'.label = window.label /\ window'.rate = window.rate
      /\ window'.values = window.values
      /\ window'.up = i /\ window'.effect = window.effect /\ window'.color = window.color
  BY <1>2, <1>3 DEF WindowType
<1>9. WindowShowsConfig'
  <2>1. Leds' = Leds
    BY <1>2 DEF Leds
  <2> QED
    BY <1>2, <1>3, <1>7, <1>8, <2>1, ZonesKept DEF WindowShowsConfig
<1> QED
  BY <1>2, <1>6, <1>8, <1>9, WindowTypeKept DEF WindowInv

LEMMA ChooseEffectStep ==
  ASSUME CoreInv, WindowInv, NEW led \in Leds, NEW i \in 0 .. Len(EFFECT_PRESETS) - 1,
         ChooseEffect(led, i)
  PROVE  CoreInv' /\ WindowInv'
<1>1. /\ window # None /\ attached = TRUE /\ window' = [window EXCEPT !.effect[led] = i]
      /\ UNCHANGED <<mouse, attached, failed>>
  BY DEF ChooseEffect, InWindow, PlayedWith, CoreInv, TypeInv
<1>2. PICK kind \in Kinds : kind = EffectChosen(i)
  BY EffectListed
<1>3. /\ SetZoneKind(led, kind)
      /\ stale' = (stale \/ FromConfig(kind, ZoneColor(cfg, led)) = Refused)
  BY <1>2 DEF ChooseEffect
<1>4. /\ CoreInv'
      /\ IF FromConfig(kind, ZoneColor(cfg, led)) = Refused THEN cfg' = cfg
         ELSE /\ cfg' = [cfg EXCEPT !.over = [cfg.over EXCEPT ![led] = cfg'.over[led]]]
              /\ cfg'.over[led] = [lighting |-> kind, color |-> cfg.over[led].color]
  BY <1>1, <1>3, SetZoneKindCore
<1>5. window \in WindowType /\ window.up < Len(window.values) /\ WindowShowsConfig /\ stale \in BOOLEAN
  BY <1>1 DEF WindowInv
<1>6. i \in Nat
  OBVIOUS
<1>7. /\ window' \in WindowType /\ window'.label = window.label /\ window'.rate = window.rate
      /\ window'.values = window.values /\ window'.up = window.up
      /\ window'.color = window.color /\ window'.effect[led] = i
      /\ \A other \in Leds \ {led} : window'.effect[other] = window.effect[other]
  BY <1>1, <1>5, <1>6 DEF WindowType
<1>8. stale' \in BOOLEAN
  BY <1>3
<1>9. WindowShowsConfig'
  <2>1. CASE FromConfig(kind, ZoneColor(cfg, led)) = Refused
    <3>1. stale'
      BY <1>3, <2>1
    <3> QED
      BY <3>1 DEF WindowShowsConfig
  <2>2. CASE FromConfig(kind, ZoneColor(cfg, led)) # Refused
    <3> DEFINE zone == [lighting |-> kind, color |-> cfg.over[led].color]
    <3>1. cfg \in CfgType /\ Leds' = Leds
      BY <1>1 DEF CoreInv, TypeInv, Leds
    <3>2. cfg.over[led] \in [lighting : Kinds \cup {None}, color : Colors \cup {None}]
      BY <3>1 DEF CfgType
    <3>3. zone \in [lighting : Kinds \cup {None}, color : Colors \cup {None}]
      BY <3>2
    <3>4. cfg' = [cfg EXCEPT !.over = [cfg.over EXCEPT ![led] = zone]]
      BY <1>4, <2>2
    <3>5. zone.lighting = kind /\ zone.color = cfg.over[led].color
      OBVIOUS
    <3> HIDE DEF zone
    <3>6. /\ cfg'.dpi = cfg.dpi /\ cfg'.rate = cfg.rate /\ cfg'.up = cfg.up
          /\ cfg'.lighting = cfg.lighting /\ cfg'.color = cfg.color
          /\ cfg'.over[led] = zone
          /\ \A other \in Leds \ {led} : cfg'.over[other] = cfg.over[other]
      BY <3>1, <3>3, <3>4, ZoneCfg
    <3>7. /\ ZoneLighting(cfg', led) = kind /\ ZoneColor(cfg', led) = ZoneColor(cfg, led)
          /\ \A other \in Leds \ {led} : /\ ZoneLighting(cfg', other) = ZoneLighting(cfg, other)
                                         /\ ZoneColor(cfg', other) = ZoneColor(cfg, other)
      BY <3>5, <3>6, MarksAssumption DEF ZoneLighting, ZoneColor
    <3>8. stale' = stale
      BY <1>3, <1>5, <2>2
    <3> QED
      BY <1>1, <1>2, <1>5, <1>7, <3>1, <3>6, <3>7, <3>8 DEF WindowShowsConfig
  <2> QED
    BY <2>1, <2>2
<1> QED
  BY <1>1, <1>4, <1>5, <1>7, <1>8, <1>9, WindowTypeKept DEF WindowInv

LEMMA ChooseColorStep ==
  ASSUME CoreInv, WindowInv, NEW led \in Leds, NEW color \in Colors, ChooseColor(led, color)
  PROVE  CoreInv' /\ WindowInv'
<1>1. /\ window # None /\ attached = TRUE /\ window' = [window EXCEPT !.color[led] = color]
      /\ SetZoneColor(led, color)
      /\ UNCHANGED <<mouse, attached, failed>> /\ stale' = stale
  BY DEF ChooseColor, InWindow, PlayedWith, CoreInv, TypeInv
<1>2. /\ CoreInv'
      /\ cfg' = [cfg EXCEPT !.over = [cfg.over EXCEPT ![led] = cfg'.over[led]]]
      /\ cfg'.over[led] = [lighting |-> cfg.over[led].lighting, color |-> color]
  BY <1>1, SetZoneColorCore
<1>3. window \in WindowType /\ window.up < Len(window.values) /\ WindowShowsConfig
  BY <1>1 DEF WindowInv
<1>4. /\ window' \in WindowType /\ window'.label = window.label /\ window'.rate = window.rate
      /\ window'.values = window.values /\ window'.up = window.up
      /\ window'.effect = window.effect /\ window'.color[led] = color
      /\ \A other \in Leds \ {led} : window'.color[other] = window.color[other]
  BY <1>1, <1>3 DEF WindowType
<1>5. WindowShowsConfig'
  <2> DEFINE zone == [lighting |-> cfg.over[led].lighting, color |-> color]
  <2>1. cfg \in CfgType /\ Leds' = Leds
    BY <1>1 DEF CoreInv, TypeInv, Leds
  <2>2. cfg.over[led] \in [lighting : Kinds \cup {None}, color : Colors \cup {None}]
    BY <2>1 DEF CfgType
  <2>3. zone \in [lighting : Kinds \cup {None}, color : Colors \cup {None}]
    BY <2>2
  <2>4. cfg' = [cfg EXCEPT !.over = [cfg.over EXCEPT ![led] = zone]]
    BY <1>2
  <2>5. zone.lighting = cfg.over[led].lighting /\ zone.color = color
    OBVIOUS
  <2> HIDE DEF zone
  <2>6. /\ cfg'.dpi = cfg.dpi /\ cfg'.rate = cfg.rate /\ cfg'.up = cfg.up
        /\ cfg'.lighting = cfg.lighting /\ cfg'.color = cfg.color
        /\ cfg'.over[led] = zone
        /\ \A other \in Leds \ {led} : cfg'.over[other] = cfg.over[other]
    BY <2>1, <2>3, <2>4, ZoneCfg
  <2>7. /\ ZoneLighting(cfg', led) = ZoneLighting(cfg, led) /\ ZoneColor(cfg', led) = color
        /\ \A other \in Leds \ {led} : /\ ZoneLighting(cfg', other) = ZoneLighting(cfg, other)
                                       /\ ZoneColor(cfg', other) = ZoneColor(cfg, other)
    BY <2>5, <2>6, MarksAssumption DEF ZoneLighting, ZoneColor
  <2> QED
    BY <1>1, <1>3, <1>4, <2>1, <2>6, <2>7 DEF WindowShowsConfig
<1> QED
  BY <1>1, <1>2, <1>3, <1>4, <1>5, WindowTypeKept DEF WindowInv

(* A step that the window shows nothing of. *)
LEMMA WindowKept ==
  ASSUME WindowInv, window' = window, stale' = stale, mouse' = mouse, failed' = failed,
         cfg'.dpi = cfg.dpi, cfg'.rate = cfg.rate, cfg'.up = cfg.up,
         cfg'.lighting = cfg.lighting, cfg'.color = cfg.color, cfg'.over = cfg.over
  PROVE  WindowInv'
<1>1. CASE window = None
  BY <1>1 DEF WindowInv
<1>2. CASE window # None
  <2>1. Leds' = Leds
    BY DEF Leds
  <2>2. WindowShowsConfig'
    BY <1>2, <2>1, ZonesKept DEF WindowInv, WindowShowsConfig
  <2> QED
    BY <1>2, <2>2, WindowTypeKept DEF WindowInv
<1> QED
  BY <1>1, <1>2

LEMMA ChooseBindStep ==
  ASSUME CoreInv, WindowInv, NEW b \in Stores, NEW d \in Binds, ChooseBind(b, d)
  PROVE  CoreInv' /\ WindowInv'
<1>1. PICK text \in {Display(x) : x \in Binds} : text = Display(d)
  OBVIOUS
<1>2. /\ SetBind(b, text) /\ UNCHANGED <<mouse, attached, failed>>
      /\ window' = window /\ stale' = stale
  BY <1>1 DEF ChooseBind
<1>3. /\ CoreInv' /\ cfg'.dpi = cfg.dpi /\ cfg'.rate = cfg.rate /\ cfg'.up = cfg.up
      /\ cfg'.lighting = cfg.lighting /\ cfg'.color = cfg.color /\ cfg'.over = cfg.over
  BY <1>2, SetBindCore
<1> QED
  BY <1>2, <1>3, WindowKept

LEMMA TrayDpiStep ==
  ASSUME CoreInv, WindowInv, NEW d \in Presets(mouse), TrayDpi(d)
  PROVE  CoreInv' /\ WindowInv'
<1>1. mouse \in Mice
  BY DEF CoreInv, TypeInv
<1>2. PICK v \in mouse.min .. mouse.max : v = IdDpi(MenuId(d))
  BY <1>1, MenuRoundTrip
<1>3. /\ SetDpiTo(v) /\ UNCHANGED <<mouse, attached>>
      /\ window' = window /\ stale' = TRUE /\ mouse' = mouse
  <2>1. /\ SetDpiTo(IdDpi(MenuId(d))) /\ mouse' = mouse /\ attached' = attached
        /\ window' = window /\ stale' = TRUE
    BY DEF TrayDpi
  <2> QED
    BY <1>2, <2>1
<1>4. CoreInv'
  BY <1>3, SetDpiToCore
<1>5. WindowShowsConfig'
  BY <1>3 DEF WindowShowsConfig
<1> QED
  BY <1>3, <1>4, <1>5, WindowTypeKept DEF WindowInv

LEMMA TrayEffectStep ==
  ASSUME CoreInv, WindowInv, NEW e \in TrayEffects, TrayEffect(e)
  PROVE  CoreInv' /\ WindowInv'
<1>1. /\ SetEffect(e) /\ UNCHANGED <<mouse, attached, failed>>
      /\ window = None /\ window' = None /\ stale' = stale
  BY DEF TrayEffect
<1>2. CoreInv'
  BY <1>1, SetEffectCore
<1> QED
  BY <1>1, <1>2 DEF WindowInv

LEMMA InitInv == Init => IInv
<1> SUFFICES ASSUME Init PROVE IInv
  OBVIOUS
<1>1. CoreInv
  BY InitCore
<1>2. WindowInv
  BY DEF Init, WindowInv
<1> QED
  BY <1>1, <1>2 DEF IInv

LEMMA NextInv == IInv /\ [Next]_vars => IInv'
<1> SUFFICES ASSUME CoreInv, WindowInv, [Next]_vars PROVE CoreInv' /\ WindowInv'
  BY DEF IInv
<1>1. CASE UNCHANGED vars
  <2>1. UNCHANGED <<mouse, cfg, device, attached, failed>> /\ window' = window /\ stale' = stale
    BY <1>1 DEF vars
  <2>2. CoreInv'
    BY <2>1, CoreUnchanged
  <2> QED
    BY <2>1, <2>2, WindowKept
<1>2. CASE Attach
  <2>1. CoreInv'
    BY <1>2, AttachCore
  <2>2. WindowInv'
    BY <1>2, WindowKept DEF Attach
  <2> QED
    BY <2>1, <2>2
<1>3. CASE OpenSettings
  BY <1>3, OpenStep
<1>4. CASE CloseSettings
  <2>1. UNCHANGED <<mouse, cfg, device, attached, failed>> /\ window' = None /\ stale' = stale
    BY <1>4 DEF CloseSettings
  <2>2. CoreInv'
    BY <2>1, CoreUnchanged
  <2> QED
    BY <2>1, <2>2 DEF WindowInv
<1>5. ASSUME NEW pos \in Positions \cap (mouse.min .. mouse.max), Slide(pos)
      PROVE  CoreInv' /\ WindowInv'
  BY <1>5, SlideStep
<1>6. ASSUME NEW up \in BOOLEAN, Step(up) PROVE CoreInv' /\ WindowInv'
  BY <1>6, StepStep
<1>7. ASSUME NEW i \in 0 .. Len(mouse.rates), ChooseRate(i) PROVE CoreInv' /\ WindowInv'
  BY <1>7, ChooseRateStep
<1>8. ASSUME NEW i \in 0 .. Len(ACTION_PRESETS), ChooseUp(i) PROVE CoreInv' /\ WindowInv'
  BY <1>8, ChooseUpStep
<1>9. ASSUME NEW led \in Leds, NEW i \in 0 .. Len(EFFECT_PRESETS) - 1, ChooseEffect(led, i)
      PROVE  CoreInv' /\ WindowInv'
  BY <1>9, ChooseEffectStep
<1>10. ASSUME NEW led \in Leds, NEW color \in Colors, ChooseColor(led, color)
       PROVE  CoreInv' /\ WindowInv'
  BY <1>10, ChooseColorStep
<1>11. ASSUME NEW b \in Stores, NEW d \in Binds, ChooseBind(b, d) PROVE CoreInv' /\ WindowInv'
  BY <1>11, ChooseBindStep
<1>12. ASSUME NEW d \in Presets(mouse), TrayDpi(d) PROVE CoreInv' /\ WindowInv'
  BY <1>12, TrayDpiStep
<1>13. ASSUME NEW e \in TrayEffects, TrayEffect(e) PROVE CoreInv' /\ WindowInv'
  BY <1>13, TrayEffectStep
<1> QED
  BY <1>1, <1>2, <1>3, <1>4, <1>5, <1>6, <1>7, <1>8, <1>9, <1>10, <1>11, <1>12, <1>13 DEF Next

-----------------------------------------------------------------------------
(* What follows.                                                           *)

(* In every state of every run the configuration, the registers and the    *)
(* window hold what their fields may hold: the slider and its label are    *)
(* inside the range of the mouse (settings.rs:1649-1651), a DPI is in      *)
(* seven bytes and a bind in the ten that its report carries.              *)
THEOREM TypeCorrect == Spec => []TypeOK
<1>1. IInv => TypeOK
  <2> SUFFICES ASSUME IInv PROVE TypeOK
    OBVIOUS
  <2>1. /\ mouse \in Mice /\ cfg \in CfgType /\ attached \in BOOLEAN /\ failed \in BOOLEAN
        /\ stale \in BOOLEAN
    BY DEF IInv, CoreInv, TypeInv, WindowInv
  <2>2. device.mode[1] \in {Hardware, Driver}
    BY DEF IInv, CoreInv, ModeInv
  <2>3. \A i \in 1 .. 7 : device.dpi[i] \in 0 .. MaxByte
    BY DEF IInv, CoreInv, DpiInv
  <2>4. \A b \in Stores : Len(device.bind[b]) <= 10
    BY DEF IInv, CoreInv, BindInv
  <2>5. window # None =>
          window.pos \in mouse.min .. mouse.max /\ window.label \in mouse.min .. mouse.max
    BY DEF IInv, WindowInv, WindowType
  <2> QED
    BY <2>1, <2>2, <2>3, <2>4, <2>5 DEF TypeOK, CfgType
<1> QED
  BY <1>1, InitInv, NextInv, PTL DEF Spec

(* Once a session has applied the configuration, what the mouse answers is *)
(* what the configuration says, whatever was chosen since, in the window   *)
(* or from the tray: both halves of the DPI, the polling rate in the       *)
(* family of the mouse, the effect and color of each zone, every bind and  *)
(* the mode (menu.rs:168-310, lib.rs:288-560, keymap.rs:87-220).           *)
THEOREM AnswersConfig == Spec => []MouseAnswersConfig
<1>1. IInv => MouseAnswersConfig
  <2> SUFFICES ASSUME IInv, attached PROVE MouseAnswersConfig
    BY DEF MouseAnswersConfig
  <2>1. mouse \in Mice /\ attached = TRUE
    BY DEF IInv, CoreInv, TypeInv
  <2>2. ParseDpi(Report(HexClass.dpi, 133, 7, device.dpi)) = DpiXY
    <3>1. /\ SetDpi(mouse, DpiXY[1], DpiXY[2]) # Refused
          /\ device.dpi = SetDpi(mouse, DpiXY[1], DpiXY[2]).args
      BY <2>1 DEF IInv, CoreInv, DpiInv
    <3>2. ParseDpi(Report(HexClass.dpi, 133, 7, device.dpi)) = <<DpiXY[1], DpiXY[2]>>
      BY <2>1, <3>1, DpiInRange, DpiRoundTrip
    <3>3. DpiXY = <<DpiXY[1], DpiXY[2]>>
      BY DEF DpiXY
    <3> QED
      BY <3>2, <3>3
  <2>3. cfg.rate # None =>
          ParsePolling(mouse.protocol, Report(HexClass.polling, 133, 1, device.polling)) = cfg.rate
    <3> SUFFICES ASSUME cfg.rate # None
                 PROVE  ParsePolling(mouse.protocol, Report(HexClass.polling, 133, 1, device.polling))
                          = cfg.rate
      OBVIOUS
    <3>1. /\ SetPolling(mouse, cfg.rate) # Refused
          /\ device.polling = SetPolling(mouse, cfg.rate).args
      BY <2>1 DEF IInv, CoreInv, RateInv
    <3> QED
      BY <2>1, <3>1, PollingOfTheMouse, PollingRoundTrip
  <2>4. \A led \in Leds :
          LET e == FromConfig(ZoneLighting(cfg, led), ZoneColor(cfg, led)) IN
            e # None => e # Refused /\ device.effect[led] = Effect(led, e).args
    BY <2>1 DEF IInv, CoreInv, LightInv, EffectOf
  <2>5. \A b \in Stores :
          cfg.onboard[b] # None =>
            ParseBinding(Report(HexClass.keymap, 140, 10, device.bind[b]), b)
              = ParseBind(cfg.onboard[b], b)
    <3> SUFFICES ASSUME NEW b \in Stores, cfg.onboard[b] # None
                 PROVE  ParseBinding(Report(HexClass.keymap, 140, 10, device.bind[b]), b)
                          = ParseBind(cfg.onboard[b], b)
      OBVIOUS
    <3>1. /\ BindOf(b) # Refused /\ WriteBinding(b, BindOf(b)) # Refused
          /\ device.bind[b] = WriteBinding(b, BindOf(b)).args
      BY <2>1 DEF IInv, CoreInv, BindInv
    <3>2. b \in Writable
      BY <2>1, StoresAreWritable
    <3> QED
      BY <3>1, <3>2, BindRoundTrip DEF BindOf
  <2>6. ParseMode(Report(HexClass.mode, 132, 2, device.mode))
          = IF mouse.dpiButtons THEN Driver ELSE Hardware
    <3> DEFINE mode == IF mouse.dpiButtons THEN Driver ELSE Hardware
    <3>1. device.mode = <<mode, 0>>
      BY <2>1 DEF IInv, CoreInv, ModeInv
    <3> HIDE DEF mode
    <3>2. Len(<<mode, 0>>) = 2 /\ 1 \in DOMAIN <<mode, 0>>
      OBVIOUS
    <3>3. Report(0, 132, 2, <<mode, 0>>) = [class |-> 0, id |-> 132, size |-> 2, args |-> <<mode, 0>>]
      BY <3>2, ReportFits DEF MaxArgs
    <3>4. ParseMode(Report(0, 132, 2, <<mode, 0>>)) = mode
      BY <3>2, <3>3 DEF ParseMode, Byte
    <3> QED
      BY <3>1, <3>4 DEF HexClass, mode
  <2> QED
    BY <2>2, <2>3, <2>4, <2>5, <2>6 DEF MouseAnswersConfig
<1> QED
  BY <1>1, InitInv, NextInv, PTL DEF Spec

(* Whatever was chosen in the window since it opened, and in whatever      *)
(* order, its slider, its lists and its swatches show what the             *)
(* configuration says, though each list keeps values of its own beside the *)
(* entries (daemon.rs:88-158, 296-335); a color that is none shows as one. *)
THEOREM ShowsConfig == Spec => []WindowShowsConfig
<1>1. IInv => WindowShowsConfig
  BY DEF IInv, WindowInv, WindowShowsConfig
<1> QED
  BY <1>1, InitInv, NextInv, PTL DEF Spec

(* No choice that the slider, its buttons, the lists or the tray's menu    *)
(* offer, for any range and any rates of a mouse, ends a session on a      *)
(* refused value (settings.rs:1649-1651, menu.rs:17-68, 122-156).          *)
THEOREM NeverRefused == Spec => []NothingRefused
<1>1. IInv => NothingRefused
  BY DEF IInv, CoreInv, TypeInv, NothingRefused
<1> QED
  BY <1>1, InitInv, NextInv, PTL DEF Spec

-----------------------------------------------------------------------------
(* The form.  Within keeps the elements that are in a set, in their order. *)

LEMMA ImageSize ==
  ASSUME NEW n \in Nat, NEW f \in [1 .. n -> Nat],
         \A j, k \in 1 .. n : j < k => f[j] < f[k]
  PROVE  Cardinality({f[k] : k \in 1 .. n}) = n
<1> DEFINE T == {f[k] : k \in 1 .. n}
<1>1. f \in Bijection(1 .. n, T)
  <2>1. f \in [1 .. n -> T] /\ \A t \in T : \E k \in 1 .. n : f[k] = t
    OBVIOUS
  <2>2. \A j, k \in 1 .. n : f[j] = f[k] => j = k
    <3> SUFFICES ASSUME NEW j \in 1 .. n, NEW k \in 1 .. n, f[j] = f[k], j # k PROVE FALSE
      OBVIOUS
    <3>1. f[j] \in Nat /\ f[k] \in Nat /\ (j < k \/ k < j)
      OBVIOUS
    <3> QED
      BY <3>1
  <2> QED
    BY <2>1, <2>2 DEF Bijection, Injection, Surjection, IsInjective
<1>2. IsFiniteSet(1 .. n) /\ Cardinality(1 .. n) = n
  BY FS_Interval
<1> HIDE DEF T
<1>3. Cardinality(T) = Cardinality(1 .. n)
  BY <1>1, <1>2, FS_Bijection DEF ExistsBijection
<1> QED
  BY <1>2, <1>3 DEF T

(* f[k] is the place of the k-th of them. *)
Places(f, n, s, S) ==
  /\ n \in Nat /\ f \in [1 .. n -> Nat]
  /\ {i \in DOMAIN s : s[i] \in S} = {f[k] : k \in 1 .. n}
  /\ \A j, k \in 1 .. n : j < k => f[j] < f[k]

LEMMA WithinIs ==
  ASSUME NEW s, NEW S, NEW n, NEW f, Places(f, n, s, S)
  PROVE  /\ DOMAIN Within(s, S) = 1 .. n
         /\ Within(s, S) = [k \in 1 .. n |-> Within(s, S)[k]]
         /\ \A k \in 1 .. n : Within(s, S)[k] = s[f[k]]
<1>0. /\ n \in Nat /\ f \in [1 .. n -> Nat]
      /\ {i \in DOMAIN s : s[i] \in S} = {f[k] : k \in 1 .. n}
      /\ \A j, k \in 1 .. n : j < k => f[j] < f[k]
  BY DEF Places
<1> DEFINE kept == {i \in DOMAIN s : s[i] \in S}
<1>1. kept = {f[k] : k \in 1 .. n}
  BY <1>0
<1>2. Cardinality(kept) = n
  BY <1>0, <1>1, ImageSize
<1>3. ASSUME NEW k \in 1 .. n
      PROVE  Cardinality({j \in kept : j <= f[k]}) = k
  <2> DEFINE g == [j \in 1 .. k |-> f[j]]
  <2>1. {j \in kept : j <= f[k]} = {g[j] : j \in 1 .. k}
    <3>1. ASSUME NEW j \in 1 .. n PROVE f[j] <= f[k] <=> j \in 1 .. k
      <4>1. f[j] \in Nat /\ f[k] \in Nat
        BY <1>0
      <4>2. CASE j < k
        <5>1. f[j] < f[k]
          BY <1>0, <4>2
        <5> QED
          BY <4>1, <4>2, <5>1
      <4>3. CASE j = k
        BY <4>1, <4>3
      <4>4. CASE k < j
        <5>1. f[k] < f[j]
          BY <1>0, <4>4
        <5> QED
          BY <4>1, <4>4, <5>1
      <4> QED
        BY <4>2, <4>3, <4>4
    <3>2. \A j \in 1 .. k : j \in 1 .. n /\ g[j] = f[j]
      BY <1>0
    <3> HIDE DEF g, kept
    <3> QED
      BY <1>1, <3>1, <3>2
  <2>2. k \in Nat /\ g \in [1 .. k -> Nat] /\ \A i, j \in 1 .. k : i < j => g[i] < g[j]
    BY <1>0
  <2> HIDE DEF g, kept
  <2>3. Cardinality({g[j] : j \in 1 .. k}) = k
    BY <2>2, ImageSize
  <2> QED
    BY <2>1, <2>3
<1>4. Within(s, S) = [k \in 1 .. n |->
                        s[CHOOSE i \in kept : Cardinality({j \in kept : j <= i}) = k]]
  BY <1>2 DEF Within
<1> HIDE DEF kept
<1>5. ASSUME NEW k \in 1 .. n
      PROVE  (CHOOSE i \in kept : Cardinality({j \in kept : j <= i}) = k) = f[k]
  <2>1. f[k] \in kept /\ Cardinality({j \in kept : j <= f[k]}) = k
    BY <1>1, <1>3
  <2>2. ASSUME NEW i \in kept, Cardinality({j \in kept : j <= i}) = k PROVE i = f[k]
    <3>1. PICK h \in 1 .. n : i = f[h]
      BY <1>1
    <3>2. Cardinality({j \in kept : j <= i}) = h
      BY <1>3, <3>1
    <3> QED
      BY <2>2, <3>1, <3>2
  <2> QED
    BY <2>1, <2>2
<1> QED
  BY <1>4, <1>5

(* All of them, when all are in the set. *)
LEMMA WithinAll ==
  ASSUME NEW T, NEW s \in Seq(T), NEW S, \A i \in DOMAIN s : s[i] \in S
  PROVE  Within(s, S) = s
<1> DEFINE n == Len(s)
           f == [k \in 1 .. n |-> k]
<1>1. n \in Nat /\ DOMAIN s = 1 .. n /\ s = [k \in 1 .. n |-> s[k]]
  OBVIOUS
<1>2. Places(f, n, s, S) /\ \A k \in 1 .. n : f[k] = k
  <2>1. f \in [1 .. n -> Nat] /\ \A k \in 1 .. n : f[k] = k
    OBVIOUS
  <2> HIDE DEF n, f
  <2> QED
    BY <1>1, <2>1 DEF Places
<1> HIDE DEF n, f
<1>3. /\ Within(s, S) = [k \in 1 .. n |-> Within(s, S)[k]]
      /\ \A k \in 1 .. n : Within(s, S)[k] = s[k]
  BY <1>2, WithinIs
<1> QED
  BY <1>1, <1>3

(* Two lists with nothing in common, one after the other. *)
LEMMA ConcatOnce ==
  ASSUME NEW T, NEW s \in Seq(T), NEW t \in Seq(T), IsInjective(s), IsInjective(t),
         ToSet(s) \cap ToSet(t) = {}
  PROVE  /\ s \o t \in Seq(T) /\ IsInjective(s \o t)
         /\ ToSet(s \o t) = ToSet(s) \cup ToSet(t)
<1>1. /\ s \o t \in Seq(T) /\ DOMAIN (s \o t) = 1 .. Len(s) + Len(t)
      /\ \A i \in 1 .. Len(s) + Len(t) :
           (s \o t)[i] = IF i <= Len(s) THEN s[i] ELSE t[i - Len(s)]
  <2>1. /\ s \o t \in Seq(T) /\ Len(s \o t) = Len(s) + Len(t)
        /\ \A i \in 1 .. Len(s) + Len(t) :
             (s \o t)[i] = IF i <= Len(s) THEN s[i] ELSE t[i - Len(s)]
    BY ConcatProperties
  <2> DEFINE st == s \o t
  <2>2. st \in Seq(T) => DOMAIN st = 1 .. Len(st)
    <3> HIDE DEF st
    <3> QED
      OBVIOUS
  <2> QED
    BY <2>1, <2>2
<1>2. DOMAIN s = 1 .. Len(s) /\ DOMAIN t = 1 .. Len(t) /\ Len(s) \in Nat /\ Len(t) \in Nat
  OBVIOUS
<1> DEFINE st == s \o t
<1> HIDE DEF st
<1>3. /\ \A i \in 1 .. Len(s) : st[i] = s[i] /\ s[i] \in ToSet(s)
      /\ \A i \in DOMAIN st : i > Len(s) =>
           i - Len(s) \in 1 .. Len(t) /\ st[i] = t[i - Len(s)] /\ t[i - Len(s)] \in ToSet(t)
  BY <1>1, <1>2 DEF st, ToSet
<1>4. DOMAIN st = 1 .. Len(s) + Len(t)
  BY <1>1 DEF st
<1>5. IsInjective(st)
  <2> SUFFICES ASSUME NEW i \in DOMAIN st, NEW j \in DOMAIN st, st[i] = st[j] PROVE i = j
    BY DEF IsInjective
  <2>1. i \in Nat /\ j \in Nat /\ i >= 1 /\ j >= 1
    BY <1>2, <1>4
  <2>2. CASE i <= Len(s) /\ j <= Len(s)
    BY <1>2, <1>3, <2>1, <2>2 DEF IsInjective
  <2>3. CASE i > Len(s) /\ j > Len(s)
    <3>1. i - Len(s) = j - Len(s)
      BY <1>2, <1>3, <2>3 DEF IsInjective
    <3> QED
      BY <1>2, <2>1, <3>1
  <2>4. CASE i <= Len(s) /\ j > Len(s)
    BY <1>2, <1>3, <2>1, <2>4
  <2>5. CASE i > Len(s) /\ j <= Len(s)
    BY <1>2, <1>3, <2>1, <2>5
  <2> QED
    BY <1>2, <2>1, <2>2, <2>3, <2>4, <2>5
<1>6. ToSet(st) = ToSet(s) \cup ToSet(t)
  <2>1. ASSUME NEW x \in ToSet(st) PROVE x \in ToSet(s) \cup ToSet(t)
    <3>1. PICK i \in DOMAIN st : st[i] = x
      BY DEF ToSet
    <3>2. i \in 1 .. Len(s) \/ i > Len(s)
      BY <1>2, <1>4
    <3> QED
      BY <1>3, <3>1, <3>2
  <2>2. ASSUME NEW x \in ToSet(s) PROVE x \in ToSet(st)
    <3>1. PICK i \in 1 .. Len(s) : s[i] = x
      BY <1>2 DEF ToSet
    <3>2. i \in DOMAIN st /\ st[i] = x
      BY <1>2, <1>3, <1>4, <3>1
    <3> QED
      BY <3>2 DEF ToSet
  <2>3. ASSUME NEW x \in ToSet(t) PROVE x \in ToSet(st)
    <3>1. PICK i \in 1 .. Len(t) : t[i] = x
      BY <1>2 DEF ToSet
    <3>2. i + Len(s) \in DOMAIN st /\ i + Len(s) > Len(s) /\ (i + Len(s)) - Len(s) = i
      BY <1>2, <1>4
    <3>3. st[i + Len(s)] = x
      BY <1>3, <3>1, <3>2
    <3> QED
      BY <3>2, <3>3 DEF ToSet
  <2> QED
    BY <2>1, <2>2, <2>3
<1> QED
  BY <1>1, <1>5, <1>6 DEF st

-----------------------------------------------------------------------------
(* Every control once.                                                     *)

Names ==
  {"minus", "slider", "plus", "poll", "save", "up", "down", "back", "forward",
   "effect", "color", "button"}
Control == Names \X Nat

LEMMA ZoneCount ==
  ASSUME NEW m \in Mice
  PROVE  LET n == Smaller(Len(m.leds), MAX_ZONES) IN
           n \in Nat /\ n <= 16 /\ n <= Len(m.leds) /\ Len(m.leds) \in Nat /\ Zones(m) = 0 .. n - 1
<1>1. Len(m.leds) \in Nat
  BY MiceAssumption DEF MouseOK
<1> QED
  BY <1>1 DEF Smaller, MAX_ZONES, Zones

(* A zone's list of effects is before its swatch, and both are after those *)
(* of the zones before it.                                                 *)
LEMMA LightingParts ==
  ASSUME NEW m \in Mice
  PROVE  /\ Lighting(m) \in Seq(Control) /\ IsInjective(Lighting(m))
         /\ ToSet(Lighting(m)) = {"effect", "color"} \X Zones(m)
         /\ DOMAIN Lighting(m) = 1 .. 2 * Smaller(Len(m.leds), MAX_ZONES)
         /\ \A z \in Zones(m) : /\ 2 * z + 1 \in DOMAIN Lighting(m)
                                /\ Lighting(m)[2 * z + 1] = <<"effect", z>>
                                /\ 2 * z + 2 \in DOMAIN Lighting(m)
                                /\ Lighting(m)[2 * z + 2] = <<"color", z>>
         /\ \A k \in DOMAIN Lighting(m) : \E z \in Zones(m) : k = 2 * z + 1 \/ k = 2 * z + 2
<1> DEFINE n == Smaller(Len(m.leds), MAX_ZONES)
           at(k) == <<IF k % 2 = 1 THEN "effect" ELSE "color", (k - 1) \div 2>>
           l == Lighting(m)
<1>1. n \in Nat /\ Zones(m) = 0 .. n - 1
  BY ZoneCount
<1>2. l = [k \in 1 .. 2 * n |-> at(k)]
  BY DEF Lighting
<1> HIDE DEF n, l
<1>3. ASSUME NEW z \in Zones(m)
      PROVE  /\ 2 * z + 1 \in 1 .. 2 * n /\ at(2 * z + 1) = <<"effect", z>>
             /\ 2 * z + 2 \in 1 .. 2 * n /\ at(2 * z + 2) = <<"color", z>>
  <2>1. z \in Nat /\ z < n
    BY <1>1
  <2>2. /\ (2 * z + 1) % 2 = 1 /\ ((2 * z + 1) - 1) \div 2 = z
        /\ (2 * z + 2) % 2 = 0 /\ ((2 * z + 2) - 1) \div 2 = z
    BY <2>1
  <2> QED
    BY <1>1, <2>1, <2>2
<1>4. ASSUME NEW k \in 1 .. 2 * n
      PROVE  \E z \in Zones(m) : k = 2 * z + 1 \/ k = 2 * z + 2
  <2> DEFINE z == (k - 1) \div 2
  <2>1. z \in Nat /\ z < n /\ (k = 2 * z + 1 \/ k = 2 * z + 2)
    BY <1>1
  <2>2. z \in Zones(m)
    BY <1>1, <2>1
  <2> HIDE DEF z
  <2> QED
    BY <2>1, <2>2
<1> HIDE DEF at
<1>5. DOMAIN l = 1 .. 2 * n /\ \A k \in 1 .. 2 * n : l[k] = at(k)
  BY <1>2
<1>6. \A z \in Zones(m) : z \in Nat
  BY <1>1
<1> DEFINE Is(k, z) == \/ k = 2 * z + 1 /\ l[k] = <<"effect", z>>
                       \/ k = 2 * z + 2 /\ l[k] = <<"color", z>>
<1>7. \A k \in 1 .. 2 * n : \E z \in Zones(m) : Is(k, z)
  <2> SUFFICES ASSUME NEW k \in 1 .. 2 * n PROVE \E z \in Zones(m) : Is(k, z)
    OBVIOUS
  <2>1. PICK z \in Zones(m) : k = 2 * z + 1 \/ k = 2 * z + 2
    BY <1>4
  <2>2. Is(k, z)
    BY <1>3, <1>5, <2>1
  <2> HIDE DEF Is
  <2> QED
    BY <2>2
<1>8. l \in Seq(Control)
  <2>1. ASSUME NEW k \in 1 .. 2 * n PROVE l[k] \in Control
    <3> HIDE DEF Is
    <3>1. PICK z \in Zones(m) : Is(k, z)
      BY <1>7
    <3>2. <<"effect", z>> \in Control /\ <<"color", z>> \in Control
      BY <1>6 DEF Control, Names
    <3> QED
      BY <3>1, <3>2, Zenon DEF Is
  <2>2. 2 * n \in Nat /\ l = [k \in 1 .. 2 * n |-> l[k]]
    BY <1>1, <1>2, <1>5
  <2> QED
    BY <2>1, <2>2
<1>9. IsInjective(l)
  <2> SUFFICES ASSUME NEW j \in 1 .. 2 * n, NEW k \in 1 .. 2 * n, l[j] = l[k] PROVE j = k
    BY <1>5 DEF IsInjective
  <2> HIDE DEF Is
  <2>1. PICK y \in Zones(m) : Is(j, y)
    BY <1>7
  <2>2. PICK z \in Zones(m) : Is(k, z)
    BY <1>7
  <2> QED
    BY <2>1, <2>2 DEF Is
<1>10. ToSet(l) = {"effect", "color"} \X Zones(m)
  <2>1. ASSUME NEW c \in ToSet(l) PROVE c \in {"effect", "color"} \X Zones(m)
    <3> HIDE DEF Is
    <3>1. PICK k \in 1 .. 2 * n : l[k] = c
      BY <1>5 DEF ToSet
    <3>2. PICK z \in Zones(m) : Is(k, z)
      BY <1>7
    <3> QED
      BY <3>1, <3>2 DEF Is
  <2>2. ASSUME NEW z \in Zones(m) PROVE <<"effect", z>> \in ToSet(l) /\ <<"color", z>> \in ToSet(l)
    <3>1. /\ 2 * z + 1 \in DOMAIN l /\ l[2 * z + 1] = <<"effect", z>>
          /\ 2 * z + 2 \in DOMAIN l /\ l[2 * z + 2] = <<"color", z>>
      BY <1>3, <1>5
    <3> QED
      BY <3>1 DEF ToSet
  <2>3. ASSUME NEW c \in {"effect", "color"} \X Zones(m) PROVE c \in ToSet(l)
    <3>1. PICK name \in {"effect", "color"}, z \in Zones(m) : c = <<name, z>>
      OBVIOUS
    <3> QED
      BY <2>2, <3>1
  <2> QED
    BY <2>1, <2>3
<1> QED
  BY <1>3, <1>4, <1>5, <1>8, <1>9, <1>10 DEF l, n

LEMMA BoxesParts ==
  ASSUME NEW m \in Mice
  PROVE  /\ Boxes(m) \in Seq(Nat) /\ IsInjective(Boxes(m)) /\ Len(Boxes(m)) \in 0 .. MAX_ONBOARD
         /\ m.onboard = NoKeymap => Boxes(m) = <<>>
         /\ m.onboard # NoKeymap =>
              /\ DOMAIN Boxes(m) = 1 .. Smaller(Len(m.onboard), MAX_ONBOARD)
              /\ \A k \in DOMAIN Boxes(m) : Boxes(m)[k] = m.onboard[k]
<1>1. MAX_ONBOARD \in Nat
  BY DEF MAX_ONBOARD
<1>2. CASE m.onboard = NoKeymap
  <2>1. Boxes(m) = <<>>
    BY <1>2 DEF Boxes
  <2> QED
    BY <1>1, <1>2, <2>1 DEF IsInjective
<1>3. CASE m.onboard # NoKeymap
  <2> DEFINE s == m.onboard
             n == Smaller(Len(s), MAX_ONBOARD)
  <2>1. s \in Seq(Nat) /\ IsInjective(s)
    <3>1. s \in Seq(Writable \ MainClicks) /\ IsInjective(s)
      BY <1>3, MiceAssumption DEF MouseOK
    <3>2. Writable \ MainClicks \subseteq Nat
      BY DEF Writable
    <3> QED
      BY <3>1, <3>2
  <2>2. Boxes(m) = SubSeq(s, 1, n)
    BY <1>3 DEF Boxes
  <2> HIDE DEF s
  <2>3. n \in 0 .. Len(s) /\ n <= MAX_ONBOARD /\ Len(s) \in Nat
    BY <1>1, <2>1 DEF Smaller
  <2> HIDE DEF n
  <2>4. /\ SubSeq(s, 1, n) \in Seq(Nat) /\ Len(SubSeq(s, 1, n)) = n
        /\ DOMAIN SubSeq(s, 1, n) = 1 .. n /\ \A k \in 1 .. n : SubSeq(s, 1, n)[k] = s[k]
    BY <2>1, <2>3
  <2>5. IsInjective(SubSeq(s, 1, n))
    BY <2>1, <2>3, <2>4 DEF IsInjective
  <2> QED
    BY <1>1, <1>3, <2>2, <2>3, <2>4, <2>5 DEF n, s
<1> QED
  BY <1>2, <1>3

LEMMA StoredParts ==
  ASSUME NEW m \in Mice
  PROVE  /\ Stored(m) \in Seq(Control) /\ IsInjective(Stored(m))
         /\ ToSet(Stored(m)) = {<<"button", b>> : b \in ToSet(Boxes(m))}
         /\ Len(Stored(m)) = Len(Boxes(m))
<1> DEFINE s == Boxes(m)
<1>1. s \in Seq(Nat) /\ IsInjective(s)
  BY BoxesParts
<1>2. Stored(m) = [k \in DOMAIN s |-> <<"button", s[k]>>]
  BY DEF Stored
<1> HIDE DEF s
<1>3. DOMAIN s = 1 .. Len(s) /\ Len(s) \in Nat /\ \A k \in DOMAIN s : s[k] \in Nat
  BY <1>1
<1>4. DOMAIN Stored(m) = DOMAIN s /\ \A k \in DOMAIN s : Stored(m)[k] = <<"button", s[k]>>
  BY <1>2
<1>5. Stored(m) \in Seq(Control)
  BY <1>2, <1>3 DEF Control, Names
<1>6. IsInjective(Stored(m))
  BY <1>1, <1>4 DEF IsInjective
<1>7. ToSet(Stored(m)) = {<<"button", b>> : b \in ToSet(s)}
  BY <1>4 DEF ToSet
<1>8. Len(Stored(m)) = Len(s)
  <2> DEFINE t == Stored(m)
  <2>1. t \in Seq(Control) /\ DOMAIN t = 1 .. Len(s)
    BY <1>3, <1>4, <1>5
  <2> HIDE DEF t
  <2>2. Len(t) \in Nat /\ DOMAIN t = 1 .. Len(t)
    BY <2>1
  <2>3. \A a, b \in Nat : 1 .. a = 1 .. b => a = b
    OBVIOUS
  <2>4. Len(t) = Len(s)
    BY <1>3, <2>1, <2>2, <2>3
  <2> QED
    BY <2>4 DEF t
<1> QED
  BY <1>5, <1>6, <1>7, <1>8 DEF s

(* The lists with fixed controls, and an optional list. *)
LEMMA FixedParts ==
  /\ DpiButtons \in Seq(Control) /\ IsInjective(DpiButtons)
  /\ ToSet(DpiButtons) = {<<"up", 0>>, <<"down", 0>>} /\ Len(DpiButtons) = 2
  /\ Thumbs \in Seq(Control) /\ IsInjective(Thumbs)
  /\ ToSet(Thumbs) = {<<"back", 0>>, <<"forward", 0>>} /\ Len(Thumbs) = 2
<1>1. /\ DpiButtons \in Seq(Control) /\ DOMAIN DpiButtons = 1 .. 2 /\ Len(DpiButtons) = 2
      /\ DpiButtons[1] = <<"up", 0>> /\ DpiButtons[2] = <<"down", 0>>
  BY DEF DpiButtons, Control, Names
<1>2. /\ Thumbs \in Seq(Control) /\ DOMAIN Thumbs = 1 .. 2 /\ Len(Thumbs) = 2
      /\ Thumbs[1] = <<"back", 0>> /\ Thumbs[2] = <<"forward", 0>>
  BY DEF Thumbs, Control, Names
<1>3. IsInjective(DpiButtons) /\ ToSet(DpiButtons) = {<<"up", 0>>, <<"down", 0>>}
  BY <1>1 DEF IsInjective, ToSet
<1>4. IsInjective(Thumbs) /\ ToSet(Thumbs) = {<<"back", 0>>, <<"forward", 0>>}
  BY <1>2 DEF IsInjective, ToSet
<1> QED
  BY <1>1, <1>2, <1>3, <1>4

LEMMA OptionalParts ==
  ASSUME NEW p, NEW s \in Seq(Control), IsInjective(s)
  PROVE  /\ Optional(p, s) \in Seq(Control) /\ IsInjective(Optional(p, s))
         /\ ToSet(Optional(p, s)) = IF p THEN ToSet(s) ELSE {}
         /\ Len(Optional(p, s)) = IF p THEN Len(s) ELSE 0
<1>1. CASE p
  BY <1>1 DEF Optional
<1>2. CASE ~p
  <2>1. Optional(p, s) = <<>>
    BY <1>2 DEF Optional
  <2>2. <<>> \in Seq(Control) /\ DOMAIN <<>> = {} /\ Len(<<>>) = 0
    OBVIOUS
  <2> QED
    BY <1>2, <2>1, <2>2 DEF IsInjective, ToSet
<1> QED
  BY <1>1, <1>2

DpiSet == ToSet(DpiButtons)
ThumbSet == ToSet(Thumbs)
StoredSet(m) == ToSet(Stored(m))
LightSet(m) == ToSet(Lighting(m))
AtTop == << <<"minus", 0>>, <<"slider", 0>>, <<"plus", 0>>, <<"poll", 0>> >>
AtBottom == << <<"save", 0>> >>

LEMMA EndParts ==
  /\ AtTop \in Seq(Control) /\ IsInjective(AtTop)
  /\ ToSet(AtTop) = {<<"minus", 0>>, <<"slider", 0>>, <<"plus", 0>>, <<"poll", 0>>}
  /\ Len(AtTop) = 4
  /\ AtBottom \in Seq(Control) /\ IsInjective(AtBottom) /\ ToSet(AtBottom) = {<<"save", 0>>} /\ Len(AtBottom) = 1
<1>1. /\ AtTop \in Seq(Control) /\ DOMAIN AtTop = 1 .. 4 /\ Len(AtTop) = 4
      /\ AtTop[1] = <<"minus", 0>> /\ AtTop[2] = <<"slider", 0>>
      /\ AtTop[3] = <<"plus", 0>> /\ AtTop[4] = <<"poll", 0>>
  BY DEF AtTop, Control, Names
<1>2. /\ AtBottom \in Seq(Control) /\ DOMAIN AtBottom = 1 .. 1 /\ Len(AtBottom) = 1 /\ AtBottom[1] = <<"save", 0>>
  BY DEF AtBottom, Control, Names
<1>3. IsInjective(AtTop)
  BY <1>1 DEF IsInjective
<1>4. ToSet(AtTop) = {<<"minus", 0>>, <<"slider", 0>>, <<"plus", 0>>, <<"poll", 0>>}
  <2>1. ToSet(AtTop) = {AtTop[i] : i \in 1 .. 4}
    BY <1>1 DEF ToSet
  <2>2. {AtTop[i] : i \in 1 .. 4} = {AtTop[1], AtTop[2], AtTop[3], AtTop[4]}
    OBVIOUS
  <2> QED
    BY <1>1, <2>1, <2>2
<1>5. IsInjective(AtBottom)
  BY <1>2 DEF IsInjective
<1>6. ToSet(AtBottom) = {<<"save", 0>>}
  <2>1. ToSet(AtBottom) = {AtBottom[i] : i \in 1 .. 1}
    BY <1>2 DEF ToSet
  <2>2. {AtBottom[i] : i \in 1 .. 1} = {AtBottom[1]}
    OBVIOUS
  <2> QED
    BY <1>2, <2>1, <2>2
<1> QED
  BY <1>1, <1>2, <1>3, <1>4, <1>5, <1>6

(* Each list has names of its own. *)
LEMMA NamesApart ==
  ASSUME NEW m \in Mice
  PROVE  /\ \A c \in ToSet(AtTop) : c[1] \in {"minus", "slider", "plus", "poll"}
         /\ \A c \in ToSet(AtBottom) : c[1] = "save"
         /\ \A c \in DpiSet : c[1] \in {"up", "down"}
         /\ \A c \in ThumbSet : c[1] \in {"back", "forward"}
         /\ \A c \in StoredSet(m) : c[1] = "button"
         /\ \A c \in LightSet(m) : c[1] \in {"effect", "color"}
<1>1. \A c \in StoredSet(m) : c[1] = "button"
  BY StoredParts DEF StoredSet
<1>2. \A c \in LightSet(m) : c[1] \in {"effect", "color"}
  BY LightingParts DEF LightSet
<1>3. (\A c \in DpiSet : c[1] \in {"up", "down"}) /\ \A c \in ThumbSet : c[1] \in {"back", "forward"}
  BY FixedParts DEF DpiSet, ThumbSet
<1>4. /\ \A c \in ToSet(AtTop) : c[1] \in {"minus", "slider", "plus", "poll"}
      /\ \A c \in ToSet(AtBottom) : c[1] = "save"
  BY EndParts
<1> QED
  BY <1>1, <1>2, <1>3, <1>4

LEMMA ListsApart ==
  ASSUME NEW m \in Mice
  PROVE  /\ DpiSet \cap ThumbSet = {} /\ DpiSet \cap StoredSet(m) = {}
         /\ DpiSet \cap LightSet(m) = {} /\ ThumbSet \cap StoredSet(m) = {}
         /\ ThumbSet \cap LightSet(m) = {} /\ StoredSet(m) \cap LightSet(m) = {}
         /\ ToSet(AtTop) \cap (DpiSet \cup ThumbSet \cup StoredSet(m) \cup LightSet(m)) = {}
         /\ ToSet(AtBottom) \cap (DpiSet \cup ThumbSet \cup StoredSet(m) \cup LightSet(m)) = {}
         /\ ToSet(AtTop) \cap ToSet(AtBottom) = {}
BY NamesApart

LEMMA UnionApart ==
  ASSUME NEW A, NEW B, NEW C, A \cap C = {}, B \cap C = {}
  PROVE  (A \cup B) \cap C = {}
OBVIOUS

LEMMA FallbackParts ==
  ASSUME NEW m \in Mice
  PROVE  /\ Fallback(m) \in Seq(Control) /\ IsInjective(Fallback(m))
         /\ ToSet(Fallback(m)) =
              ((IF m.dpiButtons /\ ~DpiInDiagram(m) THEN DpiSet ELSE {})
                 \cup (IF ~OnboardInDiagram(m) THEN StoredSet(m) ELSE {}))
                 \cup (IF ShowThumbs(m) /\ ~ThumbInDiagram(m) THEN ThumbSet ELSE {})
<1> DEFINE a == Optional(m.dpiButtons /\ ~DpiInDiagram(m), DpiButtons)
           b == Optional(~OnboardInDiagram(m), Stored(m))
           c == Optional(ShowThumbs(m) /\ ~ThumbInDiagram(m), Thumbs)
<1>1. /\ a \in Seq(Control) /\ IsInjective(a)
      /\ ToSet(a) = IF m.dpiButtons /\ ~DpiInDiagram(m) THEN DpiSet ELSE {}
  BY FixedParts, OptionalParts DEF DpiSet
<1>2. /\ b \in Seq(Control) /\ IsInjective(b)
      /\ ToSet(b) = IF ~OnboardInDiagram(m) THEN StoredSet(m) ELSE {}
  BY StoredParts, OptionalParts DEF StoredSet
<1>3. /\ c \in Seq(Control) /\ IsInjective(c)
      /\ ToSet(c) = IF ShowThumbs(m) /\ ~ThumbInDiagram(m) THEN ThumbSet ELSE {}
  BY FixedParts, OptionalParts DEF ThumbSet
<1> DEFINE ab == a \o b
<1>4. Fallback(m) = ab \o c
  BY DEF Fallback
<1> HIDE DEF a, b, c
<1>5. ToSet(a) \cap ToSet(b) = {}
  BY <1>1, <1>2, ListsApart
<1>6. ab \in Seq(Control) /\ IsInjective(ab) /\ ToSet(ab) = ToSet(a) \cup ToSet(b)
  BY <1>1, <1>2, <1>5, ConcatOnce
<1> HIDE DEF ab
<1>7. ToSet(ab) \cap ToSet(c) = {}
  <2>1. ToSet(a) \cap ToSet(c) = {}
    BY <1>1, <1>3, ListsApart
  <2>2. ToSet(b) \cap ToSet(c) = {}
    BY <1>2, <1>3, ListsApart
  <2> QED
    BY <1>6, <2>1, <2>2, UnionApart
<1>8. /\ ab \o c \in Seq(Control) /\ IsInjective(ab \o c)
      /\ ToSet(ab \o c) = ToSet(ab) \cup ToSet(c)
  BY <1>3, <1>6, <1>7, ConcatOnce
<1> QED
  BY <1>1, <1>2, <1>3, <1>4, <1>6, <1>8

LEMMA HostedParts ==
  ASSUME NEW m \in Mice
  PROVE  /\ Hosted(m) \in Seq(Control) /\ IsInjective(Hosted(m))
         /\ ToSet(Hosted(m)) =
              (((IF DpiInDiagram(m) THEN DpiSet ELSE {})
                  \cup (IF ShowThumbs(m) /\ ThumbInDiagram(m) THEN ThumbSet ELSE {}))
                  \cup (IF OnboardInDiagram(m) THEN StoredSet(m) ELSE {}))
                  \cup (IF LightingInDiagram(m) THEN LightSet(m) ELSE {})
<1> DEFINE a == Optional(DpiInDiagram(m), DpiButtons)
           b == Optional(ShowThumbs(m) /\ ThumbInDiagram(m), Thumbs)
           c == Optional(OnboardInDiagram(m), Stored(m))
           d == Optional(LightingInDiagram(m), Lighting(m))
<1>1. /\ a \in Seq(Control) /\ IsInjective(a)
      /\ ToSet(a) = IF DpiInDiagram(m) THEN DpiSet ELSE {}
  BY FixedParts, OptionalParts DEF DpiSet
<1>2. /\ b \in Seq(Control) /\ IsInjective(b)
      /\ ToSet(b) = IF ShowThumbs(m) /\ ThumbInDiagram(m) THEN ThumbSet ELSE {}
  BY FixedParts, OptionalParts DEF ThumbSet
<1>3. /\ c \in Seq(Control) /\ IsInjective(c)
      /\ ToSet(c) = IF OnboardInDiagram(m) THEN StoredSet(m) ELSE {}
  BY StoredParts, OptionalParts DEF StoredSet
<1>4. /\ d \in Seq(Control) /\ IsInjective(d)
      /\ ToSet(d) = IF LightingInDiagram(m) THEN LightSet(m) ELSE {}
  BY LightingParts, OptionalParts DEF LightSet
<1> DEFINE ab == a \o b
           abc == ab \o c
<1>5. Hosted(m) = abc \o d
  BY DEF Hosted
<1> HIDE DEF a, b, c, d
<1>6. ToSet(a) \cap ToSet(b) = {}
  BY <1>1, <1>2, ListsApart
<1>7. ab \in Seq(Control) /\ IsInjective(ab) /\ ToSet(ab) = ToSet(a) \cup ToSet(b)
  BY <1>1, <1>2, <1>6, ConcatOnce
<1> HIDE DEF ab
<1>8. ToSet(ab) \cap ToSet(c) = {}
  <2>1. ToSet(a) \cap ToSet(c) = {}
    BY <1>1, <1>3, ListsApart
  <2>2. ToSet(b) \cap ToSet(c) = {}
    BY <1>2, <1>3, ListsApart
  <2> QED
    BY <1>7, <2>1, <2>2, UnionApart
<1>9. abc \in Seq(Control) /\ IsInjective(abc) /\ ToSet(abc) = ToSet(ab) \cup ToSet(c)
  BY <1>3, <1>7, <1>8, ConcatOnce
<1> HIDE DEF abc
<1>10. ToSet(abc) \cap ToSet(d) = {}
  <2>1. ToSet(a) \cap ToSet(d) = {}
    BY <1>1, <1>4, ListsApart
  <2>2. ToSet(b) \cap ToSet(d) = {}
    BY <1>2, <1>4, ListsApart
  <2>3. ToSet(c) \cap ToSet(d) = {}
    BY <1>3, <1>4, ListsApart
  <2>4. ToSet(ab) \cap ToSet(d) = {}
    BY <1>7, <2>1, <2>2, UnionApart
  <2> QED
    BY <1>9, <2>3, <2>4, UnionApart
<1>11. /\ abc \o d \in Seq(Control) /\ IsInjective(abc \o d)
       /\ ToSet(abc \o d) = ToSet(abc) \cup ToSet(d)
  BY <1>4, <1>9, <1>10, ConcatOnce
<1> QED
  BY <1>1, <1>2, <1>3, <1>4, <1>5, <1>7, <1>9, <1>11

(* What the drawing is chosen to host it has the slots of. *)
LEMMA MountedParts ==
  ASSUME NEW m \in Mice
  PROVE  Mounted(m) = Hosted(m)
<1> DEFINE h == Hosted(m)
           made == {c \in ToSet(h) : Slotted(m, {SlotOf(c)})}
<1>1. h \in Seq(Control)
  BY HostedParts
<1>2. ASSUME NEW c \in ToSet(h) PROVE Slotted(m, {SlotOf(c)})
  <2>1. CASE c \in DpiSet /\ DpiInDiagram(m)
    <3>1. SlotOf(c) \in {<<"up", 0>>, <<"down", 0>>}
      BY <2>1, FixedParts, NamesApart DEF SlotOf, DpiSet
    <3> QED
      BY <2>1, <3>1 DEF DpiInDiagram, Slotted
  <2>2. CASE c \in ThumbSet /\ ThumbInDiagram(m)
    <3>1. SlotOf(c) \in {<<"back", 0>>, <<"forward", 0>>}
      BY <2>2, FixedParts, NamesApart DEF SlotOf, ThumbSet
    <3> QED
      BY <2>2, <3>1 DEF ThumbInDiagram, Slotted
  <2>3. CASE c \in StoredSet(m) /\ OnboardInDiagram(m)
    <3>1. SlotOf(c) \in {<<"button", b>> : b \in ToSet(Boxes(m))}
      BY <2>3, StoredParts, NamesApart DEF SlotOf, StoredSet
    <3> QED
      BY <2>3, <3>1 DEF OnboardInDiagram, Slotted
  <2>4. CASE c \in LightSet(m) /\ LightingInDiagram(m)
    <3>1. c \in {"effect", "color"} \X Zones(m)
      BY <2>4, LightingParts DEF LightSet
    <3>2. SlotOf(c) \in {<<"zone", i>> : i \in Zones(m)}
      BY <3>1 DEF SlotOf
    <3> QED
      BY <2>4, <3>2 DEF LightingInDiagram, Slotted
  <2> QED
    BY <2>1, <2>2, <2>3, <2>4, HostedParts
<1>3. \A i \in DOMAIN h : h[i] \in made
  BY <1>2 DEF ToSet
<1>4. Mounted(m) = Within(h, made)
  BY DEF Mounted
<1> HIDE DEF h, made
<1>5. Within(h, made) = h
  BY <1>1, <1>3, WithinAll
<1> QED
  BY <1>4, <1>5 DEF h

(* l is in s, after its first base elements. *)
At(base, l, s) == \A k \in DOMAIN l : base + k \in DOMAIN s /\ s[base + k] = l[k]

LEMMA AtConcat ==
  ASSUME NEW l \in Seq(Control), NEW s \in Seq(Control), NEW t \in Seq(Control), NEW base \in Nat
  PROVE  /\ At(0, l, l)
         /\ At(base, l, s) => At(base, l, s \o t)
         /\ At(base, l, t) => At(Len(s) + base, l, s \o t)
<1> DEFINE st == s \o t
<1>1. /\ st \in Seq(Control) /\ DOMAIN st = 1 .. Len(s) + Len(t)
      /\ \A i \in 1 .. Len(s) + Len(t) : st[i] = IF i <= Len(s) THEN s[i] ELSE t[i - Len(s)]
  <2>1. /\ st \in Seq(Control) /\ Len(st) = Len(s) + Len(t)
        /\ \A i \in 1 .. Len(s) + Len(t) : st[i] = IF i <= Len(s) THEN s[i] ELSE t[i - Len(s)]
    BY ConcatProperties
  <2> HIDE DEF st
  <2>2. DOMAIN st = 1 .. Len(st)
    BY <2>1
  <2> QED
    BY <2>1, <2>2
<1>2. /\ DOMAIN s = 1 .. Len(s) /\ DOMAIN t = 1 .. Len(t) /\ Len(s) \in Nat /\ Len(t) \in Nat
      /\ DOMAIN l \subseteq Nat
  OBVIOUS
<1> HIDE DEF st
<1>3. At(0, l, l)
  BY <1>2 DEF At
<1>4. ASSUME At(base, l, s) PROVE At(base, l, st)
  <2> SUFFICES ASSUME NEW k \in DOMAIN l PROVE base + k \in DOMAIN st /\ st[base + k] = l[k]
    BY DEF At
  <2>1. base + k \in 1 .. Len(s) /\ s[base + k] = l[k]
    BY <1>2, <1>4 DEF At
  <2> QED
    BY <1>1, <1>2, <2>1
<1>5. ASSUME At(base, l, t) PROVE At(Len(s) + base, l, st)
  <2> SUFFICES ASSUME NEW k \in DOMAIN l
               PROVE  (Len(s) + base) + k \in DOMAIN st /\ st[(Len(s) + base) + k] = l[k]
    BY DEF At
  <2>1. base + k \in 1 .. Len(t) /\ t[base + k] = l[k]
    BY <1>2, <1>5 DEF At
  <2>2. \A a, b, n, i \in Int :
           a >= 0 /\ b + i \in 1 .. n =>
             (a + b) + i \in 1 .. a + n /\ (a + b) + i > a /\ ((a + b) + i) - a = b + i
    OBVIOUS
  <2>3. k \in Int /\ Len(s) \in Int /\ Len(t) \in Int /\ Len(s) >= 0 /\ base \in Int
    BY <1>2
  <2>4. /\ (Len(s) + base) + k \in 1 .. Len(s) + Len(t) /\ (Len(s) + base) + k > Len(s)
        /\ ((Len(s) + base) + k) - Len(s) = base + k
    BY <2>1, <2>2, <2>3
  <2> DEFINE j == (Len(s) + base) + k
  <2>5. j \in 1 .. Len(s) + Len(t) /\ ~(j <= Len(s)) /\ j - Len(s) = base + k
    BY <2>3, <2>4
  <2> HIDE DEF j
  <2>6. j \in DOMAIN st /\ st[j] = l[k]
    BY <1>1, <2>1, <2>5
  <2> QED
    BY <2>6 DEF j
<1> QED
  BY <1>3, <1>4, <1>5 DEF st

LEMMA HostedLighting ==
  ASSUME NEW m \in Mice, LightingInDiagram(m)
  PROVE  \E base \in Nat : At(base, Lighting(m), Hosted(m))
<1> DEFINE a == Optional(DpiInDiagram(m), DpiButtons)
           b == Optional(ShowThumbs(m) /\ ThumbInDiagram(m), Thumbs)
           c == Optional(OnboardInDiagram(m), Stored(m))
           abc == (a \o b) \o c
           l == Lighting(m)
<1>1. a \in Seq(Control) /\ b \in Seq(Control) /\ c \in Seq(Control) /\ l \in Seq(Control)
  BY FixedParts, StoredParts, LightingParts, OptionalParts
<1>2. Hosted(m) = abc \o l
  BY DEF Hosted, Optional
<1> HIDE DEF a, b, c, l
<1>3. abc \in Seq(Control)
  BY <1>1
<1> HIDE DEF abc
<1>4. At(0, l, l) /\ At(Len(abc) + 0, l, abc \o l)
  BY <1>1, <1>3, AtConcat
<1>5. Len(abc) + 0 \in Nat
  BY <1>3
<1> QED
  BY <1>2, <1>4, <1>5 DEF l

LEMMA ControlsParts ==
  ASSUME NEW m \in Mice
  PROVE  /\ Controls(m) \in Seq(Control) /\ IsInjective(Controls(m))
         /\ ToSet(Controls(m)) =
              (((ToSet(AtTop) \cup LightSet(m))
                  \cup (IF m.dpiButtons THEN DpiSet ELSE {}))
                  \cup (IF ShowThumbs(m) THEN ThumbSet ELSE {}))
                  \cup (StoredSet(m) \cup ToSet(AtBottom))
         /\ \E base \in Nat : At(base, Lighting(m), Controls(m))
<1> DEFINE o == Optional(~LightingInDiagram(m), Lighting(m))
           f == Fallback(m)
           h == Hosted(m)
           fo == AtTop \o o
           fof == fo \o f
           fofh == fof \o h
<1>1. AtTop \in Seq(Control) /\ IsInjective(AtTop)
  BY EndParts
<1>2. /\ o \in Seq(Control) /\ IsInjective(o)
      /\ ToSet(o) = IF ~LightingInDiagram(m) THEN LightSet(m) ELSE {}
  BY LightingParts, OptionalParts DEF LightSet
<1>3. /\ f \in Seq(Control) /\ IsInjective(f)
      /\ ToSet(f) =
              ((IF m.dpiButtons /\ ~DpiInDiagram(m) THEN DpiSet ELSE {})
                 \cup (IF ~OnboardInDiagram(m) THEN StoredSet(m) ELSE {}))
                 \cup (IF ShowThumbs(m) /\ ~ThumbInDiagram(m) THEN ThumbSet ELSE {})
  BY FallbackParts
<1>4. /\ h \in Seq(Control) /\ IsInjective(h)
      /\ ToSet(h) =
              (((IF DpiInDiagram(m) THEN DpiSet ELSE {})
                  \cup (IF ShowThumbs(m) /\ ThumbInDiagram(m) THEN ThumbSet ELSE {}))
                  \cup (IF OnboardInDiagram(m) THEN StoredSet(m) ELSE {}))
                  \cup (IF LightingInDiagram(m) THEN LightSet(m) ELSE {})
  BY HostedParts
<1>5. AtBottom \in Seq(Control) /\ IsInjective(AtBottom)
  BY EndParts
<1>6. Controls(m) = fofh \o AtBottom
  BY MountedParts DEF Controls, AtTop, AtBottom
<1>7. LightingInDiagram(m) => \E base \in Nat : At(base, Lighting(m), h)
  BY HostedLighting
<1>8. ~LightingInDiagram(m) => o = Lighting(m)
  BY DEF Optional
<1>9. Lighting(m) \in Seq(Control)
  BY LightingParts
<1> HIDE DEF o, f, h
<1>10. /\ ToSet(f) \subseteq (DpiSet \cup ThumbSet) \cup StoredSet(m)
       /\ ToSet(h) \subseteq ((DpiSet \cup ThumbSet) \cup StoredSet(m)) \cup LightSet(m)
       /\ ToSet(o) \subseteq LightSet(m)
  BY <1>2, <1>3, <1>4
<1>11. ToSet(AtTop) \cap ToSet(o) = {}
  BY <1>10, ListsApart
<1>12. fo \in Seq(Control) /\ IsInjective(fo) /\ ToSet(fo) = ToSet(AtTop) \cup ToSet(o)
  BY <1>1, <1>2, <1>11, ConcatOnce
<1>13. At(0, Lighting(m), o) => At(Len(AtTop) + 0, Lighting(m), fo)
  BY <1>1, <1>2, <1>9, AtConcat
<1> HIDE DEF fo
<1>14. ToSet(fo) \cap ToSet(f) = {}
  <2>1. ToSet(AtTop) \cap ToSet(f) = {}
    BY <1>10, ListsApart
  <2>2. ToSet(o) \cap ToSet(f) = {}
    BY <1>10, ListsApart
  <2> QED
    BY <1>12, <2>1, <2>2, UnionApart
<1>15. fof \in Seq(Control) /\ IsInjective(fof) /\ ToSet(fof) = ToSet(fo) \cup ToSet(f)
  BY <1>3, <1>12, <1>14, ConcatOnce
<1>16. \A b \in Nat : At(b, Lighting(m), fo) => At(b, Lighting(m), fof)
  BY <1>3, <1>9, <1>12, AtConcat
<1> HIDE DEF fof
<1>17. ToSet(fof) \cap ToSet(h) = {}
  <2>1. ToSet(AtTop) \cap ToSet(h) = {}
    BY <1>10, ListsApart
  <2>2. ToSet(o) \cap ToSet(h) = {}
    BY <1>2, <1>4, ListsApart
  <2>3. ToSet(f) \cap ToSet(h) = {}
    <3> SUFFICES ASSUME NEW x \in ToSet(f), x \in ToSet(h) PROVE FALSE
      OBVIOUS
    <3>1. CASE x \in DpiSet /\ ~DpiInDiagram(m)
      BY <1>4, <3>1, ListsApart
    <3>2. CASE x \in StoredSet(m) /\ ~OnboardInDiagram(m)
      BY <1>4, <3>2, ListsApart
    <3>3. CASE x \in ThumbSet /\ ~ThumbInDiagram(m)
      BY <1>4, <3>3, ListsApart
    <3> QED
      BY <1>3, <3>1, <3>2, <3>3
  <2>4. ToSet(fo) \cap ToSet(h) = {}
    BY <1>12, <2>1, <2>2, UnionApart
  <2> QED
    BY <1>15, <2>3, <2>4, UnionApart
<1>18. fofh \in Seq(Control) /\ IsInjective(fofh) /\ ToSet(fofh) = ToSet(fof) \cup ToSet(h)
  BY <1>4, <1>15, <1>17, ConcatOnce
<1>19. \A b \in Nat : /\ At(b, Lighting(m), fof) => At(b, Lighting(m), fofh)
                      /\ At(b, Lighting(m), h) => At(Len(fof) + b, Lighting(m), fofh)
  BY <1>4, <1>9, <1>15, AtConcat
<1> HIDE DEF fofh
<1>20. ToSet(fofh) \cap ToSet(AtBottom) = {}
  <2>1. ToSet(AtTop) \cap ToSet(AtBottom) = {}
    BY ListsApart
  <2>2. ToSet(o) \cap ToSet(AtBottom) = {}
    BY <1>10, ListsApart
  <2>3. ToSet(f) \cap ToSet(AtBottom) = {}
    BY <1>10, ListsApart
  <2>4. ToSet(h) \cap ToSet(AtBottom) = {}
    BY <1>10, ListsApart
  <2>5. ToSet(fo) \cap ToSet(AtBottom) = {}
    BY <1>12, <2>1, <2>2, UnionApart
  <2>6. ToSet(fof) \cap ToSet(AtBottom) = {}
    BY <1>15, <2>3, <2>5, UnionApart
  <2> QED
    BY <1>18, <2>4, <2>6, UnionApart
<1>21. /\ fofh \o AtBottom \in Seq(Control) /\ IsInjective(fofh \o AtBottom)
       /\ ToSet(fofh \o AtBottom) = ToSet(fofh) \cup ToSet(AtBottom)
  BY <1>5, <1>18, <1>20, ConcatOnce
<1>22. \A b \in Nat : At(b, Lighting(m), fofh) => At(b, Lighting(m), fofh \o AtBottom)
  BY <1>5, <1>9, <1>18, AtConcat
<1>23. ToSet(Controls(m)) =
         (((ToSet(AtTop) \cup LightSet(m)) \cup (IF m.dpiButtons THEN DpiSet ELSE {}))
            \cup (IF ShowThumbs(m) THEN ThumbSet ELSE {})) \cup (StoredSet(m) \cup ToSet(AtBottom))
  <2>1. ToSet(o) \cup (ToSet(f) \cup ToSet(h)) =
          (LightSet(m) \cup (IF m.dpiButtons THEN DpiSet ELSE {}))
            \cup ((IF ShowThumbs(m) THEN ThumbSet ELSE {}) \cup StoredSet(m))
    <3>1. DpiInDiagram(m) => m.dpiButtons
      BY DEF DpiInDiagram
    <3> QED
      BY <1>2, <1>3, <1>4, <3>1
  <2>2. ToSet(Controls(m)) =
          (ToSet(AtTop) \cup (ToSet(o) \cup (ToSet(f) \cup ToSet(h)))) \cup ToSet(AtBottom)
    BY <1>6, <1>12, <1>15, <1>18, <1>21
  <2> QED
    BY <2>1, <2>2
<1>24. \E base \in Nat : At(base, Lighting(m), fofh)
  <2>1. CASE LightingInDiagram(m)
    <3>1. PICK base \in Nat : At(base, Lighting(m), h)
      BY <1>7, <2>1
    <3>2. At(Len(fof) + base, Lighting(m), fofh) /\ Len(fof) + base \in Nat
      BY <1>15, <1>19, <3>1
    <3> QED
      BY <3>2
  <2>2. CASE ~LightingInDiagram(m)
    <3>1. At(0, Lighting(m), o)
      BY <1>8, <1>9, <2>2, AtConcat
    <3>2. Len(AtTop) + 0 \in Nat
      BY <1>1
    <3> QED
      BY <1>13, <1>16, <1>19, <3>1, <3>2
  <2> QED
    BY <2>1, <2>2
<1> QED
  BY <1>6, <1>21, <1>22, <1>23, <1>24

(* The k-th swatch is the k-th zone's. *)
LEMMA SwatchesInOrder ==
  ASSUME NEW m \in Mice
  PROVE  \A k \in DOMAIN Swatches(m) : Swatches(m)[k] = <<"color", k - 1>>
<1> DEFINE n == Smaller(Len(m.leds), MAX_ZONES)
           c == Controls(m)
           l == Lighting(m)
           S == {"color"} \X Zones(m)
<1>1. n \in Nat /\ Zones(m) = 0 .. n - 1
  BY ZoneCount
<1>2. /\ \A z \in Zones(m) : 2 * z + 2 \in DOMAIN l /\ l[2 * z + 2] = <<"color", z>>
  BY LightingParts
<1>3. c \in Seq(Control) /\ IsInjective(c) /\ \E base \in Nat : At(base, l, c)
  BY ControlsParts
<1>4. Swatches(m) = Within(c, S)
  BY DEF Swatches
<1> HIDE DEF n, c, l
<1>5. PICK base \in Nat : At(base, l, c)
  BY <1>3
<1> DEFINE f == [k \in 1 .. n |-> base + 2 * k]
<1>6. f \in [1 .. n -> Nat] /\ \A j, k \in 1 .. n : j < k => f[j] < f[k]
  BY <1>1
<1>7. ASSUME NEW k \in 1 .. n
      PROVE  k - 1 \in Zones(m) /\ f[k] \in DOMAIN c /\ c[f[k]] = <<"color", k - 1>>
  <2>1. k - 1 \in Zones(m) /\ f[k] = base + (2 * (k - 1) + 2)
    BY <1>1
  <2> DEFINE z == k - 1
  <2>2. 2 * z + 2 \in DOMAIN l /\ l[2 * z + 2] = <<"color", z>>
    BY <1>2, <2>1
  <2> QED
    BY <1>5, <2>1, <2>2 DEF At
<1> HIDE DEF f, S
<1>8. {i \in DOMAIN c : c[i] \in S} = {f[k] : k \in 1 .. n}
  <2>1. ASSUME NEW i \in DOMAIN c, c[i] \in S PROVE \E k \in 1 .. n : i = f[k]
    <3>1. PICK z \in Zones(m) : c[i] = <<"color", z>>
      BY <2>1 DEF S
    <3> DEFINE k == z + 1
    <3>2. k \in 1 .. n /\ k - 1 = z
      BY <1>1
    <3> HIDE DEF k
    <3>3. f[k] \in DOMAIN c /\ c[f[k]] = c[i]
      BY <1>7, <3>1, <3>2
    <3> QED
      BY <1>3, <3>2, <3>3 DEF IsInjective
  <2>2. ASSUME NEW k \in 1 .. n PROVE f[k] \in DOMAIN c /\ c[f[k]] \in S
    BY <1>7 DEF S
  <2> QED
    BY <2>1, <2>2
<1>9. Places(f, n, c, S)
  BY <1>1, <1>6, <1>8 DEF Places
<1>10. DOMAIN Within(c, S) = 1 .. n /\ \A k \in 1 .. n : Within(c, S)[k] = c[f[k]]
  BY <1>9, WithinIs
<1> QED
  BY <1>4, <1>7, <1>10

(* A list without repetitions is as long as its set is large. *)
LEMMA OnceLength ==
  ASSUME NEW T, NEW s \in Seq(T), IsInjective(s)
  PROVE  Len(s) = Cardinality(ToSet(s))
<1> DEFINE n == Len(s)
           S == ToSet(s)
<1>1. n \in Nat /\ s = [k \in 1 .. n |-> s[k]] /\ S = {s[k] : k \in 1 .. n}
  BY DEF ToSet
<1> HIDE DEF n, S
<1>2. s \in Bijection(1 .. n, S)
  BY <1>1 DEF Bijection, Injection, Surjection, IsInjective
<1>3. ExistsBijection(1 .. n, S)
  BY <1>2 DEF ExistsBijection
<1>4. Cardinality(S) = n
  BY <1>1, <1>3, FS_CountingElements
<1> QED
  BY <1>4 DEF n, S

(* The number of a button among the buttons, from 1. *)
Nth(c, k) == Cardinality({j \in 1 .. k : c[j][1] = "button"})

LEMMA ButtonsNumbered ==
  ASSUME NEW c, NEW j \in Nat, NEW k \in Nat, 1 <= j
  PROVE  /\ Nth(c, j) \in Nat /\ Nth(c, k) \in Nat
         /\ c[j][1] = "button" => Nth(c, j) >= 1
         /\ j < k /\ c[k][1] = "button" => Nth(c, j) < Nth(c, k)
<1> DEFINE up(i) == {h \in 1 .. i : c[h][1] = "button"}
<1>1. ASSUME NEW i \in Nat PROVE IsFiniteSet(up(i)) /\ Cardinality(up(i)) \in Nat
  <2>1. IsFiniteSet(1 .. i)
    BY FS_Interval
  <2>2. up(i) \subseteq 1 .. i
    OBVIOUS
  <2> HIDE DEF up
  <2>3. IsFiniteSet(up(i))
    BY <2>1, <2>2, FS_Subset
  <2> QED
    BY <2>3, FS_CardinalityType
<1>2. c[j][1] = "button" => j \in up(j)
  OBVIOUS
<1>3. c[j][1] = "button" => Cardinality(up(j)) # 0
  <2>1. IsFiniteSet(up(j))
    BY <1>1
  <2> HIDE DEF up
  <2> QED
    BY <1>2, <2>1, FS_EmptySet
<1>4. ASSUME j < k, c[k][1] = "button" PROVE Cardinality(up(j)) < Cardinality(up(k))
  <2>1. up(j) \subseteq up(k) /\ k \in up(k) /\ k \notin up(j)
    BY <1>4
  <2> HIDE DEF up
  <2>2. Cardinality(up(j)) <= Cardinality(up(k)) /\ (Cardinality(up(j)) = Cardinality(up(k)) => up(j) = up(k))
    BY <1>1, <2>1, FS_Subset
  <2> QED
    BY <1>1, <2>1, <2>2
<1>5. Nth(c, j) = Cardinality(up(j)) /\ Nth(c, k) = Cardinality(up(k))
  BY DEF Nth
<1> HIDE DEF up
<1> QED
  BY <1>1, <1>3, <1>4, <1>5

(* What a control's id is, from its name. *)
LEMMA IdIs ==
  ASSUME NEW c \in Control, NEW k \in Int
  PROVE  /\ c[1] = "slider" => ControlId(c, k) = 101
         /\ c[1] = "up" => ControlId(c, k) = 103
         /\ c[1] = "down" => ControlId(c, k) = 104
         /\ c[1] = "save" => ControlId(c, k) = 109
         /\ c[1] = "back" => ControlId(c, k) = 111
         /\ c[1] = "forward" => ControlId(c, k) = 112
         /\ c[1] = "poll" => ControlId(c, k) = 113
         /\ c[1] = "minus" => ControlId(c, k) = 115
         /\ c[1] = "plus" => ControlId(c, k) = 116
         /\ c[1] = "effect" => ControlId(c, k) = 200 + c[2]
         /\ c[1] = "color" => ControlId(c, k) = 232 + c[2]
         /\ c[1] = "button" => ControlId(c, k) = 300 + k
<1>1. c[1] = "slider" => ControlId(c, k) = 101
  BY DEF ControlId
<1>2. c[1] = "up" => ControlId(c, k) = 103
  BY DEF ControlId
<1>3. c[1] = "down" => ControlId(c, k) = 104
  BY DEF ControlId
<1>4. c[1] = "save" => ControlId(c, k) = 109
  BY DEF ControlId
<1>5. c[1] = "back" => ControlId(c, k) = 111
  BY DEF ControlId
<1>6. c[1] = "forward" => ControlId(c, k) = 112
  BY DEF ControlId
<1>7. c[1] = "poll" => ControlId(c, k) = 113
  BY DEF ControlId
<1>8. c[1] = "minus" => ControlId(c, k) = 115
  BY DEF ControlId
<1>9. c[1] = "plus" => ControlId(c, k) = 116
  BY DEF ControlId
<1>10. c[1] = "effect" => ControlId(c, k) = 200 + c[2]
  BY DEF ControlId
<1>11. c[1] = "color" => ControlId(c, k) = 232 + c[2]
  BY DEF ControlId
<1>12. c[1] = "button" => ControlId(c, k) = 300 + k
  BY DEF ControlId
<1> QED
  BY <1>1, <1>2, <1>3, <1>4, <1>5, <1>6, <1>7, <1>8, <1>9, <1>10, <1>11, <1>12

(* The controls that are not numbered have one of each name; the zones are *)
(* below MAX_ZONES.                                                        *)
LEMMA ControlIs ==
  ASSUME NEW m \in Mice, NEW c \in ToSet(Controls(m))
  PROVE  /\ c \in Control /\ c = <<c[1], c[2]>>
         /\ c[1] \in {"effect", "color"} => c[2] \in 0 .. 15
         /\ c[1] \notin {"effect", "color", "button"} => c[2] = 0
<1>1. c \in Control
  BY ControlsParts DEF ToSet
<1>2. CASE c \in LightSet(m)
  <2>1. c \in {"effect", "color"} \X Zones(m)
    BY <1>2, LightingParts DEF LightSet
  <2>2. Zones(m) \subseteq 0 .. 15
    <3> DEFINE n == Smaller(Len(m.leds), MAX_ZONES)
    <3>1. n \in Nat /\ n <= 16 /\ Zones(m) = 0 .. n - 1
      BY ZoneCount
    <3> HIDE DEF n
    <3> QED
      BY <3>1
  <2> QED
    BY <1>1, <2>1, <2>2 DEF Control
<1>3. CASE c \in StoredSet(m)
  BY <1>1, <1>3, NamesApart DEF Control
<1>4. CASE c \in ((ToSet(AtTop) \cup DpiSet) \cup ThumbSet) \cup ToSet(AtBottom)
  <2>1. c[2] = 0
    BY <1>4, EndParts, FixedParts DEF DpiSet, ThumbSet
  <2>2. c[1] \notin {"effect", "color", "button"}
    BY <1>4, NamesApart
  <2> QED
    BY <1>1, <2>1, <2>2 DEF Control
<1> QED
  BY <1>2, <1>3, <1>4, ControlsParts

LEMMA IdsApart ==
  ASSUME NEW m \in Mice, NEW c \in ToSet(Controls(m)), NEW d \in ToSet(Controls(m)), c # d,
         NEW i \in Int, NEW j \in Int,
         c[1] = "button" => i >= 0,
         d[1] = "button" => j >= 0,
         c[1] = "button" /\ d[1] = "button" => i # j
  PROVE  ControlId(c, i) # ControlId(d, j)
<1>1. /\ c \in Control /\ c = <<c[1], c[2]>> /\ d \in Control /\ d = <<d[1], d[2]>>
      /\ c[1] \in {"effect", "color"} => c[2] \in 0 .. 15
      /\ d[1] \in {"effect", "color"} => d[2] \in 0 .. 15
      /\ c[1] \notin {"effect", "color", "button"} => c[2] = 0
      /\ d[1] \notin {"effect", "color", "button"} => d[2] = 0
  BY ControlIs
<1>2. c[1] \in Names /\ d[1] \in Names /\ c[2] \in Nat /\ d[2] \in Nat
  BY <1>1 DEF Control
<1>3. CASE c[1] = d[1]
  <2>1. c[2] # d[2]
    BY <1>1, <1>3
  <2>2. c[1] \in {"effect", "color", "button"}
    BY <1>1, <1>3, <2>1
  <2> QED
    BY <1>1, <1>2, <1>3, <2>1, <2>2, IdIs
<1>4. CASE c[1] # d[1]
  <2> DEFINE Fixed == {101, 103, 104, 109, 111, 112, 113, 115, 116}
  <2>1. ASSUME NEW e \in Control, NEW k \in Int, e[1] \in {"effect", "color"} => e[2] \in 0 .. 15,
               e[1] = "button" => k >= 0
        PROVE  /\ e[1] \notin {"effect", "color", "button"} => ControlId(e, k) \in Fixed
               /\ e[1] = "effect" => ControlId(e, k) \in 200 .. 215
               /\ e[1] = "color" => ControlId(e, k) \in 232 .. 247
               /\ e[1] = "button" => ControlId(e, k) \in Int /\ ControlId(e, k) >= 300
    <3>1. e[1] \in Names /\ e[2] \in Nat
      BY DEF Control
    <3>2. e[1] \notin {"effect", "color", "button"} => ControlId(e, k) \in Fixed
      BY <3>1, IdIs DEF Names
    <3>3. e[1] = "effect" => ControlId(e, k) \in 200 .. 215
      BY <2>1, IdIs
    <3>4. e[1] = "color" => ControlId(e, k) \in 232 .. 247
      BY <2>1, IdIs
    <3>5. e[1] = "button" => ControlId(e, k) \in Int /\ ControlId(e, k) >= 300
      BY <2>1, IdIs
    <3> QED
      BY <3>2, <3>3, <3>4, <3>5
  <2>2. /\ c[1] \notin {"effect", "color", "button"} => ControlId(c, i) \in Fixed
        /\ c[1] = "effect" => ControlId(c, i) \in 200 .. 215
        /\ c[1] = "color" => ControlId(c, i) \in 232 .. 247
        /\ c[1] = "button" => ControlId(c, i) \in Int /\ ControlId(c, i) >= 300
    BY <1>1, <2>1
  <2>3. /\ d[1] \notin {"effect", "color", "button"} => ControlId(d, j) \in Fixed
        /\ d[1] = "effect" => ControlId(d, j) \in 200 .. 215
        /\ d[1] = "color" => ControlId(d, j) \in 232 .. 247
        /\ d[1] = "button" => ControlId(d, j) \in Int /\ ControlId(d, j) >= 300
    BY <1>1, <2>1
  <2>4. CASE /\ c[1] \notin {"effect", "color", "button"}
             /\ d[1] \notin {"effect", "color", "button"}
    BY <1>1, <1>2, <1>4, <2>4, IdIs DEF Names
  <2>5. CASE c[1] \in {"effect", "color", "button"} \/ d[1] \in {"effect", "color", "button"}
    BY <1>4, <2>2, <2>3, <2>5
  <2> QED
    BY <2>4, <2>5
<1> QED
  BY <1>3, <1>4

LEMMA CapabilitiesAre ==
  ASSUME mouse \in Mice
  PROVE  ToSet(Controls(mouse)) = Capabilities
<1>1. LightSet(mouse) = {"effect", "color"} \X Zones(mouse)
  BY LightingParts DEF LightSet
<1>2. ToSet(AtTop) \cup ToSet(AtBottom) =
        { <<"minus", 0>>, <<"slider", 0>>, <<"plus", 0>>, <<"poll", 0>>, <<"save", 0>> }
  BY EndParts
<1>3. CASE mouse.onboard = NoKeymap
  <2>1. StoredSet(mouse) = {} /\ ShowThumbs(mouse)
    <3>1. ToSet(Boxes(mouse)) = {}
      BY <1>3, BoxesParts DEF ToSet
    <3> QED
      BY <1>3, <3>1, StoredParts DEF StoredSet, ShowThumbs
  <2> QED
    BY <1>1, <1>2, <1>3, <2>1, ControlsParts DEF Capabilities, DpiSet, ThumbSet
<1>4. CASE mouse.onboard # NoKeymap
  <2> DEFINE n == Smaller(Len(mouse.onboard), MAX_ONBOARD)
             B == {<<"button", mouse.onboard[k]>> : k \in 1 .. n}
  <2>1. StoredSet(mouse) = B
    <3>1. ToSet(Boxes(mouse)) = {mouse.onboard[k] : k \in 1 .. n}
      BY <1>4, BoxesParts DEF ToSet
    <3> HIDE DEF n
    <3> QED
      BY <3>1, StoredParts DEF StoredSet
  <2>2. ~ShowThumbs(mouse)
    BY <1>4 DEF ShowThumbs
  <2>3. Capabilities =
          (({ <<"minus", 0>>, <<"slider", 0>>, <<"plus", 0>>, <<"poll", 0>>, <<"save", 0>> }
              \cup (IF mouse.dpiButtons THEN DpiSet ELSE {})) \cup B)
            \cup ({"effect", "color"} \X Zones(mouse))
    BY <1>4 DEF Capabilities, DpiSet
  <2> HIDE DEF B
  <2> QED
    BY <1>1, <1>2, <2>1, <2>2, <2>3, ControlsParts
<1> QED
  BY <1>3, <1>4

LEMMA ControlsOnce ==
  ASSUME mouse \in Mice
  PROVE  EveryControlOnce
<1> DEFINE c == Controls(mouse)
           index(k) == Cardinality({j \in 1 .. k : c[j][1] = "button"}) - 1
<1>1. c \in Seq(Control) /\ IsInjective(c)
  BY ControlsParts
<1>2. ToSet(c) = Capabilities
  BY CapabilitiesAre
<1>3. Len(c) = Cardinality(Capabilities)
  BY <1>1, <1>2, OnceLength
<1>4. \A k \in DOMAIN Swatches(mouse) : Swatches(mouse)[k] = <<"color", k - 1>>
  BY SwatchesInOrder
<1>5. \A j, k \in DOMAIN c : j # k => ControlId(c[j], index(j)) # ControlId(c[k], index(k))
  <2> HIDE DEF c
  <2>1. ASSUME NEW j \in DOMAIN c, NEW k \in DOMAIN c, j < k
        PROVE  ControlId(c[j], Nth(c, j) - 1) # ControlId(c[k], Nth(c, k) - 1)
    <3>1. /\ j \in Nat /\ k \in Nat /\ 1 <= j /\ 1 <= k
          /\ c[j] \in ToSet(c) /\ c[k] \in ToSet(c) /\ c[j] # c[k]
      BY <1>1, <2>1 DEF IsInjective, ToSet
    <3>2. /\ Nth(c, j) \in Nat /\ Nth(c, k) \in Nat
          /\ c[j][1] = "button" => Nth(c, j) >= 1
          /\ c[k][1] = "button" => Nth(c, k) >= 1
          /\ c[k][1] = "button" => Nth(c, j) < Nth(c, k)
      BY <2>1, <3>1, ButtonsNumbered
    <3>3. /\ Nth(c, j) - 1 \in Int /\ Nth(c, k) - 1 \in Int
          /\ c[j][1] = "button" => Nth(c, j) - 1 >= 0
          /\ c[k][1] = "button" => Nth(c, k) - 1 >= 0
          /\ c[k][1] = "button" => Nth(c, j) - 1 # Nth(c, k) - 1
      BY <3>2
    <3>4. c[j] \in ToSet(Controls(mouse)) /\ c[k] \in ToSet(Controls(mouse))
      BY <3>1 DEF c
    <3> QED
      BY <3>1, <3>3, <3>4, IdsApart
  <2>2. \A k : index(k) = Nth(c, k) - 1
    BY DEF Nth
  <2>3. DOMAIN c \subseteq Nat
    BY <1>1
  <2> HIDE DEF index
  <2> SUFFICES ASSUME NEW j \in DOMAIN c, NEW k \in DOMAIN c, j # k
               PROVE  ControlId(c[j], Nth(c, j) - 1) # ControlId(c[k], Nth(c, k) - 1)
    BY <2>2
  <2>4. j < k \/ k < j
    BY <2>3
  <2> QED
    BY <2>1, <2>4
<1> QED
  BY <1>2, <1>3, <1>4, <1>5 DEF EveryControlOnce

-----------------------------------------------------------------------------
(* The plan of the window.                                                 *)

LEMMA RowsFit ==
  ASSUME NEW m \in Mice
  PROVE  ClusterEnd(m) \in Int /\ TopH(m) \in Int /\ ClusterEnd(m) <= MARGIN + TopH(m)
<1> DEFINE z == Smaller(Len(m.leds), MAX_ZONES)
           leds == Len(m.leds)
           rows == Len(Fallback(m))
           note == NoteShown(m)
           drawn == LightingInDiagram(m)
           made == IF drawn THEN 0 ELSE z * 38
           planned == IF drawn THEN 0 ELSE leds * 38
           under == rows * 56 + (IF note THEN 40 ELSE 0)
<1>1. z \in Nat /\ leds \in Nat /\ z <= leds
  BY ZoneCount
<1>2. rows \in Nat
  BY FallbackParts
<1>3. FbRow = 56
  BY DEF FbRow, LBL_H, LBL_GAP, COMBO_H, GROUP_GAP
<1>4. FbH(m) = IF under > 0 THEN under + 12 ELSE 0
  BY <1>3 DEF FbH, HOOK_NOTE_H, LBL_H, GROUP_GAP
<1>5. TopH(m) = 68 + FbH(m) + planned
  <2>1. TopH(m) = 30 + 12 + 26 + FbH(m) + planned
    BY DEF TopH, ROW1_H, ROW2_H, GROUP_GAP
  <2>2. FbH(m) \in Int /\ planned \in Int
    BY <1>1, <1>2, <1>4
  <2> HIDE DEF planned
  <2> QED
    BY <2>1, <2>2
<1>6. FallbackTop(m) = 96 + made
  <2>1. FallbackTop(m) = 16 + 30 + 12 + 26 + 12 + made
    BY DEF FallbackTop, MARGIN, ROW1_H, ROW2_H, GROUP_GAP
  <2>2. made \in Int
    BY <1>1
  <2> HIDE DEF made
  <2> QED
    BY <2>1, <2>2
<1>7. ClusterEnd(m) = IF FbH(m) = 0 THEN FallbackTop(m) - 12
                      ELSE FallbackTop(m) + rows * 56 + (IF note THEN 28 ELSE 0)
  <2>1. ClusterEnd(m) = IF FbH(m) = 0 THEN FallbackTop(m) - 12
                        ELSE FallbackTop(m) + ((rows + 1) - 1) * 56 + (IF note THEN 28 ELSE 0)
    BY <1>3 DEF ClusterEnd, RowTop, HOOK_NOTE_H, LBL_H, GROUP_GAP
  <2>2. (rows + 1) - 1 = rows
    BY <1>2
  <2> HIDE DEF rows, note
  <2> QED
    BY <2>1, <2>2
<1>8. made \in Nat /\ planned \in Nat /\ made <= planned
  BY <1>1
<1>9. rows * 56 \in Nat
  BY <1>2
<1>10. MARGIN = 16
  BY DEF MARGIN
<1> HIDE DEF made, planned, rows, note
<1> QED
  BY <1>4, <1>5, <1>6, <1>7, <1>8, <1>9, <1>10

LEMMA DrawingFits ==
  ASSUME NEW m \in Mice
  PROVE  PaneTop(m) + DiaH(m) <= BottomTop(m)
<1> DEFINE t == PaneTop(m)
           h == DiaH(m)
           g == DiaGap(m)
           b == BottomH(m)
<1>1. t \in Int /\ g \in Int /\ g >= 0
  BY RowsFit DEF PaneTop, MARGIN, DiaGap, DIAGRAM_VGAP, GROUP_GAP
<1>2. h \in Int /\ (~HasDiagram(m) => h = 0)
  <2>1. CASE HasDiagram(m)
    <3>1. m.diagram.w \in Nat /\ m.diagram.h \in Nat /\ m.diagram.w > 0
      BY <2>1, MiceAssumption DEF MouseOK, HasDiagram
    <3>2. CeilDiv(m.diagram.h * 960, m.diagram.w) \in Int
      <4>1. \A x, y \in Nat : y > 0 => ((x * 960) + y - 1) \div y \in Int
        OBVIOUS
      <4> QED
        BY <3>1, <4>1 DEF CeilDiv
    <3> QED
      BY <2>1, <3>1, <3>2 DEF DiaH, PANE_MAX_W
  <2>2. CASE ~HasDiagram(m)
    BY <2>2 DEF DiaH
  <2> QED
    BY <2>1, <2>2
<1>3. b \in Int
  BY DEF BottomH, BOTTOM_H, STATUS_H, LBL_H
<1>4. BottomTop(m) = (t + (IF HasDiagram(m) THEN h + g ELSE 0) + b + 16) - 16 - b
  BY DEF BottomTop, ClientH, MARGIN
<1> HIDE DEF t, h, g, b
<1> QED
  BY <1>1, <1>2, <1>3, <1>4 DEF t, h

(* The drawing has its margins whatever its width, and the body is off the *)
(* middle by what the anchor gave up and the halves lose.                  *)
LEMMA MouseCentred ==
  ASSUME NEW m \in Mice, HasDiagram(m)
  PROVE  /\ PaneX(m) >= MARGIN - 1
         /\ PaneX(m) + DiaW(m) <= ClientW(m) - MARGIN + 1
         /\ 2 * PaneX(m) + Body2(m) - ClientW(m) \in -(2 * CENTER_SLACK + 2) .. 2 * CENTER_SLACK + 2
<1> DEFINE d == DiaW(m)
           b == Body2(m)
           a == Anchor2(m)
           w == ClientW(m)
           x == w \div 2 - (a + 1) \div 2
<1>1. d \in Nat /\ d > 0 /\ b \in Int
  <2>1. m.diagram.w \in Nat /\ m.diagram.w > 0 /\ m.diagram.body \in Nat
    BY MiceAssumption DEF MouseOK, HasDiagram
  <2>2. d \in Nat /\ d > 0
    BY <2>1 DEF DiaW, Smaller, PANE_MAX_W
  <2>3. (m.diagram.body * 960) \div m.diagram.w \in Int
    <3>1. \A p, q \in Nat : q > 0 => (p * 960) \div q \in Int
      OBVIOUS
    <3> QED
      BY <2>1, <3>1
  <2>4. b \in Int
    BY <2>1, <2>3 DEF Body2, PANE_MAX_W
  <2> QED
    BY <2>2, <2>4
<1>2. a = Clamp(d, b - 32, b + 32)
  BY DEF Anchor2, CENTER_SLACK
<1>3. w = LET twice == IF 2 * d - a > a THEN 2 * d - a ELSE a IN
            IF twice + 32 > 430 THEN twice + 32 ELSE 430
  BY DEF ClientW, MARGIN, MIN_CLIENT_W
<1>4. PaneX(m) = Clamp(x, 0, IF w - d > 0 THEN w - d ELSE 0)
  BY DEF PaneX
<1> HIDE DEF d, b, a, w
<1>5. a \in Int /\ b - 32 <= a /\ a <= b + 32
  BY <1>1, <1>2 DEF Clamp
<1>6. w \in Int /\ w >= a + 32 /\ w >= 2 * d - a + 32
  BY <1>1, <1>3, <1>5
<1>7. x \in Int /\ 2 * x >= w - a - 2 /\ 2 * x <= w - a
  <2>1. \A i \in Int : i \div 2 \in Int /\ 2 * (i \div 2) <= i /\ i <= 2 * (i \div 2) + 1
    OBVIOUS
  <2>2. /\ w \div 2 \in Int /\ 2 * (w \div 2) <= w /\ w <= 2 * (w \div 2) + 1
        /\ (a + 1) \div 2 \in Int /\ 2 * ((a + 1) \div 2) <= a + 1
        /\ a + 1 <= 2 * ((a + 1) \div 2) + 1
    BY <1>5, <1>6, <2>1
  <2> QED
    BY <1>5, <1>6, <2>2
<1> HIDE DEF x
<1>8. x >= 15 /\ x + d <= w - 16
  BY <1>1, <1>5, <1>6, <1>7
<1>9. PaneX(m) = x
  BY <1>1, <1>4, <1>6, <1>7, <1>8 DEF Clamp
<1>10. 2 * x + b - w \in -34 .. 34
  BY <1>1, <1>5, <1>6, <1>7
<1>11. MARGIN = 16 /\ CENTER_SLACK = 16
  BY DEF MARGIN, CENTER_SLACK
<1>12. /\ x >= 16 - 1 /\ x + d <= w - 16 + 1
       /\ 2 * x + b - w \in -(2 * 16 + 2) .. 2 * 16 + 2
  BY <1>1, <1>6, <1>7, <1>8, <1>10
<1> QED
  BY <1>9, <1>11, <1>12 DEF d, b, w

(* In every state the window's form is whole: every capability of the      *)
(* mouse has one control, with an id of its own, wherever the drawing has  *)
(* its place, a swatch is its zone's, and the plan holds what is put in it *)
(* (open, settings.rs:594-1193).                                           *)
THEOREM FormWhole == Spec => []FormIsWhole
<1>1. IInv => FormIsWhole
  <2> SUFFICES ASSUME IInv PROVE FormIsWhole
    OBVIOUS
  <2>1. mouse \in Mice
    BY DEF IInv, CoreInv, TypeInv
  <2>2. EveryControlOnce
    BY <2>1, ControlsOnce
  <2>3. LayoutFits
    BY <2>1, RowsFit, DrawingFits, MouseCentred DEF LayoutFits
  <2> QED
    BY <2>2, <2>3 DEF FormIsWhole
<1> QED
  BY <1>1, InitInv, NextInv, PTL DEF Spec
=============================================================================
