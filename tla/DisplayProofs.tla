----------------------------- MODULE DisplayProofs -----------------------------
(***************************************************************************)
(* Proofs about the displays and the timers they arm (Display).            *)
(***************************************************************************)
EXTENDS Display, SequenceTheorems, FiniteSetTheorems, TLAPS

\* The operations, those of print_vm_stats_hide with the OLED, and the stores to sys_ctrl.
Op == {"load", "led0", "led1", "lit0", "lit1", "other", "osd_on", "osd_off", "osd_off_if_idle",
       "oled_on", "oled_off", "osd_open", "osd_close", "standby", "wake", "osd_cancel", "osd_arm",
       "lcd_cancel", "lcd_arm", "led_arm", "info_arm", "status", "wait"}
IrqOp == {"osd_close", "oled_on", "lcd_cancel", "lcd_arm", "osd_off_if_idle", "osd_off"}
Stores == {"led0", "led1", "lit0", "lit1", "other"}

\* The operations of a list.
Ops(s) == {s[k] : k \in 1 .. Len(s)}

\* An operation stands right after, or right before, the ones that go with it.
Joined(s) ==
  /\ \A k \in 2 .. Len(s) :
       /\ s[k] = "osd_arm" => s[k - 1] = "osd_on"
       /\ s[k] = "osd_arm" /\ k > 2 => s[k - 2] = "osd_cancel"
       /\ s[k] = "lcd_arm" => s[k - 1] = "lcd_cancel"
       /\ s[k] \in Stores => s[k - 1] = "load"
  /\ \A k \in 1 .. Len(s) : s[k] = "osd_cancel" => k < Len(s) /\ s[k + 1] = "osd_on"

\* Entering standby clears the LED and the backlight, and nothing follows that lights them.
Lights == {"led1", "lit1", "status"}
Dims(s) ==
  \A k \in 1 .. Len(s) : s[k] = "standby" =>
    /\ \A j \in k + 1 .. Len(s) : s[j] \notin Lights
    /\ \E j \in k + 1 .. Len(s) : s[j] = "led0"
    /\ \E j \in k + 1 .. Len(s) : s[j] = "lit0"

\* A whole list, which needs nothing done before it.
Begins(s) ==
  /\ Len(s) > 0 => s[1] \notin {"osd_arm", "lcd_arm"} \cup Stores
  /\ Len(s) > 1 => s[2] # "osd_arm"
Part(s) == s \in Seq(Op) /\ Joined(s) /\ Begins(s)
--------------------------------------------------------------------------------
(* Lists. *)

\* The operations of the empty list, of one operation and of a concatenation.
LEMMA OpsEmpty == Ops(<<>>) = {}
BY DEF Ops

\* One operation.
LEMMA OpsOne == ASSUME NEW op PROVE Ops(<<op>>) = {op}
BY DEF Ops

\* Two operations.
LEMMA OpsTwo == ASSUME NEW a, NEW b PROVE Ops(<<a, b>>) = {a, b}
BY DEF Ops

\* A concatenation has the operations of both lists.
LEMMA OpsConcat ==
  ASSUME NEW s \in Seq(Op), NEW t \in Seq(Op)
  PROVE  Ops(s \o t) = Ops(s) \cup Ops(t)
<1>1. /\ Len(s) \in Nat /\ Len(t) \in Nat /\ Len(s \o t) = Len(s) + Len(t)
      /\ \A k \in 1 .. Len(s) + Len(t) : (s \o t)[k] = IF k <= Len(s) THEN s[k] ELSE t[k - Len(s)]
  BY ConcatProperties, LenProperties
<1>2. ASSUME NEW op \in Ops(s \o t) PROVE op \in Ops(s) \cup Ops(t)
  BY <1>1 DEF Ops
<1>3. ASSUME NEW op \in Ops(s) PROVE op \in Ops(s \o t)
  BY <1>1 DEF Ops
<1>4. ASSUME NEW op \in Ops(t) PROVE op \in Ops(s \o t)
  <2>1. PICK k \in 1 .. Len(t) : op = t[k]
    BY DEF Ops
  <2>2. k + Len(s) \in 1 .. Len(s) + Len(t) /\ (s \o t)[k + Len(s)] = t[k]
    BY <1>1
  <2> QED BY <1>1, <2>1, <2>2 DEF Ops
<1> QED BY <1>2, <1>3, <1>4

\* The first operation, and the others.
LEMMA OpsTail ==
  ASSUME NEW s \in Seq(Op), s # <<>>
  PROVE  /\ Ops(s) = {Head(s)} \cup Ops(Tail(s))
         /\ Tail(s) \in Seq(Op) /\ Head(s) \in Op
         /\ Len(Tail(s)) = Len(s) - 1 /\ Len(s) \in Nat \ {0}
         /\ Head(s) = s[1]
         /\ \A k \in 1 .. Len(Tail(s)) : Tail(s)[k] = s[k + 1]
<1>1. /\ Tail(s) \in Seq(Op) /\ Head(s) \in Op
      /\ Len(Tail(s)) = Len(s) - 1 /\ Len(s) \in Nat \ {0}
      /\ \A k \in 1 .. Len(Tail(s)) : Tail(s)[k] = s[k + 1]
  BY HeadTailProperties, EmptySeq
<1>2. Head(s) = s[1]
  OBVIOUS
<1>3. ASSUME NEW k \in 1 .. Len(s) PROVE s[k] \in {Head(s)} \cup Ops(Tail(s))
  <2>1. CASE k = 1 BY <1>2, <2>1
  <2>2. CASE k # 1
    <3>1. k - 1 \in 1 .. Len(Tail(s)) /\ Tail(s)[k - 1] = s[k]
      BY <1>1, <2>2
    <3> QED BY <3>1 DEF Ops
  <2> QED BY <2>1, <2>2
<1>4. ASSUME NEW k \in 1 .. Len(Tail(s)) PROVE Tail(s)[k] \in Ops(s)
  <2>1. k + 1 \in 1 .. Len(s) /\ Tail(s)[k] = s[k + 1]
    BY <1>1
  <2> QED BY <2>1 DEF Ops
<1>5. 1 \in 1 .. Len(s)
  BY <1>1
<1>6. Head(s) \in Ops(s)
  BY <1>2, <1>5 DEF Ops
<1>7. Ops(s) \subseteq {Head(s)} \cup Ops(Tail(s))
  BY <1>3 DEF Ops
<1>8. Ops(Tail(s)) \subseteq Ops(s)
  BY <1>4 DEF Ops
<1> QED BY <1>1, <1>2, <1>6, <1>7, <1>8

\* A whole list after a whole list is one.
LEMMA PartConcat ==
  ASSUME NEW s, Part(s), NEW t, Part(t)
  PROVE  Part(s \o t)
<1> DEFINE u == s \o t
<1>1. /\ Len(s) \in Nat /\ Len(t) \in Nat /\ Len(u) = Len(s) + Len(t)
      /\ u \in Seq(Op)
      /\ \A k \in 1 .. Len(s) + Len(t) : u[k] = IF k <= Len(s) THEN s[k] ELSE t[k - Len(s)]
  BY ConcatProperties, LenProperties DEF Part
<1> HIDE DEF u
<1>2. ASSUME NEW k \in 2 .. Len(u)
      PROVE  /\ u[k] = "osd_arm" => u[k - 1] = "osd_on"
             /\ u[k] = "osd_arm" /\ k > 2 => u[k - 2] = "osd_cancel"
             /\ u[k] = "lcd_arm" => u[k - 1] = "lcd_cancel"
             /\ u[k] \in Stores => u[k - 1] = "load"
  <2>1. CASE k <= Len(s)
    <3>1. k \in 2 .. Len(s) /\ u[k] = s[k] /\ u[k - 1] = s[k - 1] /\ (k > 2 => u[k - 2] = s[k - 2])
      BY <1>1, <2>1
    <3> QED BY <3>1 DEF Part, Joined
  <2>2. CASE k = Len(s) + 1
    <3>1. u[k] = t[1] /\ Len(t) > 0
      BY <1>1, <2>2
    <3> QED BY <3>1 DEF Part, Begins
  <2>3. CASE k = Len(s) + 2
    <3>1. u[k] = t[2] /\ u[k - 1] = t[1] /\ Len(t) > 1 /\ 2 \in 2 .. Len(t)
      BY <1>1, <2>3
    <3> QED BY <3>1 DEF Part, Begins, Joined
  <2>4. CASE k > Len(s) + 2
    <3>1. PICK j \in 2 .. Len(t) : j = k - Len(s) /\ j > 2
      BY <1>1, <2>4
    <3>2. \A i \in Int : i > Len(s) /\ i <= Len(s) + Len(t) => u[i] = t[i - Len(s)]
      BY <1>1
    <3>3. /\ k > Len(s) /\ k <= Len(s) + Len(t) /\ k \in Int /\ k - Len(s) = j
          /\ k - 1 > Len(s) /\ k - 1 <= Len(s) + Len(t) /\ k - 1 \in Int /\ (k - 1) - Len(s) = j - 1
          /\ k - 2 > Len(s) /\ k - 2 <= Len(s) + Len(t) /\ k - 2 \in Int /\ (k - 2) - Len(s) = j - 2
      BY <1>1, <2>4, <3>1
    <3>4. u[k] = t[j] /\ u[k - 1] = t[j - 1] /\ u[k - 2] = t[j - 2]
      BY <3>2, <3>3
    <3> QED BY <3>1, <3>4 DEF Part, Joined
  <2>5. k \in Nat /\ Len(s) \in Nat
    BY <1>1
  <2> QED BY <2>1, <2>2, <2>3, <2>4, <2>5
<1>3. ASSUME NEW k \in 1 .. Len(u), u[k] = "osd_cancel"
      PROVE  k < Len(u) /\ u[k + 1] = "osd_on"
  <2>1. CASE k <= Len(s)
    <3>1. k \in 1 .. Len(s) /\ s[k] = "osd_cancel"
      BY <1>1, <1>3, <2>1
    <3>2. k < Len(s) /\ s[k + 1] = "osd_on"
      BY <3>1 DEF Part, Joined
    <3> QED BY <1>1, <3>2
  <2>2. CASE k > Len(s)
    <3>1. k - Len(s) \in 1 .. Len(t) /\ t[k - Len(s)] = "osd_cancel"
      BY <1>1, <1>3, <2>2
    <3>2. k - Len(s) < Len(t) /\ t[(k - Len(s)) + 1] = "osd_on"
      BY <3>1 DEF Part, Joined
    <3> QED BY <1>1, <2>2, <3>2
  <2> QED BY <1>1, <2>1, <2>2
<1>4. Begins(u)
  <2>1. ASSUME Len(u) > 0 PROVE u[1] \notin {"osd_arm", "lcd_arm"} \cup Stores
    BY <1>1, <2>1 DEF Part, Begins
  <2>2. ASSUME Len(u) > 1 PROVE u[2] # "osd_arm"
    <3>1. PICK n \in Nat : Len(s) = n
      BY <1>1
    <3>2. CASE n = 0
      <4>1. u[2] = t[2] /\ Len(t) > 1
        BY <1>1, <2>2, <3>1, <3>2
      <4> QED BY <4>1 DEF Part, Begins
    <3>3. CASE n = 1
      <4>1. u[2] = t[1] /\ Len(t) > 0
        BY <1>1, <2>2, <3>1, <3>3
      <4> QED BY <4>1 DEF Part, Begins
    <3>4. CASE n > 1
      <4>1. u[2] = s[2]
        BY <1>1, <2>2, <3>1, <3>4
      <4> QED BY <3>1, <3>4, <4>1 DEF Part, Begins
    <3> QED BY <3>2, <3>3, <3>4
  <2> QED BY <2>1, <2>2 DEF Begins
<1>5. Part(u)
  BY <1>1, <1>2, <1>3, <1>4 DEF Part, Joined
<1> QED BY <1>5 DEF u

\* A list without "standby" dims nothing, and may come before one that does.
LEMMA DimsNone ==
  ASSUME NEW s, "standby" \notin Ops(s)
  PROVE  Dims(s)
BY DEF Ops, Dims

\* What comes before "standby" does not matter.
LEMMA DimsConcat ==
  ASSUME NEW s \in Seq(Op), "standby" \notin Ops(s), NEW t \in Seq(Op), Dims(t)
  PROVE  Dims(s \o t)
<1> DEFINE u == s \o t
<1>1. /\ Len(s) \in Nat /\ Len(t) \in Nat /\ Len(u) = Len(s) + Len(t)
      /\ \A k \in 1 .. Len(s) + Len(t) : u[k] = IF k <= Len(s) THEN s[k] ELSE t[k - Len(s)]
  BY ConcatProperties, LenProperties
<1> HIDE DEF u
<1>2. ASSUME NEW k \in 1 .. Len(u), u[k] = "standby"
      PROVE  /\ \A j \in k + 1 .. Len(u) : u[j] \notin Lights
             /\ \E j \in k + 1 .. Len(u) : u[j] = "led0"
             /\ \E j \in k + 1 .. Len(u) : u[j] = "lit0"
  <2>1. k > Len(s)
    <3>1. ASSUME k <= Len(s) PROVE FALSE
      <4>1. k \in 1 .. Len(s) /\ s[k] = "standby"
        BY <1>1, <1>2, <3>1
      <4> QED BY <4>1 DEF Ops
    <3> QED BY <1>1, <3>1
  <2>2. PICK m \in 1 .. Len(t) : m = k - Len(s)
    BY <1>1, <2>1
  <2>3. t[m] = "standby"
    BY <1>1, <1>2, <2>1, <2>2
  <2>4. /\ \A j \in m + 1 .. Len(t) : t[j] \notin Lights
        /\ \E j \in m + 1 .. Len(t) : t[j] = "led0"
        /\ \E j \in m + 1 .. Len(t) : t[j] = "lit0"
    BY <2>3 DEF Dims
  <2>5. ASSUME NEW j \in k + 1 .. Len(u) PROVE u[j] \notin Lights
    <3>1. PICK i \in m + 1 .. Len(t) : i = j - Len(s)
      BY <1>1, <2>2
    <3>2. u[j] = t[i]
      BY <1>1, <2>1, <3>1
    <3> QED BY <2>4, <3>2
  <2>6. ASSUME NEW i \in m + 1 .. Len(t)
        PROVE  i + Len(s) \in k + 1 .. Len(u) /\ u[i + Len(s)] = t[i]
    BY <1>1, <2>2
  <2> QED BY <2>4, <2>5, <2>6
<1>3. Dims(u)
  BY <1>2 DEF Dims
<1> QED BY <1>3 DEF u

\* "standby" and a list that clears both lights dims.
LEMMA DimsCons ==
  ASSUME NEW t \in Seq(Op), "standby" \notin Ops(t), Ops(t) \cap Lights = {}, {"led0", "lit0"} \subseteq Ops(t)
  PROVE  Dims(<<"standby">> \o t)
<1> DEFINE u == <<"standby">> \o t
<1>1. <<"standby">> \in Seq(Op) /\ Len(<<"standby">>) = 1
  BY DEF Op
<1>2. /\ Len(t) \in Nat /\ Len(u) = 1 + Len(t)
      /\ \A k \in 1 .. 1 + Len(t) : u[k] = IF k <= 1 THEN <<"standby">>[k] ELSE t[k - 1]
  BY <1>1, ConcatProperties, LenProperties
<1> HIDE DEF u
<1>3. ASSUME NEW j \in 2 .. Len(u) PROVE u[j] \in Ops(t)
  <2>1. j - 1 \in 1 .. Len(t) /\ u[j] = t[j - 1]
    BY <1>2
  <2> QED BY <2>1 DEF Ops
<1>4. ASSUME NEW op \in Ops(t) PROVE \E j \in 2 .. Len(u) : u[j] = op
  <2>1. PICK k \in 1 .. Len(t) : op = t[k]
    BY DEF Ops
  <2>2. k + 1 \in 2 .. Len(u) /\ u[k + 1] = t[k]
    BY <1>2
  <2> QED BY <2>1, <2>2
<1>5. ASSUME NEW k \in 1 .. Len(u), u[k] = "standby" PROVE k + 1 = 2
  <2>1. k \notin 2 .. Len(u)
    BY <1>3, <1>5
  <2> QED BY <1>2, <2>1
<1>6. /\ \A j \in 2 .. Len(u) : u[j] \notin Lights
      /\ \E j \in 2 .. Len(u) : u[j] = "led0"
      /\ \E j \in 2 .. Len(u) : u[j] = "lit0"
  BY <1>3, <1>4
<1>7. ASSUME NEW k \in 1 .. Len(u), u[k] = "standby"
      PROVE  /\ \A j \in k + 1 .. Len(u) : u[j] \notin Lights
             /\ \E j \in k + 1 .. Len(u) : u[j] = "led0"
             /\ \E j \in k + 1 .. Len(u) : u[j] = "lit0"
  BY ONLY <1>5, <1>6, <1>7
<1>8. Dims(u)
  BY <1>7 DEF Dims
<1> QED BY <1>8 DEF u
--------------------------------------------------------------------------------
(* The lists of the program. *)

\* The empty list is whole.
LEMMA PartNone == Part(<<>>)
BY EmptySeq DEF Part, Joined, Begins

\* So is an operation that needs no other.
LEMMA PartOne ==
  ASSUME NEW op \in Op \ ({"osd_arm", "lcd_arm", "osd_cancel"} \cup Stores)
  PROVE  Part(<<op>>) /\ Ops(<<op>>) = {op}
<1>1. <<op>> \in Seq(Op) /\ Len(<<op>>) = 1 /\ <<op>>[1] = op
  OBVIOUS
<1> QED BY <1>1, OpsOne DEF Part, Joined, Begins

\* A bit of sys_ctrl, the timer of the character display, the OSD and its timer.
LEMMA PartWrite ==
  ASSUME NEW bit \in Stores
  PROVE  Part(Write(bit)) /\ Ops(Write(bit)) = {"load", bit}
<1>1. <<"load", bit>> \in Seq(Op) /\ Len(<<"load", bit>>) = 2
      /\ <<"load", bit>>[1] = "load" /\ <<"load", bit>>[2] = bit
  BY DEF Stores, Op
<1> QED BY <1>1, OpsTwo DEF Part, Joined, Begins, Write, Stores

\* lcd_reset_timeout gives up the timeout before it arms the next (lcd.c 52-68).
LEMMA PartLcdTimer ==
  LET s == <<"lcd_cancel">> \o (IF lcd_bl_timeout # 0 THEN <<"lcd_arm">> ELSE <<>>) IN
  Part(s) /\ Ops(s) \subseteq {"lcd_cancel", "lcd_arm"}
<1> DEFINE a == <<"lcd_cancel">>
           b == <<"lcd_arm">>
<1>1. a \in Seq(Op) /\ b \in Seq(Op) /\ Len(a) = 1 /\ Len(b) = 1 /\ a[1] = "lcd_cancel" /\ b[1] = "lcd_arm"
  BY DEF Op
<1>2. Ops(a) = {"lcd_cancel"} /\ Ops(b) = {"lcd_arm"} /\ Part(a)
  BY PartOne, OpsOne DEF Op, Stores
<1> HIDE DEF a, b
<1>3. Ops(a \o b) = Ops(a) \cup Ops(b) /\ a \o b \in Seq(Op) /\ Len(a \o b) = 2
      /\ (a \o b)[1] = "lcd_cancel" /\ (a \o b)[2] = "lcd_arm"
  BY <1>1, OpsConcat, ConcatProperties
<1>4. Part(a \o b)
  <2> DEFINE u == a \o b
  <2>1. u \in Seq(Op) /\ Len(u) = 2
        /\ u[1] = "lcd_cancel" /\ u[2] = "lcd_arm"
    BY <1>3
  <2> HIDE DEF u
  <2>2. Part(u)
    BY <2>1 DEF Part, Joined, Begins, Stores
  <2> QED BY <2>2 DEF u
<1>5. a \o <<>> = a
  BY <1>1, ConcatEmptySeq
<1> QED BY <1>2, <1>3, <1>4, <1>5 DEF a, b

\* osd_set_menu_active gives up the timeout before it shows the menu.
LEMMA PartOsdOn == Part(<<"osd_cancel", "osd_on">>) /\ Ops(<<"osd_cancel", "osd_on">>) = {"osd_cancel", "osd_on"}
<1> DEFINE a == <<"osd_cancel", "osd_on">>
<1>1. a \in Seq(Op) /\ Len(a) = 2 /\ a[1] = "osd_cancel" /\ a[2] = "osd_on"
  BY DEF Op
<1>2. Ops(a) = {"osd_cancel", "osd_on"}
  BY OpsTwo
<1> HIDE DEF a
<1>3. Part(a)
  BY <1>1 DEF Part, Joined, Begins, Stores
<1> QED BY <1>2, <1>3 DEF a

\* osd_status gives up the timeout before it shows and arms the next (osd.c 127-151).
LEMMA PartOsdTimer ==
  LET s == <<"osd_cancel", "osd_on">> \o (IF osd_status_timeout # 0 THEN <<"osd_arm">> ELSE <<>>) IN
  Part(s) /\ Ops(s) \subseteq {"osd_cancel", "osd_on", "osd_arm"}
<1> DEFINE a == <<"osd_cancel", "osd_on">>
           b == <<"osd_arm">>
<1>1. a \in Seq(Op) /\ b \in Seq(Op) /\ Len(a) = 2 /\ Len(b) = 1
      /\ a[1] = "osd_cancel" /\ a[2] = "osd_on" /\ b[1] = "osd_arm"
  BY DEF Op
<1>2. Ops(a) = {"osd_cancel", "osd_on"} /\ Ops(b) = {"osd_arm"} /\ Part(a)
  BY PartOsdOn, OpsOne
<1> HIDE DEF a, b
<1>3. Ops(a \o b) = Ops(a) \cup Ops(b)
  BY <1>1, OpsConcat
<1>4. Part(a \o b)
  <2> DEFINE u == a \o b
  <2>1. u \in Seq(Op)
    BY <1>1, ConcatProperties
  <2>2. /\ Len(u) = Len(a) + Len(b)
        /\ \A k \in 1 .. Len(a) + Len(b) : u[k] = IF k <= Len(a) THEN a[k] ELSE b[k - Len(a)]
    BY <1>1, ConcatProperties
  <2> HIDE DEF u
  <2> DEFINE l == Len(a)
             m == Len(b)
             n == Len(u)
  <2>3. n = l + m /\ l = 2 /\ m = 1 /\ \A k \in 1 .. l + m : u[k] = IF k <= l THEN a[k] ELSE b[k - l]
    BY <1>1, <2>2
  <2> HIDE DEF l, m, n
  <2>4. n = 3 /\ u[1] = a[1] /\ u[2] = a[2] /\ u[3] = b[1]
    BY <2>3
  <2>5. u[1] = "osd_cancel" /\ u[2] = "osd_on" /\ u[3] = "osd_arm"
    BY <1>1, <2>4
  <2>6. Len(u) = 3
    BY <2>4 DEF n
  <2>7. Part(u)
    BY <2>1, <2>5, <2>6 DEF Part, Joined, Begins, Stores
  <2> QED BY <2>7 DEF u
<1>5. a \o <<>> = a
  BY <1>1, ConcatEmptySeq
<1> QED BY <1>2, <1>3, <1>4, <1>5 DEF a, b

\* What each function does and where, besides its order: the operations in its list.
LEMMA LcdRowPart ==
  /\ Part(LcdRow)
  /\ Ops(LcdRow) \subseteq {"lcd_cancel", "lcd_arm"} \cup (IF has_sh1107 THEN {"oled_on"} ELSE {"load", "lit1"})
<1> DEFINE a == IF has_sh1107 THEN <<"oled_on">> ELSE Write("lit1")
           b == IF lcd_bl_timeout # 0 THEN <<"lcd_arm">> ELSE <<>>
           c == <<"lcd_cancel">>
<1>1. Part(a) /\ Ops(a) \subseteq (IF has_sh1107 THEN {"oled_on"} ELSE {"load", "lit1"})
  BY PartOne, PartWrite DEF Op, Stores
<1>2. Part(c \o b) /\ Ops(c \o b) \subseteq {"lcd_cancel", "lcd_arm"}
  BY PartLcdTimer
<1>3. a \in Seq(Op) /\ b \in Seq(Op) /\ c \in Seq(Op)
  <2>1. a \in Seq(Op)
    BY <1>1 DEF Part
  <2>2. <<"lcd_arm">> \in Seq(Op) /\ c \in Seq(Op)
    BY DEF Op
  <2>3. <<>> \in Seq(Op)
    BY EmptySeq
  <2> QED BY <2>1, <2>2, <2>3
<1>4. LcdRow = (a \o c) \o b
  BY DEF LcdRow
<1> HIDE DEF a, b, c
<1>5. LcdRow = a \o (c \o b)
  BY <1>3, <1>4, ConcatAssociative
<1>6. c \o b \in Seq(Op)
  BY <1>2 DEF Part
<1>7. Part(LcdRow) /\ Ops(LcdRow) = Ops(a) \cup Ops(c \o b)
  BY <1>1, <1>2, <1>3, <1>5, <1>6, PartConcat, OpsConcat
<1> QED BY <1>1, <1>2, <1>7

\* lcd_write_row1 and lcd_write_row2.
LEMMA LcdRowsPart ==
  /\ Part(LcdRows)
  /\ Ops(LcdRows) \subseteq {"lcd_cancel", "lcd_arm"} \cup (IF has_sh1107 THEN {"oled_on"} ELSE {"load", "lit1"})
<1>1. LcdRow \in Seq(Op)
  BY LcdRowPart DEF Part
<1>2. Part(LcdRow \o LcdRow) /\ Ops(LcdRow \o LcdRow) = Ops(LcdRow) \cup Ops(LcdRow)
  BY <1>1, LcdRowPart, PartConcat, OpsConcat
<1>3. Ops(LcdRows) = Ops(LcdRow) /\ Part(LcdRows)
  BY <1>2 DEF LcdRows
<1> QED BY <1>3, LcdRowPart

\* osd_status, the only list that arms osd_off.
LEMMA OsdStatusPart ==
  /\ Part(OsdStatus)
  /\ Ops(OsdStatus) \subseteq {"lcd_cancel", "lcd_arm", "osd_cancel", "osd_on", "osd_arm", "osd_off"}
                               \cup (IF has_sh1107 THEN {"oled_on"} ELSE {"load", "lit1"})
<1> DEFINE a == <<"osd_cancel", "osd_on">> \o (IF osd_status_timeout # 0 THEN <<"osd_arm">> ELSE <<>>)
           b == IF OsdEnabled THEN a ELSE <<"osd_off">>
<1>1. Part(a) /\ Ops(a) \subseteq {"osd_cancel", "osd_on", "osd_arm"}
  BY PartOsdTimer
<1>2. Part(<<"osd_off">>) /\ Ops(<<"osd_off">>) = {"osd_off"}
  BY PartOne DEF Op, Stores
<1> HIDE DEF a
<1>3. Part(b) /\ Ops(b) \subseteq {"osd_cancel", "osd_on", "osd_arm", "osd_off"}
  BY <1>1, <1>2
<1>4. OsdStatus = LcdRows \o b
  BY DEF OsdStatus, a
<1> HIDE DEF b
<1>5. Part(OsdStatus) /\ Ops(OsdStatus) = Ops(LcdRows) \cup Ops(b)
  <2>1. LcdRows \in Seq(Op) /\ b \in Seq(Op)
    BY <1>3, LcdRowsPart DEF Part
  <2> QED BY <1>3, <1>4, <2>1, LcdRowsPart, PartConcat, OpsConcat
<1> QED BY <1>3, <1>5, LcdRowsPart

\* osd_set_menu_active(1); with the OSD enabled it shows the menu.
LEMMA OsdOpenPart ==
  /\ Part(OsdOpen)
  /\ Ops(OsdOpen) \subseteq {"osd_open", "osd_cancel", "osd_on", "osd_off"}
  /\ OsdEnabled => Ops(OsdOpen) = {"osd_open", "osd_cancel", "osd_on"}
<1> DEFINE a == <<"osd_open">>
           b == IF OsdEnabled THEN <<"osd_cancel", "osd_on">> ELSE <<"osd_off">>
<1>1. Part(a) /\ Ops(a) = {"osd_open"}
  BY PartOne DEF Op, Stores
<1>2. Part(b) /\ Ops(b) \subseteq {"osd_cancel", "osd_on", "osd_off"}
      /\ (OsdEnabled => Ops(b) = {"osd_cancel", "osd_on"})
  BY PartOne, PartOsdOn DEF Op, Stores
<1>3. OsdOpen = a \o b
  BY DEF OsdOpen
<1> HIDE DEF a, b
<1>4. a \in Seq(Op) /\ b \in Seq(Op)
  BY <1>1, <1>2 DEF Part
<1>5. Part(OsdOpen) /\ Ops(OsdOpen) = Ops(a) \cup Ops(b)
  BY <1>1, <1>2, <1>3, <1>4, PartConcat, OpsConcat
<1> QED BY <1>1, <1>2, <1>5

\* osd_set_menu_active(0); with the OLED it neither arms nor gives up osd_off, nor stores sys_ctrl.
LEMMA OsdClosePart ==
  /\ Part(OsdClose)
  /\ Ops(OsdClose) \subseteq {"osd_close", "lcd_cancel", "lcd_arm", "osd_off_if_idle", "osd_off"}
                             \cup (IF has_sh1107 THEN {"oled_on"} ELSE {"load", "lit1"})
<1> DEFINE a == <<"osd_close">>
           b == IF OsdEnabled THEN <<"osd_off_if_idle">> ELSE <<"osd_off">>
<1>1. Part(a) /\ Ops(a) = {"osd_close"}
  BY PartOne DEF Op, Stores
<1>2. Part(b) /\ Ops(b) \subseteq {"osd_off_if_idle", "osd_off"}
  BY PartOne DEF Op, Stores
<1>3. OsdClose = (a \o LcdRows) \o b
  BY DEF OsdClose
<1> HIDE DEF a, b
<1>4. a \in Seq(Op) /\ b \in Seq(Op) /\ LcdRows \in Seq(Op)
  BY <1>1, <1>2, LcdRowsPart DEF Part
<1>5. Part(a \o LcdRows) /\ Ops(a \o LcdRows) = Ops(a) \cup Ops(LcdRows) /\ a \o LcdRows \in Seq(Op)
  BY <1>1, <1>4, LcdRowsPart, PartConcat, OpsConcat DEF Part
<1>6. Part(OsdClose) /\ Ops(OsdClose) = (Ops(a) \cup Ops(LcdRows)) \cup Ops(b)
  BY <1>2, <1>3, <1>4, <1>5, PartConcat, OpsConcat
<1> QED BY <1>1, <1>2, <1>6, LcdRowsPart

\* The blink of a key clears the LED.
LEMMA BlinkPart == Part(Blink) /\ Ops(Blink) = {"load", "led0", "led_arm"}
<1> DEFINE a == Write("led0")
           b == <<"led_arm">>
<1>1. Part(a) /\ Ops(a) = {"load", "led0"}
  BY PartWrite DEF Stores
<1>2. Part(b) /\ Ops(b) = {"led_arm"}
  BY PartOne DEF Op, Stores
<1>3. Blink = a \o b
  BY DEF Blink
<1> HIDE DEF a, b
<1>4. a \in Seq(Op) /\ b \in Seq(Op)
  BY <1>1, <1>2 DEF Part
<1> QED BY <1>1, <1>2, <1>3, <1>4, PartConcat, OpsConcat

\* What a concatenation of whole lists is and does.
LEMMA PartsConcat ==
  ASSUME NEW s, Part(s), NEW t, Part(t)
  PROVE  Part(s \o t) /\ Ops(s \o t) = Ops(s) \cup Ops(t)
BY PartConcat, OpsConcat DEF Part

\* enter_standby clears the LED and the backlight.
LEMMA EnterStandbyPart ==
  /\ Part(EnterStandby) /\ Dims(EnterStandby)
  /\ Ops(EnterStandby) = {"standby", "load", "lit0", "led0", "other"}
<1> DEFINE a == <<"standby">>
           b == Write("lit0")
           c == Write("led0")
           d == Write("other")
           t == (b \o c) \o d
<1>1. Part(a) /\ Ops(a) = {"standby"} /\ Part(b) /\ Ops(b) = {"load", "lit0"}
      /\ Part(c) /\ Ops(c) = {"load", "led0"} /\ Part(d) /\ Ops(d) = {"load", "other"}
  BY PartOne, PartWrite DEF Op, Stores
<1>2. EnterStandby = ((a \o b) \o c) \o d
  BY DEF EnterStandby
<1> HIDE DEF b, c, d
<1>3. Part(b \o c) /\ Ops(b \o c) = Ops(b) \cup Ops(c)
  BY <1>1, PartsConcat
<1>4. Part(t) /\ Ops(t) = (Ops(b) \cup Ops(c)) \cup Ops(d)
  BY <1>1, <1>3, PartsConcat
<1>5. a \in Seq(Op) /\ b \in Seq(Op) /\ c \in Seq(Op) /\ d \in Seq(Op) /\ b \o c \in Seq(Op) /\ t \in Seq(Op)
  BY <1>1, <1>3, <1>4 DEF Part
<1>6. EnterStandby = (a \o (b \o c)) \o d
  BY <1>2, <1>5, ConcatAssociative
<1>7. EnterStandby = a \o t
  BY <1>5, <1>6, ConcatAssociative
<1> HIDE DEF t
<1>8. Part(EnterStandby) /\ Ops(EnterStandby) = Ops(a) \cup Ops(t)
  BY <1>1, <1>4, <1>7, PartsConcat
<1>9. Ops(t) = {"load", "lit0", "led0", "other"}
  BY <1>1, <1>4
<1>10. Dims(EnterStandby)
  <2>1. "standby" \notin Ops(t) /\ Ops(t) \cap Lights = {} /\ {"led0", "lit0"} \subseteq Ops(t)
    BY <1>9 DEF Lights
  <2> QED BY <1>5, <1>7, <2>1, DimsCons
<1> QED BY <1>1, <1>8, <1>9, <1>10

\* exit_standby and init_hw leave standby before they light anything.
LEMMA ExitStandbyPart ==
  /\ Part(ExitStandby)
  /\ Ops(ExitStandby) \subseteq {"wake", "load", "lit1", "led1", "other", "wait", "oled_off", "status"}
  /\ "wake" \in Ops(ExitStandby)
<1> DEFINE a == <<"wake">>
           b == Write("lit1")
           c == Write("led1")
           d == Write("other")
           e == <<"wait">>
           f == IF has_sh1107 THEN <<"oled_off">> ELSE <<>>
           g == <<"status">>
<1>1. Part(a) /\ Ops(a) = {"wake"} /\ Part(b) /\ Ops(b) = {"load", "lit1"}
      /\ Part(c) /\ Ops(c) = {"load", "led1"} /\ Part(d) /\ Ops(d) = {"load", "other"}
  BY PartOne, PartWrite DEF Op, Stores
<1>2. Part(e) /\ Ops(e) = {"wait"} /\ Part(g) /\ Ops(g) = {"status"}
  BY PartOne DEF Op, Stores
<1>3. Part(f) /\ Ops(f) \subseteq {"oled_off"}
  BY PartOne, PartNone, OpsEmpty DEF Op, Stores
<1>4. ExitStandby = (((((a \o b) \o c) \o d) \o e) \o f) \o g
  BY DEF ExitStandby
<1> HIDE DEF a, b, c, d, e, f, g
<1>5. Part(a \o b) /\ Ops(a \o b) = Ops(a) \cup Ops(b)
  BY <1>1, PartsConcat
<1>6. Part((a \o b) \o c) /\ Ops((a \o b) \o c) = (Ops(a) \cup Ops(b)) \cup Ops(c)
  BY <1>1, <1>5, PartsConcat
<1>7. Part(((a \o b) \o c) \o d) /\ Ops(((a \o b) \o c) \o d) = ((Ops(a) \cup Ops(b)) \cup Ops(c)) \cup Ops(d)
  BY <1>1, <1>6, PartsConcat
<1> DEFINE h == ((a \o b) \o c) \o d
<1>8. Part(h) /\ Ops(h) = {"wake", "load", "lit1", "led1", "other"}
  BY <1>1, <1>7
<1>9. ExitStandby = ((h \o e) \o f) \o g
  BY <1>4
<1> HIDE DEF h
<1>10. Part(h \o e) /\ Ops(h \o e) = Ops(h) \cup Ops(e)
  BY <1>2, <1>8, PartsConcat
<1>11. Part((h \o e) \o f) /\ Ops((h \o e) \o f) = (Ops(h) \cup Ops(e)) \cup Ops(f)
  BY <1>3, <1>10, PartsConcat
<1>12. Part(ExitStandby) /\ Ops(ExitStandby) = ((Ops(h) \cup Ops(e)) \cup Ops(f)) \cup Ops(g)
  BY <1>2, <1>9, <1>11, PartsConcat
<1> QED BY <1>2, <1>3, <1>8, <1>12
--------------------------------------------------------------------------------
(* What an operation does. *)

IsPool(t) == t = [i \in Slot |-> t[i]]

\* The timer the main program has claimed is for the operation that is next; meanwhile
\* only print_vm_stats_hide may use it, which arms nothing but the OLED's timeout.
Claimed(slot, others, since, op) ==
  [slot |-> slot, cb |-> Asked(op).cb, usec |-> Asked(op).usec, since |-> since, others |-> others]
ClaimInv ==
  claim = T!NoClaim \/
    /\ todo # <<>> /\ Head(todo) \in Arms
    /\ \E slot \in Slot, others \in SUBSET {"none", "lcd_off"}, since \in {claim.since} :
         /\ has_sh1107 \/ others = {}
         /\ timer[slot].cb = "none"
         /\ claim = Claimed(slot, others, since, Head(todo))

\* The operation that is done now.
Current(op) ==
  IF irq = <<>> THEN todo # <<>> /\ op = Head(todo) ELSE op \in IrqOp /\ has_sh1107

\* What becomes of the claim, and what a callback may leave in any timer.
Claims ==
  IF irq = <<>> THEN claim' = T!NoClaim
  ELSE /\ \/ claim' = claim
          \/ claim # T!NoClaim /\ \E cb \in {"none", "lcd_off"} : claim' = [claim EXCEPT !.others = @ \cup {cb}]
       /\ \A i \in Slot : i = claim.slot => timer'[i].cb = timer[i].cb \/ timer'[i].cb = "none"

\* timer_timeout gives the callback one timer, the one it returns the number of, or none;
\* what it leaves in a timer that callbacks have used meanwhile may be theirs.
LEMMA ArmTimers ==
  ASSUME IsPool(timer), ClaimInv, NEW op \in Arms, Current(op), NEW idx \in Slot \cup {None}, ArmFor(idx, op)
  PROVE  /\ IsPool(timer') /\ Claims
         /\ \A i \in Slot : \/ timer'[i].cb = timer[i].cb \/ timer'[i].cb = "none"
                            \/ i = idx /\ timer'[i].cb = Asked(op).cb
                            \/ has_sh1107 /\ timer'[i].cb = "lcd_off"
<1> DEFINE cb == Asked(op).cb
           usec == Asked(op).usec
<1>0. Arm(idx, cb, usec)
  BY DEF ArmFor
<1>1. CASE irq = <<>> /\ idx = claim.slot /\ T!Fill
  <2>1. op = Head(todo)
    BY <1>1 DEF Current
  <2>2. PICK slot \in Slot, others \in SUBSET {"none", "lcd_off"}, since \in {claim.since} :
          (has_sh1107 \/ others = {}) /\ claim = Claimed(slot, others, since, op)
    BY <1>1, <2>1 DEF ClaimInv, T!Fill
  <2>3. claim.slot = slot /\ claim.cb = cb /\ claim.others = others
    BY <2>2 DEF Claimed
  <2> HIDE DEF cb, usec
  <2>4. PICK new \in T!Outcomes :
          timer' = [timer EXCEPT ![slot] = IF new.due = 0 THEN T!Free ELSE T!Armed(new.cb, T!Later(now, new.due))]
    BY <1>1, <2>3 DEF T!Fill
  <2>5. new.cb \in {"none", cb} \cup (IF has_sh1107 THEN {"lcd_off"} ELSE {})
    <3>1. CASE others = {}
      <4>1. PICK due : new = T!Armed(cb, due)
        BY <2>3, <2>4, <3>1 DEF T!Outcomes
      <4> QED BY <4>1 DEF T!Armed
    <3>2. CASE others # {}
      <4>1. \/ new = T!Free
            \/ \E by \in (others \cup {cb}) \ {T!NoCb} : \E due : new = T!Armed(by, due)
        BY <2>3, <2>4, <3>2 DEF T!Outcomes
      <4>2. has_sh1107
        BY <2>2, <3>2
      <4>3. others \subseteq {"none", "lcd_off"}
        BY <2>2
      <4>4. CASE new = T!Free
        BY <4>4 DEF T!Armed, T!Free, T!NoCb
      <4>5. ASSUME NEW by \in (others \cup {cb}) \ {T!NoCb}, NEW due, new = T!Armed(by, due)
            PROVE  new.cb \in {"none", cb, "lcd_off"}
        <5>1. new.cb = by
          BY <4>5 DEF T!Armed
        <5>2. by \in {"none", cb, "lcd_off"}
          BY <4>3, <4>5
        <5> QED BY <5>1, <5>2
      <4>6. new.cb \in {"none", cb, "lcd_off"}
        BY <4>1, <4>4, <4>5
      <4> QED BY <4>2, <4>6
    <3> QED BY <3>1, <3>2
  <2>6. timer'[slot].cb = "none" \/ timer'[slot].cb = new.cb
    <3>1. timer'[slot] = IF new.due = 0 THEN T!Free ELSE T!Armed(new.cb, T!Later(now, new.due))
      BY <2>4 DEF IsPool
    <3> QED BY <3>1 DEF T!Free, T!Armed, T!NoCb
  <2>7. \A i \in Slot : i # slot => timer'[i].cb = timer[i].cb
    BY <2>4
  <2>8. IsPool(timer')
    BY <2>4 DEF IsPool
  <2>9. claim' = T!NoClaim
    BY <1>1 DEF T!Fill
  <2> QED BY <1>1, <2>3, <2>5, <2>6, <2>7, <2>8, <2>9 DEF Claims, cb
<1>2. CASE irq # <<>> /\ idx \in Slot /\ LowestFree(idx) /\ T!CallbackArm(idx, cb, usec)
  <2>1. op = "lcd_arm" /\ cb = "lcd_off"
    BY <1>2 DEF Current, IrqOp, Arms, Asked
  <2> HIDE DEF cb, usec
  <2>2. CASE idx = claim.slot
    <3>1. timer' = timer /\ claim' = [claim EXCEPT !.others = @ \cup {cb}]
      BY <1>2, <2>2 DEF T!CallbackArm, T!Becomes, T!Use, T!pool, T!Armed
    <3>2. claim # T!NoClaim
      BY <1>2, <2>2 DEF T!NoClaim, T!None, Slot
    <3> QED BY <1>2, <2>1, <3>1, <3>2 DEF Claims
  <2>3. CASE idx # claim.slot
    <3>1. timer' = [timer EXCEPT ![idx] = T!Armed(cb, now + usec)] /\ claim' = claim
      BY <1>2, <2>3 DEF T!CallbackArm, T!Becomes, T!Use, T!pool
    <3>2. IsPool(timer') /\ \A i \in Slot : timer'[i].cb = timer[i].cb \/ (i = idx /\ timer'[i].cb = cb)
      BY <3>1 DEF IsPool, T!Armed
    <3>3. Claims
      BY <1>2, <2>3, <3>1, <3>2 DEF Claims
    <3> QED BY <3>2, <3>3 DEF cb
  <2> QED BY <2>2, <2>3
<1>3. CASE idx = None /\ (irq = <<>> => claim = T!NoClaim) /\ PoolFull /\ UNCHANGED timers
  BY <1>3 DEF timers, Claims
<1> HIDE DEF cb, usec
<1> QED BY <1>0, <1>1, <1>2, <1>3 DEF Arm

\* timer_cancel frees the timer it is given; a callback may be given the claimed one.
LEMMA DropTimers ==
  ASSUME IsPool(timer), ClaimInv, NEW op, Current(op), op \notin Arms, NEW idx, Drop(idx)
  PROVE  /\ IsPool(timer') /\ Claims
         /\ \A i \in Slot : /\ timer'[i].cb = timer[i].cb \/ timer'[i].cb = "none"
                            /\ i = idx => timer'[i].cb = "none"
<1>1. CASE idx = None
  <2>1. \A i \in Slot : i # idx
    BY <1>1 DEF Slot, None
  <2>2. UNCHANGED timers
    BY <1>1 DEF Drop
  <2>3. irq = <<>> => claim = T!NoClaim
    BY DEF Current, ClaimInv
  <2> QED BY <2>1, <2>2, <2>3 DEF timers, Claims
<1>2. CASE idx # None /\ irq = <<>>
  <2>1. timer' = [timer EXCEPT ![idx] = T!Free] /\ claim' = T!NoClaim
    BY <1>2 DEF Drop, T!Cancel
  <2> QED BY <1>2, <2>1 DEF Claims, T!Free, T!Armed, T!NoCb, IsPool
<1>3. CASE idx # None /\ irq # <<>>
  <2>1. T!CallbackCancel(idx)
    BY <1>3 DEF Drop
  <2>2. timer' = T!Use(T!pool, idx, T!Free).timer /\ claim' = T!Use(T!pool, idx, T!Free).claim
    BY <1>3, <2>1 DEF T!CallbackCancel, T!Becomes, T!Freed, T!None, None
  <2>3. CASE idx = claim.slot
    <3>1. timer' = timer /\ claim' = [claim EXCEPT !.others = @ \cup {"none"}]
      BY <2>2, <2>3 DEF T!Use, T!pool, T!Free, T!Armed, T!NoCb
    <3>2. \A i \in Slot : i = idx => timer[i].cb = "none"
      BY <2>3 DEF ClaimInv, Claimed, T!NoClaim, T!None, Slot
    <3>3. claim # T!NoClaim
      BY <1>3, <2>3 DEF T!NoClaim, T!None, None
    <3> QED BY <1>3, <3>1, <3>2, <3>3 DEF Claims
  <2>4. CASE idx # claim.slot
    <3>1. timer' = [timer EXCEPT ![idx] = T!Free] /\ claim' = claim
      BY <2>2, <2>4 DEF T!Use, T!pool
    <3> QED BY <1>3, <3>1 DEF Claims, T!Free, T!Armed, T!NoCb, IsPool
  <2> QED BY <2>3, <2>4
<1> QED BY <1>1, <1>2, <1>3

\* The callback a timer has after an operation it did not have before.
Armed(op, i) ==
  \/ timer'[i].cb = timer[i].cb \/ timer'[i].cb = "none"
  \/ op = "osd_arm" /\ timer'[i].cb = "osd_off" /\ osd_idx' = i
  \/ op = "lcd_arm" /\ timer'[i].cb = "lcd_off" /\ lcd_idx' = i
  \/ op = "led_arm" /\ timer'[i].cb = "controls_reset_led"
  \/ op = "info_arm" /\ timer'[i].cb = "print_vm_stats_hide"
  \/ has_sh1107 /\ timer'[i].cb = "lcd_off"

\* The timers after an operation, and the numbers the clients keep.
Timed(op) ==
  /\ IsPool(timer') /\ Claims /\ \A i \in Slot : Armed(op, i)
  /\ op \notin {"osd_cancel", "osd_arm"} => osd_idx' = osd_idx
  /\ op \notin {"lcd_cancel", "lcd_arm"} => lcd_idx' = lcd_idx
  /\ op = "osd_cancel" => osd_idx' = None /\ \A i \in Slot : i = osd_idx => timer'[i].cb = "none"
  /\ op = "lcd_cancel" => lcd_idx' = None /\ \A i \in Slot : i = lcd_idx => timer'[i].cb = "none"

\* A timer is armed by the operation that keeps its number, and is freed at any time.
LEMMA DoTimed ==
  ASSUME IsPool(timer), ClaimInv, NEW op, Current(op), Do(op)
  PROVE  Timed(op)
<1>1. CASE UNCHANGED timers /\ UNCHANGED <<osd_idx, lcd_idx>> /\ op \notin {"osd_cancel", "lcd_cancel"} \cup Arms
  <2>1. irq = <<>> => claim = T!NoClaim
    BY <1>1 DEF Current, ClaimInv
  <2> QED BY <1>1, <2>1 DEF Timed, Armed, timers, Claims
<1>2. CASE op = "osd_cancel" /\ Drop(osd_idx) /\ osd_idx' = None /\ lcd_idx' = lcd_idx
  <2>1. op \notin Arms
    BY <1>2 DEF Arms
  <2> QED BY <1>2, <2>1, DropTimers DEF Timed, Armed
<1>3. CASE op = "osd_arm" /\ (\E idx \in Slot \cup {None} : ArmFor(idx, op) /\ osd_idx' = idx) /\ lcd_idx' = lcd_idx
  <2>1. op \in Arms /\ Asked(op).cb = "osd_off"
    BY <1>3 DEF Arms, Asked
  <2>2. PICK idx \in Slot \cup {None} : ArmFor(idx, op) /\ osd_idx' = idx
    BY <1>3
  <2> QED BY <1>3, <2>1, <2>2, ArmTimers DEF Timed, Armed
<1>4. CASE op = "lcd_cancel" /\ Drop(lcd_idx) /\ lcd_idx' = None /\ osd_idx' = osd_idx
  <2>1. op \notin Arms
    BY <1>4 DEF Arms
  <2> QED BY <1>4, <2>1, DropTimers DEF Timed, Armed
<1>5. CASE op = "lcd_arm" /\ (\E idx \in Slot \cup {None} : ArmFor(idx, op) /\ lcd_idx' = idx) /\ osd_idx' = osd_idx
  <2>1. op \in Arms /\ Asked(op).cb = "lcd_off"
    BY <1>5 DEF Arms, Asked
  <2>2. PICK idx \in Slot \cup {None} : ArmFor(idx, op) /\ lcd_idx' = idx
    BY <1>5
  <2> QED BY <1>5, <2>1, <2>2, ArmTimers DEF Timed, Armed
<1>6. CASE op \in {"led_arm", "info_arm"} /\ (\E idx \in Slot \cup {None} : ArmFor(idx, op)) /\ UNCHANGED <<osd_idx, lcd_idx>>
  <2>1. /\ op \in Arms
        /\ op = "led_arm" => Asked(op).cb = "controls_reset_led"
        /\ op = "info_arm" => Asked(op).cb = "print_vm_stats_hide"
    BY <1>6 DEF Arms, Asked
  <2>2. PICK idx \in Slot \cup {None} : ArmFor(idx, op)
    BY <1>6
  <2> QED BY <1>6, <2>1, <2>2, ArmTimers DEF Timed, Armed
<1>8. CASE OsdTimer(op)
  BY <1>2, <1>3, <1>8 DEF OsdTimer, lcdVars
<1>9. CASE LcdTimer(op)
  BY <1>4, <1>5, <1>9 DEF LcdTimer, osdVars
<1>10. CASE OtherTimer(op)
  BY <1>6, <1>10 DEF OtherTimer, osdVars, lcdVars
<1>11. CASE ~ OsdTimer(op) /\ ~ LcdTimer(op) /\ ~ OtherTimer(op)
  <2>1. UNCHANGED timers /\ UNCHANGED <<osd_idx, lcd_idx>> /\ op \notin {"osd_cancel", "lcd_cancel"} \cup Arms
    BY <1>11 DEF Do, Load, Store, EnableOsd, EnableOled, SetMenuActive, SetStandby, osdVars, lcdVars, Rest, Arms
  <2> QED BY <1>1, <2>1
<1> QED BY <1>8, <1>9, <1>10, <1>11

\* The LED and the backlight after an operation.
Lit(op) ==
  /\ op \notin Stores => led_g' = led_g
  /\ op = "led0" => ~ led_g'
  /\ op \in Stores \ {"led0", "led1"} => led_g' = word.led_g
  /\ op \notin Stores \cup {"oled_on", "oled_off"} => lit' = lit
  /\ op = "lit0" /\ ~ has_sh1107 => ~ lit'
  /\ op \in Stores \ {"lit0", "lit1"} /\ ~ has_sh1107 => lit' = word.lit
  /\ op = "oled_off" => ~ lit'
  /\ op = "load" => word'.led_g = led_g /\ word'.lit = lit
  /\ op # "load" => word' = word

\* What is shown, the menu and standby after an operation.
Shown(op) ==
  /\ has_sh1107' = has_sh1107 /\ menu_active' = menu_active
  /\ op \notin {"osd_on", "osd_off", "osd_off_if_idle"} => osd' = osd
  /\ op = "osd_on" => osd'
  /\ op \notin {"osd_open", "osd_close"} => osd_menu_active' = osd_menu_active
  /\ op = "osd_open" => osd_menu_active'
  /\ op \notin {"standby", "wake"} => in_standby' = in_standby
  /\ op = "wake" => ~ in_standby'

\* Only a store changes the LED and the backlight, from what was loaded.
LEMMA DoLit ==
  ASSUME NEW op, Do(op)
  PROVE  Lit(op)
<1>1. CASE op = "load" /\ Load
  BY <1>1 DEF Load, Lit, Stores, lcdVars
<1>2. CASE op \in {"led0", "led1", "lit0", "lit1", "other"} /\ Store(op)
  BY <1>2 DEF Store, Lit, Stores
<1>3. CASE op \in {"oled_on", "oled_off"} /\ EnableOled(op = "oled_on")
  BY <1>3 DEF EnableOled, Lit, Stores
<1>4. CASE op \notin Stores \cup {"load", "oled_on", "oled_off"} /\ UNCHANGED <<led_g, lit, word>>
  BY <1>4 DEF Lit, Stores
<1>5. CASE op \notin Stores \cup {"load", "oled_on", "oled_off"}
  BY <1>4, <1>5 DEF Do, Stores, EnableOsd, SetMenuActive, SetStandby, OsdTimer, LcdTimer, OtherTimer, lcdVars, Rest
<1> QED BY <1>1, <1>2, <1>3, <1>5 DEF Do, Stores, OsdTimer, LcdTimer, OtherTimer

\* Each flag is written by the operations named for it.
LEMMA DoShown ==
  ASSUME NEW op, Do(op)
  PROVE  Shown(op)
<1>1. has_sh1107' = has_sh1107 /\ menu_active' = menu_active
  BY DEF Do, Load, Store, EnableOsd, EnableOled, SetMenuActive, SetStandby, OsdTimer, LcdTimer, OtherTimer,
         osdVars, lcdVars, flags, Rest
<1>2. /\ op \notin {"osd_on", "osd_off", "osd_off_if_idle"} => osd' = osd
      /\ op = "osd_on" => osd'
  BY DEF Do, Load, Store, EnableOsd, EnableOled, SetMenuActive, SetStandby, OsdTimer, LcdTimer, OtherTimer,
         osdVars, lcdVars, flags, Rest
<1>3. /\ op \notin {"osd_open", "osd_close"} => osd_menu_active' = osd_menu_active
      /\ op = "osd_open" => osd_menu_active'
  BY DEF Do, Load, Store, EnableOsd, EnableOled, SetMenuActive, SetStandby, OsdTimer, LcdTimer, OtherTimer,
         osdVars, lcdVars, flags, Rest
<1>4. /\ op \notin {"standby", "wake"} => in_standby' = in_standby
      /\ op = "wake" => ~ in_standby'
  BY DEF Do, Load, Store, EnableOsd, EnableOled, SetMenuActive, SetStandby, OsdTimer, LcdTimer, OtherTimer,
         osdVars, lcdVars, flags, Rest
<1> QED BY <1>1, <1>2, <1>3, <1>4 DEF Shown
--------------------------------------------------------------------------------
(* The invariant. *)

\* What the first operations of the list need is done.
Started(s) ==
  /\ Len(s) > 0 /\ s[1] = "lcd_arm" => lcd_idx = None \/ has_sh1107
  /\ Len(s) > 0 /\ s[1] = "osd_arm" => osd_idx = None
  /\ Len(s) > 1 /\ s[2] = "osd_arm" => osd_idx = None

\* The main program's list is what is left of the lists of the program, in their order.
ListInv == todo \in Seq(Op) /\ Joined(todo) /\ Dims(todo) /\ Started(todo)

\* Only with the OLED does the statistics page arm its timer and write from the interrupt,
\* and what it writes there arms no timer of the OSD and no bit of sys_ctrl.
PageInv ==
  /\ IsPool(timer)
  /\ irq \in Seq(Op) /\ Ops(irq) \subseteq IrqOp
  /\ has_sh1107 \/ (/\ irq = <<>> /\ Ops(todo) \cap {"info_arm", "oled_on"} = {}
                    /\ \A i \in Slot : timer[i].cb # "print_vm_stats_hide")
  /\ "osd_open" \in Ops(todo) => "status" \notin Ops(todo)

\* The main program loaded sys_ctrl and stores it next.
Storing == todo # <<>> /\ Head(todo) \in Stores

\* In standby, or on the way to it, what is lit or about to be lit is about to be cleared.
DarkInv ==
  in_standby /\ "wake" \notin Ops(todo) =>
    /\ Ops(todo) \cap Lights = {}
    /\ led_g \/ (Storing /\ word.led_g) => "led0" \in Ops(todo)
    /\ ~ has_sh1107 /\ (lit \/ (Storing /\ word.lit)) => "lit0" \in Ops(todo)

\* With the menu open, nothing takes it away that is not about to be taken back.
MenuInv ==
  ~ has_sh1107 /\ menu_active /\ OsdEnabled =>
    /\ Ops(todo) \cap {"osd_off", "osd_off_if_idle", "osd_close", "osd_arm"} = {}
    /\ osd_menu_active \/ "osd_open" \in Ops(todo)
    /\ (\A i \in Slot : timer[i].cb # "osd_off") \/ "osd_cancel" \in Ops(todo)
    /\ osd \/ "osd_on" \in Ops(todo)

DInv == TimersKnown /\ ListInv /\ PageInv /\ ClaimInv /\ DarkInv /\ MenuInv

\* A list needs nothing more when its first operation is done.
LEMMA Advance ==
  ASSUME NEW s \in Seq(Op), s # <<>>, Joined(s), Dims(s), Started(s)
  PROVE  LET t == Tail(s) IN
         /\ Joined(t) /\ Dims(t)
         /\ Len(t) > 0 /\ t[1] = "lcd_arm" => Head(s) = "lcd_cancel"
         /\ Len(t) > 0 /\ t[1] = "osd_arm" => Head(s) = "osd_on" /\ osd_idx = None
         /\ Len(t) > 1 /\ t[2] = "osd_arm" => Head(s) = "osd_cancel"
         /\ Len(t) > 0 /\ t[1] \in Stores => Head(s) = "load"
         /\ Head(s) = "lcd_arm" => lcd_idx = None \/ has_sh1107
         /\ Head(s) = "osd_arm" => osd_idx = None
         /\ Head(s) = "osd_cancel" => "osd_on" \in Ops(t)
         /\ Head(s) = "standby" => Ops(t) \cap Lights = {} /\ {"led0", "lit0"} \subseteq Ops(t)
<1> DEFINE t == Tail(s)
<1>1. PICK n \in Nat : n = Len(t)
  BY HeadTailProperties, LenProperties
<1>2. Len(s) = n + 1 /\ Head(s) = s[1] /\ \A k \in 1 .. n : t[k] = s[k + 1]
  <2>1. /\ Len(t) = Len(s) - 1 /\ Len(s) \in Nat \ {0}
        /\ Head(s) = s[1]
        /\ \A k \in 1 .. Len(t) : t[k] = s[k + 1]
    BY OpsTail
  <2> HIDE DEF t
  <2> QED BY <1>1, <2>1
<1> HIDE DEF t
<1>3. /\ \A k \in 2 .. n + 1 :
           /\ s[k] = "osd_arm" => s[k - 1] = "osd_on"
           /\ s[k] = "osd_arm" /\ k > 2 => s[k - 2] = "osd_cancel"
           /\ s[k] = "lcd_arm" => s[k - 1] = "lcd_cancel"
           /\ s[k] \in Stores => s[k - 1] = "load"
      /\ \A k \in 1 .. n + 1 : s[k] = "osd_cancel" => k < n + 1 /\ s[k + 1] = "osd_on"
  BY <1>2 DEF Joined
<1>4. ASSUME NEW k \in 2 .. n
      PROVE  /\ t[k] = "osd_arm" => t[k - 1] = "osd_on"
             /\ t[k] = "osd_arm" /\ k > 2 => t[k - 2] = "osd_cancel"
             /\ t[k] = "lcd_arm" => t[k - 1] = "lcd_cancel"
             /\ t[k] \in Stores => t[k - 1] = "load"
  <2>1. k + 1 \in 2 .. n + 1 /\ (k + 1) - 1 = k /\ (k + 1) - 2 = k - 1
    OBVIOUS
  <2>2. t[k] = s[k + 1] /\ t[k - 1] = s[k] /\ (k > 2 => t[k - 2] = s[k - 1])
    BY <1>2
  <2> QED BY <1>3, <2>1, <2>2
<1>5. ASSUME NEW k \in 1 .. n, t[k] = "osd_cancel" PROVE k < n /\ t[k + 1] = "osd_on"
  <2>1. k + 1 \in 1 .. n + 1 /\ s[k + 1] = "osd_cancel"
    BY <1>2, <1>5
  <2>2. k + 1 < n + 1 /\ s[(k + 1) + 1] = "osd_on"
    BY <1>3, <2>1
  <2> QED BY <1>2, <2>2
<1>6. Joined(t)
  BY <1>1, <1>4, <1>5 DEF Joined
<1>7. ASSUME NEW k \in 1 .. n + 1, s[k] = "standby"
      PROVE  /\ \A j \in k .. n : t[j] \notin Lights
             /\ \E j \in k .. n : t[j] = "led0"
             /\ \E j \in k .. n : t[j] = "lit0"
  <2>1. /\ \A j \in k + 1 .. n + 1 : s[j] \notin Lights
        /\ \E j \in k + 1 .. n + 1 : s[j] = "led0"
        /\ \E j \in k + 1 .. n + 1 : s[j] = "lit0"
    BY <1>2, <1>7 DEF Dims
  <2>2. ASSUME NEW j \in k .. n PROVE t[j] = s[j + 1] /\ j + 1 \in k + 1 .. n + 1
    BY <1>2
  <2>3. ASSUME NEW j \in k + 1 .. n + 1 PROVE t[j - 1] = s[j] /\ j - 1 \in k .. n
    BY <1>2
  <2> QED BY <2>1, <2>2, <2>3
<1>8. Dims(t)
  <2>1. ASSUME NEW k \in 1 .. n, t[k] = "standby"
        PROVE  /\ \A j \in k + 1 .. n : t[j] \notin Lights
               /\ \E j \in k + 1 .. n : t[j] = "led0"
               /\ \E j \in k + 1 .. n : t[j] = "lit0"
    <3>1. k + 1 \in 1 .. n + 1 /\ s[k + 1] = "standby"
      BY <1>2, <2>1
    <3> QED BY <1>7, <3>1
  <2> QED BY <1>1, <2>1 DEF Dims
<1>9. n > 0 => t[1] = s[2] /\ 2 \in 2 .. n + 1
  BY <1>2
<1>10. n > 1 => t[2] = s[3] /\ 3 \in 2 .. n + 1
  BY <1>2
<1>11. n > 0 /\ t[1] = "lcd_arm" => Head(s) = "lcd_cancel"
  BY <1>2, <1>3, <1>9
<1>12. n > 0 /\ t[1] = "osd_arm" => Head(s) = "osd_on" /\ osd_idx = None
  BY <1>2, <1>3, <1>9 DEF Started
<1>13. n > 1 /\ t[2] = "osd_arm" => Head(s) = "osd_cancel"
  BY <1>2, <1>3, <1>10
<1>14. n > 0 /\ t[1] \in Stores => Head(s) = "load"
  BY <1>2, <1>3, <1>9
<1>15. /\ Head(s) = "lcd_arm" => lcd_idx = None \/ has_sh1107
       /\ Head(s) = "osd_arm" => osd_idx = None
  BY <1>2 DEF Started
<1>16. ASSUME Head(s) = "osd_cancel" PROVE "osd_on" \in Ops(t)
  <2>1. 1 < n + 1 /\ s[2] = "osd_on"
    BY <1>2, <1>3, <1>16
  <2>2. 1 \in 1 .. Len(t) /\ t[1] = "osd_on"
    BY <1>1, <1>9, <2>1
  <2> QED BY <2>2 DEF Ops
<1>17. ASSUME Head(s) = "standby" PROVE Ops(t) \cap Lights = {} /\ {"led0", "lit0"} \subseteq Ops(t)
  <2>1. 1 \in 1 .. n + 1 /\ s[1] = "standby"
    BY <1>2, <1>17
  <2>2. /\ \A j \in 1 .. n : t[j] \notin Lights
        /\ \E j \in 1 .. n : t[j] = "led0"
        /\ \E j \in 1 .. n : t[j] = "lit0"
    BY <1>7, <2>1
  <2> QED BY <1>1, <2>2 DEF Ops
<1> QED BY <1>1, <1>6, <1>8, <1>11, <1>12, <1>13, <1>14, <1>15, <1>16, <1>17 DEF t

\* The list after an operation of the main program, op.
Advances(op) ==
  /\ todo' \in Seq(Op) /\ Joined(todo') /\ Dims(todo')
  /\ Len(todo') > 0 /\ todo'[1] = "lcd_arm" => op = "lcd_cancel"
  /\ Len(todo') > 0 /\ todo'[1] = "osd_arm" => op = "osd_on" /\ osd_idx = None
  /\ Len(todo') > 1 /\ todo'[2] = "osd_arm" => op = "osd_cancel"
  /\ Len(todo') > 0 /\ todo'[1] \in Stores => op = "load"
  /\ Ops(todo) \subseteq {op} \cup Ops(todo')
  /\ op # "status" \/ osd_menu_active => Ops(todo) = {op} \cup Ops(todo')
  /\ op = "status" => Ops(todo') \subseteq Ops(todo) \cup Ops(OsdStatus)

\* The list after a step is the rest of it, or a status before the rest.
LEMMA MainAdvances ==
  ASSUME ListInv, MainStep
  PROVE  Advances(Head(todo))
<1> DEFINE h == Head(todo)
           t == Tail(todo)
<1>1. todo # <<>> /\ todo \in Seq(Op) /\ Joined(todo) /\ Dims(todo) /\ Started(todo)
  BY DEF ListInv, MainStep
<1>2. /\ Joined(t) /\ Dims(t) /\ t \in Seq(Op) /\ h \in Op
      /\ Ops(todo) = {h} \cup Ops(t)
  BY <1>1, OpsTail, Advance
<1>3. /\ Len(t) > 0 /\ t[1] = "lcd_arm" => h = "lcd_cancel"
      /\ Len(t) > 0 /\ t[1] = "osd_arm" => h = "osd_on" /\ osd_idx = None
      /\ Len(t) > 1 /\ t[2] = "osd_arm" => h = "osd_cancel"
      /\ Len(t) > 0 /\ t[1] \in Stores => h = "load"
  BY <1>1, Advance
<1>4. todo' = IF h = "status" /\ ~ osd_menu_active THEN OsdStatus \o t ELSE t
  BY DEF MainStep, After
<1> HIDE DEF h, t
<1>5. CASE h = "status" /\ ~ osd_menu_active
  <2>1. Begins(t)
    BY <1>3, <1>5 DEF Begins, Stores
  <2>2. Part(t)
    BY <1>2, <2>1 DEF Part
  <2>3. Part(todo') /\ Ops(todo') = Ops(OsdStatus) \cup Ops(t)
    BY <1>4, <1>5, <2>2, OsdStatusPart, PartsConcat
  <2>4. "standby" \notin Ops(OsdStatus) /\ OsdStatus \in Seq(Op)
    BY OsdStatusPart DEF Part
  <2>5. Dims(todo')
    BY <1>2, <1>4, <1>5, <2>4, DimsConcat
  <2>6. todo' \in Seq(Op) /\ Joined(todo') /\ Begins(todo')
    BY <2>3 DEF Part
  <2>7. Advances(h)
    BY <1>2, <1>5, <2>3, <2>5, <2>6 DEF Advances, Begins, Stores
  <2> QED BY <2>7 DEF h
<1>6. CASE ~ (h = "status" /\ ~ osd_menu_active)
  <2>1. todo' = t
    BY <1>4, <1>6
  <2>2. Advances(h)
    BY <1>2, <1>3, <1>6, <2>1 DEF Advances
  <2> QED BY <2>2 DEF h
<1> QED BY <1>5, <1>6

\* An operation that is next and what it needs.
LEMMA Ready ==
  ASSUME ListInv, todo # <<>>
  PROVE  /\ Head(todo) = "lcd_arm" => lcd_idx = None \/ has_sh1107
         /\ Head(todo) = "osd_arm" => osd_idx = None
         /\ Head(todo) = "osd_cancel" => "osd_on" \in Ops(Tail(todo))
         /\ Head(todo) = "standby" => Ops(Tail(todo)) \cap Lights = {} /\ {"led0", "lit0"} \subseteq Ops(Tail(todo))
         /\ Ops(todo) = {Head(todo)} \cup Ops(Tail(todo)) /\ Head(todo) \in Op
BY Advance, OpsTail DEF ListInv

\* The main program keeps to its lists.
LEMMA MainList ==
  ASSUME DInv, MainStep
  PROVE  ListInv'
<1> DEFINE h == Head(todo)
<1>1. Advances(h) /\ Do(h) /\ Current(h)
  BY MainAdvances DEF DInv, MainStep, Current
<1>2. Timed(h) /\ Shown(h)
  BY <1>1, DoTimed, DoShown DEF DInv, PageInv
<1> HIDE DEF h
<1>3. Started(todo)'
  BY <1>1, <1>2 DEF Started, Advances, Timed, Shown
<1> QED BY <1>1, <1>3 DEF ListInv, Advances

\* An operation of the main program keeps track of the timers it arms.
LEMMA MainTimers ==
  ASSUME DInv, MainStep
  PROVE  TimersKnown'
<1> DEFINE h == Head(todo)
<1>1. Do(h) /\ todo # <<>> /\ Current(h)
  BY DEF MainStep, Current
<1>2. Timed(h) /\ Shown(h)
  BY <1>1, DoTimed, DoShown DEF DInv, PageInv
<1>3. (h = "lcd_arm" => lcd_idx = None \/ has_sh1107) /\ (h = "osd_arm" => osd_idx = None)
  BY <1>1, Ready DEF DInv
<1> HIDE DEF h
<1>4. ASSUME NEW i \in Slot, timer'[i].cb = "osd_off" PROVE osd_idx' = i
  <2>1. CASE timer[i].cb = "osd_off"
    <3>1. osd_idx = i /\ i # None
      BY <2>1 DEF DInv, TimersKnown, Slot, None
    <3> QED BY <1>2, <1>3, <1>4, <3>1 DEF Timed
  <2>2. CASE timer[i].cb # "osd_off"
    BY <1>2, <1>4, <2>2 DEF Timed, Armed
  <2> QED BY <2>1, <2>2
<1>5. ASSUME NEW i \in Slot, ~ has_sh1107', timer'[i].cb = "lcd_off" PROVE lcd_idx' = i
  <2>0. ~ has_sh1107
    BY <1>2, <1>5 DEF Shown
  <2>1. CASE timer[i].cb = "lcd_off"
    <3>1. lcd_idx = i /\ i # None
      BY <2>0, <2>1 DEF DInv, TimersKnown, Slot, None
    <3> QED BY <1>2, <1>3, <1>5, <2>0, <3>1 DEF Timed
  <2>2. CASE timer[i].cb # "lcd_off"
    BY <1>2, <1>5, <2>0, <2>2 DEF Timed, Armed
  <2> QED BY <2>1, <2>2
<1> QED BY <1>4, <1>5 DEF TimersKnown

\* Without the OLED the statistics page stays away.
LEMMA MainPage ==
  ASSUME DInv, MainStep
  PROVE  PageInv'
<1> DEFINE h == Head(todo)
<1>1. Advances(h) /\ Do(h) /\ todo # <<>> /\ irq' = irq /\ PageInv /\ Current(h) /\ ClaimInv
  BY MainAdvances DEF DInv, MainStep, Current
<1>2. Timed(h) /\ Shown(h)
  BY <1>1, DoTimed, DoShown DEF PageInv
<1>3. Ops(todo) = {h} \cup Ops(Tail(todo))
  BY <1>1, Ready DEF DInv
<1> HIDE DEF h
<1>4. h \in Ops(todo) /\ Ops(todo') \subseteq Ops(todo) \cup Ops(OsdStatus) /\ (Ops(todo') \subseteq Ops(todo) \/ h = "status")
  BY <1>1, <1>3 DEF Advances
<1>5. IsPool(timer') /\ irq' \in Seq(Op) /\ Ops(irq') \subseteq IrqOp
  BY <1>1, <1>2 DEF PageInv, Timed
<1>6. ASSUME ~ has_sh1107'
      PROVE  /\ irq' = <<>> /\ Ops(todo') \cap {"info_arm", "oled_on"} = {}
             /\ \A i \in Slot : timer'[i].cb # "print_vm_stats_hide"
  <2>1. /\ ~ has_sh1107 /\ irq = <<>> /\ Ops(todo) \cap {"info_arm", "oled_on"} = {}
        /\ \A i \in Slot : timer[i].cb # "print_vm_stats_hide"
    BY <1>1, <1>2, <1>6 DEF PageInv, Shown
  <2>2. Ops(OsdStatus) \cap {"info_arm", "oled_on"} = {}
    BY <2>1, OsdStatusPart
  <2>3. ASSUME NEW i \in Slot PROVE timer'[i].cb # "print_vm_stats_hide"
    BY <1>2, <1>4, <2>1 DEF Timed, Armed
  <2> QED BY <1>1, <1>4, <2>1, <2>2, <2>3
<1>7. ASSUME "osd_open" \in Ops(todo') PROVE "status" \notin Ops(todo')
  <2>1. "osd_open" \notin Ops(OsdStatus) /\ "status" \notin Ops(OsdStatus)
    BY OsdStatusPart
  <2> QED BY <1>1, <1>4, <1>7, <2>1 DEF PageInv
<1> QED BY <1>5, <1>6, <1>7 DEF PageInv

\* What lights in standby is followed by what darkens it.
LEMMA MainDark ==
  ASSUME DInv, MainStep
  PROVE  DarkInv'
<1> DEFINE h == Head(todo)
<1>1. Advances(h) /\ Do(h) /\ todo # <<>>
  BY MainAdvances DEF DInv, MainStep
<1>2. Lit(h) /\ Shown(h)
  BY <1>1, DoLit, DoShown
<1>3. /\ h = "standby" => Ops(Tail(todo)) \cap Lights = {} /\ {"led0", "lit0"} \subseteq Ops(Tail(todo))
      /\ Ops(todo) = {h} \cup Ops(Tail(todo))
  BY <1>1, Ready DEF DInv
<1>4. h \in {"load", "other", "led0", "lit0"} => h \in Stores \cup {"load"}
  BY DEF Stores
<1>5. Storing => h \in Stores
  BY DEF Storing
<1>6. Storing' => h = "load"
  <2>1. ASSUME todo' # <<>>, Head(todo') \in Stores PROVE h = "load"
    <3>1. todo' \in Seq(Op)
      BY <1>1 DEF Advances
    <3>2. Len(todo') > 0 /\ Head(todo') = todo'[1]
      BY <2>1, <3>1, OpsTail
    <3> QED BY <1>1, <2>1, <3>2 DEF Advances
  <2> QED BY <2>1 DEF Storing
<1>7. h \in Stores => Storing
  BY <1>1 DEF Storing
<1>8. ("lit1" \in Ops(todo) \/ "led1" \in Ops(todo) \/ "status" \in Ops(todo)) => Ops(todo) \cap Lights # {}
  BY DEF Lights
<1>9. ~ has_sh1107 => "oled_on" \notin Ops(todo)
  BY DEF DInv, PageInv
<1>10. Tail(todo) = todo' \/ h = "status"
  BY DEF MainStep, After
<1> HIDE DEF h
<1>11. ASSUME in_standby', "wake" \notin Ops(todo')
       PROVE  /\ Ops(todo') \cap Lights = {}
              /\ led_g' \/ (Storing' /\ word'.led_g) => "led0" \in Ops(todo')
              /\ ~ has_sh1107' /\ (lit' \/ (Storing' /\ word'.lit)) => "lit0" \in Ops(todo')
  <2>1. CASE h = "standby"
    <3>1. Tail(todo) = todo'
      BY <1>10, <2>1
    <3> QED BY <1>3, <2>1, <3>1
  <2>2. CASE h # "standby"
    <3>1. in_standby /\ h # "wake" /\ has_sh1107' = has_sh1107
      BY <1>2, <1>11, <2>2 DEF Shown
    <3>2. "wake" \notin Ops(todo)
      BY <1>1, <1>11, <3>1 DEF Advances
    <3>3. /\ Ops(todo) \cap Lights = {}
          /\ led_g \/ (Storing /\ word.led_g) => "led0" \in Ops(todo)
          /\ ~ has_sh1107 /\ (lit \/ (Storing /\ word.lit)) => "lit0" \in Ops(todo)
      BY <3>1, <3>2 DEF DInv, DarkInv
    <3>4. h \notin {"status", "led1", "lit1"} /\ h \in Ops(todo)
      BY <1>3, <1>8, <3>3
    <3>5. Ops(todo) = {h} \cup Ops(todo')
      BY <1>1, <3>4 DEF Advances
    <3>6. Ops(todo') \cap Lights = {}
      BY <3>3, <3>5
    <3>7. ASSUME led_g' \/ (Storing' /\ word'.led_g) PROVE "led0" \in Ops(todo')
      <4>1. CASE h = "load"
        <5>1. led_g
          BY <1>2, <3>7, <4>1 DEF Lit, Stores
        <5> QED BY <3>3, <3>5, <4>1, <5>1
      <4>2. CASE h = "led0"
        <5>1. ~ led_g' /\ ~ Storing'
          BY <1>2, <1>6, <4>2 DEF Lit
        <5> QED BY <3>7, <5>1
      <4>3. CASE h \in Stores \ {"led0"}
        <5>1. word.led_g /\ Storing
          BY <1>2, <1>6, <1>7, <3>4, <3>7, <4>3 DEF Lit, Stores
        <5> QED BY <3>3, <3>5, <4>3, <5>1
      <4>4. CASE h \notin Stores \cup {"load"}
        <5>1. led_g
          BY <1>2, <1>6, <3>7, <4>4 DEF Lit
        <5>2. h # "led0"
          BY <4>4 DEF Stores
        <5> QED BY <3>3, <3>5, <5>1, <5>2
      <4> QED BY <4>1, <4>2, <4>3, <4>4
    <3>8. ASSUME ~ has_sh1107', lit' \/ (Storing' /\ word'.lit) PROVE "lit0" \in Ops(todo')
      <4>0. ~ has_sh1107 /\ h # "oled_on"
        BY <1>9, <3>1, <3>4, <3>8
      <4>1. CASE h = "load"
        <5>1. lit
          BY <1>2, <3>8, <4>1 DEF Lit, Stores
        <5> QED BY <3>3, <3>5, <4>0, <4>1, <5>1
      <4>2. CASE h = "lit0"
        <5>1. ~ lit' /\ ~ Storing'
          BY <1>2, <1>6, <4>0, <4>2 DEF Lit
        <5> QED BY <3>8, <5>1
      <4>3. CASE h \in Stores \ {"lit0"}
        <5>1. word.lit /\ Storing
          BY <1>2, <1>6, <1>7, <3>4, <3>8, <4>0, <4>3 DEF Lit, Stores
        <5> QED BY <3>3, <3>5, <4>0, <4>3, <5>1
      <4>4. CASE h \notin Stores \cup {"load"}
        <5>1. lit
          BY <1>2, <1>6, <3>8, <4>0, <4>4 DEF Lit
        <5>2. h # "lit0"
          BY <4>4 DEF Stores
        <5> QED BY <3>3, <3>5, <4>0, <5>1, <5>2
      <4> QED BY <4>1, <4>2, <4>3, <4>4
    <3> QED BY <3>6, <3>7, <3>8
  <2> QED BY <2>1, <2>2
<1> QED BY <1>11 DEF DarkInv

\* What could hide the menu is followed by what shows it.
LEMMA MainMenu ==
  ASSUME DInv, MainStep
  PROVE  MenuInv'
<1> DEFINE h == Head(todo)
<1>1. Advances(h) /\ Do(h) /\ todo # <<>> /\ Current(h)
  BY MainAdvances DEF DInv, MainStep, Current
<1>2. Timed(h) /\ Shown(h)
  BY <1>1, DoTimed, DoShown DEF DInv, PageInv
<1>3. h \in Ops(todo) /\ ("osd_open" \in Ops(todo) => "status" \notin Ops(todo))
  BY <1>1, Ready DEF DInv, PageInv
<1> HIDE DEF h
<1>4. ASSUME ~ has_sh1107', menu_active', OsdEnabled
      PROVE  /\ Ops(todo') \cap {"osd_off", "osd_off_if_idle", "osd_close", "osd_arm"} = {}
             /\ osd_menu_active' \/ "osd_open" \in Ops(todo')
             /\ (\A i \in Slot : timer'[i].cb # "osd_off") \/ "osd_cancel" \in Ops(todo')
             /\ osd' \/ "osd_on" \in Ops(todo')
  <2>1. /\ Ops(todo) \cap {"osd_off", "osd_off_if_idle", "osd_close", "osd_arm"} = {}
        /\ osd_menu_active \/ "osd_open" \in Ops(todo)
        /\ (\A i \in Slot : timer[i].cb # "osd_off") \/ "osd_cancel" \in Ops(todo)
        /\ osd \/ "osd_on" \in Ops(todo)
    BY <1>2, <1>4 DEF Shown, DInv, MenuInv
  <2>2. h \notin {"osd_off", "osd_off_if_idle", "osd_close", "osd_arm"} /\ (h = "status" => osd_menu_active)
    BY <1>3, <2>1
  <2>3. Ops(todo) = {h} \cup Ops(todo')
    BY <1>1, <2>2 DEF Advances
  <2>4. osd_menu_active' \/ "osd_open" \in Ops(todo')
    BY <1>2, <2>1, <2>2, <2>3 DEF Shown
  <2>5. osd' \/ "osd_on" \in Ops(todo')
    BY <1>2, <2>1, <2>2, <2>3 DEF Shown
  <2>6. CASE h = "osd_cancel"
    <3>1. ASSUME NEW i \in Slot PROVE timer'[i].cb # "osd_off"
      BY <1>2, <2>6 DEF DInv, TimersKnown, Timed, Armed
    <3> QED BY <2>1, <2>3, <2>4, <2>5, <3>1
  <2>7. CASE h # "osd_cancel"
    <3>1. "osd_cancel" \in Ops(todo) => "osd_cancel" \in Ops(todo')
      BY <2>3, <2>7
    <3>2. ASSUME NEW i \in Slot, timer'[i].cb = "osd_off" PROVE timer[i].cb = "osd_off"
      BY <1>2, <2>2, <3>2 DEF Timed, Armed
    <3> QED BY <2>1, <2>3, <2>4, <2>5, <3>1, <3>2
  <2> QED BY <2>6, <2>7
<1> QED BY <1>4 DEF MenuInv

\* The main program goes on.
LEMMA MainPreserves == ASSUME DInv, MainStep PROVE DInv'
<1>1. ClaimInv'
  <2>1. Current(Head(todo)) /\ Do(Head(todo)) /\ irq = <<>>
    BY DEF MainStep, Current
  <2>2. Timed(Head(todo))
    BY <2>1, DoTimed DEF DInv, PageInv
  <2> QED BY <2>1, <2>2 DEF Timed, Claims, ClaimInv, T!NoClaim
<1> QED BY <1>1, MainTimers, MainList, MainPage, MainDark, MainMenu DEF DInv

\* The main program is about to fill a timer.
LEMMA ClaimPreserves == ASSUME DInv, ClaimTimer PROVE DInv'
<1> DEFINE op == Head(todo)
<1>1. /\ todo # <<>> /\ op \in Arms
      /\ UNCHANGED <<Rest, todo, irq>>
  BY DEF ClaimTimer
<1>2. PICK i \in Slot : T!Claim(i, Asked(op).cb, Asked(op).usec)
  BY DEF ClaimTimer
<1>3. timer' = timer /\ timer[i].cb = "none"
  BY <1>2 DEF T!Claim, T!Free, T!Armed, T!NoCb
<1>4. claim' = Claimed(i, {}, now, op)
  BY <1>2 DEF T!Claim, Claimed
<1> HIDE DEF op
<1>5. claim'.since = now
  BY <1>4 DEF Claimed
<1>6. ClaimInv'
  <2>1. todo' # <<>> /\ Head(todo') = op /\ op \in Arms /\ timer'[i].cb = "none" /\ {} \in SUBSET {"none", "lcd_off"}
    BY <1>1, <1>3 DEF op
  <2> QED BY <1>4, <1>5, <2>1 DEF ClaimInv, Claimed
<1> QED BY <1>1, <1>3, <1>6 DEF DInv, TimersKnown, ListInv, Started, PageInv, DarkInv, Storing, MenuInv, Rest, osdVars,
                    lcdVars, flags

\* The statistics page is taken away from the interrupt.
LEMMA IrqPreserves == ASSUME DInv, IrqStep PROVE DInv'
<1> DEFINE h == Head(irq)
<1>1. has_sh1107 /\ irq # <<>> /\ todo' = todo /\ irq' = Tail(irq) /\ Do(h)
  BY DEF DInv, PageInv, IrqStep
<1>2. h \in IrqOp /\ irq' \in Seq(Op) /\ Ops(irq') \subseteq IrqOp
  BY <1>1, OpsTail DEF DInv, PageInv, IrqStep
<1>10. Current(h)
  BY <1>1, <1>2 DEF Current
<1>3. Timed(h) /\ Lit(h) /\ Shown(h)
  BY <1>1, <1>10, DoTimed, DoLit, DoShown DEF DInv, PageInv
<1> HIDE DEF h
<1>4. has_sh1107' /\ osd_idx' = osd_idx /\ led_g' = led_g /\ word' = word /\ in_standby' = in_standby
  BY <1>1, <1>2, <1>3 DEF IrqOp, Timed, Lit, Shown, Stores
<1>5. TimersKnown'
  BY <1>2, <1>3, <1>4 DEF DInv, TimersKnown, Timed, Armed, IrqOp
<1>6. ListInv'
  BY <1>1, <1>4 DEF DInv, ListInv, Started
<1>7. PageInv'
  BY <1>1, <1>2, <1>3, <1>4 DEF DInv, PageInv, Timed
<1>8. DarkInv'
  BY <1>1, <1>4 DEF DInv, DarkInv, Storing
<1>9. MenuInv'
  BY <1>4 DEF MenuInv
<1>11. ClaimInv'
  <2>1. CASE claim = T!NoClaim
    <3>1. claim' = T!NoClaim
      BY <1>1, <1>3, <2>1 DEF Timed, Claims
    <3> QED BY <3>1 DEF ClaimInv, T!NoClaim
  <2>2. CASE claim # T!NoClaim
    <3>1. PICK slot \in Slot, others \in SUBSET {"none", "lcd_off"}, since \in {claim.since} :
            timer[slot].cb = "none" /\ claim = Claimed(slot, others, since, Head(todo))
      BY <2>2 DEF DInv, ClaimInv
    <3>2. PICK new \in SUBSET {"none", "lcd_off"} : claim' = Claimed(slot, new, since, Head(todo))
      <4>1. CASE claim' = claim
        BY <3>1, <4>1
      <4>2. CASE \E cb \in {"none", "lcd_off"} : claim' = [claim EXCEPT !.others = @ \cup {cb}]
        <5>1. PICK cb \in {"none", "lcd_off"} : claim' = [claim EXCEPT !.others = @ \cup {cb}]
          BY <4>2
        <5>2. claim' = Claimed(slot, others \cup {cb}, since, Head(todo))
          BY <3>1, <5>1 DEF Claimed
        <5>3. others \cup {cb} \in SUBSET {"none", "lcd_off"}
          OBVIOUS
        <5> QED BY <5>2, <5>3
      <4> QED BY <1>1, <1>3, <4>1, <4>2 DEF Timed, Claims
    <3>3. claim'.since = since
      BY <3>2 DEF Claimed
    <3>4. todo' # <<>> /\ Head(todo') = Head(todo) /\ Head(todo) \in Arms
      BY <1>1, <2>2 DEF DInv, ClaimInv
    <3>5. timer'[slot].cb = "none"
      <4>1. slot = claim.slot
        BY <3>1 DEF Claimed
      <4> QED BY <1>1, <1>3, <3>1, <4>1 DEF Timed, Claims
    <3> QED BY <1>4, <3>2, <3>3, <3>4, <3>5 DEF ClaimInv, Claimed
  <2> QED BY <2>1, <2>2
<1> QED BY <1>5, <1>6, <1>7, <1>8, <1>9, <1>11 DEF DInv

\* A timer is due.
LEMMA FirePreserves == ASSUME DInv, NEW i \in Slot, Fire(i) PROVE DInv'
<1>1. /\ timer' = [timer EXCEPT ![i] = T!Free] /\ claim' = claim
      /\ UNCHANGED <<osd_idx, lcd_idx, has_sh1107, flags, word, todo>>
      /\ irq = <<>>
  <2>1. i # T!None
    BY DEF T!None, Slot
  <2> QED BY <2>1 DEF Fire, T!Fire, T!Becomes, T!Freed, T!Use, T!pool
<1>2. IsPool(timer') /\ \A j \in Slot : (timer'[j].cb = timer[j].cb /\ j # i) \/ timer'[j].cb = "none"
  BY <1>1 DEF DInv, PageInv, IsPool, T!Free, T!Armed, T!NoCb
<1>9. ClaimInv'
  BY <1>1, <1>2 DEF DInv, ClaimInv, Claimed, T!NoClaim
<1>3. /\ (led_g' => led_g \/ ~ in_standby) /\ (lit' => lit)
      /\ osd' = osd \/ timer[i].cb = "osd_off"
      /\ irq' = <<>> \/ (irq' = OsdClose /\ timer[i].cb = "print_vm_stats_hide")
  <2>1. (led_g' = LedReset \/ led_g' = led_g) /\ (lit' = FALSE \/ lit' = lit)
    BY DEF Fire
  <2>2. (led_g' => led_g \/ ~ in_standby) /\ (lit' => lit)
    <3>1. ASSUME led_g' PROVE led_g \/ ~ in_standby
      <4>1. CASE led_g' = LedReset BY <3>1, <4>1, Zenon DEF LedReset
      <4>2. CASE led_g' = led_g BY <3>1, <4>2, Zenon
      <4> QED BY <2>1, <4>1, <4>2, Zenon
    <3>2. ASSUME lit' PROVE lit
      <4>1. CASE lit' = FALSE BY <3>2, <4>1, Zenon
      <4>2. CASE lit' = lit BY <3>2, <4>2, Zenon
      <4> QED BY <2>1, <4>1, <4>2, Zenon
    <3> QED BY <3>1, <3>2, Zenon
  <2>3. osd' = osd \/ timer[i].cb = "osd_off"
    BY DEF Fire
  <2>4. irq' = <<>> \/ (irq' = OsdClose /\ timer[i].cb = "print_vm_stats_hide")
    BY <1>1 DEF Fire
  <2> QED BY <2>2, <2>3, <2>4
<1>4. TimersKnown'
  BY <1>1, <1>2 DEF DInv, TimersKnown
<1>5. ListInv'
  BY <1>1 DEF DInv, ListInv, Started
<1>6. PageInv'
  <2>1. irq' \in Seq(Op) /\ Ops(irq') \subseteq IrqOp
    <3>1. CASE irq' = <<>>
      BY <3>1, EmptySeq, OpsEmpty
    <3>2. CASE irq' = OsdClose /\ has_sh1107
      BY <3>2, OsdClosePart DEF Part, IrqOp
    <3> QED BY <1>3, <3>1, <3>2 DEF DInv, PageInv
  <2>2. has_sh1107' \/ irq' = <<>>
    BY <1>1, <1>3 DEF DInv, PageInv
  <2> QED BY <1>1, <1>2, <2>1, <2>2 DEF DInv, PageInv
<1>7. DarkInv'
  BY <1>1, <1>3 DEF DInv, DarkInv, Storing, flags
<1>8. MenuInv'
  <2>1. ASSUME ~ has_sh1107', menu_active', OsdEnabled
        PROVE  /\ Ops(todo') \cap {"osd_off", "osd_off_if_idle", "osd_close", "osd_arm"} = {}
               /\ osd_menu_active' \/ "osd_open" \in Ops(todo')
               /\ (\A j \in Slot : timer'[j].cb # "osd_off") \/ "osd_cancel" \in Ops(todo')
               /\ osd' \/ "osd_on" \in Ops(todo')
    <3>1. /\ Ops(todo) \cap {"osd_off", "osd_off_if_idle", "osd_close", "osd_arm"} = {}
          /\ osd_menu_active \/ "osd_open" \in Ops(todo)
          /\ (\A j \in Slot : timer[j].cb # "osd_off") \/ "osd_cancel" \in Ops(todo)
          /\ osd \/ "osd_on" \in Ops(todo)
      BY <1>1, <2>1 DEF DInv, MenuInv, flags
    <3>2. "osd_cancel" \in Ops(todo) => "osd_on" \in Ops(todo)
      BY DEF DInv, ListInv, Joined, Ops
    <3>3. osd_menu_active' = osd_menu_active /\ todo' = todo
      BY <1>1 DEF flags
    <3>4. (\A j \in Slot : timer'[j].cb # "osd_off") \/ "osd_cancel" \in Ops(todo)
      BY <1>2, <3>1
    <3>5. osd' \/ "osd_on" \in Ops(todo)
      BY <1>3, <3>1, <3>2
    <3> QED BY <3>1, <3>3, <3>4, <3>5
  <2> QED BY <2>1 DEF MenuInv
<1> QED BY <1>4, <1>5, <1>6, <1>7, <1>8, <1>9 DEF DInv

\* Nothing but the clock moves.
LEMMA TickPreserves == ASSUME DInv, Tick PROVE DInv'
<1>1. UNCHANGED <<timer, claim, Rest, todo, irq>>
  BY DEF Tick, T!Tick
<1> QED BY <1>1 DEF DInv, TimersKnown, ListInv, Started, PageInv, ClaimInv, Claimed, T!NoClaim, DarkInv, Storing, MenuInv, Rest, osdVars,
                    lcdVars, flags
--------------------------------------------------------------------------------
(* What happens to the main program. *)

\* A list that may be started: it does not light what standby darkens, and with the menu
\* open, or opened by it, it shows the menu and nothing else.
Fits(ops) ==
  /\ Part(ops) /\ Dims(ops)
  /\ has_sh1107 \/ Ops(ops) \cap {"info_arm", "oled_on"} = {}
  /\ "osd_open" \in Ops(ops) => "status" \notin Ops(ops)
  /\ in_standby => "wake" \in Ops(ops) \/ Ops(ops) \cap Lights = {}
  /\ ~ has_sh1107 /\ menu_active' /\ OsdEnabled =>
       /\ Ops(ops) \cap {"osd_off", "osd_off_if_idle", "osd_close", "osd_arm"} = {}
       /\ menu_active \/ {"osd_open", "osd_cancel", "osd_on"} \subseteq Ops(ops)

\* A list that fits is started at rest.
LEMMA ListPreserves ==
  ASSUME DInv, Idle, Fits(todo'),
         UNCHANGED <<timers, osdVars, lcdVars, led_g, osd_menu_active, in_standby, word, irq>>
  PROVE  DInv'
<1>1. UNCHANGED <<timer, claim, osd, osd_idx, has_sh1107, lit, lcd_idx, led_g, osd_menu_active, in_standby, irq>>
  BY DEF timers, osdVars, lcdVars
<1>2. todo = <<>> /\ Ops(todo) = {}
  BY OpsEmpty DEF Idle
<1>9. ClaimInv'
  BY <1>1, <1>2 DEF DInv, ClaimInv, T!NoClaim
<1>3. TimersKnown'
  BY <1>1 DEF DInv, TimersKnown
<1>4. ListInv'
  BY DEF Fits, Part, Begins, ListInv, Started
<1>5. PageInv'
  BY <1>1 DEF DInv, PageInv, Fits
<1>6. ~ Storing'
  <2>1. ASSUME todo' # <<>> PROVE Head(todo') \notin Stores
    <3>1. todo' \in Seq(Op) /\ Begins(todo')
      BY DEF Fits, Part
    <3>2. Len(todo') > 0 /\ Head(todo') = todo'[1]
      BY <2>1, <3>1, OpsTail
    <3> QED BY <3>1, <3>2 DEF Begins
  <2> QED BY <2>1 DEF Storing
<1>7. DarkInv'
  <2>1. ASSUME in_standby', "wake" \notin Ops(todo')
        PROVE  Ops(todo') \cap Lights = {} /\ ~ led_g' /\ (has_sh1107' \/ ~ lit')
    <3>1. Ops(todo') \cap Lights = {}
      BY <1>1, <2>1 DEF Fits
    <3>2. ~ led_g /\ (has_sh1107 \/ ~ lit)
      BY <1>1, <1>2, <2>1 DEF DInv, DarkInv
    <3> QED BY <1>1, <3>1, <3>2
  <2> QED BY <1>6, <2>1 DEF DarkInv
<1>8. MenuInv'
  <2>1. ASSUME ~ has_sh1107', menu_active', OsdEnabled
        PROVE  /\ Ops(todo') \cap {"osd_off", "osd_off_if_idle", "osd_close", "osd_arm"} = {}
               /\ osd_menu_active' \/ "osd_open" \in Ops(todo')
               /\ (\A i \in Slot : timer'[i].cb # "osd_off") \/ "osd_cancel" \in Ops(todo')
               /\ osd' \/ "osd_on" \in Ops(todo')
    <3>1. /\ Ops(todo') \cap {"osd_off", "osd_off_if_idle", "osd_close", "osd_arm"} = {}
          /\ menu_active \/ {"osd_open", "osd_cancel", "osd_on"} \subseteq Ops(todo')
      BY <1>1, <2>1 DEF Fits
    <3>2. menu_active => osd_menu_active /\ osd /\ \A i \in Slot : timer[i].cb # "osd_off"
      BY <1>1, <1>2, <2>1 DEF DInv, MenuInv
    <3>3. CASE menu_active
      BY <1>1, <3>1, <3>2, <3>3
    <3>4. CASE ~ menu_active
      BY <3>1, <3>4
    <3> QED BY <3>3, <3>4
  <2> QED BY <2>1 DEF MenuInv
<1> QED BY <1>3, <1>4, <1>5, <1>7, <1>8, <1>9 DEF DInv

\* A key blinks first.
LEMMA KeyPreserves ==
  ASSUME DInv, NEW ops, Fits(ops), Key(ops)
  PROVE  DInv'
<1>1. ops \in Seq(Op) /\ Blink \in Seq(Op) /\ "standby" \notin Ops(Blink)
  BY BlinkPart DEF Fits, Part
<1>2. Part(Blink \o ops) /\ Dims(Blink \o ops) /\ Ops(Blink \o ops) = {"load", "led0", "led_arm"} \cup Ops(ops)
  BY <1>1, BlinkPart, PartsConcat, DimsConcat DEF Fits
<1>3. todo' = Blink \o ops
  BY DEF Key
<1>4. Fits(todo')
  BY <1>2, <1>3 DEF Fits, Lights
<1>5. Idle /\ UNCHANGED <<timers, osdVars, lcdVars, led_g, osd_menu_active, in_standby, word, irq>>
  BY DEF Key
<1> QED BY <1>4, <1>5, ListPreserves

\* RC_MENU shows the menu, or takes it away.
LEMMA MenuKeyPreserves == ASSUME DInv, MenuKey PROVE DInv'
<1>1. ~ in_standby
  BY DEF MenuKey
<1>2. CASE menu_active'
  <2>1. Key(OsdOpen \o LcdRows)
    BY <1>2 DEF MenuKey
  <2>2. Part(OsdOpen \o LcdRows) /\ Ops(OsdOpen \o LcdRows) = Ops(OsdOpen) \cup Ops(LcdRows)
    BY OsdOpenPart, LcdRowsPart, PartsConcat
  <2>3. Dims(OsdOpen \o LcdRows)
    BY <2>2, OsdOpenPart, LcdRowsPart, DimsNone
  <2>4. Fits(OsdOpen \o LcdRows)
    BY <1>1, <2>2, <2>3, OsdOpenPart, LcdRowsPart DEF Fits
  <2> QED BY <2>1, <2>4, KeyPreserves
<1>3. CASE ~ menu_active'
  <2>1. Key(OsdClose)
    BY <1>3 DEF MenuKey
  <2>2. Dims(OsdClose)
    BY OsdClosePart, DimsNone
  <2>3. Fits(OsdClose)
    BY <1>1, <1>3, <2>2, OsdClosePart DEF Fits
  <2> QED BY <2>1, <2>3, KeyPreserves
<1> QED BY <1>2, <1>3

\* The display is written to under the menu.
LEMMA NavigationKeyPreserves == ASSUME DInv, NavigationKey PROVE DInv'
<1>1. ~ in_standby /\ menu_active /\ Key(LcdRows)
  BY DEF NavigationKey
<1>2. Dims(LcdRows)
  BY LcdRowsPart, DimsNone
<1>3. Fits(LcdRows)
  BY <1>1, <1>2, LcdRowsPart DEF Fits
<1> QED BY <1>1, <1>3, KeyPreserves

\* The lists that consist of one operation or none.
LEMMA StatusPart == Part(<<"status">>) /\ Dims(<<"status">>) /\ Ops(<<"status">>) = {"status"}
<1>1. Part(<<"status">>) /\ Ops(<<"status">>) = {"status"}
  BY PartOne DEF Op, Stores
<1> QED BY <1>1, DimsNone

\* A status is shown only with the menu closed and out of standby.
LEMMA StatusKeyPreserves == ASSUME DInv, StatusKey PROVE DInv'
<1>1. menu_active' = menu_active
  BY DEF StatusKey
<1>2. CASE menu_active \/ in_standby
  <2>1. Key(<<>>)
    BY <1>2 DEF StatusKey
  <2>2. Fits(<<>>)
    BY <1>1, PartNone, OpsEmpty, DimsNone DEF Fits
  <2> QED BY <2>1, <2>2, KeyPreserves
<1>3. CASE ~ (menu_active \/ in_standby)
  <2>1. Key(<<"status">>)
    BY <1>3 DEF StatusKey
  <2>2. Fits(<<"status">>)
    BY <1>1, <1>3, StatusPart DEF Fits
  <2> QED BY <2>1, <2>2, KeyPreserves
<1> QED BY <1>2, <1>3

\* The prompt takes the place of the menu, which it closes.
LEMMA PromptKeyPreserves == ASSUME DInv, PromptKey PROVE DInv'
<1> DEFINE a == OsdOpen \o LcdRows
           b == <<"wait">>
           c == OsdClose
<1>1. ~ in_standby /\ ~ menu_active' /\ Key((a \o b) \o c)
  BY DEF PromptKey
<1>2. Part(a) /\ Ops(a) = Ops(OsdOpen) \cup Ops(LcdRows)
  BY OsdOpenPart, LcdRowsPart, PartsConcat
<1>3. Part(b) /\ Ops(b) = {"wait"}
  BY PartOne DEF Op, Stores
<1>4. Part(c) /\ "standby" \notin Ops(c) /\ "status" \notin Ops(c) /\ "info_arm" \notin Ops(c)
      /\ (has_sh1107 \/ "oled_on" \notin Ops(c))
  BY OsdClosePart
<1>5. "standby" \notin Ops(a) /\ "status" \notin Ops(a) /\ "info_arm" \notin Ops(a)
      /\ (has_sh1107 \/ "oled_on" \notin Ops(a))
  BY <1>2, OsdOpenPart, LcdRowsPart
<1> HIDE DEF a, b, c
<1>6. Part(a \o b) /\ Ops(a \o b) = Ops(a) \cup Ops(b)
  BY <1>2, <1>3, PartsConcat
<1>7. Part((a \o b) \o c) /\ Ops((a \o b) \o c) = (Ops(a) \cup Ops(b)) \cup Ops(c)
  BY <1>4, <1>6, PartsConcat
<1>8. Dims((a \o b) \o c)
  BY <1>3, <1>4, <1>5, <1>7, DimsNone
<1>9. Fits((a \o b) \o c)
  BY <1>1, <1>3, <1>4, <1>5, <1>7, <1>8 DEF Fits
<1> QED BY <1>1, <1>9, KeyPreserves

\* The page arms its timer only with the OLED and the menu closed.
LEMMA InfoKeyPreserves == ASSUME DInv, InfoKey PROVE DInv'
<1>1. ~ in_standby /\ has_sh1107
  BY DEF InfoKey
<1>2. CASE menu_active
  <2>1. Key(<<>>)
    BY <1>2 DEF InfoKey
  <2>2. Fits(<<>>)
    BY <1>1, PartNone, OpsEmpty, DimsNone DEF Fits
  <2> QED BY <2>1, <2>2, KeyPreserves
<1>3. CASE ~ menu_active
  <2> DEFINE b == <<"info_arm">>
  <2>1. Key(OsdOpen \o b)
    BY <1>3 DEF InfoKey
  <2>2. Part(b) /\ Ops(b) = {"info_arm"}
    BY PartOne DEF Op, Stores
  <2> HIDE DEF b
  <2>3. Part(OsdOpen \o b) /\ Ops(OsdOpen \o b) = Ops(OsdOpen) \cup Ops(b)
    BY <2>2, OsdOpenPart, PartsConcat
  <2>4. Dims(OsdOpen \o b)
    BY <2>2, <2>3, OsdOpenPart, DimsNone
  <2>5. Fits(OsdOpen \o b)
    BY <1>1, <2>2, <2>3, <2>4, OsdOpenPart DEF Fits
  <2> QED BY <2>1, <2>5, KeyPreserves
<1> QED BY <1>2, <1>3

\* Leaving standby keeps the menu as it is.
LEMMA ExitStandbyFits == ASSUME menu_active' = menu_active PROVE Fits(ExitStandby)
<1>1. Dims(ExitStandby)
  BY ExitStandbyPart, DimsNone
<1> QED BY <1>1, ExitStandbyPart DEF Fits

\* Standby is entered or left, the menu open or not.
LEMMA StandbyKeyPreserves == ASSUME DInv, StandbyKey PROVE DInv'
<1>1. menu_active' = menu_active
  BY DEF StandbyKey
<1>2. CASE in_standby
  <2>1. Key(ExitStandby)
    BY <1>2 DEF StandbyKey
  <2> QED BY <1>1, <2>1, ExitStandbyFits, KeyPreserves
<1>3. CASE ~ in_standby
  <2>1. Key(EnterStandby)
    BY <1>3 DEF StandbyKey
  <2>2. Fits(EnterStandby)
    BY <1>1, <1>3, EnterStandbyPart DEF Fits
  <2> QED BY <2>1, <2>2, KeyPreserves
<1> QED BY <1>2, <1>3

\* A button in standby, a change of the video, another bit of sys_ctrl.
LEMMA OthersPreserve == ASSUME DInv, WakeButton \/ VideoChanges \/ OtherBit PROVE DInv'
<1>1. Idle /\ UNCHANGED <<timers, Rest, irq>>
  BY DEF WakeButton, VideoChanges, OtherBit
<1>2. /\ menu_active' = menu_active
      /\ UNCHANGED <<timers, osdVars, lcdVars, led_g, osd_menu_active, in_standby, word, irq>>
  BY <1>1 DEF Rest, flags
<1>3. CASE WakeButton
  BY <1>1, <1>2, <1>3, ExitStandbyFits, ListPreserves DEF WakeButton
<1>4. CASE VideoChanges
  <2>1. Fits(<<"status">>)
    BY <1>2, <1>4, StatusPart DEF Fits, VideoChanges
  <2> QED BY <1>1, <1>2, <1>4, <2>1, ListPreserves DEF VideoChanges
<1>5. CASE OtherBit
  <2>1. Part(Write("other")) /\ Ops(Write("other")) = {"load", "other"}
    BY PartWrite DEF Stores
  <2>2. Dims(Write("other"))
    BY <2>1, DimsNone
  <2>3. Fits(Write("other"))
    BY <1>2, <2>1, <2>2 DEF Fits, Lights
  <2> QED BY <1>1, <1>2, <1>5, <2>3, ListPreserves DEF OtherBit
<1> QED BY <1>3, <1>4, <1>5
--------------------------------------------------------------------------------
\* After init_hw a status is still to be shown.
LEMMA InitInv == Init => DInv
<1> SUFFICES ASSUME Init PROVE DInv
  OBVIOUS
<1>1. /\ todo = <<"status">> /\ irq = <<>> /\ in_standby = FALSE /\ menu_active = FALSE
      /\ timer = [i \in Slot |-> T!Free] /\ claim = T!NoClaim
  BY DEF Init
<1>2. IsPool(timer) /\ \A i \in Slot : timer[i].cb = "none"
  BY <1>1 DEF IsPool, T!Free, T!Armed, T!NoCb
<1>3. TimersKnown
  BY <1>2 DEF TimersKnown
<1>4. ListInv
  BY <1>1, StatusPart DEF ListInv, Part, Begins, Started
<1>5. PageInv
  BY <1>1, <1>2, StatusPart, EmptySeq, OpsEmpty DEF PageInv
<1>6. DarkInv /\ MenuInv
  BY <1>1 DEF DarkInv, MenuInv
<1> QED BY <1>1, <1>3, <1>4, <1>5, <1>6 DEF DInv, ClaimInv

\* Every step of the displays, the timers and the user keeps the invariant.
LEMMA NextInv == DInv /\ [Next]_vars => DInv'
<1> SUFFICES ASSUME DInv, [Next]_vars PROVE DInv'
  OBVIOUS
<1>1. CASE UNCHANGED vars
  BY <1>1 DEF vars, timers, Rest, DInv, TimersKnown, ListInv, Started, PageInv, ClaimInv, Claimed, T!NoClaim, DarkInv,
              Storing, MenuInv, osdVars, lcdVars, flags
<1>2. CASE Tick
  BY <1>2, TickPreserves
<1>3. CASE IrqStep
  BY <1>3, IrqPreserves
<1>4. CASE MainStep
  BY <1>4, MainPreserves
<1>5. CASE \E i \in Slot : Fire(i)
  BY <1>5, FirePreserves
<1>6. CASE MenuKey
  BY <1>6, MenuKeyPreserves
<1>7. CASE NavigationKey
  BY <1>7, NavigationKeyPreserves
<1>8. CASE StatusKey
  BY <1>8, StatusKeyPreserves
<1>9. CASE PromptKey
  BY <1>9, PromptKeyPreserves
<1>10. CASE InfoKey
  BY <1>10, InfoKeyPreserves
<1>11. CASE StandbyKey
  BY <1>11, StandbyKeyPreserves
<1>12. CASE WakeButton \/ VideoChanges \/ OtherBit
  BY <1>12, OthersPreserve
<1>13. CASE ClaimTimer
  BY <1>13, ClaimPreserves
<1> QED BY <1>1, <1>2, <1>3, <1>4, <1>5, <1>6, <1>7, <1>8, <1>9, <1>10, <1>11, <1>12, <1>13 DEF Next

\* At rest nothing is on the way, and what the invariant says of the list is said of the lights.
LEMMA InvOutlasts == DInv => OutlastsTimeouts
<1> SUFFICES ASSUME DInv, Idle PROVE StandbyDark /\ MenuShown
  BY DEF OutlastsTimeouts
<1>1. Ops(todo) = {}
  BY OpsEmpty DEF Idle
<1>2. StandbyDark
  BY <1>1 DEF DInv, DarkInv, StandbyDark
<1>3. MenuShown
  BY <1>1 DEF DInv, MenuInv, MenuShown
<1> QED BY <1>2, <1>3

\* osd.c never loses the number of an osd_off that is pending, nor lcd.c that of an
\* lcd_off of the backlight, whichever callbacks run between the operations of the
\* main program (osd.c 127-151, lcd.c 52-68).
THEOREM TimersStayKnown == Spec => []TimersKnown
<1>1. DInv => TimersKnown
  BY DEF DInv
<1> QED BY <1>1, InitInv, NextInv, PTL DEF Spec

\* At rest, standby is dark and the menu that is open is on the screen, whatever timeouts
\* were armed before (av_controller.c 828-835, osd.c 172-183).
THEOREM ChoiceOutlasts == Spec => []OutlastsTimeouts
BY InitInv, NextInv, InvOutlasts, PTL DEF Spec
--------------------------------------------------------------------------------
(* The timeouts. *)

\* What the lists of the program have in common besides DInv: what ends a list, that the
\* on-screen display is not switched on after the menu has closed, that a key blinks once,
\* and what an operation is followed by.
Finals == {"osd_arm", "osd_off_if_idle", "status"}
Follows(s, a, b) == \A k \in 1 .. Len(s) : s[k] = a => k < Len(s) /\ s[k + 1] = b
Shape(s) ==
  /\ \A k \in 1 .. Len(s) : s[k] \in Finals => k = Len(s)
  /\ \A j, k \in 1 .. Len(s) : s[j] = "osd_close" /\ s[k] \in {"osd_cancel", "osd_on"} => k < j
  /\ \A j, k \in 1 .. Len(s) : s[j] = "led_arm" /\ s[k] = "led_arm" => j = k
  /\ OsdEnabled => Follows(s, "osd_open", "osd_cancel")
  /\ lcd_bl_timeout # 0 => Follows(s, "oled_on", "lcd_cancel") /\ Follows(s, "lcd_cancel", "lcd_arm")

\* The list t may come after s.
Meets(s, t) ==
  /\ Ops(s) \cap Finals = {}
  /\ "osd_close" \notin Ops(s) \/ Ops(t) \cap {"osd_cancel", "osd_on"} = {}
  /\ "led_arm" \notin Ops(s) \/ "led_arm" \notin Ops(t)

\* What follows an operation in a list follows it in a longer one.
LEMMA FollowsConcat ==
  ASSUME NEW s \in Seq(Op), NEW t \in Seq(Op), NEW a, NEW b, Follows(s, a, b), Follows(t, a, b)
  PROVE  Follows(s \o t, a, b)
<1> DEFINE u == s \o t
<1>1. /\ Len(s) \in Nat /\ Len(t) \in Nat /\ Len(u) = Len(s) + Len(t)
      /\ \A k \in 1 .. Len(s) + Len(t) : u[k] = IF k <= Len(s) THEN s[k] ELSE t[k - Len(s)]
  BY ConcatProperties, LenProperties
<1> HIDE DEF u
<1>2. ASSUME NEW k \in 1 .. Len(u), u[k] = a PROVE k < Len(u) /\ u[k + 1] = b
  <2>1. CASE k <= Len(s)
    <3>1. k \in 1 .. Len(s) /\ s[k] = a
      BY <1>1, <1>2, <2>1
    <3>2. k < Len(s) /\ s[k + 1] = b
      BY <3>1 DEF Follows
    <3> QED BY <1>1, <3>2
  <2>2. CASE k > Len(s)
    <3>1. k - Len(s) \in 1 .. Len(t) /\ t[k - Len(s)] = a
      BY <1>1, <1>2, <2>2
    <3>2. k - Len(s) < Len(t) /\ t[(k - Len(s)) + 1] = b
      BY <3>1 DEF Follows
    <3> QED BY <1>1, <2>2, <3>2
  <2> QED BY <1>1, <2>1, <2>2
<1>3. Follows(u, a, b)
  BY <1>2 DEF Follows
<1> QED BY <1>3 DEF u

\* What a concatenation of lists that meet looks like.
LEMMA ShapeConcat ==
  ASSUME NEW s \in Seq(Op), Shape(s), NEW t \in Seq(Op), Shape(t), Meets(s, t)
  PROVE  Shape(s \o t)
<1> DEFINE u == s \o t
<1>1. /\ Len(s) \in Nat /\ Len(t) \in Nat /\ Len(u) = Len(s) + Len(t)
      /\ \A k \in 1 .. Len(s) + Len(t) : u[k] = IF k <= Len(s) THEN s[k] ELSE t[k - Len(s)]
  BY ConcatProperties, LenProperties
<1> HIDE DEF u
<1>2. ASSUME NEW k \in 1 .. Len(u)
      PROVE  \/ k <= Len(s) /\ k \in 1 .. Len(s) /\ u[k] = s[k] /\ s[k] \in Ops(s)
             \/ k > Len(s) /\ k - Len(s) \in 1 .. Len(t) /\ u[k] = t[k - Len(s)] /\ t[k - Len(s)] \in Ops(t)
  <2>1. CASE k <= Len(s)
    BY <1>1, <2>1 DEF Ops
  <2>2. CASE k > Len(s)
    BY <1>1, <2>2 DEF Ops
  <2> QED BY <1>1, <2>1, <2>2
<1>3. ASSUME NEW k \in 1 .. Len(u), u[k] \in Finals PROVE k = Len(u)
  BY <1>1, <1>2, <1>3 DEF Shape, Meets
<1>4. ASSUME NEW j \in 1 .. Len(u), NEW k \in 1 .. Len(u), u[j] = "osd_close", u[k] \in {"osd_cancel", "osd_on"}
      PROVE  k < j
  <2>1. CASE j <= Len(s) /\ k <= Len(s)
    BY <1>1, <1>2, <1>4, <2>1 DEF Shape
  <2>2. CASE j <= Len(s) /\ k > Len(s)
    BY <1>1, <1>2, <1>4, <2>2 DEF Meets
  <2>3. CASE j > Len(s) /\ k > Len(s)
    <3>1. k - Len(s) < j - Len(s)
      BY <1>1, <1>2, <1>4, <2>3 DEF Shape
    <3> QED BY <1>1, <3>1
  <2>4. CASE j > Len(s) /\ k <= Len(s)
    BY <1>1, <2>4
  <2>5. Len(s) \in Nat /\ Len(u) \in Nat
    BY <1>1
  <2> QED BY <2>1, <2>2, <2>3, <2>4, <2>5
<1>5. ASSUME NEW j \in 1 .. Len(u), NEW k \in 1 .. Len(u), u[j] = "led_arm", u[k] = "led_arm" PROVE j = k
  <2>1. CASE j <= Len(s) /\ k <= Len(s)
    BY <1>1, <1>2, <1>5, <2>1 DEF Shape
  <2>2. CASE j > Len(s) /\ k > Len(s)
    <3>1. /\ k - Len(s) \in 1 .. Len(t) /\ j - Len(s) \in 1 .. Len(t)
          /\ t[k - Len(s)] = "led_arm" /\ t[j - Len(s)] = "led_arm"
      BY <1>1, <1>2, <1>5, <2>2
    <3>2. k - Len(s) = j - Len(s)
      BY <3>1 DEF Shape
    <3>3. Len(s) \in Nat /\ Len(u) \in Nat
      BY <1>1
    <3> QED BY <3>2, <3>3
  <2>3. CASE (j <= Len(s) /\ k > Len(s)) \/ (j > Len(s) /\ k <= Len(s))
    BY <1>1, <1>2, <1>5, <2>3 DEF Meets
  <2> QED BY <1>1, <2>1, <2>2, <2>3
<1>6. OsdEnabled => Follows(u, "osd_open", "osd_cancel")
  BY FollowsConcat DEF Shape, u
<1>7. lcd_bl_timeout # 0 => Follows(u, "oled_on", "lcd_cancel") /\ Follows(u, "lcd_cancel", "lcd_arm")
  <2>1. lcd_bl_timeout # 0 => Follows(u, "oled_on", "lcd_cancel")
    BY FollowsConcat DEF Shape, u
  <2>2. lcd_bl_timeout # 0 => Follows(u, "lcd_cancel", "lcd_arm")
    BY FollowsConcat DEF Shape, u
  <2> QED BY <2>1, <2>2
<1>8. Shape(u)
  BY <1>3, <1>4, <1>5, <1>6, <1>7 DEF Shape
<1> QED BY <1>8 DEF u

\* A list without the operations whose place matters, but for those that another follows.
LEMMA ShapePlain ==
  ASSUME NEW s \in Seq(Op), Ops(s) \cap (Finals \cup {"osd_close", "led_arm"}) = {},
         OsdEnabled => Follows(s, "osd_open", "osd_cancel"),
         lcd_bl_timeout # 0 => Follows(s, "oled_on", "lcd_cancel") /\ Follows(s, "lcd_cancel", "lcd_arm")
  PROVE  Shape(s)
<1>1. \A k \in 1 .. Len(s) : s[k] \in Ops(s)
  BY DEF Ops
<1> QED BY <1>1 DEF Shape

\* Nothing follows an operation that is not there.
LEMMA FollowsNone == ASSUME NEW s, NEW a, NEW b, a \notin Ops(s) PROVE Follows(s, a, b)
BY DEF Ops, Follows

\* Operations that nothing is said of may stand in any order.
LEMMA ShapeFree ==
  ASSUME NEW s \in Seq(Op),
         Ops(s) \cap (Finals \cup {"osd_close", "led_arm", "osd_open", "oled_on", "lcd_cancel"}) = {}
  PROVE  Shape(s)
BY ShapePlain, FollowsNone

\* A list of one operation that nothing has to follow.
LEMMA ShapeOne ==
  ASSUME NEW op \in Op \ {"osd_open", "oled_on", "lcd_cancel"}
  PROVE  Shape(<<op>>) /\ <<op>> \in Seq(Op) /\ Ops(<<op>>) = {op}
<1>1. Len(<<op>>) = 1 /\ <<op>>[1] = op
  OBVIOUS
<1> QED BY <1>1, OpsOne DEF Shape, Follows

\* The operations of a concatenation in their order.
LEMMA ConcatIndex ==
  ASSUME NEW s \in Seq(Op), NEW t \in Seq(Op)
  PROVE  \A k \in 1 .. Len(s) + Len(t) : (s \o t)[k] = IF k <= Len(s) THEN s[k] ELSE t[k - Len(s)]
BY ConcatProperties

\* An operation before a list that begins with what has to follow it.
LEMMA ShapeCons ==
  ASSUME NEW op \in Op \ (Finals \cup {"osd_close", "led_arm"}), NEW t \in Seq(Op), Shape(t),
         OsdEnabled /\ op = "osd_open" => t # <<>> /\ Head(t) = "osd_cancel",
         lcd_bl_timeout # 0 /\ op = "oled_on" => t # <<>> /\ Head(t) = "lcd_cancel",
         lcd_bl_timeout # 0 /\ op = "lcd_cancel" => t # <<>> /\ Head(t) = "lcd_arm"
  PROVE  LET u == <<op>> \o t IN
         Shape(u) /\ u \in Seq(Op) /\ u # <<>> /\ Head(u) = op /\ Ops(u) = {op} \cup Ops(t)
<1> DEFINE p == <<op>>
           u == p \o t
<1>1. p \in Seq(Op) /\ Len(p) = 1 /\ p[1] = op /\ Ops(p) = {op}
  BY OpsOne
<1> HIDE DEF p
<1>2. /\ Len(t) \in Nat /\ Len(u) = 1 + Len(t) /\ u \in Seq(Op)
      /\ \A k \in 1 .. 1 + Len(t) : u[k] = IF k <= 1 THEN p[k] ELSE t[k - 1]
      /\ Ops(u) = {op} \cup Ops(t)
  <2>1. Len(t) \in Nat /\ u \in Seq(Op) /\ Len(u) = Len(p) + Len(t)
    BY <1>1, ConcatProperties, LenProperties
  <2>2. \A k \in 1 .. Len(p) + Len(t) : u[k] = IF k <= Len(p) THEN p[k] ELSE t[k - Len(p)]
    BY <1>1, ConcatIndex
  <2>3. Ops(u) = {op} \cup Ops(t)
    BY <1>1, OpsConcat
  <2> HIDE DEF u
  <2> QED BY <1>1, <2>1, <2>2, <2>3
<1> HIDE DEF u
<1>3. u[1] = op /\ u # <<>> /\ Head(u) = u[1]
  <2>1. u[1] = op /\ u # <<>>
    BY <1>1, <1>2
  <2> QED BY <1>2, <2>1, OpsTail
<1>4. t # <<>> => Len(t) > 0 /\ Head(t) = t[1]
  BY OpsTail
<1>5. ASSUME NEW x, NEW y, Follows(t, x, y), op = x => t # <<>> /\ Head(t) = y
      PROVE  Follows(u, x, y)
  <2>1. ASSUME NEW k \in 1 .. Len(u), u[k] = x PROVE k < Len(u) /\ u[k + 1] = y
    <3>1. CASE k = 1
      <4>1. Len(t) > 0 /\ t[1] = y
        BY <1>3, <1>4, <1>5, <2>1, <3>1
      <4>2. u[2] = t[1]
        BY <1>2, <4>1
      <4> QED BY <1>2, <3>1, <4>1, <4>2
    <3>2. CASE k > 1
      <4>1. k - 1 \in 1 .. Len(t) /\ t[k - 1] = x
        BY <1>2, <2>1, <3>2
      <4>2. k - 1 < Len(t) /\ t[(k - 1) + 1] = y
        BY <1>5, <4>1 DEF Follows
      <4> QED BY <1>2, <3>2, <4>2
    <3> QED BY <1>2, <3>1, <3>2
  <2> QED BY <2>1 DEF Follows
<1>6. ASSUME NEW k \in 2 .. Len(u) PROVE k - 1 \in 1 .. Len(t) /\ u[k] = t[k - 1]
  BY <1>2
<1>7. \A k \in 1 .. Len(u) : u[k] \in Finals => k = Len(u)
  <2>1. ASSUME NEW k \in 1 .. Len(u), u[k] \in Finals PROVE k = Len(u)
    <3>1. k # 1
      BY <1>3, <2>1
    <3>2. k \in 2 .. Len(u)
      BY <1>2, <3>1
    <3>3. k - 1 = Len(t)
      BY <1>6, <2>1, <3>2 DEF Shape
    <3> QED BY <1>2, <3>3
  <2> QED BY <2>1
<1>8. \A j, k \in 1 .. Len(u) : u[j] = "osd_close" /\ u[k] \in {"osd_cancel", "osd_on"} => k < j
  <2>1. ASSUME NEW j \in 1 .. Len(u), NEW k \in 1 .. Len(u), u[j] = "osd_close", u[k] \in {"osd_cancel", "osd_on"}
        PROVE  k < j
    <3>1. j # 1
      BY <1>3, <2>1
    <3>2. j \in 2 .. Len(u)
      BY <1>2, <3>1
    <3>3. CASE k = 1
      BY <3>2, <3>3
    <3>4. CASE k \in 2 .. Len(u)
      <4>1. k - 1 < j - 1
        BY <1>6, <2>1, <3>2, <3>4 DEF Shape
      <4> QED BY <4>1, <3>2, <3>4
    <3> QED BY <1>2, <3>3, <3>4
  <2> QED BY <2>1
<1>9. \A j, k \in 1 .. Len(u) : u[j] = "led_arm" /\ u[k] = "led_arm" => j = k
  <2>1. ASSUME NEW j \in 1 .. Len(u), NEW k \in 1 .. Len(u), u[j] = "led_arm", u[k] = "led_arm"
        PROVE  j = k
    <3>1. j # 1 /\ k # 1
      BY <1>3, <2>1
    <3>2. j \in 2 .. Len(u) /\ k \in 2 .. Len(u)
      BY <1>2, <3>1
    <3>3. k - 1 = j - 1
      BY <1>6, <2>1, <3>2 DEF Shape
    <3> QED BY <3>2, <3>3
  <2> QED BY <2>1
<1>10. Shape(u)
  BY <1>5, <1>7, <1>8, <1>9 DEF Shape
<1>11. Head(u) = op
  BY <1>3
<1> QED BY <1>2, <1>3, <1>10, <1>11 DEF u, p

\* The rest of a list.
LEMMA ShapeTail ==
  ASSUME NEW s \in Seq(Op), s # <<>>, Shape(s)
  PROVE  LET t == Tail(s) IN
         /\ Shape(t)
         /\ Head(s) \in Finals => t = <<>>
         /\ Head(s) = "osd_close" => Ops(t) \cap {"osd_cancel", "osd_on"} = {}
         /\ Head(s) = "led_arm" => "led_arm" \notin Ops(t)
         /\ OsdEnabled /\ Head(s) = "osd_open" => "osd_cancel" \in Ops(t)
         /\ lcd_bl_timeout # 0 /\ Head(s) = "oled_on" => t # <<>> /\ Head(t) = "lcd_cancel"
         /\ lcd_bl_timeout # 0 /\ Head(s) = "lcd_cancel" => t # <<>> /\ Head(t) = "lcd_arm"
<1> DEFINE t == Tail(s)
<1>1. PICK n \in Nat : n = Len(t)
  BY HeadTailProperties, LenProperties
<1>2. t \in Seq(Op) /\ Len(s) = n + 1 /\ Head(s) = s[1] /\ \A k \in 1 .. n : t[k] = s[k + 1]
  <2>1. /\ Len(t) = Len(s) - 1 /\ Len(s) \in Nat \ {0} /\ t \in Seq(Op)
        /\ Head(s) = s[1]
        /\ \A k \in 1 .. Len(t) : t[k] = s[k + 1]
    BY OpsTail
  <2> HIDE DEF t
  <2> QED BY <1>1, <2>1
<1> HIDE DEF t
<1>3. ASSUME NEW k \in 1 .. n PROVE k + 1 \in 1 .. n + 1 /\ t[k] = s[k + 1]
  BY <1>2
<1>4. 1 \in 1 .. n + 1
  OBVIOUS
<1>5. ASSUME NEW a, NEW b, Follows(s, a, b)
      PROVE  Follows(t, a, b) /\ (Head(s) = a => t # <<>> /\ Head(t) = b /\ b \in Ops(t))
  <2>1. ASSUME NEW k \in 1 .. n, t[k] = a PROVE k < n /\ t[k + 1] = b
    <3>1. k + 1 < n + 1 /\ s[(k + 1) + 1] = b
      BY <1>2, <1>3, <1>5, <2>1 DEF Follows
    <3> QED BY <1>2, <3>1
  <2>2. Follows(t, a, b)
    BY <1>1, <2>1 DEF Follows
  <2>3. ASSUME Head(s) = a PROVE t # <<>> /\ Head(t) = b /\ b \in Ops(t)
    <3>1. 1 < n + 1 /\ s[1 + 1] = b
      BY <1>2, <1>4, <1>5, <2>3 DEF Follows
    <3>2. 1 \in 1 .. n /\ t[1] = b
      BY <1>2, <3>1
    <3>3. t # <<>>
      BY <1>1, <3>2
    <3>4. Head(t) = t[1]
      BY <1>2, <3>3, OpsTail
    <3> QED BY <1>1, <3>2, <3>3, <3>4 DEF Ops
  <2> QED BY <2>2, <2>3
<1>6. /\ \A k \in 1 .. n + 1 : s[k] \in Finals => k = n + 1
      /\ \A j, k \in 1 .. n + 1 : s[j] = "osd_close" /\ s[k] \in {"osd_cancel", "osd_on"} => k < j
      /\ \A j, k \in 1 .. n + 1 : s[j] = "led_arm" /\ s[k] = "led_arm" => j = k
  BY <1>2 DEF Shape
<1>7. \A k \in 1 .. n : t[k] \in Finals => k = n
  <2>1. ASSUME NEW k \in 1 .. n, t[k] \in Finals PROVE k = n
    <3>1. k + 1 = n + 1
      BY <1>3, <1>6, <2>1
    <3> QED BY <3>1
  <2> QED BY <2>1
<1>8. \A j, k \in 1 .. n : t[j] = "osd_close" /\ t[k] \in {"osd_cancel", "osd_on"} => k < j
  <2>1. ASSUME NEW j \in 1 .. n, NEW k \in 1 .. n, t[j] = "osd_close", t[k] \in {"osd_cancel", "osd_on"} PROVE k < j
    <3>1. k + 1 < j + 1
      BY <1>3, <1>6, <2>1
    <3> QED BY <3>1
  <2> QED BY <2>1
<1>9. \A j, k \in 1 .. n : t[j] = "led_arm" /\ t[k] = "led_arm" => j = k
  <2>1. ASSUME NEW j \in 1 .. n, NEW k \in 1 .. n, t[j] = "led_arm", t[k] = "led_arm" PROVE j = k
    <3>1. k + 1 = j + 1
      BY <1>3, <1>6, <2>1
    <3> QED BY <3>1
  <2> QED BY <2>1
<1>10. Shape(t)
  BY <1>1, <1>5, <1>7, <1>8, <1>9 DEF Shape
<1>11. Head(s) \in Finals => t = <<>>
  <2>1. Head(s) \in Finals => n = 0
    BY <1>2, <1>4, <1>6
  <2> QED BY <1>1, <1>2, <2>1, EmptySeq
<1>12. ASSUME NEW op \in Ops(t) PROVE \E k \in 2 .. n + 1 : s[k] = op
  <2>1. PICK k \in 1 .. n : t[k] = op
    BY <1>1 DEF Ops
  <2>2. k + 1 \in 2 .. n + 1 /\ s[k + 1] = op
    BY <1>3, <2>1
  <2> QED BY <2>2
<1>13. Head(s) = "osd_close" => Ops(t) \cap {"osd_cancel", "osd_on"} = {}
  BY <1>2, <1>4, <1>6, <1>12
<1>14. Head(s) = "led_arm" => "led_arm" \notin Ops(t)
  BY <1>2, <1>4, <1>6, <1>12
<1> QED BY <1>5, <1>10, <1>11, <1>13, <1>14 DEF Shape, t
--------------------------------------------------------------------------------
(* The lists. *)

\* lcd_write_row1 arms the display's timeout again when it has given it up.
LEMMA LcdRowShape ==
  /\ Shape(LcdRow) /\ LcdRow \in Seq(Op) /\ LcdRow # <<>>
  /\ lcd_bl_timeout # 0 => "lcd_arm" \in Ops(LcdRow)
  /\ has_sh1107 => Head(LcdRow) = "oled_on"
<1> DEFINE o == IF has_sh1107 THEN <<"oled_on">> ELSE Write("lit1")
           c == <<"lcd_cancel">>
           a == IF lcd_bl_timeout # 0 THEN <<"lcd_arm">> ELSE <<>>
           r == c \o a
<1>1. /\ a \in Seq(Op) /\ Shape(a)
      /\ lcd_bl_timeout # 0 => a # <<>> /\ Head(a) = "lcd_arm" /\ Ops(a) = {"lcd_arm"}
      /\ "led_arm" \notin Ops(a)
  <2>1. <<"lcd_arm">> \in Seq(Op) /\ Shape(<<"lcd_arm">>) /\ Ops(<<"lcd_arm">>) = {"lcd_arm"}
        /\ <<"lcd_arm">> # <<>> /\ Head(<<"lcd_arm">>) = "lcd_arm"
    BY ShapeOne DEF Op
  <2>2. <<>> \in Seq(Op) /\ Ops(<<>>) = {}
    BY EmptySeq, OpsEmpty
  <2>3. Shape(<<>>)
    BY <2>2, ShapeFree
  <2> QED BY <2>1, <2>2, <2>3
<1>2. Part(o) /\ Ops(o) = IF has_sh1107 THEN {"oled_on"} ELSE {"load", "lit1"}
  BY PartOne, PartWrite DEF Op, Stores
<1>3. o \in Seq(Op) /\ c \in Seq(Op)
  BY <1>2 DEF Part, Op
<1>4. LcdRow = (o \o c) \o a
  BY DEF LcdRow
<1>5. ~ has_sh1107 => o = Write("lit1")
  OBVIOUS
<1>6. has_sh1107 => o = <<"oled_on">>
  OBVIOUS
<1>7. Shape(r) /\ r \in Seq(Op) /\ r # <<>> /\ Head(r) = "lcd_cancel" /\ Ops(r) = {"lcd_cancel"} \cup Ops(a)
  <2> HIDE DEF a
  <2>1. "lcd_cancel" \in Op \ (Finals \cup {"osd_close", "led_arm"})
    BY DEF Op, Finals
  <2> QED BY <1>1, <2>1, ShapeCons
<1> HIDE DEF a, o
<1>8. LcdRow = o \o r
  BY <1>1, <1>3, <1>4, ConcatAssociative
<1> HIDE DEF c, r
<1>9. Shape(LcdRow) /\ LcdRow \in Seq(Op) /\ Ops(LcdRow) = Ops(o) \cup Ops(r)
  <2>1. CASE has_sh1107
    <3>1. "oled_on" \in Op \ (Finals \cup {"osd_close", "led_arm"})
      BY DEF Op, Finals
    <3> QED BY <1>2, <1>6, <1>7, <1>8, <2>1, <3>1, ShapeCons
  <2>2. CASE ~ has_sh1107
    <3>1. Shape(o) /\ Meets(o, r)
      BY <1>2, <1>3, <2>2, ShapeFree DEF Meets, Finals
    <3> QED BY <1>3, <1>7, <1>8, <3>1, ShapeConcat, OpsConcat, ConcatProperties
  <2> QED BY <2>1, <2>2
<1>10. has_sh1107 => Head(LcdRow) = "oled_on"
  <2>1. "oled_on" \in Op \ (Finals \cup {"osd_close", "led_arm"})
    BY DEF Op, Finals
  <2> QED BY <1>6, <1>7, <1>8, <2>1, ShapeCons
<1>11. LcdRow # <<>>
  BY <1>7, <1>9, OpsEmpty
<1> QED BY <1>1, <1>7, <1>9, <1>10, <1>11

\* The first operation of a concatenation.
LEMMA HeadConcat ==
  ASSUME NEW s \in Seq(Op), NEW t \in Seq(Op), s # <<>>
  PROVE  s \o t # <<>> /\ Head(s \o t) = Head(s)
<1>1. Len(s) \in Nat \ {0} /\ Head(s) = s[1]
  BY OpsTail
<1>2. Len(t) \in Nat /\ Len(s \o t) = Len(s) + Len(t) /\ (s \o t)[1] = s[1] /\ s \o t \in Seq(Op)
  BY <1>1, ConcatProperties, LenProperties
<1>3. s \o t # <<>>
  BY <1>1, <1>2
<1> QED BY <1>1, <1>2, <1>3, OpsTail

\* Both rows.
LEMMA LcdRowsShape ==
  /\ Shape(LcdRows) /\ LcdRows \in Seq(Op)
  /\ lcd_bl_timeout # 0 => "lcd_arm" \in Ops(LcdRows)
  /\ has_sh1107 => LcdRows # <<>> /\ Head(LcdRows) = "oled_on"
<1>1. Shape(LcdRow) /\ LcdRow \in Seq(Op) /\ (lcd_bl_timeout # 0 => "lcd_arm" \in Ops(LcdRow))
      /\ (has_sh1107 => Head(LcdRow) = "oled_on")
  BY LcdRowShape
<1>2. Meets(LcdRow, LcdRow)
  BY LcdRowPart DEF Meets, Finals
<1>3. Shape(LcdRow \o LcdRow) /\ LcdRow \o LcdRow \in Seq(Op) /\ Ops(LcdRow \o LcdRow) = Ops(LcdRow)
  BY <1>1, <1>2, ShapeConcat, OpsConcat, ConcatProperties
<1>4. LcdRow # <<>>
  BY LcdRowShape
<1>5. LcdRow \o LcdRow # <<>> /\ Head(LcdRow \o LcdRow) = Head(LcdRow)
  BY <1>1, <1>4, HeadConcat
<1> QED BY <1>1, <1>3, <1>5 DEF LcdRows

\* osd_status arms osd_off last.
LEMMA OsdStatusShape ==
  ASSUME osd_status_timeout # 0
  PROVE  /\ Shape(OsdStatus) /\ OsdStatus \in Seq(Op)
         /\ lcd_bl_timeout # 0 => "lcd_arm" \in Ops(OsdStatus)
         /\ has_sh1107 => OsdStatus # <<>> /\ Head(OsdStatus) = "oled_on"
         /\ IF OsdEnabled THEN "osd_arm" \in Ops(OsdStatus) ELSE "osd_on" \notin Ops(OsdStatus)
<1> DEFINE b == IF OsdEnabled
                THEN <<"osd_cancel", "osd_on">> \o (IF osd_status_timeout # 0 THEN <<"osd_arm">> ELSE <<>>)
                ELSE <<"osd_off">>
<1>1. OsdStatus = LcdRows \o b
  BY DEF OsdStatus
<1>2. /\ Shape(b) /\ b \in Seq(Op) /\ "led_arm" \notin Ops(b)
      /\ IF OsdEnabled THEN "osd_arm" \in Ops(b) ELSE "osd_on" \notin Ops(b)
  <2>1. CASE OsdEnabled
    <3> DEFINE p == <<"osd_cancel", "osd_on">>
               q == <<"osd_arm">>
    <3>1. b = p \o q
      BY <2>1
    <3>2. p \in Seq(Op) /\ Ops(p) = {"osd_cancel", "osd_on"} /\ Shape(p)
      BY PartOsdOn, ShapeFree DEF Part, Finals
    <3>3. q \in Seq(Op) /\ Ops(q) = {"osd_arm"} /\ Shape(q)
      BY ShapeOne DEF Op
    <3> HIDE DEF b, p, q
    <3>4. Meets(p, q)
      BY <3>2, <3>3 DEF Meets, Finals
    <3>5. Shape(p \o q)
      BY <3>2, <3>3, <3>4, ShapeConcat
    <3>6. Ops(p \o q) = {"osd_cancel", "osd_on"} \cup {"osd_arm"} /\ p \o q \in Seq(Op)
      BY <3>2, <3>3, OpsConcat, ConcatProperties
    <3> QED BY <2>1, <3>1, <3>5, <3>6
  <2>2. CASE ~ OsdEnabled
    <3>1. b = <<"osd_off">>
      BY <2>2
    <3> HIDE DEF b
    <3>2. b \in Seq(Op) /\ Ops(b) = {"osd_off"} /\ Shape(b)
      BY <3>1, ShapeOne DEF Op
    <3> QED BY <2>2, <3>2
  <2> QED BY <2>1, <2>2
<1> HIDE DEF b
<1>3. Meets(LcdRows, b)
  BY LcdRowsPart DEF Meets, Finals
<1>4. Shape(OsdStatus) /\ OsdStatus \in Seq(Op) /\ Ops(OsdStatus) = Ops(LcdRows) \cup Ops(b)
  BY <1>1, <1>2, <1>3, LcdRowsShape, ShapeConcat, OpsConcat, ConcatProperties
<1>5. has_sh1107 => OsdStatus # <<>> /\ Head(OsdStatus) = "oled_on"
  BY <1>1, <1>2, LcdRowsShape, HeadConcat
<1>6. "osd_on" \notin Ops(LcdRows)
  BY LcdRowsPart
<1> QED BY <1>2, <1>4, <1>5, <1>6, LcdRowsShape

\* osd_set_menu_active.
LEMMA OsdOpenShape ==
  /\ Shape(OsdOpen) /\ OsdOpen \in Seq(Op) /\ "osd_open" \in Ops(OsdOpen)
  /\ ~ OsdEnabled => "osd_on" \notin Ops(OsdOpen)
<1> DEFINE on == <<"osd_cancel", "osd_on">>
           t == IF OsdEnabled THEN on ELSE <<"osd_off">>
<1>1. on \in Seq(Op) /\ Ops(on) = {"osd_cancel", "osd_on"} /\ Shape(on) /\ on # <<>> /\ Head(on) = "osd_cancel"
  <2>1. on \in Seq(Op) /\ Ops(on) = {"osd_cancel", "osd_on"} /\ on # <<>> /\ Head(on) = "osd_cancel"
    BY PartOsdOn DEF Part
  <2> QED BY <2>1, ShapeFree DEF Finals
<1>2. Shape(<<"osd_off">>) /\ <<"osd_off">> \in Seq(Op) /\ Ops(<<"osd_off">>) = {"osd_off"}
  BY ShapeOne DEF Op
<1>3. OsdOpen = <<"osd_open">> \o t
  BY DEF OsdOpen
<1>4. t \in Seq(Op) /\ Shape(t) /\ (OsdEnabled => t # <<>> /\ Head(t) = "osd_cancel")
      /\ (~ OsdEnabled => "osd_on" \notin Ops(t))
  BY <1>1, <1>2
<1> HIDE DEF t
<1>5. "osd_open" \in Op \ (Finals \cup {"osd_close", "led_arm"})
  BY DEF Op, Finals
<1>6. Shape(OsdOpen) /\ OsdOpen \in Seq(Op) /\ Ops(OsdOpen) = {"osd_open"} \cup Ops(t)
  BY <1>3, <1>4, <1>5, ShapeCons
<1> QED BY <1>4, <1>6

\* Closing the menu switches the OSD off last.
LEMMA OsdCloseShape ==
  /\ Shape(OsdClose) /\ OsdClose \in Seq(Op) /\ "osd_close" \in Ops(OsdClose)
  /\ OsdEnabled => "osd_off_if_idle" \in Ops(OsdClose)
<1> DEFINE a == <<"osd_close">>
           b == IF OsdEnabled THEN <<"osd_off_if_idle">> ELSE <<"osd_off">>
<1>1. /\ Shape(a) /\ a \in Seq(Op) /\ Ops(a) = {"osd_close"}
      /\ Shape(b) /\ b \in Seq(Op) /\ Ops(b) = IF OsdEnabled THEN {"osd_off_if_idle"} ELSE {"osd_off"}
  <2>1. Shape(a) /\ a \in Seq(Op) /\ Ops(a) = {"osd_close"}
    BY ShapeOne DEF Op
  <2>2. Shape(b) /\ b \in Seq(Op) /\ Ops(b) = IF OsdEnabled THEN {"osd_off_if_idle"} ELSE {"osd_off"}
    BY ShapeOne DEF Op
  <2> QED BY <2>1, <2>2
<1>2. OsdClose = (a \o LcdRows) \o b
  BY DEF OsdClose
<1> HIDE DEF a, b
<1>3. Meets(a, LcdRows)
  BY <1>1, LcdRowsPart DEF Meets, Finals
<1>4. Shape(a \o LcdRows) /\ a \o LcdRows \in Seq(Op) /\ Ops(a \o LcdRows) = {"osd_close"} \cup Ops(LcdRows)
  BY <1>1, <1>3, LcdRowsShape, ShapeConcat, OpsConcat, ConcatProperties
<1>5. Meets(a \o LcdRows, b)
  BY <1>1, <1>4, LcdRowsPart DEF Meets, Finals
<1>6. Shape(OsdClose) /\ OsdClose \in Seq(Op) /\ Ops(OsdClose) = ({"osd_close"} \cup Ops(LcdRows)) \cup Ops(b)
  BY <1>1, <1>2, <1>4, <1>5, ShapeConcat, OpsConcat, ConcatProperties
<1> QED BY <1>1, <1>6
--------------------------------------------------------------------------------
(* The timers, one by one. *)

\* A timer is free or has the callback of a client.
Held == now \in Nat \ {0} /\ \A i \in Slot : timer[i].cb \in Client \/ timer[i] = T!Free

\* The timer the main program has claimed is still free, and no time has passed.
QuietClaim ==
  claim # T!NoClaim => /\ claim.others = {} /\ claim.since = now /\ timer[claim.slot] = T!Free
                       /\ has_sh1107 /\ lcd_bl_timeout # 0 /\ Head(todo) = "lcd_arm" => claim.slot = 0

\* What an operation leaves of each timer, and which it takes.
Moves(op) ==
  /\ now' = now
  /\ \A i \in Slot : timer'[i].cb \in Client \/ timer'[i] = T!Free
  /\ \A i \in Slot : timer'[i] # timer[i] =>
       \/ timer[i] = T!Free /\ i = claim.slot
       \/ op = "osd_cancel" /\ i = osd_idx
       \/ op = "lcd_cancel" /\ i = lcd_idx
  /\ op = "lcd_cancel" => \A i \in Slot : timer[i] = T!Free \/ i = lcd_idx => timer'[i] = T!Free
  /\ op = "osd_arm" => /\ claim # T!NoClaim \/ ~ PoolFull => \E i \in Slot : timer'[i].cb = "osd_off"
                       /\ \A i \in Slot : timer[i] # T!Free => osd_idx' # i
  /\ op = "lcd_arm" => \/ claim = T!NoClaim /\ PoolFull
                       \/ /\ claim # T!NoClaim /\ lcd_idx' = claim.slot
                          /\ timer'[claim.slot] = [cb |-> "lcd_off", due |-> now + LcdTime[lcd_bl_timeout]]
  /\ \A i \in Slot : timer'[i].cb = "controls_reset_led" =>
       timer[i].cb = "controls_reset_led" \/ (op = "led_arm" /\ i = claim.slot)

\* timer_timeout fills the timer it has claimed, due when it was asked for.
LEMMA ArmMoves ==
  ASSUME IsPool(timer), Held, ClaimInv, QuietClaim, irq = <<>>,
         NEW op \in Arms, op = Head(todo), NEW idx \in Slot \cup {None}, ArmFor(idx, op)
  PROVE  /\ now' = now
         /\ claim = T!NoClaim => PoolFull /\ timer' = timer /\ idx = None
         /\ claim # T!NoClaim => /\ idx = claim.slot /\ claim.slot \in Slot /\ timer[claim.slot] = T!Free
                                 /\ timer'[claim.slot] = [cb |-> Asked(op).cb, due |-> now + Asked(op).usec]
                                 /\ \A i \in Slot : i # claim.slot => timer'[i] = timer[i]
<1> DEFINE cb == Asked(op).cb
           usec == Asked(op).usec
<1>1. Arm(idx, cb, usec)
  BY DEF ArmFor
<1>2. usec \in Nat
  BY TimesAssumption DEF Asked, Arms
<1>3. CASE claim = T!NoClaim
  BY <1>1, <1>3 DEF Arm, timers, T!Fill
<1>4. CASE claim # T!NoClaim
  <2>1. idx = claim.slot /\ T!Fill
    BY <1>1, <1>4 DEF Arm
  <2>2. /\ claim.slot \in Slot /\ claim.cb = cb /\ claim.usec = usec
        /\ claim.others = {} /\ claim.since = now /\ timer[claim.slot] = T!Free
    <3>1. PICK slot \in Slot, others \in SUBSET {"none", "lcd_off"}, since \in {claim.since} :
            claim = Claimed(slot, others, since, op)
      BY <1>4 DEF ClaimInv
    <3>2. claim.slot = slot /\ claim.cb = cb /\ claim.usec = usec
      BY <3>1 DEF Claimed
    <3> QED BY <1>4, <3>2 DEF QuietClaim
  <2> HIDE DEF cb, usec
  <2>3. PICK new \in T!Outcomes :
          timer' = [timer EXCEPT ![claim.slot] = IF new.due = 0 THEN T!Free ELSE T!Armed(new.cb, T!Later(now, new.due))]
    BY <2>1 DEF T!Fill
  <2>4. new = T!Armed(cb, now + usec)
    <3>1. PICK read \in now .. now : new = T!Armed(cb, read + usec)
      BY <2>2, <2>3 DEF T!Outcomes
    <3>2. read = now
      BY <3>1 DEF Held
    <3> QED BY <3>1, <3>2
  <2>5. new.cb = cb /\ new.due = now + usec
    BY <2>4 DEF T!Armed
  <2>6. new.due # 0 /\ T!Later(now, new.due) = now + usec
    BY <1>2, <2>5 DEF Held, T!Later
  <2>7. timer' = [timer EXCEPT ![claim.slot] = [cb |-> cb, due |-> now + usec]]
    BY <2>3, <2>5, <2>6 DEF T!Armed
  <2>8. timer = [i \in Slot |-> timer[i]]
    BY DEF IsPool
  <2>9. now' = now
    BY <2>1 DEF T!Fill
  <2> QED BY <1>4, <2>1, <2>2, <2>7, <2>8, <2>9 DEF cb, usec
<1> QED BY <1>3, <1>4

\* timer_cancel frees the timer it is given, and no other.
LEMMA DropMoves ==
  ASSUME IsPool(timer), irq = <<>>, NEW idx, Drop(idx)
  PROVE  /\ now' = now
         /\ \A i \in Slot : timer'[i] = IF i = idx THEN T!Free ELSE timer[i]
<1>1. timer = [i \in Slot |-> timer[i]]
  BY DEF IsPool
<1>2. CASE idx = None
  <2>1. \A i \in Slot : i # idx
    BY <1>2 DEF Slot, None
  <2> QED BY <1>2, <2>1 DEF Drop, timers
<1>3. CASE idx # None
  BY <1>1, <1>3 DEF Drop, T!Cancel
<1> QED BY <1>2, <1>3

\* Every operation of the main program moves at most one timer.
LEMMA DoMoves ==
  ASSUME IsPool(timer), Held, ClaimInv, QuietClaim, irq = <<>>, NEW op, op = Head(todo), Do(op)
  PROVE  Moves(op)
<1>0. T!Free.cb = "none" /\ "none" \notin Client
  BY DEF T!Free, T!Armed, T!NoCb, Client
<1>1. CASE UNCHANGED timers /\ op \notin {"osd_cancel", "lcd_cancel", "osd_arm", "lcd_arm", "led_arm", "info_arm"}
  <2>1. now' = now /\ timer' = timer
    BY <1>1 DEF timers
  <2> QED BY <1>1, <2>1 DEF Moves, Held
<1>2. ASSUME op \in Arms, NEW idx \in Slot \cup {None}, ArmFor(idx, op),
             op = "osd_arm" => osd_idx' = idx,
             op = "lcd_arm" => lcd_idx' = idx
      PROVE  Moves(op)
  <2> DEFINE n == claim.slot
             cb == Asked(op).cb
  <2>1. /\ op = "osd_arm" => cb = "osd_off"
        /\ op = "lcd_arm" => cb = "lcd_off" /\ Asked(op).usec = LcdTime[lcd_bl_timeout]
        /\ cb = "controls_reset_led" => op = "led_arm"
        /\ cb \in Client /\ op \notin {"osd_cancel", "lcd_cancel"}
    BY <1>2 DEF Arms, Asked, Client
  <2>2. /\ now' = now
        /\ claim = T!NoClaim => PoolFull /\ timer' = timer /\ idx = None
        /\ claim # T!NoClaim => /\ idx = n /\ n \in Slot /\ timer[n] = T!Free
                                /\ timer'[n] = [cb |-> cb, due |-> now + Asked(op).usec]
                                /\ \A i \in Slot : i # n => timer'[i] = timer[i]
    BY <1>2, ArmMoves
  <2>3. CASE claim = T!NoClaim
    <3>1. timer' = timer /\ now' = now /\ idx = None /\ PoolFull
      BY <2>2, <2>3
    <3>2. \A i \in Slot : idx # i
      BY <3>1 DEF None, Slot
    <3> HIDE DEF cb, n
    <3> QED BY <1>2, <2>1, <2>3, <3>1, <3>2 DEF Moves, Held
  <2>4. CASE claim # T!NoClaim
    <3>1. /\ idx = n /\ now' = now /\ n \in Slot /\ timer[n] = T!Free
          /\ timer'[n] = [cb |-> cb, due |-> now + Asked(op).usec] /\ timer'[n].cb = cb
          /\ \A i \in Slot : i # n => timer'[i] = timer[i]
      BY <2>2, <2>4
    <3> HIDE DEF cb
    <3>2. n = claim.slot
      OBVIOUS
    <3> HIDE DEF n
    <3>3. \A i \in Slot : timer'[i].cb \in Client \/ timer'[i] = T!Free
      BY <2>1, <3>1 DEF Held
    <3>4. \A i \in Slot : timer'[i] # timer[i] => timer[i] = T!Free /\ i = n
      BY <3>1
    <3>5. op = "osd_arm" => /\ \E i \in Slot : timer'[i].cb = "osd_off"
                            /\ \A i \in Slot : timer[i] # T!Free => osd_idx' # i
      BY <1>2, <2>1, <3>1
    <3>6. op = "lcd_arm" => lcd_idx' = n /\ timer'[n] = [cb |-> "lcd_off", due |-> now + LcdTime[lcd_bl_timeout]]
      BY <1>2, <2>1, <3>1
    <3>7. \A i \in Slot : timer'[i].cb = "controls_reset_led" =>
            timer[i].cb = "controls_reset_led" \/ (op = "led_arm" /\ i = n)
      BY <2>1, <3>1
    <3> QED BY <2>1, <2>4, <3>1, <3>2, <3>3, <3>4, <3>5, <3>6, <3>7 DEF Moves
  <2> QED BY <2>3, <2>4
<1>3. ASSUME NEW idx, Drop(idx), \/ op = "osd_cancel" /\ idx = osd_idx
                                 \/ op = "lcd_cancel" /\ idx = lcd_idx
      PROVE  Moves(op)
  <2>1. now' = now /\ \A i \in Slot : timer'[i] = IF i = idx THEN T!Free ELSE timer[i]
    BY <1>3, DropMoves
  <2>2. \A i \in Slot : timer'[i].cb = "controls_reset_led" => timer[i].cb = "controls_reset_led"
    BY <1>0, <2>1 DEF Client
  <2> QED BY <1>3, <2>1, <2>2 DEF Moves, Held
<1>4. CASE OsdTimer(op)
  <2>1. CASE op = "osd_cancel" /\ Drop(osd_idx)
    BY <1>3, <2>1
  <2>2. CASE op = "osd_arm" /\ \E idx \in Slot \cup {None} : ArmFor(idx, op) /\ osd_idx' = idx
    BY <1>2, <2>2 DEF Arms
  <2> QED BY <1>4, <2>1, <2>2 DEF OsdTimer
<1>5. CASE LcdTimer(op)
  <2>1. CASE op = "lcd_cancel" /\ Drop(lcd_idx)
    BY <1>3, <2>1
  <2>2. CASE op = "lcd_arm" /\ \E idx \in Slot \cup {None} : ArmFor(idx, op) /\ lcd_idx' = idx
    BY <1>2, <2>2 DEF Arms
  <2> QED BY <1>5, <2>1, <2>2 DEF LcdTimer
<1>6. CASE OtherTimer(op)
  BY <1>2, <1>6 DEF OtherTimer, Arms
<1>7. CASE ~ OsdTimer(op) /\ ~ LcdTimer(op) /\ ~ OtherTimer(op)
  <2>1. UNCHANGED timers /\ op \notin {"osd_cancel", "lcd_cancel", "osd_arm", "lcd_arm", "led_arm", "info_arm"}
    BY <1>7 DEF Do, Load, Store, EnableOsd, EnableOled, SetMenuActive, SetStandby, Rest
  <2> QED BY <1>1, <2>1
<1> QED BY <1>4, <1>5, <1>6, <1>7

\* The on-screen display after an operation, and the character display.
Switched(op) ==
  /\ op = "osd_off_if_idle" /\ osd_idx = None => ~ osd'
  /\ op = "osd_off_if_idle" /\ osd' => osd
  /\ op = "osd_off" => ~ osd'
  /\ op = "osd_close" => ~ osd_menu_active'
  /\ has_sh1107 /\ op \notin {"oled_on", "oled_off"} => lit' = lit
  /\ op = "oled_off" => ~ lit'

\* osd.c switches the display off.
LEMMA DoSwitched == ASSUME NEW op, Do(op) PROVE Switched(op)
<1>1. /\ op = "osd_off_if_idle" /\ osd_idx = None => ~ osd'
      /\ op = "osd_off_if_idle" /\ osd' => osd
      /\ op = "osd_off" => ~ osd'
      /\ op = "osd_close" => ~ osd_menu_active'
  BY DEF Do, EnableOsd, SetMenuActive, Load, Store, EnableOled, SetStandby, OsdTimer, LcdTimer, OtherTimer
<1>2. has_sh1107 /\ op \notin {"oled_on", "oled_off"} => lit' = lit
  BY DEF Do, EnableOsd, SetMenuActive, Load, Store, EnableOled, SetStandby, OsdTimer, LcdTimer, OtherTimer, lcdVars, Rest
<1>3. op = "oled_off" => ~ lit'
  BY DoLit DEF Lit
<1> QED BY <1>1, <1>2, <1>3 DEF Switched
--------------------------------------------------------------------------------
(* The invariant. *)

\* The statistics page is never shown: with a backlight, or as long as RC_INFO is not pressed.
NoPage ==
  /\ irq = <<>> /\ "info_arm" \notin Ops(todo)
  /\ \A i \in Slot : timer[i].cb # "print_vm_stats_hide"

\* The keys within the LED's time have as many timers, the one that is to blink included.
LedInv ==
  Cardinality(Pending("controls_reset_led")) + (IF "led_arm" \in Ops(todo) THEN 1 ELSE 0) <= LedOverlap

\* The on-screen display is about to be given its timeout, to become the menu, or to go off.
Hides ==
  \/ "osd_arm" \in Ops(todo) \/ "osd_open" \in Ops(todo)
  \/ "osd_off_if_idle" \in Ops(todo) /\ osd_idx = None

\* It is on with no menu only while osd_off is pending, or it hides; what could take the
\* timeout away is followed by one of these.
OsdInv ==
  IF OsdEnabled
  THEN /\ osd /\ ~ osd_menu_active => Hides \/ \E i \in Slot : timer[i].cb = "osd_off"
       /\ Ops(todo) \cap {"osd_cancel", "osd_on", "lcd_cancel"} # {} /\ ~ osd_menu_active => Hides
       /\ osd_menu_active => osd_idx = None \/ "osd_cancel" \in Ops(todo)
       /\ "osd_arm" \in Ops(todo) => ~ osd_menu_active /\ "osd_open" \notin Ops(todo)
       /\ "osd_close" \in Ops(todo) => "osd_off_if_idle" \in Ops(todo)
  ELSE ~ osd /\ "osd_on" \notin Ops(todo)

\* The OLED's timeout has the first timer; it was armed before the others.
Fresh == timer[0].cb = "lcd_off" /\ timer[0].due \in Nat /\ timer[0].due >= now
OledInv ==
  /\ lcd_idx \in {None, 0} /\ osd_idx # 0
  /\ lit => timer[0].cb = "lcd_off" \/ "lcd_arm" \in Ops(todo) \/ lcd_idx = None
  /\ lcd_idx = None => /\ timer[0] = T!Free /\ todo # <<>>
                       /\ \/ Head(todo) \in {"oled_on", "lcd_cancel", "lcd_arm"}
                          \/ Head(todo) = "status" /\ ~ osd_menu_active
  /\ Head(todo) = "lcd_arm" /\ todo # <<>> => lcd_idx = None
  /\ "osd_arm" \in Ops(todo) => (Fresh \/ "lcd_arm" \in Ops(todo)) /\ "wait" \notin Ops(todo)

Quiet ==
  /\ Held /\ NoPage /\ Shape(todo) /\ LedInv /\ QuietClaim
  /\ ~ has_sh1107 => OsdInv
  /\ has_sh1107 /\ lcd_bl_timeout # 0 => OledInv
QuietInv == DInv /\ ((has_sh1107 /\ "info" \in Keys) \/ Quiet)

\* What is asked of the constants: osd_status_timeout is not 0 ("2s", which osd.c takes for
\* none), and the timers are enough for the keys within the LED's time and both displays.
TimersSuffice ==
  /\ osd_status_timeout # 0
  /\ NSlots \in Nat /\ LedOverlap \in Nat /\ LedOverlap + 1 < NSlots

\* Sets of timers are finite.
LEMMA PendingFinite ==
  ASSUME NSlots \in Nat, NEW cb
  PROVE  IsFiniteSet(Pending(cb)) /\ Cardinality(Pending(cb)) \in Nat /\ IsFiniteSet(Slot) /\ Cardinality(Slot) = NSlots
<1>1. IsFiniteSet(Slot) /\ Cardinality(Slot) = NSlots
  <2>1. 0 \in Int /\ NSlots - 1 \in Int
    OBVIOUS
  <2>2. IsFiniteSet(0 .. NSlots - 1)
        /\ Cardinality(0 .. NSlots - 1) = IF 0 > NSlots - 1 THEN 0 ELSE (NSlots - 1) - 0 + 1
    BY <2>1, FS_Interval
  <2> QED BY <2>2 DEF Slot
<1>2. Pending(cb) \subseteq Slot
  BY DEF Pending
<1> QED BY <1>1, <1>2, FS_Subset, FS_CardinalityType

\* A timer is free for the on-screen display: the others have the keys and the character display.
LEMMA TimerLeft ==
  ASSUME TimersSuffice, TimersKnown, Held, NoPage, LedInv, ~ has_sh1107, osd_idx = None, claim = T!NoClaim
  PROVE  ~ PoolFull
<1>1. SUFFICES ASSUME PoolFull PROVE FALSE
  OBVIOUS
<1> DEFINE P == Pending("controls_reset_led")
<1>2. Slot \subseteq P \cup {lcd_idx}
  <2>1. ASSUME NEW i \in Slot PROVE timer[i].cb \in Client /\ timer[i].cb # "print_vm_stats_hide"
    <3>1. i # claim.slot
      BY DEF T!NoClaim, T!None, Slot
    <3> QED BY <1>1, <3>1 DEF PoolFull, Held, NoPage
  <2>2. ASSUME NEW i \in Slot PROVE timer[i].cb # "osd_off" /\ (timer[i].cb = "lcd_off" => lcd_idx = i)
    BY DEF TimersKnown, None, Slot
  <2> QED BY <2>1, <2>2 DEF Client, Pending
<1>3. IsFiniteSet(P) /\ Cardinality(P) \in Nat /\ IsFiniteSet(Slot) /\ Cardinality(Slot) = NSlots
  BY PendingFinite DEF TimersSuffice
<1>4. Cardinality(P) <= LedOverlap
  BY <1>3 DEF LedInv, TimersSuffice
<1> HIDE DEF P
<1>5. IsFiniteSet(P \cup {lcd_idx}) /\ Cardinality(P \cup {lcd_idx}) <= Cardinality(P) + 1
      /\ Cardinality(P \cup {lcd_idx}) \in Nat
  <2>1. /\ IsFiniteSet(P \cup {lcd_idx})
        /\ Cardinality(P \cup {lcd_idx}) = IF lcd_idx \in P THEN Cardinality(P) ELSE Cardinality(P) + 1
    BY <1>3, FS_AddElement
  <2> QED BY <1>3, <2>1
<1>6. Cardinality(Slot) <= Cardinality(P \cup {lcd_idx})
  BY <1>2, <1>5, FS_Subset
<1> QED BY <1>3, <1>4, <1>5, <1>6 DEF TimersSuffice

\* The LED's timers after a step.
LEMMA LedCount ==
  ASSUME TimersSuffice, LedInv,
         \A i \in Slot : timer'[i].cb = "controls_reset_led" => timer[i].cb = "controls_reset_led",
         "led_arm" \in Ops(todo') => "led_arm" \in Ops(todo)
  PROVE  LedInv'
<1> DEFINE P == Pending("controls_reset_led")
<1>1. IsFiniteSet(P) /\ Cardinality(P) \in Nat
  BY PendingFinite DEF TimersSuffice
<1>2. P' \subseteq P
  BY DEF Pending
<1>3. Cardinality(P') <= Cardinality(P) /\ Cardinality(P') \in Nat
  BY <1>1, <1>2, FS_Subset, FS_CardinalityType
<1>4. Cardinality(P) + (IF "led_arm" \in Ops(todo) THEN 1 ELSE 0) <= LedOverlap
  BY DEF LedInv
<1>5. Cardinality(P') + (IF "led_arm" \in Ops(todo') THEN 1 ELSE 0) <= LedOverlap
  <2> HIDE DEF P
  <2> QED BY <1>1, <1>3, <1>4 DEF TimersSuffice
<1> QED BY <1>5 DEF LedInv

\* The LED's timer is armed.
LEMMA LedArmed ==
  ASSUME TimersSuffice, LedInv, "led_arm" \in Ops(todo), "led_arm" \notin Ops(todo'), NEW n,
         \A i \in Slot : timer'[i].cb = "controls_reset_led" => timer[i].cb = "controls_reset_led" \/ i = n
  PROVE  LedInv'
<1> DEFINE P == Pending("controls_reset_led")
           Q == P \cup {n}
<1>1. IsFiniteSet(P) /\ Cardinality(P) \in Nat
  BY PendingFinite DEF TimersSuffice
<1>2. P' \subseteq Q
  BY DEF Pending
<1>3. IsFiniteSet(Q) /\ Cardinality(Q) <= Cardinality(P) + 1 /\ Cardinality(Q) \in Nat
  <2> HIDE DEF P
  <2> QED BY <1>1, FS_AddElement, FS_CardinalityType
<1>4. Cardinality(P) + 1 <= LedOverlap
  BY DEF LedInv
<1>5. Cardinality(P') <= Cardinality(Q) /\ Cardinality(P') \in Nat
  BY <1>2, <1>3, FS_Subset, FS_CardinalityType
<1>6. Cardinality(P') + 0 <= LedOverlap
  <2> HIDE DEF P, Q
  <2> QED BY <1>1, <1>3, <1>4, <1>5 DEF TimersSuffice
<1> QED BY <1>6 DEF LedInv
--------------------------------------------------------------------------------
(* The main program goes on. *)

\* What its list goes on with.
Goes(h) ==
  /\ h \in Ops(todo) /\ Shape(todo')
  /\ \/ Ops(todo) = {h} \cup Ops(todo') /\ (h = "status" => osd_menu_active)
     \/ h = "status" /\ ~ osd_menu_active /\ Ops(todo) = {"status"} /\ todo' = OsdStatus
  /\ h \in Finals /\ (h = "status" => osd_menu_active) => Ops(todo') = {}
  /\ h = "osd_close" => Ops(todo') \cap {"osd_cancel", "osd_on"} = {}
  /\ h = "led_arm" => "led_arm" \notin Ops(todo')
  /\ OsdEnabled /\ h = "osd_open" => "osd_cancel" \in Ops(todo')
  /\ lcd_bl_timeout # 0 =>
       /\ h = "oled_on" => todo' # <<>> /\ Head(todo') = "lcd_cancel"
       /\ h = "lcd_cancel" => todo' # <<>> /\ Head(todo') = "lcd_arm"
       /\ "lcd_cancel" \in Ops(todo') => "lcd_arm" \in Ops(todo')

\* The first operation of a list is one of it.
LEMMA HeadOps == ASSUME NEW s \in Seq(Op), s # <<>> PROVE Head(s) \in Ops(s)
BY OpsTail

\* What follows an operation is in the list with it.
LEMMA FollowsOps == ASSUME NEW s, NEW a, NEW b, Follows(s, a, b), a \in Ops(s), Len(s) \in Nat PROVE b \in Ops(s)
<1>1. PICK k \in 1 .. Len(s) : s[k] = a
  BY DEF Ops
<1>2. k < Len(s) /\ s[k + 1] = b
  BY <1>1 DEF Follows
<1>3. k + 1 \in 1 .. Len(s)
  BY <1>2
<1> QED BY <1>2, <1>3 DEF Ops

\* It goes on as it began.
LEMMA MainGoes ==
  ASSUME osd_status_timeout # 0, ListInv, Shape(todo), MainStep
  PROVE  Goes(Head(todo))
<1> DEFINE h == Head(todo)
           t == Tail(todo)
<1>1. todo # <<>> /\ todo \in Seq(Op)
  BY DEF ListInv, MainStep
<1>2. t \in Seq(Op) /\ Ops(todo) = {h} \cup Ops(t)
  BY <1>1, OpsTail
<1>3. /\ Shape(t)
      /\ h \in Finals => t = <<>>
      /\ h = "osd_close" => Ops(t) \cap {"osd_cancel", "osd_on"} = {}
      /\ h = "led_arm" => "led_arm" \notin Ops(t)
      /\ OsdEnabled /\ h = "osd_open" => "osd_cancel" \in Ops(t)
      /\ lcd_bl_timeout # 0 /\ h = "oled_on" => t # <<>> /\ Head(t) = "lcd_cancel"
      /\ lcd_bl_timeout # 0 /\ h = "lcd_cancel" => t # <<>> /\ Head(t) = "lcd_arm"
  BY <1>1, ShapeTail
<1>4. todo' = IF h = "status" /\ ~ osd_menu_active THEN OsdStatus \o t ELSE t
  BY DEF MainStep, After
<1> HIDE DEF h, t
<1>5. ASSUME NEW s \in Seq(Op), Shape(s), lcd_bl_timeout # 0, "lcd_cancel" \in Ops(s) PROVE "lcd_arm" \in Ops(s)
  BY <1>5, FollowsOps, LenProperties DEF Shape
<1>6. CASE h = "status" /\ ~ osd_menu_active
  <2>1. t = <<>> /\ OsdStatus \in Seq(Op) /\ Shape(OsdStatus)
    BY <1>3, <1>6, OsdStatusShape DEF Finals
  <2>2. todo' = OsdStatus
    BY <1>4, <1>6, <2>1, ConcatEmptySeq
  <2>3. Ops(todo) = {"status"}
    BY <1>2, <1>6, <2>1, OpsEmpty
  <2>4. Goes(h)
    BY <1>2, <1>5, <1>6, <2>1, <2>2, <2>3 DEF Goes
  <2> QED BY <2>4 DEF h
<1>7. CASE ~ (h = "status" /\ ~ osd_menu_active)
  <2>1. todo' = t
    BY <1>4, <1>7
  <2>2. h \in Finals => Ops(todo') = {}
    BY <1>3, <2>1, OpsEmpty
  <2>3. Goes(h)
    BY <1>2, <1>3, <1>5, <1>7, <2>1, <2>2 DEF Goes
  <2> QED BY <2>3 DEF h
<1> QED BY <1>6, <1>7
--------------------------------------------------------------------------------
\* What a step of the main program does, and what the list goes on with.
Runs(h) ==
  /\ Goes(h) /\ Moves(h) /\ Timed(h) /\ Shown(h) /\ Switched(h)
  /\ h = "osd_arm" => osd_idx = None
  /\ Len(todo') > 0 /\ todo'[1] = "lcd_arm" => h = "lcd_cancel"
  /\ todo' \in Seq(Op) /\ irq' = irq

\* It takes the first operation of the list.
LEMMA MainRuns == ASSUME TimersSuffice, DInv, Quiet, MainStep PROVE Runs(Head(todo)) /\ todo # <<>>
<1> DEFINE h == Head(todo)
<1>1. Do(h) /\ todo # <<>> /\ irq' = irq /\ irq = <<>> /\ Current(h)
  BY DEF MainStep, Current
<1>2. Goes(h)
  BY MainGoes DEF TimersSuffice, DInv, Quiet
<1>3. Timed(h) /\ Shown(h) /\ Switched(h)
  BY <1>1, DoTimed, DoShown, DoSwitched DEF DInv, PageInv
<1>4. Moves(h)
  BY <1>1, DoMoves DEF DInv, PageInv, Quiet
<1>5. h = "osd_arm" => osd_idx = None
  BY <1>1, Ready DEF DInv
<1>6. todo' \in Seq(Op) /\ (Len(todo') > 0 /\ todo'[1] = "lcd_arm" => h = "lcd_cancel")
  BY MainAdvances DEF DInv, Advances
<1> HIDE DEF h
<1>7. Runs(h)
  BY <1>1, <1>2, <1>3, <1>4, <1>5, <1>6 DEF Runs
<1> QED BY <1>1, <1>7 DEF h

\* The page stays away.
LEMMA MainNoPage == ASSUME Quiet, NEW h, Runs(h) PROVE Held' /\ NoPage'
<1>1. Held'
  BY DEF Quiet, Held, Runs, Moves
<1>2. h # "info_arm" /\ "info_arm" \notin Ops(todo')
  BY OsdStatusPart DEF Quiet, NoPage, Runs, Goes
<1>3. ASSUME NEW i \in Slot PROVE timer'[i].cb # "print_vm_stats_hide"
  BY <1>2 DEF Quiet, NoPage, Runs, Timed, Armed
<1>4. NoPage'
  BY <1>2, <1>3 DEF Quiet, NoPage, Runs
<1> QED BY <1>1, <1>4

\* The keys within the LED's time have their timers.
LEMMA MainLed == ASSUME TimersSuffice, Quiet, NEW h, Runs(h) PROVE LedInv'
<1>1. "led_arm" \in Ops(todo') => "led_arm" \in Ops(todo)
  BY OsdStatusPart DEF Runs, Goes
<1>2. CASE h = "led_arm"
  <2> DEFINE n == claim.slot
  <2>1. \A i \in Slot : timer'[i].cb = "controls_reset_led" => timer[i].cb = "controls_reset_led" \/ i = n
    BY DEF Runs, Moves
  <2>2. "led_arm" \in Ops(todo) /\ "led_arm" \notin Ops(todo')
    BY <1>2 DEF Runs, Goes
  <2> HIDE DEF n
  <2> QED BY <2>1, <2>2, LedArmed DEF Quiet
<1>3. CASE h # "led_arm"
  <2>1. \A i \in Slot : timer'[i].cb = "controls_reset_led" => timer[i].cb = "controls_reset_led"
    BY <1>3 DEF Runs, Moves
  <2> QED BY <1>1, <2>1, LedCount DEF Quiet
<1> QED BY <1>2, <1>3

\* The on-screen display gets its timeout.
LEMMA MainOsd == ASSUME TimersSuffice, DInv, Quiet, NEW h, Runs(h), ~ has_sh1107 PROVE OsdInv'
<1>1. CASE OsdEnabled
  <2>1. /\ osd /\ ~ osd_menu_active => Hides \/ \E i \in Slot : timer[i].cb = "osd_off"
        /\ Ops(todo) \cap {"osd_cancel", "osd_on", "lcd_cancel"} # {} /\ ~ osd_menu_active => Hides
        /\ osd_menu_active => osd_idx = None \/ "osd_cancel" \in Ops(todo)
        /\ "osd_arm" \in Ops(todo) => ~ osd_menu_active /\ "osd_open" \notin Ops(todo)
        /\ "osd_close" \in Ops(todo) => "osd_off_if_idle" \in Ops(todo)
    BY <1>1 DEF Quiet, OsdInv
  <2>2. h \in Ops(todo) /\ Shown(h) /\ Timed(h) /\ Moves(h) /\ Switched(h)
    BY DEF Runs, Goes
  <2>3. CASE h = "status" /\ ~ osd_menu_active
    <3>2. todo' = OsdStatus /\ osd_menu_active' = osd_menu_active
      BY <2>2, <2>3 DEF Runs, Goes, Shown
    <3>3. "osd_arm" \in Ops(todo') /\ "osd_open" \notin Ops(todo') /\ "osd_close" \notin Ops(todo')
      BY <1>1, <3>2, OsdStatusPart, OsdStatusShape DEF TimersSuffice
    <3> QED BY <1>1, <2>3, <3>2, <3>3 DEF OsdInv, Hides
  <2>4. CASE ~ (h = "status" /\ ~ osd_menu_active)
    <3>1. /\ Ops(todo) = {h} \cup Ops(todo')
          /\ h \in Finals => Ops(todo') = {}
          /\ h = "osd_close" => "osd_cancel" \notin Ops(todo')
          /\ h = "osd_open" => "osd_cancel" \in Ops(todo')
      BY <1>1, <2>4 DEF Runs, Goes
    <3>2. ~ osd_menu_active' => ~ osd_menu_active \/ h = "osd_close"
      BY <2>2 DEF Shown
    <3>3. ASSUME ~ osd_menu_active, ~ osd_menu_active', Hides, h \notin {"osd_arm", "osd_off_if_idle"} PROVE Hides'
      <4>1. h # "osd_open"
        BY <2>2, <3>3 DEF Shown
      <4>2. "osd_off_if_idle" \in Ops(todo) /\ osd_idx = None => osd_idx' = None
        BY <2>2, <3>3 DEF Timed
      <4> QED BY <3>1, <3>3, <4>1, <4>2 DEF Hides
    <3>4. ASSUME h = "osd_close", osd_menu_active PROVE Hides'
      <4>1. "osd_off_if_idle" \in Ops(todo') /\ "osd_cancel" \notin Ops(todo)
        BY <2>1, <2>2, <3>1, <3>4
      <4>2. osd_idx' = None
        BY <2>1, <2>2, <3>4, <4>1 DEF Timed
      <4> QED BY <4>1, <4>2 DEF Hides
    <3>5. ASSUME osd', ~ osd_menu_active' PROVE Hides' \/ \E i \in Slot : timer'[i].cb = "osd_off"
      <4>1. CASE osd_menu_active
        BY <3>2, <3>4, <3>5, <4>1
      <4>2. CASE ~ osd_menu_active /\ h = "osd_arm"
        <5>1. claim # T!NoClaim \/ ~ PoolFull
          BY <4>2, TimerLeft DEF DInv, Quiet, Runs
        <5> QED BY <2>2, <4>2, <5>1 DEF Moves
      <4>3. CASE ~ osd_menu_active /\ h # "osd_arm" /\ Hides
        <5>1. CASE h = "osd_off_if_idle"
          <6>1. osd_idx # None
            BY <2>2, <3>5, <5>1 DEF Switched
          <6>2. FALSE
            BY <3>1, <4>3, <5>1, <6>1 DEF Hides, Finals
          <6> QED BY <6>2
        <5> QED BY <3>3, <3>5, <4>3, <5>1
      <4>4. CASE ~ osd_menu_active /\ ~ Hides
        <5>1. h \notin {"osd_cancel", "osd_on", "lcd_cancel"}
          BY <2>1, <2>2, <4>4
        <5>2. osd
          BY <2>2, <3>5, <5>1 DEF Shown, Switched
        <5>3. PICK i \in Slot : timer[i].cb = "osd_off"
          BY <2>1, <4>4, <5>2
        <5>4. timer'[i] = timer[i]
          BY <2>2, <5>1, <5>3 DEF Moves, T!Free, T!Armed, T!NoCb
        <5> QED BY <5>3, <5>4
      <4> QED BY <4>1, <4>2, <4>3, <4>4
    <3>6. ASSUME Ops(todo') \cap {"osd_cancel", "osd_on", "lcd_cancel"} # {}, ~ osd_menu_active' PROVE Hides'
      <4>1. h \notin {"osd_arm", "osd_off_if_idle"}
        BY <3>1, <3>6 DEF Finals
      <4>2. ~ osd_menu_active => Hides
        BY <2>1, <3>1, <3>6
      <4> QED BY <3>2, <3>3, <3>4, <3>6, <4>1, <4>2
    <3>7. ASSUME osd_menu_active' PROVE osd_idx' = None \/ "osd_cancel" \in Ops(todo')
      <4>1. CASE h = "osd_open"
        BY <3>1, <4>1
      <4>2. CASE h # "osd_open"
        <5>1. osd_menu_active
          BY <2>2, <3>7, <4>2 DEF Shown, Switched
        <5> QED BY <2>1, <2>2, <3>1, <5>1 DEF Timed
      <4> QED BY <4>1, <4>2
    <3>8. "osd_arm" \in Ops(todo') => ~ osd_menu_active' /\ "osd_open" \notin Ops(todo')
      <4>1. ASSUME "osd_arm" \in Ops(todo') PROVE ~ osd_menu_active' /\ "osd_open" \notin Ops(todo')
        <5>1. ~ osd_menu_active /\ "osd_open" \notin Ops(todo) /\ h # "osd_open"
          BY <2>1, <2>2, <3>1, <4>1
        <5> QED BY <2>2, <3>1, <5>1 DEF Shown, Switched
      <4> QED BY <4>1
    <3>9. "osd_close" \in Ops(todo') => "osd_off_if_idle" \in Ops(todo')
      BY <2>1, <3>1 DEF Finals
    <3> QED BY <1>1, <3>5, <3>6, <3>7, <3>8, <3>9 DEF OsdInv
  <2> QED BY <2>3, <2>4
<1>2. CASE ~ OsdEnabled
  <2>1. ~ osd /\ "osd_on" \notin Ops(todo)
    BY <1>2 DEF Quiet, OsdInv
  <2>2. "osd_on" \notin Ops(todo')
    BY <1>2, <2>1, OsdStatusShape DEF Runs, Goes, TimersSuffice
  <2>3. h # "osd_on"
    BY <2>1 DEF Runs, Goes
  <2>4. ~ osd'
    BY <2>1, <2>3 DEF Runs, Shown, Switched
  <2> QED BY <1>2, <2>2, <2>4 DEF OsdInv
<1> QED BY <1>1, <1>2

\* The OLED gets its timeout.
LEMMA MainOled ==
  ASSUME TimersSuffice, DInv, Quiet, MainStep, has_sh1107, lcd_bl_timeout # 0
  PROVE  OledInv'
<1> DEFINE h == Head(todo)
<1>1. Runs(h) /\ todo # <<>> /\ 0 \in Slot
  BY MainRuns DEF TimersSuffice, Slot
<1>2. /\ lcd_idx \in {None, 0} /\ osd_idx # 0
      /\ lit => timer[0].cb = "lcd_off" \/ "lcd_arm" \in Ops(todo) \/ lcd_idx = None
      /\ lcd_idx = None => /\ timer[0] = T!Free
                           /\ \/ h \in {"oled_on", "lcd_cancel", "lcd_arm"}
                              \/ h = "status" /\ ~ osd_menu_active
      /\ h = "lcd_arm" => lcd_idx = None
      /\ "osd_arm" \in Ops(todo) => (Fresh \/ "lcd_arm" \in Ops(todo)) /\ "wait" \notin Ops(todo)
  BY <1>1 DEF Quiet, OledInv
<1>16. claim = T!NoClaim \/ h \in Arms
  BY DEF DInv, ClaimInv
<1> HIDE DEF h
<1>3. h \in Ops(todo) /\ Shown(h) /\ Timed(h) /\ Moves(h) /\ Switched(h)
  BY <1>1 DEF Runs, Goes
<1>4. /\ h \notin {"osd_cancel", "osd_arm"} => osd_idx' = osd_idx
      /\ h \notin {"lcd_cancel", "lcd_arm"} => lcd_idx' = lcd_idx
      /\ h = "osd_cancel" => osd_idx' = None
      /\ h = "lcd_cancel" => lcd_idx' = None
  BY <1>3 DEF Timed
<1>5. /\ h = "oled_on" => todo' # <<>> /\ Head(todo') = "lcd_cancel"
      /\ h = "lcd_cancel" => todo' # <<>> /\ Head(todo') = "lcd_arm"
      /\ "lcd_cancel" \in Ops(todo') => "lcd_arm" \in Ops(todo')
      /\ todo' \in Seq(Op)
  BY <1>1 DEF Runs, Goes
<1>6. todo' # <<>> => Head(todo') \in Ops(todo')
  BY <1>5, HeadOps
<1>7. h = "lcd_arm" => lcd_idx' = 0 /\ timer'[0] = [cb |-> "lcd_off", due |-> now + LcdTime[lcd_bl_timeout]]
  <2>1. ASSUME h = "lcd_arm" PROVE claim # T!NoClaim
    <3>1. timer[0] = T!Free
      BY <1>2, <2>1
    <3>2. claim = T!NoClaim => ~ PoolFull
      BY <1>1, <3>1 DEF PoolFull, T!NoClaim, T!None
    <3> QED BY <1>3, <2>1, <3>2 DEF Moves
  <2>2. claim # T!NoClaim /\ h = "lcd_arm" => claim.slot = 0
    BY DEF Quiet, QuietClaim, h
  <2> QED BY <1>1, <1>3, <2>1, <2>2 DEF Moves
<1>8. h = "osd_arm" => osd_idx' # 0
  <2>1. ASSUME h = "osd_arm" PROVE timer[0] # T!Free
    <3>1. Ops(todo') = {} /\ Ops(todo) = {h}
      BY <1>1, <2>1 DEF Runs, Goes, Finals
    <3>2. Fresh
      BY <1>2, <2>1, <3>1
    <3> QED BY <3>2 DEF Fresh, T!Free, T!Armed, T!NoCb
  <2> QED BY <1>1, <1>3, <2>1 DEF Moves
<1>9. "lcd_arm" \in Ops(todo) /\ h # "lcd_arm" => "lcd_arm" \in Ops(todo')
  BY <1>1 DEF Runs, Goes
<1>10. lcd_idx' \in {None, 0} /\ osd_idx' # 0
  BY <1>4, <1>2, <1>7, <1>8 DEF None
<1>11. ASSUME timer[0].cb = "lcd_off" \/ lcd_idx = None \/ "lcd_arm" \in Ops(todo)
       PROVE  timer'[0].cb = "lcd_off" \/ lcd_idx' = None \/ "lcd_arm" \in Ops(todo')
  <2>1. CASE h = "lcd_cancel"
    BY <1>4, <2>1
  <2>2. CASE h = "lcd_arm"
    BY <1>7, <2>2
  <2>3. CASE h \notin {"lcd_cancel", "lcd_arm"}
    <3>1. timer[0].cb = "lcd_off" => timer'[0] = timer[0]
      BY <1>1, <1>2, <1>3, <2>3 DEF Moves, T!Free, T!Armed, T!NoCb
    <3>2. lcd_idx' = lcd_idx
      BY <1>4, <2>3
    <3> QED BY <1>9, <1>11, <2>3, <3>1, <3>2
  <2> QED BY <2>1, <2>2, <2>3
<1>12. lit' => timer'[0].cb = "lcd_off" \/ "lcd_arm" \in Ops(todo') \/ lcd_idx' = None
  <2>1. CASE h = "oled_on"
    BY <1>5, <1>6, <2>1
  <2>2. CASE h = "oled_off"
    <3>1. h \notin {"lcd_arm", "lcd_cancel"}
      BY <2>2
    <3>2. ~ lit'
      BY <1>3, <2>2 DEF Switched
    <3> QED BY <3>2
  <2>3. CASE h \notin {"oled_on", "oled_off"}
    <3>1. lit' = lit
      BY <1>3, <2>3 DEF Switched
    <3> QED BY <1>2, <1>11, <3>1, Zenon
  <2> QED BY <2>1, <2>2, <2>3
<1>13. lcd_idx' = None => /\ timer'[0] = T!Free /\ todo' # <<>>
                         /\ \/ Head(todo') \in {"oled_on", "lcd_cancel", "lcd_arm"}
                            \/ Head(todo') = "status" /\ ~ osd_menu_active'
  <2>1. CASE h = "lcd_cancel"
    <3>1. timer[0] = T!Free \/ 0 = lcd_idx
      BY <1>2
    <3>2. timer'[0] = T!Free
      BY <1>1, <1>3, <2>1, <3>1 DEF Moves
    <3> QED BY <1>5, <2>1, <3>2
  <2>2. CASE h # "lcd_cancel" /\ lcd_idx' = None
    <3>1. lcd_idx = None /\ h # "lcd_arm"
      <4>1. h # "lcd_arm"
        BY <1>7, <2>2 DEF None
      <4>2. h \notin {"lcd_cancel", "lcd_arm"}
        BY <2>2, <4>1
      <4>3. lcd_idx' = lcd_idx
        BY <1>4, <4>2
      <4> QED BY <2>2, <4>1, <4>3
    <3>2. timer[0] = T!Free /\ (h = "oled_on" \/ (h = "status" /\ ~ osd_menu_active))
      BY <1>2, <2>2, <3>1
    <3>3. timer'[0] = T!Free
      <4>1. 0 # claim.slot
        BY <1>16, <3>2 DEF Arms, T!NoClaim, T!None
      <4> QED BY <1>1, <1>3, <3>2, <4>1 DEF Moves
    <3>4. todo' # <<>> /\ Head(todo') \in {"oled_on", "lcd_cancel"}
      <4>1. CASE h = "oled_on"
        BY <1>5, <4>1
      <4>2. CASE h = "status" /\ ~ osd_menu_active
        BY <1>1, <4>2, OsdStatusShape DEF Runs, Goes, TimersSuffice
      <4> QED BY <3>2, <4>1, <4>2
    <3> QED BY <3>3, <3>4
  <2> QED BY <2>1, <2>2
<1>14. Head(todo') = "lcd_arm" /\ todo' # <<>> => lcd_idx' = None
  <2>1. ASSUME Head(todo') = "lcd_arm", todo' # <<>> PROVE lcd_idx' = None
    <3>1. Len(todo') > 0 /\ Head(todo') = todo'[1]
      BY <1>5, <2>1, OpsTail
    <3>2. h = "lcd_cancel"
      BY <1>1, <2>1, <3>1 DEF Runs
    <3> QED BY <1>3, <3>2 DEF Timed
  <2> QED BY <2>1
<1>15. "osd_arm" \in Ops(todo') => (Fresh' \/ "lcd_arm" \in Ops(todo')) /\ "wait" \notin Ops(todo')
  <2>1. CASE h = "status" /\ ~ osd_menu_active
    <3>1. todo' = OsdStatus
      BY <1>1, <2>1 DEF Runs, Goes
    <3>2. "wait" \notin Ops(OsdStatus)
      BY OsdStatusPart
    <3> QED BY <1>1, <3>1, <3>2, OsdStatusShape DEF TimersSuffice
  <2>2. CASE ~ (h = "status" /\ ~ osd_menu_active) /\ "osd_arm" \in Ops(todo')
    <3>1. Ops(todo) = {h} \cup Ops(todo')
      BY <1>1, <2>2 DEF Runs, Goes
    <3>2. (Fresh \/ "lcd_arm" \in Ops(todo)) /\ "wait" \notin Ops(todo')
      BY <1>2, <2>2, <3>1
    <3>3. CASE h = "lcd_arm"
      <4>1. now \in Nat /\ now' = now /\ LcdTime[lcd_bl_timeout] \in Nat
        BY <1>3, TimesAssumption DEF Quiet, Held, Moves
      <4> QED BY <1>7, <3>2, <3>3, <4>1 DEF Fresh
    <3>4. CASE h = "lcd_cancel"
      BY <1>5, <1>6, <3>2, <3>4
    <3>5. CASE h \notin {"lcd_arm", "lcd_cancel"} /\ Fresh
      <4>1. timer'[0] = timer[0] /\ now' = now
        BY <1>1, <1>2, <1>3, <3>5 DEF Moves, Fresh, T!Free, T!Armed, T!NoCb
      <4> QED BY <3>2, <3>5, <4>1 DEF Fresh
    <3> QED BY <1>9, <3>2, <3>3, <3>4, <3>5
  <2> QED BY <2>1, <2>2
<1> QED BY <1>10, <1>12, <1>13, <1>14, <1>15 DEF OledInv

\* The main program goes on.
LEMMA MainStaysQuiet == ASSUME TimersSuffice, DInv, Quiet, MainStep PROVE Quiet'
<1>1. Runs(Head(todo))
  BY MainRuns
<1>2. has_sh1107' = has_sh1107 /\ Shape(todo')
  BY <1>1 DEF Runs, Shown, Goes
<1>3. Held' /\ NoPage' /\ LedInv'
  BY <1>1, MainNoPage, MainLed
<1>4. ~ has_sh1107 => OsdInv'
  BY <1>1, MainOsd
<1>5. has_sh1107 /\ lcd_bl_timeout # 0 => OledInv'
  BY MainOled
<1>6. QuietClaim'
  <2>1. irq = <<>>
    BY DEF MainStep
  <2> QED BY <1>1, <2>1 DEF Runs, Timed, Claims, QuietClaim, T!NoClaim
<1> QED BY <1>2, <1>3, <1>4, <1>5, <1>6 DEF Quiet
--------------------------------------------------------------------------------
(* The other steps. *)

\* A timer that is due switches off what it was armed for.
LEMMA FireStaysQuiet == ASSUME TimersSuffice, DInv, Quiet, NEW i \in Slot, Fire(i) PROVE Quiet'
<1>1. /\ timer' = [timer EXCEPT ![i] = T!Free] /\ claim' = claim /\ now' = now
      /\ timer[i].due < now /\ i # claim.slot
      /\ UNCHANGED <<osd_idx, lcd_idx, has_sh1107, flags, word, todo>>
      /\ irq = <<>>
  <2>1. i # T!None
    BY DEF T!None, Slot
  <2> QED BY <2>1 DEF Fire, T!Fire, T!Runs, T!Overdue, T!Becomes, T!Freed, T!Use, T!pool
<1>2. timer = [j \in Slot |-> timer[j]]
  BY DEF DInv, PageInv, IsPool
<1>3. /\ timer'[i] = T!Free /\ \A j \in Slot : j # i => timer'[j] = timer[j]
      /\ \A j \in Slot : timer'[j] = T!Free \/ timer'[j] = timer[j]
  BY <1>1, <1>2
<1>4. T!Free.cb = "none"
  BY DEF T!Free, T!Armed, T!NoCb
<1>13. QuietClaim'
  <2>1. claim # T!NoClaim => claim.slot \in Slot
    BY DEF DInv, ClaimInv, Claimed
  <2> QED BY <1>1, <1>3, <2>1 DEF Quiet, QuietClaim, T!NoClaim
<1>5. timer[i].cb # "print_vm_stats_hide"
  BY DEF Quiet, NoPage
<1>6. irq' = <<>> /\ (osd' = osd \/ osd' = FALSE) /\ (timer[i].cb = "osd_off" => osd' = FALSE)
      /\ (lit' = lit \/ lit' = FALSE) /\ (timer[i].cb = "lcd_off" => lit' = FALSE)
  BY <1>1, <1>5 DEF Fire
<1>7. Held'
  BY <1>1, <1>3 DEF Quiet, Held
<1>8. NoPage'
  BY <1>1, <1>3, <1>4, <1>6 DEF Quiet, NoPage
<1>9. Shape(todo')
  BY <1>1 DEF Quiet
<1>10. LedInv'
  <2>1. \A j \in Slot : timer'[j].cb = "controls_reset_led" => timer[j].cb = "controls_reset_led"
    BY <1>3, <1>4
  <2> QED BY <1>1, <2>1, LedCount DEF Quiet
<1>11. ASSUME ~ has_sh1107 PROVE OsdInv'
  <2>1. Hides' = Hides /\ osd_menu_active' = osd_menu_active /\ todo' = todo /\ osd_idx' = osd_idx
    BY <1>1 DEF Hides, flags
  <2>2. OsdInv
    BY <1>11 DEF Quiet
  <2>3. OsdEnabled /\ osd' /\ ~ osd_menu_active => Hides \/ \E j \in Slot : timer'[j].cb = "osd_off"
    <3>1. ASSUME OsdEnabled, osd', ~ osd_menu_active, ~ Hides PROVE \E j \in Slot : timer'[j].cb = "osd_off"
      <4>1. timer[i].cb # "osd_off" /\ osd
        BY <1>6, <3>1
      <4>2. PICK j \in Slot : timer[j].cb = "osd_off"
        BY <2>2, <3>1, <4>1 DEF OsdInv
      <4> QED BY <1>3, <4>1, <4>2
    <3> QED BY <3>1
  <2>4. ~ OsdEnabled => ~ osd'
    BY <1>6, <2>2 DEF OsdInv
  <2> QED BY <2>1, <2>2, <2>3, <2>4 DEF OsdInv
<1>12. ASSUME has_sh1107, lcd_bl_timeout # 0 PROVE OledInv'
  <2>1. OledInv /\ 0 \in Slot
    BY <1>12 DEF Quiet, TimersSuffice, Slot
  <2>2. lcd_idx' = lcd_idx /\ osd_idx' = osd_idx /\ todo' = todo /\ osd_menu_active' = osd_menu_active
    BY <1>1 DEF flags
  <2>3. timer[0] = T!Free => timer'[0] = T!Free
    BY <1>3, <2>1
  <2>4. Fresh => Fresh'
    <3>1. ASSUME Fresh PROVE i # 0
      <4>1. now \in Nat /\ timer[0].due \in Nat /\ timer[0].due >= now
        BY <3>1 DEF Fresh, Quiet, Held
      <4> QED BY <1>1, <4>1
    <3> QED BY <1>1, <1>3, <2>1, <3>1 DEF Fresh
  <2>5. ASSUME lit' PROVE timer'[0].cb = "lcd_off" \/ "lcd_arm" \in Ops(todo) \/ lcd_idx = None
    <3>1. lit /\ timer[i].cb # "lcd_off"
      BY <1>6, <2>5
    <3>2. timer[0].cb = "lcd_off" \/ "lcd_arm" \in Ops(todo) \/ lcd_idx = None
      BY <2>1, <3>1 DEF OledInv
    <3> QED BY <1>3, <2>1, <3>1, <3>2
  <2> QED BY <2>1, <2>2, <2>3, <2>4, <2>5 DEF OledInv
<1> QED BY <1>1, <1>7, <1>8, <1>9, <1>10, <1>11, <1>12, <1>13 DEF Quiet

\* A timer is claimed: the first, if it is for the OLED.
LEMMA ClaimStaysQuiet == ASSUME TimersSuffice, DInv, Quiet, ClaimTimer PROVE Quiet'
<1>1. /\ UNCHANGED <<now, timer, todo, irq, osd, osd_idx, lcd_idx, has_sh1107, lit, osd_menu_active>>
      /\ claim = T!NoClaim
  BY DEF ClaimTimer, T!Claim, Rest, osdVars, lcdVars, flags
<1>2. PICK i \in Slot : LowestFree(i) /\ T!Claim(i, Asked(Head(todo)).cb, Asked(Head(todo)).usec)
  BY DEF ClaimTimer
<1>3. claim'.slot = i /\ claim'.others = {} /\ claim'.since = now /\ timer[i] = T!Free
  BY <1>2 DEF T!Claim
<1>4. ASSUME has_sh1107, lcd_bl_timeout # 0, Head(todo) = "lcd_arm" PROVE i = 0
  <2>1. timer[0] = T!Free
    BY <1>4 DEF ClaimTimer, Quiet, OledInv
  <2>2. 0 # claim.slot
    BY <1>1 DEF T!NoClaim, T!None
  <2> QED BY <1>2, <2>1, <2>2 DEF LowestFree, Slot
<1>5. QuietClaim'
  BY <1>1, <1>3, <1>4 DEF QuietClaim
<1> QED BY <1>1, <1>5 DEF Quiet, Held, NoPage, LedInv, Pending, OsdInv, Hides, OledInv, Fresh

\* The clock moves on.
LEMMA TickStaysQuiet == ASSUME TimersSuffice, DInv, Quiet, Tick PROVE Quiet'
<1>1. /\ UNCHANGED <<timer, claim, todo, irq, osd, osd_idx, lcd_idx, has_sh1107, lit, osd_menu_active>>
      /\ now' = now + 1 /\ (todo # <<>> => Head(todo) = "wait")
  BY DEF Tick, T!Tick, Rest, osdVars, lcdVars, flags
<1>2. Held' /\ NoPage' /\ Shape(todo')
  BY <1>1 DEF Quiet, Held, NoPage
<1>3. LedInv'
  BY <1>1 DEF Quiet, LedInv, Pending
<1>4. ~ has_sh1107 => OsdInv'
  BY <1>1 DEF Quiet, OsdInv, Hides
<1>5. ASSUME has_sh1107, lcd_bl_timeout # 0 PROVE OledInv'
  <2>1. OledInv
    BY <1>5 DEF Quiet
  <2>2. "osd_arm" \notin Ops(todo)
    <3>1. CASE todo = <<>>
      BY <3>1, OpsEmpty
    <3>2. CASE todo # <<>>
      <4>1. "wait" \in Ops(todo)
        BY <1>1, <3>2, HeadOps DEF DInv, ListInv
      <4> QED BY <2>1, <4>1 DEF OledInv
    <3> QED BY <3>1, <3>2
  <2> QED BY <1>1, <2>1, <2>2 DEF OledInv
<1>6. claim = T!NoClaim
  BY <1>1 DEF DInv, ClaimInv, Arms
<1>7. QuietClaim'
  BY <1>1, <1>6 DEF QuietClaim, T!NoClaim
<1> QED BY <1>1, <1>2, <1>3, <1>4, <1>5, <1>7 DEF Quiet

\* A list that may be started: what it takes away it gives back.
Starts(ops) ==
  /\ Part(ops) /\ Shape(ops) /\ Ops(ops) \cap {"info_arm", "osd_arm"} = {}
  /\ OsdEnabled /\ "osd_close" \in Ops(ops) => "osd_off_if_idle" \in Ops(ops)
  /\ OsdEnabled /\ ~ has_sh1107 /\ Ops(ops) \cap {"osd_cancel", "osd_on", "lcd_cancel"} # {} =>
       osd_menu_active \/ "osd_open" \in Ops(ops)
  /\ ~ OsdEnabled => "osd_on" \notin Ops(ops)

\* Such a list is started at rest.
LEMMA ListStaysQuiet ==
  ASSUME TimersSuffice, DInv, Quiet, Idle, Starts(todo'),
         "led_arm" \in Ops(todo') => Cardinality(Pending("controls_reset_led")) < LedOverlap,
         UNCHANGED <<timers, osdVars, lcdVars, osd_menu_active, irq>>
  PROVE  Quiet'
<1>1. UNCHANGED <<now, timer, claim, osd, osd_idx, has_sh1107, lit, lcd_idx, osd_menu_active, irq>>
  BY DEF timers, osdVars, lcdVars
<1>2. todo = <<>> /\ Ops(todo) = {}
  BY OpsEmpty DEF Idle
<1>7. QuietClaim'
  BY <1>1, <1>2 DEF DInv, ClaimInv, QuietClaim, T!NoClaim
<1>3. Held' /\ NoPage' /\ Shape(todo')
  BY <1>1 DEF Quiet, Held, NoPage, Starts
<1>4. LedInv'
  <2>1. Cardinality(Pending("controls_reset_led")) \in Nat
    BY PendingFinite DEF TimersSuffice
  <2>2. Pending("controls_reset_led")' = Pending("controls_reset_led")
    BY <1>1 DEF Pending
  <2>3. Cardinality(Pending("controls_reset_led")) <= LedOverlap
    BY <1>2, <2>1 DEF Quiet, LedInv, TimersSuffice
  <2> QED BY <2>1, <2>2, <2>3 DEF LedInv, TimersSuffice
<1>5. ASSUME ~ has_sh1107 PROVE OsdInv'
  <2>1. OsdInv
    BY <1>5 DEF Quiet
  <2>2. ASSUME OsdEnabled
        PROVE  /\ osd /\ ~ osd_menu_active => \E i \in Slot : timer[i].cb = "osd_off"
               /\ osd_menu_active => osd_idx = None
    BY <1>2, <2>1, <2>2 DEF OsdInv, Hides
  <2>3. CASE OsdEnabled
    BY <1>1, <1>5, <2>2, <2>3 DEF OsdInv, Hides, Starts
  <2>4. CASE ~ OsdEnabled
    BY <1>1, <2>1, <2>4 DEF OsdInv, Starts
  <2> QED BY <2>3, <2>4
<1>6. ASSUME has_sh1107, lcd_bl_timeout # 0 PROVE OledInv'
  <2>1. lcd_idx = 0 /\ osd_idx # 0 /\ (lit => timer[0].cb = "lcd_off") /\ lcd_idx # None
    BY <1>2, <1>6 DEF Quiet, OledInv, None
  <2>2. todo' # <<>> => Head(todo') # "lcd_arm"
    <3>1. ASSUME todo' # <<>> PROVE Head(todo') # "lcd_arm"
      <4>1. todo' \in Seq(Op) /\ Begins(todo')
        BY DEF Starts, Part
      <4>2. Len(todo') > 0 /\ Head(todo') = todo'[1]
        BY <3>1, <4>1, OpsTail
      <4> QED BY <4>1, <4>2 DEF Begins
    <3> QED BY <3>1
  <2> QED BY <1>1, <2>1, <2>2 DEF OledInv, Starts
<1> QED BY <1>1, <1>3, <1>4, <1>5, <1>6, <1>7 DEF Quiet

\* A key blinks first.
LEMMA KeyStaysQuiet ==
  ASSUME TimersSuffice, DInv, Quiet, NEW ops, Starts(ops), "led_arm" \notin Ops(ops), Key(ops)
  PROVE  Quiet'
<1>1. Part(Blink) /\ Ops(Blink) = {"load", "led0", "led_arm"} /\ Shape(Blink)
  <2> DEFINE w == Write("led0")
             a == <<"led_arm">>
  <2>1. w \in Seq(Op) /\ Ops(w) = {"load", "led0"}
    BY PartWrite DEF Part, Stores
  <2>2. a \in Seq(Op) /\ Ops(a) = {"led_arm"} /\ Shape(a)
    BY ShapeOne DEF Op
  <2>3. Blink = w \o a
    BY DEF Blink
  <2> HIDE DEF w, a
  <2>4. Shape(w)
    BY <2>1, ShapeFree DEF Finals
  <2>5. Meets(w, a)
    BY <2>1, <2>2 DEF Meets, Finals
  <2>6. Shape(Blink)
    BY <2>1, <2>2, <2>3, <2>4, <2>5, ShapeConcat
  <2> QED BY <2>6, BlinkPart
<1>2. Part(ops) /\ Shape(ops) /\ ops \in Seq(Op) /\ Blink \in Seq(Op)
  BY <1>1 DEF Starts, Part
<1>3. Meets(Blink, ops)
  BY <1>1 DEF Meets, Finals
<1>4. Shape(Blink \o ops)
  BY <1>1, <1>2, <1>3, ShapeConcat
<1>5. Part(Blink \o ops) /\ Ops(Blink \o ops) = {"load", "led0", "led_arm"} \cup Ops(ops)
  BY <1>1, <1>2, PartsConcat
<1>6. todo' = Blink \o ops /\ Idle /\ Cardinality(Pending("controls_reset_led")) < LedOverlap
  BY DEF Key
<1>7. Starts(todo')
  BY <1>4, <1>5, <1>6 DEF Starts
<1>8. UNCHANGED <<timers, osdVars, lcdVars, osd_menu_active, irq>>
  BY DEF Key
<1> QED BY <1>6, <1>7, <1>8, ListStaysQuiet

\* With the menu open its flag is set, at rest.
LEMMA MenuAtRest ==
  ASSUME DInv, Idle, menu_active, OsdEnabled, ~ has_sh1107
  PROVE  osd_menu_active
<1>1. Ops(todo) = {}
  BY OpsEmpty DEF Idle
<1> QED BY <1>1 DEF DInv, MenuInv

\* The empty list and the one of a status may be started.
LEMMA ShortStarts == Starts(<<>>) /\ Starts(<<"status">>) /\ Ops(<<>>) = {} /\ Ops(<<"status">>) = {"status"}
<1>1. Starts(<<>>) /\ Ops(<<>>) = {}
  <2>1. Part(<<>>) /\ Ops(<<>>) = {} /\ <<>> \in Seq(Op)
    BY PartNone, OpsEmpty DEF Part
  <2>2. Shape(<<>>)
    BY <2>1, ShapeFree
  <2> QED BY <2>1, <2>2 DEF Starts
<1>2. Starts(<<"status">>) /\ Ops(<<"status">>) = {"status"}
  <2>1. Part(<<"status">>) /\ Ops(<<"status">>) = {"status"}
    BY StatusPart
  <2>2. Shape(<<"status">>)
    BY ShapeOne DEF Op
  <2> QED BY <2>1, <2>2 DEF Starts
<1> QED BY <1>1, <1>2

\* The menu's list, and the one that closes it.
LEMMA MenuStarts ==
  /\ Starts(OsdOpen \o LcdRows) /\ "led_arm" \notin Ops(OsdOpen \o LcdRows)
  /\ Ops(OsdOpen \o LcdRows) = Ops(OsdOpen) \cup Ops(LcdRows)
  /\ (OsdEnabled /\ ~ has_sh1107 => osd_menu_active) => Starts(OsdClose) /\ "led_arm" \notin Ops(OsdClose)
  /\ (OsdEnabled /\ ~ has_sh1107 => osd_menu_active) => Starts(LcdRows) /\ "led_arm" \notin Ops(LcdRows)
<1> DEFINE u == OsdOpen \o LcdRows
<1>1. Part(u) /\ Ops(u) = Ops(OsdOpen) \cup Ops(LcdRows)
  BY OsdOpenPart, LcdRowsPart, PartsConcat
<1>2. Meets(OsdOpen, LcdRows)
  BY OsdOpenPart, LcdRowsPart DEF Meets, Finals
<1>3. Shape(u)
  BY <1>2, OsdOpenShape, LcdRowsShape, ShapeConcat
<1>4. Starts(u) /\ "led_arm" \notin Ops(u)
  <2> HIDE DEF u
  <2>1. Ops(u) \cap {"info_arm", "osd_arm", "osd_close", "led_arm"} = {}
    BY <1>1, OsdOpenPart, LcdRowsPart
  <2>2. "osd_open" \in Ops(u) /\ (~ OsdEnabled => "osd_on" \notin Ops(u))
    BY <1>1, OsdOpenShape, LcdRowsPart
  <2> QED BY <1>1, <1>3, <2>1, <2>2 DEF Starts
<1>5. ASSUME OsdEnabled /\ ~ has_sh1107 => osd_menu_active PROVE Starts(OsdClose) /\ "led_arm" \notin Ops(OsdClose)
  <2>1. Ops(OsdClose) \cap {"info_arm", "osd_arm", "led_arm", "osd_on"} = {} /\ Part(OsdClose)
    BY OsdClosePart
  <2> QED BY <1>5, <2>1, OsdCloseShape DEF Starts
<1>6. ASSUME OsdEnabled /\ ~ has_sh1107 => osd_menu_active PROVE Starts(LcdRows) /\ "led_arm" \notin Ops(LcdRows)
  <2>1. Ops(LcdRows) \cap {"info_arm", "osd_arm", "led_arm", "osd_on", "osd_close"} = {} /\ Part(LcdRows)
    BY LcdRowsPart
  <2> QED BY <1>6, <2>1, LcdRowsShape DEF Starts
<1> QED BY <1>1, <1>4, <1>5, <1>6

\* The prompt's list.
LEMMA PromptStarts ==
  Starts((OsdOpen \o LcdRows) \o <<"wait">> \o OsdClose)
  /\ "led_arm" \notin Ops((OsdOpen \o LcdRows) \o <<"wait">> \o OsdClose)
<1> DEFINE a == OsdOpen \o LcdRows
           b == <<"wait">>
           c == OsdClose
<1>1. Part(a) /\ Shape(a) /\ "led_arm" \notin Ops(a) /\ Ops(a) = Ops(OsdOpen) \cup Ops(LcdRows) /\ a \in Seq(Op)
  BY MenuStarts DEF Starts, Part
<1>2. Part(b) /\ Ops(b) = {"wait"} /\ Shape(b) /\ b \in Seq(Op)
  BY PartOne, ShapeOne DEF Op, Stores
<1>3. /\ Part(c) /\ Shape(c) /\ c \in Seq(Op)
      /\ Ops(c) \cap {"info_arm", "osd_arm", "led_arm", "osd_on", "osd_cancel"} = {}
      /\ OsdEnabled => "osd_off_if_idle" \in Ops(c)
  BY OsdClosePart, OsdCloseShape
<1>4. /\ Ops(a) \cap {"info_arm", "osd_arm", "osd_close", "osd_off_if_idle", "status"} = {}
      /\ "osd_open" \in Ops(a) /\ (~ OsdEnabled => "osd_on" \notin Ops(a))
  BY <1>1, OsdOpenPart, OsdOpenShape, LcdRowsPart
<1> HIDE DEF a, b, c
<1>5. Part(a \o b) /\ Ops(a \o b) = Ops(a) \cup Ops(b) /\ a \o b \in Seq(Op)
  BY <1>1, <1>2, PartsConcat, ConcatProperties
<1>6. Meets(a, b)
  BY <1>2, <1>4 DEF Meets, Finals
<1>7. Shape(a \o b)
  BY <1>1, <1>2, <1>6, ShapeConcat
<1>8. Part((a \o b) \o c) /\ Ops((a \o b) \o c) = (Ops(a) \cup Ops(b)) \cup Ops(c)
  BY <1>3, <1>5, PartsConcat
<1>9. Meets(a \o b, c)
  BY <1>2, <1>3, <1>4, <1>5 DEF Meets, Finals
<1>10. Shape((a \o b) \o c)
  BY <1>3, <1>5, <1>7, <1>9, ShapeConcat
<1>11. Starts((a \o b) \o c) /\ "led_arm" \notin Ops((a \o b) \o c)
  BY <1>1, <1>2, <1>3, <1>4, <1>8, <1>10 DEF Starts
<1> QED BY <1>11 DEF a, b, c

\* Standby's lists.
LEMMA StandbyStarts ==
  /\ Starts(EnterStandby) /\ "led_arm" \notin Ops(EnterStandby)
  /\ Starts(ExitStandby) /\ "led_arm" \notin Ops(ExitStandby)
<1>1. Starts(EnterStandby) /\ "led_arm" \notin Ops(EnterStandby)
  <2>1. Part(EnterStandby) /\ Ops(EnterStandby) = {"standby", "load", "lit0", "led0", "other"} /\ EnterStandby \in Seq(Op)
    BY EnterStandbyPart DEF Part
  <2>2. Shape(EnterStandby)
    BY <2>1, ShapeFree DEF Finals
  <2> QED BY <2>1, <2>2 DEF Starts
<1>2. Starts(ExitStandby) /\ "led_arm" \notin Ops(ExitStandby)
  <2> DEFINE h == ((<<"wake">> \o Write("lit1")) \o Write("led1")) \o Write("other")
             f == IF has_sh1107 THEN <<"oled_off">> ELSE <<>>
             p == (h \o <<"wait">>) \o f
             g == <<"status">>
  <2>1. ExitStandby = p \o g
    BY DEF ExitStandby
  <2>2. Part(h) /\ Ops(h) \subseteq {"wake", "load", "lit1", "led1", "other"}
    <3> DEFINE a == <<"wake">>
               b == Write("lit1")
               c == Write("led1")
               d == Write("other")
    <3>1. Part(a) /\ Ops(a) = {"wake"} /\ Part(b) /\ Ops(b) = {"load", "lit1"}
          /\ Part(c) /\ Ops(c) = {"load", "led1"} /\ Part(d) /\ Ops(d) = {"load", "other"}
      BY PartOne, PartWrite DEF Op, Stores
    <3>2. h = ((a \o b) \o c) \o d
      OBVIOUS
    <3> HIDE DEF a, b, c, d, h
    <3>3. Part(a \o b) /\ Ops(a \o b) = Ops(a) \cup Ops(b)
      BY <3>1, PartsConcat
    <3>4. Part((a \o b) \o c) /\ Ops((a \o b) \o c) = (Ops(a) \cup Ops(b)) \cup Ops(c)
      BY <3>1, <3>3, PartsConcat
    <3>5. Part(((a \o b) \o c) \o d) /\ Ops(((a \o b) \o c) \o d) = ((Ops(a) \cup Ops(b)) \cup Ops(c)) \cup Ops(d)
      BY <3>1, <3>4, PartsConcat
    <3> QED BY <3>1, <3>2, <3>5
  <2>3. Part(<<"wait">>) /\ Ops(<<"wait">>) = {"wait"}
    BY PartOne DEF Op, Stores
  <2>4. Part(f) /\ Ops(f) \subseteq {"oled_off"}
    BY PartOne, PartNone, OpsEmpty DEF Op, Stores
  <2>5. Part(g) /\ Ops(g) = {"status"} /\ Shape(g) /\ g \in Seq(Op)
    BY PartOne, ShapeOne DEF Op, Stores
  <2> HIDE DEF h, f, g
  <2>6. Part(h \o <<"wait">>) /\ Ops(h \o <<"wait">>) = Ops(h) \cup {"wait"}
    BY <2>2, <2>3, PartsConcat
  <2>7. Part(p) /\ Ops(p) = (Ops(h) \cup {"wait"}) \cup Ops(f)
    BY <2>4, <2>6, PartsConcat
  <2> HIDE DEF p
  <2>8. p \in Seq(Op) /\ Shape(p) /\ Meets(p, g)
    <3>1. p \in Seq(Op)
      BY <2>7 DEF Part
    <3> QED BY <3>1, <2>2, <2>4, <2>5, <2>7, ShapeFree DEF Meets, Finals
  <2>9. Shape(ExitStandby)
    BY <2>1, <2>5, <2>8, ShapeConcat
  <2> QED BY <2>9, ExitStandbyPart DEF Starts
<1> QED BY <1>1, <1>2

\* The user's keys.
LEMMA KeysStayQuiet ==
  ASSUME TimersSuffice, DInv, Quiet, ~ (has_sh1107 /\ "info" \in Keys),
         MenuKey \/ NavigationKey \/ StatusKey \/ PromptKey \/ InfoKey \/ StandbyKey
  PROVE  Quiet'
<1>1. CASE MenuKey
  <2>1. CASE menu_active'
    <3>1. Key(OsdOpen \o LcdRows)
      BY <1>1, <2>1 DEF MenuKey
    <3> QED BY <3>1, MenuStarts, KeyStaysQuiet
  <2>2. CASE ~ menu_active'
    <3>1. Key(OsdClose) /\ menu_active' = ~ menu_active
      BY <1>1, <2>2 DEF MenuKey
    <3>2. Idle /\ menu_active
      BY <2>2, <3>1 DEF Key
    <3>3. OsdEnabled /\ ~ has_sh1107 => osd_menu_active
      BY <3>2, MenuAtRest
    <3> QED BY <3>1, <3>3, MenuStarts, KeyStaysQuiet
  <2> QED BY <2>1, <2>2
<1>2. CASE NavigationKey
  <2>1. Key(LcdRows) /\ Idle /\ menu_active
    BY <1>2 DEF NavigationKey, Key
  <2>2. OsdEnabled /\ ~ has_sh1107 => osd_menu_active
    BY <2>1, MenuAtRest
  <2> QED BY <2>1, <2>2, MenuStarts, KeyStaysQuiet
<1>3. CASE StatusKey
  <2>1. Key(<<>>) \/ Key(<<"status">>)
    BY <1>3 DEF StatusKey
  <2>2. CASE Key(<<>>)
    BY <2>2, ShortStarts, KeyStaysQuiet
  <2>3. CASE Key(<<"status">>)
    <3>1. "led_arm" \notin Ops(<<"status">>)
      BY ShortStarts
    <3> QED BY <2>3, <3>1, ShortStarts, KeyStaysQuiet
  <2> QED BY <2>1, <2>2, <2>3
<1>4. CASE PromptKey
  <2>1. Key((OsdOpen \o LcdRows) \o <<"wait">> \o OsdClose)
    BY <1>4 DEF PromptKey
  <2> QED BY <2>1, PromptStarts, KeyStaysQuiet
<1>5. CASE InfoKey
  BY <1>5 DEF InfoKey
<1>6. CASE StandbyKey
  <2>1. Key(ExitStandby) \/ Key(EnterStandby)
    BY <1>6 DEF StandbyKey
  <2> QED BY <2>1, StandbyStarts, KeyStaysQuiet
<1> QED BY <1>1, <1>2, <1>3, <1>4, <1>5, <1>6

\* A button in standby, a change of the video, another bit of sys_ctrl.
LEMMA OthersStayQuiet ==
  ASSUME TimersSuffice, DInv, Quiet, WakeButton \/ VideoChanges \/ OtherBit
  PROVE  Quiet'
<1>1. Idle /\ UNCHANGED <<timers, osdVars, lcdVars, osd_menu_active, irq>>
  BY DEF WakeButton, VideoChanges, OtherBit, Rest, flags
<1>2. CASE WakeButton
  BY <1>1, <1>2, StandbyStarts, ListStaysQuiet DEF WakeButton
<1>3. CASE VideoChanges
  <2>1. Starts(todo') /\ "led_arm" \notin Ops(todo')
    BY <1>3, ShortStarts DEF VideoChanges
  <2> QED BY <1>1, <2>1, ListStaysQuiet
<1>4. CASE OtherBit
  <2> DEFINE w == Write("other")
  <2>1. Part(w) /\ Ops(w) = {"load", "other"} /\ w \in Seq(Op)
    BY PartWrite DEF Stores, Part
  <2>2. todo' = w
    BY <1>4 DEF OtherBit
  <2> HIDE DEF w
  <2>3. Shape(w)
    BY <2>1, ShapeFree DEF Finals
  <2>4. Starts(todo') /\ "led_arm" \notin Ops(todo')
    BY <2>1, <2>2, <2>3 DEF Starts
  <2> QED BY <1>1, <2>4, ListStaysQuiet
<1> QED BY <1>2, <1>3, <1>4

\* At first everything is lit and no timer is armed, but a status is to be shown.
LEMMA QuietInit == ASSUME TimersSuffice, Init PROVE QuietInv
<1>1. /\ todo = <<"status">> /\ irq = <<>> /\ now = 1 /\ ~ osd /\ ~ osd_menu_active
      /\ osd_idx = None /\ lcd_idx = None
      /\ timer = [i \in Slot |-> T!Free] /\ claim = T!NoClaim
  BY DEF Init
<1>2. \A i \in Slot : timer[i] = T!Free /\ timer[i].cb = "none"
  BY <1>1 DEF T!Free, T!Armed, T!NoCb
<1>3. Starts(todo) /\ Ops(todo) = {"status"} /\ todo # <<>> /\ Head(todo) = "status"
  BY <1>1, ShortStarts
<1>4. Held /\ NoPage /\ Shape(todo)
  BY <1>1, <1>2, <1>3 DEF Held, NoPage, Starts
<1>5. LedInv
  <2>1. Pending("controls_reset_led") = {}
    BY <1>2 DEF Pending
  <2>2. Cardinality({}) = 0
    BY FS_EmptySet
  <2>3. "led_arm" \notin Ops(todo) /\ 0 + 0 <= LedOverlap
    BY <1>3 DEF TimersSuffice
  <2>4. Cardinality(Pending("controls_reset_led")) = 0
    BY <2>1, <2>2
  <2> QED BY <2>3, <2>4 DEF LedInv
<1>6. OsdInv
  BY <1>1, <1>3 DEF OsdInv
<1>7. OledInv
  <2>1. 0 \in Slot
    BY DEF TimersSuffice, Slot
  <2> QED BY <1>1, <1>2, <1>3, <2>1 DEF OledInv, None
<1> QED BY <1>1, <1>4, <1>5, <1>6, <1>7, InitInv DEF QuietInv, Quiet, QuietClaim

\* Every step keeps what shows something and what takes it away in step.
LEMMA QuietNext == TimersSuffice /\ QuietInv /\ [Next]_vars => QuietInv'
<1> SUFFICES ASSUME TimersSuffice, QuietInv, [Next]_vars PROVE QuietInv'
  OBVIOUS
<1>1. DInv /\ DInv' /\ has_sh1107' = has_sh1107
  <2>1. DInv /\ DInv'
    BY NextInv DEF QuietInv
  <2>2. CASE UNCHANGED vars
    BY <2>1, <2>2 DEF vars, Rest, lcdVars
  <2>3. CASE Next
    <3>1. CASE MainStep \/ IrqStep
      <4>1. PICK op : Do(op)
        BY <3>1 DEF MainStep, IrqStep
      <4> QED BY <2>1, <4>1, DoShown DEF Shown
    <3> QED BY <2>1, <2>3, <3>1 DEF Next, Tick, ClaimTimer, Fire, MenuKey, NavigationKey, StatusKey, PromptKey, InfoKey,
                             StandbyKey, Key, WakeButton, VideoChanges, OtherBit, Rest, lcdVars
  <2> QED BY <2>2, <2>3
<1>2. CASE has_sh1107 /\ "info" \in Keys
  BY <1>1, <1>2 DEF QuietInv
<1>3. CASE ~ (has_sh1107 /\ "info" \in Keys)
  <2>1. Quiet
    BY <1>3 DEF QuietInv
  <2>2. CASE UNCHANGED vars
    <3>1. UNCHANGED <<now, timer, claim, todo, irq, osd, osd_idx, lcd_idx, has_sh1107, lit, osd_menu_active>>
      BY <2>2 DEF vars, timers, Rest, osdVars, lcdVars, flags
    <3>2. Quiet'
      BY <2>1, <3>1 DEF Quiet, Held, NoPage, LedInv, QuietClaim, Pending, OsdInv, Hides, OledInv, Fresh
    <3> QED BY <1>1, <3>2 DEF QuietInv
  <2>3. CASE Tick
    BY <1>1, <2>1, <2>3, TickStaysQuiet DEF QuietInv
  <2>4. CASE IrqStep
    BY <2>1, <2>4 DEF IrqStep, Quiet, NoPage
  <2>5. CASE MainStep
    BY <1>1, <2>1, <2>5, MainStaysQuiet DEF QuietInv
  <2>6. CASE \E i \in Slot : Fire(i)
    BY <1>1, <2>1, <2>6, FireStaysQuiet DEF QuietInv
  <2>7. CASE MenuKey \/ NavigationKey \/ StatusKey \/ PromptKey \/ InfoKey \/ StandbyKey
    BY <1>1, <1>3, <2>1, <2>7, KeysStayQuiet DEF QuietInv
  <2>8. CASE WakeButton \/ VideoChanges \/ OtherBit
    BY <1>1, <2>1, <2>8, OthersStayQuiet DEF QuietInv
  <2>9. CASE ClaimTimer
    BY <1>1, <2>1, <2>9, ClaimStaysQuiet DEF QuietInv
  <2> QED BY <2>2, <2>3, <2>4, <2>5, <2>6, <2>7, <2>8, <2>9 DEF Next
<1> QED BY <1>2, <1>3

\* At rest nothing is about to hide, and nothing is about to be armed.
LEMMA QuietArmed == TimersSuffice /\ QuietInv => (has_sh1107 /\ "info" \in Keys) \/ TimeoutsArmed
<1> SUFFICES ASSUME TimersSuffice, DInv, Quiet, Idle
             PROVE  /\ ~ has_sh1107 /\ osd /\ ~ osd_menu_active => Pending("osd_off") # {}
                    /\ has_sh1107 /\ lit /\ lcd_bl_timeout # 0 => Pending("lcd_off") # {}
  BY DEF QuietInv, TimeoutsArmed
<1>1. todo = <<>> /\ Ops(todo) = {}
  BY OpsEmpty DEF Idle
<1>2. ASSUME ~ has_sh1107, osd, ~ osd_menu_active PROVE Pending("osd_off") # {}
  <2>1. OsdInv /\ ~ Hides
    BY <1>1, <1>2 DEF Quiet, Hides
  <2>2. PICK i \in Slot : timer[i].cb = "osd_off"
    BY <1>2, <2>1 DEF OsdInv
  <2> QED BY <2>2 DEF Pending
<1>3. ASSUME has_sh1107, lit, lcd_bl_timeout # 0 PROVE Pending("lcd_off") # {}
  <2>1. timer[0].cb = "lcd_off"
    BY <1>1, <1>3 DEF Quiet, OledInv
  <2> QED BY <2>1 DEF Pending, Slot, TimersSuffice
<1> QED BY <1>2, <1>3

\* What is shown goes away by itself (osd.c 135-151, lcd.c 58-68): at rest osd_off is
\* pending while the on-screen display is on with no menu open, lcd_off while the OLED is
\* lit.  Without the statistics page, which Display has for the OLED only: it writes to
\* the display from the interrupt, and then two lcd_off may be pending.
THEOREM TimeoutsStayArmed ==
  ASSUME TimersSuffice
  PROVE  Spec => []((has_sh1107 /\ "info" \in Keys) \/ TimeoutsArmed)
<1>1. Init => QuietInv
  BY QuietInit
<1>2. QuietInv /\ [Next]_vars => QuietInv'
  BY QuietNext
<1>3. QuietInv => (has_sh1107 /\ "info" \in Keys) \/ TimeoutsArmed
  BY QuietArmed
<1> QED BY <1>1, <1>2, <1>3, PTL DEF Spec
================================================================================
