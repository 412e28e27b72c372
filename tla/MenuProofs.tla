------------------------------- MODULE MenuProofs -------------------------------
(***************************************************************************)
(* Proofs about the menu and what the main loop makes of its settings.     *)
(* Menu: it shows what it edits.  LineModes: the nearest preset is         *)
(* programmed, the output is locked to the input, and the picture fits.    *)
(***************************************************************************)
EXTENDS Menu, SequenceTheorems, WellFoundedInduction, TLAPS

--------------------------------------------------------------------------------
(* Induction over numbers *)

\* A set of natural numbers has a least one.
LEMMA LeastNumber ==
  ASSUME NEW T, T \subseteq Nat, T # {}
  PROVE  \E x \in T : \A y \in T : x <= y
<1> DEFINE R == OpToRel(<, Nat)
<1>1. \E x \in T : \A y \in T : ~ (<<y, x>> \in R)
  <2>1. IsWellFoundedOn(R, Nat)
    BY NatLessThanWellFounded
  <2> HIDE DEF R
  <2> QED BY <2>1, WFMin
<1>2. \A x, y \in Nat : y < x => <<y, x>> \in R
  BY DEF OpToRel
<1> HIDE DEF R
<1>3. PICK x \in T : \A y \in T : ~ (<<y, x>> \in R)
  BY <1>1
<1>4. \A y \in T : ~ (y < x)
  BY <1>2, <1>3
<1> QED BY <1>4

\* Induction up to N: a set that has 0 and with every number the next.
LEMMA SetInduction ==
  ASSUME NEW T, NEW N \in Nat, 0 \in T, \A n \in 0 .. N - 1 : n \in T => n + 1 \in T
  PROVE  0 .. N \subseteq T
<1> SUFFICES ASSUME NEW m \in 0 .. N, m \notin T PROVE FALSE
  OBVIOUS
<1> DEFINE U == {n \in 0 .. N : n \notin T}
<1>1. PICK x \in U : \A y \in U : x <= y
  <2>1. U \subseteq Nat /\ U # {}
    OBVIOUS
  <2> HIDE DEF U
  <2> QED BY <2>1, LeastNumber
<1>2. x # 0 /\ x - 1 \in 0 .. N - 1
  OBVIOUS
<1>3. x - 1 \in T
  BY <1>1, <1>2
<1> QED
  BY <1>2, <1>3

--------------------------------------------------------------------------------
(* The search for a preset *)

Start == [id |-> 1, lines |-> 1000, hz |-> 10000, done |-> FALSE]
Search(f, cc, in, n) == f = [i \in 0 .. n |-> IF i = 0 THEN Start ELSE Nearest(f[i - 1], cc, in, i)]

\* The search as a function of how far it has come: there is one.
LEMMA SearchExists ==
  ASSUME NEW cc, NEW in, NEW N \in Nat
  PROVE  \E f : Search(f, cc, in, N)
<1> DEFINE T == {n \in 0 .. N : \E f : Search(f, cc, in, n)}
<1>1. 0 \in T
  <2>1. Search([i \in 0 .. 0 |-> Start], cc, in, 0)
    BY DEF Search
  <2> QED BY <2>1
<1>2. ASSUME NEW n \in 0 .. N - 1, n \in T PROVE n + 1 \in T
  <2>1. PICK f : Search(f, cc, in, n)
    BY <1>2
  <2> DEFINE g == [i \in 0 .. n + 1 |-> IF i = 0 THEN Start ELSE Nearest(f[i - 1], cc, in, i)]
  <2>2. \A i \in 0 .. n : g[i] = f[i]
    BY <2>1 DEF Search
  <2>3. Search(g, cc, in, n + 1)
    <3>1. ASSUME NEW i \in 0 .. n + 1, i # 0 PROVE f[i - 1] = g[i - 1]
      <4>1. i - 1 \in 0 .. n
        BY <3>1
      <4> HIDE DEF g
      <4> QED BY <2>2, <4>1
    <3>2. g = [i \in 0 .. n + 1 |-> IF i = 0 THEN Start ELSE Nearest(g[i - 1], cc, in, i)]
      BY <3>1
    <3> QED BY <3>2 DEF Search
  <2> QED BY <2>3
<1> HIDE DEF T
<1>3. 0 .. N \subseteq T
  BY <1>1, <1>2, SetInduction
<1> QED BY <1>3 DEF T

\* FoundPreset is where such a search ends.
LEMMA SearchIsFold ==
  ASSUME NEW cc, NEW in
  PROVE  \E f : /\ Search(f, cc, in, VIDEO_MODE_COUNT)
                /\ FoundPreset(cc, in) = IF f[VIDEO_MODE_COUNT].lines >= 130 THEN 0 ELSE f[VIDEO_MODE_COUNT].id
<1> DEFINE Is(f) == f = [i \in 0 .. VIDEO_MODE_COUNT |->
                           IF i = 0 THEN [id |-> 1, lines |-> 1000, hz |-> 10000, done |-> FALSE]
                           ELSE Nearest(f[i - 1], cc, in, i)]
           b == CHOOSE f : Is(f)
<1>1. FoundPreset(cc, in) = IF b[VIDEO_MODE_COUNT].lines >= 130 THEN 0 ELSE b[VIDEO_MODE_COUNT].id
  BY DEF FoundPreset
<1>2. VIDEO_MODE_COUNT \in Nat
  BY DEF VIDEO_MODE_COUNT, video_modes_plm_default
<1>3. \E f : Search(f, cc, in, VIDEO_MODE_COUNT)
  BY <1>2, SearchExists
<1>4. \A f : Search(f, cc, in, VIDEO_MODE_COUNT) <=> Is(f)
  BY DEF Search, Start
<1> HIDE DEF Is
<1>5. Is(b)
  BY <1>3, <1>4
<1>6. Search(b, cc, in, VIDEO_MODE_COUNT)
  BY <1>4, <1>5
<1> HIDE DEF b
<1> QED BY <1>1, <1>6

Default(i) == video_modes_plm_default[i]
ByRate == {"720P", "1080I", "1080P"}

\* The presets are the default ones in all that the choice depends on.
TableKept ==
  \A i \in 1 .. VIDEO_MODE_COUNT :
    /\ Preset(i).name = Default(i).name /\ Preset(i).group = Default(i).group
    /\ Preset(i).v_total = Default(i).v_total /\ Preset(i).v_hz_x100 = Default(i).v_hz_x100
    /\ Preset(i).interlaced = Default(i).interlaced /\ Preset(i).flags = Default(i).flags

\* There are 43 presets.
LEMMA Count == VIDEO_MODE_COUNT = 43
BY DEF VIDEO_MODE_COUNT, video_modes_plm_default

\* The lines of the table ascend, those of interlaced signals by themselves.
LEMMA Ascending ==
  \A i, j \in 1 .. 43 : i < j /\ Default(i).interlaced = Default(j).interlaced => Default(i).v_total <= Default(j).v_total
BY SMTT(60) DEF video_modes_plm_default, P, Default

\* The table holds numbers.
LEMMA TableTyped ==
  \A i \in 1 .. 43 : Default(i).v_total \in Nat /\ Default(i).v_hz_x100 \in Nat /\ Default(i).interlaced \in {0, 1}
BY SMTT(60) DEF video_modes_plm_default, P, Default

\* The lines of the presets around those whose rate counts.
LEMMA TableShape ==
  /\ \A i \in 1 .. 43 : Default(i).group \in ByRate <=> i \in {33, 34, 38, 39, 40, 41, 42}
  /\ \A i \in 1 .. 43 : Default(i).interlaced = 1 <=> i \in {23, 29, 38, 39, 40}
  /\ \A i \in 1 .. 43 : i < 32 => Default(i).v_total < 628
  /\ \A i \in 1 .. 43 : i = 32 => Default(i).v_total = 628
  /\ \A i \in 1 .. 43 : i \in 33 .. 34 => Default(i).v_total = 750
  /\ \A i \in 1 .. 43 : i \in 35 .. 37 => Default(i).v_total = (IF i = 35 THEN 806 ELSE IF i = 36 THEN 1000 ELSE 1066)
  /\ \A i \in 1 .. 43 : i = 38 => Default(i).v_total = 1050
  /\ \A i \in 1 .. 43 : i \in 39 .. 42 => Default(i).v_total = 1125
  /\ \A i \in 1 .. 43 : i \in {23, 29} => Default(i).v_total = (IF i = 23 THEN 525 ELSE 625)
<1>1. \A i \in 1 .. 43 : Default(i).group \in ByRate <=> i \in {33, 34, 38, 39, 40, 41, 42}
  BY SMTT(60) DEF video_modes_plm_default, P, Default, ByRate
<1>2. \A i \in 1 .. 43 : Default(i).interlaced = 1 <=> i \in {23, 29, 38, 39, 40}
  BY SMTT(60) DEF video_modes_plm_default, P, Default
<1>3. \A i \in 1 .. 43 : i < 32 => Default(i).v_total < 628
  BY SMTT(60) DEF video_modes_plm_default, P, Default
<1>4. \A i \in 1 .. 43 : i = 32 => Default(i).v_total = 628
  BY SMTT(60) DEF video_modes_plm_default, P, Default
<1>5. \A i \in 1 .. 43 : i \in 33 .. 34 => Default(i).v_total = 750
  BY SMTT(60) DEF video_modes_plm_default, P, Default
<1>7. \A i \in 1 .. 43 : i \in 35 .. 37 => Default(i).v_total = (IF i = 35 THEN 806 ELSE IF i = 36 THEN 1000 ELSE 1066)
  BY SMTT(60) DEF video_modes_plm_default, P, Default
<1>8. \A i \in 1 .. 43 : i = 38 => Default(i).v_total = 1050
  BY SMTT(60) DEF video_modes_plm_default, P, Default
<1>9. \A i \in 1 .. 43 : i \in 39 .. 42 => Default(i).v_total = 1125
  BY SMTT(60) DEF video_modes_plm_default, P, Default
<1>10. \A i \in 1 .. 43 : i \in {23, 29} => Default(i).v_total = (IF i = 23 THEN 525 ELSE 625)
  BY SMTT(60) DEF video_modes_plm_default, P, Default
<1> QED BY <1>1, <1>2, <1>3, <1>4, <1>5, <1>7, <1>8, <1>9, <1>10

\* A preset has fewer lines than one after it whose rate counts, if its own does not.
LEMMA Below ==
  ASSUME NEW j \in 1 .. 43, NEW i \in 1 .. 43, j < i, Default(j).interlaced = Default(i).interlaced,
         Default(i).group \in ByRate, Default(j).group \notin ByRate
  PROVE  Default(j).v_total < Default(i).v_total
BY TableShape, TableTyped

\* 800x600 is offered to every progressive signal.
LEMMA AlwaysOffered ==
  ASSUME TableKept, NEW cc, NEW in, in.interlaced = 0
  PROVE  Offered(cc, in, 32) /\ Default(32).v_total = 628 /\ Default(32).interlaced = 0
<1>1. /\ Default(32).name = "800x600_60" /\ Default(32).group = "NONE" /\ Default(32).flags = {PT}
      /\ Default(32).interlaced = 0 /\ Default(32).v_total = 628
  BY DEF video_modes_plm_default, P, Default
<1>2. PT \in valid_lm(cc, "NONE")
  <2>1. pm(cc, "NONE") = 0
    BY DEF pm
  <2> QED BY <2>1 DEF valid_lm
<1>3. /\ Preset(32).name = "800x600_60" /\ Preset(32).group = "NONE" /\ Preset(32).flags = {PT}
      /\ Preset(32).interlaced = 0
  BY <1>1, Count DEF TableKept
<1>4. ~ Excluded(cc, in, Preset(32), 32)
  BY <1>3 DEF Excluded
<1> QED BY <1>1, <1>2, <1>3, <1>4 DEF Offered

Lines(in, i) == Apart(in.v_total, Default(i).v_total)
Rate(in, i) == Apart(in.v_hz_x100, Default(i).v_hz_x100)
Nearer(in, i, j) == Default(i).group \in ByRate /\ Rate(in, i) < Rate(in, j)
Before(in, i, j) ==
  \/ Lines(in, i) < Lines(in, j)
  \/ Lines(in, i) = Lines(in, j) /\ ((i < j /\ ~ Nearer(in, j, i)) \/ (i > j /\ Nearer(in, i, j)))

\* The nearest of the first n presets, or none so far.
Bests == [id : 1 .. 43, lines : Int, hz : Int, done : BOOLEAN]
NoneYet(b, cc, in, n) ==
  /\ ~ b.done /\ b.lines >= 1000
  /\ \A j \in 1 .. n : Offered(cc, in, j) => Lines(in, j) >= 1000
Chosen(b, cc, in, n) ==
  /\ b.lines < 1000
  /\ b.id \in 1 .. n /\ Offered(cc, in, b.id)
  /\ b.lines = Lines(in, b.id) /\ b.hz = Rate(in, b.id)
  /\ \A j \in 1 .. n : Before(in, j, b.id) => ~ Offered(cc, in, j)
  /\ b.done => \A j \in n + 1 .. 43 : Offered(cc, in, j) => b.lines < Lines(in, j)
Best(b, cc, in, n) == b \in Bests /\ (NoneYet(b, cc, in, n) \/ Chosen(b, cc, in, n))

\* Distances are natural numbers.
LEMMA DistanceTyped ==
  ASSUME NEW in, in.v_total \in Int, in.v_hz_x100 \in Int, NEW i \in 1 .. 43
  PROVE  Lines(in, i) \in Nat /\ Rate(in, i) \in Nat
BY TableTyped DEF Lines, Rate, Apart

\* Once presets go away from the signal they stay away.
LEMMA GoesAway ==
  ASSUME NEW in, in.v_total \in Int, in.v_hz_x100 \in Int,
         NEW i \in 1 .. 43, NEW j \in 1 .. 43, NEW k \in 1 .. 43, i < j, j < k,
         Default(i).interlaced = Default(j).interlaced, Default(j).interlaced = Default(k).interlaced,
         Lines(in, i) < Lines(in, j)
  PROVE  Lines(in, i) < Lines(in, k)
<1>1. Default(i).v_total <= Default(j).v_total
  BY Ascending
<1>2. Default(j).v_total <= Default(k).v_total
  BY Ascending
<1>3. Default(i).v_total \in Nat /\ Default(j).v_total \in Nat /\ Default(k).v_total \in Nat
  BY TableTyped
<1> QED BY <1>1, <1>2, <1>3 DEF Lines, Apart

\* What is offered is interlaced as the signal is.
LEMMA OfferedAlike ==
  ASSUME TableKept, NEW cc, NEW in, NEW i \in 1 .. 43, Offered(cc, in, i)
  PROVE  Default(i).interlaced = in.interlaced
BY Count DEF TableKept, Offered

\* A tie is decided by rate against a preset of the same lines, or of one that stands alone with its lines.
LEMMA Ties ==
  ASSUME TableKept, NEW cc, NEW in, in.v_total \in Int, in.v_hz_x100 \in Int,
         NEW b \in 1 .. 43, NEW j \in 1 .. 43, NEW i \in 1 .. 43, b < j, j < i,
         Offered(cc, in, b), Offered(cc, in, j), Offered(cc, in, i),
         Lines(in, b) = Lines(in, i), Lines(in, j) = Lines(in, i), Default(i).group \in ByRate,
         Default(j).group \notin ByRate
  PROVE  Offered(cc, in, 32) /\ 32 < i /\ Lines(in, 32) < Lines(in, i)
<1>1. Default(b).interlaced = Default(i).interlaced /\ Default(j).interlaced = Default(i).interlaced
      /\ Default(i).interlaced = in.interlaced
  BY OfferedAlike
<1>2. Default(b).v_total <= Default(j).v_total /\ Default(j).v_total < Default(i).v_total
  <2>1. Default(b).v_total <= Default(j).v_total
    BY <1>1, Ascending
  <2>2. Default(j).v_total < Default(i).v_total
    BY <1>1, Below
  <2> QED BY <2>1, <2>2
<1>3. Default(b).v_total = Default(j).v_total
  BY <1>2, TableTyped DEF Lines, Apart
<1>4. Default(j).v_total < 628 /\ 628 < Default(i).v_total /\ i > 32 /\ Default(i).interlaced = 0
  BY <1>1, <1>3, TableShape, TableTyped
<1>5. Offered(cc, in, 32) /\ Default(32).v_total = 628
  <2>1. in.interlaced = 0
    BY <1>1, <1>4
  <2> QED BY <2>1, AlwaysOffered
<1>6. Lines(in, 32) < Lines(in, i)
  BY <1>2, <1>4, <1>5, TableTyped DEF Lines, Apart
<1> QED BY <1>4, <1>5, <1>6

\* With one more preset the search still has the nearest of those it has seen.
LEMMA NearestKeeps ==
  ASSUME TableKept, NEW cc, NEW in, in.v_total \in Int, in.v_hz_x100 \in Int,
         NEW n \in 0 .. 42, NEW b, Best(b, cc, in, n)
  PROVE  Best(Nearest(b, cc, in, n + 1), cc, in, n + 1)
<1> DEFINE i == n + 1
           c == Nearest(b, cc, in, i)
           near == Lines(in, i) < b.lines \/ (Default(i).group \in ByRate /\ Lines(in, i) = b.lines /\ Rate(in, i) < b.hz)
<1>1. i \in 1 .. 43 /\ n \in 0 .. 42 /\ \A j \in 1 .. i : j \in 1 .. n \/ j = i
  OBVIOUS
<1>2. b \in Bests /\ Lines(in, i) \in Nat /\ Rate(in, i) \in Nat
  BY <1>1, DistanceTyped DEF Best
<1>3. CASE b.done \/ ~ Offered(cc, in, i)
  <2>1. c = b
    BY <1>3 DEF Nearest
  <2>2. CASE NoneYet(b, cc, in, n)
    <3>1. NoneYet(b, cc, in, i)
      BY <1>1, <1>3, <2>2 DEF NoneYet
    <3> QED BY <1>2, <2>1, <3>1 DEF Best
  <2>3. CASE Chosen(b, cc, in, n)
    <3>1. b.id \in 1 .. i /\ \A j \in i + 1 .. 43 : j \in n + 1 .. 43
      BY <2>3 DEF Chosen
    <3>2. ASSUME Before(in, i, b.id), Offered(cc, in, i) PROVE FALSE
      <4>1. b.lines < Lines(in, i) /\ b.lines = Lines(in, b.id) /\ b.lines \in Int
        BY <1>1, <1>2, <1>3, <2>3, <3>2 DEF Chosen, Bests
      <4> QED BY <1>2, <3>2, <4>1 DEF Before
    <3>3. Chosen(b, cc, in, i)
      BY <1>1, <2>3, <3>1, <3>2 DEF Chosen
    <3> QED BY <1>2, <2>1, <3>3 DEF Best
  <2> QED BY <2>2, <2>3 DEF Best
<1>4. CASE ~ b.done /\ Offered(cc, in, i) /\ near
  <2>1. c = [id |-> i, lines |-> Lines(in, i), hz |-> Rate(in, i), done |-> FALSE]
    BY <1>1, <1>4, Count DEF Nearest, TableKept, Lines, Rate, ByRate
  <2>2. c \in Bests /\ c.id = i /\ c.lines = Lines(in, i) /\ c.hz = Rate(in, i) /\ ~ c.done
    <3>1. i \in 1 .. 43 /\ Lines(in, i) \in Int /\ Rate(in, i) \in Int
      BY <1>1, <1>2
    <3> HIDE DEF c
    <3> QED BY <2>1, <3>1 DEF Bests
  <2>3. CASE Lines(in, i) >= 1000
    <3>1. b.lines >= 1000
      BY <1>2, <1>4, <2>3 DEF Bests
    <3>2. NoneYet(b, cc, in, n)
      BY <1>2, <3>1 DEF Best, Chosen, Bests
    <3>3. NoneYet(c, cc, in, i)
      BY <1>1, <2>2, <2>3, <3>2 DEF NoneYet
    <3> QED BY <2>2, <3>3 DEF Best
  <2>4. CASE Lines(in, i) < 1000
    <3>1. ASSUME NEW j \in 1 .. n, Before(in, j, i), Offered(cc, in, j) PROVE FALSE
      <4>1. j \in 1 .. 43 /\ j < i /\ Lines(in, j) \in Nat /\ Rate(in, j) \in Nat
        BY <1>1, DistanceTyped
      <4>2. CASE NoneYet(b, cc, in, n)
        BY <1>2, <2>4, <3>1, <4>1, <4>2 DEF NoneYet, Before
      <4>3. CASE Chosen(b, cc, in, n)
        <5>1. /\ b.id \in 1 .. n /\ b.id \in 1 .. 43 /\ b.lines = Lines(in, b.id) /\ b.hz = Rate(in, b.id)
              /\ Offered(cc, in, b.id) /\ ~ Before(in, j, b.id) /\ Lines(in, b.id) \in Nat /\ Rate(in, b.id) \in Nat
          BY <1>1, <3>1, <4>3, DistanceTyped DEF Chosen
        <5>2. Lines(in, b.id) <= Lines(in, j) /\ Lines(in, i) <= Lines(in, b.id)
          BY <1>2, <1>4, <4>1, <5>1 DEF Before
        <5>3. Lines(in, j) = Lines(in, i) /\ Lines(in, b.id) = Lines(in, i) /\ ~ Nearer(in, i, j)
          BY <1>2, <3>1, <4>1, <5>1, <5>2 DEF Before
        <5>4. Default(i).group \in ByRate /\ Rate(in, i) < Rate(in, b.id)
          BY <1>2, <1>4, <5>1, <5>3
        <5>5. Rate(in, j) <= Rate(in, i)
          BY <1>2, <4>1, <5>3, <5>4 DEF Nearer
        <5>6. Rate(in, j) < Rate(in, b.id)
          BY <1>2, <4>1, <5>1, <5>4, <5>5
        <5>7. b.id < j /\ Default(j).group \notin ByRate
          BY <1>2, <4>1, <5>1, <5>3, <5>6 DEF Before, Nearer
        <5>8. Offered(cc, in, 32) /\ 32 < i /\ Lines(in, 32) < Lines(in, i)
          BY <1>1, <1>4, <3>1, <4>1, <5>1, <5>3, <5>4, <5>7, Ties
        <5>9. 32 \in 1 .. n /\ Before(in, 32, b.id)
          BY <1>1, <5>3, <5>8 DEF Before
        <5> QED BY <4>3, <5>8, <5>9 DEF Chosen
      <4> QED BY <4>2, <4>3 DEF Best
    <3>2. ~ Before(in, i, i)
      BY <1>1, <1>2 DEF Before
    <3>3. Chosen(c, cc, in, i)
      BY <1>1, <1>4, <2>2, <2>4, <3>1, <3>2 DEF Chosen
    <3> QED BY <2>2, <3>3 DEF Best
  <2> QED BY <1>2, <2>3, <2>4
<1>5. CASE ~ b.done /\ Offered(cc, in, i) /\ ~ near
  <2>1. c = [b EXCEPT !.done = b.lines <= 2 /\ Lines(in, i) > b.lines]
    BY <1>1, <1>5, Count DEF Nearest, TableKept, Lines, Rate, ByRate
  <2>2. c \in Bests /\ c.id = b.id /\ c.lines = b.lines /\ c.hz = b.hz
    BY <1>2, <2>1 DEF Bests
  <2>3. c.done <=> b.lines <= 2 /\ Lines(in, i) > b.lines
    BY <1>2, <2>1 DEF Bests
  <2>4. b.lines \in Int /\ Lines(in, i) >= b.lines
    BY <1>2, <1>5 DEF Bests
  <2>5. CASE NoneYet(b, cc, in, n)
    <3>1. NoneYet(c, cc, in, i)
      BY <1>1, <1>2, <2>2, <2>3, <2>4, <2>5 DEF NoneYet
    <3> QED BY <2>2, <3>1 DEF Best
  <2>6. CASE Chosen(b, cc, in, n)
    <3>1. /\ b.id \in 1 .. n /\ b.id \in 1 .. 43 /\ b.lines = Lines(in, b.id) /\ b.hz = Rate(in, b.id)
          /\ Offered(cc, in, b.id) /\ b.lines < 1000
      BY <1>1, <2>6 DEF Chosen
    <3>2. ~ Before(in, i, b.id)
      BY <1>1, <1>2, <1>5, <2>4, <3>1 DEF Before, Nearer
    <3>3. ASSUME c.done, NEW j \in i + 1 .. 43, Offered(cc, in, j) PROVE c.lines < Lines(in, j)
      <4>1. Lines(in, b.id) < Lines(in, i)
        BY <1>2, <2>3, <3>1, <3>3
      <4>2. b.id < i /\ i < j /\ j \in 1 .. 43
        BY <1>1, <3>1
      <4>3. Default(b.id).interlaced = Default(i).interlaced /\ Default(i).interlaced = Default(j).interlaced
        BY <1>1, <1>5, <3>1, <3>3, <4>2, OfferedAlike
      <4>4. Lines(in, b.id) < Lines(in, j)
        BY <1>1, <3>1, <4>1, <4>2, <4>3, GoesAway
      <4> QED BY <2>2, <3>1, <4>4
    <3>4. Chosen(c, cc, in, i)
      BY <1>1, <2>2, <2>6, <3>1, <3>2, <3>3 DEF Chosen
    <3> QED BY <2>2, <3>4 DEF Best
  <2> QED BY <2>5, <2>6 DEF Best
<1> QED BY <1>3, <1>4, <1>5

\* What the search finds.
LEMMA SearchFinds ==
  ASSUME TableKept, NEW cc, NEW in, in.v_total \in Int, in.v_hz_x100 \in Int
  PROVE  IF FoundPreset(cc, in) = 0 THEN \A i \in 1 .. 43 : Lines(in, i) < 130 => ~ Offered(cc, in, i)
         ELSE /\ FoundPreset(cc, in) \in 1 .. 43 /\ Offered(cc, in, FoundPreset(cc, in))
              /\ \A i \in 1 .. 43 : Before(in, i, FoundPreset(cc, in)) => ~ Offered(cc, in, i)
<1>1. PICK f : /\ Search(f, cc, in, 43)
               /\ FoundPreset(cc, in) = IF f[43].lines >= 130 THEN 0 ELSE f[43].id
  BY SearchIsFold, Count
<1> DEFINE T == {n \in 0 .. 43 : Best(f[n], cc, in, n)}
<1>2. 0 \in T
  <2>1. f[0] = Start
    BY <1>1 DEF Search
  <2>2. Best(Start, cc, in, 0)
    BY DEF Best, NoneYet, Start, Bests
  <2> QED BY <2>1, <2>2
<1>3. ASSUME NEW n \in 0 .. 43 - 1, n \in T PROVE n + 1 \in T
  <2>1. f[n + 1] = Nearest(f[n], cc, in, n + 1)
    BY <1>1 DEF Search
  <2>2. n \in 0 .. 42 /\ Best(f[n], cc, in, n)
    BY <1>3
  <2>3. Best(Nearest(f[n], cc, in, n + 1), cc, in, n + 1)
    BY <2>2, NearestKeeps
  <2> QED BY <2>1, <2>3
<1> HIDE DEF T
<1>4. 0 .. 43 \subseteq T
  BY <1>2, <1>3, SetInduction
<1>5. Best(f[43], cc, in, 43)
  BY <1>4 DEF T
<1>6. \A i \in 1 .. 43 : Lines(in, i) \in Nat
  BY DistanceTyped
<1>7. CASE f[43].lines >= 130
  <2>1. f[43].lines \in Int
    BY <1>5 DEF Best, Bests
  <2>2. ASSUME NEW i \in 1 .. 43, Lines(in, i) < 130, Offered(cc, in, i) PROVE FALSE
    <3>1. CASE NoneYet(f[43], cc, in, 43)
      BY <1>6, <2>2, <3>1 DEF NoneYet
    <3>2. CASE Chosen(f[43], cc, in, 43)
      BY <1>6, <1>7, <2>1, <2>2, <3>2 DEF Chosen, Before
    <3> QED BY <1>5, <3>1, <3>2 DEF Best
  <2> QED BY <1>1, <1>7, <2>2
<1>8. CASE ~ (f[43].lines >= 130)
  <2>1. f[43].lines \in Int /\ Chosen(f[43], cc, in, 43)
    BY <1>5, <1>8 DEF Best, Bests, NoneYet
  <2>2. FoundPreset(cc, in) = f[43].id
    BY <1>1, <1>8
  <2> QED BY <2>1, <2>2 DEF Chosen
<1> QED BY <1>7, <1>8

--------------------------------------------------------------------------------
(* The pages of the menu *)

\* The fields of a preset that its page shows.
Shown == {"h_total", "h_total_adj", "h_synclen", "h_backporch", "h_active", "v_synclen", "v_backporch", "v_active",
          "ar_h", "ar_v", "sampler_phase"}
Choices == {"s480p_mode", "s400p_mode", "upsample2x", "pm_240p", "pm_384p", "pm_480i", "pm_480p", "pm_1080i", "pt_mode",
            "l2_mode", "l3_mode", "l4_mode", "l5_mode", "l6_mode", "l5_fmt", "ar_256col"}
Functions == {"load_profile", "save_profile", "set_default", "import", "export", "fw_update"}
\* The settings that the width of what is put out depends on.
Limited(d, max) ==
  (d \in {"pt_mode", "pm_240p"} => max = 5) /\ (d = "ar_256col" => max = 1)
Selections == {x \in [type : {"sel"}, data : Choices, min : {0}, max : Nat] : Limited(x.data, x.max)}
\* The items of a page from which one gets to these menus.
Items(subs) ==
  [type : {"plain"}] \cup Selections
    \cup [type : {"sub"}, menu : subs, arg : BOOLEAN] \cup [type : {"fun"}, f : Functions, arg : BOOLEAN]
Numbers == [type : {"u16"}, data : Shown, min : Nat, max : Nat]
IsPage(s, X) == s \in Seq(X) /\ s # <<>>

\* Pages are put together from pages of an item each.
LEMMA PageJoins == ASSUME NEW X, NEW s, NEW t, IsPage(s, X), IsPage(t, X) PROVE IsPage(s \o t, X)
<1>1. s \o t \in Seq(X) /\ Len(s \o t) = Len(s) + Len(t) /\ Len(s) \in Nat /\ Len(t) \in Nat
  BY ConcatProperties, LenProperties DEF IsPage
<1>2. Len(s) # 0
  BY EmptySeq DEF IsPage
<1> QED BY <1>1, <1>2 DEF IsPage

\* Items for settings that no preset depends on.
LEMMA PagePlain == ASSUME NEW n \in Nat \ {0}, NEW subs PROVE IsPage(Plain(n), Items(subs))
<1>1. [type |-> "plain"] \in Items(subs)
  BY DEF Items
<1>2. Plain(n) \in [1 .. n -> Items(subs)]
  BY <1>1 DEF Plain
<1>3. 1 \in DOMAIN Plain(n)
  BY DEF Plain
<1> QED BY <1>2, <1>3, EmptySeq DEF IsPage

\* One item.
LEMMA PageOne == ASSUME NEW X, NEW x \in X PROVE IsPage(<<x>>, X)
BY DEF IsPage

\* A selection.
LEMMA PageSel == ASSUME NEW d \in Choices, NEW max \in Nat, Limited(d, max), NEW subs PROVE IsPage(Sel(d, max), Items(subs))
<1>1. [type |-> "sel", data |-> d, min |-> 0, max |-> max] \in Items(subs)
  BY DEF Items, Selections
<1> QED BY <1>1, PageOne DEF Sel

\* An entry to another menu.
LEMMA PageSub == ASSUME NEW subs, NEW menu \in subs, NEW arg \in BOOLEAN PROVE IsPage(Sub(menu, arg), Items(subs))
<1>1. [type |-> "sub", menu |-> menu, arg |-> arg] \in Items(subs)
  BY DEF Items
<1> QED BY <1>1, PageOne DEF Sub

\* A function.
LEMMA PageFun == ASSUME NEW f \in Functions, NEW arg \in BOOLEAN, NEW subs PROVE IsPage(Fun(f, arg), Items(subs))
<1>1. [type |-> "fun", f |-> f, arg |-> arg] \in Items(subs)
  BY DEF Items
<1> QED BY <1>1, PageOne DEF Fun

\* A number.
LEMMA PageU16 == ASSUME NEW d \in Shown, NEW min \in Nat, NEW max \in Nat PROVE IsPage(U16(d, min, max), Numbers)
<1>1. [type |-> "u16", data |-> d, min |-> min, max |-> max] \in Numbers
  BY DEF Numbers
<1> QED BY <1>1, PageOne DEF U16

Level1 == {"vinputproc", "sampling", "sync", "output", "scanlines", "postproc", "compatibility", "audio", "settings"}
Level2 == {"advtiming", "cust_sl"}

\* The pages one by one: the main menu.
LEMMA PageMain == IsPage(menu_main, Items(Level1))
<1>1. \A m \in Level1 : IsPage(Sub(m, FALSE), Items(Level1))
  BY PageSub
<1>2. /\ IsPage(Sub("vinputproc", FALSE), Items(Level1)) /\ IsPage(Sub("sampling", FALSE), Items(Level1))
      /\ IsPage(Sub("sync", FALSE), Items(Level1)) /\ IsPage(Sub("output", FALSE), Items(Level1))
      /\ IsPage(Sub("scanlines", FALSE), Items(Level1)) /\ IsPage(Sub("postproc", FALSE), Items(Level1))
      /\ IsPage(Sub("compatibility", FALSE), Items(Level1)) /\ IsPage(Sub("audio", FALSE), Items(Level1))
      /\ IsPage(Sub("settings", FALSE), Items(Level1))
  BY <1>1 DEF Level1
<1> QED BY <1>2, PageJoins DEF menu_main

\* The timings of a preset.
LEMMA PageTimings == IsPage(menu_advtiming, Numbers)
<1>1. /\ IsPage(U16("h_total", 300, 2800), Numbers) /\ IsPage(U16("h_total_adj", 0, 19), Numbers)
      /\ IsPage(U16("h_synclen", 10, 255), Numbers) /\ IsPage(U16("h_backporch", 0, 511), Numbers)
      /\ IsPage(U16("h_active", 200, 2048), Numbers) /\ IsPage(U16("v_synclen", 1, 15), Numbers)
      /\ IsPage(U16("v_backporch", 0, 511), Numbers) /\ IsPage(U16("v_active", 160, 1728), Numbers)
      /\ IsPage(U16("ar_h", 0, 255), Numbers) /\ IsPage(U16("ar_v", 0, 63), Numbers)
      /\ IsPage(U16("sampler_phase", 0, 31), Numbers)
  BY PageU16 DEF Shown
<1> QED BY <1>1, PageJoins DEF menu_advtiming

\* Sampling.
LEMMA PageSampling == IsPage(menu_sampling, Items(Level2))
<1>1. IsPage(Sub("advtiming", TRUE), Items(Level2))
  BY PageSub DEF Level2
<1>2. IsPage(Sel("s480p_mode", 3), Items(Level2))
  BY PageSel DEF Choices, Limited
<1>3. IsPage(Sel("s400p_mode", 1), Items(Level2))
  BY PageSel DEF Choices, Limited
<1>4. IsPage(Sel("upsample2x", 1), Items(Level2))
  BY PageSel DEF Choices, Limited
<1>5. IsPage(Sel("s480p_mode", 3) \o Sel("s400p_mode", 1), Items(Level2))
  BY <1>2, <1>3, PageJoins
<1> QED BY <1>1, <1>4, <1>5, PageJoins DEF menu_sampling

\* Output.
LEMMA PageOutput == IsPage(menu_output, Items(Level2))
<1>1. /\ IsPage(Sel("pm_240p", 5), Items(Level2))
      /\ IsPage(Sel("pm_384p", 4), Items(Level2))
      /\ IsPage(Sel("pm_480i", 3), Items(Level2))
      /\ IsPage(Sel("pm_480p", 2), Items(Level2))
      /\ IsPage(Sel("pm_1080i", 1), Items(Level2))
      /\ IsPage(Sel("pt_mode", 5), Items(Level2))
      /\ IsPage(Sel("l2_mode", 4), Items(Level2))
      /\ IsPage(Sel("l3_mode", 5), Items(Level2))
      /\ IsPage(Sel("l4_mode", 4), Items(Level2))
      /\ IsPage(Sel("l5_mode", 4), Items(Level2))
      /\ IsPage(Sel("l6_mode", 4), Items(Level2))
      /\ IsPage(Sel("l5_fmt", 2), Items(Level2))
      /\ IsPage(Sel("ar_256col", 1), Items(Level2))
  BY PageSel DEF Choices, Limited
<1>2. IsPage(Plain(4), Items(Level2))
  BY PagePlain
<1> QED BY <1>1, <1>2, PageJoins DEF menu_output

\* Scanlines.
LEMMA PageScanlines == IsPage(menu_scanlines, Items(Level2))
<1>1. IsPage(Sub("cust_sl", FALSE), Items(Level2))
  BY PageSub DEF Level2
<1>2. IsPage(Plain(7), Items(Level2))
  BY PagePlain
<1> QED BY <1>1, <1>2, PageJoins DEF menu_scanlines

\* Settings.
LEMMA PageSettings == IsPage(menu_settings, Items(Level2))
<1>1. /\ IsPage(Fun("load_profile", TRUE), Items(Level2))
      /\ IsPage(Fun("save_profile", TRUE), Items(Level2))
      /\ IsPage(Fun("set_default", FALSE), Items(Level2))
      /\ IsPage(Fun("import", FALSE), Items(Level2))
      /\ IsPage(Fun("export", FALSE), Items(Level2))
      /\ IsPage(Fun("fw_update", FALSE), Items(Level2))
  BY PageFun DEF Functions
<1>2. IsPage(Plain(11), Items(Level2))
  BY PagePlain
<1> QED BY <1>1, <1>2, PageJoins DEF menu_settings

\* The menus in use at each level.
Level(l) == IF l = 0 THEN {"main"} ELSE IF l = 1 THEN Level1 ELSE IF l = 2 THEN Level2 ELSE {}

\* Every page has items, each of a kind that its level allows.
LEMMA Pages ==
  ASSUME NEW l \in 0 .. 2, NEW m \in Level(l)
  PROVE  IsPage(Menus[m], IF m = "advtiming" THEN Numbers ELSE Items(Level(l + 1)))
<1>1. CASE l = 0
  <2>1. m = "main" /\ Level(l + 1) = Level1
    BY <1>1 DEF Level
  <2>2. Menus[m] = menu_main
    BY <2>1 DEF Menus
  <2> QED BY <2>1, <2>2, PageMain
<1>2. CASE l = 1
  <2>1. m \in Level1 /\ Level(l + 1) = Level2 /\ m # "advtiming"
    BY <1>2 DEF Level, Level1
  <2>2. \/ Menus[m] \in {menu_sampling, menu_output, menu_scanlines, menu_settings}
        \/ Menus[m] \in {Plain(14), Plain(9), Plain(3), Plain(4)}
    BY <2>1 DEF Menus, Level1
  <2>3. /\ IsPage(Plain(14), Items(Level2)) /\ IsPage(Plain(9), Items(Level2))
        /\ IsPage(Plain(3), Items(Level2)) /\ IsPage(Plain(4), Items(Level2))
    BY PagePlain
  <2> QED BY <2>1, <2>2, <2>3, PageSampling, PageOutput, PageScanlines, PageSettings
<1>3. CASE l = 2
  <2>1. m \in Level2
    <3>1. Level(2) = Level2
      BY DEF Level
    <3> QED BY <1>3, <3>1
  <2>2. CASE m = "advtiming"
    BY <2>2, PageTimings DEF Menus
  <2>3. CASE m = "cust_sl"
    <3>1. Menus[m] = Plain(14)
      BY <2>3 DEF Menus
    <3> QED BY <2>3, <3>1, PagePlain
  <2> QED BY <2>1, <2>2, <2>3 DEF Level2
<1> QED BY <1>1, <1>2, <1>3

--------------------------------------------------------------------------------
(* The menu and the copies of timings *)

\* The preset that a table gives for a number.
PresetOf(table, i) == IF i \in DOMAIN table THEN table[i] ELSE Default(i)

MenuNames == {""} \cup UNION {Level(l) : l \in 0 .. 2}

\* The menus: at each level one that belongs there, and a position in it.
HasMenu(e) == e.m # ""
Fits(l, e) == HasMenu(e) => e.m \in Level(l) /\ e.mp \in 0 .. Len(Menus[e.m]) - 1
NaviInv ==
  /\ navlvl \in 0 .. 2
  /\ navi \in [0 .. 2 -> [m : MenuNames, mp : Int]]
  /\ \A l \in 0 .. 2 : Fits(l, navi[l])
  /\ \A l \in 0 .. 2 : l <= navlvl => HasMenu(navi[l])

\* The copies are those of the preset they are written to, unless it was replaced.
CopiesInv ==
  /\ vm_sel \in 1 .. 43 /\ vm_edit \in 1 .. 43 /\ cm.id \in 1 .. 43
  /\ IsTable(video_modes_plm)
  /\ edit = [f \in Tweaked |-> edit[f]]
  /\ ~ replaced => edit = Copies(PresetOf(video_modes_plm, vm_edit))

\* So has every position in it.
LEMMA ItemOf ==
  ASSUME NEW l \in 0 .. 2, NEW m \in Level(l), NEW k \in 0 .. Len(Menus[m]) - 1
  PROVE  /\ m = "advtiming" => Menus[m][k + 1] \in Numbers /\ Menus[m][k + 1].data \in Tweaked
         /\ m # "advtiming" => Menus[m][k + 1] \in Items(Level(l + 1))
<1>1. CASE m = "advtiming"
  <2>1. IsPage(menu_advtiming, Numbers) /\ Menus[m] = menu_advtiming
    BY <1>1, PageTimings DEF Menus
  <2>2. k + 1 \in 1 .. Len(menu_advtiming) /\ DOMAIN menu_advtiming = 1 .. Len(menu_advtiming)
    BY <2>1, LenProperties DEF IsPage
  <2>3. menu_advtiming[k + 1] \in Numbers
    BY <2>1, <2>2, ElementOfSeq DEF IsPage
  <2>4. menu_advtiming[k + 1].data \in Tweaked
    BY <2>2 DEF Tweaked
  <2> QED BY <1>1, <2>1, <2>3, <2>4
<1>2. CASE m # "advtiming"
  <2>1. IsPage(Menus[m], Items(Level(l + 1)))
    BY <1>2, Pages
  <2>2. k + 1 \in 1 .. Len(Menus[m])
    BY <2>1, LenProperties DEF IsPage
  <2> QED BY <1>2, <2>1, <2>2, ElementOfSeq DEF IsPage
<1> QED BY <1>1, <1>2

\* No page is empty.
LEMMA PageLength ==
  ASSUME NEW l \in 0 .. 2, NEW m \in Level(l)
  PROVE  Len(Menus[m]) \in Nat \ {0}
<1>1. PICK X : IsPage(Menus[m], X)
  BY Pages
<1> QED BY <1>1, LenProperties, EmptySeq DEF IsPage

\* The fields of the page, and those that the choice depends on, are in all presets.
LEMMA ShownTweaked == Tweaked \subseteq Shown
<1>1. menu_advtiming \in Seq(Numbers)
  BY PageTimings DEF IsPage
<1>2. \A i \in DOMAIN menu_advtiming : menu_advtiming[i] \in Numbers
  BY <1>1, ElementOfSeq, LenProperties
<1> QED BY <1>2 DEF Tweaked, Numbers

KeptFields == {"name", "group", "v_total", "v_hz_x100", "interlaced", "flags"}
\* All of these are fields of every preset.
LEMMA DefaultFields == \A i \in 1 .. 43 : Shown \cup KeptFields \subseteq DOMAIN Default(i)
BY SMTT(60) DEF video_modes_plm_default, P, Default, Shown, KeptFields

\* Put changes one preset.
LEMMA PutTable ==
  ASSUME NEW table, IsTable(table), NEW i \in 1 .. 43, NEW p, DOMAIN p = DOMAIN Default(i)
  PROVE  IsTable(Put(table, i, p))
BY Count DEF IsTable, Default, Put

\* There it is what was put.
LEMMA PutThere ==
  ASSUME NEW table, NEW i, NEW p
  PROVE  PresetOf(Put(table, i, p), i) = p
BY DEF PresetOf, Put, Default

\* Elsewhere it is what was there.
LEMMA PutElsewhere ==
  ASSUME NEW table, NEW i, NEW p, NEW j, j # i
  PROVE  PresetOf(Put(table, i, p), j) = PresetOf(table, j)
BY DEF PresetOf, Put, Default

\* All presets of a table have the fields of the default ones.
LEMMA TableFields == ASSUME NEW table, IsTable(table), NEW i \in 1 .. 43 PROVE DOMAIN PresetOf(table, i) = DOMAIN Default(i)
BY DEF IsTable, PresetOf, Default

\* Preset reads the present table.
LEMMA PresetIn == \A i : Preset(i) = PresetOf(video_modes_plm, i)
BY DEF Preset, PresetOf, Default

\* vm_tweak writes the copies to their preset.
LEMMA TweakWrites ==
  ASSUME CopiesInv, NEW e, e = [f \in Tweaked |-> e[f]], Tweak(e)
  PROVE  /\ IsTable(video_modes_plm')
         /\ Copies(PresetOf(video_modes_plm', vm_edit)) = e
         /\ \A j \in 1 .. 43 : PresetOf(video_modes_plm', j) = IF j # vm_edit THEN Preset(j)
              ELSE [f \in DOMAIN Preset(j) |-> IF f \in Tweaked THEN e[f] ELSE Preset(j)[f]]
<1> DEFINE old == Preset(vm_edit)
           new == [f \in DOMAIN old |-> IF f \in Tweaked THEN e[f] ELSE old[f]]
<1>1. video_modes_plm' = Put(video_modes_plm, vm_edit, new)
  BY DEF Tweak
<1>2. vm_edit \in 1 .. 43 /\ IsTable(video_modes_plm)
  BY DEF CopiesInv
<1>3. DOMAIN old = DOMAIN Default(vm_edit) /\ DOMAIN new = DOMAIN old
  BY <1>2, PresetIn, TableFields
<1>4. Tweaked \subseteq DOMAIN new
  BY <1>2, <1>3, ShownTweaked, DefaultFields
<1>5. Copies(new) = e
  BY <1>3, <1>4 DEF Copies
<1> HIDE DEF new
<1>6. IsTable(video_modes_plm') /\ PresetOf(video_modes_plm', vm_edit) = new
      /\ \A j \in 1 .. 43 : j # vm_edit => PresetOf(video_modes_plm', j) = Preset(j)
  <2>1. DOMAIN new = DOMAIN Default(vm_edit)
    BY <1>3
  <2>2. IsTable(video_modes_plm')
    BY <1>1, <1>2, <2>1, PutTable
  <2>3. PresetOf(video_modes_plm', vm_edit) = new
    BY <1>1, PutThere
  <2>4. \A j \in 1 .. 43 : j # vm_edit => PresetOf(video_modes_plm', j) = Preset(j)
    BY <1>1, PutElsewhere, PresetIn
  <2> QED BY <2>2, <2>3, <2>4
<1> QED BY <1>5, <1>6 DEF new

\* Whatever the table, the search gives the number of a preset or none.
LEMMA FoundTyped == ASSUME NEW cc, NEW in PROVE FoundPreset(cc, in) \in 0 .. 43
<1>1. PICK f : /\ Search(f, cc, in, 43)
               /\ FoundPreset(cc, in) = IF f[43].lines >= 130 THEN 0 ELSE f[43].id
  BY SearchIsFold, Count
<1> DEFINE T == {n \in 0 .. 43 : f[n].id \in 1 .. 43 /\ "id" \in DOMAIN f[n]}
<1>2. 0 \in T
  BY <1>1 DEF Search, Start
<1>3. ASSUME NEW n \in 0 .. 43 - 1, n \in T PROVE n + 1 \in T
  <2>1. f[n + 1] = Nearest(f[n], cc, in, n + 1)
    BY <1>1 DEF Search
  <2>2. n + 1 \in 1 .. 43 /\ f[n].id \in 1 .. 43 /\ "id" \in DOMAIN f[n]
    BY <1>3
  <2>3. \A b : b.id \in 1 .. 43 /\ "id" \in DOMAIN b =>
          Nearest(b, cc, in, n + 1).id \in 1 .. 43 /\ "id" \in DOMAIN Nearest(b, cc, in, n + 1)
    BY <2>2 DEF Nearest
  <2> QED BY <2>1, <2>2, <2>3
<1> HIDE DEF T
<1>4. 0 .. 43 \subseteq T
  BY <1>2, <1>3, SetInduction
<1>5. f[43].id \in 1 .. 43
  BY <1>4 DEF T
<1> QED BY <1>1, <1>5

\* The preset programmed is the one found.
LEMMA Programs ==
  ASSUME NEW s, NEW again, program_mode(s, again), cm.id \in 1 .. 43
  PROVE  /\ signal' = s /\ cm'.cc = tc /\ video_modes_plm' = video_modes_plm
         /\ FoundPreset(tc, s) = 0 => vmode' = None /\ cm'.id = cm.id
         /\ FoundPreset(tc, s) # 0 => vmode' # None /\ vmode'.id = FoundPreset(tc, s) /\ cm'.id = FoundPreset(tc, s)
<1> DEFINE id == FoundPreset(tc, s)
           g == get_pure_lm_mode(tc, s, id)
           m == Sampling(g, s)
<1>1. signal' = s /\ video_modes_plm' = video_modes_plm
  BY DEF program_mode
<1>2. id = 0 => cm' = [id |-> cm.id, cc |-> tc] /\ vmode' = None
  BY DEF program_mode
<1>3. id # 0 => cm' = [id |-> id, cc |-> tc] /\ vmode' = [m EXCEPT !.pclk_o = calculate_pclk(m, s)]
  BY DEF program_mode
<1>4. "id" \in DOMAIN g /\ g.id = id
  BY DEF get_pure_lm_mode
<1> HIDE DEF g
<1>5. "id" \in DOMAIN m /\ m.id = id
  BY <1>4 DEF Sampling
<1> HIDE DEF m
<1>6. [m EXCEPT !.pclk_o = calculate_pclk(m, s)].id = id
  BY <1>5
<1>7. id # 0 => vmode'.id = id /\ vmode' # None
  <2>1. ASSUME id # 0 PROVE vmode'.id = id
    BY <1>3, <1>6, <2>1
  <2>2. None.id = 0
    BY DEF None
  <2> HIDE DEF id
  <2> QED BY <2>1, <2>2
<1> QED BY <1>1, <1>2, <1>3, <1>7

\* The main loop keeps the numbers of presets in the table.
LEMMA ModeKeeps == ASSUME CopiesInv, NEW Signals, ModeChange(Signals) PROVE CopiesInv'
<1>1. PICK s \in Signals : program_mode(s, update_cur_vm)
  BY DEF ModeChange
<1>2. cm.id \in 1 .. 43 /\ FoundPreset(tc, s) \in 0 .. 43
  BY FoundTyped DEF CopiesInv
<1>3. cm'.id \in 1 .. 43 /\ video_modes_plm' = video_modes_plm
  BY <1>1, <1>2, Programs
<1>4. vm_sel' \in 1 .. 43 /\ UNCHANGED <<vm_edit, edit, replaced>>
  BY <1>3 DEF ModeChange, CopiesInv
<1> QED BY <1>3, <1>4 DEF CopiesInv

\* vm_tweak with new copies, or with the old ones.
LEMMA TweakKeeps ==
  ASSUME CopiesInv, edit' = [f \in Tweaked |-> edit'[f]], Tweak(edit'), UNCHANGED <<vm_sel, vm_edit, cm, replaced>>
  PROVE  CopiesInv'
<1>1. IsTable(video_modes_plm') /\ Copies(PresetOf(video_modes_plm', vm_edit)) = edit'
  BY TweakWrites
<1> QED BY <1>1 DEF CopiesInv

\* Showing a page keeps the copies those of their preset.
LEMMA RenderKeeps ==
  ASSUME CopiesInv, NEW menu, Render(menu, edit), UNCHANGED <<vm_sel, vm_edit, edit, cm, replaced>>
  PROVE  CopiesInv'
<1>1. CASE menu = "advtiming"
  <2>1. Tweak(edit)
    BY <1>1 DEF Render
  <2>2. Tweak(edit') /\ edit' = [f \in Tweaked |-> edit'[f]]
    BY <2>1 DEF CopiesInv
  <2> QED BY <2>2, TweakKeeps
<1>2. CASE menu # "advtiming"
  BY <1>2 DEF Render, CopiesInv
<1> QED BY <1>1, <1>2

\* A profile, or the default settings, may replace the presets.
LEMMA ReplaceKeeps ==
  ASSUME CopiesInv, NEW settings, NEW table, IsTable(table), Replace(settings, table),
         UNCHANGED <<vm_sel, vm_edit, edit, cm>>
  PROVE  CopiesInv'
BY DEF CopiesInv, Replace

\* The table of the default settings.
LEMMA EmptyTable == IsTable(<<>>)
BY DEF IsTable

\* A step stays in its range.
LEMMA SteppedRange ==
  ASSUME NEW v \in Int, NEW up, NEW min \in Int, NEW max \in Int, NEW wrap, min <= v, v <= max
  PROVE  Stepped(v, up, min, max, wrap) \in min .. max
BY DEF Stepped

\* The phase keys write the preset in use and, if shown, that of the copies.
LEMMA PhaseKeeps == ASSUME CopiesInv, RC_PHASE PROVE CopiesInv'
<1>1. PICK up \in BOOLEAN :
       LET phase == Stepped(Preset(cm.id).sampler_phase, up, 0, 31, TRUE)
           table == Put(video_modes_plm, cm.id, [Preset(cm.id) EXCEPT !.sampler_phase = phase])
           page == menu_active /\ Here.m = "advtiming"
       IN  /\ edit' = Follow(edit, phase)
           /\ video_modes_plm' =
                IF ~ page THEN table
                ELSE LET p == IF vm_edit \in DOMAIN table THEN table[vm_edit] ELSE video_modes_plm_default[vm_edit]
                     IN  Put(table, vm_edit, [f \in DOMAIN p |-> IF f \in Tweaked THEN edit'[f] ELSE p[f]])
  BY DEF RC_PHASE
<1> DEFINE phase == Stepped(Preset(cm.id).sampler_phase, up, 0, 31, TRUE)
           q == [Preset(cm.id) EXCEPT !.sampler_phase = phase]
           table == Put(video_modes_plm, cm.id, q)
           p == PresetOf(table, vm_edit)
           new == [f \in DOMAIN p |-> IF f \in Tweaked THEN edit'[f] ELSE p[f]]
<1>2. edit' = Follow(edit, phase)
      /\ video_modes_plm' = IF ~ (menu_active /\ Here.m = "advtiming") THEN table ELSE Put(table, vm_edit, new)
  BY <1>1 DEF PresetOf, Default
<1>3. UNCHANGED <<vm_sel, vm_edit, replaced, cm>>
  BY DEF RC_PHASE, Untouched
<1>4. /\ vm_sel \in 1 .. 43 /\ vm_edit \in 1 .. 43 /\ cm.id \in 1 .. 43
      /\ IsTable(video_modes_plm) /\ edit = [f \in Tweaked |-> edit[f]]
      /\ ~ replaced => edit = Copies(PresetOf(video_modes_plm, vm_edit))
  BY DEF CopiesInv
<1> HIDE DEF phase
<1>5. DOMAIN q = DOMAIN Default(cm.id) /\ q = [PresetOf(video_modes_plm, cm.id) EXCEPT !.sampler_phase = phase]
  BY <1>4, PresetIn, TableFields
<1>6. Tweaked \subseteq DOMAIN PresetOf(video_modes_plm, vm_edit)
  BY <1>4, TableFields, ShownTweaked, DefaultFields
<1>7. edit' = [f \in Tweaked |-> edit'[f]]
  BY <1>2, <1>4 DEF Follow
<1>8. ~ replaced => edit' = Copies(PresetOf(table, vm_edit))
  <2>1. CASE cm.id = vm_edit
    <3>1. PresetOf(table, vm_edit) = [PresetOf(video_modes_plm, vm_edit) EXCEPT !.sampler_phase = phase]
      BY <1>5, <2>1, PutThere
    <3>2. Copies([PresetOf(video_modes_plm, vm_edit) EXCEPT !.sampler_phase = phase])
            = [Copies(PresetOf(video_modes_plm, vm_edit)) EXCEPT !.sampler_phase = phase]
      BY <1>6 DEF Copies
    <3> QED BY <1>2, <1>4, <2>1, <3>1, <3>2 DEF Follow
  <2>2. CASE cm.id # vm_edit
    <3>1. PresetOf(table, vm_edit) = PresetOf(video_modes_plm, vm_edit)
      BY <2>2, PutElsewhere
    <3> QED BY <1>2, <1>4, <2>2, <3>1 DEF Follow
  <2> QED BY <2>1, <2>2
<1> HIDE DEF q
<1>9. IsTable(table)
  BY <1>4, <1>5, PutTable
<1> HIDE DEF table
<1>10. DOMAIN p = DOMAIN Default(vm_edit) /\ DOMAIN new = DOMAIN p
  BY <1>4, <1>9, TableFields
<1>11. Tweaked \subseteq DOMAIN new
  BY <1>4, <1>10, ShownTweaked, DefaultFields
<1>12. Copies(new) = edit'
  BY <1>7, <1>10, <1>11 DEF Copies
<1> HIDE DEF new
<1>13. CASE menu_active /\ Here.m = "advtiming"
  <2>1. video_modes_plm' = Put(table, vm_edit, new)
    BY <1>2, <1>13
  <2>2. IsTable(video_modes_plm')
    BY <1>4, <1>9, <1>10, <2>1, PutTable
  <2>3. PresetOf(video_modes_plm', vm_edit) = new
    BY <2>1, PutThere
  <2> QED BY <1>3, <1>4, <1>7, <1>12, <2>2, <2>3 DEF CopiesInv
<1>14. CASE ~ (menu_active /\ Here.m = "advtiming")
  BY <1>2, <1>3, <1>4, <1>7, <1>8, <1>9, <1>14 DEF CopiesInv
<1> QED BY <1>13, <1>14

\* Where nothing is entered or left.
LEMMA NaviStays == ASSUME NaviInv, UNCHANGED <<navi, navlvl>> PROVE NaviInv'
BY DEF NaviInv

\* What is here.
LEMMA HereIs ==
  ASSUME NaviInv
  PROVE  /\ navlvl \in 0 .. 2 /\ Here.m \in Level(navlvl) /\ Here.mp \in 0 .. Len(Menus[Here.m]) - 1
         /\ Here = navi[navlvl] /\ HasMenu(Here)
<1>1. navlvl \in 0 .. 2
  BY DEF NaviInv
<1>2. HasMenu(navi[navlvl])
  BY <1>1 DEF NaviInv
<1>3. Fits(navlvl, navi[navlvl])
  BY <1>1 DEF NaviInv
<1> QED BY <1>1, <1>2, <1>3 DEF Here, Fits

\* An item leads to a menu of the next level, or is a field of the page of timings.
LEMMA ItemHere ==
  ASSUME NaviInv
  PROVE  /\ item.type = "sub" => item.menu \in Level(navlvl + 1)
         /\ item.type = "u16" => item.data \in Tweaked
<1>1. /\ navlvl \in 0 .. 2 /\ Here.m \in Level(navlvl) /\ Here.mp \in 0 .. Len(Menus[Here.m]) - 1
      /\ item = Menus[Here.m][Here.mp + 1]
  BY HereIs DEF item
<1>2. Here.m = "advtiming" => item \in Numbers /\ item.data \in Tweaked
  BY <1>1, ItemOf
<1>3. Here.m # "advtiming" => item \in Items(Level(navlvl + 1))
  BY <1>1, ItemOf
<1> QED BY <1>2, <1>3 DEF Items, Selections, Numbers

\* A level is set: a menu of that level with a position in it, and every level up to the current one.
LEMMA NaviSet ==
  ASSUME NaviInv, NEW k \in 0 .. 2, NEW e \in [m : MenuNames, mp : Int], Fits(k, e), HasMenu(e), k <= navlvl + 1,
         navi' = [navi EXCEPT ![k] = e], navlvl' = k
  PROVE  NaviInv'
<1>1. navi' \in [0 .. 2 -> [m : MenuNames, mp : Int]]
  BY DEF NaviInv
<1>2. \A l \in 0 .. 2 : navi'[l] = IF l = k THEN e ELSE navi[l]
  BY DEF NaviInv
<1>3. \A l \in 0 .. 2 : Fits(l, navi'[l])
  BY <1>2 DEF NaviInv
<1>4. \A l \in 0 .. 2 : l <= k => HasMenu(navi'[l])
  <2> TAKE l \in 0 .. 2
  <2> HAVE l <= k
  <2>1. l = k \/ l <= navlvl
    BY DEF NaviInv
  <2> QED BY <1>2, <2>1 DEF NaviInv
<1> QED BY <1>1, <1>3, <1>4 DEF NaviInv

\* Up and down.
LEMMA MoveKeeps == ASSUME NaviInv, CopiesInv, NEW step \in {-1, 1}, Move(step) PROVE NaviInv' /\ CopiesInv'
<1>1. CopiesInv'
  BY RenderKeeps DEF Move, Untouched
<1> DEFINE n == Len(Menus[Here.m])
           mp == (Here.mp + n + step) % n
<1>2. n \in Nat \ {0} /\ navlvl \in 0 .. 2 /\ Here.mp \in 0 .. n - 1 /\ Here = navi[navlvl]
  BY HereIs, PageLength
<1>3. navi' = [navi EXCEPT ![navlvl].mp = mp] /\ navlvl' = navlvl
  BY <1>2 DEF Move
<1> HIDE DEF n
<1>4. mp \in 0 .. n - 1
  BY <1>2
<1> HIDE DEF mp
<1> DEFINE e == [navi[navlvl] EXCEPT !.mp = mp]
<1>5. e \in [m : MenuNames, mp : Int] /\ e.m = Here.m /\ e.mp = mp
  <2>1. navi[navlvl] \in [m : MenuNames, mp : Int]
    BY <1>2 DEF NaviInv
  <2> QED BY <1>2, <1>4, <2>1
<1>6. navi' = [navi EXCEPT ![navlvl] = e]
  BY <1>3
<1>7. Fits(navlvl, e)
  BY <1>4, <1>5, HereIs DEF Fits, n
<1>8. HasMenu(e)
  BY <1>5, HereIs DEF HasMenu
<1> HIDE DEF e
<1>9. NaviInv'
  <2>1. navlvl \in 0 .. 2 /\ navlvl <= navlvl + 1 /\ e \in [m : MenuNames, mp : Int] /\ navlvl' = navlvl
    BY <1>2, <1>3, <1>5
  <2> QED BY <1>6, <1>7, <1>8, <2>1, NaviSet
<1> QED BY <1>1, <1>9

\* The menus of a level are menus.
LEMMA Named == ASSUME NEW l \in 0 .. 2, NEW m \in Level(l) PROVE m \in MenuNames
BY DEF MenuNames

\* A menu is entered: the position there is kept if it was the one last seen at its level.
LEMMA EnterKeeps == ASSUME NaviInv, CopiesInv, Enter PROVE NaviInv' /\ CopiesInv'
<1>1. item.menu \in Level(navlvl + 1) /\ navlvl \in 0 .. 2
  BY ItemHere, HereIs DEF Enter
<1> DEFINE k == navlvl + 1
           e == Entered(navi[k], item.menu)
<1>2. k \in 1 .. 2
  BY <1>1 DEF Level
<1>3. navi' = [navi EXCEPT ![k] = e] /\ navlvl' = k
  BY <1>2 DEF Enter, NaviInv
<1>4. Len(Menus[item.menu]) \in Nat \ {0}
  BY <1>1, <1>2, PageLength
<1>5. item.menu # "" /\ item.menu \in MenuNames
  <2>1. item.menu # ""
    BY <1>1, <1>2 DEF Level, Level1, Level2
  <2>2. navlvl + 1 \in 0 .. 2
    BY <1>2
  <2> QED BY <1>1, <2>1, <2>2, Named
<1>6. e \in [m : MenuNames, mp : Int] /\ Fits(k, e) /\ e.m = item.menu
  <2>1. CASE navi[k].m # item.menu
    <3>1. e = [m |-> item.menu, mp |-> 0]
      BY <2>1 DEF Entered
    <3> HIDE DEF e
    <3>2. e.m = item.menu /\ e.mp = 0 /\ e \in [m : MenuNames, mp : Int]
      <4>1. item.menu \in MenuNames
        BY <1>5
      <4>2. e.m = item.menu /\ e.mp = 0
        BY <3>1
      <4>3. [m |-> item.menu, mp |-> 0] \in [m : MenuNames, mp : Int]
        BY <4>1
      <4> QED BY <3>1, <4>2, <4>3
    <3>3. e.mp \in 0 .. Len(Menus[e.m]) - 1
      <4>1. 0 \in 0 .. Len(Menus[item.menu]) - 1
        BY <1>4
      <4> QED BY <3>2, <4>1
    <3> QED BY <1>1, <3>2, <3>3 DEF Fits
  <2>2. CASE navi[k].m = item.menu
    <3>1. e = navi[k]
      BY <2>2 DEF Entered
    <3>2. k \in 0 .. 2
      BY <1>2
    <3>3. navi[k] \in [m : MenuNames, mp : Int] /\ Fits(k, navi[k])
      BY <3>2 DEF NaviInv
    <3> QED BY <2>2, <3>1, <3>3
  <2> QED BY <2>1, <2>2
<1>8. NaviInv'
  <2>1. HasMenu(e)
    BY <1>5, <1>6 DEF HasMenu
  <2>2. k \in 0 .. 2 /\ k <= navlvl + 1
    BY <1>1, <1>2
  <2> HIDE DEF e
  <2>3. e \in [m : MenuNames, mp : Int] /\ Fits(k, e)
    BY <1>6
  <2> QED BY <1>3, <2>1, <2>2, <2>3, NaviSet
<1>7. CopiesInv'
  <2>1. UNCHANGED <<vm_sel, video_modes_plm, cm>>
    BY DEF Enter, Untouched
  <2>2. CASE item.menu = "advtiming"
    <3>1. vm_edit' = vm_sel /\ edit' = Copies(PresetOf(video_modes_plm, vm_sel))
      BY <2>2, PresetIn DEF Enter
    <3>2. edit' = [f \in Tweaked |-> edit'[f]]
      BY <3>1 DEF Copies
    <3> QED BY <2>1, <3>1, <3>2 DEF CopiesInv
  <2>3. CASE item.menu # "advtiming"
    <3>1. UNCHANGED <<vm_edit, edit>> /\ (replaced' <=> replaced)
      BY <2>3 DEF Enter
    <3> QED BY <2>1, <3>1 DEF CopiesInv
  <2> QED BY <2>2, <2>3
<1> QED BY <1>7, <1>8

\* Nothing that the copies depend on changes.
LEMMA CopiesStay ==
  ASSUME CopiesInv, UNCHANGED <<vm_sel, vm_edit, edit, video_modes_plm, cm, replaced>>
  PROVE  CopiesInv'
BY DEF CopiesInv

\* Only the number chosen changes.
LEMMA SelStays ==
  ASSUME CopiesInv, vm_sel' \in 1 .. 43, UNCHANGED <<vm_edit, edit, video_modes_plm, cm, replaced>>
  PROVE  CopiesInv'
BY DEF CopiesInv

\* Left and right.
LEMMA ValueKeeps == ASSUME NaviInv, CopiesInv, NEW up, Value(up) PROVE NaviInv' /\ CopiesInv'
<1>1. NaviInv'
  BY NaviStays DEF Value
<1>2. UNCHANGED <<vm_edit, replaced, cm>>
  BY DEF Value
<1>3. CASE UNCHANGED <<vm_sel, edit, video_modes_plm>>
  <2>1. UNCHANGED <<vm_sel, vm_edit, edit, video_modes_plm, cm, replaced>>
    BY <1>2, <1>3
  <2> QED BY <1>1, <2>1, CopiesStay
<1>4. CASE /\ item.type = "u16" /\ vm_sel' = vm_sel /\ Tweak(edit')
             /\ edit' = [edit EXCEPT ![item.data] = Stepped(@, up, item.min, item.max, item.min = 0)]
  <2>1. edit' = [f \in Tweaked |-> edit'[f]]
    BY <1>4 DEF CopiesInv
  <2>2. UNCHANGED <<vm_sel, vm_edit, cm, replaced>>
    BY <1>2, <1>4
  <2> QED BY <1>1, <1>4, <2>1, <2>2, TweakKeeps
<1>5. CASE vm_sel' = Stepped(vm_sel, up, 1, VIDEO_MODE_COUNT, FALSE) /\ UNCHANGED <<edit, video_modes_plm>>
  <2>1. vm_sel' \in 1 .. 43
    <3>1. vm_sel \in 1 .. 43
      BY DEF CopiesInv
    <3>2. vm_sel' = Stepped(vm_sel, up, 1, 43, FALSE)
      BY <1>5, Count
    <3>3. vm_sel \in Int /\ 1 <= vm_sel /\ vm_sel <= 43 /\ 1 \in Int /\ 43 \in Int
      BY <3>1
    <3> QED BY <3>2, <3>3, SteppedRange
  <2>2. UNCHANGED <<vm_edit, edit, video_modes_plm, cm, replaced>>
    BY <1>2, <1>5
  <2> QED BY <1>1, <2>1, <2>2, SelStays
<1> QED BY <1>3, <1>4, <1>5 DEF Value

MenuInv == NaviInv /\ CopiesInv

\* A menu is left.
LEMMA BackKeeps == ASSUME NaviInv, CopiesInv, PREV_MENU PROVE NaviInv' /\ CopiesInv'
<1>1. UNCHANGED <<navi, vm_sel, vm_edit, edit, cm, replaced>> /\ navlvl' = IF navlvl > 0 THEN navlvl - 1 ELSE 0
  BY DEF PREV_MENU, Untouched
<1>2. CopiesInv'
  <2>1. UNCHANGED <<vm_sel, vm_edit, edit, cm, replaced>>
    BY <1>1
  <2>2. PICK menu : Render(menu, edit)
    BY DEF PREV_MENU
  <2> QED BY <2>1, <2>2, RenderKeeps
<1>3. navlvl' \in 0 .. 2 /\ navlvl' <= navlvl
  BY <1>1 DEF NaviInv
<1>4. navi' = navi
  BY <1>1
<1>5. NaviInv'
  BY <1>3, <1>4 DEF NaviInv
<1> QED BY <1>2, <1>5

\* A function is called.
LEMMA CallKeeps == ASSUME NaviInv, CopiesInv, CallFunction PROVE NaviInv' /\ CopiesInv'
<1>1. NaviInv'
  BY NaviStays DEF CallFunction
<1>2. UNCHANGED <<vm_sel, vm_edit, edit, cm>>
  BY DEF CallFunction
<1>3. CASE Replace(ProfileSettings, ProfileTable)
  BY <1>1, <1>2, <1>3, TableAssumption, ReplaceKeeps
<1>4. CASE Replace(DefaultSettings, <<>>)
  BY <1>1, <1>2, <1>4, EmptyTable, ReplaceKeeps
<1>5. CASE UNCHANGED <<video_modes_plm, replaced>>
  <2>1. UNCHANGED <<vm_sel, vm_edit, edit, video_modes_plm, cm, replaced>>
    BY <1>2, <1>5
  <2> QED BY <1>1, <2>1, CopiesStay
<1> QED BY <1>3, <1>4, <1>5 DEF CallFunction

\* A profile is loaded by a hot key.
LEMMA LoadKeeps == ASSUME NaviInv, CopiesInv, LoadProfile PROVE NaviInv' /\ CopiesInv'
<1>1. NaviInv'
  BY NaviStays DEF LoadProfile
<1>2. UNCHANGED <<vm_sel, vm_edit, edit, cm>> /\ Replace(ProfileSettings, ProfileTable)
  BY DEF LoadProfile
<1>3. CopiesInv'
  BY <1>2, TableAssumption, ReplaceKeeps
<1> QED BY <1>1, <1>3

\* The menu is shown or hidden.
LEMMA ShowKeeps == ASSUME NaviInv, CopiesInv, RC_MENU PROVE NaviInv' /\ CopiesInv'
<1>1. NaviInv'
  BY NaviStays DEF RC_MENU
<1>2. UNCHANGED <<vm_sel, vm_edit, edit, cm, replaced>>
  BY DEF RC_MENU, Untouched
<1>3. PICK menu : Render(menu, edit)
  BY DEF RC_MENU
<1>4. CopiesInv'
  BY <1>2, <1>3, RenderKeeps
<1> QED BY <1>1, <1>4

\* The invariant holds at first.
LEMMA MenuStarts == ASSUME MenuInit PROVE MenuInv
<1>1. NaviInv
  <2> DEFINE first == [m |-> "main", mp |-> 0]
             none == [m |-> "", mp |-> 0]
  <2>1. navlvl = 0
    BY DEF MenuInit
  <2>2. navi = [l \in 0 .. 2 |-> [m |-> IF l = 0 THEN "main" ELSE "", mp |-> 0]]
    BY DEF MenuInit
  <2>3. \A l \in 0 .. 2 : navi[l] = IF l = 0 THEN first ELSE none
    BY <2>2, Zenon
  <2>4. first.m = "main" /\ first.mp = 0 /\ HasMenu(first) /\ ~ HasMenu(none)
    BY DEF HasMenu
  <2>5. "main" \in Level(0)
    BY DEF Level
  <2>6. first \in [m : MenuNames, mp : Int] /\ none \in [m : MenuNames, mp : Int]
    <3>1. "main" \in MenuNames
      BY <2>5, Named
    <3>2. "" \in MenuNames
      BY Zenon DEF MenuNames
    <3>3. \A m \in MenuNames : [m |-> m, mp |-> 0] \in [m : MenuNames, mp : Int]
      OBVIOUS
    <3> QED BY <3>1, <3>2, <3>3
  <2>7. Fits(0, first)
    <3>1. Len(Menus["main"]) \in Nat \ {0}
      BY <2>5, PageLength
    <3>2. 0 \in 0 .. Len(Menus["main"]) - 1
      BY <3>1
    <3> QED BY <2>4, <2>5, <3>2 DEF Fits
  <2>8. \A l \in 0 .. 2 : Fits(l, none)
    BY <2>4 DEF Fits
  <2> HIDE DEF first, none
  <2>9. \A l \in 0 .. 2 : Fits(l, navi[l])
    BY <2>3, <2>7, <2>8
  <2>10. \A l \in 0 .. 2 : l <= navlvl => HasMenu(navi[l])
    BY <2>1, <2>3, <2>4
  <2>11. DOMAIN navi = 0 .. 2 /\ navi = [l \in 0 .. 2 |-> navi[l]]
    BY <2>2
  <2>12. \A l \in 0 .. 2 : navi[l] \in [m : MenuNames, mp : Int]
    BY <2>3, <2>6
  <2>13. navi \in [0 .. 2 -> [m : MenuNames, mp : Int]]
    BY <2>11, <2>12
  <2>14. navlvl \in 0 .. 2
    BY <2>1
  <2> QED BY <2>9, <2>10, <2>13, <2>14 DEF NaviInv
<1>2. CopiesInv
  <2>1. IsTable(video_modes_plm)
    BY TableAssumption, EmptyTable DEF MenuInit
  <2>2. edit = [f \in Tweaked |-> edit[f]]
    BY DEF MenuInit
  <2>3. vm_sel = 1 /\ vm_edit = 1 /\ cm.id = 1
    BY DEF MenuInit
  <2>4. replaced
    BY DEF MenuInit
  <2> QED BY <2>1, <2>2, <2>3, <2>4 DEF CopiesInv
<1> QED BY <1>1, <1>2 DEF MenuInv

\* Every step keeps it.
LEMMA MenuStep == ASSUME NEW Signals, MenuInv, [MenuNext(Signals)]_menuVars PROVE MenuInv'
<1>1. NaviInv /\ CopiesInv
  BY DEF MenuInv
<1>2. CASE PREV_PAGE \/ NEXT_PAGE
  <2>1. PICK step \in {-1, 1} : Move(step)
    BY <1>2 DEF PREV_PAGE, NEXT_PAGE
  <2> QED BY <1>1, <2>1, MoveKeeps DEF MenuInv
<1>3. CASE PREV_MENU
  BY <1>1, <1>3, BackKeeps DEF MenuInv
<1>4. CASE Enter
  BY <1>1, <1>4, EnterKeeps DEF MenuInv
<1>5. CASE CallFunction
  BY <1>1, <1>5, CallKeeps DEF MenuInv
<1>6. CASE VAL_MINUS \/ VAL_PLUS
  <2>1. PICK up : Value(up)
    BY <1>6 DEF VAL_MINUS, VAL_PLUS
  <2> QED BY <1>1, <2>1, ValueKeeps DEF MenuInv
<1>7. CASE RC_MENU
  BY <1>1, <1>7, ShowKeeps DEF MenuInv
<1>8. CASE RC_PHASE
  <2>1. UNCHANGED <<navi, navlvl>>
    BY <1>8 DEF RC_PHASE
  <2> QED BY <1>1, <1>8, <2>1, PhaseKeeps, NaviStays DEF MenuInv
<1>9. CASE LoadProfile
  BY <1>1, <1>9, LoadKeeps DEF MenuInv
<1>10. CASE ModeChange(Signals)
  <2>1. UNCHANGED <<navi, navlvl>>
    BY <1>10 DEF ModeChange
  <2> QED BY <1>1, <1>10, <2>1, ModeKeeps, NaviStays DEF MenuInv
<1>11. CASE UNCHANGED menuVars
  <2>1. UNCHANGED <<navi, navlvl>> /\ UNCHANGED <<vm_sel, vm_edit, edit, video_modes_plm, cm, replaced>>
    BY <1>11 DEF menuVars, lmVars
  <2> QED BY <1>1, <2>1, CopiesStay, NaviStays DEF MenuInv
<1> QED BY <1>2, <1>3, <1>4, <1>5, <1>6, <1>7, <1>8, <1>9, <1>10, <1>11 DEF MenuNext, MenuKeys, OPT_SELECT

\* It implies the property.
LEMMA MenuShows == MenuInv => ShowsWhatItEdits
<1> SUFFICES ASSUME MenuInv PROVE ShowsWhatItEdits
  OBVIOUS
<1>1. HasMenu(Here) /\ Here.mp < Len(Menus[Here.m])
  <2>1. /\ navlvl \in 0 .. 2 /\ Here.m \in Level(navlvl) /\ Here.mp \in 0 .. Len(Menus[Here.m]) - 1 /\ HasMenu(Here)
    BY HereIs DEF MenuInv
  <2>2. Len(Menus[Here.m]) \in Nat
    BY <2>1, PageLength
  <2> QED BY <2>1, <2>2
<1>2. ~ replaced => edit = Copies(Preset(vm_edit))
  BY PresetIn DEF MenuInv, CopiesInv
<1> QED BY <1>1, <1>2 DEF ShowsWhatItEdits, HasMenu

(* What the menu shows is what a key acts on: whatever the signals, the    *)
(* settings and presets of the profile, and however many keys are pressed, *)
(* there is an item at the position, and the page of timings shows the     *)
(* preset it writes to unless a profile has replaced the presets.          *)
THEOREM MenuShowsWhatItEdits ==
  ASSUME NEW Signals
  PROVE  MenuSpec(Signals) => []ShowsWhatItEdits
<1>1. MenuInit => MenuInv
  BY MenuStarts
<1>2. MenuInv /\ [MenuNext(Signals)]_menuVars => MenuInv'
  BY MenuStep
<1> QED BY <1>1, <1>2, MenuShows, PTL DEF MenuSpec

--------------------------------------------------------------------------------
(* The preset programmed *)

\* What the choice of a preset reads of a table is what the default one has.
Alike(table) == \A i \in 1 .. 43 : \A f \in KeptFields : PresetOf(table, i)[f] = Default(i)[f]

OfferedAsDefault(cc, in, i) ==
  LET p == Default(i)
  IN  /\ ~ Excluded(cc, in, p, i)
      /\ valid_lm(cc, p.group) \cap p.flags # {}
      /\ in.interlaced = p.interlaced

ProgrammedNearest ==
  IF vmode = None
  THEN signal.v_total > 0 => \A i \in 1 .. 43 : Lines(signal, i) < 130 => ~ OfferedAsDefault(cm.cc, signal, i)
  ELSE /\ vmode.id \in 1 .. 43 /\ OfferedAsDefault(cm.cc, signal, vmode.id)
       /\ \A i \in 1 .. 43 : Before(signal, i, vmode.id) => ~ OfferedAsDefault(cm.cc, signal, i)

PresetInv == MenuInv /\ Alike(video_modes_plm) /\ ProgrammedNearest

\* So the choice reads the same of the present table.
LEMMA AlikeKept == ASSUME Alike(video_modes_plm) PROVE TableKept
<1>1. \A i \in 1 .. 43 : \A f \in KeptFields : Preset(i)[f] = Default(i)[f]
  BY PresetIn DEF Alike
<1>2. "name" \in KeptFields /\ "group" \in KeptFields /\ "v_total" \in KeptFields /\ "v_hz_x100" \in KeptFields
      /\ "interlaced" \in KeptFields /\ "flags" \in KeptFields
  BY DEF KeptFields
<1> QED BY <1>1, <1>2, Count DEF TableKept

\* And offers the same presets.
LEMMA OfferedSame ==
  ASSUME TableKept, NEW cc, NEW in, NEW i \in 1 .. 43
  PROVE  Offered(cc, in, i) <=> OfferedAsDefault(cc, in, i)
<1>1. /\ Preset(i).name = Default(i).name /\ Preset(i).group = Default(i).group
      /\ Preset(i).v_total = Default(i).v_total /\ Preset(i).flags = Default(i).flags
      /\ Preset(i).interlaced = Default(i).interlaced
  BY Count DEF TableKept
<1>2. Excluded(cc, in, Preset(i), i) <=> Excluded(cc, in, Default(i), i)
  BY <1>1 DEF Excluded
<1> HIDE DEF Excluded
<1> QED BY <1>1, <1>2 DEF Offered, OfferedAsDefault

\* The page of timings writes none of these fields.
LEMMA KeptUntouched == \A f \in KeptFields : f \notin Tweaked
<1>1. \A f \in KeptFields : f \notin Shown
  BY DEF KeptFields, Shown
<1> QED BY <1>1, ShownTweaked

\* A preset that keeps them may be put.
LEMMA PutAlike ==
  ASSUME NEW table, Alike(table), NEW i \in 1 .. 43, NEW p, \A f \in KeptFields : p[f] = Default(i)[f]
  PROVE  Alike(Put(table, i, p))
<1> SUFFICES ASSUME NEW j \in 1 .. 43, NEW f \in KeptFields PROVE PresetOf(Put(table, i, p), j)[f] = Default(j)[f]
  BY DEF Alike
<1>1. CASE j = i
  BY <1>1, PutThere
<1>2. CASE j # i
  BY <1>2, PutElsewhere DEF Alike
<1> QED BY <1>1, <1>2

\* vm_tweak keeps them,
LEMMA TweakAlike == ASSUME CopiesInv, Alike(video_modes_plm), NEW e, Tweak(e) PROVE Alike(video_modes_plm')
<1> DEFINE old == Preset(vm_edit)
           new == [f \in DOMAIN old |-> IF f \in Tweaked THEN e[f] ELSE old[f]]
<1>1. video_modes_plm' = Put(video_modes_plm, vm_edit, new)
  BY DEF Tweak
<1>2. vm_edit \in 1 .. 43 /\ IsTable(video_modes_plm)
  BY DEF CopiesInv
<1>3. KeptFields \subseteq DOMAIN old
  BY <1>2, PresetIn, TableFields, DefaultFields
<1>4. \A f \in KeptFields : new[f] = Default(vm_edit)[f]
  BY <1>2, <1>3, KeptUntouched, PresetIn DEF Alike
<1> HIDE DEF new
<1> QED BY <1>1, <1>2, <1>4, PutAlike

\* so does showing a page,
LEMMA RenderAlike ==
  ASSUME CopiesInv, Alike(video_modes_plm), NEW menu, NEW e, Render(menu, e)
  PROVE  Alike(video_modes_plm')
<1>1. CASE menu = "advtiming"
  BY <1>1, TweakAlike DEF Render
<1>2. CASE menu # "advtiming"
  BY <1>2 DEF Render
<1> QED BY <1>1, <1>2

\* so do the phase keys,
LEMMA PhaseAlike == ASSUME CopiesInv, Alike(video_modes_plm), RC_PHASE PROVE Alike(video_modes_plm')
<1>1. PICK up \in BOOLEAN :
       LET phase == Stepped(Preset(cm.id).sampler_phase, up, 0, 31, TRUE)
           table == Put(video_modes_plm, cm.id, [Preset(cm.id) EXCEPT !.sampler_phase = phase])
           page == menu_active /\ Here.m = "advtiming"
       IN  video_modes_plm' =
             IF ~ page THEN table
             ELSE LET p == IF vm_edit \in DOMAIN table THEN table[vm_edit] ELSE video_modes_plm_default[vm_edit]
                  IN  Put(table, vm_edit, [f \in DOMAIN p |-> IF f \in Tweaked THEN edit'[f] ELSE p[f]])
  BY DEF RC_PHASE
<1> DEFINE phase == Stepped(Preset(cm.id).sampler_phase, up, 0, 31, TRUE)
           q == [Preset(cm.id) EXCEPT !.sampler_phase = phase]
           table == Put(video_modes_plm, cm.id, q)
           p == PresetOf(table, vm_edit)
           new == [f \in DOMAIN p |-> IF f \in Tweaked THEN edit'[f] ELSE p[f]]
<1>2. video_modes_plm' = table \/ video_modes_plm' = Put(table, vm_edit, new)
  BY <1>1 DEF PresetOf, Default
<1>3. vm_edit \in 1 .. 43 /\ cm.id \in 1 .. 43 /\ IsTable(video_modes_plm)
  BY DEF CopiesInv
<1> HIDE DEF phase
<1>4. DOMAIN q = DOMAIN Default(cm.id)
  BY <1>3, PresetIn, TableFields
<1>5. \A f \in KeptFields : q[f] = Default(cm.id)[f]
  <2> TAKE f \in KeptFields
  <2>1. f # "sampler_phase" /\ f \in DOMAIN Preset(cm.id)
    <3>1. f # "sampler_phase"
      BY DEF KeptFields
    <3> QED BY <1>3, <3>1, PresetIn, TableFields, DefaultFields
  <2>2. q[f] = Preset(cm.id)[f]
    BY <2>1
  <2> QED BY <1>3, <2>2, PresetIn DEF Alike
<1> HIDE DEF q
<1>6. Alike(table) /\ IsTable(table)
  BY <1>3, <1>4, <1>5, PutAlike, PutTable
<1> HIDE DEF table
<1>7. KeptFields \subseteq DOMAIN p
  BY <1>3, <1>6, TableFields, DefaultFields
<1>8. \A f \in KeptFields : new[f] = Default(vm_edit)[f]
  BY <1>3, <1>6, <1>7, KeptUntouched DEF Alike
<1> HIDE DEF new
<1>9. Alike(Put(table, vm_edit, new))
  BY <1>3, <1>6, <1>8, PutAlike
<1> QED BY <1>2, <1>6, <1>9

\* and so do the default settings.
LEMMA EmptyAlike == Alike(<<>>)
BY DEF Alike, PresetOf

KeepsMode == UNCHANGED <<signal, cm, vmode>>

\* What the keys do to the table.
LEMMA KeysAlike ==
  ASSUME CopiesInv, Alike(video_modes_plm), Alike(ProfileTable), MenuKeys
  PROVE  Alike(video_modes_plm')
<1>1. CASE PREV_PAGE \/ NEXT_PAGE \/ PREV_MENU \/ RC_MENU
  <2>1. PICK menu : Render(menu, edit)
    BY <1>1 DEF PREV_PAGE, NEXT_PAGE, Move, PREV_MENU, RC_MENU
  <2> QED BY <2>1, RenderAlike
<1>2. CASE Enter
  BY <1>2 DEF Enter
<1>3. CASE CallFunction
  BY <1>3, EmptyAlike DEF CallFunction, Replace
<1>4. CASE VAL_MINUS \/ VAL_PLUS
  <2>1. PICK up : Value(up)
    BY <1>4 DEF VAL_MINUS, VAL_PLUS
  <2>2. Tweak(edit') \/ video_modes_plm' = video_modes_plm
    BY <2>1 DEF Value
  <2> QED BY <2>2, TweakAlike
<1>5. CASE RC_PHASE
  BY <1>5, PhaseAlike
<1>6. CASE LoadProfile
  BY <1>6 DEF LoadProfile, Replace
<1> QED BY <1>1, <1>2, <1>3, <1>4, <1>5, <1>6 DEF MenuKeys, OPT_SELECT

\* No key programs a mode by itself.
LEMMA KeysKeepMode == ASSUME MenuKeys PROVE KeepsMode
<1>1. CASE PREV_PAGE \/ NEXT_PAGE
  BY <1>1 DEF PREV_PAGE, NEXT_PAGE, Move, Untouched, KeepsMode
<1>2. CASE PREV_MENU
  BY <1>2 DEF PREV_MENU, Untouched, KeepsMode
<1>3. CASE Enter
  BY <1>3 DEF Enter, Untouched, KeepsMode
<1>4. CASE CallFunction
  BY <1>4 DEF CallFunction, KeepsMode
<1>5. CASE VAL_MINUS \/ VAL_PLUS
  BY <1>5 DEF VAL_MINUS, VAL_PLUS, Value, KeepsMode
<1>6. CASE RC_MENU
  BY <1>6 DEF RC_MENU, Untouched, KeepsMode
<1>7. CASE RC_PHASE
  BY <1>7 DEF RC_PHASE, Untouched, KeepsMode
<1>8. CASE LoadProfile
  BY <1>8 DEF LoadProfile, KeepsMode
<1> QED BY <1>1, <1>2, <1>3, <1>4, <1>5, <1>6, <1>7, <1>8 DEF MenuKeys, OPT_SELECT

\* The mode stays that of the same signal and settings.
LEMMA KeepsNearest == ASSUME ProgrammedNearest, KeepsMode PROVE ProgrammedNearest'
BY DEF ProgrammedNearest, KeepsMode

\* What the main loop programs is the nearest preset.
LEMMA ProgramsNearest ==
  ASSUME CopiesInv, Alike(video_modes_plm), NEW s, s.v_total \in Int, s.v_hz_x100 \in Int,
         NEW again, program_mode(s, again)
  PROVE  ProgrammedNearest'
<1> DEFINE id == FoundPreset(tc, s)
<1>1. TableKept
  BY AlikeKept
<1>2. IF id = 0 THEN \A i \in 1 .. 43 : Lines(s, i) < 130 => ~ Offered(tc, s, i)
      ELSE /\ id \in 1 .. 43 /\ Offered(tc, s, id)
           /\ \A i \in 1 .. 43 : Before(s, i, id) => ~ Offered(tc, s, i)
  BY <1>1, SearchFinds
<1>3. \A i \in 1 .. 43 : Offered(tc, s, i) <=> OfferedAsDefault(tc, s, i)
  BY <1>1, OfferedSame
<1>4. cm.id \in 1 .. 43
  BY DEF CopiesInv
<1>5. signal' = s /\ cm'.cc = tc
  BY <1>4, Programs
<1>6. id = 0 => vmode' = None
  BY <1>4, Programs
<1>7. id # 0 => vmode' # None /\ vmode'.id = id
  BY <1>4, Programs
<1> HIDE DEF id
<1>8. CASE id = 0
  <2>1. \A i \in 1 .. 43 : Lines(s, i) < 130 => ~ OfferedAsDefault(tc, s, i)
    BY <1>2, <1>3, <1>8
  <2> QED BY <1>5, <1>6, <1>8, <2>1 DEF ProgrammedNearest
<1>9. CASE id # 0
  <2>1. id \in 1 .. 43 /\ OfferedAsDefault(tc, s, id)
    BY <1>2, <1>3, <1>9
  <2>2. \A i \in 1 .. 43 : Before(s, i, id) => ~ OfferedAsDefault(tc, s, i)
    BY <1>2, <1>3, <1>9
  <2> QED BY <1>5, <1>7, <1>9, <2>1, <2>2 DEF ProgrammedNearest
<1> QED BY <1>8, <1>9

\* The invariant holds at first.
LEMMA PresetsStart == ASSUME Alike(ProfileTable), MenuInit PROVE PresetInv
<1>1. Alike(video_modes_plm)
  BY EmptyAlike DEF MenuInit
<1>2. ProgrammedNearest
  <2>1. vmode = None /\ signal.v_total = 0
    BY DEF MenuInit
  <2> QED BY <2>1 DEF ProgrammedNearest
<1> QED BY <1>1, <1>2, MenuStarts DEF PresetInv

\* Every step keeps it.
LEMMA PresetsStep ==
  ASSUME NEW Signals, \A s \in Signals : s.v_total \in Int /\ s.v_hz_x100 \in Int, Alike(ProfileTable),
         PresetInv, [MenuNext(Signals)]_menuVars
  PROVE  PresetInv'
<1>1. MenuInv /\ CopiesInv /\ Alike(video_modes_plm) /\ ProgrammedNearest
  BY DEF PresetInv, MenuInv
<1>2. MenuInv'
  BY <1>1, MenuStep
<1>3. CASE MenuKeys
  BY <1>1, <1>2, <1>3, KeysAlike, KeysKeepMode, KeepsNearest DEF PresetInv
<1>4. CASE ModeChange(Signals)
  <2>1. PICK s \in Signals : program_mode(s, update_cur_vm)
    BY <1>4 DEF ModeChange
  <2>2. s.v_total \in Int /\ s.v_hz_x100 \in Int
    OBVIOUS
  <2>3. video_modes_plm' = video_modes_plm
    BY <2>1 DEF program_mode
  <2>4. ProgrammedNearest'
    BY <1>1, <2>1, <2>2, ProgramsNearest
  <2> QED BY <1>1, <1>2, <2>3, <2>4 DEF PresetInv
<1>5. CASE UNCHANGED menuVars
  <2>1. KeepsMode /\ video_modes_plm' = video_modes_plm
    BY <1>5 DEF menuVars, lmVars, KeepsMode
  <2> QED BY <1>1, <1>2, <2>1, KeepsNearest DEF PresetInv
<1> QED BY <1>3, <1>4, <1>5 DEF MenuNext

\* It implies the property.
LEMMA PresetsNearest == PresetInv => NearestPreset
<1> SUFFICES ASSUME PresetInv PROVE NearestPreset
  OBVIOUS
<1>1. TableKept /\ ProgrammedNearest
  BY AlikeKept DEF PresetInv
<1>2. \A i \in 1 .. 43 : Offered(cm.cc, signal, i) <=> OfferedAsDefault(cm.cc, signal, i)
  BY <1>1, OfferedSame
<1>3. \A i \in 1 .. 43 : /\ Apart(signal.v_total, Preset(i).v_total) = Lines(signal, i)
                         /\ Apart(signal.v_hz_x100, Preset(i).v_hz_x100) = Rate(signal, i)
                         /\ Preset(i).group = Default(i).group
  BY <1>1, Count DEF TableKept, Lines, Rate
<1>4. CASE vmode = None
  BY <1>1, <1>2, <1>3, <1>4, Count DEF ProgrammedNearest, NearestPreset
<1>5. CASE vmode # None
  <2>1. vmode.id \in 1 .. 43 /\ Offered(cm.cc, signal, vmode.id)
    BY <1>1, <1>2, <1>5 DEF ProgrammedNearest
  <2>2. \A i \in 1 .. 43 : Before(signal, i, vmode.id) => ~ Offered(cm.cc, signal, i)
    BY <1>1, <1>2, <1>5 DEF ProgrammedNearest
  <2> QED BY <1>3, <1>5, <2>1, <2>2, Count DEF NearestPreset, Before, Nearer, ByRate
<1> QED BY <1>4, <1>5

(* The preset programmed is the nearest that the settings allow: for any   *)
(* settings and signals of whole numbers, whatever timings are edited on   *)
(* the way, if the presets of the profile have the lines, rates, groups    *)
(* and flags of the default ones, which the menu cannot change.            *)
THEOREM MenuProgramsNearestPreset ==
  ASSUME NEW Signals, \A s \in Signals : s.v_total \in Int /\ s.v_hz_x100 \in Int, Alike(ProfileTable)
  PROVE  MenuSpec(Signals) => []NearestPreset
<1>1. MenuInit => PresetInv
  BY PresetsStart
<1>2. PresetInv /\ [MenuNext(Signals)]_menuVars => PresetInv'
  BY PresetsStep
<1> QED BY <1>1, <1>2, PresetsNearest, PTL DEF MenuSpec

--------------------------------------------------------------------------------
(* How lines are multiplied *)

\* What the multiplication of a signal or preset reads and writes.
Timings == {"h_total", "h_total_adj", "v_total", "v_hz_x100", "interlaced", "h_synclen", "v_synclen",
            "h_backporch", "v_backporch", "h_active", "v_active"}
Timed(t) ==
  /\ Timings \subseteq DOMAIN t
  /\ t.h_total \in Int /\ t.h_total_adj = 0 /\ t.v_total \in Int /\ t.interlaced \in {0, 1}

\* vmode_hv_mult multiplies line and frame; a bobbed field counts as half a frame.
LEMMA Multiplied ==
  ASSUME NEW t, Timed(t), NEW h \in Int, NEW v \in Int
  PROVE  LET r == vmode_hv_mult(t, h, v)
             bob == t.interlaced = 1 /\ v % 2 = 0
         IN  /\ DOMAIN r = DOMAIN t
             /\ r.h_total = h * t.h_total /\ r.h_total_adj = 0 /\ r.v_hz_x100 = t.v_hz_x100
             /\ r.v_total = IF bob THEN t.v_total * (v \div 2) ELSE t.v_total * v
             /\ r.interlaced = IF bob THEN 0 ELSE t.interlaced
<1> DEFINE bob == t.interlaced = 1 /\ v % 2 = 0
           r == vmode_hv_mult(t, h, v)
<1>1. DOMAIN r = DOMAIN t
  <2> DEFINE a == Capped(t.h_synclen * h, 255)
             b == Capped(t.h_backporch * h + t.h_synclen * h - a, 511)
             c == Capped(t.h_active * h, 2560)
             d == h * t.h_total + (h * t.h_total_adj * 5 + 50) \div 100
             e == Capped(t.v_synclen * v, 15)
             f == Capped(t.v_backporch * v + t.v_synclen * v - e, 511)
             g == Capped(t.v_active * v, 1728)
             k == IF bob THEN t.v_total * (v \div 2) ELSE t.v_total * v
             n == IF bob THEN 0 ELSE t.interlaced
             q == [t EXCEPT !.h_synclen = a, !.h_backporch = b, !.h_active = c, !.h_total = d, !.v_synclen = e,
                            !.v_backporch = f, !.v_active = g, !.v_total = k, !.interlaced = n]
  <2>1. r = q
    BY Zenon DEF vmode_hv_mult
  <2>2. DOMAIN q = DOMAIN t
    <3> HIDE DEF a, b, c, d, e, f, g, k, n
    <3> QED OBVIOUS
  <2> HIDE DEF q, r
  <2> QED BY <2>1, <2>2
<1>2. r.h_total = h * t.h_total + (h * t.h_total_adj * 5 + 50) \div 100
  BY DEF vmode_hv_mult, Timed, Timings
<1>3. r.h_total_adj = 0 /\ r.v_hz_x100 = t.v_hz_x100
  BY DEF vmode_hv_mult, Timed, Timings
<1>4. r.v_total = IF bob THEN t.v_total * (v \div 2) ELSE t.v_total * v
  BY DEF vmode_hv_mult, Timed, Timings
<1>5. r.interlaced = IF bob THEN 0 ELSE t.interlaced
  BY DEF vmode_hv_mult, Timed, Timings
<1>6. h * t.h_total + (h * t.h_total_adj * 5 + 50) \div 100 = h * t.h_total
  <2>1. t.h_total_adj = 0 /\ t.h_total \in Int
    BY DEF Timed
  <2>2. h * 0 * 5 + 50 = 50 /\ 50 \div 100 = 0
    OBVIOUS
  <2> QED BY <2>1, <2>2
<1> HIDE DEF r, bob
<1>7. r.h_total = h * t.h_total
  BY <1>2, <1>6
<1> QED BY <1>1, <1>3, <1>4, <1>5, <1>7 DEF r, bob

\* The ways to put out a line.
Kinds == {"2x", "240x360", "16_9", "4_3", "512", "384", "320", "256"}
Flags == {PT} \cup ((2 .. 6) \X Kinds)

\* The table knows no others.
LEMMA FlagsKnown == \A i \in 1 .. 43 : Default(i).flags \subseteq Flags
BY SMTT(60) DEF video_modes_plm_default, P, Default, Flags, Kinds, PT, L2, L2_240x360, L3_GEN_16_9, L3_GEN_4_3, L3_240x360,
   L4_GEN_4_3, L5_GEN_4_3, L6_GEN_4_3, Columns

\* How often columns are skipped.
LEMMA SkippedTyped ==
  ASSUME NEW lm \in Flags
  PROVE  Skipped(lm) \in 0 .. 5 /\ (lm[2] \in {"2x", "16_9", "4_3"} => Skipped(lm) = 0)
BY DEF Flags, Kinds, Skipped, PT, L2_240x360, L3_240x360

LEMMA PowersOfTwo == 2^0 = 1 /\ 2^1 = 2 /\ 2^2 = 4 /\ 2^3 = 8 /\ 2^4 = 16 /\ 2^5 = 32
OBVIOUS

\* What multiplication leaves for sampling to double.
ForSampling == {"h_skip", "in", "si_pclk_mult", "pll_h_total", "picture", "lm"}

\* program_mode doubles the sampling clock as long as it can halve the multiplication: the
\* output's clock stays.
LEMMA SamplingKeeps ==
  ASSUME NEW g, NEW s, ForSampling \subseteq DOMAIN g, g.h_skip \in Int, g.in.h_total \in Int, g.in.h_total_adj = 0,
         g.si_pclk_mult \in 1 .. 8
  PROVE  LET m == Sampling(g, s)
         IN  /\ m.in = g.in /\ m.picture = g.picture /\ m.lm = g.lm /\ DOMAIN m = DOMAIN g
             /\ m.pll_h_total * m.si_pclk_mult = (g.h_skip + 1) * g.in.h_total * g.si_pclk_mult
<1> DEFINE once == (g.h_skip + 1) * g.in.h_total + ((g.h_skip + 1) * g.in.h_total_adj * 5 + 50) \div 100
           x == g.si_pclk_mult
           More(k) == h_hz(s) * once * 2^k < 25000000 /\ (x \div 2^k) % 2 = 0
           First(k) == ~ More(k) /\ \A j \in 0 .. k - 1 : More(j)
           k == CHOOSE n \in 0 .. 4 : First(n)
           a == (g.h_skip + 1) * 2^k - 1
           b == x \div 2^k
           c == once * 2^k
           q == [g EXCEPT !.h_skip = a, !.si_pclk_mult = b, !.pll_h_total = c]
<1>1. Sampling(g, s) = q
  BY SMT DEF Sampling
<1>2. /\ q.in = g.in /\ q.picture = g.picture /\ q.lm = g.lm /\ DOMAIN q = DOMAIN g
      /\ q.si_pclk_mult = b /\ q.pll_h_total = c
  <2> HIDE DEF a, b, c
  <2> QED BY SMT DEF ForSampling
<1>3. once = (g.h_skip + 1) * g.in.h_total
  <2>1. (g.h_skip + 1) * 0 * 5 + 50 = 50 /\ 50 \div 100 = 0
    BY SMT
  <2>2. (g.h_skip + 1) * g.in.h_total_adj * 5 + 50 = 50
    BY <2>1, SMT
  <2> QED BY <2>1, <2>2, SMT
<1> DEFINE even(n) == (x \div 2^n) % 2 = 0
<1>4. \A n \in 0 .. 4 : More(n) => even(n)
  BY SMT
<1>5. x \in 1 .. 8 /\ (even(0) /\ even(1) /\ even(2) => ~ even(3))
  <2>1. 2^0 = 1 /\ 2^1 = 2 /\ 2^2 = 4 /\ 2^3 = 8
    BY PowersOfTwo
  <2> HIDE DEF x
  <2> QED BY <2>1, SMT DEF x
<1> HIDE DEF even, x, once, More
<1>6. \E n \in 0 .. 4 : First(n)
  <2>1. ~ (More(0) /\ More(1) /\ More(2) /\ More(3))
    BY <1>4, <1>5, SMT
  <2>2. CASE ~ More(0)
    BY <2>2, SMT
  <2>3. CASE More(0) /\ ~ More(1)
    BY <2>3, SMT
  <2>4. CASE More(0) /\ More(1) /\ ~ More(2)
    BY <2>4, SMT
  <2>5. CASE More(0) /\ More(1) /\ More(2) /\ ~ More(3)
    BY <2>5, SMT
  <2> QED BY <2>1, <2>2, <2>3, <2>4, <2>5, Zenon
<1>7. k \in 0 .. 4 /\ First(k)
  <2> HIDE DEF First
  <2> QED BY <1>6, Zenon
<1> HIDE DEF k
<1>8. \A j \in 0 .. k - 1 : even(j)
  <2> QED BY <1>4, <1>7, SMT
<1>9. (x \div 2^k) * 2^k = x /\ 2^k \in Int /\ x \div 2^k \in Int
  <2> USE PowersOfTwo
  <2>1. CASE k = 0
    BY <1>5, <2>1, SMT
  <2>2. CASE k = 1
    <3>1. even(0)
      BY <1>8, <2>2, SMT
    <3> QED BY <1>5, <2>2, <3>1, SMT DEF even
  <2>3. CASE k = 2
    <3>1. even(0) /\ even(1)
      BY <1>8, <2>3, SMT
    <3> QED BY <1>5, <2>3, <3>1, SMT DEF even
  <2>4. CASE k = 3
    <3>1. even(0) /\ even(1) /\ even(2)
      BY <1>8, <2>4, SMT
    <3> QED BY <1>5, <2>4, <3>1, SMT DEF even
  <2>5. CASE k = 4
    <3>1. even(0) /\ even(1) /\ even(2) /\ even(3)
      BY <1>8, <2>5, SMT
    <3> QED BY <1>5, <3>1, SMT
  <2> QED BY <1>7, <2>1, <2>2, <2>3, <2>4, <2>5, SMT
<1>10. c * b = once * x
  <2>1. once \in Int
    BY <1>3, SMT
  <2> DEFINE t == 2^k
             y == x \div 2^k
  <2>2. y * t = x /\ t \in Int /\ y \in Int
    BY <1>9, Zenon
  <2>3. c = once * t /\ b = y
    BY Zenon
  <2> HIDE DEF t, y, c, b
  <2> QED BY <2>1, <2>2, <2>3, SMT
<1> HIDE DEF q, b, c
<1>11. q.pll_h_total * q.si_pclk_mult = (g.h_skip + 1) * g.in.h_total * g.si_pclk_mult
  BY <1>2, <1>3, <1>10, Zenon DEF x
<1> QED BY <1>1, <1>2, <1>11, Zenon

--------------------------------------------------------------------------------
(* What passes through *)

\* At least 8000 lines in a second.
Lively(t) == (t.v_hz_x100 * t.v_total) \div 100 >= 8000

\* A frame has one field or two.
LEMMA FieldsOfFrame == ASSUME NEW i \in {0, 1} PROVE 2^i \in {1, 2}
<1>1. CASE i = 0
  <2>1. 2^i = 1
    BY <1>1, PowersOfTwo, Zenon
  <2> QED BY <2>1
<1>2. CASE i = 1
  <2>1. 2^i = 2
    BY <1>2, PowersOfTwo, Zenon
  <2> QED BY <2>1
<1> QED BY <1>1, <1>2

\* A product of large factors is large.
LEMMA LargeProduct ==
  ASSUME NEW r \in Int, NEW h \in Int, NEW f \in Int, r >= 8000, h >= 300, f >= 1
  PROVE  r * h * f >= 2400000
<1>1. r * h >= 2400000
  <2>1. (r - 8000) * (h - 300) >= 0
    BY SMT
  <2>2. r * h = (r - 8000) * (h - 300) + 300 * r + 8000 * h - 2400000
    BY SMT
  <2> QED BY <2>1, <2>2, SMT
<1>2. \A p \in Int : p >= 2400000 => p * f >= 2400000
  <2> TAKE p \in Int
  <2> HAVE p >= 2400000
  <2>1. p * (f - 1) >= 0
    BY SMT
  <2>2. p * f = p * (f - 1) + p
    BY SMT
  <2> QED BY <2>1, <2>2, SMT
<1>3. r * h \in Int
  OBVIOUS
<1> QED BY <1>1, <1>2, <1>3, SMT

\* How often pixels of consoles are repeated, and the clock if all are repeated that often and doubled k times.
Repeated(cc, p) == IF cc.pt_mode >= 2 /\ p.group \in {"240P", "288P"} THEN cc.pt_mode ELSE 0
ClockOf(cc, p, t, k) ==
  (((t.v_hz_x100 * t.v_total) \div 100) * t.h_total * (Repeated(cc, p) + 1) * 2^k) \div 2^t.interlaced

RepeatsSo(cc, p, t, k) == PassedThrough(cc, p, t) = (Repeated(cc, p) + 1) * 2^k - 1
SlowBefore(cc, p, t, k) == k > 0 => ClockOf(cc, p, t, k - 1) < 25000000
ShortLine(cc, p, t, k) == k > 0 => t.h_total * (Repeated(cc, p) + 1) * 2^k <= 3333

\* What passes through is repeated until it is fast enough, and no more.
LEMMA PassedThroughIs ==
  ASSUME NEW cc, NEW p, NEW t, Timed(t), t.v_hz_x100 \in Nat, Lively(t),
         t.h_total >= 300, cc.pt_mode \in Nat
  PROVE  \E k \in 0 .. 5 : RepeatsSo(cc, p, t, k) /\ SlowBefore(cc, p, t, k)
<1> DEFINE first == Repeated(cc, p)
           rate == (t.v_hz_x100 * t.v_total) \div 100
           z == rate * t.h_total * (first + 1)
           w == 2^t.interlaced
           Pixels(k) == (z * 2^k) \div w
           Fast(k) == Pixels(k) >= 25000000
           Slow(k) == Pixels(k) < 25000000
           Enough(k) == Fast(k) /\ (k > 0 => Slow(k - 1))
           k == CHOOSE n \in 0 .. 5 : Enough(n)
           Clocks(n) == ClockOf(cc, p, t, n)
<1>1. PassedThrough(cc, p, t) = (first + 1) * 2^k - 1
  BY SMT DEF PassedThrough, Repeated
<1>2. first \in Nat
  BY SMT DEF Repeated
<1>3. rate \in Int /\ t.h_total \in Int /\ t.interlaced \in {0, 1}
  BY SMT DEF Timed
<1>4. z \in Int /\ z >= 2400000
  <2> HIDE DEF first, rate
  <2>1. rate >= 8000
    BY SMT DEF rate, Lively
  <2> QED BY <1>2, <1>3, <2>1, LargeProduct, SMT
<1>same. \A n : Pixels(n) = Clocks(n)
  BY DEF ClockOf
<1> HIDE DEF z, Clocks
<1>5. w \in {1, 2}
  BY <1>3, FieldsOfFrame, Zenon
<1>typed. \A n \in 0 .. 5 : Pixels(n) \in Int
  <2> HIDE DEF w
  <2> TAKE n \in 0 .. 5
  <2> DEFINE y == z * 2^n
  <2>1. y \in Int
    <3>1. 2^n \in Int
      BY SMT
    <3> QED BY <1>4, <3>1, SMT
  <2> HIDE DEF y
  <2>2. y \div w \in Int
    BY <1>5, <2>1, SMT
  <2> QED BY <2>2, SMT DEF y
<1>7. Pixels(5) >= 25000000
  <2> HIDE DEF w
  <2>1. Pixels(5) = (z * 32) \div w
    BY PowersOfTwo, SMT
  <2>2. (z * 32) \div 1 >= 25000000 /\ (z * 32) \div 2 >= 25000000
    BY <1>4, SMT
  <2> HIDE DEF Pixels
  <2> QED BY <1>5, <2>1, <2>2, SMT
<1>6. \A n \in 0 .. 5 : Fast(n) \/ Slow(n)
  <2> HIDE DEF Pixels
  <2> QED BY <1>typed, SMT
<1>fast. Fast(5)
  BY <1>7, SMT
<1> HIDE DEF Fast, Slow, first
<1>8. \E n \in 0 .. 5 : Enough(n)
  <2>1. CASE Fast(0)
    BY <2>1, SMT
  <2>2. CASE Slow(0) /\ Fast(1)
    BY <2>2, SMT
  <2>3. CASE Slow(1) /\ Fast(2)
    BY <2>3, SMT
  <2>4. CASE Slow(2) /\ Fast(3)
    BY <2>4, SMT
  <2>5. CASE Slow(3) /\ Fast(4)
    BY <2>5, SMT
  <2>6. CASE Slow(4)
    BY <1>fast, <2>6, SMT
  <2> QED BY <1>6, <2>1, <2>2, <2>3, <2>4, <2>5, <2>6, SMT
<1>9. k \in 0 .. 5 /\ Enough(k)
  <2> HIDE DEF Enough
  <2> QED BY <1>8, Zenon
<1> HIDE DEF k, Pixels
<1>10. k > 0 => Clocks(k - 1) < 25000000
  <2> HIDE DEF Clocks, Slow
  <2>1. k > 0 => Slow(k - 1)
    BY <1>9, Zenon
  <2> QED BY <1>same, <2>1, SMT DEF Slow
<1>11. SlowBefore(cc, p, t, k)
  BY <1>10, SMT DEF Clocks, SlowBefore
<1>12. RepeatsSo(cc, p, t, k)
  BY <1>1, SMT DEF RepeatsSo, first
<1>13. k \in 0 .. 5
  BY <1>9, Zenon
<1> QED BY <1>11, <1>12, <1>13, Zenon

\* So it is repeated a number of times.
LEMMA PassedThroughTyped ==
  ASSUME NEW cc, NEW p, NEW t, Timed(t), t.v_hz_x100 \in Nat, Lively(t),
         t.h_total >= 300, cc.pt_mode \in Nat
  PROVE  PassedThrough(cc, p, t) \in Nat
<1>1. PICK k \in 0 .. 5 : RepeatsSo(cc, p, t, k)
  BY PassedThroughIs
<1> DEFINE first == Repeated(cc, p)
           b == 2^k
<1>2. first \in Nat
  BY SMT DEF Repeated
<1>3. b \in Nat /\ b >= 1
  <2>1. k \in {0, 1, 2, 3, 4, 5}
    BY SMT
  <2>2. b \in {1, 2, 4, 8, 16, 32}
    BY <2>1, PowersOfTwo, Zenon
  <2> HIDE DEF b
  <2> QED BY <2>2, SMT
<1>4. PassedThrough(cc, p, t) = (first + 1) * b - 1
  BY <1>1, SMT DEF RepeatsSo
<1> HIDE DEF first, b
<1>5. first * b \in Nat /\ (first + 1) * b = first * b + b
  BY <1>2, <1>3, SMT
<1> QED BY <1>3, <1>4, <1>5, SMT

\* At least 15000 lines in a second.
Swift(t) == (t.v_hz_x100 * t.v_total) \div 100 >= 15000 * (1 + t.interlaced)

\* Where it is, a line that is repeated more than asked for is short.
LEMMA RepeatedShort ==
  ASSUME NEW cc, NEW p, NEW t, Timed(t), t.v_hz_x100 \in Nat, Lively(t), Swift(t),
         t.h_total >= 300, cc.pt_mode \in Nat
  PROVE  \E k \in 0 .. 5 : RepeatsSo(cc, p, t, k) /\ ShortLine(cc, p, t, k)
<1>1. PICK k \in 0 .. 5 : RepeatsSo(cc, p, t, k) /\ SlowBefore(cc, p, t, k)
  BY PassedThroughIs
<1> DEFINE first == Repeated(cc, p)
           rate == (t.v_hz_x100 * t.v_total) \div 100
           h == t.h_total
           w == 2^t.interlaced
<1>2. first \in Nat /\ rate \in Int /\ h \in Nat
  BY SMT DEF Repeated, Timed
<1>3. w \in {1, 2} /\ rate >= 15000 * w
  <2>1. CASE t.interlaced = 0
    <3>1. w = 1
      BY <2>1, PowersOfTwo, Zenon
    <3> HIDE DEF w
    <3> QED BY <2>1, <3>1, SMT DEF Swift
  <2>2. CASE t.interlaced = 1
    <3>1. w = 2
      BY <2>2, PowersOfTwo, Zenon
    <3> HIDE DEF w
    <3> QED BY <2>2, <3>1, SMT DEF Swift
  <2> QED BY <2>1, <2>2 DEF Timed
<1>4. ASSUME k > 0 PROVE h * (first + 1) * 2^k <= 3333
  <2> DEFINE b == 2^(k - 1)
  <2>1. b \in Nat /\ 2^k = 2 * b
    <3>1. k \in {1, 2, 3, 4, 5}
      BY <1>4, SMT
    <3>2. CASE k = 1
      <4>1. k - 1 = 0
        BY <3>2, SMT
      <4> QED BY <3>2, <4>1, PowersOfTwo
    <3>3. CASE k = 2
      <4>1. k - 1 = 1
        BY <3>3, SMT
      <4> QED BY <3>3, <4>1, PowersOfTwo
    <3>4. CASE k = 3
      <4>1. k - 1 = 2
        BY <3>4, SMT
      <4> QED BY <3>4, <4>1, PowersOfTwo
    <3>5. CASE k = 4
      <4>1. k - 1 = 3
        BY <3>5, SMT
      <4> QED BY <3>5, <4>1, PowersOfTwo
    <3>6. CASE k = 5
      <4>1. k - 1 = 4
        BY <3>6, SMT
      <4> QED BY <3>6, <4>1, PowersOfTwo
    <3> QED BY <3>1, <3>2, <3>3, <3>4, <3>5, <3>6
  <2>2. (rate * h * (first + 1) * b) \div w < 25000000
    <3>1. ClockOf(cc, p, t, k - 1) < 25000000
      BY <1>1, <1>4, SMT DEF SlowBefore
    <3>2. ClockOf(cc, p, t, k - 1) = (rate * h * (first + 1) * b) \div w
      BY DEF ClockOf
    <3> HIDE DEF rate, h, first, b, w
    <3> QED BY <3>1, <3>2, SMT
  <2> DEFINE n == h * (first + 1) * b
  <2>3. rate * h * (first + 1) * b = rate * n /\ n \in Nat
    <3> HIDE DEF first, rate, h, b
    <3>1. \A x, y \in Nat : x * y \in Nat
      BY SMT
    <3>2. first + 1 \in Nat
      BY <1>2, SMT
    <3>3. n \in Nat
      BY <1>2, <2>1, <3>1, <3>2
    <3>4. rate * h * (first + 1) * b = rate * n
      BY <1>2, <2>1, <3>2, SMT
    <3> QED BY <3>3, <3>4
  <2> HIDE DEF first, rate, h, b, w, n
  <2>4. rate * n >= 15000 * w * n
    <3> DEFINE d == rate - 15000 * w
    <3>1. d \in Nat
      BY <1>2, <1>3, SMT
    <3>2. d * n \in Nat
      BY <2>3, <3>1, SMT
    <3>3. rate * n = d * n + 15000 * w * n
      BY <1>2, <1>3, <2>3, SMT
    <3>4. 15000 * w * n \in Int
      BY <1>3, <2>3, SMT
    <3> HIDE DEF d
    <3> QED BY <3>1, <3>2, <3>3, <3>4, SMT
  <2>5. 15000 * n < 25000000
    <3> DEFINE m == rate * n
    <3>1. m \in Int /\ m \div w < 25000000 /\ m >= 15000 * w * n
      BY <1>2, <2>2, <2>3, <2>4, SMT
    <3> HIDE DEF m
    <3>2. CASE w = 1
      BY <2>3, <3>1, <3>2, SMT
    <3>3. CASE w = 2
      BY <2>3, <3>1, <3>3, SMT
    <3> QED BY <1>3, <3>2, <3>3
  <2>6. 2 * n <= 3333
    BY <2>3, <2>5, SMT
  <2>7. h * (first + 1) * (2 * b) = 2 * n
    <3>1. first + 1 \in Nat
      BY <1>2, SMT
    <3> QED BY <1>2, <2>1, <3>1, SMT DEF n
  <2> QED BY <2>1, <2>6, <2>7
<1>5. ShortLine(cc, p, t, k)
  BY <1>4, SMT DEF ShortLine
<1> QED BY <1>1, <1>5, Zenon

--------------------------------------------------------------------------------
(* The ways of a multiplication *)

\* The line, the frame and its fields are no matter of the place of the picture.
LEMMA PlacedKeeps ==
  ASSUME NEW cc, NEW lm, NEW p, NEW out, NEW in, NEW x, NEW wide, Timings \subseteq DOMAIN out
  PROVE  LET o == Placed(cc, lm, p, out, in, x, wide).out
         IN  o.h_total = out.h_total /\ o.v_total = out.v_total /\ o.interlaced = out.interlaced
<1> DEFINE y_rpt == lm[1] - 1
           wider == y_rpt = 4 /\ ~ (lm = L5_GEN_4_3 /\ p.group = "288P") /\ cc.l5_fmt # 1
           low == wider /\ cc.l5_fmt = 0
           a == ((out.h_total - 1920) \div 4) % 256
           b == ((out.h_total - 1920) \div 2) % 65536
           c == out.v_backporch + 5 * ((out.v_active - 1080) \div 10)
           q == IF ~ wider THEN out ELSE [out EXCEPT !.h_synclen = a, !.h_backporch = b, !.h_active = 1920]
           q5 == IF ~ low THEN q ELSE [q EXCEPT !.v_backporch = c, !.v_active = 1080]
<1>1. Placed(cc, lm, p, out, in, x, wide).out = q5
  BY SMT DEF Placed
<1> HIDE DEF a, b, c, wider, low
<1>2. q.h_total = out.h_total /\ q.v_total = out.v_total /\ q.interlaced = out.interlaced /\ DOMAIN q = DOMAIN out
  BY SMT DEF Timings
<1> HIDE DEF q
<1>3. q5.h_total = q.h_total /\ q5.v_total = q.v_total /\ q5.interlaced = q.interlaced
  BY <1>2, SMT DEF Timings
<1> HIDE DEF q5
<1> QED BY <1>1, <1>2, <1>3, SMT

\* The way that is taken is one that the preset has.
LEMMA LineModeKnown ==
  ASSUME NEW cc, NEW p, p.flags \subseteq Flags, valid_lm(cc, p.group) \cap p.flags # {}
  PROVE  LineMode(cc, p) \in Flags
<1>1. PT \in Flags
  BY SMT DEF Flags
<1>2. (CHOOSE lm \in valid_lm(cc, p.group) \cap p.flags : TRUE) \in p.flags
  <2> DEFINE T == valid_lm(cc, p.group) \cap p.flags
  <2>1. \E lm \in T : TRUE
    BY Zenon
  <2>2. (CHOOSE lm \in T : TRUE) \in T
    <3> HIDE DEF T
    <3> QED BY <2>1, Zenon
  <2> QED BY <2>2, Zenon
<1> QED BY <1>1, <1>2, Zenon DEF LineMode

\* The clock is multiplied as often as lines and repeated columns are put out, and all columns
\* that are skipped count.
LEMMA MultTyped ==
  ASSUME NEW lm \in Flags, lm # PT, NEW y \in Int, y = lm[1]
  PROVE  /\ y \in 2 .. 6
         /\ lm # L3_GEN_4_3 => ClockMult(lm, Skipped(lm), Skipped(lm)) = y
         /\ lm \in {L2, L3_GEN_16_9, L4_GEN_4_3} => Skipped(lm) = 0 /\ y <= 4 /\ ClockMult(lm, 1, 0) = 2 * y
         /\ lm = L3_GEN_4_3 => Skipped(lm) = 0 /\ y = 3 /\ \A x : ClockMult(lm, x, 0) = 4
<1>1. y \in 2 .. 6
  BY SMT DEF Flags, PT
<1>2. Skipped(lm) \in 0 .. 5
  BY SkippedTyped
<1>3. ASSUME lm # L3_GEN_4_3 PROVE ClockMult(lm, Skipped(lm), Skipped(lm)) = y
  <2> DEFINE n == Skipped(lm) + 1
  <2>1. ClockMult(lm, Skipped(lm), Skipped(lm)) = (n * y) \div n
    BY <1>3, SMT DEF ClockMult
  <2>2. n \in 1 .. 6
    BY <1>2, SMT
  <2> HIDE DEF n
  <2>3. (n * y) \div n = y
    BY <1>1, <2>2, SMT
  <2> QED BY <2>1, <2>3
<1>4. ASSUME lm \in {L2, L3_GEN_16_9, L4_GEN_4_3} PROVE Skipped(lm) = 0 /\ y <= 4 /\ ClockMult(lm, 1, 0) = 2 * y
  <2>1. Skipped(lm) = 0
    BY <1>4, SkippedTyped, SMT DEF L2, L3_GEN_16_9, L4_GEN_4_3
  <2>2. y <= 4
    BY <1>4, SMT DEF L2, L3_GEN_16_9, L4_GEN_4_3
  <2>3. ClockMult(lm, 1, 0) = (2 * y) \div 1
    BY <1>4, SMT DEF ClockMult, L3_GEN_4_3, L2, L3_GEN_16_9, L4_GEN_4_3
  <2> QED BY <1>1, <2>1, <2>2, <2>3, SMT
<1>5. ASSUME lm = L3_GEN_4_3 PROVE Skipped(lm) = 0 /\ y = 3 /\ \A x : ClockMult(lm, x, 0) = 4
  <2>1. Skipped(lm) = 0
    BY <1>5, SkippedTyped, SMT DEF L3_GEN_4_3
  <2>2. y = 3
    BY <1>5, SMT DEF L3_GEN_4_3
  <2> QED BY <1>5, <2>1, <2>2, SMT DEF ClockMult
<1> QED BY <1>1, <1>3, <1>4, <1>5

\* What a signal must be: numbers, and at least 8000 lines in a second.
Signalled(s) == s.v_total \in Nat /\ s.v_hz_x100 \in Nat /\ s.interlaced \in {0, 1} /\ Lively(s)

\* What program_mode relies on in a preset.
Usable(p) ==
  /\ Timings \subseteq DOMAIN p /\ p.h_total \in Int /\ p.h_total >= 300 /\ p.h_total_adj = 0
  /\ p.flags \subseteq Flags

\* As many clocks go out in a frame as were sampled and multiplied, whatever is left out of it.
Even(out, in, line, mult, s) ==
  out.h_total * out.v_total * (1 + s.interlaced) = line * in.h_total * mult * s.v_total * (1 + out.interlaced)

\* The signal with the line of the preset.
LEMMA Measured ==
  ASSUME NEW p, Usable(p), NEW s, Signalled(s), NEW t,
         t = [p EXCEPT !.v_total = s.v_total, !.v_hz_x100 = s.v_hz_x100, !.interlaced = s.interlaced]
  PROVE  /\ Timed(t) /\ t.h_total = p.h_total /\ t.h_total >= 300 /\ t.v_total = s.v_total
         /\ t.v_hz_x100 = s.v_hz_x100 /\ t.interlaced = s.interlaced /\ Lively(t)
<1>1. DOMAIN t = DOMAIN p
  OBVIOUS
<1>2. /\ t.h_total = p.h_total /\ t.h_total_adj = p.h_total_adj /\ t.v_total = s.v_total
      /\ t.v_hz_x100 = s.v_hz_x100 /\ t.interlaced = s.interlaced
  BY SMT DEF Usable, Timings
<1>3. Lively(t)
  BY <1>2, SMT DEF Signalled, Lively
<1> QED BY <1>1, <1>2, <1>3, SMT DEF Usable, Timed, Signalled

\* A bobbed frame has half of the lines for each of two fields.
LEMMA Frame ==
  ASSUME NEW t, Timed(t), NEW h \in Int, NEW v \in 1 .. 6, NEW r, r = vmode_hv_mult(t, h, v)
  PROVE  /\ r.h_total * r.v_total * (1 + t.interlaced) = (h * t.h_total) * (t.v_total * v) * (1 + r.interlaced)
         /\ Timings \subseteq DOMAIN r
<1> DEFINE bob == t.interlaced = 1 /\ v % 2 = 0
<1>1. r.h_total = h * t.h_total /\ DOMAIN r = DOMAIN t
  BY Multiplied
<1>2. r.v_total = IF bob THEN t.v_total * (v \div 2) ELSE t.v_total * v
  BY Multiplied
<1>3. r.interlaced = IF bob THEN 0 ELSE t.interlaced
  BY Multiplied
<1>4. t.h_total \in Int /\ t.v_total \in Int /\ t.interlaced \in {0, 1} /\ Timings \subseteq DOMAIN t
  BY DEF Timed
<1>5. r.v_total * (1 + t.interlaced) = (t.v_total * v) * (1 + r.interlaced)
  <2>1. CASE bob
    <3>1. r.v_total = t.v_total * (v \div 2) /\ r.interlaced = 0 /\ t.interlaced = 1
      BY <1>2, <1>3, <2>1
    <3> DEFINE w == v \div 2
    <3>2. v = 2 * w /\ w \in Int
      BY <2>1
    <3> HIDE DEF w
    <3>3. (t.v_total * w) * 2 = (t.v_total * (2 * w)) * 1
      BY <1>4, <3>2
    <3> QED BY <3>1, <3>2, <3>3 DEF w
  <2>2. CASE ~ bob
    BY <1>2, <1>3, <2>2
  <2> QED BY <2>1, <2>2
<1>6. r.v_total \in Int /\ r.interlaced \in {0, 1}
  BY <1>2, <1>3, <1>4
<1>7. (h * t.h_total) * r.v_total * (1 + t.interlaced) = (h * t.h_total) * (t.v_total * v) * (1 + r.interlaced)
  <2> DEFINE a == h * t.h_total
             b == r.v_total
             c == 1 + t.interlaced
             d == t.v_total * v
             e == 1 + r.interlaced
  <2>1. b * c = d * e /\ a \in Int /\ b \in Int /\ c \in Int /\ d \in Int /\ e \in Int
    BY <1>4, <1>5, <1>6
  <2> HIDE DEF a, b, c, d, e
  <2>2. a * b * c = a * (b * c) /\ a * d * e = a * (d * e)
    BY <2>1
  <2>3. a * b * c = a * d * e
    BY <2>1, <2>2
  <2> QED BY <2>3 DEF a, b, c, d, e
<1> QED BY <1>1, <1>4, <1>7

--------------------------------------------------------------------------------
(* The frame that goes out *)

\* Whatever the way, the frame that goes out takes as many clocks as are sampled and
\* multiplied in that time.
LEMMA ModeEven ==
  ASSUME NEW cc, cc.pt_mode \in Nat, NEW s, Signalled(s), NEW id, Usable(Preset(id)),
         valid_lm(cc, Preset(id).group) \cap Preset(id).flags # {}, NEW g, g = get_pure_lm_mode(cc, s, id)
  PROVE  /\ ForSampling \subseteq DOMAIN g /\ g.h_skip \in Int /\ g.in.h_total \in Int /\ g.in.h_total_adj = 0
         /\ g.si_pclk_mult \in 1 .. 8
         /\ (g.lm = L3_GEN_4_3 => g.in.h_total % 3 = 0)
              => Even(g.picture.out, g.in, g.h_skip + 1, g.si_pclk_mult, s)
<1> DEFINE p == Preset(id)
           lm == LineMode(cc, p)
           vm_in == [p EXCEPT !.v_total = s.v_total, !.v_hz_x100 = s.v_hz_x100, !.interlaced = s.interlaced]
           ups == Upsampled(cc, lm, p)
           in == IF ups THEN vmode_hv_mult(vm_in, 2, 1) ELSE vm_in
           h_skip == IF lm = PT THEN PassedThrough(cc, p, in) ELSE Skipped(lm)
           x_rpt == IF Doubled(lm, p) /\ cc.upsample2x = 0 THEN 1 ELSE h_skip
           third == [vm_in EXCEPT !.h_synclen = @ \div 3, !.h_backporch = @ \div 3, !.h_active = @ \div 3,
                                  !.h_total = @ \div 3, !.h_total_adj = 0]
           out == IF lm = L3_GEN_4_3 THEN vmode_hv_mult(third, 4, 3)
                  ELSE IF lm = PT THEN vmode_hv_mult(in, x_rpt + 1, 1)
                  ELSE vmode_hv_mult(vm_in, IF ups THEN 2 ELSE x_rpt + 1, lm[1])
           shifted == IF lm # L2_240x360 THEN out
                      ELSE [out EXCEPT !.h_active = @ + 80, !.h_backporch = (@ - 40) % 65536]
           H == p.h_total
           V == s.v_total
           I == s.interlaced
           y == lm[1]
<1>1. /\ g.lm = lm /\ g.in = in /\ g.h_skip = h_skip /\ g.si_pclk_mult = ClockMult(lm, x_rpt, h_skip)
      /\ g.picture = Placed(cc, lm, p, shifted, in, Narrower(cc, lm, x_rpt), p.h_active - 2 * p.ar_h)
      /\ ForSampling \subseteq DOMAIN g
  <2> DEFINE picture == Placed(cc, lm, p, shifted, in, Narrower(cc, lm, x_rpt), p.h_active - 2 * p.ar_h)
             mult == ClockMult(lm, x_rpt, h_skip)
  <2>1. g = [id |-> id, lm |-> lm, in |-> in, h_skip |-> h_skip, picture |-> picture, si_pclk_mult |-> mult,
             pll_h_total |-> 0, pclk_o |-> 0,
             tx_pixelrep |-> IF \/ lm = L5_GEN_4_3 /\ p.group = "288P"
                                \/ lm = L3_GEN_16_9 /\ p.group \in {"480P", "576P"}
                                \/ lm = L3_240x360 \/ lm[1] = 6 THEN 1 ELSE 0]
    BY SMT DEF get_pure_lm_mode
  <2> HIDE DEF lm, in, h_skip, picture, mult, p
  <2>2. /\ g.lm = lm /\ g.in = in /\ g.h_skip = h_skip /\ g.si_pclk_mult = mult /\ g.picture = picture
        /\ ForSampling \subseteq DOMAIN g
    BY <2>1, SMT DEF ForSampling
  <2> HIDE DEF shifted, x_rpt
  <2> QED BY <2>2, SMT DEF picture, mult
<1>2. lm \in Flags
  BY LineModeKnown DEF Usable
<1>3. Usable(p) /\ H \in Int /\ H >= 300 /\ V \in Nat /\ I \in {0, 1}
  BY SMT DEF Usable, Signalled
<1>4. /\ Timed(vm_in) /\ vm_in.h_total = H /\ vm_in.v_total = V /\ vm_in.interlaced = I
      /\ vm_in.v_hz_x100 \in Nat /\ Lively(vm_in)
  <2>1. vm_in = [p EXCEPT !.v_total = s.v_total, !.v_hz_x100 = s.v_hz_x100, !.interlaced = s.interlaced]
    BY SMT
  <2> HIDE DEF p, vm_in
  <2>2. s.v_hz_x100 \in Nat
    BY SMT DEF Signalled
  <2>3. Usable(p)
    BY <1>3
  <2>4. DOMAIN vm_in = DOMAIN p
    BY <2>1, SMT
  <2>5. /\ vm_in.h_total = p.h_total /\ vm_in.h_total_adj = p.h_total_adj /\ vm_in.v_total = s.v_total
        /\ vm_in.v_hz_x100 = s.v_hz_x100 /\ vm_in.interlaced = s.interlaced
    BY <2>1, <2>3, SMT DEF Usable, Timings
  <2>6. Lively(vm_in)
    BY <2>5, SMT DEF Signalled, Lively
  <2>7. Timed(vm_in)
    BY <2>3, <2>4, <2>5, SMT DEF Usable, Timed, Signalled
  <2> QED BY <1>3, <2>2, <2>5, <2>6, <2>7
<1> HIDE DEF p, lm, vm_in
<1>5. /\ Timed(in) /\ in.h_total = (IF ups THEN 2 * H ELSE H) /\ in.v_total = V /\ in.interlaced = I
      /\ in.v_hz_x100 \in Nat /\ Lively(in)
  <2>1. CASE ~ ups
    BY <1>4, <2>1
  <2>2. CASE ups
    <3> DEFINE r == vmode_hv_mult(vm_in, 2, 1)
    <3>1. /\ DOMAIN r = DOMAIN vm_in /\ r.h_total = 2 * vm_in.h_total /\ r.h_total_adj = 0
          /\ r.v_hz_x100 = vm_in.v_hz_x100 /\ r.v_total = vm_in.v_total * 1 /\ r.interlaced = vm_in.interlaced
      <4>1. 1 % 2 = 1
        BY SMT
      <4> QED BY <1>4, <4>1, Multiplied
    <3>2. in = r
      BY <2>2
    <3> HIDE DEF r, in
    <3>3. r.h_total = 2 * H /\ r.v_total = V /\ r.interlaced = I
      BY <1>3, <1>4, <3>1
    <3>4. Timed(r)
      BY <1>3, <1>4, <3>1, <3>3 DEF Timed
    <3>5. Lively(r) /\ r.v_hz_x100 \in Nat
      BY <1>4, <3>1, <3>3 DEF Lively
    <3> QED BY <2>2, <3>2, <3>3, <3>4, <3>5
  <2> QED BY <2>1, <2>2
<1>6. in.h_total \in Int /\ in.h_total >= 300 /\ in.h_total_adj = 0
  BY <1>3, <1>5 DEF Timed
<1> HIDE DEF in, ups
<1>7. /\ Timings \subseteq DOMAIN out =>
           g.picture.out.h_total = out.h_total /\ g.picture.out.v_total = out.v_total
             /\ g.picture.out.interlaced = out.interlaced
  <2> SUFFICES ASSUME Timings \subseteq DOMAIN out
               PROVE  g.picture.out.h_total = out.h_total /\ g.picture.out.v_total = out.v_total
                        /\ g.picture.out.interlaced = out.interlaced
    OBVIOUS
  <2> HIDE DEF out
  <2>1. /\ shifted.h_total = out.h_total /\ shifted.v_total = out.v_total /\ shifted.interlaced = out.interlaced
        /\ DOMAIN shifted = DOMAIN out
    BY SMT DEF Timings
  <2> HIDE DEF shifted
  <2>2. Timings \subseteq DOMAIN shifted
    BY <2>1
  <2> QED BY <1>1, <2>1, <2>2, PlacedKeeps
<1> HIDE DEF shifted
<1>8. CASE lm = PT
  <2>1. h_skip \in Nat
    BY <1>5, <1>6, <1>8, PassedThroughTyped
  <2>2. x_rpt = h_skip
    BY <1>8, SMT DEF Doubled, PT, L2, L3_GEN_16_9, L4_GEN_4_3
  <2>3. out = vmode_hv_mult(in, h_skip + 1, 1)
    <3>1. lm # L3_GEN_4_3
      BY <1>8, SMT DEF PT, L3_GEN_4_3
    <3> QED BY <1>8, <2>2, <3>1, SMT
  <2>4. ClockMult(lm, h_skip, h_skip) = 1
    <3> HIDE DEF h_skip
    <3>1. ClockMult(lm, h_skip, h_skip) = ((h_skip + 1) * 1) \div (h_skip + 1)
      BY <1>8, SMT DEF ClockMult, PT, L3_GEN_4_3
    <3> QED BY <2>1, <3>1, SMT
  <2>5. g.si_pclk_mult = 1 /\ g.h_skip = h_skip /\ g.in = in
    BY <1>1, <2>2, <2>4
  <2> HIDE DEF h_skip, out, x_rpt
  <2>6. /\ out.h_total * out.v_total * (1 + I) = ((h_skip + 1) * in.h_total) * (V * 1) * (1 + out.interlaced)
        /\ Timings \subseteq DOMAIN out
    <3>1. /\ out.h_total * out.v_total * (1 + in.interlaced)
                = ((h_skip + 1) * in.h_total) * (in.v_total * 1) * (1 + out.interlaced)
          /\ Timings \subseteq DOMAIN out
      <4>1. h_skip + 1 \in Int /\ 1 \in 1 .. 6
        BY <2>1, SMT
      <4> QED BY <1>5, <2>3, <4>1, Frame
    <3> QED BY <1>5, <3>1
  <2>7. ((h_skip + 1) * in.h_total) * (V * 1) = (h_skip + 1) * in.h_total * 1 * V
    BY <1>3, <1>6, <2>1, SMT
  <2>8. Even(g.picture.out, g.in, g.h_skip + 1, g.si_pclk_mult, s)
    BY <1>7, <2>5, <2>6, <2>7 DEF Even
  <2>9. g.h_skip \in Int /\ g.in.h_total \in Int /\ g.in.h_total_adj = 0 /\ g.si_pclk_mult \in 1 .. 8
    BY <1>6, <2>1, <2>5, SMT
  <2> QED BY <1>1, <2>8, <2>9
<1>9. CASE lm = L3_GEN_4_3
  <2>1. Skipped(lm) = 0 /\ y = 3 /\ \A x : ClockMult(lm, x, 0) = 4
    <3>1. lm # PT /\ y \in Int
      BY <1>9, SMT DEF PT, L3_GEN_4_3
    <3> QED BY <1>2, <1>9, <3>1, MultTyped
  <2>2. h_skip = 0 /\ ~ ups
    BY <1>9, <2>1, SMT DEF ups, Upsampled, Doubled, PT, L2, L3_GEN_16_9, L4_GEN_4_3, L3_GEN_4_3
  <2>3. g.si_pclk_mult = 4 /\ g.h_skip = 0 /\ g.in = in /\ g.lm = L3_GEN_4_3
    BY <1>1, <1>9, <2>1, <2>2
  <2>4. out = vmode_hv_mult(third, 4, 3)
    BY <1>9
  <2>5. in.h_total = H
    BY <1>5, <2>2
  <2>6. /\ Timed(third) /\ third.h_total = H \div 3 /\ third.v_total = V /\ third.interlaced = I
    <3>1. DOMAIN third = DOMAIN vm_in
      BY SMT
    <3>2. /\ third.h_total = vm_in.h_total \div 3 /\ third.h_total_adj = 0 /\ third.v_total = vm_in.v_total
          /\ third.interlaced = vm_in.interlaced
      BY <1>4, SMT DEF Timed, Timings
    <3> HIDE DEF third
    <3> QED BY <1>3, <1>4, <3>1, <3>2 DEF Timed
  <2> HIDE DEF h_skip, out, x_rpt, third
  <2>7. /\ out.h_total * out.v_total * (1 + I) = (4 * (H \div 3)) * (V * 3) * (1 + out.interlaced)
        /\ Timings \subseteq DOMAIN out
    <3>1. /\ out.h_total * out.v_total * (1 + third.interlaced)
                = (4 * third.h_total) * (third.v_total * 3) * (1 + out.interlaced)
          /\ Timings \subseteq DOMAIN out
      BY <2>4, <2>6, Frame
    <3> QED BY <2>6, <3>1
  <2>8. H % 3 = 0 => (4 * (H \div 3)) * (V * 3) = (0 + 1) * H * 4 * V
    <3> DEFINE w == H \div 3
    <3>1. H % 3 = 0 => H = 3 * w
      BY <1>3, SMT
    <3>2. w \in Int
      BY <1>3, SMT
    <3> HIDE DEF w
    <3>3. (4 * w) * (V * 3) = (0 + 1) * (3 * w) * 4 * V
      BY <1>3, <3>2, SMT
    <3> QED BY <3>1, <3>3 DEF w
  <2>9. g.in.h_total % 3 = 0 => Even(g.picture.out, g.in, g.h_skip + 1, g.si_pclk_mult, s)
    BY <1>7, <2>3, <2>5, <2>7, <2>8 DEF Even
  <2>10. g.h_skip \in Int /\ g.in.h_total \in Int /\ g.in.h_total_adj = 0 /\ g.si_pclk_mult \in 1 .. 8
    BY <1>6, <2>3, SMT
  <2> QED BY <1>1, <2>3, <2>9, <2>10
<1>10. CASE lm # PT /\ lm # L3_GEN_4_3
  <2> DEFINE times == IF ups THEN 2 ELSE x_rpt + 1
             mult == ClockMult(lm, x_rpt, h_skip)
  <2>1. /\ y \in 2 .. 6 /\ ClockMult(lm, Skipped(lm), Skipped(lm)) = y
        /\ lm \in {L2, L3_GEN_16_9, L4_GEN_4_3} => Skipped(lm) = 0 /\ y <= 4 /\ ClockMult(lm, 1, 0) = 2 * y
    <3>1. y \in Int
      BY <1>2, <1>10, SMT DEF Flags, PT
    <3> QED BY <1>2, <1>10, <3>1, MultTyped
  <2>2. h_skip = Skipped(lm) /\ h_skip \in 0 .. 5
    BY <1>2, <1>10, SkippedTyped
  <2>3. out = vmode_hv_mult(vm_in, times, y)
    BY <1>10
  <2>4. Doubled(lm, p) => lm \in {L2, L3_GEN_16_9, L4_GEN_4_3}
    BY SMT DEF Doubled
  <2>5. ups => Doubled(lm, p) /\ cc.upsample2x = 1
    BY <1>10, SMT DEF ups, Upsampled
  <2>6. /\ times \in 1 .. 6 /\ mult \in 1 .. 8
        /\ ups => h_skip = 0 /\ times = 2 /\ mult = y
        /\ ~ ups => (h_skip + 1) * mult = times * y
    <3> HIDE DEF h_skip
    <3>1. CASE Doubled(lm, p) /\ cc.upsample2x = 0
      <4>1. h_skip = 0 /\ x_rpt = 1 /\ ~ ups /\ mult = 2 * y /\ y \in 2 .. 4
        BY <2>1, <2>2, <2>4, <2>5, <3>1
      <4>2. times = 2
        BY <4>1
      <4> HIDE DEF mult, times
      <4> QED BY <4>1, <4>2, SMT
    <3>2. CASE ~ (Doubled(lm, p) /\ cc.upsample2x = 0)
      <4>1. x_rpt = h_skip /\ mult = y
        BY <2>1, <2>2, <3>2
      <4>2. ups => h_skip = 0
        BY <2>1, <2>2, <2>4, <2>5
      <4>3. times = IF ups THEN 2 ELSE h_skip + 1
        BY <4>1
      <4> HIDE DEF mult, times
      <4> QED BY <2>1, <2>2, <4>1, <4>2, <4>3, SMT
    <3> QED BY <3>1, <3>2
  <2>7. g.si_pclk_mult = mult /\ g.h_skip = h_skip /\ g.in = in
    BY <1>1
  <2> HIDE DEF h_skip, out, x_rpt, times, mult
  <2>8. /\ out.h_total * out.v_total * (1 + I) = (times * H) * (V * y) * (1 + out.interlaced)
        /\ Timings \subseteq DOMAIN out
    <3>1. /\ out.h_total * out.v_total * (1 + vm_in.interlaced)
                = (times * vm_in.h_total) * (vm_in.v_total * y) * (1 + out.interlaced)
          /\ Timings \subseteq DOMAIN out
      <4>1. times \in Int /\ y \in 1 .. 6
        BY <2>1, <2>6, SMT
      <4> QED BY <1>4, <2>3, <4>1, Frame
    <3> QED BY <1>4, <3>1
  <2>9. (times * H) * (V * y) = (h_skip + 1) * in.h_total * mult * V
    <3>1. CASE ups
      <4>1. (2 * H) * (V * y) = (0 + 1) * (2 * H) * y * V
        BY <1>3, <2>1, SMT
      <4> QED BY <1>5, <2>6, <3>1, <4>1
    <3>2. CASE ~ ups
      <4> DEFINE k == h_skip + 1
      <4>1. k * mult = times * y /\ in.h_total = H /\ k \in Int /\ mult \in Int /\ times \in Int /\ y \in Int
        BY <1>5, <2>1, <2>2, <2>6, <3>2
      <4> HIDE DEF k
      <4>2. (times * H) * (V * y) = (times * y) * (H * V) /\ k * H * mult * V = (k * mult) * (H * V)
        BY <1>3, <4>1, SMT
      <4>3. (times * H) * (V * y) = k * H * mult * V
        BY <4>1, <4>2, Zenon
      <4> QED BY <4>1, <4>3 DEF k
    <3> QED BY <3>1, <3>2
  <2>10. Even(g.picture.out, g.in, g.h_skip + 1, g.si_pclk_mult, s)
    BY <1>7, <2>7, <2>8, <2>9 DEF Even
  <2>11. g.h_skip \in Int /\ g.in.h_total \in Int /\ g.in.h_total_adj = 0 /\ g.si_pclk_mult \in 1 .. 8
    BY <1>6, <2>2, <2>6, <2>7, SMT
  <2> QED BY <1>1, <2>10, <2>11
<1> QED BY <1>8, <1>9, <1>10

\* A preset whose line is that of the page or longer.
Wide(p) == p.h_total \in Int /\ p.h_total >= 300

\* A fraction of a sampling rate is left as it is, and sampling leaves the signal and the picture.
LEMMA FractionKept ==
  ASSUME NEW cc, NEW s, NEW id, Timings \subseteq DOMAIN Preset(id), NEW m,
         m = Sampling(get_pure_lm_mode(cc, s, id), s)
  PROVE  m.in.h_total_adj = Preset(id).h_total_adj
<1> DEFINE p == Preset(id)
           lm == LineMode(cc, p)
           vm_in == [p EXCEPT !.v_total = s.v_total, !.v_hz_x100 = s.v_hz_x100, !.interlaced = s.interlaced]
           in == IF Upsampled(cc, lm, p) THEN vmode_hv_mult(vm_in, 2, 1) ELSE vm_in
           g == get_pure_lm_mode(cc, s, id)
<1>1. g.in = in /\ {"h_skip", "in", "si_pclk_mult", "pll_h_total"} \subseteq DOMAIN g
  BY SMT DEF get_pure_lm_mode
<1>2. DOMAIN vm_in = DOMAIN p /\ vm_in.h_total_adj = p.h_total_adj
  <2> HIDE DEF p
  <2> QED BY SMT DEF Timings
<1> HIDE DEF vm_in, p
<1>3. vmode_hv_mult(vm_in, 2, 1).h_total_adj = vm_in.h_total_adj
  <2>1. Timings \subseteq DOMAIN vm_in
    BY <1>2 DEF p
  <2> QED BY <2>1, SMT DEF vmode_hv_mult, Timings
<1>4. in.h_total_adj = p.h_total_adj
  BY <1>2, <1>3
<1> HIDE DEF in, g
<1>5. Sampling(g, s).in = g.in
  BY <1>1, SMT DEF Sampling
<1> QED BY <1>1, <1>4, <1>5 DEF g, p

\* The mode that program_mode makes of a preset is locked.
LEMMA SampledLocked ==
  ASSUME NEW cc, cc.pt_mode \in Nat, NEW s, Signalled(s), NEW id, Usable(Preset(id)),
         valid_lm(cc, Preset(id).group) \cap Preset(id).flags # {}, NEW m, m = Sampling(get_pure_lm_mode(cc, s, id), s),
         m.lm = L3_GEN_4_3 => m.in.h_total % 3 = 0
  PROVE  m.picture.out.h_total * m.picture.out.v_total * (1 + s.interlaced)
           = m.pll_h_total * m.si_pclk_mult * s.v_total * (1 + m.picture.out.interlaced)
<1> DEFINE g == get_pure_lm_mode(cc, s, id)
<1>1. /\ ForSampling \subseteq DOMAIN g /\ g.h_skip \in Int /\ g.in.h_total \in Int /\ g.in.h_total_adj = 0
      /\ g.si_pclk_mult \in 1 .. 8
      /\ (g.lm = L3_GEN_4_3 => g.in.h_total % 3 = 0)
              => Even(g.picture.out, g.in, g.h_skip + 1, g.si_pclk_mult, s)
  BY ModeEven
<1> HIDE DEF g
<1>2. m = Sampling(g, s)
  BY DEF g
<1>3. /\ m.in = g.in /\ m.picture = g.picture /\ m.lm = g.lm
      /\ m.pll_h_total * m.si_pclk_mult = (g.h_skip + 1) * g.in.h_total * g.si_pclk_mult
  BY <1>1, <1>2, SamplingKeeps
<1>4. Even(m.picture.out, g.in, g.h_skip + 1, g.si_pclk_mult, s)
  BY <1>1, <1>3, Zenon
<1> QED BY <1>3, <1>4, Zenon DEF Even

--------------------------------------------------------------------------------
(* The output is locked *)

\* What a mode, and the signal it is for, must be for the output to be locked.
LockedTo(m, s) ==
  LET out == m.picture.out
  IN  m.in.h_total_adj = 0 /\ (m.lm = L3_GEN_4_3 => m.in.h_total % 3 = 0)
        => out.h_total * out.v_total * (1 + s.interlaced)
             = m.pll_h_total * m.si_pclk_mult * s.v_total * (1 + out.interlaced)

\* What program_mode programs is locked.
LEMMA ProgramsLocked ==
  ASSUME NEW s, Signalled(s), NEW again, program_mode(s, again), tc.pt_mode \in Nat,
         NEW id, id = FoundPreset(tc, s), id # 0, Timings \subseteq DOMAIN Preset(id), Wide(Preset(id)),
         Preset(id).flags \subseteq Flags, valid_lm(tc, Preset(id).group) \cap Preset(id).flags # {}
  PROVE  LockedTo(vmode', signal')
<1> DEFINE g == get_pure_lm_mode(tc, s, id)
           m == Sampling(g, s)
           v == [m EXCEPT !.pclk_o = calculate_pclk(m, s)]
<1>1. signal' = s /\ vmode' = v
  BY SMT DEF program_mode
<1>2. {"in", "lm", "picture", "pll_h_total", "si_pclk_mult"} \subseteq DOMAIN m
  <2>1. {"in", "lm", "picture", "pll_h_total", "si_pclk_mult"} \subseteq DOMAIN g
    BY SMT DEF get_pure_lm_mode
  <2> HIDE DEF g
  <2> QED BY <2>1, SMT DEF Sampling
<1>3. m.in.h_total_adj = Preset(id).h_total_adj
  BY FractionKept
<1>4. Preset(id).h_total_adj = 0 => Usable(Preset(id))
  BY Zenon DEF Usable, Wide
<1>5. LockedTo(m, s)
  <2>1. SUFFICES ASSUME m.in.h_total_adj = 0, m.lm = L3_GEN_4_3 => m.in.h_total % 3 = 0
                 PROVE  m.picture.out.h_total * m.picture.out.v_total * (1 + s.interlaced)
                          = m.pll_h_total * m.si_pclk_mult * s.v_total * (1 + m.picture.out.interlaced)
    BY Zenon DEF LockedTo
  <2>2. Usable(Preset(id))
    BY <1>3, <1>4, <2>1
  <2> QED BY <2>1, <2>2, SampledLocked
<1> HIDE DEF m
<1>6. v.in = m.in /\ v.lm = m.lm /\ v.picture = m.picture /\ v.pll_h_total = m.pll_h_total
      /\ v.si_pclk_mult = m.si_pclk_mult
  BY <1>2, SMT
<1> HIDE DEF v
<1> QED BY <1>1, <1>5, <1>6, Zenon DEF LockedTo

--------------------------------------------------------------------------------
\* The presets of a table have lines as the page allows.
AllWide(table) == \A i \in 1 .. 43 : Wide(PresetOf(table, i))

\* The default ones have.
LEMMA DefaultWide == \A i \in 1 .. 43 : Wide(Default(i))
BY SMTT(60) DEF video_modes_plm_default, P, Default, Wide

\* A table of none but those.
LEMMA EmptyWide == AllWide(<<>>)
BY DefaultWide DEF AllWide, PresetOf

\* The page does not go below.
Longer == {x \in Numbers : x.data = "h_total" => x.min >= 300 /\ x.max >= 300}

\* An item of the page.
LEMMA PageLonger ==
  ASSUME NEW d \in Shown, NEW min \in Nat, NEW max \in Nat, d = "h_total" => min >= 300 /\ max >= 300
  PROVE  IsPage(U16(d, min, max), Longer)
<1>1. [type |-> "u16", data |-> d, min |-> min, max |-> max] \in Longer
  BY DEF Numbers, Longer
<1> QED BY <1>1, PageOne DEF U16

\* The page.
LEMMA TimingsLonger == IsPage(menu_advtiming, Longer)
<1>1. /\ IsPage(U16("h_total", 300, 2800), Longer) /\ IsPage(U16("h_total_adj", 0, 19), Longer)
      /\ IsPage(U16("h_synclen", 10, 255), Longer) /\ IsPage(U16("h_backporch", 0, 511), Longer)
      /\ IsPage(U16("h_active", 200, 2048), Longer) /\ IsPage(U16("v_synclen", 1, 15), Longer)
      /\ IsPage(U16("v_backporch", 0, 511), Longer) /\ IsPage(U16("v_active", 160, 1728), Longer)
      /\ IsPage(U16("ar_h", 0, 255), Longer) /\ IsPage(U16("ar_v", 0, 63), Longer)
      /\ IsPage(U16("sampler_phase", 0, 31), Longer)
  BY PageLonger DEF Shown
<1> QED BY <1>1, PageJoins DEF menu_advtiming

\* Where the page is shown its item does not go below.
LEMMA ItemLonger ==
  ASSUME NaviInv, item.type = "u16"
  PROVE  Here.m = "advtiming" /\ item \in Longer
<1>1. /\ navlvl \in 0 .. 2 /\ Here.m \in Level(navlvl) /\ Here.mp \in 0 .. Len(Menus[Here.m]) - 1
      /\ item = Menus[Here.m][Here.mp + 1]
  BY HereIs DEF item
<1>2. Here.m # "advtiming" => item \in Items(Level(navlvl + 1))
  BY <1>1, ItemOf
<1>3. Here.m = "advtiming"
  BY <1>2 DEF Items, Selections
<1>4. IsPage(menu_advtiming, Longer) /\ Menus[Here.m] = menu_advtiming
  BY <1>3, TimingsLonger DEF Menus
<1>5. Here.mp + 1 \in 1 .. Len(menu_advtiming)
  BY <1>1, <1>4, LenProperties DEF IsPage
<1>6. menu_advtiming[Here.mp + 1] \in Longer
  BY <1>4, <1>5, ElementOfSeq DEF IsPage
<1> QED BY <1>1, <1>3, <1>4, <1>6

\* A preset with such a line may be put.
LEMMA PutWide ==
  ASSUME NEW table, AllWide(table), NEW i \in 1 .. 43, NEW p, Wide(p)
  PROVE  AllWide(Put(table, i, p))
<1> SUFFICES ASSUME NEW j \in 1 .. 43 PROVE Wide(PresetOf(Put(table, i, p), j))
  BY DEF AllWide
<1>1. CASE j = i
  BY <1>1, PutThere
<1>2. CASE j # i
  BY <1>2, PutElsewhere DEF AllWide
<1> QED BY <1>1, <1>2

\* The field of the page.
LEMMA WidthTweaked == "h_total" \in Tweaked
<1>1. U16("h_total", 300, 2800) = <<[type |-> "u16", data |-> "h_total", min |-> 300, max |-> 2800]>>
  BY DEF U16
<1> QED BY <1>1 DEF Tweaked, menu_advtiming, U16

\* vm_tweak keeps the lines, given copies with such a line,
LEMMA TweakWide ==
  ASSUME CopiesInv, AllWide(video_modes_plm), NEW e, Wide(e), Tweak(e)
  PROVE  AllWide(video_modes_plm')
<1> DEFINE old == Preset(vm_edit)
           new == [f \in DOMAIN old |-> IF f \in Tweaked THEN e[f] ELSE old[f]]
<1>1. video_modes_plm' = Put(video_modes_plm, vm_edit, new)
  BY DEF Tweak
<1>2. vm_edit \in 1 .. 43 /\ IsTable(video_modes_plm)
  BY DEF CopiesInv
<1>3. "h_total" \in DOMAIN old
  BY <1>2, PresetIn, TableFields, DefaultFields DEF Shown
<1>4. Wide(new)
  BY <1>3, WidthTweaked DEF Wide
<1> HIDE DEF new
<1> QED BY <1>1, <1>2, <1>4, PutWide

\* so does showing a page,
LEMMA RenderWide ==
  ASSUME CopiesInv, AllWide(video_modes_plm), NEW menu, NEW e, menu = "advtiming" => Wide(e), Render(menu, e)
  PROVE  AllWide(video_modes_plm')
<1>1. CASE menu = "advtiming"
  BY <1>1, TweakWide DEF Render
<1>2. CASE menu # "advtiming"
  BY <1>2 DEF Render
<1> QED BY <1>1, <1>2

\* and so do the phase keys.
LEMMA PhaseWide ==
  ASSUME CopiesInv, AllWide(video_modes_plm), Here.m = "advtiming" => Wide(edit), RC_PHASE
  PROVE  AllWide(video_modes_plm') /\ (Wide(edit) => Wide(edit'))
<1>1. PICK up \in BOOLEAN :
       LET phase == Stepped(Preset(cm.id).sampler_phase, up, 0, 31, TRUE)
           table == Put(video_modes_plm, cm.id, [Preset(cm.id) EXCEPT !.sampler_phase = phase])
           page == menu_active /\ Here.m = "advtiming"
       IN  /\ edit' = Follow(edit, phase)
           /\ video_modes_plm' =
                IF ~ page THEN table
                ELSE LET p == IF vm_edit \in DOMAIN table THEN table[vm_edit] ELSE video_modes_plm_default[vm_edit]
                     IN  Put(table, vm_edit, [f \in DOMAIN p |-> IF f \in Tweaked THEN edit'[f] ELSE p[f]])
  BY DEF RC_PHASE
<1> DEFINE phase == Stepped(Preset(cm.id).sampler_phase, up, 0, 31, TRUE)
           q == [Preset(cm.id) EXCEPT !.sampler_phase = phase]
           table == Put(video_modes_plm, cm.id, q)
           p == PresetOf(table, vm_edit)
           new == [f \in DOMAIN p |-> IF f \in Tweaked THEN edit'[f] ELSE p[f]]
<1>2. edit' = Follow(edit, phase)
      /\ video_modes_plm' = IF ~ (menu_active /\ Here.m = "advtiming") THEN table ELSE Put(table, vm_edit, new)
  BY <1>1 DEF PresetOf, Default
<1>3. vm_edit \in 1 .. 43 /\ cm.id \in 1 .. 43 /\ IsTable(video_modes_plm) /\ edit = [f \in Tweaked |-> edit[f]]
  BY DEF CopiesInv
<1> HIDE DEF phase
<1>4. DOMAIN q = DOMAIN Default(cm.id) /\ "h_total" \in DOMAIN Preset(cm.id)
  BY <1>3, PresetIn, TableFields, DefaultFields DEF Shown
<1>5. Wide(q)
  BY <1>3, <1>4, PresetIn DEF Wide, AllWide
<1> HIDE DEF q
<1>6. AllWide(table) /\ IsTable(table)
  BY <1>3, <1>4, <1>5, PutWide, PutTable
<1> HIDE DEF table
<1>7. Wide(edit) => Wide(edit')
  BY <1>2, <1>3, WidthTweaked DEF Follow, Wide
<1>8. "h_total" \in DOMAIN p
  BY <1>3, <1>6, TableFields, DefaultFields DEF Shown
<1>9. Wide(edit') => Wide(new)
  BY <1>8, WidthTweaked DEF Wide
<1> HIDE DEF new
<1>10. Wide(edit') => AllWide(Put(table, vm_edit, new))
  BY <1>3, <1>6, <1>9, PutWide
<1> QED BY <1>2, <1>6, <1>7, <1>10

\* Where the page has been entered its copies have such a line.
WidthInv == AllWide(video_modes_plm) /\ \A l \in 0 .. 2 : navi[l].m = "advtiming" => Wide(edit)

\* Nothing of this changes.
LEMMA WidthStays ==
  ASSUME WidthInv, AllWide(video_modes_plm'), UNCHANGED <<navi, edit>>
  PROVE  WidthInv'
BY DEF WidthInv

\* What is here.
LEMMA WidthHere == ASSUME NaviInv, WidthInv, Here.m = "advtiming" PROVE Wide(edit)
BY HereIs DEF WidthInv

\* Up and down.
LEMMA MoveWidth == ASSUME NaviInv, CopiesInv, WidthInv, NEW step \in {-1, 1}, Move(step) PROVE WidthInv'
<1> DEFINE mp == (Here.mp + Len(Menus[Here.m]) + step) % Len(Menus[Here.m])
<1>1. /\ navi' = [navi EXCEPT ![navlvl].mp = (@ + Len(Menus[Here.m]) + step) % Len(Menus[Here.m])]
      /\ Render(Here.m, edit) /\ edit' = edit
  BY DEF Move
<1>2. AllWide(video_modes_plm')
  BY <1>1, RenderWide, WidthHere DEF WidthInv
<1>3. \A l \in 0 .. 2 : navi'[l].m = navi[l].m
  BY <1>1, HereIs DEF NaviInv
<1> QED BY <1>1, <1>2, <1>3 DEF WidthInv

\* A menu is left.
LEMMA BackWidth == ASSUME NaviInv, CopiesInv, WidthInv, PREV_MENU PROVE WidthInv'
<1> DEFINE menu == IF navlvl > 0 THEN navi[navlvl - 1].m ELSE ""
<1>1. Render(menu, edit) /\ UNCHANGED <<navi, edit>>
  BY DEF PREV_MENU
<1>2. menu = "advtiming" => Wide(edit)
  BY DEF WidthInv, NaviInv
<1>3. AllWide(video_modes_plm')
  BY <1>1, <1>2, RenderWide DEF WidthInv
<1> QED BY <1>1, <1>3, WidthStays

\* A menu is entered.
LEMMA EnterWidth == ASSUME NaviInv, CopiesInv, WidthInv, Enter PROVE WidthInv'
<1>1. item.menu \in Level(navlvl + 1) /\ navlvl \in 0 .. 2
  BY ItemHere, HereIs DEF Enter
<1> DEFINE k == navlvl + 1
           e == Entered(navi[k], item.menu)
<1>2. k \in 1 .. 2
  BY <1>1 DEF Level
<1>3. navi' = [navi EXCEPT ![k] = e] /\ video_modes_plm' = video_modes_plm
  BY <1>2 DEF Enter, NaviInv
<1>4. e.m = item.menu
  BY DEF Entered
<1> HIDE DEF e
<1>5. \A l \in 0 .. 2 : navi'[l].m = IF l = k THEN item.menu ELSE navi[l].m
  BY <1>2, <1>3, <1>4 DEF NaviInv
<1>6. CASE item.menu = "advtiming"
  <2>1. edit' = Copies(Preset(vm_sel)) /\ vm_sel \in 1 .. 43
    BY <1>6 DEF Enter, CopiesInv
  <2>2. Wide(Preset(vm_sel))
    BY <2>1, PresetIn DEF WidthInv, AllWide
  <2>3. Wide(edit')
    BY <2>1, <2>2, WidthTweaked DEF Wide, Copies
  <2> QED BY <1>3, <2>3 DEF WidthInv
<1>7. CASE item.menu # "advtiming"
  <2>1. edit' = edit
    BY <1>7 DEF Enter
  <2> QED BY <1>3, <1>5, <1>7, <2>1 DEF WidthInv
<1> QED BY <1>6, <1>7

\* How often pixels are repeated that pass through.
Repeats(cc) == "pt_mode" \in DOMAIN cc /\ cc.pt_mode \in Nat

\* Left and right.
LEMMA ValueWidth ==
  ASSUME NaviInv, CopiesInv, WidthInv, Repeats(tc), NEW up, Value(up)
  PROVE  WidthInv' /\ Repeats(tc')
<1>1. navi' = navi
  BY DEF Value
<1>2. CASE /\ item.type = "sel" /\ UNCHANGED <<edit, video_modes_plm>>
           /\ tc' = [tc EXCEPT ![item.data] = Stepped(@, up, item.min, item.max, TRUE)]
  <2>1. item.min \in Nat /\ item.max \in Nat
    <3>1. /\ navlvl \in 0 .. 2 /\ Here.m \in Level(navlvl) /\ Here.mp \in 0 .. Len(Menus[Here.m]) - 1
          /\ item = Menus[Here.m][Here.mp + 1]
      BY HereIs DEF item
    <3>2. item \in Numbers \/ item \in Items(Level(navlvl + 1))
      BY <3>1, ItemOf
    <3> QED BY <1>2, <3>2 DEF Items, Selections, Numbers
  <2> DEFINE v == Stepped(tc[item.data], up, item.min, item.max, TRUE)
  <2>2. tc[item.data] \in Nat => v \in Nat
    BY <2>1 DEF Stepped
  <2>3. tc' = [tc EXCEPT ![item.data] = v]
    BY <1>2
  <2> HIDE DEF v
  <2>4. Repeats(tc')
    BY <2>2, <2>3 DEF Repeats
  <2> QED BY <1>1, <1>2, <2>4 DEF WidthInv
<1>3. CASE /\ item.type = "u16" /\ tc' = tc /\ Tweak(edit')
           /\ edit' = [edit EXCEPT ![item.data] = Stepped(@, up, item.min, item.max, item.min = 0)]
  <2>1. Here.m = "advtiming" /\ item \in Longer
    BY <1>3, ItemLonger
  <2>2. Wide(edit)
    BY <2>1, WidthHere
  <2>3. Wide(edit')
    <3>1. CASE item.data = "h_total"
      <4>1. item.min \in Int /\ item.max \in Int /\ item.min >= 300 /\ item.max >= 300
        BY <2>1, <3>1 DEF Longer, Numbers
      <4>2. edit.h_total \in Int /\ edit.h_total >= 300
        BY <2>2 DEF Wide
      <4> DEFINE v == Stepped(edit.h_total, up, item.min, item.max, item.min = 0)
      <4>3. v \in Int /\ v >= 300
        BY <4>1, <4>2 DEF Stepped
      <4>4. edit' = [edit EXCEPT !["h_total"] = v] /\ "h_total" \in DOMAIN edit
        BY <1>3, <3>1, WidthTweaked DEF CopiesInv
      <4> HIDE DEF v
      <4> QED BY <4>3, <4>4 DEF Wide
    <3>2. CASE item.data # "h_total"
      BY <1>3, <2>2, <3>2, WidthTweaked DEF Wide, CopiesInv
    <3> QED BY <3>1, <3>2
  <2>4. AllWide(video_modes_plm')
    BY <1>3, <2>3, TweakWide DEF WidthInv
  <2> QED BY <1>1, <1>3, <2>3, <2>4 DEF WidthInv
<1>4. CASE UNCHANGED <<tc, edit, video_modes_plm>>
  BY <1>1, <1>4 DEF WidthInv
<1> QED BY <1>2, <1>3, <1>4 DEF Value

\* What the keys do.
LEMMA KeysWidth ==
  ASSUME NaviInv, CopiesInv, WidthInv, Repeats(tc), MenuKeys,
         AllWide(ProfileTable), Repeats(ProfileSettings), Repeats(DefaultSettings)
  PROVE  WidthInv' /\ Repeats(tc')
<1>1. CASE PREV_PAGE \/ NEXT_PAGE
  <2>1. PICK step \in {-1, 1} : Move(step)
    BY <1>1 DEF PREV_PAGE, NEXT_PAGE
  <2>2. tc' = tc
    BY <2>1 DEF Move, Untouched
  <2> QED BY <2>1, <2>2, MoveWidth
<1>2. CASE PREV_MENU
  <2>1. tc' = tc
    BY <1>2 DEF PREV_MENU, Untouched
  <2> QED BY <1>2, <2>1, BackWidth
<1>3. CASE Enter
  <2>1. tc' = tc
    BY <1>3 DEF Enter, Untouched
  <2> QED BY <1>3, <2>1, EnterWidth
<1>4. CASE CallFunction
  <2>1. UNCHANGED <<navi, edit>>
    BY <1>4 DEF CallFunction
  <2>2. AllWide(video_modes_plm') /\ Repeats(tc')
    BY <1>4, EmptyWide DEF CallFunction, Replace, WidthInv
  <2> QED BY <2>1, <2>2, WidthStays
<1>5. CASE VAL_MINUS \/ VAL_PLUS
  <2>1. PICK up : Value(up)
    BY <1>5 DEF VAL_MINUS, VAL_PLUS
  <2> QED BY <2>1, ValueWidth
<1>6. CASE RC_MENU
  <2>1. UNCHANGED <<navi, edit, tc>> /\ Render(IF menu_active THEN "" ELSE Here.m, edit)
    BY <1>6 DEF RC_MENU, Untouched
  <2>2. AllWide(video_modes_plm')
    BY <2>1, RenderWide, WidthHere DEF WidthInv
  <2> QED BY <2>1, <2>2, WidthStays
<1>7. CASE RC_PHASE
  <2>1. UNCHANGED <<navi, tc>>
    BY <1>7 DEF RC_PHASE, Untouched
  <2>2. AllWide(video_modes_plm') /\ (Wide(edit) => Wide(edit'))
    BY <1>7, PhaseWide, WidthHere DEF WidthInv
  <2> QED BY <2>1, <2>2 DEF WidthInv
<1>8. CASE LoadProfile
  <2>1. UNCHANGED <<navi, edit>>
    BY <1>8 DEF LoadProfile
  <2>2. AllWide(video_modes_plm') /\ Repeats(tc')
    BY <1>8 DEF LoadProfile, Replace
  <2> QED BY <2>1, <2>2, WidthStays
<1> QED BY <1>1, <1>2, <1>3, <1>4, <1>5, <1>6, <1>7, <1>8 DEF MenuKeys, OPT_SELECT

--------------------------------------------------------------------------------
\* The mode programmed is locked to its signal; the invariant under which the next one will be.
LockedInv ==
  /\ PresetInv /\ WidthInv /\ Repeats(tc)
  /\ vmode # None => LockedTo(vmode, signal)

\* Every field that multiplication reads is one that the page shows or that the choice depends on.
LEMMA TimingsThere ==
  ASSUME CopiesInv, NEW i \in 1 .. 43
  PROVE  Timings \subseteq DOMAIN Preset(i)
<1>1. Timings \subseteq Shown \cup KeptFields
  BY DEF Timings, Shown, KeptFields
<1> QED BY <1>1, PresetIn, TableFields, DefaultFields DEF CopiesInv

\* What the main loop programs is locked.
LEMMA ModeLocked ==
  ASSUME CopiesInv, Alike(video_modes_plm), AllWide(video_modes_plm), Repeats(tc), NEW s, Signalled(s), NEW again,
         program_mode(s, again)
  PROVE  vmode' # None => LockedTo(vmode', signal')
<1> DEFINE id == FoundPreset(tc, s)
<1>1. cm.id \in 1 .. 43
  BY DEF CopiesInv
<1>2. id = 0 => vmode' = None
  BY <1>1, Programs
<1>3. ASSUME id # 0 PROVE LockedTo(vmode', signal')
  <2>1. TableKept
    BY AlikeKept
  <2>2. s.v_total \in Int /\ s.v_hz_x100 \in Int
    BY DEF Signalled
  <2>3. id \in 1 .. 43 /\ Offered(tc, s, id)
    BY <1>3, <2>1, <2>2, SearchFinds
  <2>4. valid_lm(tc, Preset(id).group) \cap Preset(id).flags # {}
    BY <2>3 DEF Offered
  <2>5. Preset(id).flags \subseteq Flags
    BY <2>1, <2>3, Count, FlagsKnown DEF TableKept
  <2>6. Wide(Preset(id))
    BY <2>3, PresetIn DEF AllWide
  <2>7. Timings \subseteq DOMAIN Preset(id)
    BY <2>3, TimingsThere
  <2>8. tc.pt_mode \in Nat
    BY DEF Repeats
  <2> QED BY <1>3, <2>4, <2>5, <2>6, <2>7, <2>8, ProgramsLocked
<1> QED BY <1>2, <1>3

\* No line has been put out at first.
LEMMA LockedStarts == ASSUME Alike(ProfileTable), AllWide(ProfileTable), Repeats(tc), MenuInit PROVE LockedInv
<1>1. PresetInv
  BY PresetsStart
<1>2. AllWide(video_modes_plm)
  BY EmptyWide DEF MenuInit
<1>3. \A l \in 0 .. 2 : navi[l].m # "advtiming"
  BY DEF MenuInit
<1>4. vmode = None
  BY DEF MenuInit
<1> QED BY <1>1, <1>2, <1>3, <1>4 DEF LockedInv, WidthInv

\* Every step keeps the invariant.
LEMMA LockedStep ==
  ASSUME NEW Signals, \A s \in Signals : Signalled(s), Alike(ProfileTable), AllWide(ProfileTable),
         Repeats(ProfileSettings), Repeats(DefaultSettings), LockedInv, [MenuNext(Signals)]_menuVars
  PROVE  LockedInv'
<1>1. /\ NaviInv /\ CopiesInv /\ Alike(video_modes_plm) /\ AllWide(video_modes_plm) /\ WidthInv /\ Repeats(tc)
      /\ PresetInv /\ (vmode # None => LockedTo(vmode, signal))
  BY DEF LockedInv, PresetInv, MenuInv, WidthInv
<1>2. PresetInv'
  <2>1. \A s \in Signals : s.v_total \in Int /\ s.v_hz_x100 \in Int
    BY DEF Signalled
  <2> QED BY <1>1, <2>1, PresetsStep
<1>3. CASE MenuKeys
  <2>1. WidthInv' /\ Repeats(tc')
    BY <1>1, <1>3, KeysWidth
  <2>2. vmode' = vmode /\ signal' = signal
    BY <1>3, KeysKeepMode DEF KeepsMode
  <2> QED BY <1>1, <1>2, <2>1, <2>2 DEF LockedInv
<1>4. CASE ModeChange(Signals)
  <2>1. PICK s \in Signals : program_mode(s, update_cur_vm)
    BY <1>4 DEF ModeChange
  <2>2. vmode' # None => LockedTo(vmode', signal')
    BY <1>1, <2>1, ModeLocked
  <2>3. UNCHANGED <<tc, video_modes_plm, navi, edit>>
    BY <1>4, <2>1 DEF ModeChange, program_mode
  <2>4. WidthInv'
    BY <1>1, <2>3, WidthStays
  <2> QED BY <1>1, <1>2, <2>2, <2>3, <2>4 DEF LockedInv
<1>5. CASE UNCHANGED menuVars
  <2>1. UNCHANGED <<tc, video_modes_plm, navi, edit, vmode, signal>>
    BY <1>5 DEF menuVars, lmVars
  <2>2. WidthInv'
    BY <1>1, <2>1, WidthStays
  <2> QED BY <1>1, <1>2, <2>1, <2>2 DEF LockedInv
<1> QED BY <1>3, <1>4, <1>5 DEF MenuNext

(* The output is locked to the input, in half of what OutputFollowsInput   *)
(* says: as many output clocks pass in a frame as the multiplied sampling  *)
(* clock gives in a frame of the input, whatever the settings and the      *)
(* timings edited on the way, for any signals of at least 8000 lines in a  *)
(* second, if the presets of the profile have lines of at least 300, as    *)
(* the page allows, and the lines, rates, groups and flags of the default  *)
(* ones.                                                                   *)
THEOREM MenuLocksOutput ==
  ASSUME NEW Signals, \A s \in Signals : Signalled(s), Alike(ProfileTable), AllWide(ProfileTable),
         Repeats(ProfileSettings), Repeats(DefaultSettings)
  PROVE  Repeats(tc) /\ MenuSpec(Signals) => [](vmode # None => Locked)
<1>1. Repeats(tc) /\ MenuInit => LockedInv
  BY LockedStarts
<1>2. LockedInv /\ [MenuNext(Signals)]_menuVars => LockedInv'
  BY LockedStep
<1>3. LockedInv => (vmode # None => Locked)
  BY DEF LockedInv, LockedTo, Locked
<1> QED BY <1>1, <1>2, <1>3, PTL DEF MenuSpec

--------------------------------------------------------------------------------
(* What fits stays fitting *)

\* Timings that are numbers, and of which the active part lies inside line and frame.
Sized(t) ==
  /\ Timings \subseteq DOMAIN t
  /\ t.h_synclen \in Nat /\ t.h_backporch \in Nat /\ t.h_active \in Nat /\ t.h_total \in Nat /\ t.h_total_adj = 0
  /\ t.v_synclen \in Nat /\ t.v_backporch \in Nat /\ t.v_active \in Nat /\ t.v_total \in Nat
  /\ t.interlaced \in {0, 1}
LineFits(t) == t.h_synclen + t.h_backporch + t.h_active <= t.h_total
FrameFits(t) == t.v_synclen + t.v_backporch + t.v_active <= t.v_total \div (1 + t.interlaced)

\* As many times the parts, as many times the whole.
LEMMA PartsOfWhole ==
  ASSUME NEW s \in Nat, NEW b \in Nat, NEW a \in Nat, NEW t \in Nat, NEW n \in Nat, s + b + a <= t
  PROVE  s * n + b * n + a * n <= n * t /\ s * n \in Nat /\ b * n \in Nat /\ a * n \in Nat /\ n * t \in Nat
<1>1. \A x \in Nat : x * n \in Nat
  BY SMT
<1> DEFINE d == t - (s + b + a)
<1>2. d \in Nat
  BY SMT
<1>3. d * n \in Nat
  BY <1>1, <1>2
<1>4. n * t = s * n + b * n + a * n + d * n
  BY SMT
<1>5. s * n \in Nat /\ b * n \in Nat /\ a * n \in Nat
  BY <1>1
<1> HIDE DEF d
<1> QED BY <1>3, <1>4, <1>5, SMT

\* So is every field of a frame if they make up one field of the signal.
LEMMA FieldOfFrame ==
  ASSUME NEW V \in Nat, NEW i \in {0, 1}, NEW v \in 1 .. 6
  PROVE  v * (V \div (1 + i)) <= (IF i = 1 /\ v % 2 = 0 THEN V * (v \div 2) ELSE V * v)
                                   \div (1 + (IF i = 1 /\ v % 2 = 0 THEN 0 ELSE i))
<1>1. CASE i = 0
  BY <1>1, SMT
<1>2. CASE i = 1
  <2>1. v \in {1, 2, 3, 4, 5, 6}
    BY SMT
  <2> QED BY <1>2, <2>1, SMT
<1> QED BY <1>1, <1>2

\* What multiplication keeps and makes of the active part.
GrowsTo(t, h, v, r) ==
  /\ Sized(r) /\ r.h_active = Capped(t.h_active * h, 2560) /\ r.v_active = Capped(t.v_active * v, 1728)
  /\ r.h_total = h * t.h_total
  /\ (LineFits(t) => LineFits(r)) /\ (FrameFits(t) => FrameFits(r))

\* vmode_hv_mult keeps the active part inside line and frame.
LEMMA MultipliedFits ==
  ASSUME NEW t, Sized(t), NEW h \in Nat, NEW v \in 1 .. 6
  PROVE  GrowsTo(t, h, v, vmode_hv_mult(t, h, v))
<1> SUFFICES ASSUME NEW r, r = vmode_hv_mult(t, h, v) PROVE GrowsTo(t, h, v, r)
  OBVIOUS
<1> DEFINE hs == t.h_synclen * h
           hb == t.h_backporch * h
           ha == t.h_active * h
           vs == t.v_synclen * v
           vb == t.v_backporch * v
           va == t.v_active * v
<1>1. /\ t.h_synclen \in Nat /\ t.h_backporch \in Nat /\ t.h_active \in Nat /\ t.h_total \in Nat
      /\ t.v_synclen \in Nat /\ t.v_backporch \in Nat /\ t.v_active \in Nat /\ t.v_total \in Nat
      /\ t.interlaced \in {0, 1} /\ v \in Nat
  BY SMT DEF Sized
<1>2. Timed(t)
  BY <1>1, SMT DEF Sized, Timed
<1>3. /\ DOMAIN r = DOMAIN t /\ r.h_total = h * t.h_total /\ r.h_total_adj = 0
      /\ r.v_total = (IF t.interlaced = 1 /\ v % 2 = 0 THEN t.v_total * (v \div 2) ELSE t.v_total * v)
      /\ r.interlaced = (IF t.interlaced = 1 /\ v % 2 = 0 THEN 0 ELSE t.interlaced)
  <2>1. h \in Int /\ v \in Int
    BY SMT
  <2> QED BY <1>2, <2>1, Multiplied
<1>4. /\ r.h_synclen = Capped(hs, 255) /\ r.h_backporch = Capped(hb + hs - Capped(hs, 255), 511)
      /\ r.h_active = Capped(ha, 2560)
  BY SMT DEF vmode_hv_mult, Sized, Timings
<1>5. /\ r.v_synclen = Capped(vs, 15) /\ r.v_backporch = Capped(vb + vs - Capped(vs, 15), 511)
      /\ r.v_active = Capped(va, 1728)
  BY SMT DEF vmode_hv_mult, Sized, Timings
<1>6. \A x, y \in Nat : x * y \in Nat
  BY SMT
<1>7. hs \in Nat /\ hb \in Nat /\ ha \in Nat /\ vs \in Nat /\ vb \in Nat /\ va \in Nat
  BY <1>1, <1>6
<1>8. LineFits(t) => hs + hb + ha <= h * t.h_total
  BY <1>1, PartsOfWhole DEF LineFits
<1> DEFINE field == t.v_total \div (1 + t.interlaced)
<1>9. field \in Nat
  BY <1>1, SMT
<1>10. FrameFits(t) => vs + vb + va <= v * field
  <2> HIDE DEF field
  <2> QED BY <1>1, <1>9, PartsOfWhole DEF FrameFits, field
<1>11. v * field <= r.v_total \div (1 + r.interlaced)
  BY <1>1, <1>3, FieldOfFrame
<1>12. r.v_total \in Nat /\ r.interlaced \in {0, 1} /\ h * t.h_total \in Nat
  <2>1. v \div 2 \in Nat
    BY SMT
  <2> QED BY <1>1, <1>3, <1>6, <2>1
<1> HIDE DEF hs, hb, ha, vs, vb, va
<1>13. /\ r.h_synclen \in Nat /\ r.h_backporch \in Nat /\ r.h_active \in Nat
       /\ r.h_synclen + r.h_backporch + r.h_active <= hs + hb + ha
  <2> DEFINE a == Capped(hs, 255)
             b == Capped(hb + hs - a, 511)
             c == Capped(ha, 2560)
  <2>1. a \in Nat /\ b \in Nat /\ c \in Nat /\ a + b + c <= hs + hb + ha
    BY <1>7, SMT DEF Capped
  <2>2. r.h_synclen = a /\ r.h_backporch = b /\ r.h_active = c
    BY <1>4
  <2> HIDE DEF a, b, c
  <2> QED BY <2>1, <2>2
<1>14. /\ r.v_synclen \in Nat /\ r.v_backporch \in Nat /\ r.v_active \in Nat
       /\ r.v_synclen + r.v_backporch + r.v_active <= vs + vb + va
  <2> DEFINE a == Capped(vs, 15)
             b == Capped(vb + vs - a, 511)
             c == Capped(va, 1728)
  <2>1. a \in Nat /\ b \in Nat /\ c \in Nat /\ a + b + c <= vs + vb + va
    BY <1>7, SMT DEF Capped
  <2>2. r.v_synclen = a /\ r.v_backporch = b /\ r.v_active = c
    BY <1>5
  <2> HIDE DEF a, b, c
  <2> QED BY <2>1, <2>2
<1>15. Sized(r)
  BY <1>3, <1>12, <1>13, <1>14 DEF Sized
<1>16. LineFits(t) => LineFits(r)
  BY <1>3, <1>7, <1>8, <1>12, <1>13, SMT DEF LineFits
<1>17. FrameFits(t) => FrameFits(r)
  <2> DEFINE a == v * field
             b == r.v_total \div (1 + r.interlaced)
  <2>1. a \in Int /\ b \in Int
    <3>1. a \in Nat
      BY <1>1, <1>6, <1>9
    <3>2. b \in Int
      BY <1>12, SMT
    <3> QED BY <3>1, <3>2
  <2>2. a <= b
    BY <1>11
  <2>3. FrameFits(t) => vs + vb + va <= a
    BY <1>10
  <2> HIDE DEF a, field
  <2>4. FrameFits(t) => r.v_synclen + r.v_backporch + r.v_active <= b
    <3> HIDE DEF b
    <3> QED BY <1>7, <1>14, <2>1, <2>2, <2>3, SMT
  <2> QED BY <2>4 DEF FrameFits
<1> QED BY <1>3, <1>4, <1>5, <1>15, <1>16, <1>17 DEF ha, va, GrowsTo

\* A picture that lies inside the active part of the output, which lies inside line and frame.
FitsIn(pic, full) ==
  LET o == pic.out
  IN  /\ pic.x_offset >= 0 /\ pic.x_offset + pic.x_size <= o.h_active
      /\ pic.y_offset >= 0 /\ pic.y_offset + pic.y_size <= o.v_active
      /\ LineFits(o) /\ (full => FrameFits(o))

\* Five lines have a format of their own, unless those of 288p at its width.
OwnFormat(cc, lm, p) == lm[1] = 5 /\ ~ (lm = L5_GEN_4_3 /\ p.group = "288P") /\ cc.l5_fmt # 1

\* What is centred in something larger lies inside it.
LEMMA Centred == ASSUME NEW a \in Int, NEW b \in Int, a <= b PROVE (b - a) \div 2 >= 0 /\ (b - a) \div 2 + a <= b
BY SMT

\* The width of the picture, of which the sides are cut off nowhere.
WidthOf(lm, in, x, x_wide) == IF lm = L3_GEN_4_3 THEN x_wide ELSE in.h_active * (x + 1)

\* The picture is placed inside the output, if that is large enough.
LEMMA PlacedFits ==
  ASSUME NEW cc, NEW lm \in Flags, NEW p, p.ar_h = 0, p.ar_v = 0, NEW out, Sized(out), LineFits(out),
         out.h_active <= 2640, NEW in, in.h_active \in Nat, NEW x \in Nat, NEW x_wide \in Nat,
         WidthOf(lm, in, x, x_wide) \in Nat, WidthOf(lm, in, x, x_wide) <= out.h_active,
         OwnFormat(cc, lm, p)
           => WidthOf(lm, in, x, x_wide) <= 1920 /\ out.h_total >= 1920 /\ out.v_active >= 1080,
         NEW full \in BOOLEAN, full => FrameFits(out)
  PROVE  FitsIn(Placed(cc, lm, p, out, in, x, x_wide), full)
<1> SUFFICES ASSUME NEW pic, pic = Placed(cc, lm, p, out, in, x, x_wide) PROVE FitsIn(pic, full)
  OBVIOUS
<1> DEFINE size == WidthOf(lm, in, x, x_wide)
<1>size. /\ size = IF lm = L3_GEN_4_3 THEN x_wide ELSE in.h_active * (x + 1)
         /\ size \in Nat /\ size <= out.h_active
         /\ OwnFormat(cc, lm, p) => size <= 1920 /\ out.h_total >= 1920 /\ out.v_active >= 1080
  BY DEF WidthOf
<1> HIDE DEF size
<1> USE <1>size
<1> DEFINE y_rpt == lm[1] - 1
           x_size == IF lm = L3_GEN_4_3 THEN x_wide ELSE (in.h_active - 2 * p.ar_h) * (x + 1)
           y_size == out.v_active - 2 * p.ar_v * (y_rpt + 1)
           wide == y_rpt = 4 /\ ~ (lm = L5_GEN_4_3 /\ p.group = "288P") /\ cc.l5_fmt # 1
           low == wide /\ cc.l5_fmt = 0
           a == ((out.h_total - 1920) \div 4) % 256
           b == ((out.h_total - 1920) \div 2) % 65536
           c == out.v_backporch + 5 * ((out.v_active - 1080) \div 10)
           o == IF ~ wide THEN out ELSE [out EXCEPT !.h_synclen = a, !.h_backporch = b, !.h_active = 1920]
           o5 == IF ~ low THEN o ELSE [o EXCEPT !.v_backporch = c, !.v_active = 1080]
           w == IF wide THEN 1920 ELSE out.h_active
<1>1. lm[1] \in 1 .. 6
  BY SMT DEF Flags, PT
<1>2. /\ pic.out = o5 /\ pic.x_offset = (w - x_size) \div 2 /\ pic.x_size = x_size % 65536
      /\ pic.y_offset = (out.v_active - y_size) \div 2
      /\ pic.y_size = (IF low THEN 1080 - 2 * p.ar_v * (y_rpt + 1) ELSE y_size)
  BY SMT DEF Placed
<1>3. wide <=> OwnFormat(cc, lm, p)
  BY <1>1, SMT DEF OwnFormat
<1>4. /\ out.h_synclen \in Nat /\ out.h_backporch \in Nat /\ out.h_active \in Nat /\ out.h_total \in Nat
      /\ out.v_synclen \in Nat /\ out.v_backporch \in Nat /\ out.v_active \in Nat /\ out.v_total \in Nat
      /\ Timings \subseteq DOMAIN out /\ out.interlaced \in {0, 1}
  BY SMT DEF Sized
<1>5. x_size = size
  BY SMT
<1>6. y_size = out.v_active /\ 2 * p.ar_v * (y_rpt + 1) = 0
  BY <1>1, <1>4, SMT
<1>7. size <= w /\ size < 65536 /\ w \in Nat
  BY <1>3, <1>4, SMT
<1> HIDE DEF x_size, y_size
<1>8. /\ pic.x_offset = (w - size) \div 2 /\ pic.x_size = size /\ pic.y_offset = 0
      /\ pic.y_size = (IF low THEN 1080 ELSE out.v_active)
  <2>1. size % 65536 = size
    BY <1>7, SMT
  <2>2. (out.v_active - out.v_active) \div 2 = 0
    BY <1>4, SMT
  <2>3. 1080 - 2 * p.ar_v * (y_rpt + 1) = 1080
    BY <1>6, SMT
  <2> HIDE DEF w, low
  <2> QED BY <1>2, <1>5, <1>6, <2>1, <2>2, <2>3
<1> HIDE DEF wide
<1>9. /\ a \in Nat /\ b \in Nat
      /\ wide => a + b + 1920 <= out.h_total
  <2>1. a \in Nat /\ b \in Nat
    BY <1>4, SMT
  <2>2. ASSUME wide PROVE a + b + 1920 <= out.h_total
    <3> DEFINE d == out.h_total - 1920
    <3>1. d \in Nat
      BY <1>3, <1>4, <2>2, SMT
    <3>2. (d \div 4) % 256 <= d \div 4 /\ (d \div 2) % 65536 <= d \div 2 /\ d \div 4 + d \div 2 <= d
      <4> HIDE DEF d
      <4> QED BY <3>1, SMT
    <3>3. a = (d \div 4) % 256 /\ b = (d \div 2) % 65536
      OBVIOUS
    <3>4. d \div 4 \in Int /\ d \div 2 \in Int
      BY <3>1, SMT
    <3>5. d = out.h_total - 1920
      OBVIOUS
    <3> HIDE DEF d, a, b
    <3> QED BY <1>4, <2>1, <3>1, <3>2, <3>3, <3>4, <3>5, SMT
  <2> QED BY <2>1, <2>2
<1> HIDE DEF a, b
<1>10. /\ o.h_total = out.h_total /\ o.h_active = w /\ DOMAIN o = DOMAIN out
       /\ o.v_synclen = out.v_synclen /\ o.v_backporch = out.v_backporch /\ o.v_active = out.v_active
       /\ o.v_total = out.v_total /\ o.interlaced = out.interlaced
       /\ o.h_synclen = (IF wide THEN a ELSE out.h_synclen) /\ o.h_backporch = (IF wide THEN b ELSE out.h_backporch)
  BY <1>4, SMT DEF Timings
<1> HIDE DEF o
<1>11. /\ o5.h_total = out.h_total /\ o5.h_active = w /\ o5.h_synclen = o.h_synclen /\ o5.h_backporch = o.h_backporch
       /\ o5.v_synclen = out.v_synclen /\ o5.v_total = out.v_total /\ o5.interlaced = out.interlaced
       /\ o5.v_backporch = (IF low THEN c ELSE out.v_backporch) /\ o5.v_active = (IF low THEN 1080 ELSE out.v_active)
  <2> HIDE DEF w, low, c
  <2> QED BY <1>4, <1>10, SMT DEF Timings
<1> HIDE DEF o5
<1>12. LineFits(o5)
  BY <1>4, <1>9, <1>10, <1>11, SMT DEF LineFits
<1>13. low => c + 1080 <= out.v_backporch + out.v_active /\ c \in Int
  <2>1. ASSUME low PROVE out.v_active >= 1080
    BY <1>3, <2>1
  <2> DEFINE e == out.v_active - 1080
  <2>2. low => 5 * (e \div 10) <= e /\ e \div 10 \in Int /\ e \in Int
    BY <1>4, <2>1, SMT
  <2> QED BY <1>4, <2>2, SMT
<1> HIDE DEF c
<1>14. full => FrameFits(o5)
  <2> DEFINE f == out.v_total \div (1 + out.interlaced)
  <2>1. f \in Int
    BY <1>4, SMT
  <2>2. full => out.v_synclen + out.v_backporch + out.v_active <= f
    BY DEF FrameFits
  <2> HIDE DEF f
  <2>3. full => o5.v_synclen + o5.v_backporch + o5.v_active <= f
    BY <1>4, <1>11, <1>13, <2>1, <2>2, SMT
  <2> QED BY <1>11, <2>3 DEF FrameFits, f
<1>15. (w - size) \div 2 >= 0 /\ (w - size) \div 2 + size <= w
  <2> HIDE DEF w
  <2> QED BY <1>7, Centred
<1>16. pic.x_offset >= 0 /\ pic.x_offset + pic.x_size <= o5.h_active
  <2> HIDE DEF w
  <2> QED BY <1>8, <1>11, <1>15
<1>17. pic.y_offset >= 0 /\ pic.y_offset + pic.y_size <= o5.v_active
  <2> HIDE DEF low, w
  <2>1. CASE low
    BY <1>8, <1>11, <2>1
  <2>2. CASE ~ low
    BY <1>4, <1>8, <1>11, <2>2
  <2> QED BY <2>1, <2>2
<1>18. pic.out = o5
  <2> HIDE DEF w, low
  <2> QED BY <1>2
<1> HIDE DEF w, low
<1>19. LineFits(pic.out) /\ (full => FrameFits(pic.out))
  BY <1>12, <1>14, <1>18
<1>20. pic.x_offset + pic.x_size <= pic.out.h_active /\ pic.y_offset + pic.y_size <= pic.out.v_active
  BY <1>16, <1>17, <1>18
<1> QED BY <1>16, <1>17, <1>19, <1>20, SMT DEF FitsIn

--------------------------------------------------------------------------------
(* The presets of the table *)

\* The default presets fit.
LEMMA PresetsFit ==
  \A i \in 1 .. 43 : /\ Sized(Default(i)) /\ LineFits(Default(i)) /\ FrameFits(Default(i))
                     /\ Default(i).ar_h = 0 /\ Default(i).ar_v = 0
<1>1. \A i \in 1 .. 43 : LineFits(Default(i))
  BY SMTT(60) DEF video_modes_plm_default, P, Default, LineFits
<1>2. \A i \in 1 .. 43 : FrameFits(Default(i))
  BY SMTT(60) DEF video_modes_plm_default, P, Default, FrameFits
<1>3. \A i \in 1 .. 43 : Default(i).ar_h = 0 /\ Default(i).ar_v = 0 /\ Default(i).h_total_adj = 0
  BY SMTT(60) DEF video_modes_plm_default, P, Default
<1>4. \A i \in 1 .. 43 : /\ Default(i).h_synclen \in Nat /\ Default(i).h_backporch \in Nat
                         /\ Default(i).h_active \in Nat /\ Default(i).h_total \in Nat
  BY SMTT(60) DEF video_modes_plm_default, P, Default
<1>5. \A i \in 1 .. 43 : /\ Default(i).v_synclen \in Nat /\ Default(i).v_backporch \in Nat
                         /\ Default(i).v_active \in Nat /\ Default(i).v_total \in Nat
  BY SMTT(60) DEF video_modes_plm_default, P, Default
<1>6. \A i \in 1 .. 43 : Timings \subseteq DOMAIN Default(i)
  <2>1. Timings \subseteq Shown \cup KeptFields
    BY DEF Timings, Shown, KeptFields
  <2> QED BY <2>1, DefaultFields
<1>7. \A i \in 1 .. 43 : Default(i).interlaced \in {0, 1}
  BY TableTyped
<1> QED BY <1>1, <1>2, <1>3, <1>4, <1>5, <1>6, <1>7 DEF Sized

\* The flags of the table.
Plainly == {PT, L2, L2_240x360, L3_GEN_16_9, L3_GEN_4_3, L3_240x360, L4_GEN_4_3, L5_GEN_4_3, L6_GEN_4_3}
LEMMA FlagsListed ==
  \A i \in 1 .. 43 : Default(i).flags \subseteq
     Plainly \cup Columns("512") \cup Columns("384") \cup Columns("320") \cup Columns("256")
BY SMTT(60) DEF video_modes_plm_default, P, Default, Plainly

\* Which presets they are of.
LEMMA FlagsOf ==
  /\ \A i \in 1 .. 43 : \A y : <<y, "512">> \in Default(i).flags => i \in {4, 11}
  /\ \A i \in 1 .. 43 : \A y : <<y, "384">> \in Default(i).flags => i \in {5, 12}
  /\ \A i \in 1 .. 43 : \A y : <<y, "320">> \in Default(i).flags => i \in {6, 13}
  /\ \A i \in 1 .. 43 : \A y : <<y, "256">> \in Default(i).flags => i \in {7, 14}
  /\ \A i \in 1 .. 43 : \A y : <<y, "240x360">> \in Default(i).flags => i = 17
  /\ \A i \in 1 .. 43 : L5_GEN_4_3 \in Default(i).flags => i \in {1, 10}
  /\ \A i \in 1 .. 43 : L3_GEN_4_3 \in Default(i).flags => i \in {3, 10}
<1> USE DEF video_modes_plm_default, P, Default, Columns, PT, L2, L2_240x360, L3_GEN_16_9, L3_GEN_4_3, L3_240x360,
            L4_GEN_4_3, L5_GEN_4_3, L6_GEN_4_3
<1>1. \A i \in 1 .. 43 : \A y : <<y, "512">> \in Default(i).flags => i \in {4, 11}
  BY SMTT(60)
<1>2. \A i \in 1 .. 43 : \A y : <<y, "384">> \in Default(i).flags => i \in {5, 12}
  BY SMTT(60)
<1>3. \A i \in 1 .. 43 : \A y : <<y, "320">> \in Default(i).flags => i \in {6, 13}
  BY SMTT(60)
<1>4. \A i \in 1 .. 43 : \A y : <<y, "256">> \in Default(i).flags => i \in {7, 14}
  BY SMTT(60)
<1>5. \A i \in 1 .. 43 : \A y : <<y, "240x360">> \in Default(i).flags => i = 17
  BY SMTT(60)
<1>6. \A i \in 1 .. 43 : L5_GEN_4_3 \in Default(i).flags => i \in {1, 10}
  BY SMTT(60)
<1>7. \A i \in 1 .. 43 : L3_GEN_4_3 \in Default(i).flags => i \in {3, 10}
  BY SMTT(60)
<1> HIDE DEF video_modes_plm_default, P, Default, Columns, PT, L2, L2_240x360, L3_GEN_16_9, L3_GEN_4_3, L3_240x360,
             L4_GEN_4_3, L5_GEN_4_3, L6_GEN_4_3
<1> QED BY <1>1, <1>2, <1>3, <1>4, <1>5, <1>6, <1>7

\* The timings of those.
LEMMA TimingsOf ==
  /\ \A i \in {4, 11} : Default(i).h_active = 512 /\ Default(i).h_total = 682 /\ Default(i).v_active = 240
  /\ \A i \in {5, 12} : Default(i).h_active = 384 /\ Default(i).h_total = 512 /\ Default(i).v_active = 240
  /\ \A i \in {6, 13} : Default(i).h_active = 320 /\ Default(i).h_total = 426 /\ Default(i).v_active = 240
  /\ \A i \in {7, 14} : Default(i).h_active = 256 /\ Default(i).h_total = 341 /\ Default(i).v_active = 240
  /\ Default(17).h_active = 240 /\ Default(17).h_total = 300 /\ Default(17).h_synclen = 18 /\ Default(17).h_backporch = 32
  /\ Default(1).h_active = 1600 /\ Default(1).h_total = 2046 /\ Default(1).v_active = 240
  /\ Default(10).h_active = 960 /\ Default(10).group = "288P" /\ Default(3).h_active = 960
<1>1. \A i \in {4, 11} : Default(i).h_active = 512 /\ Default(i).h_total = 682 /\ Default(i).v_active = 240
  BY SMTT(60) DEF video_modes_plm_default, P, Default
<1>2. \A i \in {5, 12} : Default(i).h_active = 384 /\ Default(i).h_total = 512 /\ Default(i).v_active = 240
  BY SMTT(60) DEF video_modes_plm_default, P, Default
<1>3. \A i \in {6, 13} : Default(i).h_active = 320 /\ Default(i).h_total = 426 /\ Default(i).v_active = 240
  BY SMTT(60) DEF video_modes_plm_default, P, Default
<1>4. \A i \in {7, 14} : Default(i).h_active = 256 /\ Default(i).h_total = 341 /\ Default(i).v_active = 240
  BY SMTT(60) DEF video_modes_plm_default, P, Default
<1>5. Default(17).h_active = 240 /\ Default(17).h_total = 300 /\ Default(17).h_synclen = 18 /\ Default(17).h_backporch = 32
  BY SMTT(60) DEF video_modes_plm_default, P, Default
<1>6. Default(1).h_active = 1600 /\ Default(1).h_total = 2046 /\ Default(1).v_active = 240
  BY SMTT(60) DEF video_modes_plm_default, P, Default
<1>7. Default(10).h_active = 960 /\ Default(10).group = "288P" /\ Default(3).h_active = 960
  BY SMTT(60) DEF video_modes_plm_default, P, Default
<1> QED BY <1>1, <1>2, <1>3, <1>4, <1>5, <1>6, <1>7

\* No line is too long, nor one whose pixels may be doubled.
LEMMA WidthsOf ==
  /\ \A i \in 1 .. 43 : Default(i).h_active <= 1920
  /\ \A i \in 1 .. 43 : L2 \in Default(i).flags /\ (Default(i).group # "1080I" \/ Default(i).h_total < 1200)
       => Default(i).h_active <= 1280
  /\ \A i \in 1 .. 43 : Default(i).group \in {"480I", "576I"} => Default(i).h_active <= 1280
<1>1. \A i \in 1 .. 43 : Default(i).h_active <= 1920
  BY SMTT(60) DEF video_modes_plm_default, P, Default
<1>2. \A i \in 1 .. 43 : L2 \in Default(i).flags /\ (Default(i).group # "1080I" \/ Default(i).h_total < 1200)
       => Default(i).h_active <= 1280
  BY SMTT(60) DEF video_modes_plm_default, P, Default, Columns, PT, L2, L2_240x360, L3_GEN_16_9, L3_GEN_4_3, L3_240x360,
            L4_GEN_4_3, L5_GEN_4_3, L6_GEN_4_3
<1>3. \A i \in 1 .. 43 : Default(i).group \in {"480I", "576I"} => Default(i).h_active <= 1280
  BY SMTT(60) DEF video_modes_plm_default, P, Default
<1> QED BY <1>1, <1>2, <1>3

\* How often columns are skipped, for each way.
LEMMA SkippedOf ==
  ASSUME NEW lm, NEW y \in 2 .. 6, y = lm[1]
  PROVE  /\ lm[2] = "512" => Skipped(lm) \in 1 .. 2 /\ (y = 5 => Skipped(lm) = 2)
         /\ lm[2] = "384" => Skipped(lm) \in 1 .. 3 /\ (y = 5 => Skipped(lm) = 3)
         /\ lm[2] = "320" => Skipped(lm) \in 1 .. 4 /\ (y = 5 => Skipped(lm) = 4)
         /\ lm[2] = "256" => Skipped(lm) = (IF y = 2 THEN 2 ELSE IF y = 6 THEN 3 ELSE IF y = 5 THEN 5 ELSE 4)
<1> USE DEF Skipped, L2_240x360, L3_240x360
<1>1. lm[2] = "512" => Skipped(lm) = <<1, 1, 1, 2, 1>>[y - 1]
  BY SMT
<1>2. lm[2] = "384" => Skipped(lm) = <<1, 2, 2, 3, 2>>[y - 1]
  BY SMT
<1>3. lm[2] = "320" => Skipped(lm) = <<1, 3, 3, 4, 2>>[y - 1]
  BY SMT
<1>4. lm[2] = "256" => Skipped(lm) = <<2, 4, 4, 5, 3>>[y - 1]
  BY SMT
<1> HIDE DEF Skipped
<1>5. y \in {2, 3, 4, 5, 6}
  BY SMT
<1>6. lm[2] = "512" => Skipped(lm) \in 1 .. 2 /\ (y = 5 => Skipped(lm) = 2)
  BY <1>1, <1>5, SMT
<1>7. lm[2] = "384" => Skipped(lm) \in 1 .. 3 /\ (y = 5 => Skipped(lm) = 3)
  BY <1>2, <1>5, SMT
<1>8. lm[2] = "320" => Skipped(lm) \in 1 .. 4 /\ (y = 5 => Skipped(lm) = 4)
  BY <1>3, <1>5, SMT
<1>9. lm[2] = "256" => Skipped(lm) = (IF y = 2 THEN 2 ELSE IF y = 6 THEN 3 ELSE IF y = 5 THEN 5 ELSE 4)
  BY <1>4, <1>5, SMT
<1> QED BY <1>6, <1>7, <1>8, <1>9

\* Columns shown narrower are no more than were counted.
Listed == Plainly \cup Columns("512") \cup Columns("384") \cup Columns("320") \cup Columns("256")
LEMMA NarrowerRange ==
  ASSUME NEW cc, cc.ar_256col \in {0, 1}, NEW lm \in Listed, NEW x,
         x = Skipped(lm) \/ (x \in Nat /\ lm \in {PT, L2, L3_GEN_16_9, L4_GEN_4_3})
  PROVE  Narrower(cc, lm, x) \in 0 .. x /\ x \in Nat
<1>1. CASE lm \in Plainly \ {L2_240x360, L3_240x360}
  <2>1. lm[2] \in {"pt", "2x", "16_9", "4_3"} /\ lm # <<3, "320">>
    BY <1>1, SMT DEF Plainly, PT, L2, L2_240x360, L3_GEN_16_9, L3_GEN_4_3, L3_240x360, L4_GEN_4_3, L5_GEN_4_3, L6_GEN_4_3
  <2>2. Skipped(lm) = 0
    BY <1>1, <2>1, SMT DEF Skipped
  <2>3. Narrower(cc, lm, x) = x
    BY <1>1, <2>1, SMT DEF Narrower
  <2> QED BY <2>2, <2>3, SMT
<1>2. CASE lm \in {L2_240x360, L3_240x360}
  <2>1. x = Skipped(lm)
    BY <1>2, SMT DEF PT, L2, L2_240x360, L3_GEN_16_9, L3_240x360, L4_GEN_4_3
  <2>2. Skipped(lm) \in {3, 4}
    BY <1>2, SMT DEF Skipped, L2_240x360, L3_240x360
  <2>3. Narrower(cc, lm, x) = x - 1
    BY <1>2, SMT DEF Narrower, L2_240x360, L3_240x360
  <2> QED BY <2>1, <2>2, <2>3, SMT
<1>3. CASE lm \in Columns("512") \cup Columns("384")
  <2>1. lm[1] \in 2 .. 6 /\ lm[2] \in {"512", "384"}
    BY <1>3, SMT DEF Columns
  <2>2. x = Skipped(lm)
    BY <2>1, SMT DEF PT, L2, L3_GEN_16_9, L4_GEN_4_3
  <2>3. Skipped(lm) \in 1 .. 3
    BY <2>1, SkippedOf, SMT
  <2>4. Narrower(cc, lm, x) = x
    BY <2>1, SMT DEF Narrower, L2_240x360, L3_240x360
  <2> QED BY <2>2, <2>3, <2>4, SMT
<1>4. CASE lm \in Columns("320")
  <2>1. lm[1] \in 2 .. 6 /\ lm[2] = "320" /\ lm = <<lm[1], lm[2]>>
    BY <1>4, SMT DEF Columns
  <2>2. x = Skipped(lm)
    BY <2>1, SMT DEF PT, L2, L3_GEN_16_9, L4_GEN_4_3
  <2>3. Skipped(lm) \in 1 .. 4
    BY <2>1, SkippedOf, SMT
  <2>4. Narrower(cc, lm, x) \in {x, x - 1}
    BY <2>1, SMT DEF Narrower, L2_240x360, L3_240x360
  <2> QED BY <2>2, <2>3, <2>4, SMT
<1>5. CASE lm \in Columns("256")
  <2>1. lm[1] \in 2 .. 6 /\ lm[2] = "256"
    BY <1>5, SMT DEF Columns
  <2>2. x = Skipped(lm)
    BY <2>1, SMT DEF PT, L2, L3_GEN_16_9, L4_GEN_4_3
  <2>3. Skipped(lm) = (IF lm[1] = 2 THEN 2 ELSE IF lm[1] = 6 THEN 3 ELSE IF lm[1] = 5 THEN 5 ELSE 4)
    BY <2>1, SkippedOf
  <2>4. CASE lm[1] \in {2, 4, 5}
    <3>1. Narrower(cc, lm, x) = x - cc.ar_256col
      BY <2>1, <2>4, SMT DEF Narrower, L2_240x360, L3_240x360
    <3>2. x \in {2, 4, 5}
      BY <2>2, <2>3, <2>4, SMT
    <3> QED BY <3>1, <3>2, SMT
  <2>5. CASE lm[1] \in {3, 6}
    <3>1. Narrower(cc, lm, x) \in {2, 3}
      BY <2>1, <2>5, SMT DEF Narrower, L2_240x360, L3_240x360
    <3>2. x \in {3, 4}
      BY <2>2, <2>3, <2>5, SMT
    <3> QED BY <3>1, <3>2, SMT
  <2>6. lm[1] \in {2, 3, 4, 5, 6}
    BY <2>1, SMT
  <2> QED BY <2>4, <2>5, <2>6
<1> QED BY <1>1, <1>2, <1>3, <1>4, <1>5, Zenon DEF Listed

HasColumns(cc, i, lm, n) ==
  /\ n \in 1 .. 6 /\ Default(i).h_active * n <= 2560
  /\ OwnFormat(cc, lm, Default(i))
       => Default(i).h_active * n <= 1920 /\ n * Default(i).h_total >= 1920 /\ Default(i).v_active * 5 >= 1080
  /\ lm = L2_240x360 => n = 5 /\ i = 17

\* There is room for the columns that a preset's flag puts out.
LEMMA Room ==
  ASSUME NEW cc, NEW i \in 1 .. 43, NEW lm \in Default(i).flags, lm # PT, lm # L3_GEN_4_3
  PROVE  HasColumns(cc, i, lm, Skipped(lm) + 1)
<1> SUFFICES ASSUME NEW n, n = Skipped(lm) + 1 PROVE HasColumns(cc, i, lm, n)
  OBVIOUS
<1> USE DEF HasColumns
<1>1. lm \in Listed
  BY FlagsListed, Zenon DEF Listed
<1>2. Default(i).h_active \in Nat /\ Default(i).h_active <= 1920
  BY PresetsFit, WidthsOf DEF Sized
<1>3. CASE lm \in {L2, L3_GEN_16_9, L4_GEN_4_3, L6_GEN_4_3}
  <2>1. n = 1 /\ lm[1] # 5 /\ lm # L2_240x360
    BY <1>3, SMT DEF Skipped, L2, L2_240x360, L3_GEN_16_9, L3_240x360, L4_GEN_4_3, L6_GEN_4_3
  <2> QED BY <1>2, <2>1, SMT DEF OwnFormat
<1>4. CASE lm = L5_GEN_4_3
  <2>1. n = 1 /\ lm # L2_240x360
    BY <1>4, SMT DEF Skipped, L5_GEN_4_3, L2_240x360, L3_240x360
  <2>2. i \in {1, 10}
    BY <1>4, FlagsOf
  <2> QED BY <1>2, <1>4, <2>1, <2>2, TimingsOf, SMT DEF OwnFormat
<1>5. CASE lm \in {L2_240x360, L3_240x360}
  <2>1. n \in {4, 5} /\ lm[1] # 5 /\ lm = <<lm[1], "240x360">> /\ (lm = L2_240x360 => n = 5)
    BY <1>5, SMT DEF Skipped, L2_240x360, L3_240x360
  <2>2. i = 17
    <3>1. <<lm[1], "240x360">> \in Default(i).flags
      BY <2>1
    <3> QED BY <3>1, FlagsOf
  <2> QED BY <2>1, <2>2, TimingsOf, SMT DEF OwnFormat
<1>6. ASSUME NEW k \in {"512", "384", "320", "256"}, NEW l \in Columns(k)
      PROVE  l[1] \in 2 .. 6 /\ l[2] = k /\ l = <<l[1], k>> /\ l # L2_240x360
  BY <1>6, SMT DEF Columns, L2_240x360, L3_240x360
<1>7. CASE lm \in Columns("512")
  <2>1. lm[1] \in 2 .. 6 /\ lm[2] = "512" /\ lm = <<lm[1], "512">> /\ lm # L2_240x360
    BY <1>6, <1>7
  <2>2. n \in 2 .. 3 /\ (lm[1] = 5 => n = 3)
    BY <2>1, SkippedOf, SMT
  <2>3. i \in {4, 11}
    <3>1. <<lm[1], "512">> \in Default(i).flags
      BY <2>1
    <3> QED BY <3>1, FlagsOf
  <2>4. Default(i).h_active = 512 /\ Default(i).h_total = 682 /\ Default(i).v_active = 240
    BY <2>3, TimingsOf
  <2> QED BY <2>1, <2>2, <2>4, SMT DEF OwnFormat
<1>8. CASE lm \in Columns("384")
  <2>1. lm[1] \in 2 .. 6 /\ lm[2] = "384" /\ lm = <<lm[1], "384">> /\ lm # L2_240x360
    BY <1>6, <1>8
  <2>2. n \in 2 .. 4 /\ (lm[1] = 5 => n = 4)
    BY <2>1, SkippedOf, SMT
  <2>3. i \in {5, 12}
    <3>1. <<lm[1], "384">> \in Default(i).flags
      BY <2>1
    <3> QED BY <3>1, FlagsOf
  <2>4. Default(i).h_active = 384 /\ Default(i).h_total = 512 /\ Default(i).v_active = 240
    BY <2>3, TimingsOf
  <2> QED BY <2>1, <2>2, <2>4, SMT DEF OwnFormat
<1>9. CASE lm \in Columns("320")
  <2>1. lm[1] \in 2 .. 6 /\ lm[2] = "320" /\ lm = <<lm[1], "320">> /\ lm # L2_240x360
    BY <1>6, <1>9
  <2>2. n \in 2 .. 5 /\ (lm[1] = 5 => n = 5)
    BY <2>1, SkippedOf, SMT
  <2>3. i \in {6, 13}
    <3>1. <<lm[1], "320">> \in Default(i).flags
      BY <2>1
    <3> QED BY <3>1, FlagsOf
  <2>4. Default(i).h_active = 320 /\ Default(i).h_total = 426 /\ Default(i).v_active = 240
    BY <2>3, TimingsOf
  <2> QED BY <2>1, <2>2, <2>4, SMT DEF OwnFormat
<1>10. CASE lm \in Columns("256")
  <2>1. lm[1] \in 2 .. 6 /\ lm[2] = "256" /\ lm = <<lm[1], "256">> /\ lm # L2_240x360
    BY <1>6, <1>10
  <2>2. n \in 3 .. 6 /\ (lm[1] = 5 => n = 6)
    BY <2>1, SkippedOf, SMT
  <2>3. i \in {7, 14}
    <3>1. <<lm[1], "256">> \in Default(i).flags
      BY <2>1
    <3> QED BY <3>1, FlagsOf
  <2>4. Default(i).h_active = 256 /\ Default(i).h_total = 341 /\ Default(i).v_active = 240
    BY <2>3, TimingsOf
  <2> QED BY <2>1, <2>2, <2>4, SMT DEF OwnFormat
<1> QED BY <1>1, <1>3, <1>4, <1>5, <1>7, <1>8, <1>9, <1>10 DEF Listed, Plainly

\* Of presets whose pixels are repeated until they are fast enough, none becomes too wide.
LEMMA ShortAreNarrow ==
  \A i \in 1 .. 43 : \A n \in {2, 4, 8, 16, 32, 64} :
     Default(i).h_total * n <= 3333 => Default(i).h_active * n <= 2560
<1>1. \A i \in 1 .. 43 : Default(i).h_total * 2 <= 3333 => Default(i).h_active * 2 <= 2560
  BY SMTT(60) DEF video_modes_plm_default, P, Default
<1>2. \A i \in 1 .. 43 : Default(i).h_total * 4 <= 3333 => Default(i).h_active * 4 <= 2560
  BY SMTT(60) DEF video_modes_plm_default, P, Default
<1>3. \A i \in 1 .. 43 : Default(i).h_total * 8 <= 3333 => Default(i).h_active * 8 <= 2560
  BY SMTT(60) DEF video_modes_plm_default, P, Default
<1>4. \A i \in 1 .. 43 : Default(i).h_total \in Int /\ Default(i).h_total >= 300
  BY DefaultWide DEF Wide
<1>5. ASSUME NEW i \in 1 .. 43, NEW n \in {16, 32, 64} PROVE ~ (Default(i).h_total * n <= 3333)
  BY <1>4, SMT
<1> QED BY <1>1, <1>2, <1>3, <1>5, SMT

\* The presets of consoles that pass through as they are, and those before them at the columns asked for.
LEMMA Consoles ==
  /\ \A i \in 1 .. 43 : PT \in Default(i).flags /\ Default(i).group \in {"240P", "288P"} => i \in {8, 15}
  /\ \A i \in 4 .. 8 : Default(i).group = "240P" /\ Default(i).v_total = 262 /\ Default(i).interlaced = 0
  /\ \A i \in 11 .. 15 : Default(i).group = "288P" /\ Default(i).v_total = 312 /\ Default(i).interlaced = 0
  /\ \A i \in (4 .. 8) \cup (11 .. 15) : Default(i).name # "480p" /\ Default(i).name # "640x480_60"
  /\ \A i \in {4, 11} : <<5, "512">> \in Default(i).flags
  /\ \A i \in {5, 12} : <<5, "384">> \in Default(i).flags
  /\ \A i \in {6, 13} : <<5, "320">> \in Default(i).flags
  /\ \A i \in {7, 14} : <<5, "256">> \in Default(i).flags
<1>1. \A i \in 1 .. 43 : PT \in Default(i).flags /\ Default(i).group \in {"240P", "288P"} => i \in {8, 15}
  BY SMTT(60) DEF video_modes_plm_default, P, Default, Columns, PT, L2, L2_240x360, L3_GEN_16_9, L3_GEN_4_3, L3_240x360,
    L4_GEN_4_3, L5_GEN_4_3, L6_GEN_4_3
<1>2. \A i \in 4 .. 8 : Default(i).group = "240P" /\ Default(i).v_total = 262 /\ Default(i).interlaced = 0
  BY SMTT(60) DEF video_modes_plm_default, P, Default
<1>3. \A i \in 11 .. 15 : Default(i).group = "288P" /\ Default(i).v_total = 312 /\ Default(i).interlaced = 0
  BY SMTT(60) DEF video_modes_plm_default, P, Default
<1>4. \A i \in (4 .. 8) \cup (11 .. 15) : Default(i).name # "480p" /\ Default(i).name # "640x480_60"
  BY SMTT(60) DEF video_modes_plm_default, P, Default
<1>5. \A k : <<5, k>> \in Columns(k)
  BY DEF Columns
<1>6. \A i \in {4, 11} : Default(i).flags = Columns("512")
  BY SMTT(60) DEF video_modes_plm_default, P, Default
<1>7. \A i \in {5, 12} : Default(i).flags = Columns("384")
  BY SMTT(60) DEF video_modes_plm_default, P, Default
<1>8. \A i \in {6, 13} : Default(i).flags = Columns("320")
  BY SMTT(60) DEF video_modes_plm_default, P, Default
<1>9. \A i \in {7, 14} : Default(i).flags = Columns("256")
  BY SMTT(60) DEF video_modes_plm_default, P, Default
<1>10. \A i \in {4, 11} : <<5, "512">> \in Default(i).flags
  BY <1>5, <1>6
<1>11. \A i \in {5, 12} : <<5, "384">> \in Default(i).flags
  BY <1>5, <1>7
<1>12. \A i \in {6, 13} : <<5, "320">> \in Default(i).flags
  BY <1>5, <1>8
<1>13. \A i \in {7, 14} : <<5, "256">> \in Default(i).flags
  BY <1>5, <1>9
<1> QED BY <1>1, <1>2, <1>3, <1>4, <1>10, <1>11, <1>12, <1>13

\* Pixels pass through only where the settings say so.
LEMMA PassesIf ==
  ASSUME NEW cc, cc.pm_240p \in 0 .. 5, NEW group \in {"240P", "288P"}, PT \in valid_lm(cc, group)
  PROVE  cc.pm_240p = 0
<1>1. pm(cc, group) = cc.pm_240p
  BY SMT DEF pm
<1>2. CASE cc.pm_240p = 1
  BY <1>1, <1>2, SMT DEF valid_lm, PT, L2
<1>3. CASE cc.pm_240p = 2
  BY <1>1, <1>3, SMT DEF valid_lm, PT, L3_GEN_16_9
<1>4. CASE cc.pm_240p = 3
  BY <1>1, <1>4, SMT DEF valid_lm, PT
<1>5. CASE cc.pm_240p = 4
  BY <1>1, <1>5, SMT DEF valid_lm, PT
<1>6. CASE cc.pm_240p = 5
  BY <1>1, <1>6, SMT DEF valid_lm, PT
<1> QED BY <1>2, <1>3, <1>4, <1>5, <1>6, SMT

--------------------------------------------------------------------------------
(* Settings within their limits *)

\* Where settings are within the limits of their items that the width depends on.
Allowed(cc) ==
  /\ {"pt_mode", "pm_240p", "ar_256col"} \subseteq DOMAIN cc
  /\ cc.pt_mode \in 0 .. 5 /\ cc.pm_240p \in 0 .. 5 /\ cc.ar_256col \in {0, 1}

\* Of five lines are only flags of consoles; what passes through and is sampled twice is narrow.
LEMMA FivesOf ==
  /\ \A i \in 1 .. 43 : Default(i).group \notin {"240P", "288P"} => \A l \in Default(i).flags : l[1] # 5
  /\ \A i \in 1 .. 43 : Default(i).group \in Groups576 /\ PT \in Default(i).flags => Default(i).h_active <= 1280
<1>1. \A i \in 1 .. 43 : Default(i).group \notin {"240P", "288P"} => \A l \in Default(i).flags : l[1] # 5
  BY SMTT(60) DEF video_modes_plm_default, P, Default, Columns, PT, L2, L2_240x360, L3_GEN_16_9, L3_GEN_4_3, L3_240x360,
    L4_GEN_4_3, L5_GEN_4_3, L6_GEN_4_3
<1>2. \A i \in 1 .. 43 : Default(i).group \in Groups576 /\ PT \in Default(i).flags => Default(i).h_active <= 1280
  BY SMTT(60) DEF video_modes_plm_default, P, Default, Columns, PT, L2, L2_240x360, L3_GEN_16_9, L3_GEN_4_3, L3_240x360,
    L4_GEN_4_3, L5_GEN_4_3, L6_GEN_4_3, Groups576
<1> QED BY <1>1, <1>2

\* The flag that was asked for, or nothing asked.
LEMMA LineModeOf ==
  ASSUME NEW cc, NEW p, valid_lm(cc, p.group) \cap p.flags # {}
  PROVE  /\ LineMode(cc, p) # PT => LineMode(cc, p) \in p.flags
         /\ LineMode(cc, p) = PT => pm(cc, p.group) = 0 \/ PT \in valid_lm(cc, p.group) \cap p.flags
<1>1. CASE pm(cc, p.group) = 0
  BY <1>1 DEF LineMode
<1>2. CASE pm(cc, p.group) # 0
  <2> DEFINE S == valid_lm(cc, p.group) \cap p.flags
             c == CHOOSE lm \in S : TRUE
  <2>1. LineMode(cc, p) = c
    BY <1>2 DEF LineMode
  <2>2. \E lm \in S : TRUE
    OBVIOUS
  <2> HIDE DEF S
  <2>3. c \in S
    BY <2>2, Zenon
  <2> HIDE DEF c
  <2> QED BY <2>1, <2>3 DEF S
<1> QED BY <1>1, <1>2

\* If nothing is asked, what passes through or is of five lines.
LEMMA AskedNothing ==
  ASSUME NEW cc, NEW group, pm(cc, group) = 0, NEW l \in valid_lm(cc, group)
  PROVE  l = PT \/ (cc.pt_mode > 0 /\ l = <<5, Ways(cc.pt_mode - 1)>>)
<1>1. valid_lm(cc, group) = {PT} \cup (IF cc.pt_mode > 0 THEN {<<5, Ways(cc.pt_mode - 1)>>} ELSE {})
  BY DEF valid_lm
<1> QED BY <1>1

\* Outside of the consoles' groups only presets pass through that are meant to.
LEMMA PassesAsIs ==
  ASSUME NEW cc, NEW i \in 1 .. 43, Default(i).group \notin {"240P", "288P"},
         valid_lm(cc, Default(i).group) \cap Default(i).flags # {}, LineMode(cc, Default(i)) = PT
  PROVE  PT \in Default(i).flags
<1>1. CASE pm(cc, Default(i).group) = 0
  <2>1. PICK l \in valid_lm(cc, Default(i).group) : l \in Default(i).flags
    OBVIOUS
  <2>2. l[1] # 5
    BY <2>1, FivesOf
  <2> QED BY <1>1, <2>1, <2>2, AskedNothing
<1>2. CASE PT \in valid_lm(cc, Default(i).group) \cap Default(i).flags
  BY <1>2
<1> QED BY <1>1, <1>2, LineModeOf

\* The columns that pixels of consoles are repeated for.
Column(k) == <<"512", "384", "320", "256">>[k - 1]
\* Which the settings name.
LEMMA ColumnOf == ASSUME NEW k \in 2 .. 5 PROVE Ways(k - 1) = Column(k)
<1>1. k \in {2, 3, 4, 5}
  OBVIOUS
<1> QED BY <1>1 DEF Ways, Column

\* Presets of such columns are narrow, and their lines are long.
LEMMA ColumnFits ==
  ASSUME NEW i \in 1 .. 43, NEW k \in 2 .. 5, <<5, Column(k)>> \in Default(i).flags
  PROVE  Default(i).h_active * (k + 1) <= 2560 /\ Default(i).h_total * (k + 1) >= 2000
<1>1. CASE k = 2
  <2>1. <<5, "512">> \in Default(i).flags
    BY <1>1 DEF Column
  <2>2. i \in {4, 11}
    BY <2>1, FlagsOf
  <2>3. Default(i).h_active = 512 /\ Default(i).h_total = 682
    BY <2>2, TimingsOf, SMT
  <2> QED BY <1>1, <2>3, SMT
<1>2. CASE k = 3
  <2>1. <<5, "384">> \in Default(i).flags
    BY <1>2 DEF Column
  <2>2. i \in {5, 12}
    BY <2>1, FlagsOf
  <2>3. Default(i).h_active = 384 /\ Default(i).h_total = 512
    BY <2>2, TimingsOf, SMT
  <2> QED BY <1>2, <2>3, SMT
<1>3. CASE k = 4
  <2>1. <<5, "320">> \in Default(i).flags
    BY <1>3 DEF Column
  <2>2. i \in {6, 13}
    BY <2>1, FlagsOf
  <2>3. Default(i).h_active = 320 /\ Default(i).h_total = 426
    BY <2>2, TimingsOf, SMT
  <2> QED BY <1>3, <2>3, SMT
<1>4. CASE k = 5
  <2>1. <<5, "256">> \in Default(i).flags
    BY <1>4 DEF Column
  <2>2. i \in {7, 14}
    BY <2>1, FlagsOf
  <2>3. Default(i).h_active = 256 /\ Default(i).h_total = 341
    BY <2>2, TimingsOf, SMT
  <2> QED BY <1>4, <2>3, SMT
<1>5. k \in {2, 3, 4, 5}
  BY SMT
<1> QED BY <1>1, <1>2, <1>3, <1>4, <1>5, Zenon

\* They come first: a preset of a console that passes through has the columns asked for.
LEMMA FoundConsole ==
  ASSUME TableKept, NEW cc, Allowed(cc), cc.pt_mode >= 2, NEW s, s.v_total \in Int, s.v_hz_x100 \in Int,
         NEW id, id = FoundPreset(cc, s), id # 0, Default(id).group \in {"240P", "288P"}, LineMode(cc, Default(id)) = PT
  PROVE  /\ id \in 1 .. 43 /\ Default(id).h_active * (cc.pt_mode + 1) <= 2560
         /\ Default(id).h_total * (cc.pt_mode + 1) >= 2000
<1> DEFINE k == cc.pt_mode
           group == Default(id).group
           five == <<5, Column(k)>>
<1>1. /\ id \in 1 .. 43 /\ Offered(cc, s, id) /\ k \in {2, 3, 4, 5}
      /\ \A j \in 1 .. 43 : Before(s, j, id) => ~ Offered(cc, s, j)
  <2>1. id \in 1 .. 43 /\ Offered(cc, s, id) /\ \A j \in 1 .. 43 : Before(s, j, id) => ~ Offered(cc, s, j)
    BY SearchFinds
  <2>2. k \in {2, 3, 4, 5}
    BY SMT DEF Allowed
  <2> QED BY <2>1, <2>2
<1>2. /\ Preset(id).group = group /\ Preset(id).flags = Default(id).flags /\ Preset(id).interlaced = Default(id).interlaced
      /\ s.interlaced = Default(id).interlaced /\ valid_lm(cc, group) \cap Default(id).flags # {}
  BY <1>1, Count DEF TableKept, Offered
<1>3. pm(cc, group) = 0 /\ cc.pm_240p = 0
  <2>1. pm(cc, group) = cc.pm_240p
    BY DEF pm
  <2>2. PT \in valid_lm(cc, group) => cc.pm_240p = 0
    <3>1. cc.pm_240p \in 0 .. 5 /\ group \in {"240P", "288P"}
      BY DEF Allowed
    <3> QED BY <3>1, PassesIf
  <2> QED BY <1>2, <2>1, <2>2, LineModeOf
<1>4. \A g \in {"240P", "288P"} : valid_lm(cc, g) = {PT, five}
  <2> TAKE g \in {"240P", "288P"}
  <2>1. pm(cc, g) = 0
    BY <1>3 DEF pm
  <2>2. Ways(k - 1) = Column(k)
    <3>1. k \in 2 .. 5
      BY <1>1
    <3> QED BY <3>1, ColumnOf
  <2>3. k > 0
    BY <1>1
  <2> QED BY <2>1, <2>2, <2>3 DEF valid_lm
<1>5. five \in Default(id).flags \/ PT \in Default(id).flags
  BY <1>2, <1>4
<1>6. ASSUME NEW j \in 1 .. 43, five \in Default(j).flags, Default(j).group = group, j < id, Default(j).v_total = Default(id).v_total,
             Default(j).interlaced = Default(id).interlaced, Default(j).name # "480p", Default(j).name # "640x480_60"
      PROVE  FALSE
  <2>1. Preset(j).group = group /\ Preset(j).name = Default(j).name /\ Preset(j).flags = Default(j).flags
        /\ Preset(j).interlaced = Default(j).interlaced
    BY <1>6, Count DEF TableKept
  <2>2. ~ Excluded(cc, s, Preset(j), j)
    <3>1. Preset(j).group # "384P" /\ Preset(j).name # "480p" /\ Preset(j).name # "640x480_60"
      BY <1>6, <2>1
    <3> QED BY <3>1, Zenon DEF Excluded
  <2>3. valid_lm(cc, group) \cap Default(j).flags # {}
    BY <1>4, <1>6
  <2>4. Offered(cc, s, j)
    BY <1>2, <1>6, <2>1, <2>2, <2>3 DEF Offered
  <2>5. group \notin ByRate
    BY DEF ByRate
  <2>6. Before(s, j, id)
    BY <1>6, <2>5 DEF Before, Lines, Nearer
  <2> QED BY <1>1, <2>4, <2>6
<1>7. PT \notin Default(id).flags
  <2> SUFFICES ASSUME PT \in Default(id).flags PROVE FALSE
    OBVIOUS
  <2>1. id \in {8, 15}
    BY <1>1, Consoles
  <2>2. CASE id = 8
    <3> DEFINE j == k + 2
    <3>1. j \in {4, 5, 6, 7} /\ j \in 4 .. 8 /\ j \in 1 .. 43 /\ j < id /\ id \in 4 .. 8
      BY <1>1, <2>2
    <3>2. five \in Default(j).flags
      BY <1>1, Consoles DEF Column
    <3>3. /\ Default(j).group = group /\ Default(j).v_total = Default(id).v_total
          /\ Default(j).interlaced = Default(id).interlaced
      BY <3>1, Consoles
    <3>4. Default(j).name # "480p" /\ Default(j).name # "640x480_60"
      BY <3>1, Consoles
    <3> HIDE DEF j, five
    <3> QED BY <1>6, <3>1, <3>2, <3>3, <3>4
  <2>3. CASE id = 15
    <3> DEFINE j == k + 9
    <3>1. j \in {11, 12, 13, 14} /\ j \in 11 .. 15 /\ j \in 1 .. 43 /\ j < id /\ id \in 11 .. 15
      BY <1>1, <2>3
    <3>2. five \in Default(j).flags
      BY <1>1, Consoles DEF Column
    <3>3. /\ Default(j).group = group /\ Default(j).v_total = Default(id).v_total
          /\ Default(j).interlaced = Default(id).interlaced
      BY <3>1, Consoles
    <3>4. Default(j).name # "480p" /\ Default(j).name # "640x480_60"
      BY <3>1, Consoles
    <3> HIDE DEF j, five
    <3> QED BY <1>6, <3>1, <3>2, <3>3, <3>4
  <2> QED BY <2>1, <2>2, <2>3
<1>8. <<5, Column(k)>> \in Default(id).flags
  BY <1>5, <1>7
<1>9. k \in 2 .. 5
  BY <1>1
<1>10. id \in 1 .. 43
  BY <1>1
<1>11. Default(id).h_active * (k + 1) <= 2560 /\ Default(id).h_total * (k + 1) >= 2000
  <2> HIDE DEF k, five, group
  <2> QED BY <1>8, <1>9, <1>10, ColumnFits
<1> QED BY <1>10, <1>11

--------------------------------------------------------------------------------
(* What is measured fits *)

\* The preset of the table, but for a longer line.
Roomy(p, d) ==
  /\ Timings \cup {"ar_h", "ar_v"} \subseteq DOMAIN p
  /\ \A f \in (Timings \cup {"ar_h", "ar_v"}) \ {"h_total"} : p[f] = d[f]
  /\ p.h_total \in Nat /\ p.h_total >= d.h_total

WithSignal(p, s) == [p EXCEPT !.v_total = s.v_total, !.v_hz_x100 = s.v_hz_x100, !.interlaced = s.interlaced]
FitsWith(i, p, s, t) ==
  /\ Sized(t) /\ LineFits(t) /\ (s.v_total >= Default(i).v_total => FrameFits(t))
  /\ t.h_total = p.h_total /\ t.h_active = Default(i).h_active /\ t.v_active = Default(i).v_active
  /\ t.h_synclen = Default(i).h_synclen /\ t.h_backporch = Default(i).h_backporch
  /\ t.v_total = s.v_total /\ t.v_hz_x100 = s.v_hz_x100 /\ t.interlaced = s.interlaced

\* Measured lines and rates in place of the preset's leave what fits.
LEMMA MeasuredFits ==
  ASSUME NEW i \in 1 .. 43, NEW p, Roomy(p, Default(i)), NEW s, Signalled(s), s.interlaced = Default(i).interlaced
  PROVE  FitsWith(i, p, s, WithSignal(p, s))
<1> SUFFICES ASSUME NEW t, t = WithSignal(p, s) PROVE FitsWith(i, p, s, t)
  OBVIOUS
<1> DEFINE d == Default(i)
<1>1. Sized(d) /\ LineFits(d) /\ FrameFits(d) /\ d.v_total \in Nat
  BY PresetsFit DEF Sized
<1>2. /\ "h_synclen" \in Timings /\ "h_backporch" \in Timings /\ "h_active" \in Timings /\ "v_synclen" \in Timings
      /\ "v_backporch" \in Timings /\ "v_active" \in Timings /\ "h_total_adj" \in Timings
  BY DEF Timings
<1>3. /\ p.h_synclen = d.h_synclen /\ p.h_backporch = d.h_backporch /\ p.h_active = d.h_active
      /\ p.v_synclen = d.v_synclen /\ p.v_backporch = d.v_backporch /\ p.v_active = d.v_active
      /\ p.h_total_adj = d.h_total_adj
  BY <1>2 DEF Roomy
<1>4. Timings \subseteq DOMAIN p /\ p.h_total \in Nat /\ p.h_total >= d.h_total
  BY DEF Roomy
<1>5. /\ DOMAIN t = DOMAIN p /\ t.h_synclen = p.h_synclen /\ t.h_backporch = p.h_backporch /\ t.h_active = p.h_active
      /\ t.v_synclen = p.v_synclen /\ t.v_backporch = p.v_backporch /\ t.v_active = p.v_active
      /\ t.h_total = p.h_total /\ t.h_total_adj = p.h_total_adj
      /\ t.v_total = s.v_total /\ t.v_hz_x100 = s.v_hz_x100 /\ t.interlaced = s.interlaced
  BY <1>4, SMT DEF Timings, WithSignal
<1>6. s.v_total \in Nat /\ s.interlaced \in {0, 1}
  BY DEF Signalled
<1> HIDE DEF d
<1>7. Sized(t)
  BY <1>1, <1>3, <1>4, <1>5, <1>6 DEF Sized
<1>8. LineFits(t)
  BY <1>1, <1>3, <1>4, <1>5, SMT DEF Sized, LineFits
<1>9. ASSUME s.v_total >= d.v_total PROVE FrameFits(t)
  <2> DEFINE w == 1 + s.interlaced
             a == s.v_total \div w
             b == d.v_total \div w
  <2>1. w \in {1, 2}
    BY <1>6, SMT
  <2>2. a \in Int /\ b \in Int /\ a >= b
    <3> HIDE DEF w
    <3>1. CASE w = 1
      BY <1>1, <1>6, <1>9, <3>1, SMT
    <3>2. CASE w = 2
      BY <1>1, <1>6, <1>9, <3>2, SMT
    <3> QED BY <2>1, <3>1, <3>2
  <2>3. d.v_synclen + d.v_backporch + d.v_active <= b
    BY <1>1 DEF FrameFits, d
  <2>4. t.v_total \div (1 + t.interlaced) = a
    BY <1>5
  <2>5. d.v_synclen \in Nat /\ d.v_backporch \in Nat /\ d.v_active \in Nat
    BY <1>1 DEF Sized
  <2> HIDE DEF a, b, w
  <2>6. t.v_synclen + t.v_backporch + t.v_active <= a
    BY <1>3, <1>5, <2>2, <2>3, <2>5, SMT
  <2> QED BY <2>4, <2>6 DEF FrameFits
<1> QED BY <1>3, <1>5, <1>7, <1>8, <1>9 DEF d, FitsWith

\* A signal that passes through a preset's line, of which pixels are sampled m times.
Passing(cc, i, p, t, m) ==
  /\ cc.pt_mode \in 0 .. 5 /\ p.group = Default(i).group
  /\ Timed(t) /\ t.v_hz_x100 \in Nat /\ Lively(t) /\ Swift(t) /\ t.h_total >= m * Default(i).h_total
  /\ m = 2 => Default(i).h_active <= 1280 /\ p.group \in Groups576
  /\ cc.pt_mode >= 2 /\ p.group \in {"240P", "288P"}
       => Default(i).h_active * (cc.pt_mode + 1) <= 2560 /\ Default(i).h_total * (cc.pt_mode + 1) >= 2000
HasRoom(cc, i, p, t, m) ==
  /\ PassedThrough(cc, p, t) \in Nat
  /\ m * Default(i).h_active * (PassedThrough(cc, p, t) + 1) <= 2560

\* However often pixels are repeated, they have room.
LEMMA PassedWidth ==
  ASSUME NEW cc, NEW i \in 1 .. 43, NEW p, NEW t, NEW m \in {1, 2}, Passing(cc, i, p, t, m)
  PROVE  HasRoom(cc, i, p, t, m)
<1> USE DEF Passing
<1> DEFINE x == PassedThrough(cc, p, t)
           first == Repeated(cc, p)
           h == Default(i).h_active
           l == Default(i).h_total
<1>1. h \in Nat /\ h <= 1920 /\ l \in Nat /\ l >= 300 /\ t.h_total \in Int
  BY PresetsFit, WidthsOf, DefaultWide DEF Sized, Wide, Timed
<1>2. cc.pt_mode \in Nat /\ t.h_total >= 300
  BY <1>1, SMT
<1>3. x \in Nat
  BY <1>2, PassedThroughTyped
<1>4. PICK k \in 0 .. 5 : RepeatsSo(cc, p, t, k) /\ ShortLine(cc, p, t, k)
  BY <1>2, RepeatedShort
<1> DEFINE b == 2^k
<1>5. k \in {0, 1, 2, 3, 4, 5} /\ (k = 0 => b = 1) /\ (k > 0 => b \in {2, 4, 8, 16, 32})
  <2>1. k \in {0, 1, 2, 3, 4, 5}
    BY SMT
  <2>2. CASE k = 0
    BY <2>2, PowersOfTwo
  <2>3. CASE k = 1
    BY <2>3, PowersOfTwo
  <2>4. CASE k = 2
    BY <2>4, PowersOfTwo
  <2>5. CASE k = 3
    BY <2>5, PowersOfTwo
  <2>6. CASE k = 4
    BY <2>6, PowersOfTwo
  <2>7. CASE k = 5
    BY <2>7, PowersOfTwo
  <2> QED BY <2>1, <2>2, <2>3, <2>4, <2>5, <2>6, <2>7
<1>6. x + 1 = (first + 1) * b
  <2>1. x = (first + 1) * b - 1
    BY <1>4 DEF RepeatsSo
  <2>2. first \in Nat /\ b \in Nat
    BY <1>2, <1>5, SMT DEF Repeated
  <2>3. (first + 1) * b \in Nat
    <3> HIDE DEF first, b
    <3> QED BY <2>2, SMT
  <2> HIDE DEF first, b, x
  <2> QED BY <1>3, <2>1, <2>3, SMT
<1>7. k > 0 => t.h_total * (first + 1) * b <= 3333
  BY <1>4 DEF ShortLine
<1>8. first = 0 \/ (m = 1 /\ first = cc.pt_mode /\ cc.pt_mode >= 2 /\ p.group \in {"240P", "288P"})
  <2>1. p.group \in {"240P", "288P"} => m = 1
    BY DEF Groups576
  <2> QED BY <2>1 DEF Repeated
<1>9. first # 0 => first \in {2, 3, 4, 5} /\ h * (first + 1) <= 2560 /\ l * (first + 1) >= 2000 /\ m = 1
  <2>1. cc.pt_mode >= 2 => cc.pt_mode \in {2, 3, 4, 5}
    BY SMT
  <2> HIDE DEF first, h, l
  <2>2. first # 0 => m = 1 /\ first = cc.pt_mode /\ cc.pt_mode >= 2 /\ p.group \in {"240P", "288P"}
    BY <1>8
  <2> QED BY <2>1, <2>2 DEF h, l
<1> HIDE DEF x, first, b, h, l
<1>10. CASE first = 0 /\ k = 0
  <2>1. x + 1 = 1
    BY <1>5, <1>6, <1>10, SMT
  <2>2. m * h <= 2560 /\ m * h \in Int
    BY <1>1, SMT DEF h
  <2> QED BY <1>3, <2>1, <2>2, SMT DEF x, h, HasRoom
<1>11. CASE first # 0 /\ k = 0
  <2>1. x + 1 = first + 1
    BY <1>5, <1>6, <1>9, <1>11, SMT
  <2>2. m * h * (x + 1) = h * (first + 1)
    BY <1>1, <1>9, <1>11, <2>1, SMT
  <2> QED BY <1>3, <1>9, <1>11, <2>2 DEF x, h, HasRoom
<1>12. CASE first # 0 /\ k > 0
  <2>1. t.h_total >= l
    BY <1>1, <1>9, <1>12, SMT DEF l
  <2>2. first \in {2, 3, 4, 5} /\ l * (first + 1) >= 2000 /\ t.h_total * (first + 1) * b <= 3333 /\ b \in {2, 4, 8, 16, 32}
    BY <1>5, <1>7, <1>9, <1>12
  <2>3. t.h_total * (first + 1) >= 2000 /\ t.h_total * (first + 1) \in Int
    BY <1>1, <2>1, <2>2, SMT
  <2> DEFINE n == t.h_total * (first + 1)
  <2>4. n * b <= 3333 /\ n >= 2000 /\ n \in Int
    BY <2>2, <2>3
  <2> HIDE DEF n
  <2>5. FALSE
    BY <2>2, <2>4, SMT
  <2> QED BY <2>5
<1>13. CASE first = 0 /\ k > 0
  <2>1. t.h_total * b <= 3333 /\ b \in {2, 4, 8, 16, 32} /\ x + 1 = b
    <3>1. b \in {2, 4, 8, 16, 32}
      BY <1>5, <1>13
    <3>2. t.h_total * (0 + 1) * b = t.h_total * b /\ (0 + 1) * b = b
      BY <1>1, <3>1, SMT
    <3> QED BY <1>6, <1>7, <1>13, <3>1, <3>2
  <2>2. CASE m = 1
    <3>1. l * b <= 3333
      <4>1. t.h_total >= l
        BY <1>1, <2>2, SMT DEF l
      <4> QED BY <1>1, <2>1, <4>1, SMT
    <3>2. h * b <= 2560
      <4>1. b \in {2, 4, 8, 16, 32, 64}
        BY <2>1
      <4> QED BY <3>1, <4>1, ShortAreNarrow DEF h, l
    <3>3. m * h * (x + 1) = h * b
      BY <1>1, <2>1, <2>2, SMT
    <3> QED BY <1>3, <3>2, <3>3 DEF x, h, HasRoom
  <2>3. CASE m = 2
    <3>1. l * (2 * b) <= 3333
      <4>1. t.h_total >= 2 * l
        BY <1>1, <2>3, SMT DEF l
      <4> QED BY <1>1, <2>1, <4>1, SMT
    <3>2. h * (2 * b) <= 2560
      <4>1. 2 * b \in {2, 4, 8, 16, 32, 64}
        BY <2>1, SMT
      <4> HIDE DEF b
      <4> QED BY <3>1, <4>1, ShortAreNarrow DEF h, l
    <3>3. m * h * (x + 1) = h * (2 * b)
      BY <1>1, <2>1, <2>3, SMT
    <3> QED BY <1>3, <3>2, <3>3 DEF x, h, HasRoom
  <2> QED BY <2>2, <2>3
<1>14. k = 0 \/ k > 0
  BY <1>5, SMT
<1> QED BY <1>10, <1>11, <1>12, <1>13, <1>14

\* A preset that was found for a signal, and the measured signal.
Suits(cc, i, p, s) ==
  /\ Roomy(p, Default(i)) /\ p.group = Default(i).group /\ p.flags = Default(i).flags
  /\ Signalled(s) /\ Swift(s) /\ s.interlaced = Default(i).interlaced
  /\ valid_lm(cc, p.group) \cap p.flags # {}

\* Twice the pixels of a line.
LEMMA SampledTwice ==
  ASSUME NEW t, Sized(t), t.v_hz_x100 \in Nat, NEW r, r = vmode_hv_mult(t, 2, 1)
  PROVE  /\ Sized(r) /\ (LineFits(t) => LineFits(r)) /\ (FrameFits(t) => FrameFits(r))
         /\ r.h_total = 2 * t.h_total /\ r.h_active = Capped(t.h_active * 2, 2560)
         /\ r.v_total = t.v_total /\ r.v_hz_x100 = t.v_hz_x100 /\ r.interlaced = t.interlaced
<1>1. Timed(t)
  BY SMT DEF Sized, Timed
<1>2. /\ r.v_hz_x100 = t.v_hz_x100
      /\ r.v_total = (IF t.interlaced = 1 /\ 1 % 2 = 0 THEN t.v_total * (1 \div 2) ELSE t.v_total * 1)
      /\ r.interlaced = (IF t.interlaced = 1 /\ 1 % 2 = 0 THEN 0 ELSE t.interlaced)
  BY <1>1, Multiplied
<1>3. ~ (1 % 2 = 0) /\ t.v_total * 1 = t.v_total
  BY SMT DEF Sized
<1>4. r.v_total = t.v_total /\ r.interlaced = t.interlaced
  BY <1>2, <1>3
<1>5. 2 \in Nat /\ 1 \in 1 .. 6
  OBVIOUS
<1>6. /\ Sized(r) /\ (LineFits(t) => LineFits(r)) /\ (FrameFits(t) => FrameFits(r))
      /\ r.h_total = 2 * t.h_total /\ r.h_active = Capped(t.h_active * 2, 2560)
  <2>1. GrowsTo(t, 2, 1, r)
    BY <1>5, MultipliedFits
  <2> QED BY <2>1 DEF GrowsTo
<1> QED BY <1>2, <1>4, <1>6

\* Room for the pixels that a console's preset repeats.
ConsoleRoom(cc, i, p) ==
  cc.pt_mode >= 2 /\ p.group \in {"240P", "288P"}
    => Default(i).h_active * (cc.pt_mode + 1) <= 2560 /\ Default(i).h_total * (cc.pt_mode + 1) >= 2000

\* What passes through fits.
LEMMA PassedFits ==
  ASSUME NEW cc, Allowed(cc), NEW i \in 1 .. 43, NEW p, NEW s, Suits(cc, i, p, s), LineMode(cc, p) = PT, ConsoleRoom(cc, i, p),
         NEW in, in = (IF Upsampled(cc, PT, p) THEN vmode_hv_mult(WithSignal(p, s), 2, 1) ELSE WithSignal(p, s)),
         NEW x, x = PassedThrough(cc, p, in), NEW x_wide \in Nat, NEW out, out = vmode_hv_mult(in, x + 1, 1)
  PROVE  FitsIn(Placed(cc, PT, p, out, in, x, x_wide), s.v_total >= Default(i).v_total)
<1> DEFINE t == WithSignal(p, s)
           m == IF Upsampled(cc, PT, p) THEN 2 ELSE 1
           h == Default(i).h_active
           full == s.v_total >= Default(i).v_total
<1>1. /\ Roomy(p, Default(i)) /\ p.group = Default(i).group /\ p.flags = Default(i).flags
      /\ Signalled(s) /\ Swift(s) /\ s.interlaced = Default(i).interlaced
      /\ valid_lm(cc, p.group) \cap p.flags # {}
  BY DEF Suits
<1>2. /\ Sized(t) /\ LineFits(t) /\ (full => FrameFits(t))
      /\ t.h_total = p.h_total /\ t.h_active = h /\ t.v_total = s.v_total /\ t.v_hz_x100 = s.v_hz_x100
      /\ t.interlaced = s.interlaced
  <2>1. FitsWith(i, p, s, t)
    BY <1>1, MeasuredFits
  <2> QED BY <2>1 DEF FitsWith
<1>3. s.v_hz_x100 \in Nat /\ Lively(s) /\ h \in Nat /\ p.h_total \in Nat /\ p.h_total >= Default(i).h_total
      /\ Default(i).h_total \in Nat /\ p.ar_h = 0 /\ p.ar_v = 0
  <2>1. p.ar_h = Default(i).ar_h /\ p.ar_v = Default(i).ar_v
    BY <1>1 DEF Roomy, Timings
  <2> QED BY <1>1, <2>1, PresetsFit DEF Signalled, Sized, Roomy
<1>4. m = 2 => h <= 1280 /\ p.group \in Groups576
  <2> SUFFICES ASSUME Upsampled(cc, PT, p) PROVE h <= 1280 /\ p.group \in Groups576
    OBVIOUS
  <2>1. p.group \in Groups576
    BY DEF Upsampled
  <2>2. p.group \notin {"240P", "288P"}
    BY <2>1 DEF Groups576
  <2>3. LineMode(cc, Default(i)) = LineMode(cc, p)
    BY <1>1 DEF LineMode
  <2>4. PT \in Default(i).flags
    BY <1>1, <2>2, <2>3, PassesAsIs
  <2>5. Default(i).h_active <= 1280
    BY <1>1, <2>1, <2>4, FivesOf
  <2> QED BY <2>1, <2>5
<1>5. /\ Sized(in) /\ LineFits(in) /\ (full => FrameFits(in)) /\ in.h_total = m * p.h_total /\ in.h_active = m * h
      /\ in.v_total = s.v_total /\ in.v_hz_x100 = s.v_hz_x100 /\ in.interlaced = s.interlaced
  <2> HIDE DEF t, h, full
  <2>1. CASE Upsampled(cc, PT, p)
    <3>1. in = vmode_hv_mult(t, 2, 1)
      BY <2>1 DEF t
    <3>2. /\ Sized(in) /\ (LineFits(t) => LineFits(in)) /\ (FrameFits(t) => FrameFits(in))
          /\ in.h_total = 2 * t.h_total /\ in.h_active = Capped(t.h_active * 2, 2560)
          /\ in.v_total = t.v_total /\ in.v_hz_x100 = t.v_hz_x100 /\ in.interlaced = t.interlaced
      BY <1>2, <1>3, <3>1, SampledTwice
    <3>3. m = 2 /\ h <= 1280
      BY <1>4, <2>1
    <3>4. Capped(h * 2, 2560) = 2 * h
      BY <1>3, <3>3, SMT DEF Capped, h
    <3> QED BY <1>2, <3>2, <3>3, <3>4
  <2>2. CASE ~ Upsampled(cc, PT, p)
    <3>1. in = t /\ m = 1
      BY <2>2 DEF t
    <3>2. 1 * h = h /\ 1 * p.h_total = p.h_total
      BY <1>3, SMT DEF h
    <3> QED BY <1>2, <3>1, <3>2
  <2> QED BY <2>1, <2>2
<1>6. Timed(in) /\ in.v_hz_x100 \in Nat /\ Lively(in) /\ Swift(in)
  BY <1>1, <1>3, <1>5 DEF Sized, Timed, Lively, Swift
<1>7. m \in {1, 2} /\ in.h_total >= m * Default(i).h_total /\ cc.pt_mode \in 0 .. 5
  <2>1. m \in {1, 2} /\ cc.pt_mode \in 0 .. 5
    BY DEF Allowed
  <2> HIDE DEF m
  <2> QED BY <1>3, <1>5, <2>1, SMT
<1> HIDE DEF m, full, t
<1>8. x \in Nat /\ m * h * (x + 1) <= 2560
  <2>1. Passing(cc, i, p, in, m)
    BY <1>1, <1>4, <1>6, <1>7 DEF Passing, ConsoleRoom
  <2>2. HasRoom(cc, i, p, in, m)
    BY <1>7, <2>1, PassedWidth
  <2> QED BY <2>2 DEF HasRoom
<1>9. /\ Sized(out) /\ out.h_active = Capped(in.h_active * (x + 1), 2560) /\ (LineFits(in) => LineFits(out))
      /\ (FrameFits(in) => FrameFits(out))
  <2>1. x + 1 \in Nat /\ 1 \in 1 .. 6
    BY <1>8, SMT
  <2>2. GrowsTo(in, x + 1, 1, out)
    BY <1>5, <2>1, MultipliedFits
  <2> QED BY <2>2 DEF GrowsTo
<1> DEFINE size == in.h_active * (x + 1)
<1>10. size \in Nat /\ size <= out.h_active /\ out.h_active <= 2640 /\ in.h_active \in Nat
  <2>1. size <= 2560
    BY <1>5, <1>8
  <2>2. in.h_active \in Nat
    BY <1>5 DEF Sized
  <2>3. size \in Nat
    BY <1>8, <2>2, SMT
  <2>4. out.h_active = Capped(size, 2560)
    BY <1>9
  <2> HIDE DEF size
  <2> QED BY <2>1, <2>2, <2>3, <2>4, SMT DEF Capped
<1>11. PT \in Flags /\ ~ OwnFormat(cc, PT, p) /\ PT # L3_GEN_4_3
  BY SMT DEF Flags, OwnFormat, PT, L3_GEN_4_3
<1>12. full \in BOOLEAN
  BY DEF full
<1>13. LineFits(out) /\ (full => FrameFits(out))
  BY <1>5, <1>9
<1>14. WidthOf(PT, in, x, x_wide) = size
  BY <1>11 DEF WidthOf
<1> HIDE DEF size
<1>15. FitsIn(Placed(cc, PT, p, out, in, x, x_wide), full)
  BY <1>3, <1>8, <1>9, <1>10, <1>11, <1>12, <1>13, <1>14, PlacedFits
<1> QED BY <1>15 DEF full

--------------------------------------------------------------------------------
(* Room for all columns *)

\* The preset and the flag for which there is room for all columns, sampled or repeated.
Spacious(i, p) == Roomy(p, Default(i)) /\ p.group = Default(i).group /\ p.flags = Default(i).flags
Again(cc, lm, p) == IF Doubled(lm, p) /\ cc.upsample2x = 0 THEN 1 ELSE Skipped(lm)
Wider(cc, lm, p) == IF Upsampled(cc, lm, p) THEN 2 ELSE Again(cc, lm, p) + 1
Twice(cc, lm, p) == IF Upsampled(cc, lm, p) THEN 2 ELSE 1
WidensTo(cc, i, lm, n, y, m) ==
  /\ n \in 1 .. 6 /\ y \in Nat /\ m \in {1, 2}
  /\ Default(i).h_active * n <= 2560 /\ m * Default(i).h_active <= 2560
  /\ m * Default(i).h_active * (y + 1) <= Default(i).h_active * n
  /\ OwnFormat(cc, lm, Default(i))
       => Default(i).h_active * n <= 1920 /\ n * Default(i).h_total >= 1920 /\ Default(i).v_active * 5 >= 1080
  /\ lm = L2_240x360 => n = 5 /\ i = 17
  /\ lm[1] \in 2 .. 6

\* However lines are multiplied, columns have room.
LEMMA Widened ==
  ASSUME NEW cc, Allowed(cc), NEW i \in 1 .. 43, NEW p, Spacious(i, p), NEW lm \in Default(i).flags, lm # PT, lm # L3_GEN_4_3
  PROVE  WidensTo(cc, i, lm, Wider(cc, lm, p), Narrower(cc, lm, Again(cc, lm, p)), Twice(cc, lm, p))
<1> DEFINE h == Default(i).h_active
           x == Again(cc, lm, p)
           y == Narrower(cc, lm, x)
           n == Wider(cc, lm, p)
           m == Twice(cc, lm, p)
<1>1. lm \in Listed /\ lm \in Flags /\ lm[1] \in 2 .. 6
  <2>1. lm \in Listed
    BY FlagsListed DEF Listed
  <2>2. lm \in Flags
    BY FlagsKnown
  <2>3. lm[1] \in 2 .. 6
    BY <2>2, SMT DEF Flags
  <2> QED BY <2>1, <2>2, <2>3
<1>2. h \in Nat /\ h <= 1920 /\ cc.ar_256col \in {0, 1}
  BY PresetsFit, WidthsOf DEF Sized, Allowed
<1>3. CASE Doubled(lm, p)
  <2>1. lm \in {L2, L3_GEN_16_9, L4_GEN_4_3} /\ h <= 1280
    <3>1. CASE lm = L2 /\ (p.group \in {"384P", "480P", "576P"} \/ (p.group = "1080I" /\ p.h_total < 1200))
      <4>1. p.group = Default(i).group /\ p.h_total \in Nat /\ p.h_total >= Default(i).h_total
        BY DEF Spacious, Roomy
      <4>2. Default(i).h_total \in Nat
        BY PresetsFit DEF Sized
      <4>3. Default(i).group # "1080I" \/ Default(i).h_total < 1200
        BY <3>1, <4>1, <4>2, SMT
      <4>4. Default(i).h_active <= 1280
        BY <3>1, <4>3, WidthsOf
      <4> QED BY <3>1, <4>4
    <3>2. CASE lm \in {L3_GEN_16_9, L4_GEN_4_3} /\ p.group \in {"480I", "576I"}
      <4>1. Default(i).group \in {"480I", "576I"}
        BY <3>2 DEF Spacious
      <4>2. Default(i).h_active <= 1280
        BY <4>1, WidthsOf
      <4> QED BY <3>2, <4>2
    <3> QED BY <1>3, <3>1, <3>2 DEF Doubled
  <2>2. lm[1] \in {2, 3, 4} /\ lm # L2_240x360 /\ Skipped(lm) = 0
    BY <2>1, SMT DEF Skipped, L2, L3_GEN_16_9, L4_GEN_4_3, L2_240x360, L3_240x360
  <2>3. x \in {0, 1} /\ (x = 1 <=> cc.upsample2x = 0) /\ x \in Nat
    BY <1>3, <2>2, SMT DEF Again
  <2>4. y \in 0 .. x
    <3>1. lm \in {PT, L2, L3_GEN_16_9, L4_GEN_4_3}
      BY <2>1
    <3> HIDE DEF x
    <3> QED BY <1>1, <1>2, <2>3, <3>1, NarrowerRange
  <2>5. Upsampled(cc, lm, p) <=> cc.upsample2x = 1
    BY <1>3, SMT DEF Upsampled
  <2>6. /\ m = (IF cc.upsample2x = 1 THEN 2 ELSE 1) /\ n = (IF cc.upsample2x = 1 THEN 2 ELSE x + 1)
    BY <2>5 DEF Wider, Twice
  <2> HIDE DEF x, y, m, n, h
  <2>7. CASE cc.upsample2x = 1
    <3>1. m = 2 /\ n = 2 /\ x = 0 /\ y = 0
      BY <2>3, <2>4, <2>6, <2>7, SMT
    <3>2. WidensTo(cc, i, lm, n, y, m)
      BY <1>1, <1>2, <2>1, <2>2, <3>1, SMT DEF WidensTo, OwnFormat, h
    <3> QED BY <3>2 DEF m, n, x, y
  <2>8. CASE cc.upsample2x # 1
    <3>1. m = 1 /\ n = x + 1 /\ n \in {1, 2} /\ y \in {0, 1} /\ y + 1 <= n
      BY <2>3, <2>4, <2>6, <2>8, SMT
    <3>2. CASE n = 1
      <4>1. y = 0
        BY <3>1, <3>2, SMT
      <4>2. WidensTo(cc, i, lm, n, y, m)
        BY <1>1, <1>2, <2>1, <2>2, <3>1, <3>2, <4>1, SMT DEF WidensTo, OwnFormat, h
      <4> QED BY <4>2 DEF m, n, x, y
    <3>3. CASE n = 2
      <4>1. WidensTo(cc, i, lm, n, y, m)
        BY <1>1, <1>2, <2>1, <2>2, <3>1, <3>3, SMT DEF WidensTo, OwnFormat, h
      <4> QED BY <4>1 DEF m, n, x, y
    <3> QED BY <3>1, <3>2, <3>3
  <2> QED BY <2>7, <2>8
<1>4. CASE ~ Doubled(lm, p)
  <2>1. x = Skipped(lm) /\ n = x + 1 /\ m = 1
    BY <1>4 DEF Again, Wider, Twice, Upsampled
  <2>2. y \in 0 .. x /\ x \in Nat
    <3>1. x = Skipped(lm)
      BY <2>1
    <3> HIDE DEF x
    <3> QED BY <1>1, <1>2, <3>1, NarrowerRange
  <2>3. /\ n \in 1 .. 6 /\ h * n <= 2560
        /\ OwnFormat(cc, lm, Default(i)) => h * n <= 1920 /\ n * Default(i).h_total >= 1920 /\ Default(i).v_active * 5 >= 1080
        /\ lm = L2_240x360 => n = 5 /\ i = 17
    <3>1. n = Skipped(lm) + 1
      BY <2>1
    <3>2. HasColumns(cc, i, lm, Skipped(lm) + 1)
      BY Room
    <3> HIDE DEF n
    <3> QED BY <3>1, <3>2 DEF HasColumns, h
  <2> HIDE DEF x, y, m, n, h
  <2>4. y \in Nat /\ m * h <= 2560
    BY <1>2, <2>1, <2>2, SMT
  <2>5. m * h * (y + 1) <= h * n
    <3> DEFINE d == n - (y + 1)
    <3>1. d \in Nat /\ n = d + (y + 1) /\ y + 1 \in Nat
      BY <2>1, <2>2, SMT
    <3>2. h * d \in Nat
      <4> HIDE DEF d
      <4>1. \A a, b \in Nat : a * b \in Nat
        BY SMT
      <4> QED BY <1>2, <3>1, <4>1
    <3>3. h * n = h * d + h * (y + 1) /\ h * (y + 1) \in Int
      <4> HIDE DEF d
      <4> QED BY <1>2, <3>1, SMT
    <3>4. m * h * (y + 1) = h * (y + 1)
      <4> HIDE DEF d
      <4> QED BY <1>2, <2>1, <3>1, SMT
    <3> HIDE DEF d
    <3> QED BY <3>2, <3>3, <3>4, SMT
  <2>6. WidensTo(cc, i, lm, n, y, m)
    BY <1>1, <2>1, <2>3, <2>4, <2>5 DEF WidensTo, h
  <2> QED BY <2>6 DEF m, n, x, y
<1> QED BY <1>3, <1>4

\* The sampled signal.
InputOf(cc, lm, p, s) ==
  IF Upsampled(cc, lm, p) THEN vmode_hv_mult(WithSignal(p, s), 2, 1) ELSE WithSignal(p, s)

\* What the lemmas below have in common.
LEMMA Suited ==
  ASSUME NEW cc, NEW i \in 1 .. 43, NEW p, NEW s, Suits(cc, i, p, s)
  PROVE  /\ FitsWith(i, p, s, WithSignal(p, s)) /\ Spacious(i, p) /\ p.ar_h = 0 /\ p.ar_v = 0
         /\ p.h_total \in Nat /\ p.h_total >= Default(i).h_total /\ Default(i).h_total \in Nat
         /\ p.h_active = Default(i).h_active /\ Default(i).h_active \in Nat /\ s.v_hz_x100 \in Nat
<1>1. /\ Roomy(p, Default(i)) /\ p.group = Default(i).group /\ p.flags = Default(i).flags
      /\ Signalled(s) /\ s.interlaced = Default(i).interlaced
  BY DEF Suits
<1>2. FitsWith(i, p, s, WithSignal(p, s))
  BY <1>1, MeasuredFits
<1>3. p.ar_h = Default(i).ar_h /\ p.ar_v = Default(i).ar_v /\ p.h_active = Default(i).h_active
  BY <1>1 DEF Roomy, Timings
<1>4. Default(i).ar_h = 0 /\ Default(i).ar_v = 0 /\ Default(i).h_active \in Nat /\ Default(i).h_total \in Nat
  BY PresetsFit DEF Sized
<1> QED BY <1>1, <1>2, <1>3, <1>4 DEF Spacious, Roomy, Signalled

\* The picture fits that is put out with lines times three from one with pixels for three.
Third(t) ==
  [t EXCEPT !.h_synclen = @ \div 3, !.h_backporch = @ \div 3, !.h_active = @ \div 3,
            !.h_total = @ \div 3, !.h_total_adj = 0]
LEMMA ThirdFits ==
  ASSUME NEW cc, Allowed(cc), NEW i \in 1 .. 43, NEW p, NEW s, Suits(cc, i, p, s), L3_GEN_4_3 \in Default(i).flags,
         NEW in, in = WithSignal(p, s), NEW x \in Nat,
         NEW out, out = vmode_hv_mult(Third(WithSignal(p, s)), 4, 3)
  PROVE  FitsIn(Placed(cc, L3_GEN_4_3, p, out, in, x, p.h_active - 2 * p.ar_h), s.v_total >= Default(i).v_total)
<1> DEFINE t == WithSignal(p, s)
           r == Third(t)
           full == s.v_total >= Default(i).v_total
<1>1. FitsWith(i, p, s, t) /\ p.ar_h = 0 /\ p.ar_v = 0 /\ p.h_active = Default(i).h_active
  BY Suited
<1>2. i \in {3, 10}
  BY FlagsOf
<1>3. Default(i).h_active = 960
  BY <1>2, TimingsOf
<1>4. Sized(t) /\ LineFits(t) /\ (full => FrameFits(t)) /\ t.h_active = 960
  BY <1>1, <1>3 DEF FitsWith
<1> HIDE DEF full, t
<1>5. /\ DOMAIN r = DOMAIN t /\ r.h_synclen = t.h_synclen \div 3 /\ r.h_backporch = t.h_backporch \div 3
      /\ r.h_active = t.h_active \div 3 /\ r.h_total = t.h_total \div 3 /\ r.h_total_adj = 0
      /\ r.v_synclen = t.v_synclen /\ r.v_backporch = t.v_backporch /\ r.v_active = t.v_active
      /\ r.v_total = t.v_total /\ r.interlaced = t.interlaced
  BY <1>4, SMT DEF Sized, Timings, Third
<1> HIDE DEF r
<1>6. Sized(r) /\ r.h_active = 320 /\ (full => FrameFits(r))
  <2>1. \A n \in Nat : n \div 3 \in Nat
    BY SMT
  <2>2. Sized(r)
    BY <1>4, <1>5, <2>1 DEF Sized
  <2>3. 960 \div 3 = 320
    BY SMT
  <2>4. full => FrameFits(r)
    BY <1>4, <1>5 DEF FrameFits
  <2> QED BY <1>4, <1>5, <2>2, <2>3, <2>4
<1>7. LineFits(r)
  <2> DEFINE a == t.h_synclen
             b == t.h_backporch
             c == t.h_active
             d == t.h_total
  <2>1. a \in Nat /\ b \in Nat /\ c \in Nat /\ d \in Nat /\ a + b + c <= d
    BY <1>4 DEF Sized, LineFits
  <2> HIDE DEF a, b, c, d
  <2>2. a \div 3 + b \div 3 + c \div 3 <= d \div 3
    BY <2>1, SMT
  <2> QED BY <1>5, <2>2 DEF LineFits, a, b, c, d
<1>8. GrowsTo(r, 4, 3, out)
  <2>1. 4 \in Nat /\ 3 \in 1 .. 6
    OBVIOUS
  <2> QED BY <1>6, <2>1, MultipliedFits DEF r, t
<1>9. Sized(out) /\ LineFits(out) /\ (full => FrameFits(out)) /\ out.h_active = 1280
  <2>1. Capped(320 * 4, 2560) = 1280
    BY SMT DEF Capped
  <2> QED BY <1>6, <1>7, <1>8, <2>1 DEF GrowsTo
<1>10. p.h_active - 2 * p.ar_h = 960 /\ 960 \in Nat
  BY <1>1, <1>3, SMT
<1>11. L3_GEN_4_3 \in Flags /\ ~ OwnFormat(cc, L3_GEN_4_3, p)
  BY SMT DEF Flags, Kinds, OwnFormat, L3_GEN_4_3
<1>12. WidthOf(L3_GEN_4_3, in, x, 960) = 960
  BY DEF WidthOf
<1>13. in.h_active \in Nat /\ full \in BOOLEAN
  BY <1>4 DEF Sized, t, full
<1>14. out.h_active <= 2640 /\ 960 <= out.h_active
  BY <1>9, SMT
<1>15. FitsIn(Placed(cc, L3_GEN_4_3, p, out, in, x, 960), full)
  BY <1>1, <1>9, <1>10, <1>11, <1>12, <1>13, <1>14, PlacedFits
<1> QED BY <1>10, <1>15 DEF full

\* Eighty columns are added to those of 240 that are put out in 1280.
Shift(lm, out) ==
  IF lm # L2_240x360 THEN out ELSE [out EXCEPT !.h_active = @ + 80, !.h_backporch = (@ - 40) % 65536]

\* They have room.
LEMMA ShiftFits ==
  ASSUME NEW lm, NEW t, Sized(t), t.h_synclen = 18, t.h_backporch = 32, t.h_active = 240, t.h_total >= 300,
         NEW v \in 1 .. 6, NEW full \in BOOLEAN, full => FrameFits(t),
         NEW out, out = vmode_hv_mult(t, 5, v)
  PROVE  /\ Sized(Shift(lm, out)) /\ LineFits(Shift(lm, out)) /\ (full => FrameFits(Shift(lm, out)))
         /\ Shift(lm, out).h_active >= 1200 /\ Shift(lm, out).h_active <= 1280
<1> DEFINE o == Shift(lm, out)
<1>1. GrowsTo(t, 5, v, out)
  <2>1. 5 \in Nat
    OBVIOUS
  <2> QED BY <2>1, MultipliedFits
<1>2. /\ Sized(out) /\ (full => FrameFits(out)) /\ out.h_active = 1200 /\ out.h_total = 5 * t.h_total /\ t.h_total \in Nat
  <2>1. Capped(240 * 5, 2560) = 1200
    BY SMT DEF Capped
  <2> QED BY <1>1, <2>1 DEF GrowsTo, Sized
<1>3. out.h_synclen = 90 /\ out.h_backporch = 160
  <2>1. out.h_synclen = Capped(t.h_synclen * 5, 255)
        /\ out.h_backporch = Capped(t.h_backporch * 5 + t.h_synclen * 5 - Capped(t.h_synclen * 5, 255), 511)
    BY SMT DEF vmode_hv_mult, Sized, Timings
  <2>2. Capped(18 * 5, 255) = 90 /\ Capped(32 * 5 + 18 * 5 - 90, 511) = 160
    BY SMT DEF Capped
  <2> QED BY <2>1, <2>2
<1>4. CASE lm # L2_240x360
  <2>1. o = out
    BY <1>4 DEF Shift
  <2>2. LineFits(out)
    BY <1>2, <1>3, SMT DEF LineFits
  <2> QED BY <1>2, <2>1, <2>2, SMT
<1>5. CASE lm = L2_240x360
  <2>1. /\ o.h_active = 1280 /\ o.h_backporch = 120 /\ o.h_synclen = 90 /\ o.h_total = out.h_total
        /\ o.h_total_adj = out.h_total_adj /\ DOMAIN o = DOMAIN out
        /\ o.v_synclen = out.v_synclen /\ o.v_backporch = out.v_backporch /\ o.v_active = out.v_active
        /\ o.v_total = out.v_total /\ o.interlaced = out.interlaced
    <3> DEFINE a == out.h_active + 80
               b == (out.h_backporch - 40) % 65536
    <3>1. o = [out EXCEPT !.h_active = a, !.h_backporch = b]
      BY <1>5 DEF Shift
    <3>2. a = 1280 /\ b = 120
      <4> DEFINE x == out.h_active
                 y == out.h_backporch
      <4>1. x = 1200 /\ y = 160
        BY <1>2, <1>3
      <4> HIDE DEF x, y
      <4>2. x + 80 = 1280
        BY <4>1, SMT
      <4>3. (y - 40) % 65536 = 120
        BY <4>1, SMT
      <4> QED BY <4>2, <4>3 DEF x, y
    <3> HIDE DEF a, b, o
    <3>3. o = [out EXCEPT !.h_active = 1280, !.h_backporch = 120]
      BY <3>1, <3>2
    <3> HIDE DEF o
    <3> QED BY <1>2, <1>3, <3>3, SMT DEF Sized, Timings
  <2> HIDE DEF o
  <2>2. Sized(o)
    BY <1>2, <2>1, SMT DEF Sized
  <2>3. LineFits(o)
    BY <1>2, <2>1, SMT DEF LineFits
  <2>4. full => FrameFits(o)
    BY <1>2, <2>1 DEF FrameFits
  <2> QED BY <2>1, <2>2, <2>3, <2>4, SMT DEF o
<1> QED BY <1>4, <1>5

\* The picture fits whatever else lines are multiplied by.
LEMMA OtherFits ==
  ASSUME NEW cc, Allowed(cc), NEW i \in 1 .. 43, NEW p, NEW s, Suits(cc, i, p, s),
         NEW lm \in Default(i).flags, lm # PT, lm # L3_GEN_4_3,
         NEW in, in = InputOf(cc, lm, p, s), NEW x, x = Narrower(cc, lm, Again(cc, lm, p)), NEW x_wide \in Nat,
         NEW out, out = vmode_hv_mult(WithSignal(p, s), Wider(cc, lm, p), lm[1])
  PROVE  FitsIn(Placed(cc, lm, p, Shift(lm, out), in, x, x_wide), s.v_total >= Default(i).v_total)
<1> DEFINE t == WithSignal(p, s)
           n == Wider(cc, lm, p)
           m == Twice(cc, lm, p)
           h == Default(i).h_active
           o == Shift(lm, out)
           full == s.v_total >= Default(i).v_total
<1>1. /\ FitsWith(i, p, s, t) /\ Spacious(i, p) /\ p.ar_h = 0 /\ p.ar_v = 0
      /\ p.h_total \in Nat /\ p.h_total >= Default(i).h_total /\ Default(i).h_total \in Nat /\ h \in Nat
      /\ s.v_hz_x100 \in Nat
  BY Suited
<1>2. WidensTo(cc, i, lm, n, x, m)
  BY <1>1, Widened
<1>3. /\ n \in 1 .. 6 /\ x \in Nat /\ m \in {1, 2} /\ h * n <= 2560 /\ m * h <= 2560 /\ m * h * (x + 1) <= h * n
      /\ lm[1] \in 2 .. 6 /\ lm[1] \in 1 .. 6 /\ (lm = L2_240x360 => n = 5 /\ i = 17)
  <2>1. \A a \in 2 .. 6 : a \in 1 .. 6
    BY SMT
  <2> QED BY <1>2, <2>1 DEF WidensTo
<1>4. /\ Sized(t) /\ LineFits(t) /\ (full => FrameFits(t)) /\ t.h_total = p.h_total /\ t.h_active = h
      /\ t.v_active = Default(i).v_active /\ t.h_synclen = Default(i).h_synclen /\ t.h_backporch = Default(i).h_backporch
      /\ t.v_hz_x100 = s.v_hz_x100
  BY <1>1 DEF FitsWith
<1>5. OwnFormat(cc, lm, p)
        => h * n <= 1920 /\ n * Default(i).h_total >= 1920 /\ Default(i).v_active * 5 >= 1080 /\ lm[1] = 5
  <2>1. OwnFormat(cc, lm, p) => OwnFormat(cc, lm, Default(i)) /\ lm[1] = 5
    BY <1>1 DEF OwnFormat, Spacious
  <2> QED BY <1>2, <2>1 DEF WidensTo
<1>6. in.h_active = m * h /\ in.h_active \in Nat
  <2>1. CASE Upsampled(cc, lm, p)
    <3>1. in = vmode_hv_mult(t, 2, 1) /\ m = 2
      BY <2>1 DEF InputOf, Twice
    <3>2. in.h_active = Capped(t.h_active * 2, 2560)
      <4> HIDE DEF t
      <4> QED BY <1>1, <1>4, <3>1, SampledTwice
    <3>3. Capped(h * 2, 2560) = 2 * h /\ 2 * h \in Nat
      <4> HIDE DEF h, m
      <4> QED BY <1>1, <1>3, <3>1, SMT DEF Capped
    <3> QED BY <1>4, <3>1, <3>2, <3>3
  <2>2. CASE ~ Upsampled(cc, lm, p)
    <3>1. in = t /\ m = 1
      BY <2>2 DEF InputOf, Twice
    <3>2. 1 * h = h
      BY <1>1, SMT
    <3> QED BY <1>1, <1>4, <3>1, <3>2
  <2> QED BY <2>1, <2>2
<1>7. GrowsTo(t, n, lm[1], out)
  <2>1. n \in Nat
    BY <1>3, SMT
  <2> QED BY <1>3, <1>4, <2>1, MultipliedFits
<1> HIDE DEF t, n, m, h, full
<1>8. /\ Sized(out) /\ LineFits(out) /\ (full => FrameFits(out)) /\ out.h_active = h * n
      /\ out.h_total = n * p.h_total /\ out.v_active = Capped(Default(i).v_active * lm[1], 1728)
  <2>1. Capped(h * n, 2560) = h * n
    <3>1. h * n \in Int
      BY <1>1, <1>3, SMT
    <3> QED BY <1>3, <3>1, SMT DEF Capped
  <2> QED BY <1>4, <1>7, <2>1 DEF GrowsTo
<1>9. /\ Sized(o) /\ LineFits(o) /\ (full => FrameFits(o)) /\ o.h_active >= h * n /\ o.h_active <= 2640
  <2>1. CASE lm # L2_240x360
    <3>1. o = out
      BY <2>1 DEF Shift
    <3>2. h * n \in Int
      BY <1>1, <1>3, SMT
    <3>3. h * n >= h * n /\ h * n <= 2640
      BY <1>3, <3>2, SMT
    <3> QED BY <1>8, <3>1, <3>3
  <2>2. CASE lm = L2_240x360
    <3>1. n = 5 /\ i = 17
      BY <1>3, <2>2
    <3>2. h = 240 /\ Default(i).h_total = 300 /\ Default(i).h_synclen = 18 /\ Default(i).h_backporch = 32
      BY <3>1, TimingsOf DEF h
    <3>3. /\ t.h_synclen = 18 /\ t.h_backporch = 32 /\ t.h_active = 240 /\ t.h_total >= 300
          /\ out = vmode_hv_mult(t, 5, lm[1]) /\ full \in BOOLEAN
      BY <1>1, <1>4, <3>1, <3>2 DEF t, n, full
    <3>4. Sized(o) /\ LineFits(o) /\ (full => FrameFits(o)) /\ o.h_active >= 1200 /\ o.h_active <= 1280
      BY <1>3, <1>4, <3>3, ShiftFits
    <3>5. o.h_active \in Nat
      BY <3>4 DEF Sized
    <3>6. o.h_active >= h * n /\ o.h_active <= 2640
      BY <3>1, <3>2, <3>4, <3>5, SMT
    <3> QED BY <3>4, <3>6
  <2> QED BY <2>1, <2>2
<1>10. WidthOf(lm, in, x, x_wide) = m * h * (x + 1)
  BY <1>6 DEF WidthOf
<1> DEFINE size == m * h * (x + 1)
           w == h * n
<1>11. size \in Nat /\ w \in Int /\ size <= w /\ w <= o.h_active /\ o.h_active \in Nat
  <2>1. \A a, b \in Nat : a * b \in Nat
    BY SMT
  <2>2. m \in Nat /\ x + 1 \in Nat /\ n \in Nat
    BY <1>3, SMT
  <2>3. size \in Nat /\ w \in Nat
    BY <1>1, <2>1, <2>2
  <2>4. o.h_active \in Nat
    BY <1>9 DEF Sized
  <2> QED BY <1>3, <1>9, <2>3, <2>4
<1> HIDE DEF o
<1>12. size <= o.h_active
  <2> HIDE DEF size, w
  <2> QED BY <1>11, SMT
<1>13. OwnFormat(cc, lm, p) => size <= 1920 /\ o.h_total >= 1920 /\ o.v_active >= 1080
  <2> SUFFICES ASSUME OwnFormat(cc, lm, p) PROVE size <= 1920 /\ o.h_total >= 1920 /\ o.v_active >= 1080
    OBVIOUS
  <2>1. w <= 1920 /\ n * Default(i).h_total >= 1920 /\ Default(i).v_active * 5 >= 1080 /\ lm[1] = 5
    BY <1>5
  <2>2. size <= 1920
    <3> HIDE DEF size, w
    <3> QED BY <1>11, <2>1, SMT
  <2>3. o = out
    <3>1. lm # L2_240x360
      BY <2>1, SMT DEF L2_240x360
    <3> QED BY <3>1 DEF o, Shift
  <2>4. o.h_total >= 1920
    <3>1. n \in {1, 2, 3, 4, 5, 6}
      BY <1>3, SMT
    <3>2. n * p.h_total >= n * Default(i).h_total
      BY <1>1, <3>1, SMT
    <3>3. n * p.h_total \in Int /\ n * Default(i).h_total \in Int
      BY <1>1, <3>1, SMT
    <3>4. n * p.h_total >= 1920
      BY <2>1, <3>2, <3>3, SMT
    <3> QED BY <1>8, <2>3, <3>4
  <2>5. o.v_active >= 1080
    <3>1. Default(i).v_active \in Nat
      BY PresetsFit DEF Sized
    <3>2. Capped(Default(i).v_active * 5, 1728) >= 1080
      BY <2>1, <3>1, SMT DEF Capped
    <3> QED BY <1>8, <2>1, <2>3, <3>2
  <2> QED BY <2>2, <2>4, <2>5
<1>14. lm \in Flags /\ full \in BOOLEAN
  BY FlagsKnown DEF full
<1>15. FitsIn(Placed(cc, lm, p, o, in, x, x_wide), full)
  <2> HIDE DEF size
  <2> QED BY <1>1, <1>3, <1>6, <1>9, <1>10, <1>11, <1>12, <1>13, <1>14, PlacedFits DEF size
<1> QED BY <1>15 DEF o, full

--------------------------------------------------------------------------------
(* The picture fits *)

\* A preset as the search finds it: with room if it passes through.
Found(cc, i, p, s) ==
  /\ Suits(cc, i, p, s)
  /\ LineMode(cc, p) = PT => ConsoleRoom(cc, i, p)

\* Whatever the way, the picture fits.
LEMMA ModeFits ==
  ASSUME NEW cc, Allowed(cc), NEW s, NEW id \in 1 .. 43, Found(cc, id, Preset(id), s),
         NEW g, g = get_pure_lm_mode(cc, s, id)
  PROVE  FitsIn(g.picture, s.v_total >= Default(id).v_total)
<1> DEFINE p == Preset(id)
           lm == LineMode(cc, p)
           in == InputOf(cc, lm, p, s)
           h_skip == IF lm = PT THEN PassedThrough(cc, p, in) ELSE Skipped(lm)
           x_rpt == IF Doubled(lm, p) /\ cc.upsample2x = 0 THEN 1 ELSE h_skip
           out == IF lm = L3_GEN_4_3 THEN vmode_hv_mult(Third(WithSignal(p, s)), 4, 3)
                  ELSE IF lm = PT THEN vmode_hv_mult(in, x_rpt + 1, 1)
                  ELSE vmode_hv_mult(WithSignal(p, s), IF Upsampled(cc, lm, p) THEN 2 ELSE x_rpt + 1, lm[1])
           x == Narrower(cc, lm, x_rpt)
           x_wide == p.h_active - 2 * p.ar_h
           full == s.v_total >= Default(id).v_total
<1>1. g.picture = Placed(cc, lm, p, Shift(lm, out), in, x, x_wide)
  <2> DEFINE picture == Placed(cc, lm, p, Shift(lm, out), in, x, x_wide)
             mult == ClockMult(lm, x_rpt, h_skip)
  <2>1. g = [id |-> id, lm |-> lm, in |-> in, h_skip |-> h_skip, picture |-> picture, si_pclk_mult |-> mult,
             pll_h_total |-> 0, pclk_o |-> 0,
             tx_pixelrep |-> IF \/ lm = L5_GEN_4_3 /\ p.group = "288P"
                                \/ lm = L3_GEN_16_9 /\ p.group \in {"480P", "576P"}
                                \/ lm = L3_240x360 \/ lm[1] = 6 THEN 1 ELSE 0]
    BY DEF get_pure_lm_mode, InputOf, WithSignal, Third, Shift
  <2> HIDE DEF lm, in, h_skip, picture, mult, p
  <2>2. g.picture = picture
    BY <2>1, SMT
  <2> QED BY <2>2 DEF picture
<1>2. Suits(cc, id, p, s) /\ p.flags = Default(id).flags /\ valid_lm(cc, p.group) \cap p.flags # {}
  BY DEF Found, Suits
<1>3. p.ar_h = 0 /\ p.h_active \in Nat /\ x_wide \in Nat
  <2>1. p.ar_h = 0 /\ p.h_active = Default(id).h_active /\ Default(id).h_active \in Nat
    BY <1>2, Suited
  <2> HIDE DEF p
  <2>2. x_wide = p.h_active
    BY <2>1, SMT
  <2> QED BY <2>1, <2>2
<1>4. lm # PT => lm \in Default(id).flags
  BY <1>2, LineModeOf
<1> HIDE DEF p, lm, full
<1>5. CASE lm = PT
  <2>1. ~ Doubled(lm, p)
    BY <1>5, SMT DEF Doubled, PT, L2, L3_GEN_16_9, L4_GEN_4_3
  <2>2. x_rpt = PassedThrough(cc, p, in) /\ out = vmode_hv_mult(in, x_rpt + 1, 1)
    <3>1. lm # L3_GEN_4_3
      BY <1>5, SMT DEF PT, L3_GEN_4_3
    <3> QED BY <1>5, <2>1, <3>1
  <2>3. x = x_rpt
    <3> HIDE DEF x_rpt
    <3> QED BY <1>5, SMT DEF Narrower, PT, L2_240x360, L3_240x360
  <2>4. Shift(lm, out) = out
    <3>1. lm # L2_240x360
      BY <1>5, SMT DEF PT, L2_240x360
    <3> QED BY <3>1 DEF Shift
  <2>5. ConsoleRoom(cc, id, p)
    BY <1>5 DEF Found, p, lm
  <2>6. in = (IF Upsampled(cc, PT, p) THEN vmode_hv_mult(WithSignal(p, s), 2, 1) ELSE WithSignal(p, s))
    BY <1>5 DEF InputOf
  <2>7. LineMode(cc, p) = PT
    BY <1>5 DEF lm
  <2> HIDE DEF in, x_rpt, out, x, x_wide
  <2>8. FitsIn(Placed(cc, PT, p, out, in, x_rpt, x_wide), s.v_total >= Default(id).v_total)
    BY <1>2, <1>3, <2>2, <2>5, <2>6, <2>7, PassedFits
  <2> QED BY <1>1, <1>5, <2>3, <2>4, <2>8
<1>6. CASE lm = L3_GEN_4_3
  <2>1. ~ Doubled(lm, p) /\ lm # PT /\ lm # L2_240x360
    BY <1>6, SMT DEF Doubled, PT, L2, L3_GEN_16_9, L4_GEN_4_3, L3_GEN_4_3, L2_240x360
  <2>2. in = WithSignal(p, s)
    BY <2>1 DEF InputOf, Upsampled
  <2>3. x_rpt = Skipped(lm) /\ out = vmode_hv_mult(Third(WithSignal(p, s)), 4, 3) /\ Shift(lm, out) = out
    BY <1>6, <2>1 DEF Shift
  <2>4. L3_GEN_4_3 \in Default(id).flags
    BY <1>4, <1>6, <2>1
  <2>5. x \in Nat
    <3>1. lm \in Listed
      BY <1>6, <2>4, FlagsListed DEF Listed
    <3>2. cc.ar_256col \in {0, 1}
      BY DEF Allowed
    <3> HIDE DEF x_rpt
    <3>3. x \in 0 .. x_rpt /\ x_rpt \in Nat
      BY <2>3, <3>1, <3>2, NarrowerRange
    <3> HIDE DEF x
    <3> QED BY <3>3, SMT
  <2> HIDE DEF in, x_rpt, out, x
  <2>6. FitsIn(Placed(cc, L3_GEN_4_3, p, out, in, x, p.h_active - 2 * p.ar_h), s.v_total >= Default(id).v_total)
    BY <1>2, <2>2, <2>3, <2>4, <2>5, ThirdFits
  <2> QED BY <1>1, <1>6, <2>3, <2>6
<1>7. CASE lm # PT /\ lm # L3_GEN_4_3
  <2>1. lm \in Default(id).flags
    BY <1>4, <1>7
  <2>2. x_rpt = Again(cc, lm, p) /\ x = Narrower(cc, lm, Again(cc, lm, p))
    BY <1>7 DEF Again
  <2>3. out = vmode_hv_mult(WithSignal(p, s), Wider(cc, lm, p), lm[1])
    BY <1>7, <2>2 DEF Wider
  <2> HIDE DEF in, x_rpt, out, x, x_wide
  <2>4. in = InputOf(cc, lm, p, s)
    BY DEF in
  <2>5. FitsIn(Placed(cc, lm, p, Shift(lm, out), in, x, x_wide), s.v_total >= Default(id).v_total)
    BY <1>2, <1>3, <1>7, <2>1, <2>2, <2>3, <2>4, OtherFits
  <2> QED BY <1>1, <2>5
<1> QED BY <1>5, <1>6, <1>7

\* Sampling leaves the picture.
LEMMA SamplingPictured ==
  ASSUME NEW g, NEW s, {"h_skip", "si_pclk_mult", "pll_h_total", "picture"} \subseteq DOMAIN g
  PROVE  Sampling(g, s).picture = g.picture /\ DOMAIN Sampling(g, s) = DOMAIN g
BY SMT DEF Sampling

\* What program_mode programs fits.
LEMMA ProgramsFit ==
  ASSUME NEW s, NEW again, program_mode(s, again), Allowed(tc),
         NEW id, id = FoundPreset(tc, s), id \in 1 .. 43, Found(tc, id, Preset(id), s)
  PROVE  FitsIn(vmode'.picture, s.v_total >= Default(id).v_total)
<1> DEFINE g == get_pure_lm_mode(tc, s, id)
           m == Sampling(g, s)
           v == [m EXCEPT !.pclk_o = calculate_pclk(m, s)]
<1>1. vmode' = v
  BY SMT DEF program_mode
<1>2. {"h_skip", "si_pclk_mult", "pll_h_total", "picture"} \subseteq DOMAIN g
  BY SMT DEF get_pure_lm_mode
<1>3. FitsIn(g.picture, s.v_total >= Default(id).v_total)
  <2>1. g = get_pure_lm_mode(tc, s, id)
    OBVIOUS
  <2> HIDE DEF g
  <2> QED BY <2>1, ModeFits
<1> HIDE DEF g
<1>4. m.picture = g.picture /\ "picture" \in DOMAIN m
  BY <1>2, SamplingPictured
<1> HIDE DEF m
<1>5. v.picture = m.picture
  BY <1>4, SMT
<1> HIDE DEF v
<1> QED BY <1>1, <1>3, <1>4, <1>5

\* A setting is stepped within the limits of its item.
LEMMA ValueAllowed == ASSUME NaviInv, Allowed(tc), NEW up, Value(up) PROVE Allowed(tc')
<1>1. CASE item.type = "sel" /\ tc' = [tc EXCEPT ![item.data] = Stepped(@, up, item.min, item.max, TRUE)]
  <2>1. /\ navlvl \in 0 .. 2 /\ Here.m \in Level(navlvl) /\ Here.mp \in 0 .. Len(Menus[Here.m]) - 1
        /\ item = Menus[Here.m][Here.mp + 1]
    BY HereIs DEF item
  <2>2. item \in Numbers \/ item \in Items(Level(navlvl + 1))
    BY <2>1, ItemOf
  <2>3. item \in Selections
    BY <1>1, <2>2 DEF Items, Numbers
  <2>4. item.min = 0 /\ Limited(item.data, item.max)
    BY <2>3 DEF Selections
  <2> DEFINE d == item.data
             v == Stepped(tc[d], up, 0, item.max, TRUE)
  <2>5. tc' = [tc EXCEPT ![d] = v]
    BY <1>1, <2>4
  <2>6. d \in {"pt_mode", "pm_240p"} /\ tc[d] \in 0 .. 5 => v \in 0 .. 5
    BY <2>4, SMT DEF Limited, Stepped
  <2>7. d = "ar_256col" /\ tc[d] \in {0, 1} => v \in {0, 1}
    BY <2>4, SMT DEF Limited, Stepped
  <2> HIDE DEF d, v
  <2>8. CASE d \in {"pt_mode", "pm_240p"}
    BY <2>5, <2>6, <2>8 DEF Allowed
  <2>9. CASE d = "ar_256col"
    BY <2>5, <2>7, <2>9 DEF Allowed
  <2>10. CASE d \notin {"pt_mode", "pm_240p", "ar_256col"}
    BY <2>5, <2>10 DEF Allowed
  <2> QED BY <2>8, <2>9, <2>10
<1>2. CASE tc' = tc
  BY <1>2
<1> QED BY <1>1, <1>2 DEF Value

\* The keys leave settings within their limits.
LEMMA KeysAllowed ==
  ASSUME NaviInv, Allowed(tc), Allowed(ProfileSettings), Allowed(DefaultSettings), MenuKeys
  PROVE  Allowed(tc')
<1>1. CASE PREV_PAGE \/ NEXT_PAGE \/ PREV_MENU \/ Enter \/ RC_MENU \/ RC_PHASE
  BY <1>1 DEF PREV_PAGE, NEXT_PAGE, Move, PREV_MENU, Enter, RC_MENU, RC_PHASE, Untouched
<1>2. CASE CallFunction \/ LoadProfile
  BY <1>2 DEF CallFunction, LoadProfile, Replace
<1>3. CASE VAL_MINUS \/ VAL_PLUS
  BY <1>3, ValueAllowed DEF VAL_MINUS, VAL_PLUS
<1> QED BY <1>1, <1>2, <1>3 DEF MenuKeys, OPT_SELECT

--------------------------------------------------------------------------------
\* No timing of a preset was edited, but for longer lines.
Unedited == \A i \in 1 .. 43 : Roomy(Preset(i), Default(i))

\* The picture of the mode programmed fits; under the invariant the next one will.
Pictured(m, s) == m.id \in 1 .. 43 /\ FitsIn(m.picture, s.v_total >= Default(m.id).v_total)
FollowsInv ==
  /\ LockedInv /\ Allowed(tc)
  /\ vmode # None => Pictured(vmode, signal)

\* What the main loop programs fits.
LEMMA ModePictured ==
  ASSUME CopiesInv, Alike(video_modes_plm), Unedited, Allowed(tc), NEW s, Signalled(s), Swift(s), NEW again,
         program_mode(s, again)
  PROVE  vmode' # None => Pictured(vmode', signal')
<1> DEFINE id == FoundPreset(tc, s)
<1>1. cm.id \in 1 .. 43
  BY DEF CopiesInv
<1>2. signal' = s /\ (id = 0 => vmode' = None) /\ (id # 0 => vmode'.id = id)
  BY <1>1, Programs
<1>3. ASSUME id # 0 PROVE Pictured(vmode', s)
  <2>1. TableKept
    BY AlikeKept
  <2>2. s.v_total \in Int /\ s.v_hz_x100 \in Int
    BY DEF Signalled
  <2>3. id \in 1 .. 43 /\ Offered(tc, s, id)
    BY <1>3, <2>1, <2>2, SearchFinds
  <2> DEFINE p == Preset(id)
  <2>4. p.group = Default(id).group /\ p.flags = Default(id).flags /\ p.interlaced = Default(id).interlaced
    BY <2>1, <2>3, Count DEF TableKept
  <2>5. Suits(tc, id, p, s)
    <3>1. valid_lm(tc, p.group) \cap p.flags # {} /\ s.interlaced = p.interlaced
      BY <2>3 DEF Offered
    <3>2. Roomy(p, Default(id))
      BY <2>3 DEF Unedited
    <3> QED BY <2>4, <3>1, <3>2 DEF Suits
  <2>6. LineMode(tc, p) = PT => ConsoleRoom(tc, id, p)
    <3> SUFFICES ASSUME LineMode(tc, p) = PT, tc.pt_mode >= 2, p.group \in {"240P", "288P"}
                 PROVE  /\ Default(id).h_active * (tc.pt_mode + 1) <= 2560
                        /\ Default(id).h_total * (tc.pt_mode + 1) >= 2000
      BY DEF ConsoleRoom
    <3>1. LineMode(tc, Default(id)) = PT /\ Default(id).group \in {"240P", "288P"}
      BY <2>4 DEF LineMode
    <3> QED BY <1>3, <2>1, <2>2, <3>1, FoundConsole
  <2>7. Found(tc, id, p, s)
    BY <2>5, <2>6 DEF Found
  <2>8. FitsIn(vmode'.picture, s.v_total >= Default(id).v_total)
    <3>1. id = FoundPreset(tc, s)
      OBVIOUS
    <3> HIDE DEF id
    <3> QED BY <2>3, <2>7, <3>1, ProgramsFit
  <2> QED BY <1>2, <1>3, <2>3, <2>8 DEF Pictured
<1> QED BY <1>2, <1>3

\* Nothing has been programmed at first.
LEMMA FollowsStarts ==
  ASSUME Alike(ProfileTable), AllWide(ProfileTable), Allowed(tc), MenuInit
  PROVE  FollowsInv
<1>1. Repeats(tc)
  BY SMT DEF Allowed, Repeats
<1>2. LockedInv
  BY <1>1, LockedStarts
<1>3. vmode = None
  BY DEF MenuInit
<1> QED BY <1>2, <1>3 DEF FollowsInv

\* What is expected of the signals and of the profile: the lines, rates, groups and flags of its
\* presets are the default ones and their lines 300 or longer, its settings are within their
\* limits, and the signals have at least 15000 lines in a second.
Expected(Signals) ==
  /\ \A s \in Signals : Signalled(s) /\ Swift(s)
  /\ Alike(ProfileTable) /\ AllWide(ProfileTable) /\ Allowed(ProfileSettings) /\ Allowed(DefaultSettings)

\* Every step from presets that were not edited keeps the invariant.
LEMMA FollowsStep ==
  ASSUME NEW Signals, Expected(Signals), FollowsInv, Unedited, [MenuNext(Signals)]_menuVars
  PROVE  FollowsInv'
<1>1. LockedInv /\ Allowed(tc) /\ (vmode # None => Pictured(vmode, signal))
  BY DEF FollowsInv
<1>2. NaviInv /\ CopiesInv /\ Alike(video_modes_plm)
  BY <1>1 DEF LockedInv, PresetInv, MenuInv
<1>3. LockedInv'
  <2>1. Repeats(ProfileSettings) /\ Repeats(DefaultSettings)
    BY SMT DEF Expected, Allowed, Repeats
  <2>2. /\ \A s \in Signals : Signalled(s)
        /\ Alike(ProfileTable) /\ AllWide(ProfileTable)
    BY DEF Expected
  <2> QED BY <1>1, <2>1, <2>2, LockedStep
<1>4. CASE MenuKeys
  <2>1. Allowed(tc')
    BY <1>1, <1>2, <1>4, KeysAllowed DEF Expected
  <2>2. vmode' = vmode /\ signal' = signal
    BY <1>4, KeysKeepMode DEF KeepsMode
  <2> QED BY <1>1, <1>3, <2>1, <2>2 DEF FollowsInv
<1>5. CASE ModeChange(Signals)
  <2>1. PICK s \in Signals : program_mode(s, update_cur_vm)
    BY <1>5 DEF ModeChange
  <2>2. Signalled(s) /\ Swift(s)
    BY DEF Expected
  <2>3. vmode' # None => Pictured(vmode', signal')
    BY <1>1, <1>2, <2>1, <2>2, ModePictured
  <2>4. tc' = tc
    BY <2>1 DEF program_mode
  <2> QED BY <1>1, <1>3, <2>3, <2>4 DEF FollowsInv
<1>6. CASE UNCHANGED menuVars
  <2>1. tc' = tc /\ vmode' = vmode /\ signal' = signal
    BY <1>6 DEF menuVars, lmVars
  <2> QED BY <1>1, <1>3, <2>1 DEF FollowsInv
<1> QED BY <1>4, <1>5, <1>6 DEF MenuNext

\* It implies the property.
LEMMA FollowsImplies == ASSUME FollowsInv PROVE OutputFollowsInput
<1>1. SUFFICES ASSUME vmode # None PROVE Locked /\ PictureFits
  BY DEF OutputFollowsInput
<1>2. LockedTo(vmode, signal) /\ Pictured(vmode, signal) /\ Alike(video_modes_plm)
  BY <1>1 DEF FollowsInv, LockedInv, PresetInv, MenuInv
<1>3. Locked
  BY <1>2 DEF Locked, LockedTo
<1>4. Preset(vmode.id).v_total = Default(vmode.id).v_total
  BY <1>2, AlikeKept, Count DEF TableKept, Pictured
<1>5. PictureFits
  BY <1>2, <1>4 DEF PictureFits, Pictured, FitsIn, LineFits, FrameFits
<1> QED BY <1>3, <1>5

(* The output follows the input, by OutputFollowsInput: it is locked and   *)
(* the picture fits, whatever the settings that the menu allows, as long   *)
(* as no timing of a preset is edited but the length of its line, which    *)
(* the page only limits for itself.  For any signals and profile as        *)
(* Expected says, as slower signals may be repeated beyond what fits.      *)
THEOREM MenuOutputFollowsInput ==
  ASSUME NEW Signals, Expected(Signals)
  PROVE  Allowed(tc) /\ MenuSpec(Signals) /\ []Unedited => []OutputFollowsInput
<1>1. Allowed(tc) /\ MenuInit => FollowsInv
  BY FollowsStarts DEF Expected
<1>2. FollowsInv /\ Unedited /\ [MenuNext(Signals)]_menuVars => FollowsInv'
  BY FollowsStep
<1>3. FollowsInv => OutputFollowsInput
  BY FollowsImplies
<1> QED BY <1>1, <1>2, <1>3, PTL DEF MenuSpec
================================================================================
