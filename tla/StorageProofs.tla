----------------------------- MODULE StorageProofs -----------------------------
(***************************************************************************)
(* Proofs about Storage: for every number of inputs and profiles, whatever *)
(* the user chooses, whatever the cards hold and however often the power   *)
(* is cut.                                                                 *)
(***************************************************************************)
EXTENDS Storage, TLAPS, SequenceTheorems

\* Settings whose input may be anything, and settings in their ranges.
AnySettings ==
  [target_input : Nat, avinput : Input, def_input : Nat, input_profiles : [Input -> Profile],
   profile_sel : Profile, profile_link : Nat, options : Nat, set : Nat, link : Nat, table : DOMAIN Stored]
Settings ==
  [target_input : Input, avinput : Input, def_input : Nat, input_profiles : [Input -> Profile],
   profile_sel : Profile, profile_link : Nat, options : Nat, set : Nat, link : Nat, table : DOMAIN Stored]

\* What an entry may hold: any prefix of a save, a card's contents.
Data == {e \in Seq(Nat) : Loadable(e)}

StoreTypeOK ==
  /\ pc \in {"off", "booted", "main", "erase", "write", "import", "export", "lost"}
  /\ ram \in AnySettings
  /\ flash \in [Entry -> Data]
  /\ protected \in BOOLEAN
  /\ job \in [entry : Entry, words : Data, then : {"main", "saved", "import", "lost"}]
  /\ n \in 0 .. MAX_USERDATA_ENTRY + 1
  /\ card \in [Entry -> Data]
  /\ cut \in BOOLEAN

\* While an entry is written it holds a prefix of what the job writes, which is what
\* the caller says.
JobInv ==
  /\ pc = "write" =>
       /\ Len(flash[job.entry]) <= Len(job.words)
       /\ \A k \in 1 .. Len(flash[job.entry]) : flash[job.entry][k] = job.words[k]
  /\ pc \in {"erase", "write"} =>
       /\ job.then \in {"main", "lost"} => job.entry = MAX_USERDATA_ENTRY /\ job.words = InitImage(ram)
       /\ job.then = "saved" => job.entry \in Profile /\ job.words = ProfileImage(ram)
       /\ job.then = "import" => n \in Entry

\* A link to no input has been followed, and nothing but a power cut ends it.
Lost == pc \in {"off", "lost"} \/ (pc \in {"erase", "write"} /\ job.then = "lost")
AimInv == ram.target_input \in Input \/ (ram.target_input = ram.link /\ Lost)

StoreInv == StoreTypeOK /\ JobInv /\ AimInv

LEMMA SettingsSplit == \A r : r \in Settings <=> r \in AnySettings /\ r.target_input \in Input
<1>1. Input \subseteq Nat
  BY SizeAssumption DEF Input
<1> QED BY <1>1 DEF Settings, AnySettings

LEMMA InForce ==
  ASSUME StoreInv, ~ Lost
  PROVE  ram \in Settings
BY SettingsSplit DEF StoreInv, StoreTypeOK, AimInv
--------------------------------------------------------------------------------
(* Entries. *)

\* What is read from an entry, programmed or not, is a number.
LEMMA CellTyped ==
  ASSUME NEW e \in Data, NEW k \in Nat \ {0}
  PROVE  Cell(e, k) \in Nat
BY SizeAssumption, ElementOfSeq, LenProperties DEF Cell, Data

\* Loading an entry, valid or not, leaves every setting in its range (userdata.c:200-217).
LEMMA LoadInitTyped ==
  ASSUME NEW r \in Settings, NEW e \in Data
  PROVE  LoadInit(r, e) \in Settings
<1>1. AV_LAST \in Nat \ {0} /\ MAX_PROFILE \in Nat
  BY SizeAssumption
<1> DEFINE linked == [i \in Input |-> IF Cell(e, 3 + i) <= MAX_PROFILE THEN Cell(e, 3 + i) ELSE r.input_profiles[i]]
           last == Cell(e, AV_LAST + 4)
           def == Cell(e, AV_LAST + 5)
<1>2. linked \in [Input -> Profile]
  <2> SUFFICES ASSUME NEW i \in Input PROVE linked[i] \in Profile
    OBVIOUS
  <2>1. Cell(e, 3 + i) \in Nat
    BY <1>1, CellTyped DEF Input
  <2> QED BY <1>1, <2>1 DEF Profile, Settings, AnySettings
<1>3. linked[AV_TESTPAT] \in Profile
  BY <1>1, <1>2 DEF Input, AV_TESTPAT
<1>4. last \in Nat /\ def \in Nat /\ Cell(e, AV_LAST + 3) \in Nat /\ Cell(e, AV_LAST + 6) \in Nat
  BY <1>1, CellTyped
<1>5. (IF def < AV_LAST THEN def ELSE IF last < AV_LAST THEN last ELSE r.target_input) \in Input
  BY <1>1, <1>4 DEF Input, Settings, AnySettings
<1> HIDE DEF linked, last, def
<1>6. [r EXCEPT !.input_profiles = linked, !.profile_link = Cell(e, AV_LAST + 3), !.def_input = def,
                !.target_input = IF def < AV_LAST THEN def ELSE IF last < AV_LAST THEN last ELSE @,
                !.options = Cell(e, AV_LAST + 6), !.profile_sel = linked[AV_TESTPAT]] \in Settings
  BY <1>2, <1>3, <1>4, <1>5 DEF Settings, AnySettings
<1> QED BY <1>6 DEF LoadInit, linked, last, def

LEMMA LoadSlotTyped ==
  ASSUME NEW r \in Settings, NEW e \in Data
  PROVE  LoadSlot(r, e) \in Settings
<1>1. Cell(e, 3) \in Nat /\ Cell(e, 4) \in Nat
  BY CellTyped
<1>2. Valid(e, UDE_PROFILE) => Cell(e, 5) \in DOMAIN Stored
  BY StoredAssumption, LenProperties DEF Valid, Cell, Data, Loadable
<1> QED BY <1>1, <1>2 DEF LoadSlot, Settings, AnySettings

LEMMA SelectTyped ==
  ASSUME NEW r \in Settings, NEW p \in Profile, flash \in [Entry -> Data]
  PROVE  Select(r, p) \in Settings
<1>1. p \in Entry
  BY SizeAssumption DEF Profile, Entry, MAX_USERDATA_ENTRY
<1>2. [r EXCEPT !.profile_sel = p] \in Settings
  BY DEF Settings, AnySettings
<1> QED BY <1>1, <1>2, LoadSlotTyped DEF Select

LEMMA FollowLinkTyped ==
  ASSUME NEW r \in Settings, flash \in [Entry -> Data]
  PROVE  FollowLink(r) \in Settings
<1>1. r.input_profiles[r.target_input] \in Profile
  BY DEF Settings, AnySettings
<1> QED BY <1>1, SelectTyped DEF FollowLink

LEMMA FunctionIsSeq ==
  ASSUME NEW N \in Nat, NEW f \in [1 .. N -> Nat]
  PROVE  f \in Seq(Nat) /\ Len(f) = N
<1>1. f \in Seq(Nat)
  OBVIOUS
<1>2. DOMAIN f = 1 .. Len(f) /\ Len(f) \in Nat
  BY <1>1, LenProperties
<1> QED BY <1>1, <1>2

LEMMA CatCells ==
  ASSUME NEW a \in Seq(Nat), NEW b \in Seq(Nat)
  PROVE  /\ a \o b \in Seq(Nat)
         /\ Len(a \o b) = Len(a) + Len(b)
         /\ \A k \in 1 .. Len(a) : (a \o b)[k] = a[k]
         /\ \A k \in 1 .. Len(b) : (a \o b)[Len(a) + k] = b[k]
<1>1. a \o b \in Seq(Nat)
  BY ConcatProperties
<1>2. Len(a \o b) = Len(a) + Len(b)
  BY ConcatProperties
<1>3. \A k \in 1 .. Len(a) + Len(b) : (a \o b)[k] = IF k <= Len(a) THEN a[k] ELSE b[k - Len(a)]
  BY ConcatProperties
<1>4. Len(a) \in Nat /\ Len(b) \in Nat
  BY LenProperties
<1>5. \A k \in 1 .. Len(a) : (a \o b)[k] = a[k]
  BY <1>3, <1>4
<1>6. \A k \in 1 .. Len(b) : (a \o b)[Len(a) + k] = b[k]
  <2> SUFFICES ASSUME NEW k \in 1 .. Len(b) PROVE (a \o b)[Len(a) + k] = b[k]
    OBVIOUS
  <2>1. Len(a) + k \in 1 .. Len(a) + Len(b) /\ ~ Len(a) + k <= Len(a) /\ Len(a) + k - Len(a) = k
    BY <1>4
  <2> QED BY <1>3, <2>1
<1> QED BY <1>1, <1>2, <1>5, <1>6

LEMMA ThreeParts ==
  ASSUME NEW a \in Seq(Nat), NEW b \in Seq(Nat), NEW c \in Seq(Nat), Len(a) = 2, Len(c) = 4
  PROVE  /\ (a \o b) \o c \in Seq(Nat)
         /\ Len((a \o b) \o c) = Len(b) + 6
         /\ ((a \o b) \o c)[1] = a[1]
         /\ \A k \in 1 .. Len(b) : ((a \o b) \o c)[2 + k] = b[k]
         /\ \A k \in 1 .. 4 : ((a \o b) \o c)[Len(b) + 2 + k] = c[k]
<1>0. PICK N \in Nat : N = Len(b)
  BY LenProperties
<1> DEFINE ab == a \o b
<1>1. /\ ab \in Seq(Nat) /\ Len(ab) = Len(a) + Len(b)
      /\ \A k \in 1 .. Len(a) : ab[k] = a[k]
      /\ \A k \in 1 .. Len(b) : ab[Len(a) + k] = b[k]
  BY CatCells
<1> HIDE DEF ab
<1>2. Len(ab) = 2 + N /\ (\A k \in 1 .. 2 : ab[k] = a[k]) /\ (\A k \in 1 .. N : ab[2 + k] = b[k])
  BY <1>0, <1>1
<1>3. /\ ab \o c \in Seq(Nat) /\ Len(ab \o c) = Len(ab) + Len(c)
      /\ \A k \in 1 .. Len(ab) : (ab \o c)[k] = ab[k]
      /\ \A k \in 1 .. Len(c) : (ab \o c)[Len(ab) + k] = c[k]
  BY <1>1, CatCells
<1>4. /\ Len(ab \o c) = 2 + N + 4 /\ (\A k \in 1 .. 2 + N : (ab \o c)[k] = ab[k])
      /\ (\A k \in 1 .. 4 : (ab \o c)[2 + N + k] = c[k])
  BY <1>0, <1>2, <1>3
<1>5. (ab \o c)[1] = a[1]
  BY <1>2, <1>4
<1>6. \A k \in 1 .. N : (ab \o c)[2 + k] = b[k]
  <2> SUFFICES ASSUME NEW k \in 1 .. N PROVE (ab \o c)[2 + k] = b[k]
    OBVIOUS
  <2>1. 2 + k \in 1 .. 2 + N
    OBVIOUS
  <2> QED BY <1>2, <1>4, <2>1
<1>7. \A k \in 1 .. 4 : (ab \o c)[N + 2 + k] = c[k]
  <2>1. \A k \in 1 .. 4 : N + 2 + k = 2 + N + k
    OBVIOUS
  <2> QED BY <1>4, <2>1
<1>8. \A k \in 1 .. Len(b) : (ab \o c)[2 + k] = b[k]
  BY <1>0, <1>6
<1>9. \A k \in 1 .. 4 : (ab \o c)[Len(b) + 2 + k] = c[k]
  BY <1>0, <1>7
<1>10. Len(ab \o c) = Len(b) + 6
  BY <1>0, <1>4
<1> QED BY <1>3, <1>5, <1>8, <1>9, <1>10 DEF ab

\* Cell by cell, the image of the initial configuration.
LEMMA InitImageCells ==
  ASSUME NEW r, r.input_profiles \in [Input -> Profile],
         r.profile_link \in Nat, r.target_input \in Nat, r.def_input \in Nat, r.options \in Nat
  PROVE  /\ InitImage(r) \in Seq(Nat)
         /\ Len(InitImage(r)) = AV_LAST + 6
         /\ InitImage(r)[1] = UDE_INITCFG
         /\ \A i \in Input : InitImage(r)[3 + i] = r.input_profiles[i]
         /\ InitImage(r)[AV_LAST + 3] = r.profile_link
         /\ InitImage(r)[AV_LAST + 4] = r.target_input
         /\ InitImage(r)[AV_LAST + 5] = r.def_input
         /\ InitImage(r)[AV_LAST + 6] = r.options
<1>1. AV_LAST \in Nat \ {0} /\ MAX_PROFILE \in Nat
  BY SizeAssumption
<1> DEFINE head == <<UDE_INITCFG, Length>>
           links == [k \in 1 .. AV_LAST |-> r.input_profiles[k - 1]]
           tail == <<r.profile_link, r.target_input, r.def_input, r.options>>
<1>2. head \in Seq(Nat) /\ Len(head) = 2 /\ head[1] = UDE_INITCFG
  BY DEF UDE_INITCFG, Length
<1>3. tail \in Seq(Nat) /\ Len(tail) = 4 /\ tail[1] = r.profile_link /\ tail[2] = r.target_input
      /\ tail[3] = r.def_input /\ tail[4] = r.options
  OBVIOUS
<1>4. links \in Seq(Nat) /\ Len(links) = AV_LAST /\ \A i \in Input : links[i + 1] = r.input_profiles[i]
  <2>1. \A k \in 1 .. AV_LAST : r.input_profiles[k - 1] \in Nat
    BY <1>1 DEF Input, Profile
  <2>2. links \in Seq(Nat) /\ Len(links) = AV_LAST
    BY <1>1, <2>1, FunctionIsSeq
  <2>3. \A i \in Input : links[i + 1] = r.input_profiles[i]
    BY <1>1 DEF Input
  <2> QED BY <2>2, <2>3
<1> HIDE DEF head, links, tail
<1>5. InitImage(r) = (head \o links) \o tail
  BY DEF InitImage, head, links, tail
<1>6. /\ InitImage(r) \in Seq(Nat) /\ Len(InitImage(r)) = AV_LAST + 6 /\ InitImage(r)[1] = head[1]
      /\ \A k \in 1 .. AV_LAST : InitImage(r)[2 + k] = links[k]
      /\ \A k \in 1 .. 4 : InitImage(r)[AV_LAST + 2 + k] = tail[k]
  <2>1. head \in Seq(Nat) /\ Len(head) = 2 /\ links \in Seq(Nat) /\ Len(links) = AV_LAST
        /\ tail \in Seq(Nat) /\ Len(tail) = 4 /\ AV_LAST \in Nat
    BY <1>1, <1>2, <1>3, <1>4
  <2>2. (head \o links) \o tail \in Seq(Nat) /\ Len((head \o links) \o tail) = Len(links) + 6
    BY <2>1, ThreeParts
  <2>3. ((head \o links) \o tail)[1] = head[1]
    BY <2>1, ThreeParts
  <2>4. \A k \in 1 .. Len(links) : ((head \o links) \o tail)[2 + k] = links[k]
    BY <2>1, ThreeParts
  <2>5. \A k \in 1 .. 4 : ((head \o links) \o tail)[Len(links) + 2 + k] = tail[k]
    BY <2>1, ThreeParts
  <2> QED BY <1>5, <2>1, <2>2, <2>3, <2>4, <2>5
<1>7. \A i \in Input : InitImage(r)[3 + i] = r.input_profiles[i]
  <2> SUFFICES ASSUME NEW i \in Input PROVE InitImage(r)[3 + i] = r.input_profiles[i]
    OBVIOUS
  <2>1. i + 1 \in 1 .. AV_LAST /\ 2 + (i + 1) = 3 + i
    BY <1>1 DEF Input
  <2> QED BY <1>4, <1>6, <2>1
<1>8. /\ InitImage(r)[AV_LAST + 3] = tail[1] /\ InitImage(r)[AV_LAST + 4] = tail[2]
      /\ InitImage(r)[AV_LAST + 5] = tail[3] /\ InitImage(r)[AV_LAST + 6] = tail[4]
  <2>1. AV_LAST + 2 + 1 = AV_LAST + 3 /\ AV_LAST + 2 + 2 = AV_LAST + 4 /\ AV_LAST + 2 + 3 = AV_LAST + 5
        /\ AV_LAST + 2 + 4 = AV_LAST + 6
    BY <1>1
  <2>2. 1 \in 1 .. 4 /\ 2 \in 1 .. 4 /\ 3 \in 1 .. 4 /\ 4 \in 1 .. 4
    OBVIOUS
  <2> QED BY <1>6, <2>1, <2>2
<1> QED BY <1>2, <1>3, <1>6, <1>7, <1>8

\* What is saved can be loaded, and so can a part of what can.
LEMMA InitImageTyped ==
  ASSUME NEW r \in AnySettings
  PROVE  InitImage(r) \in Data /\ Whole(InitImage(r))
<1>1. r.target_input \in Nat
  BY SizeAssumption DEF Settings, AnySettings, Input
<1>2. InitImage(r) \in Seq(Nat) /\ Len(InitImage(r)) = AV_LAST + 6 /\ InitImage(r)[1] = UDE_INITCFG
  BY <1>1, InitImageCells DEF Settings, AnySettings
<1> QED BY <1>2 DEF Data, Loadable, Whole, UDE_INITCFG, UDE_PROFILE

LEMMA ProfileImageTyped ==
  ASSUME NEW r \in AnySettings
  PROVE  ProfileImage(r) \in Data /\ (r.link <= AV_LAST => Whole(ProfileImage(r)))
<1>1. Stored[r.table] \in DOMAIN Stored /\ Stored[r.table] \in Nat
  BY StoredAssumption DEF Settings, AnySettings
<1>2. r.set \in Nat /\ r.link \in Nat
  BY DEF Settings, AnySettings
<1>3. ProfileImage(r) \in Seq(Nat) /\ Len(ProfileImage(r)) = 5 /\ ProfileImage(r)[1] = UDE_PROFILE
      /\ ProfileImage(r)[4] = r.link /\ ProfileImage(r)[5] = Stored[r.table]
  BY <1>1, <1>2 DEF ProfileImage, UDE_PROFILE, Length
<1> QED BY <1>1, <1>3 DEF Data, Loadable, Whole

LEMMA PartTyped ==
  ASSUME NEW e \in Data, NEW d \in Seq(Nat), Len(d) <= Len(e), \A k \in 1 .. Len(d) : d[k] = e[k]
  PROVE  d \in Data
<1>1. Len(d) \in Nat /\ Len(e) \in Nat
  BY LenProperties DEF Data
<1>2. Len(d) >= 5 => Len(e) >= 5 /\ d[1] = e[1] /\ d[5] = e[5]
  BY <1>1
<1> QED BY <1>2 DEF Data, Loadable

\* What import writes and export leaves of an entry.
LEMMA FirstBlockTyped ==
  ASSUME NEW e \in Data
  PROVE  FirstBlock(e) \in Data /\ (Whole(e) => Whole(FirstBlock(e)))
<1>1. CASE Len(e) > 4 /\ e[1] = UDE_PROFILE
  <2>1. Len(e) \in Nat /\ e \in Seq(Nat)
    BY LenProperties DEF Data
  <2>2. \A i \in 1 .. 4 : e[i] \in Nat
    BY <1>1, <2>1, ElementOfSeq
  <2>3. SubSeq(e, 1, 4) \in Seq(Nat) /\ Len(SubSeq(e, 1, 4)) = 4 /\ \A i \in 1 .. 4 : SubSeq(e, 1, 4)[i] = e[i]
    BY <2>2, SubSeqProperties
  <2>4. SubSeq(e, 1, 4) \in Data
    BY <2>3 DEF Data, Loadable
  <2>5. Whole(e) => e[4] <= AV_LAST
    BY <1>1, <2>1 DEF Whole, UDE_PROFILE, UDE_INITCFG
  <2> QED BY <1>1, <2>3, <2>4, <2>5 DEF FirstBlock, Whole
<1>2. CASE ~ (Len(e) > 4 /\ e[1] = UDE_PROFILE)
  BY <1>2 DEF FirstBlock
<1> QED BY <1>1, <1>2

LEMMA EmptyTyped == <<>> \in Data /\ Whole(<<>>)
BY DEF Data, Loadable, Whole
--------------------------------------------------------------------------------
(* Types, and what is being written: one step for each action. *)

LEMMA Numbers ==
  /\ AV_LAST \in Nat \ {0} /\ MAX_PROFILE \in Nat
  /\ Profile \subseteq Entry /\ MAX_USERDATA_ENTRY \in Entry /\ MAX_USERDATA_ENTRY \notin Profile
  /\ AV_TESTPAT \in Input /\ 0 \in Profile /\ 0 \in Entry
  /\ \A e \in Entry : e = MAX_USERDATA_ENTRY \/ e \in Profile
BY SizeAssumption DEF Profile, Entry, MAX_USERDATA_ENTRY, Input, AV_TESTPAT

LEMMA DefaultTyped == DefaultRam \in Settings
BY Numbers, StoredAssumption DEF DefaultRam, Settings, AnySettings

LEMMA NoJobTyped == NoJob \in [entry : Entry, words : Data, then : {"main", "saved", "import", "lost"}]
BY Numbers, EmptyTyped DEF NoJob

LEMMA KeyTyped == ASSUME NEW r, NEW i \in Input PROVE Key(r, i) \in Input
BY Numbers DEF Key

LEMMA CardsTyped ==
  ASSUME NEW c \in Cards
  PROVE  c \in [Entry -> Data] /\ \A e \in Entry : Whole(c[e])
<1>1. c \in [Entry -> {e \in Seq(Nat) : Whole(e) /\ Loadable(e)}]
  BY CardAssumption
<1> QED BY <1>1 DEF Data

LEMMA StoreInitially == Init => StoreInv
<1> SUFFICES ASSUME Init PROVE StoreInv
  OBVIOUS
<1>1. flash \in [Entry -> Data] /\ card \in [Entry -> Data]
  BY EmptyTyped, CardsTyped DEF Init
<1>2. 0 \in 0 .. MAX_USERDATA_ENTRY + 1
  BY Numbers DEF MAX_USERDATA_ENTRY
<1>3. StoreTypeOK
  BY <1>1, <1>2, DefaultTyped, SettingsSplit, NoJobTyped DEF Init, StoreTypeOK
<1>4. AimInv
  BY DefaultTyped, SettingsSplit DEF Init, AimInv
<1> QED BY <1>3, <1>4 DEF Init, StoreInv, JobInv

\* A save that has begun.
LEMMA SaveTyped ==
  ASSUME StoreTypeOK, NEW entry \in Entry, NEW words \in Data, NEW then \in {"main", "saved", "import", "lost"},
         Save(entry, words, then)
  PROVE  job' \in [entry : Entry, words : Data, then : {"main", "saved", "import", "lost"}]
         /\ pc' = "erase" /\ job'.entry = entry /\ job'.words = words /\ job'.then = then
BY DEF Save

LEMMA SaveImageKeeps ==
  ASSUME StoreTypeOK, ram' \in AnySettings, NEW then \in {"main", "lost"},
         ram'.target_input \in Input \/ (then = "lost" /\ ram'.target_input = ram'.link),
         Save(MAX_USERDATA_ENTRY, InitImage(ram'), then), UNCHANGED <<flash, card, cut>>,
         protected' \in BOOLEAN, n' \in 0 .. MAX_USERDATA_ENTRY + 1
  PROVE  StoreInv'
<1>1. InitImage(ram') \in Data
  BY InitImageTyped
<1>3. job' = [entry |-> MAX_USERDATA_ENTRY, words |-> InitImage(ram'), then |-> then] /\ pc' = "erase"
  BY DEF Save
<1>4. StoreTypeOK'
  BY <1>1, <1>3, Numbers DEF StoreTypeOK
<1>5. JobInv'
  BY <1>3 DEF JobInv
<1>6. AimInv'
  BY <1>3 DEF AimInv, Lost
<1> QED BY <1>4, <1>5, <1>6 DEF StoreInv

LEMMA SaveInitKeeps ==
  ASSUME StoreTypeOK, ram' \in Settings, SaveInit(ram'), UNCHANGED <<flash, card, cut>>,
         protected' \in BOOLEAN, n' \in 0 .. MAX_USERDATA_ENTRY + 1
  PROVE  StoreInv'
BY SettingsSplit, SaveImageKeeps DEF SaveInit

\* Steps that do not write.
LEMMA IdleKeeps ==
  ASSUME StoreTypeOK, ram' \in Settings, pc' \in {"off", "booted", "main", "import", "export", "lost"},
         job' = job \/ job' = NoJob, UNCHANGED flash, protected' \in BOOLEAN,
         n' \in 0 .. MAX_USERDATA_ENTRY + 1, card' \in [Entry -> Data], cut' \in BOOLEAN
  PROVE  StoreInv'
BY NoJobTyped, SettingsSplit DEF StoreInv, StoreTypeOK, JobInv, AimInv

\* ... and end nowhere.
LEMMA LostKeeps ==
  ASSUME StoreTypeOK, ram' \in AnySettings, pc' \in {"off", "lost"},
         ram'.target_input \in Input \/ ram'.target_input = ram'.link,
         job' = job \/ job' = NoJob, UNCHANGED flash, protected' \in BOOLEAN,
         n' \in 0 .. MAX_USERDATA_ENTRY + 1, card' \in [Entry -> Data], cut' \in BOOLEAN
  PROVE  StoreInv'
BY NoJobTyped DEF StoreInv, StoreTypeOK, JobInv, AimInv, Lost

LEMMA WritingKeeps == StoreInv /\ (Erase \/ Write \/ Finish) => StoreInv'
<1> SUFFICES ASSUME StoreInv, Erase \/ Write \/ Finish PROVE StoreInv'
  OBVIOUS
<1> USE DEF StoreInv
<1>1. CASE Erase
  <2>1. flash' = [flash EXCEPT ![job.entry] = <<>>] /\ flash' \in [Entry -> Data] /\ flash'[job.entry] = <<>>
    BY <1>1, EmptyTyped DEF Erase, StoreTypeOK
  <2>2. StoreTypeOK'
    BY <1>1, <2>1 DEF Erase, StoreTypeOK
  <2>3. Len(flash'[job'.entry]) = 0 /\ Len(job'.words) \in Nat
    BY <1>1, <2>1, LenProperties DEF Erase, StoreTypeOK, Data
  <2>4. JobInv'
    BY <1>1, <2>3 DEF Erase, JobInv
  <2>5. AimInv'
    BY <1>1 DEF Erase, AimInv, Lost
  <2> QED BY <2>2, <2>4, <2>5
<1>2. CASE Write
  <2> DEFINE old == flash[job.entry]
             new == Append(old, job.words[Len(old) + 1])
  <2>1. /\ old \in Seq(Nat) /\ job.words \in Data /\ job.words \in Seq(Nat) /\ job.entry \in Entry
        /\ Len(old) \in Nat /\ Len(job.words) \in Nat /\ Len(old) < Len(job.words)
        /\ \A k \in 1 .. Len(old) : old[k] = job.words[k]
    BY <1>2, LenProperties DEF Write, StoreTypeOK, JobInv, Data
  <2>2. flash' = [flash EXCEPT ![job.entry] = new]
    BY <1>2 DEF Write
  <2>3. job.words[Len(old) + 1] \in Nat
    BY <2>1, ElementOfSeq
  <2> HIDE DEF old
  <2>4. new \in Seq(Nat) /\ Len(new) = Len(old) + 1
        /\ \A k \in 1 .. Len(old) + 1 : new[k] = job.words[k]
    BY <2>1, <2>3
  <2> HIDE DEF new
  <2>5. new \in Data
    <3>1. Len(new) <= Len(job.words) /\ \A k \in 1 .. Len(new) : new[k] = job.words[k]
      BY <2>1, <2>4
    <3> QED BY <2>1, <2>4, <3>1, PartTyped
  <2>6. flash' \in [Entry -> Data] /\ flash'[job.entry] = new
    BY <2>1, <2>2, <2>5 DEF StoreTypeOK
  <2>7. StoreTypeOK'
    BY <1>2, <2>6 DEF Write, StoreTypeOK
  <2>8. JobInv'
    BY <1>2, <2>1, <2>4, <2>6 DEF Write, JobInv
  <2>9. AimInv'
    BY <1>2 DEF Write, AimInv, Lost
  <2> QED BY <2>7, <2>8, <2>9
<1>3. CASE Finish
  <2>0. pc = "write" /\ (job.then # "lost" => ram \in Settings)
    BY <1>3, InForce DEF Finish, Lost
  <2>1. CASE job.then = "main"
    BY <1>3, <2>0, <2>1, IdleKeeps DEF Finish, StoreTypeOK
  <2>4. CASE job.then = "lost"
    <3>1. ram.target_input \in Input \/ ram.target_input = ram.link
      BY DEF AimInv
    <3> QED BY <1>3, <2>4, <3>1, LostKeeps DEF Finish, StoreTypeOK
  <2>2. CASE job.then = "saved"
    <3>1. ram' = [ram EXCEPT !.profile_sel = job.entry, !.input_profiles[Key(ram, ram.avinput)] = job.entry]
      BY <1>3, <2>2 DEF Finish
    <3>2. job.entry \in Profile /\ Key(ram, ram.avinput) \in Input
      BY <1>3, <2>0, <2>2, KeyTyped DEF Finish, JobInv, StoreTypeOK, Settings, AnySettings
    <3>3. ram' \in Settings
      BY <2>0, <2>2, <3>1, <3>2 DEF Settings, AnySettings
    <3> QED BY <1>3, <2>2, <3>3, SaveInitKeeps DEF Finish, StoreTypeOK
  <2>3. CASE job.then = "import"
    <3>1. n' \in 0 .. MAX_USERDATA_ENTRY + 1
      BY <1>3, <2>3, Numbers DEF Finish, JobInv, Entry, MAX_USERDATA_ENTRY
    <3> QED BY <1>3, <2>0, <2>3, <3>1, IdleKeeps DEF Finish, StoreTypeOK
  <2> QED BY <2>1, <2>2, <2>3, <2>4 DEF StoreTypeOK
<1> QED BY <1>1, <1>2, <1>3

LEMMA UserKeeps ==
  ASSUME StoreInv,
         \/ ChangeSetting \/ \E o \in Options : LearnKeys(o)
         \/ \E i \in Input : SelectInput(i) \/ FindInput(i)
         \/ \E p \in Profile : LoadProfile(p) \/ SaveProfile(p)
  PROVE  StoreInv'
<1> USE DEF StoreInv, Idle, Act, InMain
<1>0. ram \in Settings /\ flash \in [Entry -> Data]
  <2>1. pc = "main"
    BY DEF ChangeSetting, LearnKeys, SelectInput, FindInput, LoadProfile, SaveProfile
  <2> QED BY <2>1, InForce DEF StoreTypeOK, Lost
<1>1. CASE ChangeSetting
  <2>1. ram' \in Settings
    <3>1. Options \subseteq Nat /\ DefInputs \subseteq Nat /\ Sets \subseteq Nat /\ Links \subseteq Nat
          /\ Tables \subseteq DOMAIN Stored
      BY SizeAssumption, StoredAssumption
    <3>2. CASE \E o \in Options : ram' = [ram EXCEPT !.options = o]
      BY <1>0, <3>1, <3>2 DEF Settings, AnySettings
    <3>3. CASE \E l \in {0, 1} : ram' = [ram EXCEPT !.profile_link = l]
      BY <1>0, <3>3 DEF Settings, AnySettings
    <3>4. CASE \E d \in DefInputs : ram' = [ram EXCEPT !.def_input = d]
      BY <1>0, <3>1, <3>4 DEF Settings, AnySettings
    <3>5. CASE \E s \in Sets, l \in Links : ram' = [ram EXCEPT !.set = s, !.link = l]
      BY <1>0, <3>1, <3>5 DEF Settings, AnySettings
    <3>6. CASE \E t \in Tables : ram' = [ram EXCEPT !.table = t]
      BY <1>0, <3>1, <3>6 DEF Settings, AnySettings
    <3> QED BY <1>1, <3>2, <3>3, <3>4, <3>5, <3>6 DEF ChangeSetting
  <2> QED BY <1>1, <2>1, IdleKeeps DEF ChangeSetting, StoreTypeOK
<1>2. ASSUME NEW o \in Options, LearnKeys(o) PROVE StoreInv'
  <2>1. ram' \in Settings
    BY <1>0, <1>2, SizeAssumption DEF LearnKeys, Settings, AnySettings
  <2> QED BY <1>2, <2>1, SaveInitKeeps DEF LearnKeys, StoreTypeOK
<1>3. ASSUME NEW i \in Input, SelectInput(i) PROVE StoreInv'
  <2>1. FollowLink([ram EXCEPT !.target_input = i]) \in Settings
    <3>1. [ram EXCEPT !.target_input = i] \in Settings
      BY <1>0 DEF Settings, AnySettings
    <3> QED BY <1>0, <3>1, FollowLinkTyped
  <2>2. ram' \in Settings
    BY <1>3, <2>1 DEF SelectInput, Settings, AnySettings
  <2>3. CASE ram'.def_input = AV_LAST
    BY <1>3, <2>2, <2>3, SaveInitKeeps DEF SelectInput, StoreTypeOK
  <2>4. CASE ram'.def_input # AV_LAST
    BY <1>3, <2>2, <2>4, IdleKeeps DEF SelectInput, StoreTypeOK
  <2> QED BY <2>3, <2>4
<1>4. ASSUME NEW i \in Input, FindInput(i) PROVE StoreInv'
  <2>1. [ram EXCEPT !.target_input = i, !.avinput = i] \in Settings
    BY <1>0 DEF Settings, AnySettings
  <2>2. FollowLink([ram EXCEPT !.target_input = i, !.avinput = i]) \in Settings
    BY <1>0, <2>1, FollowLinkTyped
  <2>3. ram' \in Settings
    BY <1>4, <2>1, <2>2 DEF FindInput
  <2> QED BY <1>4, <2>3, IdleKeeps DEF FindInput, StoreTypeOK
<1>5. ASSUME NEW p \in Profile, LoadProfile(p) PROVE StoreInv'
  <2> DEFINE r == Select(ram, p)
             target == IF r.link = AV_LAST THEN r.target_input ELSE r.link
  <2>1. r \in Settings
    BY <1>0, SelectTyped
  <2>2. CASE target \in Input
    <3>1. ram' = [r EXCEPT !.target_input = target, !.avinput = target, !.input_profiles[Key(r, target)] = p]
      BY <1>5, <2>2 DEF LoadProfile
    <3>2. SaveInit(ram')
      BY <1>5, <2>2 DEF LoadProfile
    <3>3. Key(r, target) \in Input
      BY <2>2, KeyTyped
    <3> HIDE DEF r, target
    <3>4. ram' \in Settings
      BY <2>1, <2>2, <3>1, <3>3 DEF Settings, AnySettings
    <3> QED BY <1>5, <3>2, <3>4, SaveInitKeeps DEF LoadProfile, StoreTypeOK
  <2>3. CASE target \notin Input
    <3>1. r.link = target /\ r.link \in Nat
      BY <2>1, <2>3 DEF Settings, AnySettings
    <3> DEFINE there == [r EXCEPT !.target_input = target]
               logged == [there EXCEPT !.input_profiles[AV_TESTPAT] = p]
    <3>2. /\ there \in AnySettings /\ there.target_input = there.link
          /\ logged \in AnySettings /\ logged.target_input = logged.link
      <4>1. AV_TESTPAT \in Input
        BY Numbers DEF AV_TESTPAT, Input
      <4> HIDE DEF r, target
      <4> QED BY <2>1, <3>1, <4>1 DEF Settings, AnySettings
    <3>3. \/ ram' = logged /\ Save(MAX_USERDATA_ENTRY, InitImage(ram'), "lost")
          \/ ram' = there /\ pc' = "lost" /\ UNCHANGED job
      BY <1>5, <2>3 DEF LoadProfile
    <3>4. UNCHANGED <<flash, protected, n, card, cut>>
      BY <1>5 DEF LoadProfile
    <3> HIDE DEF r, target, there, logged
    <3>5. CASE ram' = logged /\ Save(MAX_USERDATA_ENTRY, InitImage(ram'), "lost")
      BY <3>2, <3>4, <3>5, SaveImageKeeps DEF StoreTypeOK
    <3>6. CASE ram' = there /\ pc' = "lost" /\ UNCHANGED job
      BY <3>2, <3>4, <3>6, LostKeeps DEF StoreTypeOK
    <3> QED BY <3>3, <3>5, <3>6
  <2> QED BY <2>2, <2>3
<1>6. ASSUME NEW p \in Profile, SaveProfile(p) PROVE StoreInv'
  <2>1. job' = [entry |-> p, words |-> ProfileImage(ram), then |-> "saved"] /\ pc' = "erase" /\ ram' = ram
    BY <1>6 DEF SaveProfile, Save
  <2>2. ProfileImage(ram) \in Data /\ p \in Entry
    BY <1>0, ProfileImageTyped, SettingsSplit, Numbers
  <2>3. StoreTypeOK'
    BY <1>6, <2>1, <2>2 DEF SaveProfile, StoreTypeOK
  <2>4. JobInv'
    BY <2>1 DEF JobInv
  <2>5. AimInv'
    BY <1>0, <2>1, SettingsSplit DEF AimInv
  <2> QED BY <2>3, <2>4, <2>5
<1> QED BY <1>1, <1>2, <1>3, <1>4, <1>5, <1>6

LEMMA TransferKeeps ==
  ASSUME StoreInv,
         StartImport \/ Import \/ FinishImport \/ StartExport \/ Export \/ ExportFat \/ SwapCard
  PROVE  StoreInv'
<1> USE DEF StoreInv, Idle, Act
<1>0. /\ ram \in Settings /\ flash \in [Entry -> Data] /\ card \in [Entry -> Data]
      /\ n \in 0 .. MAX_USERDATA_ENTRY + 1 /\ MAX_USERDATA_ENTRY \in Nat /\ Entry = 0 .. MAX_USERDATA_ENTRY
  <2>1. pc \in {"main", "import", "export"}
    BY DEF StartImport, Import, FinishImport, StartExport, Export, ExportFat, SwapCard
  <2> QED BY <2>1, InForce, Numbers DEF Lost, StoreTypeOK, Entry, MAX_USERDATA_ENTRY
<1>1. CASE StartImport \/ StartExport
  BY <1>0, <1>1, IdleKeeps DEF StartImport, StartExport, StoreTypeOK
<1>2. CASE Import
  <2>1. n \in Entry
    BY <1>0, <1>2 DEF Import
  <2>2. ASSUME NEW words \in Copies(card[n]), Save(n, words, "import"), UNCHANGED n PROVE StoreInv'
    <3>1. words \in Data
      BY <1>0, <2>1, <2>2, EmptyTyped, FirstBlockTyped DEF Copies
    <3>2. job' = [entry |-> n, words |-> words, then |-> "import"] /\ pc' = "erase"
      BY <2>2 DEF Save
    <3>3. StoreTypeOK'
      BY <1>2, <2>1, <2>2, <3>1, <3>2 DEF Import, StoreTypeOK
    <3>4. JobInv'
      BY <2>1, <2>2, <3>2 DEF JobInv
    <3>5. AimInv'
      BY <1>0, <1>2, SettingsSplit DEF Import, AimInv
    <3> QED BY <3>3, <3>4, <3>5
  <2>3. CASE n' = n + 1 /\ UNCHANGED <<pc, job>>
    BY <1>0, <1>2, <2>1, <2>3, IdleKeeps DEF Import, StoreTypeOK
  <2>4. CASE pc' = "main" /\ n' = 0 /\ UNCHANGED job
    BY <1>0, <1>2, <2>4, IdleKeeps DEF Import, StoreTypeOK
  <2> QED BY <1>2, <2>2, <2>3, <2>4 DEF Import
<1>3. CASE FinishImport
  <2> DEFINE r == LoadInit(ram, flash[MAX_USERDATA_ENTRY])
  <2>1. r \in Settings
    BY <1>0, Numbers, LoadInitTyped
  <2>2. r.input_profiles[r.target_input] \in Profile
    BY <2>1 DEF Settings, AnySettings
  <2>3. ram' = [Select(r, r.input_profiles[r.target_input]) EXCEPT !.avinput = r.target_input]
    BY <1>3 DEF FinishImport
  <2> HIDE DEF r
  <2>4. Select(r, r.input_profiles[r.target_input]) \in Settings
    BY <1>0, <2>1, <2>2, SelectTyped
  <2>5. ram' \in Settings
    BY <2>1, <2>3, <2>4 DEF Settings, AnySettings
  <2> QED BY <1>0, <1>3, <2>5, IdleKeeps DEF FinishImport, StoreTypeOK
<1>4. CASE Export
  <2>1. card' \in [Entry -> Data]
    BY <1>0, <1>4, FirstBlockTyped DEF Export
  <2>2. n' \in 0 .. MAX_USERDATA_ENTRY + 1
    BY <1>0, <1>4 DEF Export
  <2> QED BY <1>0, <1>4, <2>1, <2>2, IdleKeeps DEF Export, StoreTypeOK
<1>5. CASE ExportFat \/ SwapCard
  <2>1. card' \in [Entry -> Data]
    BY <1>5, EmptyTyped, CardsTyped DEF ExportFat, SwapCard
  <2> QED BY <1>0, <1>5, <2>1, IdleKeeps DEF ExportFat, SwapCard, StoreTypeOK
<1> QED BY <1>1, <1>2, <1>3, <1>4, <1>5

LEMMA PowerKeeps ==
  ASSUME StoreInv, PowerCut \/ Boot \/ FirstPass
  PROVE  StoreInv'
<1> USE DEF StoreInv, Act
<1>0. flash \in [Entry -> Data]
  BY DEF StoreTypeOK
<1>1. CASE PowerCut
  <2>1. ram.target_input \in Input \/ ram.target_input = ram.link
    BY DEF AimInv
  <2> QED BY <1>1, <2>1, Numbers, LostKeeps DEF PowerCut, StoreTypeOK, Entry
<1>2. CASE Boot
  <2> DEFINE r == LoadInit(DefaultRam, flash[MAX_USERDATA_ENTRY])
  <2>1. r \in Settings
    BY <1>0, Numbers, DefaultTyped, LoadInitTyped
  <2>2. r.profile_sel \in Entry
    BY <2>1, Numbers DEF Settings, AnySettings
  <2>3. ram' = LoadSlot(r, flash[r.profile_sel])
    BY <1>2 DEF Boot
  <2> HIDE DEF r
  <2>4. ram' \in Settings
    BY <1>0, <2>1, <2>2, <2>3, LoadSlotTyped
  <2> QED BY <1>2, <2>4, IdleKeeps DEF Boot, StoreTypeOK
<1>3. CASE FirstPass
  <2>1. ram' \in Settings
    <3>1. ram \in Settings
      BY <1>3, InForce DEF FirstPass, Lost
    <3> QED BY <1>3, <3>1 DEF FirstPass, Settings, AnySettings
  <2> QED BY <1>3, <2>1, IdleKeeps DEF FirstPass, StoreTypeOK
<1> QED BY <1>1, <1>2, <1>3

LEMMA StoreKeeps == StoreInv /\ [Next]_vars => StoreInv'
<1> SUFFICES ASSUME StoreInv, [Next]_vars PROVE StoreInv'
  OBVIOUS
<1>1. CASE UNCHANGED vars
  BY <1>1 DEF vars, StoreInv, StoreTypeOK, JobInv, AimInv, Lost
<1>2. ByHand \subseteq Input /\ Found \subseteq Input
  BY SizeAssumption
<1> QED BY <1>1, <1>2, WritingKeeps, UserKeeps, TransferKeeps, PowerKeeps DEF Next
--------------------------------------------------------------------------------
\* The flash is unprotected only while an entry is written, or after the power was cut in a
\* write: every write ends by protecting it again (userdata.c:112-117, userdata.c:340-351).
THEOREM ProtectedAgain == Spec => []ProtectedAtRest
<1> DEFINE ProtectInv == protected \/ pc = "write" \/ cut
<1>1. Init => ProtectInv
  BY DEF Init
<1>2. ProtectInv /\ [Next]_vars => ProtectInv'
  <2> SUFFICES ASSUME ProtectInv, [Next]_vars PROVE ProtectInv'
    OBVIOUS
  <2>1. CASE Erase \/ Write \/ Finish
    BY <2>1 DEF Erase, Write, Finish
  <2>2. CASE PowerCut \/ Boot \/ FirstPass
    BY <2>2 DEF PowerCut, Boot, FirstPass
  <2>3. CASE StartImport \/ Import \/ FinishImport \/ StartExport \/ Export \/ ExportFat \/ SwapCard
    BY <2>3 DEF StartImport, Import, FinishImport, StartExport, Export, ExportFat, SwapCard, Idle
  <2>4. CASE ChangeSetting \/ (\E o \in Options : LearnKeys(o)) \/ (\E i \in ByHand : SelectInput(i))
             \/ (\E i \in Found : FindInput(i)) \/ (\E p \in Profile : LoadProfile(p) \/ SaveProfile(p))
    BY <2>4 DEF ChangeSetting, LearnKeys, SelectInput, FindInput, LoadProfile, SaveProfile, Idle, InMain
  <2>5. CASE UNCHANGED vars
    BY <2>5 DEF vars
  <2> QED BY <2>1, <2>2, <2>3, <2>4, <2>5 DEF Next
<1>3. ProtectInv => ProtectedAtRest
  BY DEF ProtectedAtRest
<1> QED BY <1>1, <1>2, <1>3, PTL DEF Spec
--------------------------------------------------------------------------------
(* Entries are whole unless the power was cut in a write. *)

WholeInv ==
  ~ cut =>
    /\ pc # "lost" /\ ram.target_input \in Input /\ ram.link <= AV_LAST
    /\ \A e \in Entry : Whole(card[e])
    /\ \A e \in Entry : Whole(flash[e]) \/ (pc = "write" /\ e = job.entry)
    /\ pc \in {"erase", "write"} => Whole(job.words) /\ job.then # "lost"

\* The link a whole entry brings leads to an input, or nowhere.
LEMMA LoadSlotLinks ==
  ASSUME NEW r \in Settings, r.link <= AV_LAST, NEW e \in Data, Whole(e)
  PROVE  LoadSlot(r, e).link <= AV_LAST
<1>1. CASE Valid(e, UDE_PROFILE)
  <2>1. Cell(e, 4) = e[4] /\ e[4] <= AV_LAST
    BY <1>1, LenProperties DEF Whole, Valid, Cell, UDE_PROFILE, UDE_INITCFG, Data
  <2>2. LoadSlot(r, e).link = Cell(e, 4)
    BY <1>1 DEF LoadSlot, Settings, AnySettings
  <2> QED BY <2>1, <2>2
<1>2. CASE ~ Valid(e, UDE_PROFILE)
  BY <1>2 DEF LoadSlot
<1> QED BY <1>1, <1>2

LEMMA SelectLinks ==
  ASSUME NEW r \in Settings, r.link <= AV_LAST, NEW p \in Profile, flash \in [Entry -> Data],
         \A e \in Entry : Whole(flash[e])
  PROVE  Select(r, p).link <= AV_LAST
<1>1. p \in Entry
  BY Numbers
<1>2. [r EXCEPT !.profile_sel = p] \in Settings /\ [r EXCEPT !.profile_sel = p].link <= AV_LAST
  BY DEF Settings, AnySettings
<1> QED BY <1>1, <1>2, LoadSlotLinks DEF Select

LEMMA FollowLinkLinks ==
  ASSUME NEW r \in Settings, r.link <= AV_LAST, flash \in [Entry -> Data], \A e \in Entry : Whole(flash[e])
  PROVE  FollowLink(r).link <= AV_LAST
<1>1. r.input_profiles[r.target_input] \in Profile
  BY DEF Settings, AnySettings
<1> QED BY <1>1, SelectLinks DEF FollowLink

LEMMA LoadInitLinks ==
  ASSUME NEW r \in Settings, NEW e
  PROVE  LoadInit(r, e).link = r.link
BY DEF LoadInit, Settings, AnySettings

LEMMA WritingKeepsWhole == StoreInv /\ WholeInv /\ (Erase \/ Write \/ Finish) => WholeInv'
<1> SUFFICES ASSUME StoreInv, WholeInv, Erase \/ Write \/ Finish PROVE WholeInv'
  OBVIOUS
<1>a. cut' = cut
  BY DEF Erase, Write, Finish
<1> SUFFICES ASSUME ~ cut PROVE WholeInv'
  BY <1>a DEF WholeInv
<1>0. flash \in [Entry -> Data] /\ job.entry \in Entry /\ ram \in Settings /\ job.words \in Data
  BY SettingsSplit DEF StoreInv, StoreTypeOK, WholeInv
<1>1. CASE Erase
  BY <1>0, <1>1 DEF Erase, WholeInv
<1>2. CASE Write
  BY <1>0, <1>2 DEF Write, WholeInv
<1>3. CASE Finish
  <2>1. flash[job.entry] = job.words
    <3>1. Len(flash[job.entry]) = Len(job.words) /\ flash[job.entry] \in Seq(Nat) /\ job.words \in Seq(Nat)
      BY <1>0, <1>3 DEF Finish, Data
    <3>2. \A k \in 1 .. Len(flash[job.entry]) : flash[job.entry][k] = job.words[k]
      BY <1>3 DEF Finish, StoreInv, JobInv
    <3> QED BY <3>1, <3>2, SeqEqual
  <2>2. \A e \in Entry : Whole(flash[e])
    BY <1>3, <2>1 DEF Finish, WholeInv
  <2>3. UNCHANGED <<flash, card, cut>> /\ ram.link <= AV_LAST /\ \A e \in Entry : Whole(card[e])
    BY <1>3 DEF Finish, WholeInv
  <2>4. CASE job.then = "saved"
    <3>1. ram' = [ram EXCEPT !.profile_sel = job.entry, !.input_profiles[Key(ram, ram.avinput)] = job.entry]
          /\ job' = [entry |-> MAX_USERDATA_ENTRY, words |-> InitImage(ram'), then |-> "main"] /\ pc' = "erase"
      BY <1>3, <2>4 DEF Finish, SaveInit, Save
    <3>2. ram'.link = ram.link
      BY <1>0, <3>1 DEF Settings, AnySettings
    <3>3. ram' \in AnySettings /\ ram'.target_input \in Input
      BY <1>0, <1>3, <3>1, WritingKeeps DEF StoreInv, StoreTypeOK, Settings, AnySettings
    <3>4. Whole(InitImage(ram'))
      BY <3>3, InitImageTyped
    <3> QED BY <2>2, <2>3, <3>1, <3>2, <3>3, <3>4 DEF WholeInv
  <2>5. CASE job.then # "saved"
    <3>1. pc' \in {"main", "import"} /\ ram' = ram
      BY <1>3, <2>5 DEF Finish, WholeInv
    <3> QED BY <1>0, <2>2, <2>3, <3>1, SettingsSplit DEF WholeInv
  <2> QED BY <2>4, <2>5
<1> QED BY <1>1, <1>2, <1>3

LEMMA UserKeepsWhole ==
  ASSUME StoreInv, StoreInv', WholeInv,
         \/ ChangeSetting \/ \E o \in Options : LearnKeys(o)
         \/ \E i \in Input : SelectInput(i) \/ FindInput(i)
         \/ \E p \in Profile : LoadProfile(p) \/ SaveProfile(p)
  PROVE  WholeInv'
<1> USE DEF Idle, Act, InMain
<1>0. /\ ram \in Settings /\ flash \in [Entry -> Data] /\ ram' \in AnySettings
      /\ pc = "main" /\ UNCHANGED <<flash, card, cut>>
  <2>1. pc = "main" /\ UNCHANGED <<flash, card, cut>>
    BY DEF ChangeSetting, LearnKeys, SelectInput, FindInput, LoadProfile, SaveProfile
  <2> QED BY <2>1, InForce DEF StoreInv, StoreTypeOK, Lost
<1> SUFFICES ASSUME ~ cut PROVE WholeInv'
  BY <1>0 DEF WholeInv
<1>1. ram.link <= AV_LAST /\ (\A e \in Entry : Whole(flash[e])) /\ (\A e \in Entry : Whole(card[e]))
  BY <1>0 DEF WholeInv
<1>2. Whole(InitImage(ram'))
  BY <1>0, InitImageTyped
<1>3. CASE ChangeSetting
  <2>1. ram'.link <= AV_LAST
    <3>1. Links \subseteq 1 .. AV_LAST
      BY SizeAssumption
    <3>2. CASE \E s \in Sets, l \in Links : ram' = [ram EXCEPT !.set = s, !.link = l]
      <4>1. PICK s \in Sets, l \in Links : ram' = [ram EXCEPT !.set = s, !.link = l]
        BY <3>2
      <4>2. ram'.link = l
        BY <1>0, <4>1 DEF Settings, AnySettings
      <4> QED BY <3>1, <4>2, Numbers
    <3>3. CASE ~ \E s \in Sets, l \in Links : ram' = [ram EXCEPT !.set = s, !.link = l]
      BY <1>0, <1>1, <1>3, <3>3 DEF ChangeSetting, Settings, AnySettings
    <3> QED BY <3>2, <3>3
  <2>2. ram'.target_input = ram.target_input
    BY <1>0, <1>3 DEF ChangeSetting, Settings, AnySettings
  <2> QED BY <1>0, <1>1, <1>3, <2>1, <2>2, SettingsSplit DEF ChangeSetting, WholeInv
<1>4. ASSUME NEW o \in Options, LearnKeys(o) PROVE WholeInv'
  <2>1. ram'.link = ram.link /\ ram'.target_input \in Input
    BY <1>0, <1>4 DEF LearnKeys, Settings, AnySettings
  <2>2. pc' = "erase" /\ job'.words = InitImage(ram') /\ job'.then # "lost"
    BY <1>4 DEF LearnKeys, SaveInit, Save
  <2> QED BY <1>0, <1>1, <1>2, <2>1, <2>2 DEF WholeInv
<1>5. ASSUME NEW i \in Input, SelectInput(i) PROVE WholeInv'
  <2>1. [ram EXCEPT !.target_input = i] \in Settings /\ [ram EXCEPT !.target_input = i].link <= AV_LAST
    BY <1>0, <1>1 DEF Settings, AnySettings
  <2>2. FollowLink([ram EXCEPT !.target_input = i]) \in Settings
        /\ FollowLink([ram EXCEPT !.target_input = i]).link <= AV_LAST
    BY <1>0, <1>1, <2>1, FollowLinkTyped, FollowLinkLinks
  <2>3. ram'.link <= AV_LAST /\ ram'.target_input \in Input
    BY <1>5, <2>2 DEF SelectInput, Settings, AnySettings
  <2>4. pc' = "main" \/ (pc' = "erase" /\ job'.words = InitImage(ram') /\ job'.then # "lost")
    BY <1>0, <1>5 DEF SelectInput, SaveInit, Save
  <2> QED BY <1>0, <1>1, <1>2, <2>3, <2>4 DEF WholeInv
<1>6. ASSUME NEW i \in Input, FindInput(i) PROVE WholeInv'
  <2> DEFINE there == [ram EXCEPT !.target_input = i, !.avinput = i]
  <2>1. there \in Settings /\ there.link <= AV_LAST
    BY <1>0, <1>1 DEF Settings, AnySettings
  <2>2. ram' \in {there, FollowLink(there)} /\ UNCHANGED pc
    BY <1>6 DEF FindInput
  <2> HIDE DEF there
  <2>3. FollowLink(there).link <= AV_LAST /\ FollowLink(there) \in Settings
    BY <1>0, <1>1, <2>1, FollowLinkLinks, FollowLinkTyped
  <2> QED BY <1>0, <1>1, <2>1, <2>2, <2>3, SettingsSplit DEF WholeInv
<1>7. ASSUME NEW p \in Profile, LoadProfile(p) PROVE WholeInv'
  <2> DEFINE r == Select(ram, p)
             target == IF r.link = AV_LAST THEN r.target_input ELSE r.link
  <2>1. r \in Settings /\ r.link <= AV_LAST
    BY <1>0, <1>1, SelectTyped, SelectLinks
  <2>2. target \in Input
    BY <2>1, Numbers DEF Settings, AnySettings, Input
  <2>3. ram' = [r EXCEPT !.target_input = target, !.avinput = target, !.input_profiles[Key(r, target)] = p]
        /\ SaveInit(ram')
    BY <1>7, <2>2 DEF LoadProfile
  <2> HIDE DEF r, target
  <2>4. ram'.link = r.link /\ ram'.target_input \in Input
    BY <2>1, <2>2, <2>3 DEF Settings, AnySettings
  <2>5. pc' = "erase" /\ job'.words = InitImage(ram') /\ job'.then # "lost"
    BY <2>3 DEF SaveInit, Save
  <2> QED BY <1>0, <1>1, <1>2, <2>1, <2>4, <2>5 DEF WholeInv
<1>8. ASSUME NEW p \in Profile, SaveProfile(p) PROVE WholeInv'
  <2>1. pc' = "erase" /\ job'.words = ProfileImage(ram) /\ ram' = ram /\ job'.then # "lost"
    BY <1>8 DEF SaveProfile, Save
  <2>2. Whole(ProfileImage(ram))
    BY <1>0, <1>1, ProfileImageTyped, SettingsSplit
  <2> QED BY <1>0, <1>1, <2>1, <2>2, SettingsSplit DEF WholeInv
<1> QED BY <1>3, <1>4, <1>5, <1>6, <1>7, <1>8

LEMMA TransferKeepsWhole ==
  ASSUME StoreInv, StoreInv', WholeInv,
         StartImport \/ Import \/ FinishImport \/ StartExport \/ Export \/ ExportFat \/ SwapCard
  PROVE  WholeInv'
<1> USE DEF Idle, Act
<1>0. /\ ram \in Settings /\ flash \in [Entry -> Data] /\ card \in [Entry -> Data]
      /\ pc # "write" /\ pc # "erase" /\ UNCHANGED <<flash, cut>>
      /\ n \in 0 .. MAX_USERDATA_ENTRY + 1 /\ MAX_USERDATA_ENTRY \in Nat /\ Entry = 0 .. MAX_USERDATA_ENTRY
  <2>1. pc \in {"main", "import", "export"}
    BY DEF StartImport, Import, FinishImport, StartExport, Export, ExportFat, SwapCard
  <2>2. UNCHANGED <<flash, cut>>
    BY DEF StartImport, Import, FinishImport, StartExport, Export, ExportFat, SwapCard
  <2> QED BY <2>1, <2>2, InForce, Numbers DEF Lost, StoreInv, StoreTypeOK, Entry, MAX_USERDATA_ENTRY
<1> SUFFICES ASSUME ~ cut PROVE WholeInv'
  BY <1>0 DEF WholeInv
<1>1. pc # "lost" /\ ram.target_input \in Input /\ ram.link <= AV_LAST /\ (\A e \in Entry : Whole(flash[e])) /\ (\A e \in Entry : Whole(card[e]))
  BY <1>0 DEF WholeInv
<1>2. CASE StartImport \/ StartExport
  BY <1>0, <1>1, <1>2 DEF StartImport, StartExport, WholeInv
<1>3. CASE Import
  <2>1. n \in Entry
    BY <1>0, <1>3 DEF Import
  <2>2. \A words \in Copies(card[n]) : Whole(words)
    BY <1>0, <1>1, <2>1, EmptyTyped, FirstBlockTyped DEF Copies
  <2>3. \/ pc' \in {"import", "main"}
        \/ pc' = "erase" /\ job'.then # "lost" /\ \E words \in Copies(card[n]) : job'.words = words
    BY <1>3 DEF Import, Save
  <2>4. UNCHANGED <<ram, card>>
    BY <1>3 DEF Import
  <2> QED BY <1>0, <1>1, <2>2, <2>3, <2>4 DEF WholeInv
<1>4. CASE FinishImport
  <2> DEFINE r == LoadInit(ram, flash[MAX_USERDATA_ENTRY])
  <2>1. r \in Settings /\ r.link <= AV_LAST
    BY <1>0, <1>1, Numbers, LoadInitTyped, LoadInitLinks
  <2>2. r.input_profiles[r.target_input] \in Profile
    BY <2>1 DEF Settings, AnySettings
  <2>3. ram' = [Select(r, r.input_profiles[r.target_input]) EXCEPT !.avinput = r.target_input]
    BY <1>4 DEF FinishImport
  <2> HIDE DEF r
  <2>4. Select(r, r.input_profiles[r.target_input]) \in Settings
        /\ Select(r, r.input_profiles[r.target_input]).link <= AV_LAST
    BY <1>0, <1>1, <2>1, <2>2, SelectTyped, SelectLinks
  <2>5. ram'.link <= AV_LAST /\ ram'.target_input \in Input
    BY <2>3, <2>4 DEF Settings, AnySettings
  <2> QED BY <1>0, <1>1, <1>4, <2>5 DEF FinishImport, WholeInv
<1>5. CASE Export
  <2>1. \A e \in Entry : Whole(card'[e])
    BY <1>0, <1>1, <1>5, FirstBlockTyped DEF Export
  <2> QED BY <1>0, <1>1, <1>5, <2>1 DEF Export, WholeInv
<1>6. CASE ExportFat \/ SwapCard
  <2>1. \A e \in Entry : Whole(card'[e])
    BY <1>6, EmptyTyped, CardsTyped DEF ExportFat, SwapCard
  <2> QED BY <1>0, <1>1, <1>6, <2>1 DEF ExportFat, SwapCard, WholeInv
<1> QED BY <1>2, <1>3, <1>4, <1>5, <1>6

LEMMA PowerKeepsWhole ==
  ASSUME StoreInv, StoreInv', WholeInv, PowerCut \/ Boot \/ FirstPass
  PROVE  WholeInv'
<1> USE DEF Act
<1>0. flash \in [Entry -> Data]
  BY DEF StoreInv, StoreTypeOK
<1>1. CASE PowerCut
  BY <1>1 DEF PowerCut, WholeInv
<1>2. CASE Boot
  <2> DEFINE r == LoadInit(DefaultRam, flash[MAX_USERDATA_ENTRY])
  <2>1. DefaultRam.link = AV_LAST /\ AV_LAST <= AV_LAST
    BY Numbers DEF DefaultRam
  <2>2. r \in Settings /\ r.link <= AV_LAST
    BY <1>0, <2>1, Numbers, DefaultTyped, LoadInitTyped, LoadInitLinks
  <2>3. ram' = LoadSlot(r, flash[r.profile_sel]) /\ r.profile_sel \in Entry
    BY <1>2, <2>2, Numbers DEF Boot, Settings, AnySettings
  <2> HIDE DEF r
  <2>4. ~ cut => ram'.link <= AV_LAST /\ ram' \in Settings
    BY <1>0, <1>2, <2>2, <2>3, LoadSlotLinks, LoadSlotTyped DEF Boot, WholeInv
  <2> QED BY <1>2, <2>4, SettingsSplit DEF Boot, WholeInv
<1>3. CASE FirstPass
  <2>0. ram \in Settings
    BY <1>3, InForce DEF FirstPass, Lost
  <2>1. ram'.link = ram.link /\ ram'.target_input = ram.target_input
    BY <2>0, <1>3 DEF FirstPass, Settings, AnySettings
  <2> QED BY <1>3, <2>1 DEF FirstPass, WholeInv
<1> QED BY <1>1, <1>2, <1>3

LEMMA WholeInitially == Init => WholeInv
<1> SUFFICES ASSUME Init PROVE WholeInv
  OBVIOUS
<1>1. ram.link = AV_LAST /\ AV_LAST <= AV_LAST /\ ram.target_input \in Input
  BY Numbers DEF Init, DefaultRam, AV_TESTPAT, Input
<1> QED BY <1>1, EmptyTyped, CardsTyped DEF Init, WholeInv

LEMMA WholeKept == StoreInv /\ WholeInv /\ [Next]_vars => (StoreInv /\ WholeInv)'
<1> SUFFICES ASSUME StoreInv, WholeInv, [Next]_vars PROVE WholeInv'
  BY StoreKeeps
<1>1. StoreInv' /\ ByHand \subseteq Input /\ Found \subseteq Input
  BY StoreKeeps, SizeAssumption
<1>2. CASE UNCHANGED vars
  BY <1>2 DEF vars, WholeInv
<1> QED BY <1>1, <1>2, WritingKeepsWhole, UserKeepsWhole, TransferKeepsWhole, PowerKeepsWhole DEF Next

\* Only a power cut in a write leaves an entry half written, and no load follows a link to an
\* input that does not exist (av_controller.c:654-658, userdata.c:302-351).
THEOREM OnlyCutsHalve == Spec => []HalfWrittenOnlyByCut
<1>1. Init => StoreInv /\ WholeInv
  BY StoreInitially, WholeInitially
<1>2. WholeInv => HalfWrittenOnlyByCut
  BY DEF WholeInv, HalfWrittenOnlyByCut
<1> QED BY <1>1, <1>2, WholeKept, PTL DEF Spec

\* Input and profile numbers index the arrays they are meant for, whatever is in flash
\* or on a card, as loads check what they read (userdata.c:200-217); but for the input
\* once a profile has been loaded that a power cut left half written.
THEOREM NumbersInBounds == Spec => []IndicesInBounds
<1>1. Init => StoreInv /\ WholeInv
  BY StoreInitially, WholeInitially
<1>2. StoreInv /\ WholeInv => IndicesInBounds
  <2> SUFFICES ASSUME StoreInv, WholeInv PROVE IndicesInBounds
    OBVIOUS
  <2>1. ProfilesInBounds(ram) /\ ram.avinput \in Input
    BY DEF StoreInv, StoreTypeOK, AnySettings, ProfilesInBounds
  <2>2. ram.target_input \notin Input =>
          cut /\ ram.target_input = ram.link /\ pc \in {"erase", "write", "lost", "off"}
    BY DEF StoreInv, AimInv, Lost, WholeInv
  <2> QED BY <2>1, <2>2 DEF IndicesInBounds
<1> QED BY <1>1, <1>2, WholeKept, PTL DEF Spec
--------------------------------------------------------------------------------
(* What was saved last is what the entries hold. *)

InitRecords ==
  [known : {TRUE}, input_profiles : [Input -> Profile], profile_link : Nat, target_input : Nat,
   def_input : Nat, options : Nat]
SlotRecords == [known : {TRUE}, set : Nat, link : Nat, table : DOMAIN Stored]

RecordInv ==
  /\ kept \in [Entry -> {Unknown} \cup InitRecords \cup SlotRecords]
  /\ pc = "write" => kept[job.entry] = Unknown
  /\ kept[MAX_USERDATA_ENTRY].known =>
       kept[MAX_USERDATA_ENTRY] \in InitRecords /\ flash[MAX_USERDATA_ENTRY] = InitImage(kept[MAX_USERDATA_ENTRY])
  /\ \A p \in Profile : kept[p].known => kept[p] \in SlotRecords /\ flash[p] = ProfileImage(kept[p])

\* What Finish records of an entry is what the entry holds.
LEMMA KeptIsImage ==
  ASSUME NEW r \in AnySettings
  PROVE  /\ Kept(MAX_USERDATA_ENTRY, r) \in InitRecords
         /\ InitImage(Kept(MAX_USERDATA_ENTRY, r)) = InitImage(r)
         /\ \A p \in Profile : Kept(p, r) \in SlotRecords /\ ProfileImage(Kept(p, r)) = ProfileImage(r)
BY Numbers DEF Settings, AnySettings, Kept, InitRecords, SlotRecords, InitImage, ProfileImage

LEMMA RecordsInitially == Init => RecordInv
<1> SUFFICES ASSUME Init PROVE RecordInv
  OBVIOUS
<1>1. \A e \in Entry : kept[e] = Unknown /\ ~ kept[e].known
  BY DEF Init, Unknown
<1>2. kept \in [Entry -> {Unknown} \cup InitRecords \cup SlotRecords]
  BY DEF Init
<1> QED BY <1>1, <1>2, Numbers DEF Init, RecordInv

\* No other step touches an entry or its record.
LEMMA OthersKeepRecords ==
  ASSUME RecordInv, UNCHANGED <<flash, kept>>, pc' = "write" => pc = "write" /\ UNCHANGED job
  PROVE  RecordInv'
BY DEF RecordInv

LEMMA WritingKeepsRecords == StoreInv /\ RecordInv /\ (Erase \/ Write \/ Finish) => RecordInv'
<1> SUFFICES ASSUME StoreInv, RecordInv, Erase \/ Write \/ Finish PROVE RecordInv'
  OBVIOUS
<1> DEFINE MAX == MAX_USERDATA_ENTRY
<1>0. /\ flash \in [Entry -> Data] /\ job.entry \in Entry /\ ram \in AnySettings /\ job.words \in Data
      /\ kept \in [Entry -> {Unknown} \cup InitRecords \cup SlotRecords] /\ ~ Unknown.known
      /\ job.then \in {"main", "saved", "import", "lost"}
  BY DEF StoreInv, StoreTypeOK, RecordInv, Unknown
<1>1. CASE Erase
  <2>1. kept' = [kept EXCEPT ![job.entry] = Unknown] /\ flash' = [flash EXCEPT ![job.entry] = <<>>] /\ job' = job
    BY <1>1 DEF Erase
  <2>2. kept' \in [Entry -> {Unknown} \cup InitRecords \cup SlotRecords] /\ kept'[job.entry] = Unknown
    BY <1>0, <2>1
  <2>3. \A e \in Entry : kept'[e].known => kept'[e] = kept[e] /\ flash'[e] = flash[e]
    BY <1>0, <2>1
  <2> QED BY <2>1, <2>2, <2>3, Numbers DEF RecordInv
<1>2. CASE Write
  <2>1. UNCHANGED <<kept, job>> /\ kept[job.entry] = Unknown
    BY <1>2 DEF Write, RecordInv
  <2>2. \A e \in Entry : kept[e].known => flash'[e] = flash[e]
    BY <1>0, <1>2, <2>1 DEF Write
  <2> QED BY <2>1, <2>2, Numbers DEF RecordInv
<1>3. CASE Finish
  <2>1. flash[job.entry] = job.words
    <3>1. Len(flash[job.entry]) = Len(job.words) /\ flash[job.entry] \in Seq(Nat) /\ job.words \in Seq(Nat)
      BY <1>0, <1>3 DEF Finish, Data
    <3>2. \A k \in 1 .. Len(flash[job.entry]) : flash[job.entry][k] = job.words[k]
      BY <1>3 DEF Finish, StoreInv, JobInv
    <3> QED BY <3>1, <3>2, SeqEqual
  <2>2. flash' = flash /\ pc' # "write"
    BY <1>3 DEF Finish, SaveInit, Save
  <2>3. CASE job.then \in {"main", "lost"}
    <3>1. job.entry = MAX /\ flash[MAX] = InitImage(ram)
      BY <1>3, <2>1, <2>3 DEF Finish, StoreInv, JobInv
    <3>2. kept' = [kept EXCEPT ![MAX] = Kept(MAX, ram)]
      BY <1>3, <2>3, <3>1 DEF Finish
    <3>3. Kept(MAX, ram) \in InitRecords /\ InitImage(Kept(MAX, ram)) = InitImage(ram)
      BY <1>0, KeptIsImage
    <3>4. kept' \in [Entry -> {Unknown} \cup InitRecords \cup SlotRecords] /\ kept'[MAX] = Kept(MAX, ram)
          /\ \A p \in Profile : kept'[p] = kept[p]
      BY <1>0, <3>2, <3>3, Numbers
    <3> QED BY <2>2, <3>1, <3>3, <3>4 DEF RecordInv
  <2>4. CASE job.then = "saved"
    <3>1. job.entry \in Profile /\ flash[job.entry] = ProfileImage(ram)
      BY <1>3, <2>1, <2>4 DEF Finish, StoreInv, JobInv
    <3>2. kept' = [kept EXCEPT ![job.entry] = Kept(job.entry, ram)]
      BY <1>3, <2>4 DEF Finish
    <3>3. Kept(job.entry, ram) \in SlotRecords /\ ProfileImage(Kept(job.entry, ram)) = ProfileImage(ram)
      BY <1>0, <3>1, KeptIsImage
    <3>4. kept' \in [Entry -> {Unknown} \cup InitRecords \cup SlotRecords] /\ kept'[job.entry] = Kept(job.entry, ram)
          /\ \A e \in Entry : e # job.entry => kept'[e] = kept[e]
      BY <1>0, <3>2, <3>3
    <3> QED BY <2>2, <3>1, <3>3, <3>4, Numbers DEF RecordInv
  <2>5. CASE job.then = "import"
    BY <1>3, <2>2, <2>5, OthersKeepRecords DEF Finish
  <2> QED BY <1>0, <2>3, <2>4, <2>5
<1> QED BY <1>1, <1>2, <1>3

LEMMA RecordsKept == StoreInv /\ RecordInv /\ [Next]_vars => RecordInv'
<1> SUFFICES ASSUME StoreInv, RecordInv, [Next]_vars PROVE RecordInv'
  OBVIOUS
<1>1. CASE ChangeSetting \/ (\E o \in Options : LearnKeys(o)) \/ (\E i \in ByHand : SelectInput(i))
           \/ (\E i \in Found : FindInput(i)) \/ (\E p \in Profile : LoadProfile(p) \/ SaveProfile(p))
  BY <1>1, OthersKeepRecords
  DEF ChangeSetting, LearnKeys, SelectInput, FindInput, LoadProfile, SaveProfile, SaveInit, Save, InMain, Idle
<1>2. CASE StartImport \/ Import \/ FinishImport \/ StartExport \/ Export \/ ExportFat \/ SwapCard
  BY <1>2, OthersKeepRecords
  DEF StartImport, Import, FinishImport, StartExport, Export, ExportFat, SwapCard, Save, Idle
<1>3. CASE PowerCut \/ Boot \/ FirstPass
  BY <1>3, OthersKeepRecords DEF PowerCut, Boot, FirstPass
<1>4. CASE UNCHANGED vars
  BY <1>4, OthersKeepRecords DEF vars
<1> QED BY <1>1, <1>2, <1>3, <1>4, WritingKeepsRecords DEF Next

\* A restart brings back what the entry of the initial configuration records.
LEMMA LoadsRecord ==
  ASSUME NEW r \in Settings, NEW k \in InitRecords
  PROVE  LET got == LoadInit(r, InitImage(k))
         IN  /\ got.input_profiles = k.input_profiles
             /\ got.profile_link = k.profile_link
             /\ got.options = k.options
             /\ got.target_input = IF k.def_input < AV_LAST THEN k.def_input
                                   ELSE IF k.target_input < AV_LAST THEN k.target_input ELSE r.target_input
             /\ got.profile_sel = k.input_profiles[AV_TESTPAT]
<1> DEFINE e == InitImage(k)
<1>1. /\ k.input_profiles \in [Input -> Profile] /\ k.profile_link \in Nat /\ k.target_input \in Nat
      /\ k.def_input \in Nat /\ k.options \in Nat
  BY Numbers DEF InitRecords, Input
<1>2. /\ e \in Seq(Nat) /\ Len(e) = AV_LAST + 6 /\ e[1] = UDE_INITCFG
      /\ \A i \in Input : e[3 + i] = k.input_profiles[i]
      /\ e[AV_LAST + 3] = k.profile_link /\ e[AV_LAST + 4] = k.target_input
      /\ e[AV_LAST + 5] = k.def_input /\ e[AV_LAST + 6] = k.options
  BY <1>1, InitImageCells
<1> HIDE DEF e
<1>3. Valid(e, UDE_INITCFG)
  BY <1>2, Numbers DEF Valid
<1>4. /\ \A i \in Input : Cell(e, 3 + i) = k.input_profiles[i] /\ Cell(e, 3 + i) <= MAX_PROFILE
      /\ Cell(e, AV_LAST + 3) = k.profile_link /\ Cell(e, AV_LAST + 4) = k.target_input
      /\ Cell(e, AV_LAST + 5) = k.def_input /\ Cell(e, AV_LAST + 6) = k.options
  <2>1. \A i \in Input : 3 + i <= AV_LAST + 6 /\ k.input_profiles[i] <= MAX_PROFILE
    BY <1>1, Numbers DEF Input, Profile
  <2> QED BY <1>2, <2>1, Numbers DEF Cell
<1>5. [i \in Input |-> IF Cell(e, 3 + i) <= MAX_PROFILE THEN Cell(e, 3 + i) ELSE r.input_profiles[i]] = k.input_profiles
  BY <1>1, <1>4
<1>6. LoadInit(r, e) =
        [r EXCEPT !.input_profiles = k.input_profiles, !.profile_link = k.profile_link, !.def_input = k.def_input,
                  !.target_input = IF k.def_input < AV_LAST THEN k.def_input
                                   ELSE IF k.target_input < AV_LAST THEN k.target_input ELSE @,
                  !.options = k.options, !.profile_sel = k.input_profiles[AV_TESTPAT]]
  BY <1>1, <1>3, <1>4, <1>5 DEF LoadInit
<1> QED BY <1>6 DEF e, Settings, AnySettings

LEMMA BootLoads == StoreInv /\ RecordInv /\ Boot => BootRestores'
<1> SUFFICES ASSUME StoreInv, RecordInv, Boot, kept[MAX_USERDATA_ENTRY].known PROVE BootRestores'
  BY DEF BootRestores, Boot
<1> DEFINE k == kept[MAX_USERDATA_ENTRY]
           r == LoadInit(DefaultRam, flash[MAX_USERDATA_ENTRY])
<1>1. k \in InitRecords /\ flash[MAX_USERDATA_ENTRY] = InitImage(k)
  BY DEF RecordInv
<1>2. /\ r.input_profiles = k.input_profiles /\ r.profile_link = k.profile_link /\ r.options = k.options
      /\ r.target_input = (IF k.def_input < AV_LAST THEN k.def_input
                            ELSE IF k.target_input < AV_LAST THEN k.target_input ELSE AV_TESTPAT)
      /\ r.profile_sel = k.input_profiles[AV_TESTPAT]
  <2>1. DefaultRam.target_input = AV_TESTPAT
    BY DEF DefaultRam
  <2> QED BY <1>1, <2>1, DefaultTyped, LoadsRecord
<1>3. r \in Settings /\ r.profile_sel \in Profile
  BY DefaultTyped, LoadInitTyped, Numbers DEF StoreInv, StoreTypeOK, Settings, AnySettings
<1>4. ram' = LoadSlot(r, flash[r.profile_sel]) /\ kept' = kept
  BY DEF Boot
<1> HIDE DEF k, r
<1>5. /\ ram'.input_profiles = r.input_profiles /\ ram'.profile_link = r.profile_link /\ ram'.options = r.options
      /\ ram'.target_input = r.target_input /\ ram'.profile_sel = r.profile_sel
  BY <1>3, <1>4 DEF LoadSlot, Settings, AnySettings
<1>6. ASSUME kept[r.profile_sel].known
      PROVE  ram'.set = kept[r.profile_sel].set /\ ram'.link = kept[r.profile_sel].link
  <2> DEFINE s == kept[r.profile_sel]
  <2>1. s \in SlotRecords /\ flash[r.profile_sel] = ProfileImage(s)
    BY <1>3, <1>6 DEF RecordInv
  <2> HIDE DEF s
  <2>2. ProfileImage(s) = <<UDE_PROFILE, Length, s.set, s.link, Stored[s.table]>>
    BY DEF ProfileImage
  <2>3. Valid(ProfileImage(s), UDE_PROFILE) /\ Cell(ProfileImage(s), 3) = s.set /\ Cell(ProfileImage(s), 4) = s.link
    BY <2>2 DEF Valid, Cell
  <2>4. ram'.set = s.set /\ ram'.link = s.link
    BY <1>3, <1>4, <2>1, <2>3 DEF LoadSlot, Settings, AnySettings
  <2> QED BY <2>4 DEF s
<1> QED BY <1>2, <1>4, <1>5, <1>6 DEF BootRestores, k

\* After power-up the settings saved last are in force, in whatever order things were saved and
\* wherever the power was cut (userdata.c:86-227, av_controller.c:646-677, 880-882).
THEOREM RestartRestores == Spec => []BootRestores
<1>1. Init => BootRestores
  BY DEF Init, BootRestores
<1>2. StoreInv /\ RecordInv /\ BootRestores /\ [Next]_vars => BootRestores'
  <2> SUFFICES ASSUME StoreInv, RecordInv, BootRestores, [Next]_vars PROVE BootRestores'
    OBVIOUS
  <2>1. CASE Boot
    BY <2>1, BootLoads
  <2>2. CASE UNCHANGED vars
    BY <2>2 DEF vars, BootRestores
  <2>3. CASE ~ Boot /\ Next
    <3>1. pc' # "booted"
      BY <2>3 DEF Next, Erase, Write, Finish, ChangeSetting, LearnKeys, SelectInput, FindInput, LoadProfile,
        SaveProfile, StartImport, Import, FinishImport, StartExport, Export, ExportFat, SwapCard, PowerCut,
        FirstPass, SaveInit, Save, Idle
    <3> QED BY <3>1 DEF BootRestores
  <2> QED BY <2>1, <2>2, <2>3
<1> QED BY StoreInitially, StoreKeeps, RecordsInitially, RecordsKept, <1>1, <1>2, PTL DEF Spec
================================================================================
