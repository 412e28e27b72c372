------------------------------ MODULE UpdateProofs ------------------------------
(***************************************************************************)
(* Proofs about FirmwareUpdate, for every flash, set of cards, number of   *)
(* retries and pattern of faults.                                          *)
(***************************************************************************)
EXTENDS FirmwareUpdate, TLAPS

\* While the updater runs.
Updating == pc \in {"start", "erase", "program", "verify", "updated", "failure"}

\* What is known of the variables that TypeOK leaves open.
Data ==
  /\ ready => card \in Cards
  /\ crcval \in Seq(Contents)
  /\ fw_header.data_len \in 0 .. UserOffset

\* While fw_update reads, it reads the one card whose header it has: another card
\* does not answer.
FromOneCard ==
  pc \in {"validate", "prompt"} => \E c \in Cards :
    /\ c.hdr = "ok" /\ fw_header = Header(c)
    /\ ready => card = c
    /\ \A b \in 1 .. Len(crcval) : crcval[b] = c.data[b]

\* At the prompt the data match their header.  From then on, and as long as the flash
\* is not as delivered, the image confirmed last is that of a card.
Agreed ==
  /\ pc = "prompt" => crcval = fw_header.data_crc /\ Len(crcval) = fw_header.data_len
  /\ Updating \/ flash # FirstFlash => confirmed \in CardImage

\* What is erased: all that was passed while erasing, all that is ahead while
\* programming.
Cleared ==
  /\ pc = "erase" => /\ i <= UserOffset
                     /\ \E k \in Nat : i = k * Sector
                     /\ \A b \in 0 .. i - 1 : flash[b] = Erased
  /\ pc = "program" => \A b \in i .. UserOffset - 1 : flash[b] = Erased

UpdateInv == TypeOK /\ Data /\ FromOneCard /\ Agreed /\ Cleared
--------------------------------------------------------------------------------
(* A multiple of Sector below another is a whole sector below it.             *)
LEMMA SectorStep ==
  ASSUME NEW s \in Nat, NEW k \in Nat, NEW m \in Nat, k * s < m * s
  PROVE  k * s + s <= m * s
<1>1. k < m
  <2> SUFFICES ASSUME m <= k PROVE FALSE
    OBVIOUS
  <2>1. PICK d \in Nat : k = m + d
    <3> WITNESS k - m \in Nat
    <3> QED
      OBVIOUS
  <2>2. k * s = m * s + d * s /\ d * s >= 0
    BY <2>1
  <2> QED
    BY <2>2
<1>2. PICK e \in Nat : m = k + 1 + e
  BY <1>1, m - k - 1 \in Nat
<1>3. m * s = k * s + s + e * s /\ e * s >= 0
  BY <1>2
<1> QED
  BY <1>3

(* Every block a card holds, or reads as, is a content of a block of flash.   *)
LEMMA CardBlockType ==
  ASSUME card \in Cards, NEW n \in Nat
  PROVE  CardBlock(n) \in Contents
BY DEF CardBlock, Contents, Erased

\* The device as delivered.
LEMMA InitHolds == Init => UpdateInv
<1> SUFFICES ASSUME Init PROVE UpdateInv
  OBVIOUS
<1>1. \A b \in Block : flash[b] \in Contents
  <2> SUFFICES ASSUME NEW b \in Block PROVE flash[b] \in Contents
    OBVIOUS
  <2>1. CASE b < UserOffset
    <3>1. b + 1 \in DOMAIN OldImage
      BY <2>1, FlashAssumption DEF Block
    <3> QED
      BY <2>1, <3>1 DEF Init, FirstFlash, Contents
  <2>2. CASE ~ (b < UserOffset)
    BY <2>2 DEF Init, FirstFlash, Contents
  <2> QED
    BY <2>1, <2>2
<1>2. TypeOK
  <2>1. flash \in [Block -> Contents]
    BY <1>1 DEF Init, FirstFlash
  <2>2. i \in 0 .. VectorLen /\ retries \in 0 .. FW_UPDATE_RETRIES
    BY FlashAssumption DEF Init
  <2>3. Len(crcval) <= fw_header.data_len
    BY DEF Init, NoHeader
  <2> QED
    BY <2>1, <2>2, <2>3 DEF Init, TypeOK
<1>3. Data /\ FromOneCard /\ Agreed /\ Cleared
  BY FlashAssumption DEF Init, Data, FromOneCard, Agreed, Updating, Cleared, NoHeader
<1> QED
  BY <1>2, <1>3 DEF UpdateInv

(* Steps that leave the flash alone and do not enter a state about which the  *)
(* invariant says something.                                                  *)
LEMMA Elsewhere ==
  ASSUME UpdateInv, UNCHANGED <<flash, protected, fw_header, crcval, i, retries, confirmed>>,
         pc' \in {"run", "lost", "reset", "hung", "dead", "off"},
         card' \in Cards \union {NoCard}, ready' \in BOOLEAN, ready' => card' \in Cards
  PROVE  UpdateInv'
<1>1. TypeOK' /\ Data' /\ FromOneCard' /\ Cleared'
  BY DEF UpdateInv, TypeOK, Data, FromOneCard, Cleared, Block, Contents
<1>2. Agreed'
  BY DEF UpdateInv, Agreed, Updating, FirstFlash, CardImage, Block
<1> QED
  BY <1>1, <1>2 DEF UpdateInv

(* The steps of fw_update.                                                    *)
LEMMA ReadHeaderStep ==
  ASSUME UpdateInv, ReadHeader
  PROVE  UpdateInv'
<1>1. /\ pc = "run" /\ ready' = CardChecked
      /\ UNCHANGED <<flash, protected, card, i, retries, confirmed>>
  BY DEF ReadHeader
<1>2. ready' \in BOOLEAN /\ (ready' => card' \in Cards)
  BY <1>1 DEF CardChecked, UpdateInv, TypeOK
<1>3. CASE UNCHANGED <<pc, fw_header, crcval, hurt>>
  BY <1>1, <1>2, <1>3, Elsewhere DEF UpdateInv, TypeOK
<1>4. CASE CardChecked /\ card.hdr = "ok" /\ fw_header' = Header(card) /\ crcval' = <<>> /\ pc' = "validate"
  <2>1. card \in Cards
    BY <1>4 DEF CardChecked, UpdateInv, TypeOK
  <2>2. fw_header'.data_len \in 0 .. UserOffset
    BY <1>4, <2>1, CardAssumption DEF Header
  <2>3. crcval' \in Seq(Contents) /\ Len(crcval') = 0 /\ Len(crcval') <= fw_header'.data_len
    BY <1>4, <2>2, FlashAssumption
  <2>4. TypeOK' /\ Data' /\ Cleared'
    BY <1>1, <1>2, <1>4, <2>2, <2>3 DEF UpdateInv, TypeOK, Data, Cleared, Block, Contents
  <2>5. Agreed'
    BY <1>1, <1>4 DEF UpdateInv, Agreed, Updating, FirstFlash, CardImage, Block
  <2>6. FromOneCard'
    <3>1. /\ card.hdr = "ok" /\ fw_header' = Header(card)
          /\ ready' => card' = card
          /\ \A b \in 1 .. Len(crcval') : crcval'[b] = card.data[b]
      BY <1>1, <1>4, <2>3
    <3> QED
      BY <2>1, <3>1 DEF FromOneCard, Header
  <2> QED
    BY <2>4, <2>5, <2>6 DEF UpdateInv
<1> QED
  BY <1>3, <1>4 DEF ReadHeader

LEMMA ValidateStep ==
  ASSUME UpdateInv, Validate
  PROVE  UpdateInv'
<1>1. /\ pc = "validate" /\ pc' \in {"validate", "prompt", "run"}
      /\ UNCHANGED <<flash, protected, card, ready, fw_header, i, retries, confirmed>>
  BY DEF Validate
<1>2. Cleared' /\ (Updating' \/ flash' # FirstFlash' => confirmed' \in CardImage')
  BY <1>1 DEF UpdateInv, Cleared, Agreed, Updating, FirstFlash, CardImage, Block
<1>3. pc' = "prompt" => crcval' = fw_header'.data_crc /\ Len(crcval') = fw_header'.data_len
  BY <1>1 DEF Validate
<1>4. Agreed'
  BY <1>2, <1>3 DEF Agreed
<1>5. PICK c \in Cards : /\ c.hdr = "ok" /\ fw_header = Header(c)
                         /\ ready => card = c
                         /\ \A b \in 1 .. Len(crcval) : crcval[b] = c.data[b]
  BY <1>1 DEF UpdateInv, FromOneCard
<1>6. CASE UNCHANGED crcval
  <2>1. TypeOK' /\ Data'
    BY <1>1, <1>6 DEF UpdateInv, TypeOK, Data, Block, Contents
  <2>2. FromOneCard'
    BY <1>1, <1>5, <1>6 DEF FromOneCard, Header
  <2> QED
    BY <1>2, <1>4, <2>1, <2>2 DEF UpdateInv
<1>7. CASE Len(crcval) < fw_header.data_len /\ ready /\ crcval' = Append(crcval, CardBlock(Len(crcval) + 1))
  <2>1. crcval \in Seq(Contents) /\ card \in Cards /\ card = c /\ fw_header.data_len \in Nat
    BY <1>5, <1>7, FlashAssumption DEF UpdateInv, Data
  <2>2. CardBlock(Len(crcval) + 1) \in Contents
    BY <2>1, CardBlockType
  <2>3. crcval' \in Seq(Contents) /\ Len(crcval') = Len(crcval) + 1 /\ Len(crcval') <= fw_header.data_len
    BY <1>7, <2>1, <2>2
  <2>4. TypeOK' /\ Data'
    BY <1>1, <2>3 DEF UpdateInv, TypeOK, Data, Block, Contents
  <2>5. CardBlock(Len(crcval) + 1) = c.data[Len(crcval) + 1]
    <3>1. c.data \in Seq(STRING) /\ fw_header.data_len = Len(c.data)
      BY <1>5, CardAssumption DEF Header
    <3>2. Len(crcval) + 1 \in DOMAIN c.data
      BY <1>7, <2>1, <3>1
    <3> QED
      BY <2>1, <3>2 DEF CardBlock
  <2>6. ASSUME NEW b \in 1 .. Len(crcval') PROVE crcval'[b] = c.data[b]
    <3>1. CASE b <= Len(crcval)
      BY <1>5, <1>7, <2>1, <3>1
    <3>2. CASE b > Len(crcval)
      <4>1. b = Len(crcval) + 1
        BY <2>1, <2>3, <3>2
      <4> QED
        BY <1>7, <2>1, <2>5, <4>1
    <3> QED
      BY <2>1, <2>3, <3>1, <3>2
  <2>7. FromOneCard'
    BY <1>1, <1>5, <2>6 DEF FromOneCard, Header
  <2> QED
    BY <1>2, <1>4, <2>4, <2>7 DEF UpdateInv
<1> QED
  BY <1>6, <1>7 DEF Validate

\* What matched its header was the card's whole image.
LEMMA AnswerStep ==
  ASSUME UpdateInv, Answer
  PROVE  UpdateInv'
<1>1. /\ pc = "prompt" /\ UNCHANGED <<flash, protected, card, ready, fw_header, crcval, i, retries>>
      /\ pc' \in {"start", "lost", "run"}
      /\ pc' = "start" => confirmed' = crcval
      /\ confirmed' \in {confirmed, crcval}
  BY DEF Answer, env, locals
<1>2. crcval \in CardImage
  <2>1. PICK c \in Cards : /\ c.hdr = "ok" /\ fw_header = Header(c)
                           /\ \A b \in 1 .. Len(crcval) : crcval[b] = c.data[b]
    BY <1>1 DEF UpdateInv, FromOneCard
  <2> DEFINE s == c.data
             n == fw_header.data_len
  <2>2. s \in Seq(STRING) /\ n = Len(s) /\ fw_header.data_crc = c.data_crc
    BY <2>1, CardAssumption DEF Header
  <2>3. crcval = fw_header.data_crc /\ Len(crcval) = n /\ crcval \in Seq(Contents)
    BY <1>1 DEF UpdateInv, Agreed, Data
  <2>4. \A b \in 1 .. n : crcval[b] = s[b]
    BY <2>1, <2>3
  <2> HIDE DEF s, n
  <2>5. crcval = [b \in 1 .. n |-> crcval[b]] /\ s = [b \in 1 .. n |-> s[b]]
    BY <2>2, <2>3
  <2>6. crcval = s
    BY <2>4, <2>5
  <2> QED
    BY <2>1, <2>2, <2>3, <2>6 DEF CardImage, s
<1>3. Agreed'
  BY <1>1, <1>2 DEF UpdateInv, Agreed, Updating, FirstFlash, CardImage, Block
<1>4. TypeOK' /\ Data' /\ FromOneCard' /\ Cleared'
  BY <1>1 DEF UpdateInv, TypeOK, Data, FromOneCard, Cleared, Block, Contents
<1> QED
  BY <1>3, <1>4 DEF UpdateInv

(* While the updater runs an image was confirmed, whatever becomes of the flash. *)
LEMMA StillConfirmed ==
  ASSUME UpdateInv, Updating, UNCHANGED confirmed, pc' # "prompt"
  PROVE  Agreed'
BY DEF UpdateInv, Agreed, Updating, FirstFlash, CardImage, Block

(* Erasing goes on sector by sector and ends where the user data begin.       *)
LEMMA EraseStep ==
  ASSUME UpdateInv, Erase
  PROVE  UpdateInv'
<1>1. /\ pc = "erase" /\ pc' \in {"erase", "program"} /\ protected' = FALSE
      /\ UNCHANGED <<card, ready, fw_header, crcval, retries, confirmed>>
  BY DEF Erase, env
<1>2. /\ i \in 0 .. UserOffset /\ UserOffset \in Nat /\ Sector \in Nat \ {0} /\ FlashBlocks \in Nat
      /\ UserOffset <= FlashBlocks /\ VectorLen \in Nat /\ FlashBlocks <= VectorLen
  BY <1>1, FlashAssumption DEF UpdateInv, TypeOK, Cleared
<1>3. PICK k \in Nat : i = k * Sector
  BY <1>1 DEF UpdateInv, Cleared
<1>4. PICK m \in Nat : UserOffset = m * Sector
  BY FlashAssumption
<1>5. Agreed' /\ Data' /\ FromOneCard'
  <2>1. Agreed'
    BY <1>1, StillConfirmed DEF Updating
  <2> QED
    BY <1>1, <2>1 DEF UpdateInv, Data, FromOneCard, Contents
<1>6. CASE i < UserOffset
  <2>1. /\ flash' = [b \in Block |-> IF b \in i .. i + Sector - 1 THEN Erased ELSE flash[b]]
        /\ i' = i + Sector /\ pc' = "erase"
    BY <1>1, <1>2, <1>6 DEF Erase
  <2>2. i + Sector <= UserOffset
    BY <1>2, <1>3, <1>4, <1>6, SectorStep
  <2>3. i' = (k + 1) * Sector /\ k + 1 \in Nat
    BY <1>2, <1>3, <2>1
  <2>4. flash' \in [Block -> Contents]
    BY <2>1 DEF UpdateInv, TypeOK, Contents
  <2>5. i' \in 0 .. VectorLen
    BY <1>2, <2>1, <2>2
  <2>6. TypeOK'
    BY <1>1, <2>1, <2>4, <2>5 DEF UpdateInv, TypeOK, Block, Contents
  <2>7. \A b \in 0 .. i' - 1 : flash'[b] = Erased
    BY <1>1, <1>2, <2>1, <2>2 DEF UpdateInv, Cleared, Block
  <2>8. Cleared'
    BY <1>2, <2>1, <2>2, <2>3, <2>7 DEF Cleared
  <2> QED
    BY <1>5, <2>6, <2>8 DEF UpdateInv
<1>7. CASE i >= UserOffset
  <2>1. flash' = flash /\ i' = 0 /\ pc' = "program" /\ i = UserOffset
    BY <1>1, <1>2, <1>7 DEF Erase
  <2>2. \A b \in 0 .. UserOffset - 1 : flash'[b] = Erased
    BY <1>1, <2>1 DEF UpdateInv, Cleared
  <2>3. Cleared'
    BY <1>1, <1>2, <2>1, <2>2 DEF Cleared
  <2>4. i' \in 0 .. VectorLen
    BY <1>2, <2>1
  <2>5. TypeOK'
    BY <1>1, <2>1, <2>4 DEF UpdateInv, TypeOK, Block, Contents
  <2> QED
    BY <1>5, <2>3, <2>5 DEF UpdateInv
<1> QED
  BY <1>2, <1>6, <1>7

(* Programming writes each block once, after it was erased.                   *)
LEMMA ProgramStep ==
  ASSUME UpdateInv, Program
  PROVE  UpdateInv'
<1>1. /\ pc = "program" /\ pc' \in {"program", "hung", "failure", "verify"} /\ protected' \in BOOLEAN
      /\ UNCHANGED <<card, ready, fw_header, crcval, retries, confirmed>>
  BY DEF Program, UpdateInv, TypeOK
<1>2. /\ i \in 0 .. VectorLen /\ UserOffset \in Nat /\ FlashBlocks \in Nat
      /\ UserOffset <= FlashBlocks /\ VectorLen \in Nat /\ FlashBlocks <= VectorLen
  BY FlashAssumption DEF UpdateInv, TypeOK
<1>3. Agreed' /\ Data' /\ FromOneCard'
  <2>1. Agreed'
    BY <1>1, StillConfirmed DEF Updating
  <2> QED
    BY <1>1, <2>1 DEF UpdateInv, Data, FromOneCard, Contents
<1>4. \A b \in i .. UserOffset - 1 : flash[b] = Erased
  BY <1>1 DEF UpdateInv, Cleared
<1>5. ASSUME NEW v \in Contents, i < FlashBlocks, flash' = [flash EXCEPT ![i] = v], i' = i + 1
      PROVE  UpdateInv'
  <2>1. flash' \in [Block -> Contents]
    BY <1>5 DEF UpdateInv, TypeOK
  <2>2. i' \in 0 .. VectorLen
    BY <1>2, <1>5
  <2>3. TypeOK'
    BY <1>1, <2>2, <2>1 DEF UpdateInv, TypeOK, Block, Contents
  <2>4. \A b \in Block : b # i => flash'[b] = flash[b]
    BY <1>5 DEF UpdateInv, TypeOK
  <2>5. Cleared'
    BY <1>1, <1>2, <1>4, <1>5, <2>4 DEF Cleared, Block
  <2> QED
    BY <1>3, <2>3, <2>5 DEF UpdateInv
<1>6. CASE /\ i < FlashBlocks /\ ready
           /\ flash' = [flash EXCEPT ![i] = IF protected THEN @ ELSE Programmed(@, CardBlock(i + 1))]
           /\ i' = i + 1
  <2>1. CardBlock(i + 1) \in Contents
    BY <1>2, <1>6, CardBlockType DEF UpdateInv, Data
  <2>2. flash[i] \in Contents /\ DOMAIN flash = Block /\ i \in Block
    BY <1>2, <1>6 DEF UpdateInv, TypeOK, Block
  <2>3. (IF protected THEN flash[i] ELSE Programmed(flash[i], CardBlock(i + 1))) \in Contents
    BY <2>1, <2>2 DEF Programmed, Contents
  <2>4. flash' = [flash EXCEPT ![i] = IF protected THEN flash[i] ELSE Programmed(flash[i], CardBlock(i + 1))]
    BY <1>6, <2>2
  <2> QED
    BY <1>5, <1>6, <2>3, <2>4
<1>7. CASE /\ i < FlashBlocks /\ \E v \in {flash[i], "mixed"} : flash' = [flash EXCEPT ![i] = v]
           /\ i' = i + 1
  <2>1. PICK v \in {flash[i], "mixed"} : flash' = [flash EXCEPT ![i] = v]
    BY <1>7
  <2>2. flash[i] \in Contents
    BY <1>2, <1>7 DEF UpdateInv, TypeOK, Block
  <2>3. v \in Contents
    BY <2>1, <2>2 DEF Contents
  <2> QED
    BY <1>5, <1>7, <2>1, <2>3
<1>8. ASSUME flash' = flash, i' \in 0 .. VectorLen, i' >= i
      PROVE  UpdateInv'
  <2>1. i' \in 0 .. VectorLen
    BY <1>8
  <2>2. TypeOK'
    BY <1>1, <1>8, <2>1 DEF UpdateInv, TypeOK, Block, Contents
  <2>3. \A b \in i' .. UserOffset - 1 : flash'[b] = Erased
    <3> SUFFICES ASSUME NEW b \in i' .. UserOffset - 1 PROVE flash[b] = Erased
      BY <1>8
    <3>1. b \in i .. UserOffset - 1
      BY <1>2, <1>8
    <3> QED
      BY <1>4, <3>1
  <2>4. Cleared'
    BY <1>1, <2>3 DEF Cleared
  <2> QED
    BY <1>3, <2>2, <2>4 DEF UpdateInv
<1>9. CASE /\ i < FlashBlocks
           /\ ready
           /\ flash' = [flash EXCEPT ![i] = IF protected THEN @ ELSE Programmed(@, CardBlock(i + 1))]
           /\ i' = i + 1
           /\ UNCHANGED <<pc, protected, retval, faults, hurt>>
  BY <1>6, <1>9
<1>10. CASE /\ i < FlashBlocks
            /\ ready /\ faults < MaxFaults
            /\ \E v \in {flash[i], "mixed"} : flash' = [flash EXCEPT ![i] = v]
            /\ i' = i + 1
            /\ faults' = faults + 1
            /\ hurt' = [hurt EXCEPT !.flash = TRUE]
            /\ UNCHANGED <<pc, protected, retval>>
  BY <1>7, <1>10
<1>11. CASE /\ FlashBlocks <= i /\ i < VectorLen
            /\ ready
            /\ i' = i + 1
            /\ pc' \in {"program", "hung"}
            /\ UNCHANGED <<flash, protected, retval, faults, hurt>>
  <2>1. flash' = flash /\ i' \in 0 .. VectorLen /\ i' >= i
    BY <1>2, <1>11
  <2> QED
    BY <1>8, <2>1
<1>12. CASE ReadFails /\ UNCHANGED <<flash, protected, i>>
  <2>1. flash' = flash /\ i' \in 0 .. VectorLen /\ i' >= i
    BY <1>2, <1>12
  <2> QED
    BY <1>8, <2>1
<1>13. CASE UNCHANGED <<flash, i, retval, faults, hurt>>
  <2>1. flash' = flash /\ i' \in 0 .. VectorLen /\ i' >= i
    BY <1>2, <1>13
  <2> QED
    BY <1>8, <2>1
<1> QED
  BY <1>9, <1>10, <1>11, <1>12, <1>13, Zenon DEF Program

(* The other steps of the updater.                                            *)
LEMMA UpdaterSteps ==
  ASSUME UpdateInv, Start \/ Verify \/ Failure \/ Reset
  PROVE  UpdateInv'
<1>1. CASE Start
  <2>1. /\ pc = "start" /\ pc' \in {"erase", "failure"} /\ i' = 0 /\ ready' = CardChecked
        /\ retries' \in {FW_UPDATE_RETRIES, retries}
        /\ UNCHANGED <<flash, protected, card, fw_header, crcval, confirmed>>
    BY <1>1 DEF Start
  <2>2. ready' \in BOOLEAN /\ (ready' => card' \in Cards)
    BY <2>1 DEF CardChecked, UpdateInv, TypeOK
  <2>3. i' \in 0 .. VectorLen /\ retries' \in 0 .. FW_UPDATE_RETRIES
    BY <2>1, FlashAssumption DEF UpdateInv, TypeOK
  <2>4. TypeOK' /\ Data' /\ FromOneCard'
    BY <2>1, <2>2, <2>3 DEF UpdateInv, TypeOK, Data, FromOneCard, Block, Contents
  <2>5. Agreed'
    BY <2>1, StillConfirmed DEF Updating
  <2>6. i' <= UserOffset /\ i' = 0 * Sector /\ \A b \in 0 .. i' - 1 : flash'[b] = Erased
    BY <2>1, FlashAssumption
  <2>7. Cleared'
    BY <2>1, <2>6 DEF Cleared
  <2> QED
    BY <2>4, <2>5, <2>7 DEF UpdateInv
<1>2. CASE Verify
  <2>1. /\ pc = "verify" /\ UNCHANGED <<flash, protected, card, ready, fw_header, crcval, i, retries, confirmed>>
        /\ pc' \in {"updated", "hung", "failure"}
    BY <1>2 DEF Verify, env
  <2>2. Agreed'
    BY <2>1, StillConfirmed DEF Updating
  <2>3. TypeOK' /\ Data' /\ FromOneCard' /\ Cleared'
    BY <2>1 DEF UpdateInv, TypeOK, Data, FromOneCard, Cleared, Block, Contents
  <2> QED
    BY <2>2, <2>3 DEF UpdateInv
<1>3. CASE Failure
  <2>1. /\ pc = "failure" /\ pc' \in {"erase", "reset"} /\ i' = 0
        /\ \/ retries' = retries
           \/ retries > 0 /\ retries' = retries - 1
        /\ UNCHANGED <<flash, protected, card, ready, fw_header, crcval, confirmed>>
    BY <1>3 DEF Failure, env
  <2>2. retries' \in 0 .. FW_UPDATE_RETRIES /\ i' \in 0 .. VectorLen
    BY <2>1, FlashAssumption DEF UpdateInv, TypeOK
  <2>3. TypeOK' /\ Data' /\ FromOneCard'
    BY <2>1, <2>2 DEF UpdateInv, TypeOK, Data, FromOneCard, Block, Contents
  <2>4. Agreed'
    BY <2>1, StillConfirmed DEF Updating
  <2>5. i' <= UserOffset /\ i' = 0 * Sector /\ \A b \in 0 .. i' - 1 : flash'[b] = Erased
    BY <2>1, FlashAssumption
  <2>6. Cleared'
    BY <2>1, <2>5 DEF Cleared
  <2> QED
    BY <2>3, <2>4, <2>6 DEF UpdateInv
<1>4. CASE Reset
  <2>1. pc' \in {"run", "dead"}
        /\ UNCHANGED <<flash, protected, card, ready, fw_header, crcval, i, retries, confirmed>>
    BY <1>4 DEF Reset, Boot, env, locals
  <2> QED
    BY <2>1, Elsewhere DEF UpdateInv, TypeOK, Data
<1> QED
  BY <1>1, <1>2, <1>3, <1>4

(* What the user and the power do.                                            *)
LEMMA UserSteps ==
  ASSUME UpdateInv, SwapCard \/ PowerCut \/ PowerOn \/ UNCHANGED vars
  PROVE  UpdateInv'
<1>1. CASE SwapCard
  <2>1. /\ card' \in Cards \union {NoCard} /\ ready' = FALSE
        /\ UNCHANGED <<pc, flash, protected, fw_header, crcval, i, retries, confirmed>>
    BY <1>1 DEF SwapCard, locals
  <2>2. TypeOK' /\ Data' /\ Cleared'
    BY <2>1 DEF UpdateInv, TypeOK, Data, Cleared, Block, Contents
  <2>3. FromOneCard'
    BY <2>1 DEF UpdateInv, FromOneCard, Header
  <2>4. Agreed'
    BY <2>1 DEF UpdateInv, Agreed, Updating, FirstFlash, CardImage, Block
  <2> QED
    BY <2>2, <2>3, <2>4 DEF UpdateInv
<1>2. CASE PowerCut
  <2>1. pc' = "off" /\ ready' = FALSE
        /\ UNCHANGED <<flash, protected, card, fw_header, crcval, i, retries, confirmed>>
    BY <1>2 DEF PowerCut, locals
  <2> QED
    BY <2>1, Elsewhere DEF UpdateInv, TypeOK
<1>3. CASE PowerOn
  <2>1. pc' \in {"run", "dead"}
        /\ UNCHANGED <<flash, protected, card, ready, fw_header, crcval, i, retries, confirmed>>
    BY <1>3 DEF PowerOn, Boot, env, locals
  <2> QED
    BY <2>1, Elsewhere DEF UpdateInv, TypeOK, Data
<1>4. CASE UNCHANGED vars
  <2>1. UNCHANGED <<pc, flash, protected, card, ready, fw_header, crcval, i, retries, confirmed>>
    BY <1>4 DEF vars, env, locals
  <2>2. TypeOK' /\ Data' /\ Cleared'
    BY <2>1 DEF UpdateInv, TypeOK, Data, Cleared, Block, Contents
  <2>3. FromOneCard'
    BY <2>1 DEF UpdateInv, FromOneCard, Header
  <2>4. Agreed'
    BY <2>1 DEF UpdateInv, Agreed, Updating, FirstFlash, CardImage, Block
  <2> QED
    BY <2>2, <2>3, <2>4 DEF UpdateInv
<1> QED
  BY <1>1, <1>2, <1>3, <1>4

(* The invariant holds throughout, whatever cards, faults and power cuts come. *)
THEOREM Invariance == Spec => []UpdateInv
<1>1. Init => UpdateInv
  BY InitHolds
<1>2. UpdateInv /\ [Next]_vars => UpdateInv'
  BY ReadHeaderStep, ValidateStep, AnswerStep, EraseStep, ProgramStep, UpdaterSteps, UserSteps DEF Next, Updater
<1> QED
  BY <1>1, <1>2, PTL DEF Spec

(* The flash is touched only for an image that one card held whole, that was  *)
(* read to its end, matched its header and was confirmed (firmware.c:84-121), *)
(* whatever card is inserted meanwhile.                                       *)
THEOREM TouchedForConfirmed == Spec => []TouchedOnlyIfConfirmed
<1>1. UpdateInv => TouchedOnlyIfConfirmed
  BY DEF UpdateInv, Agreed, Updating, TouchedOnlyIfConfirmed
<1> QED
  BY <1>1, Invariance, PTL
--------------------------------------------------------------------------------
(* An update that nobody disturbs copies the image, and fails for good only   *)
(* by its reads.                                                              *)

\* Since the header was read, the card was not touched and all of the flash took its
\* values.
Unharmed == ~ hurt.card /\ ~ hurt.flash

\* Until something was programmed no read failed.
Reading == pc \in {"validate", "prompt", "start"} => hurt.reads = 0

\* The card is still the one whose header was read; once it was validated, what it
\* holds is a good image, the confirmed one.
SameCard ==
  /\ Updating \/ pc \in {"validate", "prompt"} =>
       card \in Cards /\ card.hdr = "ok" /\ fw_header = Header(card) /\ ready
  /\ Updating => card.data = card.data_crc /\ confirmed = card.data

\* The flash holds the first n blocks of the confirmed image.
Holds(n) == \A b \in 0 .. UserOffset - 1 : b < n /\ b < Len(confirmed) => flash[b] = confirmed[b + 1]

\* What the updater has copied.
Copied ==
  /\ pc \in {"program", "verify", "updated", "hung"} =>
       confirmed \in CardImage /\ Len(confirmed) \in 0 .. UserOffset
  /\ pc = "program" => Holds(i)
  /\ pc \in {"verify", "updated", "hung"} => Holds(UserOffset)

\* Every failed read took a retry; where no read failed, all was copied.
Counted ==
  /\ pc \in {"erase", "program", "verify", "updated"} => hurt.reads = FW_UPDATE_RETRIES - retries
  /\ pc = "failure" => \/ retval = -1 /\ hurt.reads = FW_UPDATE_RETRIES - retries + 1
                       \/ retval \in Nat /\ Starts
  /\ pc = "reset" => hurt.reads > FW_UPDATE_RETRIES \/ Starts
  /\ pc = "dead" => hurt.reads > FW_UPDATE_RETRIES

\* The device starts until the flash is touched; it is unprotected while it is written
\* and protected when that is done; a cut ends the update.
Usable ==
  /\ pc \in {"run", "validate", "prompt", "lost", "start"} => Starts
  /\ pc = "program" => ~ protected
  /\ pc = "verify" => protected
  /\ hurt.power => pc \in {"off", "run", "dead"}
  /\ pc = "off" => hurt.power
  /\ hurt = [reads |-> hurt.reads, flash |-> hurt.flash, card |-> hurt.card, power |-> hurt.power]
  /\ hurt.reads \in Nat /\ hurt.flash \in BOOLEAN /\ hurt.card \in BOOLEAN /\ hurt.power \in BOOLEAN

SurvivalInv == Usable /\ (Unharmed /\ ~ hurt.power => Reading /\ SameCard /\ Copied /\ Counted)

(* A card's good image lies below the user data.                              *)
LEMMA ImageFits ==
  ASSUME confirmed \in CardImage
  PROVE  confirmed \in Seq(STRING) /\ Len(confirmed) \in 0 .. UserOffset
BY CardAssumption DEF CardImage

(* A flash that holds all of the confirmed image starts the device.           *)
LEMMA GoodStarts ==
  ASSUME confirmed \in CardImage, Holds(UserOffset)
  PROVE  Starts /\ Content(Len(confirmed)) = confirmed
<1> DEFINE n == Len(confirmed)
<1>1. confirmed \in Seq(STRING) /\ n \in Nat /\ n <= UserOffset /\ UserOffset \in Nat
  BY ImageFits, FlashAssumption
<1>2. \A k \in 1 .. n : flash[k - 1] = confirmed[k]
  <2> SUFFICES ASSUME NEW k \in 1 .. n PROVE flash[k - 1] = confirmed[k]
    OBVIOUS
  <2>1. /\ k - 1 \in 0 .. UserOffset - 1 /\ (k - 1) + 1 = k
        /\ k - 1 < UserOffset /\ k - 1 < Len(confirmed)
    BY <1>1
  <2>2. flash[k - 1] = confirmed[(k - 1) + 1]
    BY <2>1 DEF Holds
  <2> QED
    BY <2>1, <2>2
<1>3. confirmed = [k \in 1 .. n |-> confirmed[k]]
  BY <1>1
<1>4. Content(n) = confirmed
  <2> HIDE DEF n
  <2> QED
    BY <1>2, <1>3 DEF Content
<1> QED
  BY <1>4 DEF Starts, Image

\* Whether the device starts is a matter of the flash alone.
LEMMA StartsKept ==
  ASSUME flash' = flash
  PROVE  Starts' = Starts
BY DEF Starts, Content, Image, CardImage

\* The first image starts the device.
LEMMA SurvivalInit == Init => SurvivalInv
<1> SUFFICES ASSUME Init PROVE SurvivalInv
  OBVIOUS
<1>1. Starts
  <2>1. OldImage = [k \in 1 .. UserOffset |-> OldImage[k]] /\ UserOffset = Len(OldImage)
    BY FlashAssumption
  <2>2. \A k \in 1 .. UserOffset : flash[k - 1] = OldImage[k]
    <3> SUFFICES ASSUME NEW k \in 1 .. UserOffset PROVE flash[k - 1] = OldImage[k]
      OBVIOUS
    <3>1. k - 1 \in Block /\ k - 1 < UserOffset /\ (k - 1) + 1 = k
      BY FlashAssumption DEF Block
    <3> QED
      BY <3>1 DEF Init, FirstFlash
  <2>3. Content(UserOffset) = OldImage
    BY <2>1, <2>2 DEF Content
  <2> QED
    BY <2>1, <2>3 DEF Starts, Image
<1>2. pc = "run" /\ hurt = [reads |-> 0, flash |-> FALSE, card |-> FALSE, power |-> FALSE]
  BY DEF Init, Unhurt
<1>3. Usable
  BY <1>1, <1>2 DEF Usable
<1>4. Reading /\ SameCard /\ Copied /\ Counted
  BY <1>2 DEF Reading, SameCard, Copied, Counted, Updating
<1> QED
  BY <1>3, <1>4 DEF SurvivalInv

\* A read that fails is counted.
LEMMA FailedRead ==
  ASSUME SurvivalInv, ReadFails
  PROVE  /\ hurt' = [reads |-> hurt'.reads, flash |-> hurt.flash, card |-> hurt.card, power |-> hurt.power]
         /\ hurt'.reads \in Nat
         /\ ready => hurt'.reads = hurt.reads + 1
BY DEF ReadFails, SurvivalInv, Usable

\* fw_update reads the header and the data, and asks.
LEMMA SurvivalFwUpdate ==
  ASSUME UpdateInv, UpdateInv', SurvivalInv, ReadHeader \/ Validate \/ Answer
  PROVE  SurvivalInv'
<1>1. CASE ReadHeader
  <2>1. pc = "run" /\ Starts /\ flash' = flash /\ protected' = protected /\ card' = card /\ ready' = CardChecked
    BY <1>1 DEF ReadHeader, SurvivalInv, Usable
  <2>2. Starts'
    BY <2>1, StartsKept
  <2>3. CASE UNCHANGED <<pc, fw_header, crcval, hurt>>
    BY <2>1, <2>2, <2>3 DEF SurvivalInv, Usable, Reading, SameCard, Copied, Counted, Updating
  <2>4. CASE CardChecked /\ card.hdr = "ok" /\ fw_header' = Header(card) /\ crcval' = <<>> /\ pc' = "validate" /\ hurt' = Unhurt
    <3>1. card \in Cards
      BY <2>4 DEF CardChecked, UpdateInv, TypeOK
    <3>2. Usable'
      BY <2>2, <2>4 DEF Usable, Unhurt
    <3>3. Reading' /\ SameCard' /\ Copied' /\ Counted'
      BY <2>1, <2>4, <3>1 DEF Reading, SameCard, Copied, Counted, Updating, Unhurt, Header
    <3> QED
      BY <3>2, <3>3 DEF SurvivalInv
  <2> QED
    BY <1>1, <2>3, <2>4 DEF ReadHeader
<1>2. CASE Validate
  <2>1. /\ pc = "validate" /\ pc' \in {"validate", "prompt", "run"}
        /\ UNCHANGED <<flash, protected, card, ready, fw_header>>
    BY <1>2 DEF Validate
  <2>2. Starts'
    BY <2>1, StartsKept DEF SurvivalInv, Usable
  <2>3. CASE UNCHANGED hurt
    <3>1. Usable'
      BY <2>1, <2>2, <2>3 DEF SurvivalInv, Usable
    <3>2. ASSUME Unharmed', ~ hurt'.power PROVE Reading' /\ SameCard' /\ Copied' /\ Counted'
      <4>1. Reading /\ SameCard
        BY <2>3, <3>2 DEF SurvivalInv, Unharmed
      <4> QED
        BY <2>1, <2>3, <4>1 DEF Reading, SameCard, Copied, Counted, Updating, Header
    <3> QED
      BY <3>1, <3>2 DEF SurvivalInv
  <2>4. CASE ReadFails /\ pc' = "run"
    <3>1. Usable'
      BY <2>2, <2>1, <2>4, FailedRead DEF SurvivalInv, Usable
    <3> QED
      BY <2>4, <3>1 DEF SurvivalInv, Reading, SameCard, Copied, Counted, Updating
  <2> QED
    BY <1>2, <2>3, <2>4 DEF Validate
<1>3. CASE Answer
  <2>1. /\ pc = "prompt" /\ pc' \in {"start", "lost", "run"}
        /\ pc' = "start" => confirmed' = crcval
        /\ UNCHANGED <<flash, protected, card, ready, fw_header, crcval, hurt>>
    BY <1>3 DEF Answer, env, locals
  <2>2. Starts'
    BY <2>1, StartsKept DEF SurvivalInv, Usable
  <2>3. Usable'
    BY <2>1, <2>2 DEF SurvivalInv, Usable
  <2>4. ASSUME Unharmed', ~ hurt'.power PROVE Reading' /\ SameCard' /\ Copied' /\ Counted'
    <3>1. Reading /\ SameCard
      BY <2>1, <2>4 DEF SurvivalInv, Unharmed
    <3>2. card \in Cards /\ card.hdr = "ok" /\ fw_header = Header(card) /\ ready
      BY <2>1, <3>1 DEF SameCard
    <3>3. crcval = card.data /\ card.data = card.data_crc
      <4>1. PICK c \in Cards : /\ c.hdr = "ok" /\ fw_header = Header(c) /\ (ready => card = c)
                               /\ \A b \in 1 .. Len(crcval) : crcval[b] = c.data[b]
        BY <2>1 DEF UpdateInv, FromOneCard
      <4> DEFINE s == card.data
                 n == fw_header.data_len
      <4>2. s \in Seq(STRING) /\ n = Len(s) /\ fw_header.data_crc = card.data_crc
        BY <3>2, CardAssumption DEF Header
      <4>3. crcval = fw_header.data_crc /\ Len(crcval) = n /\ crcval \in Seq(Contents)
        BY <2>1 DEF UpdateInv, Agreed, Data
      <4>4. \A b \in 1 .. n : crcval[b] = s[b]
        BY <3>2, <4>1, <4>3
      <4> HIDE DEF s, n
      <4>5. crcval = [b \in 1 .. n |-> crcval[b]] /\ s = [b \in 1 .. n |-> s[b]]
        BY <4>2, <4>3
      <4>6. crcval = s
        BY <4>4, <4>5
      <4> QED
        BY <4>2, <4>3, <4>6 DEF s
    <3> QED
      BY <2>1, <3>1, <3>2, <3>3 DEF Reading, SameCard, Copied, Counted, Updating, Header
  <2> QED
    BY <2>3, <2>4 DEF SurvivalInv
<1> QED
  BY <1>1, <1>2, <1>3

\* The card that was validated is still there when the updater looks for it.
LEMMA SurvivalStart ==
  ASSUME UpdateInv, UpdateInv', SurvivalInv, Start
  PROVE  SurvivalInv'
<1>1. /\ pc = "start" /\ pc' \in {"erase", "failure"} /\ ready' = CardChecked
      /\ UNCHANGED <<flash, protected, card, fw_header, crcval, confirmed, hurt>>
  BY DEF Start
<1>2. Usable'
  BY <1>1 DEF SurvivalInv, Usable
<1>3. ASSUME Unharmed', ~ hurt'.power PROVE Reading' /\ SameCard' /\ Copied' /\ Counted'
  <2>1. SameCard /\ Reading
    BY <1>1, <1>3 DEF SurvivalInv, Unharmed
  <2>2. card \in Cards /\ card.hdr = "ok" /\ fw_header = Header(card) /\ card.data = card.data_crc /\ confirmed = card.data
    BY <1>1, <2>1 DEF SameCard, Updating
  <2>3. card # NoCard
    BY <2>2 DEF NoCard
  <2>4. pc' = "erase" /\ retries' = FW_UPDATE_RETRIES /\ ready'
    BY <1>1, <2>3 DEF Start, CardChecked
  <2>5. hurt.reads = 0
    BY <1>1, <2>1 DEF Reading
  <2>6. hurt'.reads = FW_UPDATE_RETRIES - retries'
    BY <1>1, <2>4, <2>5, FlashAssumption
  <2> QED
    BY <1>1, <2>2, <2>4, <2>6 DEF Reading, SameCard, Copied, Counted, Updating, Header
<1> QED
  BY <1>2, <1>3 DEF SurvivalInv

\* Erasing ends unprotected and with nothing copied.
LEMMA SurvivalErase ==
  ASSUME UpdateInv, UpdateInv', SurvivalInv, Erase
  PROVE  SurvivalInv'
<1>1. /\ pc = "erase" /\ pc' \in {"erase", "program"} /\ protected' = FALSE
      /\ UNCHANGED <<card, ready, fw_header, crcval, retries, confirmed, hurt>>
      /\ pc' = "program" => i' = 0
  BY DEF Erase, env
<1>2. Usable'
  BY <1>1 DEF SurvivalInv, Usable
<1>3. ASSUME Unharmed', ~ hurt'.power PROVE Reading' /\ SameCard' /\ Copied' /\ Counted'
  <2>1. SameCard /\ Counted
    BY <1>1, <1>3 DEF SurvivalInv, Unharmed
  <2>2. confirmed' \in CardImage' /\ Len(confirmed') \in 0 .. UserOffset
    <3>1. confirmed \in CardImage /\ CardImage' = CardImage
      BY <1>1 DEF UpdateInv, Agreed, Updating, CardImage
    <3> QED
      BY <1>1, <3>1, ImageFits
  <2>3. pc' = "program" => Holds(i)'
    BY <1>1 DEF Holds
  <2> QED
    BY <1>1, <2>1, <2>2, <2>3 DEF Reading, SameCard, Copied, Counted, Updating, Header
<1> QED
  BY <1>2, <1>3 DEF SurvivalInv

\* A block that is programmed is one of the image's, or behind it.
LEMMA HoldsMore ==
  ASSUME UpdateInv, pc = "program", ~ protected, i < FlashBlocks, Holds(i),
         card \in Cards, card.hdr = "ok", confirmed = card.data, UNCHANGED confirmed,
         i' = i + 1,
         flash' = [flash EXCEPT ![i] = IF protected THEN @ ELSE Programmed(@, CardBlock(i + 1))]
  PROVE  Holds(i)'
<1>1. /\ i \in Nat /\ UserOffset \in Nat /\ FlashBlocks \in Nat /\ UserOffset <= FlashBlocks
      /\ DOMAIN flash = Block /\ i \in Block
  BY FlashAssumption DEF UpdateInv, TypeOK, Block
<1>2. ASSUME NEW b \in 0 .. UserOffset - 1, b < i + 1, b < Len(confirmed)
      PROVE  flash'[b] = confirmed[b + 1]
  <2>1. b \in Block /\ b \in Nat
    BY <1>1, <1>2 DEF Block
  <2>2. CASE b = i
    <3>1. flash[i] = Erased
      BY <1>1, <1>2, <2>2 DEF UpdateInv, Cleared
    <3>2. flash'[i] = Programmed(flash[i], CardBlock(i + 1))
      BY <1>1
    <3>3. card.data \in Seq(STRING)
      BY CardAssumption
    <3>4. CardBlock(i + 1) = confirmed[i + 1]
      BY <1>1, <1>2, <2>2, <3>3 DEF CardBlock
    <3> QED
      BY <2>2, <3>1, <3>2, <3>4 DEF Programmed
  <2>3. CASE b # i
    <3>1. b < i
      BY <1>1, <1>2, <2>1, <2>3
    <3>2. flash[b] = confirmed[b + 1]
      BY <1>2, <3>1 DEF Holds
    <3>3. PICK v : flash' = [flash EXCEPT ![i] = v]
      OBVIOUS
    <3> QED
      BY <1>1, <2>1, <2>3, <3>2, <3>3
  <2> QED
    BY <2>2, <2>3
<1> QED
  BY <1>2 DEF Holds

\* Each block of the card is programmed into an erased block.
LEMMA SurvivalProgram ==
  ASSUME UpdateInv, UpdateInv', SurvivalInv, Program
  PROVE  SurvivalInv'
<1>1. pc = "program" /\ ~ protected /\ UNCHANGED <<card, ready, fw_header, crcval, retries, confirmed>>
  BY DEF Program, SurvivalInv, Usable
<1>2. /\ i \in Nat /\ UserOffset \in Nat /\ FlashBlocks \in Nat /\ VectorLen \in Nat
      /\ UserOffset <= FlashBlocks /\ FlashBlocks <= VectorLen
  BY FlashAssumption DEF UpdateInv, TypeOK
<1>3. ASSUME UNCHANGED <<flash, hurt>>, i >= UserOffset, i' >= UserOffset,
             pc' \in {"program", "hung", "verify"}, pc' = "program" => ~ protected', pc' = "verify" => protected'
      PROVE  SurvivalInv'
  <2>1. Usable'
    BY <1>1, <1>3 DEF SurvivalInv, Usable
  <2>2. ASSUME Unharmed', ~ hurt'.power PROVE Reading' /\ SameCard' /\ Copied' /\ Counted'
    <3>1. SameCard /\ Counted /\ Copied
      BY <1>3, <2>2 DEF SurvivalInv, Unharmed
    <3>2. Holds(UserOffset)' /\ Holds(i)'
      <4>1. Holds(i)
        BY <1>1, <3>1 DEF Copied
      <4>2. ASSUME NEW b \in 0 .. UserOffset - 1, b < Len(confirmed) PROVE flash[b] = confirmed[b + 1]
        <5>1. b < i
          BY <1>2, <1>3, <4>2
        <5> QED
          BY <4>1, <4>2, <5>1 DEF Holds
      <4> QED
        BY <1>1, <1>3, <4>2 DEF Holds
    <3>3. confirmed' \in CardImage' /\ Len(confirmed') \in 0 .. UserOffset
      BY <1>1, <3>1 DEF Copied, CardImage
    <3>4. Copied'
      BY <1>3, <3>2, <3>3 DEF Copied
    <3> QED
      BY <1>1, <1>3, <3>1, <3>4 DEF Reading, SameCard, Counted, Updating, Header
  <2> QED
    BY <2>1, <2>2 DEF SurvivalInv
<1>4. CASE /\ i < FlashBlocks
           /\ ready
           /\ flash' = [flash EXCEPT ![i] = IF protected THEN @ ELSE Programmed(@, CardBlock(i + 1))]
           /\ i' = i + 1
           /\ UNCHANGED <<pc, protected, retval, faults, hurt>>
  <2>1. Usable'
    BY <1>1, <1>4 DEF SurvivalInv, Usable
  <2>2. ASSUME Unharmed', ~ hurt'.power PROVE Reading' /\ SameCard' /\ Copied' /\ Counted'
    <3>1. SameCard /\ Counted /\ Copied
      BY <1>4, <2>2 DEF SurvivalInv, Unharmed
    <3>2. card \in Cards /\ card.hdr = "ok" /\ confirmed = card.data
      BY <1>1, <3>1 DEF SameCard, Updating
    <3>3. Holds(i)'
      BY <1>1, <1>4, <3>1, <3>2, HoldsMore DEF Copied
    <3>4. Copied'
      BY <1>1, <1>4, <3>1, <3>3 DEF Copied, CardImage
    <3> QED
      BY <1>1, <1>4, <3>1, <3>4 DEF Reading, SameCard, Counted, Updating, Header
  <2> QED
    BY <2>1, <2>2 DEF SurvivalInv
<1>5. CASE hurt' = [hurt EXCEPT !.flash = TRUE] /\ UNCHANGED <<pc, protected>>
  <2>1. hurt' = [reads |-> hurt.reads, flash |-> TRUE, card |-> hurt.card, power |-> hurt.power]
    BY <1>5 DEF SurvivalInv, Usable
  <2>2. Usable' /\ ~ Unharmed'
    BY <1>1, <1>5, <2>1 DEF SurvivalInv, Usable, Unharmed
  <2> QED
    BY <2>2 DEF SurvivalInv
<1>6. CASE /\ FlashBlocks <= i /\ i < VectorLen
           /\ i' = i + 1
           /\ pc' \in {"program", "hung"}
           /\ UNCHANGED <<flash, protected, retval, faults, hurt>>
  <2>1. i >= UserOffset /\ i' >= UserOffset
    BY <1>2, <1>6
  <2> QED
    BY <1>1, <1>3, <1>6, <2>1
<1>7. CASE ReadFails /\ retval' = -1 /\ pc' = "failure" /\ UNCHANGED <<flash, protected, i>>
  <2>1. Usable'
    BY <1>1, <1>7, FailedRead DEF SurvivalInv, Usable
  <2>2. ASSUME Unharmed', ~ hurt'.power PROVE Reading' /\ SameCard' /\ Copied' /\ Counted'
    <3>1. Unharmed /\ ~ hurt.power
      BY <1>7, <2>2, FailedRead DEF Unharmed
    <3>2. SameCard /\ Counted
      BY <3>1 DEF SurvivalInv
    <3>3. ready /\ hurt.reads = FW_UPDATE_RETRIES - retries
      BY <1>1, <3>2 DEF SameCard, Counted, Updating
    <3>4. hurt'.reads = FW_UPDATE_RETRIES - retries' + 1
      BY <1>1, <1>7, <3>3, FailedRead
    <3>5. Counted'
      BY <1>7, <3>4 DEF Counted
    <3> QED
      BY <1>1, <1>7, <3>2, <3>5 DEF Reading, SameCard, Copied, Updating, Header
  <2> QED
    BY <2>1, <2>2 DEF SurvivalInv
<1>8. CASE i >= VectorLen /\ pc' = "verify" /\ protected' = TRUE /\ UNCHANGED <<flash, i, retval, faults, hurt>>
  <2>1. i >= UserOffset /\ i' >= UserOffset
    BY <1>2, <1>8
  <2> QED
    BY <1>1, <1>3, <1>8, <2>1
<1> QED
  BY <1>4, <1>5, <1>6, <1>7, <1>8, Zenon DEF Program

\* Whatever the verdict, what was copied undisturbed starts the device.
LEMMA SurvivalVerify ==
  ASSUME UpdateInv, UpdateInv', SurvivalInv, Verify
  PROVE  SurvivalInv'
<1>1. /\ pc = "verify" /\ pc' \in {"updated", "hung", "failure"}
      /\ pc' = "failure" => retval' = VERIFY_ERROR
      /\ UNCHANGED <<flash, protected, card, ready, fw_header, crcval, retries, confirmed, hurt>>
  BY DEF Verify, env
<1>2. Usable'
  BY <1>1 DEF SurvivalInv, Usable
<1>3. ASSUME Unharmed', ~ hurt'.power PROVE Reading' /\ SameCard' /\ Copied' /\ Counted'
  <2>1. SameCard /\ Counted /\ Copied
    BY <1>1, <1>3 DEF SurvivalInv, Unharmed
  <2>2. Starts'
    BY <1>1, <2>1, GoodStarts, StartsKept DEF Copied
  <2>3. Copied'
    BY <1>1, <2>1 DEF Copied, Holds, CardImage
  <2>4. Counted'
    BY <1>1, <2>1, <2>2, FlashAssumption DEF Counted
  <2> QED
    BY <1>1, <2>1, <2>3, <2>4 DEF Reading, SameCard, Updating, Header
<1> QED
  BY <1>2, <1>3 DEF SurvivalInv

\* A failed read takes a retry, or leaves none; a verdict takes none.
LEMMA SurvivalFailure ==
  ASSUME UpdateInv, UpdateInv', SurvivalInv, Failure
  PROVE  SurvivalInv'
<1>1. /\ pc = "failure" /\ pc' \in {"erase", "reset"}
      /\ UNCHANGED <<flash, protected, card, ready, fw_header, crcval, confirmed, hurt>>
  BY DEF Failure, env
<1>2. Usable'
  BY <1>1 DEF SurvivalInv, Usable
<1>3. ASSUME Unharmed', ~ hurt'.power PROVE Reading' /\ SameCard' /\ Copied' /\ Counted'
  <2>1. SameCard /\ Counted
    BY <1>1, <1>3 DEF SurvivalInv, Unharmed
  <2>2. retries \in Nat /\ FW_UPDATE_RETRIES \in Nat
    BY FlashAssumption DEF UpdateInv, TypeOK
  <2>3. Reading' /\ SameCard' /\ Copied'
    BY <1>1, <2>1 DEF Reading, SameCard, Copied, Updating, Header
  <2>4. CASE retval = -1 /\ hurt.reads = FW_UPDATE_RETRIES - retries + 1 /\ retries > 0
    <3>1. pc' = "erase" /\ retries' = retries - 1
      BY <2>4 DEF Failure
    <3>2. hurt'.reads = FW_UPDATE_RETRIES - retries'
      BY <1>1, <2>2, <2>4, <3>1
    <3> QED
      BY <2>3, <3>1, <3>2 DEF Counted
  <2>5. CASE retval = -1 /\ hurt.reads = FW_UPDATE_RETRIES - retries + 1 /\ ~ (retries > 0)
    <3>1. pc' = "reset"
      BY <2>5 DEF Failure
    <3>2. hurt'.reads > FW_UPDATE_RETRIES
      BY <1>1, <2>2, <2>5
    <3> QED
      BY <2>3, <3>1, <3>2 DEF Counted
  <2>6. CASE retval \in Nat /\ Starts
    <3>1. pc' = "reset"
      BY <2>6 DEF Failure
    <3>2. Starts'
      BY <1>1, <2>6, StartsKept
    <3> QED
      BY <2>3, <3>1, <3>2 DEF Counted
  <2> QED
    BY <1>1, <2>1, <2>4, <2>5, <2>6 DEF Counted
<1> QED
  BY <1>2, <1>3 DEF SurvivalInv

\* The device restarts from what was copied, or after too many reads.
LEMMA SurvivalReset ==
  ASSUME UpdateInv, SurvivalInv, Reset
  PROVE  SurvivalInv'
<1>1. pc \in {"updated", "reset"} /\ Boot /\ UNCHANGED <<flash, protected, card, fw_header, confirmed, hurt>>
  BY DEF Reset, env, locals
<1>2. pc' = IF Starts THEN "run" ELSE "dead"
  BY <1>1 DEF Boot
<1>3. Usable'
  BY <1>1, <1>2, StartsKept DEF SurvivalInv, Usable
<1>4. ASSUME Unharmed', ~ hurt'.power PROVE Reading' /\ SameCard' /\ Copied' /\ Counted'
  <2>1. Counted /\ Copied
    BY <1>1, <1>4 DEF SurvivalInv, Unharmed
  <2>2. pc = "updated" => Starts
    BY <2>1, GoodStarts DEF Copied
  <2>3. pc = "reset" => hurt.reads > FW_UPDATE_RETRIES \/ Starts
    BY <2>1 DEF Counted
  <2> QED
    BY <1>1, <1>2, <2>2, <2>3 DEF Reading, SameCard, Copied, Counted, Updating
<1> QED
  BY <1>3, <1>4 DEF SurvivalInv

\* Touching the card or cutting the power is remembered.
LEMMA SurvivalUser ==
  ASSUME SurvivalInv, SwapCard \/ PowerCut \/ PowerOn \/ UNCHANGED vars
  PROVE  SurvivalInv'
<1>1. CASE SwapCard
  <2>1. hurt' = [hurt EXCEPT !.card = TRUE] /\ UNCHANGED <<pc, flash, protected>>
    BY <1>1 DEF SwapCard
  <2>2. hurt' = [reads |-> hurt.reads, flash |-> hurt.flash, card |-> TRUE, power |-> hurt.power]
    BY <2>1 DEF SurvivalInv, Usable
  <2>3. Usable' /\ ~ Unharmed'
    BY <2>1, <2>2, StartsKept DEF SurvivalInv, Usable, Unharmed
  <2> QED
    BY <2>3 DEF SurvivalInv
<1>2. CASE PowerCut
  <2>1. hurt' = [hurt EXCEPT !.power = TRUE] /\ pc' = "off"
    BY <1>2 DEF PowerCut
  <2>2. hurt' = [reads |-> hurt.reads, flash |-> hurt.flash, card |-> hurt.card, power |-> TRUE]
    BY <2>1 DEF SurvivalInv, Usable
  <2>3. Usable' /\ hurt'.power
    BY <2>1, <2>2 DEF SurvivalInv, Usable
  <2> QED
    BY <2>3 DEF SurvivalInv
<1>3. CASE PowerOn
  <2>1. pc = "off" /\ pc' = (IF Starts THEN "run" ELSE "dead") /\ UNCHANGED <<flash, protected, hurt>>
    BY <1>3 DEF PowerOn, Boot
  <2>2. Usable' /\ hurt'.power
    BY <2>1, StartsKept DEF SurvivalInv, Usable
  <2> QED
    BY <2>2 DEF SurvivalInv
<1>4. CASE UNCHANGED vars
  <2>1. Starts' = Starts /\ CardImage' = CardImage
    BY <1>4, StartsKept DEF vars, CardImage
  <2>2. Holds(i)' = Holds(i) /\ Holds(UserOffset)' = Holds(UserOffset)
    BY <1>4 DEF vars, locals, Holds
  <2>3. Usable' = Usable
    BY <1>4, <2>1 DEF vars, Usable
  <2> QED
    BY <1>4, <2>1, <2>2, <2>3 DEF vars, env, locals, SurvivalInv, Unharmed, Reading, SameCard, Copied, Counted, Updating, Header
<1> QED
  BY <1>1, <1>2, <1>3, <1>4

(* Both invariants hold throughout.                                           *)
THEOREM Survival == Spec => [](UpdateInv /\ SurvivalInv)
<1>1. UpdateInv /\ UpdateInv' /\ SurvivalInv /\ [Next]_vars => SurvivalInv'
  BY SurvivalFwUpdate, SurvivalStart, SurvivalErase, SurvivalProgram, SurvivalVerify, SurvivalFailure,
     SurvivalReset, SurvivalUser DEF Next, Updater
<1> QED
  BY <1>1, SurvivalInit, Invariance, PTL DEF Spec

(* When the updater's copy has come to its end, or hangs behind the flash,    *)
(* the flash holds the confirmed image, unless the card was touched or the    *)
(* flash failed (updater/main.c:84-100).                                      *)
THEOREM CopyIsConfirmed == Spec => []ImageCopied
<1>1. ASSUME SurvivalInv PROVE ImageCopied
  <2>1. SUFFICES ASSUME pc \in {"verify", "hung"}, ~ hurt.card, ~ hurt.flash
                 PROVE  Content(Len(confirmed)) = confirmed /\ (pc = "verify" => protected)
    BY DEF ImageCopied
  <2>2. Copied
    BY <1>1, <2>1 DEF SurvivalInv, Usable, Unharmed
  <2>3. Content(Len(confirmed)) = confirmed
    BY <2>1, <2>2, GoodStarts DEF Copied
  <2> QED
    BY <1>1, <2>3 DEF SurvivalInv, Usable
<1> QED
  BY <1>1, Survival, PTL

(* An update fails for good only through a power cut, a touched card, a flash *)
(* that fails or more failed reads than there are retries                     *)
(* (updater/main.c:84-142).                                                   *)
THEOREM RetriesSuffice == Spec => []SurvivesRetries
<1>1. SurvivalInv => SurvivesRetries
  BY DEF SurvivalInv, Unharmed, Counted, SurvivesRetries
<1> QED
  BY <1>1, Survival, PTL
================================================================================
