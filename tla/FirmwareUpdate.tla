---------------------------- MODULE FirmwareUpdate ----------------------------
(***************************************************************************)
(* Updating the firmware from an SD card.  fw_update (software/fw/src/     *)
(* firmware.c) checks the image on the card and asks the user; then it     *)
(* copies the updater out of flash and jumps to it, with the address of    *)
(* the header in a0.  The updater's startup code (crt0_init.S) clears a0   *)
(* and loads it with the address of its trap vector, so that the updater   *)
(* (software/updater/main.c) takes length and checksum from there: it      *)
(* erases everything below the user data, programs what the card holds, to *)
(* the end of the flash and beyond, compares a checksum of that with bytes *)
(* of the vector, and resets the device.                                   *)
(*                                                                         *)
(* Flash and card are divided into blocks.  A checksum is abstracted to    *)
(* the sequence of blocks it is taken over, so that equal checksums mean   *)
(* equal data.  The user may change cards and cut the power at any time,   *)
(* reads of the card may fail and blocks of flash not take their values.   *)
(* Cards are larger than what the updater reads of them.                   *)
(***************************************************************************)
EXTENDS Integers, Sequences

CONSTANTS
  UserOffset,           \* FLASH_USER_OFFSET, in blocks
  FlashBlocks,          \* size of the flash
  Sector,               \* blocks erased together (64 KB)
  VectorLen,            \* what the updater takes for data_len: bytes 18 to 21 of its vector
  UpdaterAt,            \* where images have the updater (create_fw_img)
  FLASH_UPDATER_OFFSET, \* where fw_update takes it from
  OldImage,             \* what the flash holds at first
  Cards,                \* cards the user may insert: [hdr, data_len, data_crc, data, rest]
  MaxFaults,            \* bound: reads of the card and blocks of flash that fail
  MaxSwaps,             \* bound: cards inserted or removed
  PowerCuts,            \* bound: is the power ever cut
  FW_UPDATE_RETRIES,
  VERIFY_ERROR          \* FLASH_VERIFY_ERROR, a positive number

NoCard == [hdr |-> "none"]
NoHeader == [data_len |-> 0, data_crc |-> <<>>]
Header(c) == [data_len |-> c.data_len, data_crc |-> c.data_crc]
Erased == "erased"

\* Images are made by create_fw_img, which fits them below the user data: a
\* header that passes its own checks gives such a length.
ASSUME CardAssumption ==
  \A c \in Cards : c.hdr = "ok" => /\ c.data \in Seq(STRING)
                                  /\ c.data_len \in 0 .. UserOffset /\ c.data_len = Len(c.data)

\* The instructions jal x0, n of the vector make VectorLen 0x6F0000 bytes or more; the
\* flash has 0x200000.
ASSUME FlashAssumption ==
  /\ UserOffset \in Nat /\ FlashBlocks \in Nat /\ Sector \in Nat \ {0}
  /\ UserOffset <= FlashBlocks
  /\ VectorLen \in Nat /\ VectorLen >= FlashBlocks
  /\ \E k \in 0 .. UserOffset : UserOffset = k * Sector \* user data begin a sector
  /\ OldImage \in Seq(STRING) /\ Len(OldImage) = UserOffset
  /\ FW_UPDATE_RETRIES \in Nat /\ VERIFY_ERROR \in Nat \ {0}

VARIABLES
  pc,
  flash,
  protected,  \* the flash's nonvolatile write protection
  card,
  ready,      \* the card answers: it was initialised after it was inserted
  fw_header,  \* what fw_update read
  crcval,     \* its checksum so far
  i,          \* block, in the updater's loops
  retval,
  retries,
  faults, swaps, \* how often a bound was used
  confirmed,  \* history: the data fw_update had read when the user said yes
  hurt        \* history: since the header was read, how many reads failed, and
              \* whether a block of flash failed, the card was touched or the power cut

env == <<card, ready, faults, swaps>>
locals == <<fw_header, crcval, i, retval, retries>>
vars == <<pc, flash, protected, env, locals, confirmed, hurt>>

Block == 0 .. FlashBlocks - 1
Unhurt == [reads |-> 0, flash |-> FALSE, card |-> FALSE, power |-> FALSE]
FirstFlash == [b \in Block |-> IF b < UserOffset THEN OldImage[b + 1] ELSE "user"]

Init ==
  /\ pc = "run"
  /\ flash = FirstFlash
  /\ protected = TRUE
  /\ card = NoCard
  /\ ready = FALSE
  /\ fw_header = NoHeader
  /\ crcval = <<>>
  /\ i = 0
  /\ retval = 0
  /\ retries = 0
  /\ faults = 0 /\ swaps = 0
  /\ confirmed = <<>>
  /\ hurt = Unhurt
--------------------------------------------------------------------------------
(* The card. *)

\* sdcard_check: the card is reset and answers from now on.
CardChecked == card # NoCard

\* A read of the card fails, because it does not answer or for no reason.
ReadFails ==
  \/ ~ ready /\ UNCHANGED <<faults, hurt>>
  \/ /\ ready /\ faults < MaxFaults
     /\ faults' = faults + 1
     /\ hurt' = [hurt EXCEPT !.reads = @ + 1]

\* The card's block n; behind the image it holds something else.
CardBlock(n) == IF n \in DOMAIN card.data THEN card.data[n] ELSE card.rest

\* What is in flash from block 0.
Content(n) == [k \in 1 .. n |-> flash[k - 1]]
--------------------------------------------------------------------------------
(* fw_update, called from the menu.  Whatever goes wrong, it returns.        *)

\* sdcard_check, and the header is read and checked.
ReadHeader ==
  /\ pc = "run"
  /\ ready' = CardChecked
  /\ \/ CardChecked /\ card.hdr = "ok"
        /\ fw_header' = Header(card)
        /\ crcval' = <<>>
        /\ pc' = "validate"
        /\ hurt' = Unhurt
     \/ UNCHANGED <<pc, fw_header, crcval, hurt>> \* no card, a read that fails, or check_fw_header
  /\ UNCHANGED <<flash, protected, card, faults, swaps, i, retval, retries, confirmed>>

ValidateIgnoringErrors == \* mutant
  /\ pc = "validate"
  /\ \/ /\ Len(crcval) < fw_header.data_len
        /\ crcval' = Append(crcval, IF ready THEN CardBlock(Len(crcval) + 1) ELSE "mixed")
        /\ UNCHANGED pc
     \/ /\ Len(crcval) = fw_header.data_len
        /\ pc' = "prompt"
        /\ UNCHANGED crcval
  /\ UNCHANGED <<flash, protected, env, fw_header, i, retval, retries, confirmed, hurt>>

\* sdcard_check_crc: the data are read block by block and compared.
Validate ==
  /\ pc = "validate"
  /\ \/ /\ Len(crcval) < fw_header.data_len
        /\ ready
        /\ crcval' = Append(crcval, CardBlock(Len(crcval) + 1))
        /\ UNCHANGED <<pc, faults, hurt>>
     \/ /\ Len(crcval) < fw_header.data_len
        /\ ReadFails
        /\ pc' = "run"
        /\ UNCHANGED crcval
     \/ /\ Len(crcval) = fw_header.data_len
        /\ pc' = IF crcval = fw_header.data_crc THEN "prompt" ELSE "run"
        /\ UNCHANGED <<crcval, faults, hurt>>
  /\ UNCHANGED <<flash, protected, card, ready, swaps, fw_header, i, retval, retries, confirmed>>

\* "Update? 1=Y, 2=N".  On 1, what is at FLASH_UPDATER_OFFSET is copied to the
\* frame buffer and called, with the header it does not get.
Answer ==
  /\ pc = "prompt"
  /\ \/ /\ pc' = IF FLASH_UPDATER_OFFSET = UpdaterAt THEN "start" ELSE "lost"
        /\ confirmed' = crcval
     \/ /\ pc' = "run"
        /\ UNCHANGED confirmed
  /\ UNCHANGED <<flash, protected, env, locals, hurt>>
--------------------------------------------------------------------------------
(* main of the updater, after its startup code. *)

\* sdcard_init and sdcard_check.  Without a card retval is positive.
Start ==
  /\ pc = "start"
  /\ ready' = CardChecked
  /\ \/ /\ CardChecked
        /\ retval' = 0
        /\ retries' = FW_UPDATE_RETRIES
        /\ pc' = "erase"
     \/ /\ ~ CardChecked
        /\ retval' = 99 \* SD_NOINIT
        /\ pc' = "failure"
        /\ UNCHANGED retries
  /\ i' = 0
  /\ UNCHANGED <<flash, protected, card, faults, swaps, fw_header, crcval, confirmed, hurt>>

EraseOneShort == \* mutant
  /\ pc = "erase"
  /\ protected' = FALSE
  /\ flash' = [b \in Block |-> IF b \in i .. i + Sector - 1 THEN Erased ELSE flash[b]]
  /\ IF i + 2 * Sector < UserOffset THEN i' = i + Sector /\ UNCHANGED pc ELSE i' = 0 /\ pc' = "program"
  /\ UNCHANGED <<env, fw_header, crcval, retval, retries, confirmed, hurt>>

\* flash_write_protect(0) and the loop that erases up to the user data.
Erase ==
  /\ pc = "erase"
  /\ protected' = FALSE
  /\ \/ /\ i < UserOffset
        /\ flash' = [b \in Block |-> IF b \in i .. i + Sector - 1 THEN Erased ELSE flash[b]]
        /\ i' = i + Sector
        /\ UNCHANGED pc
     \/ /\ i >= UserOffset
        /\ i' = 0
        /\ pc' = "program"
        /\ UNCHANGED flash
  /\ UNCHANGED <<env, fw_header, crcval, retval, retries, confirmed, hurt>>

\* Programming clears bits: only an erased block takes any value.
Programmed(old, new) == IF old \in {Erased, new} THEN new ELSE "mixed"

\* The loop that copies the card, to VectorLen, and flash_write_protect(1).  A write
\* is not checked.  What it does behind the flash is unknown: nothing that the model
\* has, or the bus never answers.
Program ==
  /\ pc = "program"
  /\ \/ /\ i < FlashBlocks
        /\ ready
        /\ flash' = [flash EXCEPT ![i] = IF protected THEN @ ELSE Programmed(@, CardBlock(i + 1))]
        /\ i' = i + 1
        /\ UNCHANGED <<pc, protected, retval, faults, hurt>>
     \/ /\ i < FlashBlocks
        /\ ready /\ faults < MaxFaults
        /\ \E v \in {flash[i], "mixed"} : flash' = [flash EXCEPT ![i] = v]
        /\ i' = i + 1
        /\ faults' = faults + 1
        /\ hurt' = [hurt EXCEPT !.flash = TRUE]
        /\ UNCHANGED <<pc, protected, retval>>
     \/ /\ FlashBlocks <= i /\ i < VectorLen
        /\ ready
        /\ i' = i + 1
        /\ pc' \in {"program", "hung"}
        /\ UNCHANGED <<flash, protected, retval, faults, hurt>>
     \/ /\ i < VectorLen
        /\ ReadFails
        /\ retval' = -1
        /\ pc' = "failure"
        /\ UNCHANGED <<flash, protected, i>>
     \/ /\ i >= VectorLen
        /\ protected' = TRUE
        /\ pc' = "verify"
        /\ UNCHANGED <<flash, i, retval, faults, hurt>>
  /\ UNCHANGED <<card, ready, swaps, fw_header, crcval, retries, confirmed>>

\* The checksum of VectorLen bytes, most of them not in flash, against bytes of the
\* vector: it may come out either way.
Verify ==
  /\ pc = "verify"
  /\ \/ /\ pc' \in {"updated", "hung"}
        /\ UNCHANGED retval
     \/ /\ retval' = VERIFY_ERROR
        /\ pc' = "failure"
  /\ UNCHANGED <<flash, protected, env, fw_header, crcval, i, retries, confirmed, hurt>>

FailureRetriesLess == \* mutant
  /\ pc = "failure"
  /\ \/ /\ retval < 0 /\ retries > 1
        /\ retries' = retries - 1
        /\ pc' = "erase"
     \/ /\ ~ (retval < 0 /\ retries > 1)
        /\ pc' = "reset"
        /\ UNCHANGED retries
  /\ i' = 0
  /\ UNCHANGED <<flash, protected, env, fw_header, crcval, retval, confirmed, hurt>>

FailureRetriesForever == \* mutant
  /\ pc = "failure"
  /\ \/ retval < 0 /\ pc' = "erase"
     \/ retval >= 0 /\ pc' = "reset"
  /\ i' = 0
  /\ UNCHANGED <<flash, protected, env, fw_header, crcval, retval, retries, confirmed, hurt>>

\* The message, and another try "if critical".
Failure ==
  /\ pc = "failure"
  /\ \/ /\ retval < 0 /\ retries > 0
        /\ retries' = retries - 1
        /\ pc' = "erase"
     \/ /\ ~ (retval < 0 /\ retries > 0)
        /\ pc' = "reset"
        /\ UNCHANGED retries
  /\ i' = 0
  /\ UNCHANGED <<flash, protected, env, fw_header, crcval, retval, confirmed, hurt>>

\* The images the device starts with: the first and those of the cards.
CardImage == {c.data : c \in {d \in Cards : d.hdr = "ok" /\ d.data = d.data_crc}}
Image == {OldImage} \union CardImage
Starts == \E m \in Image : Content(Len(m)) = m

\* FPGA and firmware come from flash: the device starts only from an image.
Boot == pc' = IF Starts THEN "run" ELSE "dead"

\* hw_reset.
Reset ==
  /\ pc \in {"updated", "reset"}
  /\ Boot
  /\ UNCHANGED <<flash, protected, env, locals, confirmed, hurt>>
--------------------------------------------------------------------------------
(* The user and the power. *)

SwapCard ==
  /\ swaps < MaxSwaps
  /\ swaps' = swaps + 1
  /\ card' \in (Cards \union {NoCard}) \ {card}
  /\ ready' = FALSE
  /\ hurt' = [hurt EXCEPT !.card = TRUE]
  /\ UNCHANGED <<pc, flash, protected, faults, locals, confirmed>>

PowerCut ==
  /\ PowerCuts
  /\ pc # "off"
  /\ pc' = "off"
  /\ ready' = FALSE
  /\ hurt' = [hurt EXCEPT !.power = TRUE]
  /\ UNCHANGED <<flash, protected, card, faults, swaps, locals, confirmed>>

PowerOn ==
  /\ pc = "off"
  /\ Boot
  /\ UNCHANGED <<flash, protected, env, locals, confirmed, hurt>>

Updater == Start \/ Erase \/ Program \/ Verify \/ Failure \/ Reset
Next == ReadHeader \/ Validate \/ Answer \/ Updater \/ SwapCard \/ PowerCut \/ PowerOn

\* The updater runs by itself; nobody has to answer a prompt or switch on.
Spec == Init /\ [][Next]_vars /\ WF_vars(Updater)
--------------------------------------------------------------------------------
(* Properties. *)

Contents == {OldImage[b] : b \in DOMAIN OldImage} \union {"user", "mixed", Erased}
            \union {c.rest : c \in Cards} \union UNION {{c.data[b] : b \in DOMAIN c.data} : c \in Cards}

\* The state stays within its types (updater/main.c:84-98).
TypeOK ==
  /\ pc \in {"run", "validate", "prompt", "lost", "start", "erase", "program", "verify",
             "updated", "failure", "reset", "hung", "dead", "off"}
  /\ flash \in [Block -> Contents]
  /\ protected \in BOOLEAN /\ ready \in BOOLEAN
  /\ card \in Cards \union {NoCard}
  /\ i \in 0 .. VectorLen
  /\ retries \in 0 .. FW_UPDATE_RETRIES
  /\ Len(crcval) <= fw_header.data_len

\* The flash is touched only after the user confirmed an image that one card held
\* whole, that was read to its end and matched its header, whatever was inserted
\* while it was read (firmware.c:84-121).  What is programmed then is read again.
TouchedOnlyIfConfirmed ==
  pc \in {"erase", "program", "verify"} \/ flash # FirstFlash => confirmed \in CardImage

\* When the copy has come to its end, or hangs behind the flash, the flash holds the
\* image the user confirmed, after however many tries, unless the card was touched or
\* the flash failed: it is erased as far as images reach, and copied from their first
\* block to beyond their last (updater/main.c:84-100).
ImageCopied ==
  pc \in {"verify", "hung"} /\ ~ hurt.card /\ ~ hurt.flash =>
    /\ Content(Len(confirmed)) = confirmed
    /\ pc = "verify" => protected

\* An update fails for good only through a power cut, a touched card, a flash that
\* fails or more failed reads than there are retries (updater/main.c:135-142): not
\* because a checksum is compared with bytes of the vector.
SurvivesRetries ==
  pc = "dead" => hurt.power \/ hurt.card \/ hurt.flash \/ hurt.reads > FW_UPDATE_RETRIES

\* An update ends: the retries are used up, the device restarts, the power is cut, or
\* the bus hangs on a write or read behind the flash.
UpdateEnds ==
  pc \in {"start", "erase", "program", "verify", "updated", "failure", "reset"}
    ~> pc \in {"run", "dead", "off", "hung"}

\* "FLASH_USER_OFFSET" (updater/main.c:84): an update leaves the user data alone.  It
\* does not: the copy does not stop there.
UserDataKept == \A b \in UserOffset .. FlashBlocks - 1 : flash[b] = "user"

\* "copy the updater into the frame buffer then jump to it" (firmware.c:129):
\* what is jumped to is the updater.
JumpsToUpdater == pc # "lost"
================================================================================
