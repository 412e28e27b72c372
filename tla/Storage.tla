-------------------------------- MODULE Storage --------------------------------
(***************************************************************************)
(* Settings and profiles in flash (software/fw/src/userdata.c, flash.c)    *)
(* and the places of the main loop that load and save them.  Every entry   *)
(* is a sector of its own: saving unprotects the flash, erases the sector, *)
(* programs it word by word and protects the flash again.  The power may   *)
(* be cut between any two of these.                                        *)
(*                                                                         *)
(* An entry is the sequence of cells programmed so far; what lies behind   *)
(* reads as Erased (all ones).  A cell stands for the words of one field:  *)
(* the header (magic, type, version), the length, and the data.  options   *)
(* stands for the settings loaded without a check (search, OSD, key map),  *)
(* set for the configuration avconfig_t but for its link to an input.      *)
(***************************************************************************)
EXTENDS Integers, Sequences

CONSTANTS
  AV_LAST,     \* number of inputs, counting the test pattern; also "no input"
  MAX_PROFILE, \* last profile
  Erased,      \* all ones, in a byte
  Options, Sets, Links, Tables, \* bounds: what the user chooses from
  Stored,      \* what a preset table reads back as once saved
  DefInputs,   \* bound: "Initial input" settings the user chooses from
  ByHand, Found,   \* bounds: inputs selected by hand, and by the search
  Cards,       \* contents of SD cards: entries in raw format
  MaxOps       \* bound: what the user does, counting power cuts

AV_TESTPAT == 0
Input == 0 .. AV_LAST - 1
Profile == 0 .. MAX_PROFILE
MAX_USERDATA_ENTRY == MAX_PROFILE + 1 \* the initial configuration
Entry == 0 .. MAX_USERDATA_ENTRY
UDE_INITCFG == 0 \* stands for the header of an entry of this type
UDE_PROFILE == 1
Length == 0      \* stands for the length an entry of its type has

\* An entry that has been saved whole, or with the first block of a profile only.
Whole(e) ==
  \/ Len(e) = 0
  \/ Len(e) = AV_LAST + 6 /\ e[1] = UDE_INITCFG
  \/ Len(e) \in {4, 5} /\ e[1] = UDE_PROFILE /\ e[4] <= AV_LAST

\* An entry that, loaded, gives tables there are.
Loadable(e) == Len(e) >= 5 /\ e[1] = UDE_PROFILE => e[5] \in DOMAIN Stored

ASSUME SizeAssumption ==
  /\ AV_LAST \in Nat \ {0} /\ MAX_PROFILE \in Nat
  /\ Erased \in Nat /\ Erased > AV_LAST /\ Erased > MAX_PROFILE
  /\ Links \subseteq 1 .. AV_LAST /\ DefInputs \subseteq 0 .. AV_LAST
  /\ ByHand \subseteq Input /\ Found \subseteq Input
  /\ Options \subseteq Nat /\ Sets \subseteq Nat

ASSUME StoredAssumption ==
  /\ Tables \cup {0, Erased} \subseteq DOMAIN Stored
  /\ DOMAIN Stored \subseteq Nat
  /\ Stored \in [DOMAIN Stored -> DOMAIN Stored]

\* Cards hold what this program exported.
ASSUME CardAssumption ==
  Cards \subseteq [Entry -> {e \in Seq(Nat) : Whole(e) /\ Loadable(e)}]

VARIABLES
  pc,
  ram,       \* the settings in force
  flash,     \* entry -> cells
  protected, \* the flash's write protection, which is nonvolatile
  job,       \* the entry being written: [entry, words, then]
  n,         \* the entry import or export has come to
  card,
  ops,       \* how far MaxOps is used up
  kept,      \* history: the settings last saved in each entry, while it is whole
  cut        \* history: the power was cut while an entry was written

vars == <<pc, ram, flash, protected, job, n, card, ops, kept, cut>>

NoJob == [entry |-> 0, words |-> <<>>, then |-> "main"]
Unknown == [known |-> FALSE]

\* Variables as the program starts with them, and the default configuration.
DefaultRam ==
  [target_input |-> AV_TESTPAT, avinput |-> AV_TESTPAT, def_input |-> 0,
   input_profiles |-> [i \in Input |-> 0], profile_sel |-> 0, profile_link |-> 0,
   options |-> 0, set |-> 0, link |-> AV_LAST, table |-> 0]
--------------------------------------------------------------------------------
(* Entries. *)

Cell(e, k) == IF k <= Len(e) THEN e[k] ELSE Erased

\* Header and length are those of the type: all a load checks.
Valid(e, type) == Len(e) >= 2 /\ e[1] = type

ImageWithoutLink(r) == \* mutant
  <<UDE_INITCFG, Length>> \o [k \in 1 .. AV_LAST |-> r.input_profiles[k - 1]]
    \o <<0, r.target_input, r.def_input, r.options>>

\* userdata_save_initconfig
InitImage(r) ==
  <<UDE_INITCFG, Length>> \o [k \in 1 .. AV_LAST |-> r.input_profiles[k - 1]]
    \o <<r.profile_link, r.target_input, r.def_input, r.options>>

\* userdata_save_profile: of the table, one byte goes into each word.
ProfileImage(r) == <<UDE_PROFILE, Length, r.set, r.link, Stored[r.table]>>

LoadInitOffByOne(r, e) == \* mutant
  IF ~ Valid(e, UDE_INITCFG) THEN r
  ELSE LET last == Cell(e, AV_LAST + 4)
           def == Cell(e, AV_LAST + 5)
       IN  [r EXCEPT !.def_input = def,
                     !.target_input = IF def <= AV_LAST THEN def ELSE IF last < AV_LAST THEN last ELSE @]

\* userdata_load_initconfig
LoadInit(r, e) ==
  IF ~ Valid(e, UDE_INITCFG) THEN r
  ELSE LET linked == [i \in Input |-> IF Cell(e, 3 + i) <= MAX_PROFILE THEN Cell(e, 3 + i) ELSE r.input_profiles[i]]
           last == Cell(e, AV_LAST + 4)
           def == Cell(e, AV_LAST + 5)
       IN  [r EXCEPT !.input_profiles = linked,
                     !.profile_link = Cell(e, AV_LAST + 3),
                     !.def_input = def,
                     !.target_input = IF def < AV_LAST THEN def ELSE IF last < AV_LAST THEN last ELSE @,
                     !.options = Cell(e, AV_LAST + 6),
                     !.profile_sel = linked[AV_TESTPAT]]

\* userdata_load_profile
LoadSlot(r, e) ==
  IF ~ Valid(e, UDE_PROFILE) THEN r
  ELSE [r EXCEPT !.set = Cell(e, 3), !.link = Cell(e, 4), !.table = Cell(e, 5)]

\* The current profile is the one r says, loaded if it can be.
Select(r, p) == LoadSlot([r EXCEPT !.profile_sel = p], flash[p])

\* main: the profile linked to the input is loaded if it is not the current one.
FollowLink(r) ==
  IF r.profile_link # 0 /\ r.profile_sel # r.input_profiles[r.target_input]
  THEN Select(r, r.input_profiles[r.target_input]) ELSE r

\* What the inputs' profiles are recorded under.
Key(r, input) == IF r.profile_link # 0 THEN input ELSE AV_TESTPAT

\* Input and profile numbers are indices of arrays.
ProfilesInBounds(r) == r.profile_sel \in Profile /\ r.input_profiles \in [Input -> Profile]
InBounds(r) == r.target_input \in Input /\ r.avinput \in Input /\ ProfilesInBounds(r)
--------------------------------------------------------------------------------
(* Writing an entry. *)

Save(entry, words, then) ==
  /\ job' = [entry |-> entry, words |-> words, then |-> then]
  /\ pc' = "erase"

SaveInit(r) == Save(MAX_USERDATA_ENTRY, InitImage(r), "main")

\* flash_write_protect(0), flash_erase_64k
Erase ==
  /\ pc = "erase"
  /\ protected' = FALSE
  /\ flash' = [flash EXCEPT ![job.entry] = <<>>]
  /\ kept' = [kept EXCEPT ![job.entry] = Unknown]
  /\ pc' = "write"
  /\ UNCHANGED <<ram, job, n, card, cut, ops>>

WriteGivesUp == \* mutant
  /\ pc = "write"
  /\ Len(flash[job.entry]) < Len(job.words)
  /\ \/ flash' = [flash EXCEPT ![job.entry] = Append(@, job.words[Len(@) + 1])] /\ UNCHANGED <<pc, job, n>>
     \/ job.then = "import" /\ pc' = "main" /\ job' = NoJob /\ n' = 0 /\ UNCHANGED flash
  /\ UNCHANGED <<ram, protected, card, ops, kept, cut>>

\* The next field is programmed.
Write ==
  /\ pc = "write"
  /\ Len(flash[job.entry]) < Len(job.words)
  /\ flash' = [flash EXCEPT ![job.entry] = Append(@, job.words[Len(@) + 1])]
  /\ UNCHANGED <<pc, ram, protected, job, n, card, kept, cut, ops>>

\* What an entry holds of r.
Kept(entry, r) ==
  IF entry = MAX_USERDATA_ENTRY
  THEN [known |-> TRUE, input_profiles |-> r.input_profiles, profile_link |-> r.profile_link,
        target_input |-> r.target_input, def_input |-> r.def_input, options |-> r.options]
  ELSE [known |-> TRUE, set |-> r.set, link |-> r.link, table |-> r.table]

FinishUnprotected == \* mutant
  /\ pc = "write"
  /\ Len(flash[job.entry]) = Len(job.words)
  /\ kept' = [kept EXCEPT ![job.entry] = Kept(job.entry, ram)]
  /\ pc' = "main"
  /\ job' = NoJob
  /\ UNCHANGED <<ram, flash, protected, n, card, cut, ops>>

\* flash_write_protect(1), and what the caller does next: save_profile records
\* the profile and saves the initial configuration, import goes on.
Finish ==
  /\ pc = "write"
  /\ Len(flash[job.entry]) = Len(job.words)
  /\ protected' = TRUE
  /\ \/ /\ job.then \in {"main", "lost"}
        /\ kept' = [kept EXCEPT ![job.entry] = Kept(job.entry, ram)]
        /\ pc' = job.then /\ job' = NoJob
        /\ UNCHANGED <<ram, n>>
     \/ /\ job.then = "saved"
        /\ kept' = [kept EXCEPT ![job.entry] = Kept(job.entry, ram)]
        /\ ram' = [ram EXCEPT !.profile_sel = job.entry, !.input_profiles[Key(ram, ram.avinput)] = job.entry]
        /\ SaveInit(ram')
        /\ UNCHANGED n
     \/ /\ job.then = "import"
        /\ pc' = "import" /\ job' = NoJob
        /\ n' = n + 1
        /\ UNCHANGED <<ram, kept>>
  /\ UNCHANGED <<flash, card, cut, ops>>
--------------------------------------------------------------------------------
(* The main loop, as far as it loads and saves. *)

\* The user does something.
Act == ops < MaxOps /\ ops' = ops + 1
Idle == pc = "main" /\ Act
InMain == UNCHANGED <<flash, protected, n, card, kept, cut>>

\* The menu changes a setting, which is not saved.
ChangeSetting ==
  /\ Idle
  /\ \/ \E o \in Options : ram' = [ram EXCEPT !.options = o]
     \/ \E l \in {0, 1} : ram' = [ram EXCEPT !.profile_link = l]
     \/ \E d \in DefInputs : ram' = [ram EXCEPT !.def_input = d]
     \/ \E s \in Sets, l \in Links : ram' = [ram EXCEPT !.set = s, !.link = l]
     \/ \E t \in Tables : ram' = [ram EXCEPT !.table = t]
  /\ UNCHANGED <<pc, job>>
  /\ InMain

\* controls_setup learns a remote and saves its keys.
LearnKeys(o) ==
  /\ Idle
  /\ ram' = [ram EXCEPT !.options = o]
  /\ SaveInit(ram')
  /\ InMain

\* "record last input if it was selected manually"
SelectInput(i) ==
  /\ Idle
  /\ i # ram.avinput
  /\ ram' = [FollowLink([ram EXCEPT !.target_input = i]) EXCEPT !.avinput = i]
  /\ IF ram'.def_input = AV_LAST THEN SaveInit(ram') ELSE UNCHANGED <<pc, job>>
  /\ InMain

\* The search comes to another input; its profile is loaded when it has a signal.
FindInput(i) ==
  /\ Idle
  /\ ram.avinput # AV_TESTPAT
  /\ LET there == [ram EXCEPT !.target_input = i, !.avinput = i]
     IN  ram' \in {there, FollowLink(there)}
  /\ UNCHANGED <<pc, job>>
  /\ InMain

\* load_profile, and the switch to the input.  A link that is no input is followed
\* like any other.  With profile_link the profile is then recorded behind the end
\* of the array, over something else; without, the next pass looks the input up
\* behind the end of others.  What the program does from there on is not known.
LoadProfile(p) ==
  /\ Idle
  /\ Valid(flash[p], UDE_PROFILE)
  /\ LET r == Select(ram, p)
         target == IF r.link = AV_LAST THEN r.target_input ELSE r.link
         there == [r EXCEPT !.target_input = target]
     IN  \/ /\ target \in Input
            /\ ram' = [there EXCEPT !.avinput = target, !.input_profiles[Key(r, target)] = p]
            /\ SaveInit(ram')
         \/ /\ target \notin Input /\ r.profile_link = 0
            /\ ram' = [there EXCEPT !.input_profiles[AV_TESTPAT] = p]
            /\ Save(MAX_USERDATA_ENTRY, InitImage(ram'), "lost")
         \/ /\ target \notin Input /\ r.profile_link # 0
            /\ ram' = there
            /\ pc' = "lost" /\ UNCHANGED job
  /\ InMain

\* save_profile
SaveProfile(p) ==
  /\ Idle
  /\ Save(p, ProfileImage(ram), "saved")
  /\ UNCHANGED ram
  /\ InMain
--------------------------------------------------------------------------------
(* Import and export. *)

StartImport ==
  /\ Idle
  /\ pc' = "import"
  /\ n' = 0
  /\ UNCHANGED <<ram, flash, protected, job, card, kept, cut>>

\* Only a profile is longer than a block; its table is in the blocks behind.
FirstBlock(e) == IF Len(e) > 4 /\ e[1] = UDE_PROFILE THEN SubSeq(e, 1, 4) ELSE e

\* What is programmed for an entry of the card: the data are read again, block by
\* block, and a read that fails goes unnoticed, with what the buffer held before
\* in its place: nothing with a header, or a table that is none.
Copies(e) == {e, <<>>, FirstBlock(e)}

\* userdata_import, for one entry; a header that cannot be read ends it.
Import ==
  /\ pc = "import"
  /\ n <= MAX_USERDATA_ENTRY
  /\ \/ /\ Len(card[n]) >= 1
        /\ \E words \in Copies(card[n]) : Save(n, words, "import")
        /\ UNCHANGED n
     \/ Len(card[n]) = 0 /\ n' = n + 1 /\ UNCHANGED <<pc, job>>
     \/ pc' = "main" /\ n' = 0 /\ UNCHANGED job
  /\ UNCHANGED <<ram, flash, protected, card, kept, cut, ops>>

\* What was imported is put in force.
FinishImport ==
  /\ pc = "import"
  /\ n > MAX_USERDATA_ENTRY
  /\ LET r == LoadInit(ram, flash[MAX_USERDATA_ENTRY])
     IN  ram' = [Select(r, r.input_profiles[r.target_input]) EXCEPT !.avinput = r.target_input]
  /\ pc' = "main"
  /\ n' = 0
  /\ UNCHANGED <<flash, protected, job, card, kept, cut, ops>>

\* userdata_export in the raw format, which is the one import reads.
StartExport ==
  /\ Idle
  /\ pc' = "export"
  /\ n' = 0
  /\ UNCHANGED <<ram, flash, protected, job, card, kept, cut>>

\* One entry; a write that fails ends the export in the middle of an entry.
Export ==
  /\ pc = "export"
  /\ \/ /\ n <= MAX_USERDATA_ENTRY
        /\ card' = [card EXCEPT ![n] = flash[n]]
        /\ n' = n + 1
        /\ UNCHANGED pc
     \/ /\ n <= MAX_USERDATA_ENTRY
        /\ card' \in {card, [card EXCEPT ![n] = FirstBlock(flash[n])]}
        /\ pc' = "main" /\ n' = 0
     \/ /\ n > MAX_USERDATA_ENTRY
        /\ pc' = "main" /\ n' = 0
        /\ UNCHANGED card
  /\ UNCHANGED <<ram, flash, protected, job, kept, cut, ops>>

\* The FAT16 format writes a file system where import looks for entries.
ExportFat ==
  /\ Idle
  /\ card' = [e \in Entry |-> <<>>]
  /\ UNCHANGED <<pc, ram, flash, protected, job, n, kept, cut>>

SwapCard ==
  /\ Idle
  /\ card' \in Cards
  /\ UNCHANGED <<pc, ram, flash, protected, job, n, kept, cut>>
--------------------------------------------------------------------------------
(* Power. *)

PowerCut ==
  /\ Act
  /\ pc # "off"
  /\ pc' = "off"
  /\ cut' = (cut \/ pc = "write")
  /\ job' = NoJob
  /\ n' = 0
  /\ UNCHANGED <<ram, flash, protected, card, kept>>

\* main loads the initial configuration and the global profile.
Boot ==
  /\ pc = "off"
  /\ pc' = "booted"
  /\ LET r == LoadInit(DefaultRam, flash[MAX_USERDATA_ENTRY])
     IN  ram' = LoadSlot(r, flash[r.profile_sel])
  /\ UNCHANGED <<flash, protected, job, n, card, kept, cut, ops>>

\* The first pass switches to the initial input.
FirstPass ==
  /\ pc = "booted"
  /\ pc' = "main"
  /\ ram' = [ram EXCEPT !.avinput = ram.target_input]
  /\ UNCHANGED <<flash, protected, job, n, card, kept, cut, ops>>

Init ==
  /\ pc = "off"
  /\ ram = DefaultRam
  /\ flash = [e \in Entry |-> <<>>]
  /\ protected = TRUE
  /\ job = NoJob
  /\ n = 0
  /\ card \in Cards
  /\ ops = 0
  /\ kept = [e \in Entry |-> Unknown]
  /\ cut = FALSE

Next ==
  \/ Erase \/ Write \/ Finish
  \/ ChangeSetting \/ (\E o \in Options : LearnKeys(o))
  \/ (\E i \in ByHand : SelectInput(i)) \/ (\E i \in Found : FindInput(i))
  \/ (\E p \in Profile : LoadProfile(p) \/ SaveProfile(p))
  \/ StartImport \/ Import \/ FinishImport \/ StartExport \/ Export \/ ExportFat \/ SwapCard
  \/ PowerCut \/ Boot \/ FirstPass

Spec == Init /\ [][Next]_vars
--------------------------------------------------------------------------------
(* Properties. *)

\* Profile numbers stay within their arrays whatever a power cut, a failing card
\* or an older save left in flash, and so do inputs (userdata.c:200-217), with one
\* exception: a profile whose programming a power cut ended has an erased link,
\* which load_profile makes the input (av_controller.c:654-658).  It stays so until
\* the power is cut again, as far as the model follows the program.
IndicesInBounds ==
  /\ ProfilesInBounds(ram) /\ ram.avinput \in Input
  /\ ram.target_input \notin Input =>
       cut /\ ram.target_input = ram.link /\ pc \in {"erase", "write", "lost", "off"}

\* The exception does happen: input numbers do not stay within their arrays.
AlwaysInBounds == InBounds(ram)

\* After power-up the settings saved last are in force: links, options, the input
\* the user wants to start with and the global profile with what was saved in it,
\* whatever was saved in which order and wherever the power was cut
\* (userdata.c:86-227, av_controller.c:646-677, av_controller.c:880-882).
BootRestores ==
  LET k == kept[MAX_USERDATA_ENTRY] IN
  pc = "booted" /\ k.known =>
    /\ ram.input_profiles = k.input_profiles
    /\ ram.profile_link = k.profile_link
    /\ ram.options = k.options
    /\ ram.target_input = IF k.def_input < AV_LAST THEN k.def_input
                          ELSE IF k.target_input < AV_LAST THEN k.target_input ELSE AV_TESTPAT
    /\ ram.profile_sel = k.input_profiles[AV_TESTPAT]
    /\ kept[ram.profile_sel].known =>
         /\ ram.set = kept[ram.profile_sel].set
         /\ ram.link = kept[ram.profile_sel].link

\* Unless the power was cut the flash is protected whenever nothing is written,
\* also after an import that failed (userdata.c:112-117, userdata.c:340-351).
ProtectedAtRest == pc = "main" /\ ~ cut => protected

\* Only a power cut in a write leaves an entry half written: loads, saves, imports
\* that fail and exports never do, so no load follows a link to an input that does
\* not exist (av_controller.c:654-658, userdata.c:302-351).
HalfWrittenOnlyByCut ==
  ~ cut =>
    /\ pc # "lost"
    /\ pc = "main" => \A e \in Entry : Whole(flash[e])

\* "Profile %u data written (%u bytes)" (userdata.c:172): the presets saved with
\* a profile are the presets it brings back.
PresetsSurvive ==
  pc = "booted" /\ kept[MAX_USERDATA_ENTRY].known /\ kept[ram.profile_sel].known
    => ram.table = kept[ram.profile_sel].table
================================================================================
