-------------------------------- MODULE FrontEnd ---------------------------------
(***************************************************************************)
(* The drivers of the video front end (bsp/drivers/src/tvp7002.c,          *)
(* ths7353.c) and of the audio converter (pcm1862.c) on the I2C controller *)
(* (ip/i2c_opencores/HAL/src/i2c_opencores.c), byte by byte.  A timer's    *)
(* callback switches the OLED display off over the same bus, from the      *)
(* interrupt, between any two bytes (lcd.c, sh1107.c).                     *)
(*                                                                         *)
(* A call is a sequence of accesses to registers.  Several settings share  *)
(* a register: it is read, some of its bits are kept and the others set.   *)
(* Registers that are written together and not read back are one here;     *)
(* those that hold one setting and are only written whole are left out.    *)
(***************************************************************************)
EXTENDS Integers, Sequences

CONSTANTS
  Values,    \* bound: settings of two bits and of five
  Modes,     \* bound: arguments of tvp_source_setup
  MaxCalls,  \* bound: calls after the initialisation
  Disturb    \* bound: whether the interrupt may come inside a transfer, or only between two
ASSUME SettingAssumption ==
  /\ Disturb \in BOOLEAN
  /\ Values.two \subseteq 0 .. 3 /\ Values.five \subseteq 0 .. 31
  /\ \A m \in Modes : /\ m.rate \in 0 .. 4095 /\ m.pixs \in Nat \ {0} /\ m.refclks \in Nat \ {0}
                      /\ m.ref \in Int /\ m.offset \in Int
                      /\ m.divide \in BOOLEAN /\ m.changed \in BOOLEAN

TVP == {"INPMUX1", "INPMUX2", "SOGTHOLD", "SYNCCTRL1", "SYNCSTAT", "MISCCTRL1", "MISCCTRL3", "MISCCTRL4",
        "HPLLPHASE", "HPLLDIV", "HPLLCTRL", "VIDEOBWLIM", "CLAMPSTART", "CLAMPWIDTH", "ALCEN", "ALCPLACE",
        "CSC", "COAST"}
THS == {"CH1", "CH2", "CH3"}
PCM == {"ID", "PAGESEL", "ADC1L", "ADC1R", "PGA1", "POWER", "DSP2_CFG"} \cup {"DSP_0", "DSP_1", "DSP_6", "DSP_7"}
Page1 == {"DSP2_CFG", "DSP_0", "DSP_1", "DSP_6", "DSP_7"}
Chip(reg) == IF reg \in TVP THEN "tvp" ELSE IF reg \in THS THEN "ths" ELSE "pcm"

VARIABLES
  regs,      \* the chips' registers
  ptr,       \* the register each chip was told last
  bus,       \* the chip a transaction goes on with, or "free"
  prog,      \* accesses of the call that are left: [rw, reg, keep, put]
  byte,      \* bytes of the first of them that have been moved
  status,    \* the value read last
  asked,     \* history: what the calls have asked for
  oled,      \* "none", or "on" with a timeout armed, or "off"
  hit,       \* history: an interrupt has ended a transaction of the main program
  calls      \* how far MaxCalls is used up

feVars == <<regs, ptr, bus, prog, byte, status, asked, oled, hit, calls>>

Rd(reg) == <<[rw |-> "read", reg |-> reg, keep |-> {}, put |-> 0]>>
Poll(reg) == <<[rw |-> "poll", reg |-> reg, keep |-> {}, put |-> 0]>>
Wr(reg, v) == <<[rw |-> "write", reg |-> reg, keep |-> {}, put |-> v % 256]>>
\* Read, keep some bits, put the others.
Change(reg, keep, v) == Rd(reg) \o <<[rw |-> "write", reg |-> reg, keep |-> keep, put |-> v % 256]>>

Bit(v, b) == ((v \div 2^b) % 2) * 2^b
Kept(v, keep) ==
  LET at(b) == IF b \in keep THEN Bit(v, b) ELSE 0
  IN  at(0) + at(1) + at(2) + at(3) + at(4) + at(5) + at(6) + at(7)
Bits(v, lo, width) == (v \div 2^lo) % 2^width
--------------------------------------------------------------------------------
(* The functions of the drivers. *)

tvp_sel_clk(int, ext_pclk) ==
  Change("INPMUX2", {0, 2, 4, 5, 6, 7}, IF int THEN 2 ELSE IF ext_pclk THEN 8 ELSE 10)
tvp_set_sync_lpf(v) == Change("INPMUX2", 0 .. 5, v * 64)
ClpLpfAll(v) == Change("INPMUX2", 0 .. 3, v * 16) \* mutant
tvp_set_clp_lpf(v) == Change("INPMUX2", {0, 1, 2, 3, 6, 7}, v * 16)
tvp_set_lpf(v) == Change("VIDEOBWLIM", 4 .. 7, v)
tvp_set_hpll_phase(v) == Change("HPLLPHASE", 0 .. 2, v * 8)
tvp_set_sog_thold(v) == Change("SOGTHOLD", 0 .. 2, v * 8)
tvp_set_clamp_type(fmt) == Change("SOGTHOLD", 3 .. 7, IF fmt = "YPbPr" THEN 5 ELSE 0)

\* The clamp follows the sync, whose position is a byte that wraps round.
Clamp(m, w, alc) ==
  LET pos == (m.ref % 256) + m.offset + (IF m.type = "HDTV" THEN 50 ELSE 6)
  IN  IF pos < 0 THEN 0 ELSE IF pos + w + alc > 255 THEN 255 - alc - w ELSE pos
tvp_set_clamp_alc(m) ==
  LET w == IF m.type = "HDTV" THEN 32 ELSE 16
      alc == IF m.type = "HDTV" THEN 8 ELSE 2
      pos == Clamp(m, w, alc)
  IN  Wr("CLAMPSTART", pos) \o Wr("CLAMPWIDTH", w) \o Wr("ALCEN", 128) \o Wr("ALCPLACE", pos + w + alc)

\* The sampling rate, doubled with a divider behind the PLL, and its loop filter.
Kvco == <<75, 85, 150, 200>>
tvp_setup_hpll(rate, pixs, refclks, divide) ==
  LET twice == divide /\ rate < 2048
      r == IF twice THEN 2 * rate ELSE rate
      pclk == (r * (27000000 \div refclks)) \div 1000
      range == IF pclk < 36000 THEN 0 ELSE IF pclk < 70000 THEN 1 ELSE IF pclk < 135000 THEN 2 ELSE 3
      cp == (40 * Kvco[range + 1] + pixs \div 2) \div pixs
      current == IF cp > 6 THEN 6 ELSE IF cp = 0 THEN 1 ELSE cp
  IN  Change("HPLLPHASE", 3 .. 7, IF twice THEN 1 ELSE 0)
      \o <<[rw |-> "write", reg |-> "HPLLDIV", keep |-> {}, put |-> r]>>
      \o Wr("HPLLCTRL", range * 64 + current * 8)

tvp_source_setup(m) ==
  (IF m.changed THEN Change("MISCCTRL4", 0 .. 6, 128) ELSE <<>>)
    \o tvp_set_clamp_alc(m)
    \o Wr("MISCCTRL4", IF m.type = "PC" THEN 13 ELSE 9)
    \o tvp_setup_hpll(m.rate, m.pixs, m.refclks, m.divide)

\* sync: 0 to 2 on green, then separate, then composite
tvp_source_sel(input, sync, fmt) ==
  Wr("INPMUX1", (IF sync <= 2 THEN sync ELSE 0) * 64 + input * 16 + input * 4 + input)
    \o tvp_set_clamp_type(fmt)
    \o Wr("SYNCCTRL1", IF sync <= 2 THEN 91 ELSE IF sync < 5 THEN 82 ELSE 83)
    \o Rd("SYNCSTAT")
    \o Wr("MISCCTRL3", IF fmt = "YPbPr" THEN 16 ELSE 0)
tvp_check_sync == Rd("SYNCSTAT")

tvp_powerdown ==
  Change("MISCCTRL4", 0 .. 6, 128)
    \o <<[rw |-> "write", reg |-> "MISCCTRL4", keep |-> 0 .. 6, put |-> 0]>> \o Wr("MISCCTRL1", 19)
tvp_powerup == Wr("MISCCTRL1", 17)

tvp_sel_csc(k) == Wr("CSC", k)
tvp_set_hpllcoast(v) == Wr("COAST", v)
tvp_init ==
  tvp_sel_clk(FALSE, FALSE) \o Wr("MISCCTRL4", 9) \o tvp_sel_csc(0) \o tvp_set_sync_lpf(0)
    \o tvp_set_hpllcoast(1) \o tvp_powerdown

AllChannels(keep, v) ==
  Rd("CH1") \o [i \in 1 .. 3 |-> [rw |-> "write", reg |-> <<"CH1", "CH2", "CH3">>[i], keep |-> keep, put |-> v]]
ths_set_lpf(v) == AllChannels(0 .. 7 \ {3, 4}, v * 8)
ThsSource(input) == IF input = 2 THEN 1 ELSE 4 + input * 32 \* 2: standby
ths_source_sel(input) == AllChannels({3, 4, 6, 7}, ThsSource(input))
\* A byte sent to nobody, which comes first, is left out.
ths_init == Wr("CH1", 24) \o Wr("CH2", 24) \o Wr("CH3", 24) \o Rd("CH1")

pcm_source_sel(input) == Wr("ADC1L", 64 + 2^input) \o Wr("ADC1R", 64 + 2^input)
pcm_set_gain(v) == Wr("PGA1", 2 * v)
StayOnPage1(mono) == \* mutant
  Wr("PAGESEL", 1) \o Wr("DSP_0", mono) \o Wr("DSP2_CFG", 1) \o Poll("DSP2_CFG")
pcm_set_stereo_mode(mono) ==
  LET Coefficient(ch) == Wr(ch, mono) \o Wr("DSP2_CFG", 1) \o Poll("DSP2_CFG")
  IN  Wr("PAGESEL", 1) \o Coefficient("DSP_0") \o Coefficient("DSP_1") \o Coefficient("DSP_6")
        \o Coefficient("DSP_7") \o Wr("PAGESEL", 0)
\* A chip with another number, or none, is left alone, then and later.
pcm1862_init(id) == Rd("ID") \o (IF id = 134 THEN Wr("POWER", 117) \o Wr("POWER", 112) ELSE <<>>)
pcm1862_active == regs["ID"] = 134
--------------------------------------------------------------------------------
(* The main program calls them: init_hw, the main loop, get_status, program_mode. *)

Call(code, wish) ==
  /\ prog = <<>> /\ calls < MaxCalls
  /\ prog' = code /\ asked' = wish
  /\ calls' = calls + 1
  /\ UNCHANGED <<regs, ptr, bus, byte, status, oled, hit>>

SetFilters ==
  \E v \in Values.two :
    \/ Call(tvp_set_sync_lpf(v), [asked EXCEPT !.sync_lpf = v])
    \/ Call(tvp_set_clp_lpf(v), [asked EXCEPT !.clp_lpf = v])
    \/ Call(tvp_set_lpf(5 * v), [asked EXCEPT !.lpf = 5 * v])
    \/ Call(ths_set_lpf(v), [asked EXCEPT !.ths_lpf = v])
SetLevels ==
  \E v \in Values.five :
    \/ Call(tvp_set_hpll_phase(v), [asked EXCEPT !.phase = v])
    \/ Call(tvp_set_sog_thold(v), [asked EXCEPT !.thold = v])

\* AV1 and AV2 come through the buffer, AV3 past it unless its RGB is taken to AV1.
Sources == {[ths |-> 1, pcm |-> 3, tvp |-> 0, sync |-> 1, fmt |-> "RGBS"],
            [ths |-> 0, pcm |-> 2, tvp |-> 0, sync |-> 0, fmt |-> "YPbPr"],
            [ths |-> 2, pcm |-> 1, tvp |-> 2, sync |-> 3, fmt |-> "RGBHV"],
            [ths |-> 2, pcm |-> 1, tvp |-> 2, sync |-> 2, fmt |-> "YPbPr"],
            [ths |-> 1, pcm |-> 3, tvp |-> 0, sync |-> 5, fmt |-> "RGBS"]}
SelectSource ==
  \E s \in Sources :
    Call(ths_source_sel(s.ths) \o tvp_powerdown \o (IF pcm1862_active THEN pcm_source_sel(s.pcm) ELSE <<>>)
           \o tvp_source_sel(s.tvp, s.sync, s.fmt),
         [asked EXCEPT !.ths = ThsSource(s.ths), !.fmt = s.fmt, !.power = FALSE])
ProgramMode ==
  \E m \in Modes :
    Call(tvp_source_setup(m),
         [asked EXCEPT !.rate = m.rate, !.pc = m.type = "PC"])
PowerUp == Call(tvp_powerup, [asked EXCEPT !.power = TRUE])
PowerDown == Call(tvp_powerdown, [asked EXCEPT !.power = FALSE])
SetAudio ==
  /\ pcm1862_active
  /\ \/ \E v \in {0, 1} : Call(pcm_set_stereo_mode(v), [asked EXCEPT !.mono = v])
     \/ \E v \in {0, 10} : Call(pcm_set_gain(v), [asked EXCEPT !.gain = v])
CheckSync == Call(tvp_check_sync, asked)

FeInit ==
  /\ \E id \in {0, 134} :
       /\ regs = [r \in TVP \cup THS \cup PCM |->
                   IF r = "SOGTHOLD" THEN 93 ELSE IF r = "HPLLPHASE" THEN 128 ELSE IF r = "ID" THEN id ELSE 0]
       /\ prog = ths_init \o tvp_init \o pcm1862_init(id)
  /\ ptr = [c \in {"tvp", "ths", "pcm"} |-> CHOOSE r \in TVP \cup THS \cup PCM : Chip(r) = c]
  /\ bus = "free"
  /\ byte = 0 /\ status = 0
  /\ asked = [sync_lpf |-> 0, clp_lpf |-> 0, lpf |-> 0, phase |-> 16, thold |-> 11, fmt |-> "YPbPr", ths |-> 0,
              rate |-> 0, pc |-> FALSE, power |-> FALSE, ths_lpf |-> 3, mono |-> 0, gain |-> 0]
  /\ oled \in {"none", "off"} /\ hit = FALSE /\ calls = 0
--------------------------------------------------------------------------------
(* The bus. *)

access == Head(prog)
target == Chip(access.reg)
Step(b) == prog # <<>> /\ byte = b
Ends == bus' = "free" /\ byte' = 0
Quiet == UNCHANGED <<asked, oled, hit, calls>>

\* I2C_start
Start ==
  /\ Step(0)
  /\ bus' = target /\ byte' = 1
  /\ UNCHANGED <<regs, ptr, prog, status>> /\ Quiet

\* I2C_write of the register's number; a read by the first two chips stops here.
SendRegister ==
  /\ Step(1)
  /\ ptr' = IF bus = target THEN [ptr EXCEPT ![target] = access.reg] ELSE ptr
  /\ bus' = IF access.rw # "write" /\ target # "pcm" THEN "free" ELSE bus
  /\ byte' = 2
  /\ UNCHANGED <<regs, prog, status>> /\ Quiet

\* Registers of the audio converter are on pages.
Reached(reg) == reg \in PCM \ {"PAGESEL"} => (regs["PAGESEL"] = 1) = (reg \in Page1)

\* I2C_write of the data
SendData ==
  /\ Step(2) /\ access.rw = "write"
  /\ regs' = IF bus = target /\ Reached(ptr[target])
             THEN [regs EXCEPT ![ptr[target]] = Kept(status, access.keep) + access.put] ELSE regs
  /\ prog' = Tail(prog)
  /\ Ends /\ UNCHANGED <<ptr, status>> /\ Quiet

\* I2C_start for reading
Restart ==
  /\ Step(2) /\ access.rw # "write"
  /\ bus' = target /\ byte' = 3
  /\ UNCHANGED <<regs, ptr, prog, status>> /\ Quiet

\* I2C_read: nobody drives the bus when no chip is addressed.  The DSP is done sooner or later.
Receive ==
  /\ Step(3)
  /\ \E v \in IF bus # target THEN {255} ELSE IF access.rw = "poll" THEN {0, 1} ELSE {regs[ptr[target]]} :
       /\ status' = v
       /\ prog' = IF access.rw = "poll" /\ v # 0 THEN prog ELSE Tail(prog)
  /\ Ends /\ UNCHANGED <<regs, ptr>> /\ Quiet

\* lcd_off from the timer's interrupt: sh1107_off is a transaction of its own.
OledOff ==
  /\ oled = "on" /\ oled' = "off"
  /\ bus # "free" => Disturb
  /\ bus' = "free" /\ hit' = (hit \/ bus # "free")
  /\ UNCHANGED <<regs, ptr, prog, byte, status, asked, calls>>

\* A row is written to the display, which switches it on and arms the timer.
OledOn ==
  /\ oled = "off" /\ oled' = "on"
  /\ prog = <<>>
  /\ UNCHANGED <<regs, ptr, bus, prog, byte, status, asked, hit, calls>>

FeNext ==
  \/ SetFilters \/ SetLevels \/ SelectSource \/ ProgramMode \/ PowerUp \/ PowerDown \/ SetAudio \/ CheckSync
  \/ Start \/ SendRegister \/ SendData \/ Restart \/ Receive
  \/ OledOff \/ OledOn
FeSpec == FeInit /\ [][FeNext]_feVars
--------------------------------------------------------------------------------
(* Between calls the registers hold, bit by bit, what was asked for last   *)
(* of each setting, though settings share registers, some of which the     *)
(* hardware starts with other values in: no setter disturbs another's      *)
(* bits, the sync processor is not left in reset, the converter not on its *)
(* second page.  The clamp pulse and, behind it, the level control lie in  *)
(* the line in this order, whatever the sync, the mode and the user's      *)
(* offset, although the position is kept in eight bits.                    *)
(* Unless the display's timeout fell into a transfer.                      *)
RegistersAsAsked ==
  prog = <<>> /\ ~ hit =>
    /\ Bits(regs["INPMUX2"], 6, 2) = asked.sync_lpf
    /\ Bits(regs["INPMUX2"], 4, 2) = asked.clp_lpf
    /\ Bits(regs["INPMUX2"], 0, 4) = 10
    /\ Bits(regs["VIDEOBWLIM"], 0, 4) = asked.lpf
    /\ Bits(regs["HPLLPHASE"], 3, 5) = asked.phase
    /\ regs["HPLLDIV"] = asked.rate * (IF Bits(regs["HPLLPHASE"], 0, 3) = 1 THEN 2 ELSE 1)
    /\ regs["SOGTHOLD"] = asked.thold * 8 + (IF asked.fmt = "YPbPr" THEN 5 ELSE 0)
    /\ regs["MISCCTRL4"] = IF asked.pc THEN 13 ELSE 9
    /\ regs["MISCCTRL1"] = IF asked.power THEN 17 ELSE 19
    /\ \A ch \in THS : regs[ch] = asked.ths_lpf * 8 + asked.ths
    /\ regs["PAGESEL"] = 0 /\ regs["PGA1"] = 2 * asked.gain
    /\ \A ch \in {"DSP_0", "DSP_1", "DSP_6", "DSP_7"} : regs[ch] = asked.mono
    /\ regs["ALCEN"] # 0 => regs["ALCPLACE"] > regs["CLAMPSTART"] + regs["CLAMPWIDTH"]

(* I2C_read and I2C_write assume "that any addressing and start has        *)
(* already been done" (i2c_opencores.c): a byte goes to the chip that this *)
(* access has addressed.                                                   *)
AddressedFirst ==
  prog # <<>> /\ (byte \in {1, 3} \/ (byte = 2 /\ access.rw = "write")) => bus = target
================================================================================
