------------------------------ MODULE RevACore ------------------------------
(***************************************************************************)
(* The Rev-A integration core integration/openframe/lca_reva_core.sv: the  *)
(* LCA-LINK request/response port, the CSRs, the three sequential          *)
(* channels, the power-on, tamper and host zeroization, the self-test      *)
(* sequencer, and the NTT engine, Keccak engine and SRAM behind it.        *)
(*                                                                         *)
(* A step is one rising edge of clk_i, for the core and its engines        *)
(* together, or an asynchronous reset.  The clocked process of the core is *)
(* a priority chain (scrub, trigger, control wipe, run) and gives one      *)
(* action per branch; the run branch gives one action per kind of request. *)
(* Registers keep their names without the suffix _q.                       *)
(*                                                                         *)
(* Data is reduced to taint: a word is "clear" (zero) or "data" (written   *)
(* by the host, or computed from such words, or unknown at power-on).      *)
(***************************************************************************)
EXTENDS Integers, FiniteSets

CONSTANTS
    SRAM_WORDS,             \* parameter of the core (8192)
    NTT_WORDS,              \* coefficients of the NTT engine (256)
    KECCAK_WORDS,           \* words of the Keccak state (50)
    ROUNDS,                 \* rounds of the permutation (24)
    HostOps,                \* kinds of request the host issues
    HostChannels,           \* channels it uses
    HostCommands,           \* COMMAND codes it writes
    ControlWords,           \* CONTROL words it writes, as sets of bits
    ByteBeats,              \* values of addr[0] it uses on the channels
    SRAM_REACH,             \* bound: it leaves SRAM cursors from here alone
    FaultyRounds,           \* rounds a broken Keccak engine computes wrongly
    WrongHalves             \* halves of lane 0 its answer to zero has wrong

ControlBits == {"start", "abort", "zeroize", "clear_done", "clear_irq",
                "clear_fault", "reset_cursors"}
NttCommands == {"MLKEM_NTT", "MLKEM_INTT", "MLDSA_NTT", "MLDSA_INTT"}
Commands == NttCommands \cup {"KECCAK_F1600", "MOD_ARITH", "SRAM_WIPE",
                              "SELF_TEST", "OTHER"}
Ops == {"csr_read", "data_read", "data_write", "command", "control",
        "bad_address"}
Channels == {"ntt", "keccak", "sram"}
Errors == {"NONE", "ILLEGAL_ADDR", "ILLEGAL_CMD", "BUSY", "LENGTH",
           "PROTOCOL", "SELFTEST", "TAMPER"}
SelfTestStates == {"IDLE", "WAIT_SCRUB", "WAIT_NTT", "CHECK_NTT", "WAIT_KEC",
                   "CHECK_K0", "CHECK_K1"}

(* The scrub walks the SRAM; it must outlast the engine's own scrub, which *)
(* starts one edge later and takes one edge per coefficient.               *)
ASSUME CoreAssumption ==
    /\ SRAM_WORDS \in Nat /\ KECCAK_WORDS \in Nat \ {0}
    /\ ROUNDS \in Nat \ {0}
    /\ SRAM_WORDS > NTT_WORDS
    /\ HostOps \subseteq Ops /\ HostChannels \subseteq Channels
    /\ HostCommands \subseteq Commands
    /\ ControlWords \subseteq SUBSET ControlBits
    /\ ByteBeats \subseteq BOOLEAN /\ SRAM_REACH \in Nat
    /\ FaultyRounds \subseteq 0 .. (ROUNDS - 1)
    /\ WrongHalves \subseteq {0, 1}

VARIABLES
    rsp_valid, rsp_last, rsp_data,
    init_done, zeroize_active, zeroize_seen, tamper_seen, scrub_addr,
    irq, fault, done, selftest_fail, error_code, command,
    stream_cursor,          \* stream_cursor_q; transfer_count_q is its copy
    write_cursor, read_cursor, staged_len,  \* one per channel, in bytes
    ntt_start, ntt_command, ntt_host_active,
    keccak_start, keccak_host_active,
    selftest_state, selftest_zeroize_pulse, selftest_seen_ntt_busy,
    ntt_state, ntt_busy, ntt_done, ntt_cmd, len, group, j, k, zeta,
    scale_index, zeroize_index, ntt_zeroize_seen, coeff,    \* u_ntt
    kec_busy, kec_done, round, lanes,                       \* u_keccak
    sram                                                    \* u_secure_sram

Taint == {"clear", "data"}
Mix(a, b) == IF a = "clear" /\ b = "clear" THEN "clear" ELSE "data"
TaintAB(cmd, z, a, b) == Mix(a, b)
TaintScaled(cmd, a) == a

(* The Keccak state: what r rounds make of the all-zero state (r), some    *)
(* other value without host data (WrongLanes), or host data.  ROUNDS       *)
(* correct rounds from zero give the constant of the self-test.  What a    *)
(* broken engine makes of zero differs from it somewhere in the 25 lanes;  *)
(* in lane 0, the one that is compared, it differs in WrongHalves, which   *)
(* may be empty.                                                           *)
ClearLanes == 0
DataLanes == -1
WrongLanes == -2
LanesAfter(l, r) == IF l = DataLanes THEN DataLanes
                    ELSE IF l = r /\ r \notin FaultyRounds THEN r + 1
                    ELSE WrongLanes
LanesWritten(l, a, v) == IF v = "clear" THEN l ELSE DataLanes

Ntt == INSTANCE NttAccel WITH
    N <- NTT_WORDS, ZeroCoeff <- "clear",
    NewA <- TaintAB, NewB <- TaintAB, Scaled <- TaintScaled
Keccak == INSTANCE KeccakF1600 WITH
    WORDS <- KECCAK_WORDS, ZeroLanes <- ClearLanes,
    RoundOf <- LanesAfter, WithWord <- LanesWritten

ASSUME BankAssumption == Ntt!SizeOK /\ Ntt!BanksSplit

rspVars == <<rsp_valid, rsp_last, rsp_data>>
scrubVars == <<init_done, zeroize_active, scrub_addr>>
seenVars == <<zeroize_seen, tamper_seen>>
statusVars == <<irq, fault, done, selftest_fail, error_code>>
cursorVars == <<stream_cursor, write_cursor, read_cursor, staged_len>>
pulseVars == <<ntt_start, keccak_start, selftest_zeroize_pulse>>
launchVars == <<pulseVars, ntt_command, ntt_host_active, keccak_host_active,
                selftest_state, selftest_seen_ntt_busy>>
vars == <<rspVars, scrubVars, seenVars, statusVars, cursorVars, launchVars,
          command, Ntt!nttVars, Keccak!kecVars, sram>>

selftest_busy == selftest_state # "IDLE"
engine_zeroize == zeroize_active \/ selftest_zeroize_pulse
busyOutsideSelfTest == zeroize_active \/ ntt_busy \/ kec_busy  \* slip
busyWithoutKeccak == zeroize_active \/ ntt_busy \/ selftest_busy  \* slip
busy == zeroize_active \/ ntt_busy \/ kec_busy \/ selftest_busy

(* The pins sampled at an edge.                                            *)
Pins == [tamper_n : BOOLEAN, zeroize_req : BOOLEAN, rsp_ready : BOOLEAN]

req_readyOverResponse(pins) ==                     \* slip: ~rsp_valid missing
    init_done /\ ~zeroize_active /\ pins.tamper_n /\ ~pins.zeroize_req
req_ready(pins) == /\ init_done /\ ~zeroize_active
                   /\ pins.tamper_n /\ ~pins.zeroize_req
                   /\ ~rsp_valid

Trigger(pins) == \/ ~pins.tamper_n /\ ~tamper_seen
                 \/ pins.zeroize_req /\ ~zeroize_seen

(* Which branch of the priority chain a trigger may take.                  *)
TriggerFirst(pins) == Trigger(pins)                 \* slip: before the scrub
TriggerBranch(pins) == ~zeroize_active /\ Trigger(pins)
-----------------------------------------------------------------------------
(* Channels: beat length, limits and the conditions of a write beat.       *)
Step(one) == IF one THEN 1 ELSE 2
Limit(ch) == 4 * CASE ch = "ntt"    -> NTT_WORDS
                   [] ch = "keccak" -> KECCAK_WORDS
                   [] ch = "sram"   -> SRAM_WORDS
WriteEnd(ch, one) == write_cursor[ch] + Step(one)
ReadEnd(ch, one) == read_cursor[ch] + Step(one)

(* ntt_write_fire, keccak_write_fire, sram_write_fire: the beat reaches    *)
(* the memory.                                                             *)
WriteFires(ch, one, last) ==
    /\ ~busy
    /\ one => last
    /\ WriteEnd(ch, one) <= Limit(ch)

NoWrite == [we |-> FALSE, addr |-> 0, data |-> "data"]
HostWrite(ch) == [we |-> TRUE, addr |-> write_cursor[ch] \div 4, data |-> "data"]

(* The word a read beat would return.                                      *)
ReadData(ch) ==
    CASE ch = "ntt"    -> Ntt!coeff_read(read_cursor[ch] \div 4)
      [] ch = "keccak" -> IF lanes = DataLanes THEN "data" ELSE "clear"
      [] ch = "sram"   -> sram[(read_cursor[ch] \div 4) % SRAM_WORDS]

(* The engines see the start pulses, the zeroize level and, on an edge     *)
(* that fires a write, the beat.                                           *)
Engines(nttHost, kecHost) ==
    /\ Ntt!NttEdge(engine_zeroize, ntt_start, ntt_command, nttHost)
    /\ Keccak!KecEdge(engine_zeroize, keccak_start, kecHost)
QuietEngines == Engines(NoWrite, NoWrite)

SramWrite(a, v) == sram' = [sram EXCEPT ![a] = v]

NoPulses ==
    /\ ntt_start' = FALSE
    /\ keccak_start' = FALSE
    /\ selftest_zeroize_pulse' = FALSE
CursorsCleared ==
    /\ stream_cursor' = 0
    /\ write_cursor' = [ch \in Channels |-> 0]
    /\ read_cursor' = [ch \in Channels |-> 0]
    /\ staged_len' = [ch \in Channels |-> 0]

(* The registers at reset; the memories have none and keep what they held. *)
ResetRegisters ==
    /\ rsp_valid = FALSE /\ rsp_last = FALSE /\ rsp_data = "clear"
    /\ init_done = FALSE /\ zeroize_active = TRUE /\ scrub_addr = 0
    /\ zeroize_seen = FALSE /\ tamper_seen = FALSE
    /\ irq = FALSE /\ fault = FALSE /\ done = FALSE
    /\ selftest_fail = TRUE /\ error_code = "NONE"
    /\ command = "SELF_TEST"
    /\ stream_cursor = 0
    /\ write_cursor = [ch \in Channels |-> 0]
    /\ read_cursor = [ch \in Channels |-> 0]
    /\ staged_len = [ch \in Channels |-> 0]
    /\ ntt_start = FALSE /\ keccak_start = FALSE
    /\ selftest_zeroize_pulse = FALSE
    /\ ntt_command = "MLKEM_NTT"
    /\ ntt_host_active = FALSE /\ keccak_host_active = FALSE
    /\ selftest_state = "IDLE" /\ selftest_seen_ntt_busy = FALSE
    /\ Ntt!NttResetState
    /\ Keccak!KecCleared

BankContents == [{0, 1} -> [Ntt!Row -> Taint]]
SramContents == [0 .. (SRAM_WORDS - 1) -> Taint]

Init ==
    /\ ResetRegisters
    /\ coeff = [b \in {0, 1} |-> [r \in Ntt!Row |-> "data"]]
    /\ sram = [a \in 0 .. (SRAM_WORDS - 1) |-> "data"]

(* rst_ni low, at any time.                                                *)
Reset ==
    /\ rsp_valid' = FALSE /\ rsp_last' = FALSE /\ rsp_data' = "clear"
    /\ init_done' = FALSE /\ zeroize_active' = TRUE /\ scrub_addr' = 0
    /\ zeroize_seen' = FALSE /\ tamper_seen' = FALSE
    /\ irq' = FALSE /\ fault' = FALSE /\ done' = FALSE
    /\ selftest_fail' = TRUE /\ error_code' = "NONE"
    /\ command' = "SELF_TEST"
    /\ CursorsCleared
    /\ NoPulses
    /\ ntt_command' = "MLKEM_NTT"
    /\ ntt_host_active' = FALSE /\ keccak_host_active' = FALSE
    /\ selftest_state' = "IDLE" /\ selftest_seen_ntt_busy' = FALSE
    /\ Ntt!NttReset
    /\ Keccak!KecClear
    /\ UNCHANGED sram

LastWordEarly == scrub_addr = SRAM_WORDS - 2        \* slip
LastWord == scrub_addr = SRAM_WORDS - 1

(* First branch: a scrub in progress clears one SRAM word per edge.        *)
TamperFault(pins) ==
    IF pins.tamper_n THEN UNCHANGED <<fault, error_code>>
    ELSE fault' = TRUE /\ error_code' = "TAMPER"

Scrub(pins) ==
    /\ zeroize_active
    /\ zeroize_seen' = pins.zeroize_req
    /\ tamper_seen' = ~pins.tamper_n
    /\ TamperFault(pins)
    /\ rsp_valid' = (rsp_valid /\ ~pins.rsp_ready)
    /\ SramWrite(scrub_addr, "clear")
    /\ IF LastWord
       THEN scrub_addr' = 0 /\ zeroize_active' = FALSE /\ init_done' = TRUE
       ELSE /\ scrub_addr' = scrub_addr + 1
            /\ UNCHANGED <<zeroize_active, init_done>>
    /\ NoPulses
    /\ QuietEngines
    /\ UNCHANGED <<rsp_last, rsp_data, irq, done, selftest_fail, cursorVars,
                   command, ntt_command, ntt_host_active, keccak_host_active,
                   selftest_state, selftest_seen_ntt_busy>>

(* What the trigger branches and the control wipe have in common.          *)
EnterScrub ==
    /\ zeroize_active' = TRUE
    /\ scrub_addr' = 0
    /\ done' = FALSE
    /\ irq' = FALSE
    /\ ntt_host_active' = FALSE
    /\ keccak_host_active' = FALSE
    /\ selftest_state' = "IDLE"
    /\ CursorsCleared
    /\ NoPulses
    /\ QuietEngines
    /\ UNCHANGED <<init_done, selftest_fail, command, ntt_command,
                   selftest_seen_ntt_busy, sram>>

ResponseLeft == UNCHANGED <<rsp_valid, rsp_data>>   \* slip
ResponseDropped == rsp_valid' = FALSE /\ rsp_data' = "clear"

(* Second branch: a fresh tamper or zeroize level on the pins.             *)
BeginZeroize(pins) ==
    /\ TriggerBranch(pins)
    /\ EnterScrub
    /\ ResponseDropped
    /\ TamperFault(pins)
    /\ tamper_seen' = ~pins.tamper_n
    /\ zeroize_seen' = IF pins.tamper_n THEN TRUE
                       ELSE zeroize_seen /\ pins.zeroize_req
    /\ UNCHANGED rsp_last

(* The run branch, and the latches that are released with the pins there.  *)
LatchesStick(pins) == UNCHANGED seenVars            \* slip
LatchesReleased(pins) ==
    /\ zeroize_seen' = (zeroize_seen /\ pins.zeroize_req)
    /\ tamper_seen' = (tamper_seen /\ ~pins.tamper_n)

Running(pins) ==
    /\ ~zeroize_active
    /\ ~Trigger(pins)
    /\ LatchesReleased(pins)

(* A request is accepted; every response is "clear" unless the request     *)
(* returns data.                                                           *)
Accept(pins, data, last) ==
    /\ Running(pins)
    /\ req_ready(pins)
    /\ rsp_valid' = TRUE
    /\ rsp_data' = data
    /\ rsp_last' = last

(* Third branch: CONTROL with ABORT or ZEROIZE.                            *)
ControlWipe(pins, ctl) ==
    /\ ctl \cap {"abort", "zeroize"} # {}
    /\ Accept(pins, "clear", TRUE)
    /\ EnterScrub
    /\ UNCHANGED <<fault, error_code>>
-----------------------------------------------------------------------------
(* The part of the run branch that does not depend on the host: completion *)
(* of host-launched operations and the self-test sequencer.  A request     *)
(* accepted on the same edge overrides what it assigns as well, so the     *)
(* overlapping registers are given as the value the background leaves.     *)
ntt_completes == ntt_host_active /\ ntt_done
keccak_completes == keccak_host_active /\ kec_done
AnyWord(i) == TRUE                                  \* slip: not compared
KnownWord(i) == lanes = ROUNDS \/ (lanes = WrongLanes /\ i \notin WrongHalves)
selftest_fails ==
    \/ selftest_state = "CHECK_NTT" /\ Ntt!coeff_read(0) # "clear"
    \/ selftest_state = "CHECK_K0" /\ ~KnownWord(0)
    \/ selftest_state = "CHECK_K1" /\ ~KnownWord(1)
selftest_passes == selftest_state = "CHECK_K1" /\ KnownWord(1)
completes == \/ ntt_completes \/ keccak_completes
             \/ selftest_fails \/ selftest_passes

bg_done == done \/ completes
bg_irq == irq \/ completes
bg_fault == fault \/ selftest_fails
bg_error == IF selftest_fails THEN "SELFTEST"
            ELSE IF selftest_passes THEN "NONE" ELSE error_code
SelfTestVerdict ==
    selftest_fail' = (selftest_fails \/ (selftest_fail /\ ~selftest_passes))

HostActive ==
    /\ ntt_host_active' = (ntt_host_active /\ ~ntt_done)
    /\ keccak_host_active' = (keccak_host_active /\ ~kec_done)

(* The engine's scrub has been seen to run, and has ended.                 *)
NotScrubbing == ~ntt_busy                           \* slip: before it starts
ScrubOver == selftest_seen_ntt_busy /\ ~ntt_busy
SeenDone ==                                         \* slip: the wrong flag
    selftest_seen_ntt_busy \/ (selftest_state = "WAIT_SCRUB" /\ ntt_done)
SeenBusy ==
    selftest_seen_ntt_busy \/ (selftest_state = "WAIT_SCRUB" /\ ntt_busy)

(* The self-test sequencer: launch the NTT once the engine's scrub has     *)
(* been seen to start and end, check coefficient 0, launch Keccak, check   *)
(* the two words of lane 0.                                                *)
SelfTestMoves ==
    \/ /\ selftest_state = "WAIT_SCRUB"
       /\ ScrubOver
       /\ ntt_command' = "MLKEM_NTT"
       /\ ntt_start' = TRUE
       /\ selftest_state' = "WAIT_NTT"
       /\ keccak_start' = FALSE
       /\ UNCHANGED selftest_seen_ntt_busy
    \/ /\ selftest_state = "CHECK_NTT"
       /\ ~selftest_fails
       /\ keccak_start' = TRUE
       /\ selftest_state' = "WAIT_KEC"
       /\ ntt_start' = FALSE
       /\ UNCHANGED <<ntt_command, selftest_seen_ntt_busy>>
    \/ /\ \/ /\ selftest_state = "WAIT_NTT" /\ ntt_done
             /\ selftest_state' = "CHECK_NTT"
          \/ /\ selftest_state = "WAIT_KEC" /\ kec_done
             /\ selftest_state' = "CHECK_K0"
          \/ /\ selftest_state = "CHECK_K0" /\ ~selftest_fails
             /\ selftest_state' = "CHECK_K1"
          \/ /\ selftest_fails \/ selftest_passes
             /\ selftest_state' = "IDLE"
       /\ ntt_start' = FALSE /\ keccak_start' = FALSE
       /\ UNCHANGED <<ntt_command, selftest_seen_ntt_busy>>

SelfTestWaits ==
    /\ \/ selftest_state = "IDLE"
       \/ selftest_state = "WAIT_SCRUB" /\ ~ScrubOver
       \/ selftest_state = "WAIT_NTT" /\ ~ntt_done
       \/ selftest_state = "WAIT_KEC" /\ ~kec_done
    /\ selftest_seen_ntt_busy' = SeenBusy
    /\ ntt_start' = FALSE /\ keccak_start' = FALSE
    /\ UNCHANGED <<ntt_command, selftest_state>>

Background ==
    /\ HostActive
    /\ SelfTestMoves \/ SelfTestWaits
    /\ SelfTestVerdict
    /\ selftest_zeroize_pulse' = FALSE

(* The status registers when a request leaves them to the background, and  *)
(* when it latches an error.                                               *)
StatusKept ==
    /\ done' = bg_done /\ irq' = bg_irq
    /\ fault' = bg_fault /\ error_code' = bg_error
StatusError(e) ==
    /\ done' = bg_done /\ irq' = bg_irq
    /\ fault' = TRUE /\ error_code' = e
-----------------------------------------------------------------------------
(* An edge on which no request is accepted.                                *)
NoRequest(pins) ==
    /\ Running(pins)
    /\ rsp_valid' = (rsp_valid /\ ~pins.rsp_ready)
    /\ Background
    /\ StatusKept
    /\ QuietEngines
    /\ UNCHANGED <<rsp_last, rsp_data, scrubVars, cursorVars, command, sram>>

ReadCsr(pins) ==
    /\ Accept(pins, "clear", TRUE)
    /\ Background
    /\ StatusKept
    /\ QuietEngines
    /\ UNCHANGED <<scrubVars, cursorVars, command, sram>>

(* An address outside the map, in either direction, or a write to a        *)
(* read-only CSR.                                                          *)
BadAddress(pins) ==
    /\ Accept(pins, "clear", TRUE)
    /\ Background
    /\ StatusError("ILLEGAL_ADDR")
    /\ QuietEngines
    /\ UNCHANGED <<scrubVars, cursorVars, command, sram>>

ReadRefused(pins, ch, one) ==
    /\ busy \/ ReadEnd(ch, one) > Limit(ch)
    /\ Accept(pins, "clear", TRUE)
    /\ Background
    /\ StatusError(IF busy THEN "BUSY" ELSE "LENGTH")
    /\ QuietEngines
    /\ UNCHANGED <<scrubVars, cursorVars, command, sram>>

(* A read beat: the engine windows wrap at their length, the SRAM cursor   *)
(* at the beat that the host marks last.                                   *)
ReadBeat(pins, ch, one, last) ==
    LET end  == ReadEnd(ch, one)
        wrap == IF ch = "sram" THEN last ELSE end = Limit(ch)
    IN  /\ ~busy /\ end <= Limit(ch)
        /\ Accept(pins, ReadData(ch), wrap)
        /\ stream_cursor' = end
        /\ read_cursor' = [read_cursor EXCEPT ![ch] = IF wrap THEN 0 ELSE end]
        /\ Background
        /\ StatusKept
        /\ QuietEngines
        /\ UNCHANGED <<write_cursor, staged_len, scrubVars, command, sram>>

(* A write beat that fires reaches its memory whatever the checks below    *)
(* then say of it.                                                         *)
MemoryBeat(ch, one, last) ==
    LET fires == WriteFires(ch, one, last)
    IN  /\ Engines(IF fires /\ ch = "ntt" THEN HostWrite(ch) ELSE NoWrite,
                   IF fires /\ ch = "keccak" THEN HostWrite(ch) ELSE NoWrite)
        /\ IF fires /\ ch = "sram"
           THEN SramWrite((write_cursor[ch] \div 4) % SRAM_WORDS, "data")
           ELSE UNCHANGED sram

(* The engine windows accept exact lengths only: the last beat must be the *)
(* one that fills the window.                                              *)
LengthOpenEnded(ch, one, last) ==                   \* slip: last not required
    ch # "sram" /\ last /\ WriteEnd(ch, one) # Limit(ch)
LengthWrong(ch, one, last) ==
    \/ WriteEnd(ch, one) > Limit(ch)
    \/ ch # "sram" /\ last # (WriteEnd(ch, one) = Limit(ch))

WriteRefused(pins, ch, one, last) ==
    /\ busy \/ (one /\ ~last) \/ LengthWrong(ch, one, last)
    /\ Accept(pins, "clear", TRUE)
    /\ IF busy
       THEN /\ StatusError("BUSY")
            /\ UNCHANGED <<write_cursor, staged_len>>
       ELSE /\ StatusError(IF one /\ ~last THEN "PROTOCOL" ELSE "LENGTH")
            /\ write_cursor' = [write_cursor EXCEPT ![ch] = 0]
            /\ staged_len' = [staged_len EXCEPT ![ch] = 0]
    /\ MemoryBeat(ch, one, last)
    /\ Background
    /\ UNCHANGED <<stream_cursor, read_cursor, scrubVars, command>>

WriteBeat(pins, ch, one, last) ==
    LET end == WriteEnd(ch, one)
    IN  /\ ~(busy \/ (one /\ ~last) \/ LengthWrong(ch, one, last))
        /\ Accept(pins, "clear", last)
        /\ stream_cursor' = end
        /\ write_cursor' = [write_cursor EXCEPT ![ch] = IF last THEN 0 ELSE end]
        /\ staged_len' = IF last THEN [staged_len EXCEPT ![ch] = end]
                         ELSE staged_len
        /\ MemoryBeat(ch, one, last)
        /\ Background
        /\ StatusKept
        /\ UNCHANGED <<read_cursor, scrubVars, command>>

WriteCommand(pins, cmd) ==
    /\ Accept(pins, "clear", TRUE)
    /\ IF busy THEN StatusError("BUSY") /\ UNCHANGED command
               ELSE StatusKept /\ command' = cmd
    /\ Background
    /\ QuietEngines
    /\ UNCHANGED <<scrubVars, cursorVars, sram>>
-----------------------------------------------------------------------------
(* CONTROL without ABORT or ZEROIZE.  The clear bits act first, on any     *)
(* edge; a START that is taken clears DONE and IRQ after them; an error of *)
(* START is latched over a cleared fault.                                  *)
Starts(ctl) == "start" \in ctl /\ ~busy

ControlWrite(pins, ctl, e) ==
    /\ ctl \cap {"abort", "zeroize"} = {}
    /\ Accept(pins, "clear", TRUE)
    /\ done' = (bg_done /\ "clear_done" \notin ctl /\ ~Starts(ctl))
    /\ irq' = (bg_irq /\ "clear_irq" \notin ctl /\ ~Starts(ctl))
    /\ fault' = (e # "NONE" \/ (bg_fault /\ "clear_fault" \notin ctl))
    /\ error_code' = IF e # "NONE" THEN e
                     ELSE IF "clear_fault" \in ctl THEN "NONE" ELSE bg_error
    /\ IF "reset_cursors" \in ctl THEN CursorsCleared ELSE UNCHANGED cursorVars
    /\ QuietEngines
    /\ UNCHANGED <<command, sram, init_done>>

NoLaunch == Background /\ UNCHANGED <<zeroize_active, scrub_addr>>

WriteControl(pins, ctl) ==
    /\ "start" \notin ctl
    /\ ControlWrite(pins, ctl, "NONE")
    /\ NoLaunch

(* Why a START is refused: busy, a window not fully staged, or a command   *)
(* that is not implemented.                                                *)
Refusal ==
    IF busy THEN "BUSY"
    ELSE IF \/ command \in NttCommands /\ staged_len["ntt"] # Limit("ntt")
            \/ command = "KECCAK_F1600"
                 /\ staged_len["keccak"] # Limit("keccak")
         THEN "LENGTH"
    ELSE IF command \in {"MOD_ARITH", "OTHER"} THEN "ILLEGAL_CMD"
    ELSE "NONE"

StartRefused(pins, ctl) ==
    /\ "start" \in ctl
    /\ Refusal # "NONE"
    /\ ControlWrite(pins, ctl, Refusal)
    /\ NoLaunch

StartTaken(pins, ctl) ==
    /\ "start" \in ctl
    /\ Refusal = "NONE"
    /\ ControlWrite(pins, ctl, "NONE")

StartNtt(pins, ctl) ==
    /\ command \in NttCommands
    /\ StartTaken(pins, ctl)
    /\ ntt_command' = command
    /\ ntt_start' = TRUE
    /\ ntt_host_active' = TRUE
    /\ keccak_host_active' = (keccak_host_active /\ ~kec_done)
    /\ keccak_start' = FALSE /\ selftest_zeroize_pulse' = FALSE
    /\ UNCHANGED <<selftest_state, selftest_seen_ntt_busy, selftest_fail,
                   zeroize_active, scrub_addr>>

StartKeccak(pins, ctl) ==
    /\ command = "KECCAK_F1600"
    /\ StartTaken(pins, ctl)
    /\ keccak_start' = TRUE
    /\ keccak_host_active' = TRUE
    /\ ntt_host_active' = (ntt_host_active /\ ~ntt_done)
    /\ ntt_start' = FALSE /\ selftest_zeroize_pulse' = FALSE
    /\ UNCHANGED <<ntt_command, selftest_state, selftest_seen_ntt_busy,
                   selftest_fail, zeroize_active, scrub_addr>>

StartWipe(pins, ctl) ==
    /\ command = "SRAM_WIPE"
    /\ StartTaken(pins, ctl)
    /\ zeroize_active' = TRUE
    /\ scrub_addr' = 0
    /\ Background

StartSelfTest(pins, ctl) ==
    /\ command = "SELF_TEST"
    /\ StartTaken(pins, ctl)
    /\ selftest_fail' = TRUE
    /\ selftest_seen_ntt_busy' = FALSE
    /\ selftest_zeroize_pulse' = TRUE
    /\ selftest_state' = "WAIT_SCRUB"
    /\ HostActive
    /\ ntt_start' = FALSE /\ keccak_start' = FALSE
    /\ UNCHANGED <<ntt_command, zeroize_active, scrub_addr>>
-----------------------------------------------------------------------------
(* The requests that the host may have on the link.                        *)
Request(pins) ==
    \/ "csr_read" \in HostOps /\ ReadCsr(pins)
    \/ "bad_address" \in HostOps /\ BadAddress(pins)
    \/ /\ "data_read" \in HostOps
       /\ \E ch \in HostChannels, one \in ByteBeats, last \in BOOLEAN :
            /\ ch = "sram" => read_cursor[ch] < SRAM_REACH
            /\ \/ ReadRefused(pins, ch, one)
               \/ ReadBeat(pins, ch, one, last)
    \/ /\ "data_write" \in HostOps
       /\ \E ch \in HostChannels, one \in ByteBeats, last \in BOOLEAN :
            /\ ch = "sram" => write_cursor[ch] < SRAM_REACH
            /\ \/ WriteRefused(pins, ch, one, last)
               \/ WriteBeat(pins, ch, one, last)
    \/ /\ "command" \in HostOps
       /\ \E cmd \in HostCommands : WriteCommand(pins, cmd)
    \/ /\ "control" \in HostOps
       /\ \E ctl \in ControlWords :
            \/ ControlWipe(pins, ctl)
            \/ WriteControl(pins, ctl)
            \/ StartRefused(pins, ctl)
            \/ StartNtt(pins, ctl)
            \/ StartKeccak(pins, ctl)
            \/ StartWipe(pins, ctl)
            \/ StartSelfTest(pins, ctl)

Edge(pins) == \/ Scrub(pins)
              \/ BeginZeroize(pins)
              \/ NoRequest(pins)
              \/ Request(pins)

Next == Reset \/ \E pins \in Pins : Edge(pins)

Spec == Init /\ [][Next]_vars

(* The clock of the core runs: the board drives host_clk, and the only     *)
(* functional clock never waits for the host.                              *)
Clock == \E pins \in Pins : Edge(pins)

(* What follows the last reset: any memory content, and no reset again.    *)
SettledInit ==
    /\ ResetRegisters
    /\ coeff \in BankContents
    /\ sram \in SramContents

SettledSpec == SettledInit /\ [][Clock]_vars /\ WF_vars(Clock)
-----------------------------------------------------------------------------
MaxBytes == 4 * (SRAM_WORDS + KECCAK_WORDS)

TypeOK ==
    /\ {rsp_valid, rsp_last, init_done, zeroize_active, zeroize_seen,
        tamper_seen, irq, fault, done, selftest_fail, ntt_start,
        ntt_host_active, keccak_start, keccak_host_active,
        selftest_zeroize_pulse, selftest_seen_ntt_busy, kec_busy, kec_done}
           \subseteq BOOLEAN
    /\ rsp_data \in Taint
    /\ scrub_addr \in 0 .. (SRAM_WORDS - 1)
    /\ error_code \in Errors
    /\ command \in Commands
    /\ stream_cursor \in 0 .. MaxBytes
    /\ \A ch \in Channels :
        /\ write_cursor[ch] \in {2 * n : n \in 0 .. Limit(ch) \div 2}
        /\ read_cursor[ch] \in 0 .. Limit(ch)
        /\ staged_len[ch] \in 0 .. Limit(ch)
    /\ ntt_command \in NttCommands
    /\ selftest_state \in SelfTestStates
    /\ Ntt!NttTypeOK(Taint)
    /\ round \in 0 .. (ROUNDS - 1)
    /\ lanes \in WrongLanes .. ROUNDS
    /\ sram \in SramContents

(* Host data, or anything computed from it, is somewhere in the core.      *)
Holds == \/ \E a \in 0 .. (SRAM_WORDS - 1) : sram[a] # "clear"
         \/ \E b \in {0, 1}, r \in Ntt!Row : coeff[b][r] # "clear"
         \/ lanes = DataLanes
Shows == rsp_valid /\ rsp_data # "clear"

(* The core implements the vault: nothing that was held shows once a scrub *)
(* has begun, by pin, CONTROL or command, nothing is added while it runs,  *)
(* and when zeroize_busy falls every SRAM word, every coefficient and      *)
(* every Keccak lane has been cleared, whatever was running when it rose   *)
(* (lines 409-478; docs/REV_A_INTEGRATION.md, zeroize).                    *)
TheVault == INSTANCE Vault WITH
    phase <- IF zeroize_active THEN "wiping" ELSE "open",
    holds <- Holds,
    shows <- Shows
ImplementsVault == TheVault!Spec

(* A tamper or zeroize level that is still asserted after its scrub keeps  *)
(* the core empty: the latch that stops it from scrubbing again is only    *)
(* set over cleared memories, and no request gets in between (lines 401-   *)
(* 454).                                                                   *)
HeldTriggerKeepsClean ==
    (tamper_seen \/ zeroize_seen) /\ ~zeroize_active => ~Holds

(* A start pulse finds its engine idle and not being zeroized, so it is    *)
(* never lost (the engines ignore a start while busy).                     *)
StartNeverLost ==
    /\ ntt_start => ntt_state = "IDLE" /\ ~engine_zeroize
    /\ keccak_start => ~kec_busy /\ ~engine_zeroize

(* The transform and the permutation never run together: host and          *)
(* self-test share both engines without overlap.                           *)
EnginesExclusive ==
    ~(ntt_state \in {"BUTTERFLY", "SCALE"} /\ kec_busy)

(* No fault that lane 0 of the answer shows.                               *)
FaultUnseen == FaultyRounds = {} \/ WrongHalves = {}

(* On healthy engines the self-test never fails, whatever the host and the *)
(* pins do while it runs: it waits for the engine's scrub, and neither an  *)
(* old done flag nor a host write gets between its steps.  With a Keccak   *)
(* engine whose answer to the all-zero state has a wrong bit in lane 0 it  *)
(* never passes, and READY's companion SELFTEST_FAIL stays set.  The       *)
(* other 24 lanes are not looked at: an engine that is wrong in those      *)
(* alone is told from a healthy one by nothing, and the property says so   *)
(* (lines 497-554).                                                        *)
SelfTestSound ==
    IF FaultUnseen THEN error_code # "SELFTEST" ELSE selftest_fail

(* A response that stays on the link does not change, however long the     *)
(* host waits and whatever happens inside (cycle contract, item 5).        *)
ResponseStable ==
    [][rsp_valid /\ rsp_valid' => UNCHANGED <<rsp_data, rsp_last>>]_vars

(* A START runs on exactly what was staged: between the START and the      *)
(* engine's busy flag there is one edge on which nothing looks busy, and   *)
(* no host write or command slips in there, because the response to the    *)
(* START still occupies the link (lines 155, 160, 556).                    *)
StartsOnStagedData ==
    [][(ntt_start \/ keccak_start) /\ ~selftest_busy /\ ~zeroize_active' =>
           UNCHANGED <<coeff, lanes, write_cursor, staged_len>>]_vars

(* Data is only shown from engines at rest: a beat that returns data is    *)
(* accepted when no transform, permutation or scrub is running or about to *)
(* run (lines 566, 588, 610).                                              *)
NoReadFromRunningEngine ==
    [][Shows' /\ ~Shows =>
           /\ ntt_state = "IDLE" /\ ntt_state' = "IDLE"
           /\ ~kec_busy /\ ~kec_busy']_vars

(* After the last reset every scrub ends, and the core comes to rest, even *)
(* if the pins trigger scrubs for ever: a trigger that is held does not    *)
(* scrub again, and each one that is released and raised starts a scrub    *)
(* that walks the whole SRAM before the next (lines 409-454).              *)
ScrubEnds == zeroize_active ~> ~zeroize_active
BusyEnds == busy ~> ~busy

-----------------------------------------------------------------------------
(* What docs/REV_A_INTEGRATION.md says and the code does not do.           *)

(* STATUS bit 2: "DONE: Primitive completion latched".  DONE rises only    *)
(* over engines at rest.  The engines' done flags are sticky, so the first *)
(* edge after a second START takes the completion of the first for its own *)
(* (lines 482-491).                                                        *)
DoneIsCompletion ==
    [][done' /\ ~done => ntt_state' = "IDLE" /\ ~kec_busy']_vars
=============================================================================
