--------------------------- MODULE RevACoreProofs ---------------------------
(***************************************************************************)
(* Proofs about the Rev-A core for every size of its memories, every       *)
(* number of rounds and every host.                                        *)
(***************************************************************************)
EXTENDS RevACore, TLAPS

NL == INSTANCE NttAccelProofs WITH
    N <- NTT_WORDS, ZeroCoeff <- "clear",
    NewA <- TaintAB, NewB <- TaintAB, Scaled <- TaintScaled
-----------------------------------------------------------------------------
(* The inductive invariant.  The registers and the memories have their     *)
(* types.                                                                  *)
Registers ==
    /\ rsp_valid \in BOOLEAN /\ rsp_last \in BOOLEAN /\ rsp_data \in Taint
    /\ init_done \in BOOLEAN /\ zeroize_active \in BOOLEAN
    /\ zeroize_seen \in BOOLEAN /\ tamper_seen \in BOOLEAN
    /\ irq \in BOOLEAN /\ fault \in BOOLEAN /\ done \in BOOLEAN
    /\ selftest_fail \in BOOLEAN /\ selftest_seen_ntt_busy \in BOOLEAN
    /\ ntt_start \in BOOLEAN /\ ntt_host_active \in BOOLEAN
    /\ keccak_start \in BOOLEAN /\ keccak_host_active \in BOOLEAN
    /\ selftest_zeroize_pulse \in BOOLEAN
    /\ scrub_addr \in 0 .. (SRAM_WORDS - 1)
    /\ error_code \in Errors
    /\ command \in Commands
    /\ ntt_command \in NttCommands
    /\ selftest_state \in SelfTestStates

EvenUpTo(n) == {2 * m : m \in 0 .. n \div 2}

Cursors ==
    /\ stream_cursor \in 0 .. MaxBytes
    /\ write_cursor \in [Channels -> Nat]
    /\ read_cursor \in [Channels -> Nat]
    /\ staged_len \in [Channels -> Nat]
    /\ \A ch \in Channels :
        /\ write_cursor[ch] \in EvenUpTo(Limit(ch))
        /\ read_cursor[ch] \in 0 .. Limit(ch)
        /\ staged_len[ch] \in 0 .. Limit(ch)

KeccakInv ==
    /\ kec_busy \in BOOLEAN /\ kec_done \in BOOLEAN
    /\ kec_done => ~kec_busy
    /\ round \in 0 .. (ROUNDS - 1)
    /\ lanes \in WrongLanes .. ROUNDS

Memories ==
    /\ coeff \in BankContents
    /\ sram \in SramContents

(* A scrub has cleared the SRAM up to its address, the Keccak state on its *)
(* first edge, and the coefficients up to the index of the engine's own    *)
(* scrub, which is never more than one edge behind.                        *)
NttClear == \A b \in {0, 1}, r \in Ntt!Row : coeff[b][r] = "clear"
Wiping ==
    zeroize_active =>
        /\ ~Shows
        /\ ~ntt_start /\ ~keccak_start /\ ~selftest_zeroize_pulse
        /\ selftest_state = "IDLE"
        /\ \A a \in 0 .. (scrub_addr - 1) : sram[a] = "clear"
        /\ scrub_addr > 0 => lanes = ClearLanes /\ ~kec_busy
        /\ \/ scrub_addr = 0 /\ ~ntt_zeroize_seen
           \/ /\ ntt_zeroize_seen
              /\ ntt_state = "ZEROIZE" /\ zeroize_index >= scrub_addr - 1
           \/ ntt_zeroize_seen /\ ntt_state = "IDLE" /\ NttClear

(* A start pulse, of the host or of the self-test, stands over two engines *)
(* at rest and no other pulse; the response to the host's START is still   *)
(* on the link.                                                            *)
Launch ==
    /\ ntt_start =>
        /\ ntt_state = "IDLE" /\ ~kec_busy /\ ~keccak_start
        /\ \/ selftest_state = "WAIT_NTT"
           \/ selftest_state = "IDLE" /\ rsp_valid
    /\ keccak_start =>
        /\ ntt_state = "IDLE" /\ ~kec_busy /\ ~ntt_start
        /\ \/ selftest_state = "WAIT_KEC"
           \/ selftest_state = "IDLE" /\ rsp_valid
    /\ selftest_zeroize_pulse =>
        /\ selftest_state = "WAIT_SCRUB" /\ ~selftest_seen_ntt_busy
        /\ ntt_state = "IDLE" /\ ~ntt_zeroize_seen /\ ~kec_busy
    /\ ~(ntt_state \in {"BUTTERFLY", "SCALE"} /\ kec_busy)

(* What each state of the self-test stands on.                             *)
KeccakZero == lanes = ClearLanes /\ ~kec_busy /\ ~kec_done
Permuting == \/ lanes = round /\ \A f \in FaultyRounds : f >= round
             \/ lanes = WrongLanes /\ FaultyRounds # {}
Answered == lanes = IF FaultyRounds = {} THEN ROUNDS ELSE WrongLanes

SelfTesting ==
    /\ selftest_state = "WAIT_SCRUB" =>
        \/ selftest_zeroize_pulse
        \/ /\ KeccakZero
           /\ \/ ntt_state = "ZEROIZE"
              \/ ntt_state = "IDLE" /\ ~ntt_done /\ NttClear
    /\ selftest_state = "WAIT_NTT" =>
        KeccakZero /\ NttClear /\ (ntt_start => ~ntt_done)
    /\ selftest_state = "CHECK_NTT" =>
        KeccakZero /\ NttClear /\ ntt_state = "IDLE"
    /\ selftest_state = "WAIT_KEC" =>
        /\ ntt_state = "IDLE"
        /\ keccak_start => KeccakZero
        /\ kec_busy => Permuting
        /\ ~keccak_start /\ ~kec_busy => Answered
    /\ selftest_state \in {"CHECK_K0", "CHECK_K1"} =>
        ntt_state = "IDLE" /\ ~kec_busy /\ Answered
    /\ selftest_state = "CHECK_K1" => KnownWord(0)

Inv ==
    /\ Registers /\ Cursors
    /\ NL!EngineInv /\ NL!ScrubClears /\ KeccakInv /\ Memories
    /\ Wiping /\ HeldTriggerKeepsClean
    /\ Launch /\ SelfTesting /\ SelfTestSound
-----------------------------------------------------------------------------
(* The lemmas about the engine speak of the engine of the core.            *)
LEMMA SameBanks ==
    /\ \A a : NL!Bank(a) = Ntt!Bank(a) /\ NL!RowOf(a) = Ntt!RowOf(a)
    /\ NL!Address = Ntt!Address /\ NL!Row = Ntt!Row
    /\ \A a : NL!coeff_read(a) = Ntt!coeff_read(a)
<1>1. \A a : NL!Bank(a) = Ntt!Bank(a)
  BY DEF NL!Bank, Ntt!Bank, NL!Parity, Ntt!Parity
<1>2. \A a : NL!RowOf(a) = Ntt!RowOf(a)
  BY DEF NL!RowOf, Ntt!RowOf
<1>3. NL!Address = Ntt!Address /\ NL!Row = Ntt!Row
  BY DEF NL!Address, Ntt!Address, NL!Row, Ntt!Row
<1>4. \A a : NL!coeff_read(a) = Ntt!coeff_read(a)
  BY <1>1, <1>2 DEF NL!coeff_read, Ntt!coeff_read
<1>5. QED
  BY <1>1, <1>2, <1>3, <1>4

(* What is assumed of the engine of the core is what its lemmas assume.    *)
LEMMA EngineSize == NL!SizeOK /\ NL!BanksSplit
<1>1. NL!SizeOK
  BY BankAssumption DEF NL!SizeOK, Ntt!SizeOK, NL!PowerOfTwo, Ntt!PowerOfTwo
<1>2. NL!BanksSplit
  BY BankAssumption, SameBanks
     DEF NL!BanksSplit, Ntt!BanksSplit, NL!PowerOfTwo, Ntt!PowerOfTwo
<1>3. QED
  BY <1>1, <1>2

(* Its reset is theirs.                                                    *)
LEMMA SameReset ==
    /\ Ntt!NttResetState => NL!NttResetState
    /\ Ntt!NttReset => NL!NttReset
  BY DEF Ntt!NttResetState, NL!NttResetState, Ntt!NttReset, NL!NttReset

(* Its edge is theirs.                                                     *)
LEMMA SameEdge ==
    ASSUME NEW z, NEW s, NEW c, NEW h, Ntt!NttEdge(z, s, c, h)
    PROVE  NL!NttEdge(z, s, c, h)
<1>1. \A f, a, v : NL!Store(f, a, v) = Ntt!Store(f, a, v)
  BY SameBanks DEF NL!Store, Ntt!Store
<1>2. NL!HostWritten(z, h) = Ntt!HostWritten(z, h)
  BY <1>1 DEF NL!HostWritten, Ntt!HostWritten
<1>3. /\ NL!NttLatch(z) <=> Ntt!NttLatch(z)
      /\ NL!Forward = Ntt!Forward
      /\ NL!NextK = Ntt!NextK
      /\ NL!next_group_start = Ntt!next_group_start
      /\ NL!peer = Ntt!peer
  BY DEF NL!NttLatch, Ntt!NttLatch, NL!Forward, Ntt!Forward, NL!NextK,
         Ntt!NextK, NL!next_group_start, Ntt!next_group_start,
         NL!peer, Ntt!peer
<1>4. \A cmd, i : NL!ZetaOf(cmd, i) = Ntt!ZetaOf(cmd, i)
  BY DEF NL!ZetaOf, Ntt!ZetaOf
<1>5. NL!FirstLen(c) = Ntt!FirstLen(c) /\ NL!FirstK(c) = Ntt!FirstK(c)
  BY Zenon DEF NL!FirstLen, Ntt!FirstLen, NL!FirstK, Ntt!FirstK,
               NL!Forward, Ntt!Forward
<1>6. NL!LastLayer <=> Ntt!LastLayer
  BY Zenon DEF NL!LastLayer, Ntt!LastLayer
<1>7. NL!Advance <=> Ntt!Advance
  BY Zenon, <1>3, <1>4, <1>6 DEF NL!Advance, Ntt!Advance
<1>8. Ntt!NttZeroizeStart(z) => NL!NttZeroizeStart(z)
  BY DEF NL!NttZeroizeStart, Ntt!NttZeroizeStart
<1>9. Ntt!NttStart(z, s, c, h) => NL!NttStart(z, s, c, h)
  BY Zenon, <1>2, <1>3, <1>4, <1>5 DEF NL!NttStart, Ntt!NttStart
<1>10. Ntt!NttRest(z, s, h) => NL!NttRest(z, s, h)
  BY Zenon, <1>2, <1>3
     DEF NL!NttRest, Ntt!NttRest, NL!schedule, Ntt!schedule
<1>11. Ntt!NttButterfly(z, h) => NL!NttButterfly(z, h)
  BY Zenon, <1>2, <1>3, <1>7, SameBanks DEF NL!NttButterfly, Ntt!NttButterfly
<1>12. Ntt!NttScale(z, h) => NL!NttScale(z, h)
  BY Zenon, <1>1, <1>2, <1>3, SameBanks DEF NL!NttScale, Ntt!NttScale
<1>13. Ntt!NttZeroize(z, h) => NL!NttZeroize(z, h)
  BY Zenon, <1>1, <1>2, <1>3
     DEF NL!NttZeroize, Ntt!NttZeroize, NL!LastZeroize, Ntt!LastZeroize,
         NL!schedule, Ntt!schedule
<1>14. QED
  BY Zenon, <1>8, <1>9, <1>10, <1>11, <1>12, <1>13
     DEF NL!NttEdge, Ntt!NttEdge
-----------------------------------------------------------------------------
(* Sizes and cursors.                                                      *)
LEMMA Sizes ==
    /\ NTT_WORDS \in Nat /\ NTT_WORDS >= 4
    /\ SRAM_WORDS \in Nat /\ SRAM_WORDS > NTT_WORDS
    /\ KECCAK_WORDS \in Nat \ {0} /\ ROUNDS \in Nat \ {0}
    /\ Ntt!Address = 0 .. (NTT_WORDS - 1)
<1>1. NTT_WORDS \in Nat /\ NTT_WORDS >= 4
  BY EngineSize DEF NL!SizeOK
<1>2. QED
  BY <1>1, CoreAssumption DEF Ntt!Address

(* The length of each channel in bytes.                                    *)
LEMMA Limits ==
    /\ Limit("ntt") = 4 * NTT_WORDS
    /\ Limit("keccak") = 4 * KECCAK_WORDS
    /\ Limit("sram") = 4 * SRAM_WORDS
    /\ \A ch \in Channels :
        /\ \E w \in Nat : Limit(ch) = 4 * w
        /\ Limit(ch) \in Nat /\ Limit(ch) <= MaxBytes
<1>1. Limit("ntt") = 4 * NTT_WORDS
  BY Zenon DEF Limit
<1>2. Limit("keccak") = 4 * KECCAK_WORDS
  BY Zenon DEF Limit
<1>3. Limit("sram") = 4 * SRAM_WORDS
  BY Zenon DEF Limit
<1>4. ASSUME NEW ch \in Channels
      PROVE  \E w \in Nat : Limit(ch) = 4 * w /\ 4 * w <= MaxBytes
  <2>1. ch = "ntt" \/ ch = "keccak" \/ ch = "sram"
    BY DEF Channels
  <2>2. /\ 4 * NTT_WORDS <= MaxBytes /\ 4 * KECCAK_WORDS <= MaxBytes
        /\ 4 * SRAM_WORDS <= MaxBytes
    BY SMT, Sizes DEF MaxBytes
  <2>3. QED
    BY Sizes, <1>1, <1>2, <1>3, <2>1, <2>2
<1>5. ASSUME NEW ch \in Channels
      PROVE  /\ \E w \in Nat : Limit(ch) = 4 * w
             /\ Limit(ch) \in Nat /\ Limit(ch) <= MaxBytes
  <2>1. PICK w \in Nat : Limit(ch) = 4 * w /\ 4 * w <= MaxBytes
    BY <1>4
  <2>2. QED
    BY SMT, <2>1
<1>6. QED
  BY <1>1, <1>2, <1>3, <1>5

(* A step of an even cursor stays even, except for a last odd byte, which  *)
(* resets it.                                                              *)
LEMMA EvenStep ==
    ASSUME NEW w \in Nat, NEW c \in EvenUpTo(4 * w)
    PROVE  /\ c \in 0 .. 4 * w
           /\ c + 2 <= 4 * w => c + 2 \in EvenUpTo(4 * w)
           /\ 0 \in EvenUpTo(4 * w)
<1>1. (4 * w) \div 2 = 2 * w
  BY SMT
<1>2. PICK m \in 0 .. 2 * w : c = 2 * m
  BY <1>1 DEF EvenUpTo
<1>3. c + 2 <= 4 * w => m + 1 \in 0 .. 2 * w /\ c + 2 = 2 * (m + 1)
  BY SMT, <1>2
<1>4. 0 \in 0 .. 2 * w /\ 0 = 2 * 0
  BY SMT
<1>5. c \in 0 .. 4 * w
  BY SMT, <1>2
<1>6. QED
  BY <1>1, <1>3, <1>4, <1>5 DEF EvenUpTo
-----------------------------------------------------------------------------
(* The registers by the part of an action that assigns them.               *)
ResponseTypes ==
    /\ rsp_valid \in BOOLEAN /\ rsp_last \in BOOLEAN /\ rsp_data \in Taint
ScrubTypes ==
    /\ init_done \in BOOLEAN /\ zeroize_active \in BOOLEAN
    /\ scrub_addr \in 0 .. (SRAM_WORDS - 1)
SeenTypes == zeroize_seen \in BOOLEAN /\ tamper_seen \in BOOLEAN
StatusTypes ==
    /\ irq \in BOOLEAN /\ fault \in BOOLEAN /\ done \in BOOLEAN
    /\ error_code \in Errors
LaunchTypes ==
    /\ selftest_fail \in BOOLEAN /\ selftest_seen_ntt_busy \in BOOLEAN
    /\ ntt_start \in BOOLEAN /\ ntt_host_active \in BOOLEAN
    /\ keccak_start \in BOOLEAN /\ keccak_host_active \in BOOLEAN
    /\ selftest_zeroize_pulse \in BOOLEAN
    /\ ntt_command \in NttCommands
    /\ selftest_state \in SelfTestStates

(* The registers are these parts.                                          *)
LEMMA RegisterParts ==
    /\ Registers <=> /\ ResponseTypes /\ ScrubTypes /\ SeenTypes /\ StatusTypes
                     /\ LaunchTypes /\ command \in Commands
    /\ Registers' <=> /\ ResponseTypes' /\ ScrubTypes' /\ SeenTypes'
                      /\ StatusTypes' /\ LaunchTypes' /\ command' \in Commands
  BY Zenon DEF Registers, ResponseTypes, ScrubTypes, SeenTypes, StatusTypes,
               LaunchTypes

(* A latched error is the self-test's only if the self-test failed.        *)
ErrorSource ==
    error_code' = "SELFTEST" => error_code = "SELFTEST" \/ selftest_fails

(* The background keeps the types of the launch registers.                 *)
LEMMA BackgroundTypes ==
    ASSUME Registers, Background
    PROVE  LaunchTypes'
<1>1. selftest_fail' \in BOOLEAN
  BY DEF Background, SelfTestVerdict
<1>2. ntt_host_active' \in BOOLEAN /\ keccak_host_active' \in BOOLEAN
      /\ selftest_zeroize_pulse' \in BOOLEAN
  BY DEF Background, HostActive
<1>3. /\ ntt_start' \in BOOLEAN /\ keccak_start' \in BOOLEAN
      /\ ntt_command' \in NttCommands /\ selftest_state' \in SelfTestStates
      /\ selftest_seen_ntt_busy' \in BOOLEAN
  <2>1. CASE SelfTestMoves
    BY <2>1 DEF SelfTestMoves, Registers, NttCommands, SelfTestStates
  <2>2. CASE SelfTestWaits
    BY <2>2 DEF SelfTestWaits, Registers, SeenBusy
  <2>3. QED
    BY <2>1, <2>2 DEF Background
<1>4. QED
  BY <1>1, <1>2, <1>3 DEF LaunchTypes

(* The status registers that the background leaves.                        *)
LEMMA BackgroundStatus ==
    ASSUME Registers
    PROVE  /\ bg_done \in BOOLEAN /\ bg_irq \in BOOLEAN /\ bg_fault \in BOOLEAN
           /\ bg_error \in Errors
           /\ bg_error = "SELFTEST" =>
                  error_code = "SELFTEST" \/ selftest_fails
  BY DEF bg_done, bg_irq, bg_fault, bg_error, Registers, Errors

(* The status registers when a request leaves them to the background.      *)
LEMMA KeptStatus ==
    ASSUME Registers, StatusKept
    PROVE  StatusTypes' /\ ErrorSource
  BY BackgroundStatus DEF StatusKept, StatusTypes, ErrorSource

(* The status registers when a request latches an error of its own.        *)
LEMMA ErrorStatus ==
    ASSUME Registers, NEW e \in Errors \ {"SELFTEST"}, StatusError(e)
    PROVE  StatusTypes' /\ ErrorSource
  BY BackgroundStatus DEF StatusError, StatusTypes, ErrorSource

(* The response and the latches when a request is accepted.                *)
LEMMA AcceptedTypes ==
    ASSUME Registers, NEW pins \in Pins, NEW data \in Taint,
           NEW last \in BOOLEAN, Accept(pins, data, last)
    PROVE  ResponseTypes' /\ SeenTypes'
  BY DEF Accept, Running, LatchesReleased, ResponseTypes, SeenTypes, Registers,
         Pins
-----------------------------------------------------------------------------
(* What an edge of the run branch does, whichever request it takes: it     *)
(* launches something or leaves the engines to the background, and host    *)
(* data reaches a memory only while nothing is busy.                       *)
Plain == Background /\ UNCHANGED <<zeroize_active, scrub_addr>>
LaunchesNtt ==
    /\ ntt_start' = TRUE /\ keccak_start' = FALSE
    /\ selftest_zeroize_pulse' = FALSE
    /\ UNCHANGED <<selftest_state, selftest_seen_ntt_busy, selftest_fail,
                   zeroize_active, scrub_addr>>
LaunchesKeccak ==
    /\ ntt_start' = FALSE /\ keccak_start' = TRUE
    /\ selftest_zeroize_pulse' = FALSE
    /\ UNCHANGED <<selftest_state, selftest_seen_ntt_busy, selftest_fail,
                   zeroize_active, scrub_addr>>
LaunchesWipe == Background /\ zeroize_active' = TRUE /\ scrub_addr' = 0
LaunchesSelfTest ==
    /\ ntt_start' = FALSE /\ keccak_start' = FALSE
    /\ selftest_zeroize_pulse' = TRUE
    /\ selftest_state' = "WAIT_SCRUB" /\ selftest_seen_ntt_busy' = FALSE
    /\ selftest_fail' = TRUE
    /\ UNCHANGED <<zeroize_active, scrub_addr>>
Launches ==
    \/ Plain
    \/ ~busy /\ (LaunchesNtt \/ LaunchesKeccak \/ LaunchesWipe
                    \/ LaunchesSelfTest)

HostBeat(hn, hk) ==
    /\ hn.we => ~busy /\ Plain /\ hn.addr \in NL!Address /\ hn.data = "data"
    /\ hk.we => ~busy /\ Plain
MemoryEdge ==
    /\ \E hn, hk : Engines(hn, hk) /\ HostBeat(hn, hk)
    /\ \/ sram' = sram
       \/ ~busy /\ Plain
            /\ \E a \in 0 .. (SRAM_WORDS - 1) : SramWrite(a, "data")

Served(pins) ==
    /\ Running(pins) /\ req_ready(pins)
    /\ rsp_valid' = TRUE
    /\ \/ rsp_data' = "clear"
       \/ rsp_data' = "data" /\ ~busy /\ Holds /\ Plain
    /\ Launches
    /\ MemoryEdge
    /\ ErrorSource

Typed == Registers /\ Cursors

(* An edge without a beat is a memory edge.                                *)
LEMMA QuietMemory ==
    ASSUME QuietEngines, UNCHANGED sram
    PROVE  MemoryEdge
<1>1. NoWrite.we = FALSE
  BY DEF NoWrite
<1>2. HostBeat(NoWrite, NoWrite)
  BY <1>1 DEF HostBeat
<1>3. QED
  BY <1>2 DEF MemoryEdge, QuietEngines

(* Cursors that are left alone keep their ranges.                          *)
LEMMA CursorsKept ==
    ASSUME Cursors, UNCHANGED cursorVars
    PROVE  Cursors'
  BY DEF Cursors, cursorVars

(* Zero is a place on every channel.                                       *)
LEMMA ZeroCursor ==
    \A ch \in Channels : 0 \in EvenUpTo(Limit(ch)) /\ 0 \in 0 .. Limit(ch)
<1>1. ASSUME NEW w \in Nat
      PROVE  0 \in EvenUpTo(4 * w) /\ 0 \in 0 .. 4 * w
  <2>1. 0 \in 0 .. (4 * w) \div 2 /\ 0 = 2 * 0 /\ 0 \in 0 .. 4 * w
    BY SMT
  <2>2. QED
    BY <2>1 DEF EvenUpTo
<1>2. QED
  BY <1>1, Limits

(* Cleared cursors are in range.                                           *)
LEMMA CursorsReset ==
    ASSUME CursorsCleared
    PROVE  Cursors'
<1>1. 0 \in 0 .. MaxBytes
  BY SMT, Sizes DEF MaxBytes
<1>2. QED
  BY <1>1, ZeroCursor DEF CursorsCleared, Cursors

(* A request that leaves the cursors and the memories alone.               *)
LEMMA PlainRequest ==
    ASSUME Typed, NEW pins \in Pins, Accept(pins, "clear", TRUE),
           Background, UNCHANGED <<scrubVars, cursorVars, sram>>,
           QuietEngines, StatusTypes', ErrorSource, command' \in Commands
    PROVE  Registers' /\ Cursors' /\ Served(pins)
<1>1. ResponseTypes' /\ SeenTypes'
  BY AcceptedTypes DEF Typed, Taint
<1>2. LaunchTypes'
  BY BackgroundTypes DEF Typed
<1>3. ScrubTypes'
  BY DEF Typed, Registers, ScrubTypes, scrubVars
<1>4. Registers'
  BY <1>1, <1>2, <1>3, RegisterParts
<1>5. Cursors'
  BY CursorsKept DEF Typed
<1>6. Launches
  BY DEF Launches, Plain, scrubVars
<1>7. Served(pins)
  BY <1>6, QuietMemory DEF Served, Accept
<1>8. QED
  BY <1>4, <1>5, <1>7

(* The requests that answer with status alone.                             *)
LEMMA StatusRequests ==
    ASSUME Typed, NEW pins \in Pins, NEW ch \in Channels, NEW one \in BOOLEAN,
           NEW cmd \in Commands,
           \/ ReadCsr(pins) \/ BadAddress(pins) \/ ReadRefused(pins, ch, one)
           \/ WriteCommand(pins, cmd)
    PROVE  Registers' /\ Cursors' /\ Served(pins)
<1>1. Registers /\ command \in Commands
  BY DEF Typed, Registers
<1>2. CASE ReadCsr(pins)
  <2>1. StatusTypes' /\ ErrorSource
    BY <1>1, <1>2, KeptStatus DEF ReadCsr
  <2>2. QED
    BY <1>1, <1>2, <2>1, PlainRequest DEF ReadCsr, scrubVars, cursorVars
<1>3. CASE BadAddress(pins)
  <2>1. StatusTypes' /\ ErrorSource
    BY <1>1, <1>3, ErrorStatus DEF BadAddress, Errors
  <2>2. QED
    BY <1>1, <1>3, <2>1, PlainRequest DEF BadAddress, scrubVars, cursorVars
<1>4. CASE ReadRefused(pins, ch, one)
  <2>1. StatusTypes' /\ ErrorSource
    BY <1>1, <1>4, ErrorStatus DEF ReadRefused, Errors
  <2>2. QED
    BY <1>1, <1>4, <2>1, PlainRequest DEF ReadRefused, scrubVars, cursorVars
<1>5. CASE WriteCommand(pins, cmd)
  <2>1. StatusTypes' /\ ErrorSource
    BY <1>1, <1>5, ErrorStatus, KeptStatus DEF WriteCommand, Errors
  <2>2. command' \in Commands
    BY <1>1, <1>5 DEF WriteCommand
  <2>3. QED
    BY <1>5, <2>1, <2>2, PlainRequest DEF WriteCommand, scrubVars, cursorVars
<1>6. QED
  BY <1>2, <1>3, <1>4, <1>5

(* The word that a read beat returns is a mark, and host data comes from a *)
(* memory that holds some.                                                 *)
LEMMA ReadWord ==
    ASSUME Typed, Memories, NEW ch \in Channels, NEW one \in BOOLEAN,
           ReadEnd(ch, one) <= Limit(ch)
    PROVE  ReadData(ch) = "clear" \/ (ReadData(ch) = "data" /\ Holds)
<1>1. read_cursor[ch] \in Nat /\ read_cursor[ch] + 1 <= Limit(ch)
  BY SMT, Limits DEF Typed, Cursors, ReadEnd, Step
<1> DEFINE c == read_cursor[ch]
           w == c \div 4
<1>2. w \in Nat
  BY SMT, <1>1
<1>3. CASE ch = "ntt"
  <2>1. ReadData(ch) = Ntt!coeff_read(w)
    BY Zenon, <1>3 DEF ReadData
  <2>2. w \in Ntt!Address
    BY SMT, <1>1, <1>3, Limits, Sizes
  <2>3. Ntt!Bank(w) \in {0, 1} /\ Ntt!RowOf(w) \in Ntt!Row
    BY <2>2, EngineSize, SameBanks, NL!Cell DEF NL!TwoBanks
  <2>4. Ntt!coeff_read(w) \in Taint
    BY <2>3 DEF Memories, BankContents, Ntt!coeff_read
  <2>5. Ntt!coeff_read(w) # "clear" => Holds
    BY <2>3 DEF Holds, Ntt!coeff_read
  <2>6. QED
    BY <2>1, <2>4, <2>5 DEF Taint
<1>4. CASE ch = "keccak"
  <2>1. ReadData(ch) = IF lanes = DataLanes THEN "data" ELSE "clear"
    BY Zenon, <1>4 DEF ReadData
  <2>2. QED
    BY <2>1 DEF Holds
<1>5. CASE ch = "sram"
  <2> DEFINE a == w % SRAM_WORDS
  <2>1. ReadData(ch) = sram[a]
    BY Zenon, <1>5 DEF ReadData
  <2>2. a \in 0 .. (SRAM_WORDS - 1)
    BY SMT, <1>2, Sizes
  <2> HIDE DEF a
  <2>3. sram[a] \in Taint
    BY <2>2 DEF Memories, SramContents
  <2>4. sram[a] # "clear" => Holds
    BY <2>2 DEF Holds
  <2>5. QED
    BY <2>1, <2>3, <2>4 DEF Taint
<1>6. QED
  BY <1>3, <1>4, <1>5 DEF Channels

(* A read beat keeps its cursor in the window and shows a word of its      *)
(* memory.                                                                 *)
LEMMA ReadBeats ==
    ASSUME Typed, Memories, NEW pins \in Pins, NEW ch \in Channels,
           NEW one \in BOOLEAN, NEW last \in BOOLEAN,
           ReadBeat(pins, ch, one, last)
    PROVE  Registers' /\ Cursors' /\ Served(pins)
<1> DEFINE end == ReadEnd(ch, one)
           wrap == IF ch = "sram" THEN last ELSE end = Limit(ch)
<1>1. /\ ~busy /\ end <= Limit(ch) /\ Accept(pins, ReadData(ch), wrap)
      /\ stream_cursor' = end
      /\ read_cursor' = [read_cursor EXCEPT ![ch] = IF wrap THEN 0 ELSE end]
      /\ Background /\ StatusKept /\ QuietEngines
      /\ UNCHANGED <<write_cursor, staged_len, scrubVars, command, sram>>
  BY DEF ReadBeat
<1>2. ReadData(ch) = "clear" \/ (ReadData(ch) = "data" /\ Holds)
  BY <1>1, ReadWord
<1>3. Limit(ch) \in Nat /\ Limit(ch) <= MaxBytes
  BY Limits
<1>4. end \in Nat
  BY SMT DEF Typed, Cursors, ReadEnd, Step
<1>5. Registers'
  <2>1. ResponseTypes' /\ SeenTypes'
    BY <1>1, <1>2, AcceptedTypes DEF Typed, Taint
  <2>2. LaunchTypes' /\ StatusTypes'
    BY <1>1, BackgroundTypes, KeptStatus DEF Typed
  <2>3. ScrubTypes' /\ command' \in Commands
    BY <1>1 DEF Typed, Registers, ScrubTypes, scrubVars
  <2>4. QED
    BY <2>1, <2>2, <2>3, RegisterParts
<1>6. Cursors'
  <2>1. stream_cursor' \in 0 .. MaxBytes
    BY SMT, <1>1, <1>3, <1>4, Sizes DEF MaxBytes
  <2> DEFINE new == IF wrap THEN 0 ELSE end
  <2>2. new \in Nat /\ new \in 0 .. Limit(ch)
    BY SMT, <1>1, <1>3, <1>4
  <2>3. read_cursor' = [read_cursor EXCEPT ![ch] = new]
    BY <1>1
  <2> HIDE DEF new
  <2>4. /\ read_cursor' \in [Channels -> Nat]
        /\ \A c \in Channels : read_cursor'[c] \in 0 .. Limit(c)
    BY <2>2, <2>3 DEF Typed, Cursors
  <2>5. QED
    BY <1>1, <2>1, <2>4 DEF Typed, Cursors
<1>7. Served(pins)
  <2>1. Launches /\ Plain /\ UNCHANGED sram
    BY <1>1 DEF Launches, Plain, scrubVars
  <2>2. MemoryEdge /\ ErrorSource
    BY <1>1, <2>1, QuietMemory, KeptStatus DEF Typed
  <2>3. QED
    BY <1>1, <1>2, <2>1, <2>2 DEF Served, Accept
<1>8. QED
  BY <1>5, <1>6, <1>7

(* A write beat that fires reaches a word of its memory.                   *)
LEMMA BeatMemory ==
    ASSUME Typed, NEW ch \in Channels, NEW one \in BOOLEAN,
           NEW last \in BOOLEAN, MemoryBeat(ch, one, last), Plain
    PROVE  MemoryEdge
<1> DEFINE fires == WriteFires(ch, one, last)
           hn == IF fires /\ ch = "ntt" THEN HostWrite(ch) ELSE NoWrite
           hk == IF fires /\ ch = "keccak" THEN HostWrite(ch) ELSE NoWrite
           a == (write_cursor[ch] \div 4) % SRAM_WORDS
<1>1. /\ Engines(hn, hk)
      /\ IF fires /\ ch = "sram" THEN SramWrite(a, "data") ELSE UNCHANGED sram
  BY DEF MemoryBeat
<1>2. fires => ~busy /\ write_cursor[ch] + 1 <= Limit(ch)
  BY SMT, Limits DEF WriteFires, WriteEnd, Step, Typed, Cursors
<1>3. write_cursor[ch] \in Nat
  BY DEF Typed, Cursors
<1>4. fires /\ ch = "ntt" => write_cursor[ch] \div 4 \in NL!Address
  <2>1. NL!Address = 0 .. (NTT_WORDS - 1)
    BY SameBanks, Sizes
  <2>2. QED
    BY SMT, <1>2, <1>3, <2>1, Limits, Sizes
<1>5. a \in 0 .. (SRAM_WORDS - 1)
  BY SMT, <1>3, Sizes
<1>6. NoWrite.we = FALSE /\ HostWrite(ch).data = "data"
      /\ HostWrite(ch).addr = write_cursor[ch] \div 4
  BY DEF NoWrite, HostWrite
<1> HIDE DEF fires, a
<1>7. HostBeat(hn, hk)
  BY <1>2, <1>4, <1>6 DEF HostBeat
<1> HIDE DEF hn, hk
<1>8. sram' = sram \/ (~busy /\ SramWrite(a, "data"))
  BY <1>1, <1>2
<1>9. QED
  BY <1>1, <1>5, <1>7, <1>8 DEF MemoryEdge

(* A refused write beat, which may still reach its memory.                 *)
LEMMA WriteRefusals ==
    ASSUME Typed, NEW pins \in Pins, NEW ch \in Channels,
           NEW one \in BOOLEAN, NEW last \in BOOLEAN,
           WriteRefused(pins, ch, one, last)
    PROVE  Registers' /\ Cursors' /\ Served(pins)
<1>1. /\ Accept(pins, "clear", TRUE) /\ MemoryBeat(ch, one, last)
      /\ Background /\ UNCHANGED <<stream_cursor, read_cursor, scrubVars, command>>
  BY DEF WriteRefused
<1>2. StatusTypes' /\ ErrorSource
  BY ErrorStatus DEF WriteRefused, Errors, Typed
<1>3. Registers'
  <2>1. ResponseTypes' /\ SeenTypes' /\ LaunchTypes'
    BY <1>1, AcceptedTypes, BackgroundTypes DEF Typed, Taint
  <2>2. ScrubTypes' /\ command' \in Commands
    BY <1>1 DEF Typed, Registers, ScrubTypes, scrubVars
  <2>3. QED
    BY <1>2, <2>1, <2>2, RegisterParts
<1>4. Cursors'
  <2>1. Limit(ch) \in Nat /\ 0 \in EvenUpTo(Limit(ch)) /\ 0 \in 0 .. Limit(ch)
    <3>1. PICK w \in Nat : Limit(ch) = 4 * w
      BY Limits
    <3>2. 0 \in EvenUpTo(4 * w) /\ write_cursor[ch] \in EvenUpTo(4 * w)
      BY <3>1, EvenStep DEF Typed, Cursors
    <3>3. QED
      BY SMT, <3>1, <3>2, Limits
  <2>2. \/ UNCHANGED <<write_cursor, staged_len>>
        \/ /\ write_cursor' = [write_cursor EXCEPT ![ch] = 0]
           /\ staged_len' = [staged_len EXCEPT ![ch] = 0]
    BY DEF WriteRefused
  <2>3. /\ write_cursor' \in [Channels -> Nat]
        /\ staged_len' \in [Channels -> Nat]
        /\ \A c \in Channels : /\ write_cursor'[c] \in EvenUpTo(Limit(c))
                               /\ staged_len'[c] \in 0 .. Limit(c)
    BY <2>1, <2>2 DEF Typed, Cursors
  <2>4. QED
    BY <1>1, <2>3 DEF Typed, Cursors
<1>5. Served(pins)
  <2>1. Launches /\ Plain
    BY <1>1 DEF Launches, Plain, scrubVars
  <2>2. QED
    BY <1>1, <1>2, <2>1, BeatMemory DEF Served, Accept
<1>6. QED
  BY <1>3, <1>4, <1>5

(* A write beat keeps its cursor even and in the window.                   *)
LEMMA WriteBeats ==
    ASSUME Typed, NEW pins \in Pins, NEW ch \in Channels,
           NEW one \in BOOLEAN, NEW last \in BOOLEAN,
           WriteBeat(pins, ch, one, last)
    PROVE  Registers' /\ Cursors' /\ Served(pins)
<1> DEFINE end == WriteEnd(ch, one)
<1>1. /\ Accept(pins, "clear", last) /\ MemoryBeat(ch, one, last)
      /\ one => last
      /\ ~LengthWrong(ch, one, last)
      /\ stream_cursor' = end
      /\ write_cursor' = [write_cursor EXCEPT ![ch] = IF last THEN 0 ELSE end]
      /\ staged_len' = IF last THEN [staged_len EXCEPT ![ch] = end]
                       ELSE staged_len
      /\ Background /\ StatusKept /\ UNCHANGED <<read_cursor, scrubVars, command>>
  BY DEF WriteBeat
<1>2. Registers' /\ ErrorSource
  <2>1. ResponseTypes' /\ SeenTypes' /\ LaunchTypes' /\ StatusTypes'
        /\ ErrorSource
    BY <1>1, AcceptedTypes, BackgroundTypes, KeptStatus DEF Typed, Taint
  <2>2. ScrubTypes' /\ command' \in Commands
    BY <1>1 DEF Typed, Registers, ScrubTypes, scrubVars
  <2>3. QED
    BY <2>1, <2>2, RegisterParts
<1>3. Cursors'
  <2>1. PICK w \in Nat : Limit(ch) = 4 * w /\ 4 * w <= MaxBytes
    BY Limits
  <2>2. /\ write_cursor[ch] \in EvenUpTo(4 * w) /\ write_cursor[ch] \in Nat
        /\ end = write_cursor[ch] + IF one THEN 1 ELSE 2
    BY <2>1 DEF Typed, Cursors, WriteEnd, Step
  <2>3. end \in Nat /\ end <= 4 * w
    BY SMT, <1>1, <2>1, <2>2 DEF LengthWrong
  <2>4. stream_cursor' \in 0 .. MaxBytes
    BY SMT, <1>1, <2>1, <2>3, Sizes DEF MaxBytes
  <2> DEFINE new == IF last THEN 0 ELSE end
  <2>5. new \in EvenUpTo(Limit(ch)) /\ new \in Nat
    <3>1. CASE last
      BY <2>1, <2>2, <3>1, EvenStep
    <3>2. CASE ~last
      <4>1. end = write_cursor[ch] + 2
        BY <1>1, <2>2, <3>2
      <4>2. QED
        BY <2>1, <2>2, <2>3, <3>2, <4>1, EvenStep
    <3>3. QED
      BY <3>1, <3>2
  <2>6. end \in 0 .. Limit(ch)
    BY SMT, <2>1, <2>3
  <2>7. write_cursor' = [write_cursor EXCEPT ![ch] = new]
    BY <1>1
  <2> HIDE DEF new
  <2>8. /\ write_cursor' \in [Channels -> Nat]
        /\ \A c \in Channels : write_cursor'[c] \in EvenUpTo(Limit(c))
    BY <2>5, <2>7 DEF Typed, Cursors
  <2>9. /\ staged_len' \in [Channels -> Nat]
        /\ \A c \in Channels : staged_len'[c] \in 0 .. Limit(c)
    <3> HIDE DEF end
    <3>1. QED
      BY <1>1, <2>3, <2>6 DEF Typed, Cursors
  <2>10. QED
    BY <1>1, <2>4, <2>8, <2>9 DEF Typed, Cursors
<1>4. Served(pins)
  <2>1. Launches /\ Plain
    BY <1>1 DEF Launches, Plain, scrubVars
  <2>2. QED
    BY <1>1, <1>2, <2>1, BeatMemory DEF Served, Accept
<1>5. QED
  BY <1>2, <1>3, <1>4

(* CONTROL: the part all its requests share.                               *)
LEMMA ControlWrites ==
    ASSUME Typed, NEW pins \in Pins, NEW ctl,
           NEW e \in Errors \ {"SELFTEST"}, ControlWrite(pins, ctl, e)
    PROVE  /\ ResponseTypes' /\ SeenTypes' /\ StatusTypes'
           /\ command' \in Commands /\ Cursors' /\ UNCHANGED init_done
           /\ ErrorSource /\ MemoryEdge
           /\ Accept(pins, "clear", TRUE)
<1>1. Accept(pins, "clear", TRUE) /\ QuietEngines
      /\ UNCHANGED <<command, sram, init_done>>
  BY DEF ControlWrite
<1>2. ResponseTypes' /\ SeenTypes'
  BY <1>1, AcceptedTypes DEF Typed, Taint
<1>3. StatusTypes' /\ ErrorSource
  <2>1. done' \in BOOLEAN /\ irq' \in BOOLEAN /\ fault' \in BOOLEAN
    BY DEF ControlWrite
  <2>2. error_code' = e \/ error_code' = "NONE" \/ error_code' = bg_error
    BY DEF ControlWrite
  <2>3. QED
    BY <2>1, <2>2, BackgroundStatus
       DEF Typed, StatusTypes, ErrorSource, Errors
<1>4. command' \in Commands
  BY <1>1 DEF Typed, Registers
<1>5. Cursors'
  <2>1. CursorsCleared \/ UNCHANGED cursorVars
    BY DEF ControlWrite
  <2>2. QED
    BY <2>1, CursorsReset, CursorsKept DEF Typed
<1>6. MemoryEdge
  BY <1>1, QuietMemory
<1>7. QED
  BY <1>1, <1>2, <1>3, <1>4, <1>5, <1>6

(* A refused START latches no self-test error; one that is taken finds     *)
(* nothing busy.                                                           *)
LEMMA RefusalError ==
    /\ Refusal \in Errors \ {"SELFTEST"}
    /\ Refusal = "NONE" => ~busy
  BY DEF Refusal, Errors

(* The launches of the host.                                               *)
LEMMA ControlRequests ==
    ASSUME Typed, NEW pins \in Pins, NEW ctl,
           \/ WriteControl(pins, ctl) \/ StartRefused(pins, ctl)
           \/ StartNtt(pins, ctl) \/ StartKeccak(pins, ctl)
           \/ StartWipe(pins, ctl) \/ StartSelfTest(pins, ctl)
    PROVE  Registers' /\ Cursors' /\ Served(pins)
<1>1. PICK e \in Errors \ {"SELFTEST"} : ControlWrite(pins, ctl, e)
  <2>1. "NONE" \in Errors \ {"SELFTEST"}
    BY DEF Errors
  <2>2. QED
    BY <2>1, RefusalError DEF WriteControl, StartRefused, StartNtt,
       StartKeccak, StartWipe, StartSelfTest, StartTaken
<1>2. /\ ResponseTypes' /\ SeenTypes' /\ StatusTypes'
      /\ command' \in Commands /\ Cursors' /\ UNCHANGED init_done
      /\ ErrorSource /\ MemoryEdge /\ Accept(pins, "clear", TRUE)
  BY <1>1, ControlWrites
<1>3. Launches
  <2>1. CASE WriteControl(pins, ctl) \/ StartRefused(pins, ctl)
    BY <2>1 DEF WriteControl, StartRefused, NoLaunch, Launches, Plain
  <2>2. CASE StartNtt(pins, ctl)
    BY <2>2, RefusalError DEF StartNtt, StartTaken, Launches, LaunchesNtt
  <2>3. CASE StartKeccak(pins, ctl)
    BY <2>3, RefusalError
       DEF StartKeccak, StartTaken, Launches, LaunchesKeccak
  <2>4. CASE StartWipe(pins, ctl)
    BY <2>4, RefusalError DEF StartWipe, StartTaken, Launches, LaunchesWipe
  <2>5. CASE StartSelfTest(pins, ctl)
    BY <2>5, RefusalError
       DEF StartSelfTest, StartTaken, Launches, LaunchesSelfTest
  <2>6. QED
    BY <2>1, <2>2, <2>3, <2>4, <2>5
<1>4. LaunchTypes' /\ ScrubTypes'
  <2>1. Registers /\ 0 \in 0 .. (SRAM_WORDS - 1)
    BY SMT, Sizes DEF Typed
  <2>2. CASE WriteControl(pins, ctl) \/ StartRefused(pins, ctl)
    BY <1>2, <2>1, <2>2, BackgroundTypes
       DEF WriteControl, StartRefused, NoLaunch, Registers, ScrubTypes
  <2>3. CASE StartNtt(pins, ctl)
    BY <1>2, <2>1, <2>3 DEF StartNtt, Registers, LaunchTypes, ScrubTypes
  <2>4. CASE StartKeccak(pins, ctl)
    BY <1>2, <2>1, <2>4 DEF StartKeccak, Registers, LaunchTypes, ScrubTypes
  <2>5. CASE StartWipe(pins, ctl)
    BY <1>2, <2>1, <2>5, BackgroundTypes DEF StartWipe, Registers, ScrubTypes
  <2>6. CASE StartSelfTest(pins, ctl)
    BY <1>2, <2>1, <2>6 DEF StartSelfTest, HostActive, Registers,
       LaunchTypes, ScrubTypes, SelfTestStates
  <2>7. QED
    BY <2>2, <2>3, <2>4, <2>5, <2>6
<1>5. Served(pins)
  BY <1>2, <1>3 DEF Served, Accept
<1>6. QED
  BY <1>2, <1>4, <1>5, RegisterParts

(* A request either wipes the core or is served by the run branch.         *)
LEMMA Requests ==
    ASSUME Typed, Memories, NEW pins \in Pins, Request(pins)
    PROVE  \/ Registers' /\ Cursors' /\ Served(pins)
           \/ \E ctl : ControlWipe(pins, ctl)
<1>1. /\ HostChannels \subseteq Channels /\ HostCommands \subseteq Commands
      /\ ByteBeats \subseteq BOOLEAN
  BY CoreAssumption
<1>2. CASE ReadCsr(pins) \/ BadAddress(pins)
  BY <1>2, StatusRequests, "ntt" \in Channels, TRUE \in BOOLEAN,
     "OTHER" \in Commands DEF Channels, Commands
<1>3. ASSUME NEW ch \in HostChannels, NEW one \in ByteBeats,
             ReadRefused(pins, ch, one)
      PROVE  Registers' /\ Cursors' /\ Served(pins)
  <2>1. ch \in Channels /\ one \in BOOLEAN /\ "OTHER" \in Commands
    BY <1>1 DEF Commands
  <2>2. QED
    BY <1>3, <2>1, StatusRequests
<1>4. ASSUME NEW ch \in HostChannels, NEW one \in ByteBeats,
             NEW last \in BOOLEAN,
             \/ ReadBeat(pins, ch, one, last)
             \/ WriteRefused(pins, ch, one, last)
             \/ WriteBeat(pins, ch, one, last)
      PROVE  Registers' /\ Cursors' /\ Served(pins)
  <2>1. ch \in Channels /\ one \in BOOLEAN
    BY <1>1
  <2>2. QED
    BY <1>4, <2>1, ReadBeats, WriteRefusals, WriteBeats
<1>5. ASSUME NEW cmd \in HostCommands, WriteCommand(pins, cmd)
      PROVE  Registers' /\ Cursors' /\ Served(pins)
  <2>1. cmd \in Commands /\ "ntt" \in Channels /\ TRUE \in BOOLEAN
    BY <1>1 DEF Channels
  <2>2. QED
    BY <1>5, <2>1, StatusRequests
<1>6. QED
  BY <1>2, <1>3, <1>4, <1>5, ControlRequests DEF Request

(* The registers on an edge of the scrub.                                  *)
LEMMA ScrubKeepsTypes ==
    ASSUME Typed, NEW pins \in Pins, Scrub(pins)
    PROVE  Registers' /\ Cursors' /\ ErrorSource
<1>1. scrub_addr' \in 0 .. (SRAM_WORDS - 1)
  <2>1. CASE LastWord
    BY SMT, <2>1, Sizes DEF Scrub
  <2>2. CASE ~LastWord
    BY SMT, <2>2, Sizes DEF Scrub, LastWord, Typed, Registers
  <2>3. QED
    BY <2>1, <2>2
<1>2. ScrubTypes'
  BY <1>1 DEF Scrub, ScrubTypes, Typed, Registers
<1>3. ResponseTypes' /\ SeenTypes' /\ command' \in Commands
  BY DEF Scrub, ResponseTypes, SeenTypes, Typed, Registers, Pins
<1>4. StatusTypes' /\ ErrorSource
  BY DEF Scrub, TamperFault, StatusTypes, ErrorSource, Typed, Registers, Errors
<1>5. LaunchTypes'
  BY DEF Scrub, NoPulses, LaunchTypes, Typed, Registers
<1>6. Cursors'
  BY CursorsKept DEF Scrub, cursorVars, Typed
<1>7. QED
  BY <1>2, <1>3, <1>4, <1>5, <1>6, RegisterParts

(* The registers on an edge without a request.                             *)
LEMMA NoRequestKeepsTypes ==
    ASSUME Typed, NEW pins \in Pins, NoRequest(pins)
    PROVE  Registers' /\ Cursors' /\ ErrorSource /\ MemoryEdge /\ Plain
<1>1. LaunchTypes' /\ StatusTypes' /\ ErrorSource
  BY BackgroundTypes, KeptStatus DEF NoRequest, Typed
<1>2. ResponseTypes' /\ SeenTypes' /\ ScrubTypes' /\ command' \in Commands
  BY DEF NoRequest, Running, LatchesReleased, ResponseTypes, SeenTypes,
         ScrubTypes, scrubVars, Typed, Registers, Pins
<1>3. Cursors' /\ MemoryEdge /\ Plain
  BY CursorsKept, QuietMemory DEF NoRequest, Typed, Plain, scrubVars
<1>4. QED
  BY <1>1, <1>2, <1>3, RegisterParts

(* A trigger and a control wipe enter the scrub in the same way.           *)
Enters ==
    /\ ~zeroize_active
    /\ EnterScrub
    /\ rsp_data' = "clear"
    /\ rsp_valid' => ~rsp_valid
    /\ ErrorSource

(* The registers when a scrub begins.                                      *)
LEMMA EnteringKeepsTypes ==
    ASSUME Typed, NEW pins \in Pins,
           BeginZeroize(pins) \/ \E ctl : ControlWipe(pins, ctl)
    PROVE  Registers' /\ Cursors' /\ Enters
<1>1. EnterScrub /\ ~zeroize_active
  BY DEF BeginZeroize, TriggerBranch, ControlWipe, Accept, Running
<1>2. ScrubTypes' /\ LaunchTypes' /\ command' \in Commands /\ Cursors'
  <2>1. 0 \in 0 .. (SRAM_WORDS - 1)
    BY SMT, Sizes
  <2>2. QED
    BY <1>1, <2>1, CursorsReset DEF EnterScrub, NoPulses, ScrubTypes,
       LaunchTypes, Typed, Registers, SelfTestStates
<1>3. CASE BeginZeroize(pins)
  <2>1. ResponseTypes' /\ SeenTypes' /\ rsp_data' = "clear" /\ ~rsp_valid'
    BY <1>3 DEF BeginZeroize, ResponseDropped, ResponseTypes, SeenTypes,
       Typed, Registers, Pins, Taint
  <2>2. StatusTypes' /\ ErrorSource
    BY <1>1, <1>3 DEF BeginZeroize, EnterScrub, TamperFault, StatusTypes,
       ErrorSource, Typed, Registers, Errors
  <2>3. QED
    BY <1>1, <1>2, <2>1, <2>2, RegisterParts DEF Enters
<1>4. ASSUME NEW ctl, ControlWipe(pins, ctl)
      PROVE  Registers' /\ Cursors' /\ Enters
  <2>1. Accept(pins, "clear", TRUE) /\ UNCHANGED <<fault, error_code>>
    BY <1>4 DEF ControlWipe
  <2>2. ResponseTypes' /\ SeenTypes' /\ rsp_data' = "clear" /\ ~rsp_valid
    BY <2>1, AcceptedTypes DEF Accept, req_ready, Typed, Taint
  <2>3. StatusTypes' /\ ErrorSource
    BY <1>1, <2>1 DEF EnterScrub, StatusTypes, ErrorSource, Typed, Registers
  <2>4. QED
    BY <1>1, <1>2, <2>2, <2>3, RegisterParts DEF Enters
<1>5. QED
  BY <1>3, <1>4

(* The registers after a reset.                                            *)
LEMMA ResetTypes ==
    /\ ResetRegisters => Registers /\ Cursors
    /\ Reset => Registers' /\ Cursors'
<1>1. 0 \in 0 .. (SRAM_WORDS - 1) /\ 0 \in 0 .. MaxBytes
  BY SMT, Sizes DEF MaxBytes
<1>2. ResetRegisters => Registers
  BY <1>1 DEF ResetRegisters, Registers, Taint, Errors, Commands, NttCommands,
         SelfTestStates
<1>3. Reset => Registers'
  BY <1>1 DEF Reset, NoPulses, Registers, Taint, Errors, Commands, NttCommands,
         SelfTestStates
<1>4. Reset => Cursors'
  BY CursorsReset DEF Reset
<1>5. ResetRegisters => Cursors
  <2>1. \A ch \in Channels : 0 \in EvenUpTo(Limit(ch)) /\ 0 \in 0 .. Limit(ch)
    BY ZeroCursor
  <2>2. QED
    BY <1>1, <2>1 DEF ResetRegisters, Cursors
<1>6. QED
  BY <1>2, <1>3, <1>4, <1>5

(* Every edge is one of four kinds.                                        *)
LEMMA EdgeKinds ==
    ASSUME Typed, Memories, NEW pins \in Pins, Edge(pins)
    PROVE  /\ Registers' /\ Cursors' /\ ErrorSource
           /\ \/ Scrub(pins) \/ Enters
              \/ NoRequest(pins) /\ Plain
              \/ Served(pins)
           /\ \E hn, hk : Engines(hn, hk) /\ HostBeat(hn, hk)
<1>1. QuietEngines => \E hn, hk : Engines(hn, hk) /\ HostBeat(hn, hk)
  <2>1. HostBeat(NoWrite, NoWrite)
    BY DEF HostBeat, NoWrite
  <2>2. QED
    BY <2>1 DEF QuietEngines
<1>2. CASE Scrub(pins)
  BY <1>1, <1>2, ScrubKeepsTypes DEF Scrub
<1>3. CASE BeginZeroize(pins) \/ \E ctl : ControlWipe(pins, ctl)
  <2>1. Registers' /\ Cursors' /\ Enters
    BY <1>3, EnteringKeepsTypes
  <2>2. QED
    BY <1>1, <2>1 DEF Enters, EnterScrub
<1>4. CASE NoRequest(pins)
  BY <1>4, NoRequestKeepsTypes DEF MemoryEdge
<1>5. CASE Request(pins)
  <2>1. CASE Registers' /\ Cursors' /\ Served(pins)
    BY <2>1 DEF Served, MemoryEdge
  <2>2. QED
    BY <1>3, <1>5, <2>1, Requests
<1>6. QED
  BY <1>2, <1>3, <1>4, <1>5 DEF Edge
-----------------------------------------------------------------------------
(* The engines on one edge.                                                *)
LEMMA NttOnEdge ==
    ASSUME Registers, NL!EngineInv, Memories, NL!ScrubClears,
           NEW hn, NEW hk, Engines(hn, hk), HostBeat(hn, hk)
    PROVE  /\ NL!EngineInv' /\ NL!ScrubClears' /\ coeff' \in BankContents
           /\ \/ NL!Interrupted(engine_zeroize)
              \/ /\ NL!NttLatch(engine_zeroize)
                 /\ NL!Follows(engine_zeroize, ntt_start)
           /\ ntt_state = "ZEROIZE" /\ ntt_state' = "IDLE" => NttClear'
           /\ ~hn.we /\ NttClear => NttClear'
<1> DEFINE z == engine_zeroize
<1>1. z \in BOOLEAN /\ ntt_start \in BOOLEAN /\ ntt_command \in NL!NttCommand
  BY DEF engine_zeroize, Registers, NttCommands, NL!NttCommand
<1>2. NL!NttEdge(z, ntt_start, ntt_command, hn)
  BY SameEdge DEF Engines
<1>3. NL!SizeOK /\ NL!BanksSplit
  BY EngineSize
<1>4. hn.we => hn.addr \in NL!Address /\ hn.data = "data"
  BY DEF HostBeat
<1>5. NL!Shape(coeff) /\ \A b \in NL!TwoBanks, r \in NL!Row : coeff[b][r] \in Taint
  BY SameBanks DEF Memories, BankContents, NL!Shape, NL!TwoBanks
<1> HIDE DEF z
<1>6. /\ NL!EngineInv'
      /\ \/ NL!Interrupted(z)
         \/ NL!NttLatch(z) /\ NL!Follows(z, ntt_start)
  BY <1>1, <1>2, <1>3, NL!EngineStep
<1>7. /\ NL!ScrubClears'
      /\ ntt_state = "ZEROIZE" /\ ntt_state' = "IDLE" => NL!AllClear'
  BY <1>2, <1>3, <1>5, NL!ScrubStep
<1>8. /\ NL!Shape(coeff')
      /\ \A b \in NL!TwoBanks, r \in NL!Row :
             NL!Becomes(coeff[b][r], coeff'[b][r], z, hn)
  BY <1>2, <1>3, <1>4, <1>5, NL!CellStep
<1>9. \A x, y : /\ TaintAB(ntt_cmd, zeta, x, y) \in Taint
                /\ x = "clear" /\ y = "clear" =>
                       TaintAB(ntt_cmd, zeta, x, y) = "clear"
                /\ TaintScaled(ntt_cmd, x) = x
  BY DEF TaintAB, TaintScaled, Mix, Taint
<1>10. \A x \in NL!Cells : x \in Taint
  BY <1>5 DEF NL!Cells
<1>11. ASSUME NEW b \in NL!TwoBanks, NEW r \in NL!Row
       PROVE  coeff'[b][r] \in Taint
  BY <1>4, <1>5, <1>8, <1>9, <1>10 DEF NL!Becomes, Taint
<1>12. coeff' \in BankContents
  BY <1>8, <1>11, SameBanks DEF BankContents, NL!Shape, NL!TwoBanks
<1>13. /\ NttClear <=> NL!AllClear
       /\ NttClear' <=> NL!AllClear'
  BY SameBanks DEF NttClear, NL!AllClear, NL!TwoBanks
<1>14. ASSUME ~hn.we, NttClear, NEW b \in NL!TwoBanks, NEW r \in NL!Row
       PROVE  coeff'[b][r] = "clear"
  <2>1. coeff[b][r] = "clear" /\ \A x \in NL!Cells : x = "clear"
    BY <1>13, <1>14 DEF NL!AllClear, NL!Cells
  <2>2. QED
    BY <1>8, <1>9, <1>14, <2>1 DEF NL!Becomes
<1>15. ~hn.we /\ NttClear => NttClear'
  BY <1>13, <1>14 DEF NL!AllClear
<1>16. QED
  BY <1>6, <1>7, <1>12, <1>13, <1>15 DEF z

KeccakStarts(hk) ==
    /\ keccak_start /\ ~kec_busy
    /\ kec_busy' /\ ~kec_done' /\ round' = 0
    /\ ~hk.we => lanes' = lanes
KeccakRounds ==
    /\ kec_busy /\ lanes' = LanesAfter(lanes, round)
    /\ \/ round = ROUNDS - 1 /\ ~kec_busy' /\ kec_done'
       \/ round # ROUNDS - 1 /\ kec_busy' /\ ~kec_done' /\ round' = round + 1
KeccakRests(hk) ==
    /\ ~keccak_start /\ ~kec_busy /\ ~kec_busy' /\ kec_done' = kec_done
    /\ ~hk.we => lanes' = lanes

(* The Keccak engine: it starts, computes a round or rests, and a scrub    *)
(* clears it at once.                                                      *)
LEMMA KeccakOnEdge ==
    ASSUME Registers, KeccakInv, NEW hn, NEW hk, Engines(hn, hk)
    PROVE  /\ KeccakInv'
           /\ engine_zeroize => KeccakZero'
           /\ ~engine_zeroize =>
                  KeccakStarts(hk) \/ KeccakRounds \/ KeccakRests(hk)
           /\ ~hk.we /\ lanes # DataLanes => lanes' # DataLanes
<1> DEFINE Written == Keccak!HostWritten(hk)
<1>1. Keccak!KecEdge(engine_zeroize, keccak_start, hk)
  BY DEF Engines
<1>2. ROUNDS \in Nat \ {0}
  BY Sizes
<1>3. /\ Written \in WrongLanes .. ROUNDS
      /\ ~hk.we => Written = lanes
  <2>1. Written = lanes \/ Written = DataLanes
    BY DEF Keccak!HostWritten, LanesWritten
  <2>2. DataLanes \in WrongLanes .. ROUNDS
    BY SMT, <1>2 DEF DataLanes, WrongLanes
  <2>3. ~hk.we => Written = lanes
    BY DEF Keccak!HostWritten
  <2>4. QED
    BY <2>1, <2>2, <2>3 DEF KeccakInv
<1>4. /\ LanesAfter(lanes, round) \in WrongLanes .. ROUNDS
      /\ lanes # DataLanes => LanesAfter(lanes, round) # DataLanes
  BY SMT, <1>2 DEF LanesAfter, KeccakInv, WrongLanes, DataLanes
<1> HIDE DEF Written
<1>5. CASE engine_zeroize
  <2>1. kec_busy' = FALSE /\ kec_done' = FALSE /\ round' = 0 /\ lanes' = 0
    BY <1>1, <1>5 DEF Keccak!KecEdge, Keccak!KecClear, ClearLanes
  <2>2. 0 \in WrongLanes .. ROUNDS /\ 0 \in 0 .. (ROUNDS - 1) /\ 0 # DataLanes
    BY SMT, <1>2 DEF DataLanes, WrongLanes
  <2>3. QED
    BY <1>5, <2>1, <2>2 DEF KeccakInv, KeccakZero, ClearLanes
<1>6. CASE ~engine_zeroize /\ Keccak!KecStart(keccak_start, hk)
  <2>1. /\ kec_busy' = TRUE /\ kec_done' = FALSE /\ round' = 0
        /\ lanes' = Written /\ keccak_start /\ ~kec_busy
    BY <1>6 DEF Keccak!KecStart, Written
  <2>2. 0 \in 0 .. (ROUNDS - 1)
    BY SMT, <1>2
  <2>3. QED
    BY <1>3, <1>6, <2>1, <2>2 DEF KeccakInv, KeccakStarts
<1>7. CASE ~engine_zeroize /\ Keccak!KecRound
  <2>1. kec_busy /\ lanes' = LanesAfter(lanes, round)
    BY <1>7 DEF Keccak!KecRound
  <2>2. CASE round = ROUNDS - 1
    <3>1. kec_busy' = FALSE /\ kec_done' = TRUE /\ round' = round
      BY <1>7, <2>2 DEF Keccak!KecRound
    <3>2. QED
      BY <1>4, <1>7, <2>1, <2>2, <3>1 DEF KeccakInv, KeccakRounds
  <2>3. CASE round # ROUNDS - 1
    <3>1. kec_busy' = kec_busy /\ kec_done' = kec_done /\ round' = round + 1
      BY <1>7, <2>3 DEF Keccak!KecRound
    <3>2. round' \in 0 .. (ROUNDS - 1)
      BY SMT, <1>2, <2>3, <3>1 DEF KeccakInv
    <3>3. QED
      BY <1>4, <1>7, <2>1, <2>3, <3>1, <3>2 DEF KeccakInv, KeccakRounds
  <2>4. QED
    BY <2>2, <2>3
<1>8. CASE ~engine_zeroize /\ Keccak!KecRest(keccak_start, hk)
  <2>1. /\ ~keccak_start /\ ~kec_busy /\ lanes' = Written
        /\ UNCHANGED <<kec_busy, kec_done, round>>
    BY <1>8 DEF Keccak!KecRest, Written
  <2>2. QED
    BY <1>3, <1>8, <2>1 DEF KeccakInv, KeccakRests
<1>9. QED
  BY <1>1, <1>5, <1>6, <1>7, <1>8 DEF Keccak!KecEdge

(* What an edge does to both engines, and what it leaves alone if no host  *)
(* beat reaches them.                                                      *)
Worked ==
    /\ NL!EngineInv' /\ NL!ScrubClears' /\ KeccakInv' /\ coeff' \in BankContents
    /\ \/ NL!Interrupted(engine_zeroize)
       \/ NL!NttLatch(engine_zeroize) /\ NL!Follows(engine_zeroize, ntt_start)
    /\ ntt_state = "ZEROIZE" /\ ntt_state' = "IDLE" => NttClear'
    /\ engine_zeroize => KeccakZero'
    /\ ~engine_zeroize /\ keccak_start /\ ~kec_busy => kec_busy'
    /\ ~engine_zeroize /\ ~keccak_start /\ ~kec_busy =>
           ~kec_busy' /\ kec_done' = kec_done
Undisturbed ==
    /\ NttClear => NttClear'
    /\ lanes # DataLanes => lanes' # DataLanes
    /\ ~engine_zeroize => \/ KeccakStarts(NoWrite) \/ KeccakRounds
                          \/ KeccakRests(NoWrite)

(* The two engines together.                                               *)
LEMMA EnginesWork ==
    ASSUME Registers, NL!EngineInv, Memories, NL!ScrubClears, KeccakInv,
           NEW hn, NEW hk, Engines(hn, hk), HostBeat(hn, hk)
    PROVE  Worked /\ (~hn.we /\ ~hk.we => Undisturbed)
<1>1. /\ NL!EngineInv' /\ NL!ScrubClears' /\ coeff' \in BankContents
      /\ \/ NL!Interrupted(engine_zeroize)
         \/ NL!NttLatch(engine_zeroize) /\ NL!Follows(engine_zeroize, ntt_start)
      /\ ntt_state = "ZEROIZE" /\ ntt_state' = "IDLE" => NttClear'
      /\ ~hn.we /\ NttClear => NttClear'
  BY NttOnEdge
<1>2. /\ KeccakInv'
      /\ engine_zeroize => KeccakZero'
      /\ ~engine_zeroize =>
             KeccakStarts(hk) \/ KeccakRounds \/ KeccakRests(hk)
      /\ ~hk.we /\ lanes # DataLanes => lanes' # DataLanes
  BY KeccakOnEdge
<1>3. /\ ~engine_zeroize /\ keccak_start /\ ~kec_busy => kec_busy'
      /\ ~engine_zeroize /\ ~keccak_start /\ ~kec_busy =>
             ~kec_busy' /\ kec_done' = kec_done
  BY <1>2 DEF KeccakStarts, KeccakRounds, KeccakRests
<1>4. ~hk.we /\ ~engine_zeroize =>
          \/ KeccakStarts(NoWrite) \/ KeccakRounds \/ KeccakRests(NoWrite)
  BY <1>2 DEF KeccakStarts, KeccakRests
<1>5. QED
  BY <1>1, <1>2, <1>3, <1>4 DEF Worked, Undisturbed

(* A transform and a permutation that were not running together do not     *)
(* start together.                                                         *)
LEMMA StayExclusive ==
    ASSUME Registers, Launch, Wiping, Worked
    PROVE  ~(ntt_state' \in {"BUTTERFLY", "SCALE"} /\ kec_busy')
<1>1. engine_zeroize => ~kec_busy'
  BY DEF Worked, KeccakZero
<1>2. CASE ~engine_zeroize
  <2>1. SUFFICES ASSUME ntt_state' \in {"BUTTERFLY", "SCALE"}
                 PROVE  ~kec_busy'
    OBVIOUS
  <2>2. \/ ntt_state = "IDLE" /\ ntt_start
        \/ ntt_state \in {"BUTTERFLY", "SCALE"}
    BY <1>2, <2>1 DEF Worked, NL!Interrupted, NL!Follows
  <2>3. ~keccak_start /\ ~kec_busy
    BY <2>2 DEF Launch
  <2>4. QED
    BY <1>2, <2>3 DEF Worked
<1>3. QED
  BY <1>1, <1>2

(* The self-test fails on healthy engines in no state, nor on one whose    *)
(* lane 0 is right, and passes on one whose lane 0 is wrong in none: the   *)
(* second comparison is only reached over the first.                       *)
LEMMA Verdicts ==
    ASSUME SelfTesting
    PROVE  /\ selftest_state = "CHECK_NTT" => ~selftest_fails
           /\ FaultUnseen => ~selftest_fails
           /\ ~FaultUnseen => ~selftest_passes
<1>1. selftest_state = "CHECK_NTT" => ~selftest_fails
  <2>1. 0 \in NL!Address
    BY SMT, SameBanks, Sizes
  <2>2. Ntt!Bank(0) \in {0, 1} /\ Ntt!RowOf(0) \in Ntt!Row
    BY <2>1, EngineSize, SameBanks, NL!Cell DEF NL!TwoBanks
  <2>3. NttClear => Ntt!coeff_read(0) = "clear"
    BY <2>2 DEF NttClear, Ntt!coeff_read
  <2>4. QED
    BY <2>3 DEF SelfTesting, selftest_fails
<1>2. ASSUME selftest_state \in {"CHECK_K0", "CHECK_K1"}
      PROVE  \A i \in {0, 1} :
                 KnownWord(i) = (FaultyRounds = {} \/ i \notin WrongHalves)
  <2>1. WrongLanes # ROUNDS
    BY SMT, Sizes DEF WrongLanes
  <2>2. QED
    BY <1>2, <2>1 DEF SelfTesting, KnownWord, Answered
<1>3. FaultUnseen => ~selftest_fails
  BY <1>1, <1>2 DEF selftest_fails, FaultUnseen
<1>4. ~FaultUnseen => ~selftest_passes
  <2>1. SUFFICES ASSUME selftest_state = "CHECK_K1", KnownWord(1)
                 PROVE  FaultUnseen
    BY DEF selftest_passes
  <2>2. KnownWord(0)
    BY <2>1 DEF SelfTesting
  <2>3. FaultyRounds = {} \/ (0 \notin WrongHalves /\ 1 \notin WrongHalves)
    BY <1>2, <2>1, <2>2
  <2>4. QED
    BY <2>3, CoreAssumption DEF FaultUnseen
<1>5. QED
  BY <1>1, <1>3, <1>4

(* A round of a permutation that started on the all-zero state.            *)
LEMMA PermutingStep ==
    ASSUME KeccakInv, Permuting, KeccakRounds
    PROVE  /\ kec_busy' => Permuting'
           /\ ~kec_busy' => Answered'
<1>1. /\ round \in 0 .. (ROUNDS - 1) /\ ROUNDS \in Nat
      /\ \A f \in FaultyRounds : f \in 0 .. (ROUNDS - 1)
  BY Sizes, CoreAssumption DEF KeccakInv
<1>2. lanes' = LanesAfter(lanes, round)
  BY DEF KeccakRounds
<1>3. CASE lanes = WrongLanes /\ FaultyRounds # {}
  <2>1. lanes' = WrongLanes
    BY SMT, <1>1, <1>2, <1>3 DEF LanesAfter, WrongLanes, DataLanes
  <2>2. QED
    BY <1>3, <2>1 DEF Permuting, Answered
<1>4. CASE lanes = round /\ round \in FaultyRounds
  <2>1. lanes' = WrongLanes
    BY SMT, <1>1, <1>2, <1>4 DEF LanesAfter, WrongLanes, DataLanes
  <2>2. QED
    BY <1>4, <2>1 DEF Permuting, Answered
<1>5. CASE lanes = round /\ round \notin FaultyRounds
                /\ \A f \in FaultyRounds : f >= round
  <2>1. lanes' = round + 1
    BY SMT, <1>1, <1>2, <1>5 DEF LanesAfter, WrongLanes, DataLanes
  <2>2. \A f \in FaultyRounds : f >= round + 1
    BY SMT, <1>1, <1>5
  <2>3. CASE round = ROUNDS - 1
    <3>1. FaultyRounds = {} /\ lanes' = ROUNDS
      BY SMT, <1>1, <2>1, <2>2, <2>3
    <3>2. QED
      BY <2>3, <3>1 DEF KeccakRounds, Answered
  <2>4. CASE round # ROUNDS - 1
    BY <2>1, <2>2, <2>4 DEF KeccakRounds, Permuting
  <2>5. QED
    BY <2>3, <2>4
<1>6. QED
  BY <1>3, <1>4, <1>5 DEF Permuting

(* An edge without a launch by the host and without a host beat keeps what *)
(* the launches and the self-test stand on.                                *)
Steady ==
    /\ Registers /\ KeccakInv /\ NL!EngineInv /\ Wiping /\ Launch /\ SelfTesting
    /\ ~zeroize_active /\ Background /\ Worked /\ Undisturbed

(* While no self-test runs none begins on such an edge.                    *)
LEMMA SteadyIdle ==
    ASSUME Steady, selftest_state = "IDLE"
    PROVE  Launch' /\ selftest_state' = "IDLE"
<1>1. selftest_state' = "IDLE" /\ ~ntt_start' /\ ~keccak_start'
      /\ ~selftest_zeroize_pulse'
  BY DEF Steady, Background, SelfTestMoves, SelfTestWaits, selftest_fails,
         selftest_passes
<1>2. QED
  BY <1>1, StayExclusive DEF Launch, Steady

(* While the self-test runs, the transform is started by it alone.         *)
LEMMA SteadyEngines ==
    ASSUME Steady, selftest_state # "IDLE"
    PROVE  /\ selftest_state # "WAIT_NTT" => ~ntt_start
           /\ selftest_state # "WAIT_KEC" => ~keccak_start
           /\ selftest_state # "WAIT_SCRUB" =>
                  ~engine_zeroize /\ ~selftest_zeroize_pulse
           /\ ~engine_zeroize /\ ~ntt_start /\ ntt_state = "IDLE" =>
                  ntt_state' = "IDLE" /\ ntt_done' = ntt_done
           /\ ~engine_zeroize /\ ~keccak_start /\ KeccakZero => KeccakZero'
           /\ ~selftest_zeroize_pulse'
           /\ ~(ntt_state' \in {"BUTTERFLY", "SCALE"} /\ kec_busy')
<1>1. /\ selftest_state # "WAIT_NTT" => ~ntt_start
      /\ selftest_state # "WAIT_KEC" => ~keccak_start
      /\ selftest_state # "WAIT_SCRUB" =>
             ~engine_zeroize /\ ~selftest_zeroize_pulse
  BY DEF Steady, Launch, engine_zeroize
<1>2. ~engine_zeroize /\ ~ntt_start /\ ntt_state = "IDLE" =>
          ntt_state' = "IDLE" /\ ntt_done' = ntt_done
  BY DEF Steady, Worked, NL!Interrupted, NL!Follows
<1>3. ~engine_zeroize /\ ~keccak_start /\ KeccakZero => KeccakZero'
  BY DEF Steady, Undisturbed, KeccakStarts, KeccakRounds, KeccakRests,
         KeccakZero, NoWrite
<1>4. ~selftest_zeroize_pulse'
  BY DEF Steady, Background
<1>5. QED
  BY <1>1, <1>2, <1>3, <1>4, StayExclusive DEF Steady

(* The self-test, state by state.                                          *)
LEMMA SteadySelfTest ==
    ASSUME Steady, selftest_state # "IDLE"
    PROVE  Launch' /\ SelfTesting'
<1>1. /\ selftest_state # "WAIT_NTT" => ~ntt_start
      /\ selftest_state # "WAIT_KEC" => ~keccak_start
      /\ selftest_state # "WAIT_SCRUB" =>
             ~engine_zeroize /\ ~selftest_zeroize_pulse
      /\ ~engine_zeroize /\ ~ntt_start /\ ntt_state = "IDLE" =>
             ntt_state' = "IDLE" /\ ntt_done' = ntt_done
      /\ ~engine_zeroize /\ ~keccak_start /\ KeccakZero => KeccakZero'
      /\ ~selftest_zeroize_pulse'
      /\ ~(ntt_state' \in {"BUTTERFLY", "SCALE"} /\ kec_busy')
  BY SteadyEngines
<1>2. /\ SelfTesting /\ Launch /\ Registers /\ Worked /\ Undisturbed
      /\ SelfTestMoves \/ SelfTestWaits
      /\ ntt_busy = (ntt_state # "IDLE") /\ (ntt_done => ntt_state = "IDLE")
      /\ kec_done => ~kec_busy
  BY DEF Steady, Background, NL!EngineInv, NL!Control, KeccakInv
<1>3. CASE selftest_state = "WAIT_SCRUB" /\ selftest_zeroize_pulse
  <2>1. engine_zeroize /\ ~ntt_zeroize_seen /\ ~selftest_seen_ntt_busy
    BY <1>2, <1>3 DEF Launch, engine_zeroize
  <2>2. ntt_state' = "ZEROIZE" /\ KeccakZero'
    BY <1>2, <2>1 DEF Worked, NL!Interrupted, NL!NttLatch
  <2>3. /\ selftest_state' = "WAIT_SCRUB" /\ ~ntt_start' /\ ~keccak_start'
    BY <1>2, <1>3, <2>1 DEF SelfTestMoves, SelfTestWaits, ScrubOver,
       selftest_fails, selftest_passes
  <2>4. QED
    BY <1>1, <2>2, <2>3 DEF Launch, SelfTesting
<1>4. CASE selftest_state = "WAIT_SCRUB" /\ ~selftest_zeroize_pulse
  <2>1. ~engine_zeroize /\ KeccakZero /\ ~ntt_start /\ ~keccak_start
    BY <1>1, <1>2, <1>4 DEF Steady, engine_zeroize, SelfTesting
  <2>2. KeccakZero'
    BY <1>1, <2>1
  <2>3. CASE ntt_state = "ZEROIZE"
    <3>1. ntt_state' = "ZEROIZE" \/ (ntt_state' = "IDLE" /\ ~ntt_done'
                                        /\ NttClear')
      BY <1>2, <2>1, <2>3 DEF Worked, NL!Interrupted, NL!Follows
    <3>2. /\ selftest_state' = "WAIT_SCRUB" /\ ~ntt_start' /\ ~keccak_start'
      <4>1. ~ScrubOver
        BY Zenon, <1>2, <2>3 DEF ScrubOver
      <4>2. QED
        BY <1>2, <1>4, <4>1 DEF SelfTestMoves, SelfTestWaits, selftest_fails,
           selftest_passes
    <3>3. QED
      BY <1>1, <2>2, <3>1, <3>2 DEF Launch, SelfTesting
  <2>4. CASE ntt_state = "IDLE" /\ ~ntt_done /\ NttClear
    <3>1. ntt_state' = "IDLE" /\ ~ntt_done' /\ NttClear'
      BY <1>1, <1>2, <2>1, <2>4 DEF Undisturbed
    <3>2. \/ /\ selftest_state' = "WAIT_SCRUB"
             /\ ~ntt_start' /\ ~keccak_start'
          \/ selftest_state' = "WAIT_NTT" /\ ~keccak_start'
      BY <1>2, <1>4 DEF SelfTestMoves, SelfTestWaits, selftest_fails,
         selftest_passes
    <3>3. QED
      BY <1>1, <2>2, <3>1, <3>2 DEF Launch, SelfTesting, KeccakZero
  <2>5. QED
    BY <1>2, <1>4, <2>3, <2>4 DEF SelfTesting
<1>5. CASE selftest_state = "WAIT_NTT"
  <2>1. ~engine_zeroize /\ KeccakZero /\ NttClear /\ ~keccak_start
        /\ (ntt_start => ~ntt_done)
    BY <1>1, <1>2, <1>5 DEF SelfTesting
  <2>2. KeccakZero' /\ NttClear'
    BY <1>1, <1>2, <2>1 DEF Undisturbed
  <2>3. \/ selftest_state' = "WAIT_NTT"
        \/ selftest_state' = "CHECK_NTT" /\ ntt_done
    BY <1>2, <1>5 DEF SelfTestMoves, SelfTestWaits, selftest_fails,
       selftest_passes
  <2>4. ~ntt_start' /\ ~keccak_start'
    BY <1>2, <1>5 DEF SelfTestMoves, SelfTestWaits
  <2>5. ntt_done => ntt_state' = "IDLE"
    BY Zenon, <1>1, <1>2, <2>1
  <2>6. QED
    BY <1>1, <2>2, <2>3, <2>4, <2>5 DEF Launch, SelfTesting
<1>6. CASE selftest_state = "CHECK_NTT"
  <2>1. ~engine_zeroize /\ KeccakZero /\ ntt_state = "IDLE"
        /\ ~ntt_start /\ ~keccak_start /\ ~selftest_fails
    BY <1>1, <1>2, <1>6, Verdicts DEF SelfTesting
  <2>2. KeccakZero' /\ ntt_state' = "IDLE"
    BY <1>1, <2>1
  <2>3. selftest_state' = "WAIT_KEC" /\ ~ntt_start' /\ keccak_start'
    BY <1>2, <1>6, <2>1 DEF SelfTestMoves, SelfTestWaits, selftest_passes
  <2>4. QED
    BY <1>1, <2>2, <2>3 DEF Launch, SelfTesting, KeccakZero
<1>7. CASE selftest_state = "WAIT_KEC"
  <2>1. ntt_state' = "IDLE" /\ ~engine_zeroize
    BY <1>1, <1>2, <1>7 DEF SelfTesting
  <2>2. /\ keccak_start => KeccakZero
        /\ kec_busy => Permuting
        /\ ~keccak_start /\ ~kec_busy => Answered
    BY <1>2, <1>7 DEF SelfTesting
  <2>3. ~ntt_start' /\ ~keccak_start'
    BY <1>2, <1>7 DEF SelfTestMoves, SelfTestWaits
  <2>4. \/ selftest_state' = "WAIT_KEC"
        \/ selftest_state' = "CHECK_K0" /\ kec_done
    BY <1>2, <1>7 DEF SelfTestMoves, SelfTestWaits, selftest_fails,
       selftest_passes
  <2>5. CASE keccak_start
    <3>1. kec_busy' /\ Permuting' /\ ~kec_done
      <4>1. KeccakStarts(NoWrite)
        BY <1>2, <2>1, <2>2, <2>5
           DEF Undisturbed, KeccakZero, KeccakRounds, KeccakRests
      <4>2. lanes' = ClearLanes /\ round' = 0 /\ kec_busy' /\ ~kec_done
        BY <2>2, <2>5, <4>1 DEF KeccakStarts, NoWrite, KeccakZero
      <4>3. \A f \in FaultyRounds : f >= 0
        BY SMT, CoreAssumption, Sizes
      <4>4. QED
        BY <4>2, <4>3 DEF Permuting, ClearLanes
    <3>2. QED
      BY <1>1, <2>1, <2>3, <2>4, <3>1 DEF Launch, SelfTesting
  <2>6. CASE kec_busy
    <3>1. KeccakRounds
      BY <1>2, <2>1, <2>6 DEF Undisturbed, KeccakStarts, KeccakRests
    <3>2. (kec_busy' => Permuting') /\ (~kec_busy' => Answered') /\ ~kec_done
      BY <1>2, <2>2, <2>6, <3>1, PermutingStep DEF Steady
    <3>3. QED
      BY <1>1, <2>1, <2>3, <2>4, <3>2 DEF Launch, SelfTesting
  <2>7. CASE ~keccak_start /\ ~kec_busy
    <3>1. KeccakRests(NoWrite) /\ Answered
      BY <1>2, <2>1, <2>2, <2>7 DEF Undisturbed, KeccakStarts, KeccakRounds
    <3>2. ~kec_busy' /\ Answered'
      BY <3>1 DEF KeccakRests, NoWrite, Answered
    <3>3. QED
      BY <1>1, <2>1, <2>3, <2>4, <3>2 DEF Launch, SelfTesting
  <2>8. QED
    BY <2>5, <2>6, <2>7
<1>8. CASE selftest_state \in {"CHECK_K0", "CHECK_K1"}
  <2>1. /\ ~engine_zeroize /\ ~ntt_start /\ ~keccak_start
        /\ ntt_state = "IDLE" /\ ~kec_busy /\ Answered
    BY <1>1, <1>2, <1>8 DEF SelfTesting
  <2>2. KeccakRests(NoWrite)
    BY <1>2, <2>1 DEF Undisturbed, KeccakStarts, KeccakRounds
  <2>3. ntt_state' = "IDLE" /\ ~kec_busy' /\ Answered'
    BY <1>1, <2>1, <2>2 DEF KeccakRests, NoWrite, Answered
  <2>4. /\ selftest_state' = "CHECK_K1" \/ selftest_state' = "IDLE"
        /\ ~ntt_start' /\ ~keccak_start'
    BY <1>2, <1>8 DEF SelfTestMoves, SelfTestWaits
  <2>5. (selftest_state = "CHECK_K1" => KnownWord(0))'
    <3>1. lanes' = lanes
      BY <2>2 DEF KeccakRests, NoWrite
    <3>2. selftest_state' = "CHECK_K1" =>
              selftest_state = "CHECK_K0" /\ ~selftest_fails
      BY <1>2, <1>8 DEF SelfTestMoves, SelfTestWaits
    <3>3. QED
      BY <3>1, <3>2 DEF KnownWord, selftest_fails
  <2>6. QED
    BY <1>1, <2>3, <2>4, <2>5 DEF Launch, SelfTesting
<1>9. QED
  BY <1>2, <1>3, <1>4, <1>5, <1>6, <1>7, <1>8 DEF Registers, SelfTestStates

(* Nothing that the core holds appears on its own.                         *)
LEMMA StaysEmpty ==
    ASSUME Undisturbed, UNCHANGED sram, ~Holds
    PROVE  ~Holds'
<1>1. NttClear /\ lanes # DataLanes
      /\ \A a \in 0 .. (SRAM_WORDS - 1) : sram[a] = "clear"
  BY DEF Holds, NttClear
<1>2. NttClear' /\ lanes' # DataLanes
  BY <1>1 DEF Undisturbed
<1>3. QED
  BY <1>1, <1>2 DEF Holds, NttClear

(* The edges of the run branch that launch nothing and beat nothing, with  *)
(* or without a request.                                                   *)
LEMMA SteadyStep ==
    ASSUME Inv, ~zeroize_active, Plain, Worked, Undisturbed
    PROVE  Wiping' /\ Launch' /\ SelfTesting'
<1>1. Steady
  BY DEF Inv, Steady, Plain
<1>2. Wiping'
  BY DEF Wiping, Plain
<1>3. CASE selftest_state = "IDLE"
  <2>1. Launch' /\ selftest_state' = "IDLE"
    BY <1>1, <1>3, SteadyIdle
  <2>2. QED
    BY <1>2, <2>1 DEF SelfTesting
<1>4. CASE selftest_state # "IDLE"
  BY <1>1, <1>2, <1>4, SteadySelfTest
<1>5. QED
  BY <1>3, <1>4

(* A request that is served while nothing is busy: no pulse is pending,    *)
(* because the response to the START that set it has left the link.        *)
LEMMA FreeEngines ==
    ASSUME Inv, NEW pins \in Pins, Served(pins), ~busy, Worked
    PROVE  /\ ~zeroize_active /\ selftest_state = "IDLE"
           /\ ntt_state = "IDLE" /\ ~kec_busy
           /\ ntt_state' = "IDLE" /\ ~kec_busy' /\ ~ntt_zeroize_seen'
<1>1. /\ Launch /\ ~zeroize_active /\ ~rsp_valid
      /\ ntt_state = "IDLE" /\ ~kec_busy /\ selftest_state = "IDLE"
  BY DEF Inv, busy, selftest_busy, NL!EngineInv, NL!Control, Served, Running,
         req_ready
<1>2. ~ntt_start /\ ~keccak_start /\ ~engine_zeroize
  BY <1>1 DEF Launch, engine_zeroize
<1>3. ntt_state' = "IDLE" /\ ~kec_busy' /\ ~ntt_zeroize_seen'
  BY <1>1, <1>2 DEF Worked, NL!Interrupted, NL!Follows, NL!NttLatch
<1>4. QED
  BY <1>1, <1>3

(* Such a request keeps the invariant, whichever launch it makes.          *)
LEMMA FreeStep ==
    ASSUME Inv, NEW pins \in Pins, Served(pins), ~busy, Worked
    PROVE  Wiping' /\ Launch' /\ SelfTesting'
<1>1. ~zeroize_active /\ selftest_state = "IDLE"
  BY FreeEngines
<1>2. ntt_state' = "IDLE" /\ ~kec_busy' /\ ~ntt_zeroize_seen'
  BY FreeEngines
<1>3. rsp_valid' /\ (rsp_data' = "clear" \/ Plain) /\ Launches
  BY DEF Served
<1>4. CASE Plain
  <2>1. selftest_state' = "IDLE" /\ ~ntt_start' /\ ~keccak_start'
        /\ ~selftest_zeroize_pulse' /\ ~zeroize_active'
    BY <1>1, <1>4 DEF Plain, Background, SelfTestMoves, SelfTestWaits,
       selftest_fails, selftest_passes
  <2>2. QED
    BY <1>2, <2>1 DEF Wiping, Launch, SelfTesting
<1>5. CASE LaunchesNtt \/ LaunchesKeccak
  <2>1. selftest_state' = "IDLE" /\ ~(ntt_start' /\ keccak_start')
        /\ ~selftest_zeroize_pulse' /\ ~zeroize_active'
    BY <1>1, <1>5 DEF LaunchesNtt, LaunchesKeccak
  <2>2. QED
    BY <1>2, <1>3, <2>1 DEF Wiping, Launch, SelfTesting
<1>6. CASE LaunchesWipe /\ ~Plain
  <2>1. selftest_state' = "IDLE" /\ ~ntt_start' /\ ~keccak_start'
        /\ ~selftest_zeroize_pulse' /\ scrub_addr' = 0
    BY <1>1, <1>6 DEF LaunchesWipe, Background, SelfTestMoves, SelfTestWaits,
       selftest_fails, selftest_passes
  <2>2. ~Shows' /\ \A a \in 0 .. (scrub_addr' - 1) : FALSE
    BY SMT, <1>3, <1>6, <2>1 DEF Shows
  <2>3. QED
    BY <1>2, <2>1, <2>2 DEF Wiping, Launch, SelfTesting
<1>7. CASE LaunchesSelfTest
  BY <1>1, <1>2, <1>7 DEF LaunchesSelfTest, Wiping, Launch, SelfTesting
<1>8. QED
  BY <1>3, <1>4, <1>5, <1>6, <1>7 DEF Launches

(* A trigger or a control wipe.                                            *)
LEMMA EntersStep ==
    ASSUME Inv, Enters, Worked
    PROVE  Wiping' /\ Launch' /\ SelfTesting' /\ zeroize_active'
<1>1. /\ zeroize_active' /\ scrub_addr' = 0 /\ selftest_state' = "IDLE"
      /\ ~ntt_start' /\ ~keccak_start' /\ ~selftest_zeroize_pulse'
      /\ ~Shows'
  BY DEF Enters, EnterScrub, NoPulses, Shows
<1>2. ~(ntt_state' \in {"BUTTERFLY", "SCALE"} /\ kec_busy')
  BY StayExclusive DEF Inv
<1>3. \/ ~ntt_zeroize_seen'
      \/ ntt_zeroize_seen' /\ ntt_state' = "ZEROIZE" /\ zeroize_index' = 0
  <2>1. engine_zeroize => ~ntt_zeroize_seen
    BY DEF Inv, Launch, Enters, engine_zeroize
  <2>2. QED
    BY <2>1 DEF Worked, NL!Interrupted, NL!NttLatch
<1>4. (\A a \in 0 .. (scrub_addr' - 1) : FALSE) /\ ~(scrub_addr' > 0)
      /\ 0 >= scrub_addr' - 1
  BY SMT, <1>1
<1>5. Wiping'
  BY <1>1, <1>3, <1>4 DEF Wiping
<1>6. QED
  BY <1>1, <1>2, <1>5 DEF Launch, SelfTesting

(* One edge of a scrub: it clears the next word, and with the last one     *)
(* everything is clear.                                                    *)
LEMMA ScrubbingStep ==
    ASSUME Inv, NEW pins \in Pins, Scrub(pins), Worked, Undisturbed
    PROVE  /\ Wiping' /\ Launch' /\ SelfTesting'
           /\ ~zeroize_active' => ~Holds'
<1>1. /\ zeroize_active /\ engine_zeroize
      /\ SramWrite(scrub_addr, "clear")
      /\ ~ntt_start' /\ ~keccak_start' /\ ~selftest_zeroize_pulse'
      /\ selftest_state' = selftest_state /\ rsp_data' = rsp_data
      /\ rsp_valid' => rsp_valid
  BY DEF Scrub, NoPulses, engine_zeroize
<1>2. /\ ~Shows /\ selftest_state = "IDLE" /\ ~ntt_start
      /\ \A a \in 0 .. (scrub_addr - 1) : sram[a] = "clear"
      /\ \/ scrub_addr = 0 /\ ~ntt_zeroize_seen
         \/ /\ ntt_zeroize_seen
            /\ ntt_state = "ZEROIZE" /\ zeroize_index >= scrub_addr - 1
         \/ ntt_zeroize_seen /\ ntt_state = "IDLE" /\ NttClear
  BY <1>1 DEF Inv, Wiping
<1>3. /\ lanes' = ClearLanes /\ ~kec_busy'
  BY <1>1 DEF Worked, KeccakZero
<1>4. /\ scrub_addr \in 0 .. (SRAM_WORDS - 1) /\ SRAM_WORDS \in Nat
      /\ NTT_WORDS \in Nat /\ SRAM_WORDS > NTT_WORDS /\ NTT_WORDS >= 4
      /\ zeroize_index \in 0 .. (NTT_WORDS - 1)
  BY Sizes, SameBanks DEF Inv, Registers, NL!EngineInv, NL!Ranges
<1>5. \A a \in 0 .. (SRAM_WORDS - 1) :
          sram'[a] = IF a = scrub_addr THEN "clear" ELSE sram[a]
  BY <1>1, <1>4 DEF Inv, Memories, SramContents, SramWrite
<1>6. \A a \in 0 .. scrub_addr : sram'[a] = "clear"
  BY SMT, <1>2, <1>4, <1>5
<1>7. /\ ntt_zeroize_seen'
      /\ \/ /\ ~ntt_zeroize_seen
            /\ ntt_state' = "ZEROIZE" /\ zeroize_index' = 0
         \/ /\ ntt_zeroize_seen /\ ntt_state = "ZEROIZE"
            /\ ntt_state' = "ZEROIZE" /\ zeroize_index # NTT_WORDS - 1
            /\ zeroize_index' = zeroize_index + 1
         \/ ntt_zeroize_seen /\ ntt_state' = "IDLE" /\ NttClear'
  BY <1>1, <1>2
     DEF Worked, Undisturbed, NL!Interrupted, NL!NttLatch, NL!Follows
<1>8. CASE LastWord
  <2>1. scrub_addr = SRAM_WORDS - 1 /\ zeroize_active' = FALSE
    BY <1>8 DEF Scrub, LastWord
  <2>2. scrub_addr # 0
    BY SMT, <1>4, <2>1
  <2>3. zeroize_index >= scrub_addr - 1 => zeroize_index = NTT_WORDS - 1
    BY SMT, <1>4, <2>1
  <2>4. NttClear'
    <3>1. ntt_zeroize_seen
      BY <1>2, <2>2
    <3>2. CASE ntt_state = "ZEROIZE" /\ zeroize_index >= scrub_addr - 1
      BY <1>7, <2>3, <3>1, <3>2
    <3>3. CASE NttClear
      BY <3>3 DEF Undisturbed
    <3>4. QED
      BY <1>2, <2>2, <3>2, <3>3
  <2>5. ~Holds'
    <3>1. \A a \in 0 .. (SRAM_WORDS - 1) : sram'[a] = "clear"
      BY <1>6, <2>1
    <3>2. ClearLanes # DataLanes
      BY SMT DEF ClearLanes, DataLanes
    <3>3. QED
      BY <1>3, <2>4, <3>1, <3>2 DEF Holds, NttClear
  <2>6. QED
    BY <1>1, <1>2, <1>3, <2>1, <2>5 DEF Wiping, Launch, SelfTesting
<1>9. CASE ~LastWord
  <2>1. scrub_addr' = scrub_addr + 1 /\ zeroize_active'
    BY <1>1, <1>9 DEF Scrub
  <2>2. \A a \in 0 .. (scrub_addr' - 1) : sram'[a] = "clear"
    BY SMT, <1>4, <1>6, <2>1
  <2>3. \/ ntt_state' = "ZEROIZE" /\ zeroize_index' >= scrub_addr' - 1
        \/ ntt_state' = "IDLE" /\ NttClear'
    <3>1. CASE ~ntt_zeroize_seen
      <4>1. ntt_state' = "ZEROIZE" /\ zeroize_index' = 0 /\ scrub_addr = 0
        BY <1>2, <1>7, <3>1
      <4>2. 0 >= scrub_addr' - 1
        BY SMT, <2>1, <4>1
      <4>3. QED
        BY <4>1, <4>2
    <3>2. CASE ntt_zeroize_seen /\ ntt_state = "ZEROIZE"
      <4>1. zeroize_index >= scrub_addr - 1
        BY <1>2, <3>2
      <4>2. zeroize_index + 1 >= scrub_addr' - 1
        BY SMT, <1>4, <2>1, <4>1
      <4>3. QED
        BY <1>7, <3>2, <4>2
    <3>3. CASE ntt_zeroize_seen /\ ntt_state = "IDLE"
      BY <1>7, <3>3
    <3>4. QED
      BY <1>2, <3>1, <3>2, <3>3
  <2>4. ~Shows'
    BY <1>1, <1>2 DEF Shows
  <2>5. Wiping'
    BY <1>1, <1>2, <1>3, <1>7, <2>2, <2>3, <2>4 DEF Wiping
  <2>6. QED
    BY <1>1, <1>2, <1>3, <2>1, <2>5 DEF Launch, SelfTesting
<1>10. QED
  BY <1>8, <1>9

(* A reset.                                                                *)
LEMMA ResetStep ==
    ASSUME Inv, Reset
    PROVE  Inv'
<1>1. Registers' /\ Cursors' /\ NL!EngineInv'
  BY ResetTypes, SameReset, EngineSize, NL!EngineReset DEF Reset
<1>2. /\ ntt_state' = "IDLE" /\ ntt_zeroize_seen' = FALSE /\ coeff' = coeff
      /\ kec_busy' = FALSE /\ kec_done' = FALSE /\ round' = 0
      /\ lanes' = ClearLanes /\ sram' = sram
      /\ zeroize_active' = TRUE /\ scrub_addr' = 0 /\ rsp_valid' = FALSE
      /\ ntt_start' = FALSE /\ keccak_start' = FALSE
      /\ selftest_zeroize_pulse' = FALSE /\ selftest_state' = "IDLE"
      /\ selftest_fail' = TRUE /\ error_code' = "NONE"
  BY DEF Reset, Ntt!NttReset, Keccak!KecClear, NoPulses
<1>3. NL!ScrubClears' /\ Memories'
  BY <1>2 DEF NL!ScrubClears, Memories, Inv
<1>4. KeccakInv'
  <2>1. 0 \in 0 .. (ROUNDS - 1) /\ 0 \in WrongLanes .. ROUNDS
    BY SMT, Sizes DEF WrongLanes
  <2>2. QED
    BY <1>2, <2>1 DEF KeccakInv, ClearLanes
<1>5. Wiping'
  <2>1. (\A a \in 0 .. (scrub_addr' - 1) : FALSE) /\ ~(scrub_addr' > 0)
    BY SMT, <1>2
  <2>2. QED
    BY <1>2, <2>1 DEF Wiping, Shows
<1>6. Launch' /\ SelfTesting' /\ HeldTriggerKeepsClean' /\ SelfTestSound'
  BY <1>2 DEF Launch, SelfTesting, HeldTriggerKeepsClean, SelfTestSound
<1>7. QED
  BY <1>1, <1>3, <1>4, <1>5, <1>6 DEF Inv
-----------------------------------------------------------------------------
(* The kinds of edge again, with what each leaves alone.                   *)
Quiet(pins) ==
    /\ NoRequest(pins) \/ (Served(pins) /\ busy)
    /\ ~zeroize_active /\ Plain /\ Undisturbed /\ UNCHANGED sram
EdgeOf(pins) ==
    \/ Scrub(pins) /\ Undisturbed
    \/ Enters /\ Undisturbed /\ UNCHANGED sram
    \/ Quiet(pins)
    \/ Served(pins) /\ ~busy /\ (Plain \/ (Undisturbed /\ UNCHANGED sram))

(* Every edge is of one of these kinds.                                    *)
LEMMA EdgeSummary ==
    ASSUME Inv, NEW pins \in Pins, Edge(pins)
    PROVE  /\ Registers' /\ Cursors' /\ ErrorSource
           /\ Worked /\ EdgeOf(pins)
<1>1. /\ Registers' /\ Cursors' /\ ErrorSource
      /\ \/ Scrub(pins) \/ Enters
         \/ NoRequest(pins) /\ Plain
         \/ Served(pins)
      /\ \E hn, hk : Engines(hn, hk) /\ HostBeat(hn, hk)
  BY EdgeKinds DEF Inv, Typed
<1>2. /\ Registers /\ NL!EngineInv /\ Memories /\ NL!ScrubClears /\ KeccakInv
  BY DEF Inv
<1>3. Worked
  BY <1>1, <1>2, EnginesWork
<1>4. ASSUME QuietEngines PROVE Undisturbed
  <2>1. HostBeat(NoWrite, NoWrite) /\ ~NoWrite.we
    BY DEF HostBeat, NoWrite
  <2>2. QED
    BY <1>2, <1>4, <2>1, EnginesWork DEF QuietEngines
<1>5. CASE Scrub(pins)
  BY <1>1, <1>3, <1>4, <1>5 DEF EdgeOf, Scrub
<1>6. CASE Enters
  BY <1>1, <1>3, <1>4, <1>6 DEF EdgeOf, Enters, EnterScrub
<1>7. CASE NoRequest(pins) /\ Plain
  BY <1>1, <1>3, <1>4, <1>7 DEF EdgeOf, Quiet, NoRequest, Running
<1>8. CASE Served(pins) /\ busy
  <2>1. PICK hn, hk : Engines(hn, hk) /\ HostBeat(hn, hk)
    BY <1>8 DEF Served, MemoryEdge
  <2>2. ~hn.we /\ ~hk.we
    BY <1>8, <2>1 DEF HostBeat
  <2>3. Undisturbed
    BY <1>2, <2>1, <2>2, EnginesWork
  <2>4. Plain /\ UNCHANGED sram /\ ~zeroize_active
    BY <1>8 DEF Served, MemoryEdge, Launches, Running
  <2>5. QED
    BY <1>1, <1>3, <1>8, <2>3, <2>4 DEF EdgeOf, Quiet
<1>9. CASE Served(pins) /\ ~busy
  <2>1. PICK hn, hk : Engines(hn, hk) /\ HostBeat(hn, hk)
    BY <1>9 DEF Served, MemoryEdge
  <2>2. ~Plain => Undisturbed
    BY <1>2, <2>1, EnginesWork DEF HostBeat
  <2>3. ~Plain => UNCHANGED sram
    BY <1>9 DEF Served, MemoryEdge
  <2>4. QED
    BY <1>1, <1>3, <1>9, <2>2, <2>3 DEF EdgeOf
<1>10. QED
  BY <1>1, <1>5, <1>6, <1>7, <1>8, <1>9

(* A latched trigger is held by its pin, so that no request was accepted.  *)
LEMMA LatchesAfter ==
    ASSUME Registers, NEW pins \in Pins
    PROVE  /\ Served(pins) => ~tamper_seen' /\ ~zeroize_seen'
           /\ NoRequest(pins) /\ (tamper_seen' \/ zeroize_seen') =>
                  tamper_seen \/ zeroize_seen
  BY DEF Served, NoRequest, Running, LatchesReleased, req_ready, Registers

(* An edge keeps the invariant.                                            *)
LEMMA EdgeStep ==
    ASSUME Inv, NEW pins \in Pins, Edge(pins)
    PROVE  Inv'
<1>1. /\ Registers' /\ Cursors' /\ ErrorSource /\ Worked /\ EdgeOf(pins)
  BY EdgeSummary
<1>2. NL!EngineInv' /\ NL!ScrubClears' /\ KeccakInv'
  BY <1>1 DEF Worked
<1>3. Memories'
  <2>1. \/ sram' = sram
        \/ \E a \in 0 .. (SRAM_WORDS - 1), v \in Taint : SramWrite(a, v)
    BY <1>1 DEF EdgeOf, Scrub, Quiet, Served, MemoryEdge, Taint, Inv, Registers
  <2>2. sram' \in SramContents
    BY <2>1 DEF Inv, Memories, SramContents, SramWrite
  <2>3. QED
    BY <1>1, <2>2 DEF Worked, Memories
<1>4. /\ Wiping' /\ Launch' /\ SelfTesting'
      /\ \/ zeroize_active' \/ ~Holds'
         \/ Quiet(pins) \/ Served(pins)
  <2>1. CASE Scrub(pins) /\ Undisturbed
    BY <1>1, <2>1, ScrubbingStep
  <2>2. CASE Enters
    BY <1>1, <2>2, EntersStep
  <2>3. CASE Quiet(pins)
    BY <1>1, <2>3, SteadyStep DEF Quiet
  <2>4. CASE Served(pins) /\ ~busy
    BY <1>1, <2>4, FreeStep
  <2>5. QED
    BY <1>1, <2>1, <2>2, <2>3, <2>4 DEF EdgeOf
<1>5. HeldTriggerKeepsClean'
  <2>1. SUFFICES ASSUME tamper_seen' \/ zeroize_seen', ~zeroize_active'
                 PROVE  ~Holds'
    BY DEF HeldTriggerKeepsClean
  <2>2. CASE NoRequest(pins) /\ Quiet(pins)
    <3>1. tamper_seen \/ zeroize_seen
      BY <2>1, <2>2, LatchesAfter DEF Inv
    <3>2. ~Holds
      BY <2>2, <3>1 DEF Inv, HeldTriggerKeepsClean, Quiet
    <3>3. QED
      BY <2>2, <3>2, StaysEmpty DEF Quiet
  <2>3. CASE Served(pins)
    BY <2>1, <2>3, LatchesAfter DEF Inv
  <2>4. QED
    BY <1>4, <2>1, <2>2, <2>3 DEF Quiet
<1>6. SelfTestSound'
  <2>1. /\ FaultUnseen => ~selftest_fails
        /\ ~FaultUnseen => ~selftest_passes
    BY Verdicts DEF Inv
  <2>2. FaultUnseen => error_code' # "SELFTEST"
    BY <1>1, <2>1 DEF ErrorSource, Inv, SelfTestSound
  <2>3. ~FaultUnseen => selftest_fail'
    <3>1. \/ selftest_fail' = selftest_fail \/ selftest_fail' = TRUE
          \/ SelfTestVerdict
      BY <1>1 DEF EdgeOf, Scrub, Enters, EnterScrub, Quiet, Plain, Background,
         Served, Launches, LaunchesNtt, LaunchesKeccak, LaunchesWipe,
         LaunchesSelfTest
    <3>2. ~FaultUnseen => selftest_fail = TRUE
      BY DEF Inv, SelfTestSound, Registers
    <3>3. ~FaultUnseen /\ SelfTestVerdict => selftest_fail' = TRUE
      BY <2>1, <3>2 DEF SelfTestVerdict
    <3>4. ~FaultUnseen => selftest_fail' = TRUE
      BY <3>1, <3>2, <3>3
    <3>5. QED
      BY <3>4
  <2>4. QED
    BY <2>2, <2>3 DEF SelfTestSound
<1>7. QED
  BY <1>1, <1>2, <1>3, <1>4, <1>5, <1>6 DEF Inv

(* The invariant after power-on, with whatever the memories hold then.     *)
LEMMA ResetInv ==
    ASSUME ResetRegisters, Memories
    PROVE  Inv
<1>1. Registers /\ Cursors /\ NL!EngineInv
  BY ResetTypes, SameReset, EngineSize, NL!EngineReset DEF ResetRegisters
<1>2. /\ ntt_state = "IDLE" /\ ntt_zeroize_seen = FALSE
      /\ kec_busy = FALSE /\ kec_done = FALSE /\ round = 0
      /\ lanes = ClearLanes
      /\ zeroize_active = TRUE /\ scrub_addr = 0 /\ rsp_valid = FALSE
      /\ ntt_start = FALSE /\ keccak_start = FALSE
      /\ selftest_zeroize_pulse = FALSE /\ selftest_state = "IDLE"
      /\ selftest_fail = TRUE /\ error_code = "NONE"
  BY DEF ResetRegisters, Ntt!NttResetState, Keccak!KecCleared
<1>3. NL!ScrubClears /\ KeccakInv
  <2>1. 0 \in 0 .. (ROUNDS - 1) /\ 0 \in WrongLanes .. ROUNDS
    BY SMT, Sizes DEF WrongLanes
  <2>2. QED
    BY <1>2, <2>1 DEF NL!ScrubClears, KeccakInv, ClearLanes
<1>4. Wiping
  <2>1. (\A a \in 0 .. (scrub_addr - 1) : FALSE) /\ ~(scrub_addr > 0)
    BY SMT, <1>2
  <2>2. QED
    BY <1>2, <2>1 DEF Wiping, Shows
<1>5. Launch /\ SelfTesting /\ HeldTriggerKeepsClean /\ SelfTestSound
  BY <1>2 DEF Launch, SelfTesting, HeldTriggerKeepsClean, SelfTestSound
<1>6. QED
  BY <1>1, <1>3, <1>4, <1>5 DEF Inv

(* The invariant holds at power-on and after the last reset.               *)
LEMMA InitInv == (Init => Inv) /\ (SettledInit => Inv)
<1>1. Init => Memories
  BY DEF Init, Memories, BankContents, SramContents, Taint
<1>2. SettledInit => Memories
  BY DEF SettledInit, Memories
<1>3. QED
  BY <1>1, <1>2, ResetInv DEF Init, SettledInit

(* It holds while nothing moves,                                           *)
LEMMA StutterInv == Inv /\ UNCHANGED vars => Inv'
<1>1. SUFFICES ASSUME Inv, UNCHANGED vars
               PROVE  Inv'
  OBVIOUS
<1>2. /\ UNCHANGED <<rspVars, scrubVars, seenVars, statusVars, cursorVars>>
      /\ UNCHANGED <<launchVars, command, Ntt!nttVars, Keccak!kecVars, sram>>
  BY <1>1 DEF vars
<1>3. Registers' /\ Cursors'
  BY <1>1, <1>2 DEF Inv, Registers, Cursors, rspVars, scrubVars, seenVars,
     statusVars, cursorVars, launchVars, pulseVars
<1>4. NL!EngineInv' /\ NL!ScrubClears' /\ KeccakInv' /\ Memories'
  BY <1>1, <1>2 DEF Inv, NL!EngineInv, NL!Control, NL!Ranges, NL!Scheduled,
     NL!InLayer, NL!ScrubClears, NL!ClearedBelow, NL!coeff_read,
     KeccakInv, Memories, Ntt!nttVars, Ntt!schedule, Keccak!kecVars
<1>5. /\ Shows' = Shows /\ Holds' = Holds /\ NttClear' = NttClear
      /\ KeccakZero' = KeccakZero /\ Permuting' = Permuting
      /\ Answered' = Answered /\ KnownWord(0)' = KnownWord(0)
  BY <1>2 DEF Shows, Holds, NttClear, KeccakZero, Permuting, Answered,
     KnownWord, rspVars, Ntt!nttVars, Keccak!kecVars
<1>6. Wiping' /\ Launch' /\ SelfTesting' /\ HeldTriggerKeepsClean'
      /\ SelfTestSound'
  BY <1>1, <1>2, <1>5 DEF Inv, Wiping, Launch, SelfTesting, SelfTestSound,
     HeldTriggerKeepsClean, rspVars, scrubVars, seenVars, statusVars,
     launchVars, pulseVars, Ntt!nttVars, Ntt!schedule, Keccak!kecVars
<1>7. QED
  BY <1>3, <1>4, <1>6 DEF Inv

(* over every step,                                                        *)
LEMMA InvStep == Inv /\ [Next]_vars => Inv'
  BY EdgeStep, ResetStep, StutterInv DEF Next

(* and over every edge after the last reset.                               *)
LEMMA SettledStep == Inv /\ [Clock]_vars => Inv'
  BY EdgeStep, StutterInv DEF Clock
-----------------------------------------------------------------------------
(* The invariant holds throughout, and what it implies.                    *)
LEMMA CoreInvariant == Spec => []Inv
  BY InitInv, InvStep, PTL DEF Spec

(* The registers of the core and of its engines hold what fits them: no    *)
(* cursor passes its window, write cursors are even except at a last byte, *)
(* and the scrub address stays in the SRAM.                                *)
THEOREM TypeCorrect == Spec => []TypeOK
<1>1. Inv => TypeOK
  <2>1. SUFFICES ASSUME Inv
                 PROVE  TypeOK
    OBVIOUS
  <2>2. Registers /\ Cursors /\ KeccakInv /\ Memories /\ NL!EngineInv
    BY <2>1 DEF Inv
  <2>3. Ntt!NttTypeOK(Taint)
    <3>1. NL!NttCommand = Ntt!NttCommand
      BY DEF NL!NttCommand, Ntt!NttCommand
    <3>2. QED
      BY <2>2, <3>1, SameBanks DEF NL!EngineInv, NL!Control, NL!Ranges,
         Ntt!NttTypeOK, Memories, BankContents
  <2>4. \A ch \in Channels :
            write_cursor[ch] \in {2 * n : n \in 0 .. Limit(ch) \div 2}
    BY <2>2 DEF Cursors, EvenUpTo
  <2>5. QED
    BY <2>2, <2>3, <2>4
       DEF Registers, Cursors, KeccakInv, Memories, TypeOK
<1>2. QED
  BY <1>1, CoreInvariant, PTL

(* After a scrub the core stays empty while the pin that triggered it is   *)
(* held, for every size of the memories and every host.                    *)
THEOREM HeldTriggerStaysClean == Spec => []HeldTriggerKeepsClean
<1>1. Inv => HeldTriggerKeepsClean
  BY DEF Inv
<1>2. QED
  BY <1>1, CoreInvariant, PTL

(* No start pulse of the host or of the self-test reaches an engine that   *)
(* is busy or being zeroized.                                              *)
THEOREM StartsAreNeverLost == Spec => []StartNeverLost
<1>1. Inv => StartNeverLost
  BY DEF Inv, Launch, Wiping, StartNeverLost, engine_zeroize
<1>2. QED
  BY <1>1, CoreInvariant, PTL

(* The transform and the permutation never run together.                   *)
THEOREM EnginesNeverTogether == Spec => []EnginesExclusive
<1>1. Inv => EnginesExclusive
  BY DEF Inv, Launch, EnginesExclusive
<1>2. QED
  BY <1>1, CoreInvariant, PTL

(* The self-test never fails on healthy engines and never passes on a      *)
(* Keccak engine whose answer to the all-zero state has lane 0 wrong, in   *)
(* either half, with resets at any time or with none after the first and   *)
(* any content of the memories.  An engine that is wrong in other lanes    *)
(* alone is not found: the theorem then says that it does not fail.        *)
THEOREM SelfTestIsSound ==
    (Spec => []SelfTestSound) /\ (SettledSpec => []SelfTestSound)
<1>1. Inv => SelfTestSound
  BY DEF Inv
<1>2. SettledSpec => []Inv
  BY InitInv, SettledStep, PTL DEF SettledSpec
<1>3. QED
  BY <1>1, <1>2, CoreInvariant, PTL
-----------------------------------------------------------------------------
(* What a step may never do.                                               *)

(* An edge that shows new data finds the engines at rest.                  *)
LEMMA ShowsFrom ==
    ASSUME Inv, NEW pins \in Pins, Edge(pins), Shows', ~Shows
    PROVE  Served(pins) /\ ~busy /\ Plain /\ Holds /\ Worked
<1>1. Worked /\ EdgeOf(pins)
  BY EdgeSummary
<1>2. ~Scrub(pins) /\ ~NoRequest(pins) /\ ~Enters
  BY DEF Scrub, NoRequest, Enters, Shows
<1>3. Served(pins)
  BY <1>1, <1>2 DEF EdgeOf, Quiet
<1>4. QED
  BY <1>1, <1>3 DEF Served, Shows

(* A response that waits on the link is never exchanged for another.       *)
THEOREM ResponsesAreStable == Spec => ResponseStable
<1>1. ASSUME Inv, [Next]_vars
      PROVE  [rsp_valid /\ rsp_valid' => UNCHANGED <<rsp_data, rsp_last>>]_vars
  <2>1. CASE Reset
    BY <2>1 DEF Reset
  <2>2. ASSUME NEW pins \in Pins, Edge(pins)
        PROVE  rsp_valid /\ rsp_valid' => UNCHANGED <<rsp_data, rsp_last>>
    <3>1. EdgeOf(pins)
      BY <1>1, <2>2, EdgeSummary
    <3>2. QED
      BY <3>1 DEF EdgeOf, Scrub, Enters, Quiet, NoRequest, Served, req_ready
  <2>3. QED
    BY <1>1, <2>1, <2>2 DEF Next
<1>2. QED
  BY <1>1, CoreInvariant, PTL DEF Spec, ResponseStable

(* Data that the host reads comes from engines that are at rest before and *)
(* after the beat.                                                         *)
THEOREM ReadsAreAtRest == Spec => NoReadFromRunningEngine
<1>1. ASSUME Inv, [Next]_vars
      PROVE  [Shows' /\ ~Shows =>
                 /\ ntt_state = "IDLE" /\ ntt_state' = "IDLE"
                 /\ ~kec_busy /\ ~kec_busy']_vars
  <2>1. CASE Reset
    BY <2>1 DEF Reset, Shows
  <2>2. ASSUME NEW pins \in Pins, Edge(pins), Shows', ~Shows
        PROVE  /\ ntt_state = "IDLE" /\ ntt_state' = "IDLE"
               /\ ~kec_busy /\ ~kec_busy'
    BY <1>1, <2>2, ShowsFrom, FreeEngines
  <2>3. QED
    BY <1>1, <2>1, <2>2 DEF Next
<1>2. QED
  BY <1>1, CoreInvariant, PTL DEF Spec, NoReadFromRunningEngine

(* An idle engine that no beat reaches keeps its coefficients, whether it  *)
(* starts or rests.                                                        *)
LEMMA IdleKeeps ==
    ASSUME ntt_state = "IDLE", QuietEngines
    PROVE  coeff' = coeff
<1>1. Ntt!HostWritten(engine_zeroize, NoWrite) = coeff
  BY DEF Ntt!HostWritten, NoWrite
<1>2. Ntt!NttEdge(engine_zeroize, ntt_start, ntt_command, NoWrite)
  BY DEF QuietEngines, Engines
<1>3. QED
  BY <1>1, <1>2 DEF Ntt!NttEdge, Ntt!NttZeroizeStart, Ntt!NttStart,
     Ntt!NttRest, Ntt!NttButterfly, Ntt!NttScale, Ntt!NttZeroize

(* A START of the host runs on exactly what was staged before it.          *)
THEOREM StartsRunOnStagedData == Spec => StartsOnStagedData
<1>1. ASSUME Inv, [Next]_vars
      PROVE  [(ntt_start \/ keccak_start) /\ ~selftest_busy
                  /\ ~zeroize_active' =>
                 UNCHANGED <<coeff, lanes, write_cursor, staged_len>>]_vars
  <2>1. CASE Reset
    BY <2>1 DEF Reset
  <2>2. ASSUME NEW pins \in Pins, Edge(pins), ntt_start \/ keccak_start,
               ~selftest_busy, ~zeroize_active'
        PROVE  UNCHANGED <<coeff, lanes, write_cursor, staged_len>>
    <3>1. /\ rsp_valid /\ ntt_state = "IDLE" /\ ~kec_busy /\ ~zeroize_active
          /\ ~engine_zeroize
      BY <1>1, <2>2 DEF Inv, Launch, Wiping, selftest_busy, engine_zeroize
    <3>2. EdgeOf(pins)
      BY <1>1, <2>2, EdgeSummary
    <3>3. NoRequest(pins) /\ Undisturbed
      BY <2>2, <3>1, <3>2
         DEF EdgeOf, Scrub, Enters, EnterScrub, Quiet, Served, req_ready
    <3>4. coeff' = coeff
      BY <3>1, <3>3, IdleKeeps DEF NoRequest
    <3>5. lanes' = lanes
      BY <3>1, <3>3
         DEF Undisturbed, KeccakStarts, KeccakRounds, KeccakRests, NoWrite
    <3>6. QED
      BY <3>3, <3>4, <3>5 DEF NoRequest, cursorVars
  <2>3. QED
    BY <1>1, <2>1, <2>2 DEF Next
<1>2. QED
  BY <1>1, CoreInvariant, PTL DEF Spec, StartsOnStagedData
-----------------------------------------------------------------------------
(* The refinement of the vault, step by step: a reset, a trigger, a wipe   *)
(* command and the edges of a scrub are Wipe, its last edge is Wiped, and  *)
(* every other edge is Use.                                                *)
LEMMA VaultInit == Init => TheVault!Init
  BY DEF Init, ResetRegisters, TheVault!Init, Shows, Holds

(* A reset clears the registers and the Keccak state and hides the         *)
(* response.                                                               *)
LEMMA VaultReset ==
    ASSUME Inv, Reset
    PROVE  TheVault!Wipe
<1>1. /\ coeff' = coeff /\ sram' = sram /\ lanes' = ClearLanes
      /\ zeroize_active' = TRUE /\ ~rsp_valid'
  BY DEF Reset, Ntt!NttReset, Keccak!KecClear
<1>2. ClearLanes # DataLanes
  BY SMT DEF ClearLanes, DataLanes
<1>3. Holds' => Holds
  BY <1>1, <1>2 DEF Holds
<1>4. Shows' = FALSE
  BY <1>1 DEF Shows
<1>5. Holds' \in BOOLEAN
  BY DEF Holds
<1>6. QED
  BY <1>1, <1>3, <1>4, <1>5 DEF TheVault!Wipe

(* A scrub adds nothing.                                                   *)
LEMMA VaultScrub ==
    ASSUME Inv, NEW pins \in Pins, Scrub(pins), Worked, Undisturbed
    PROVE  TheVault!Wipe \/ TheVault!Wiped
<1>1. /\ zeroize_active /\ zeroize_active' \in BOOLEAN
      /\ SramWrite(scrub_addr, "clear")
  BY DEF Scrub, Inv, Registers
<1>2. Shows' = FALSE
  BY <1>1 DEF Inv, Wiping, Scrub, Shows
<1>3. Holds' => Holds
  <2>1. \A a \in 0 .. (SRAM_WORDS - 1) : sram'[a] = sram[a] \/ sram'[a] = "clear"
    BY <1>1 DEF Inv, Memories, SramContents, SramWrite
  <2>2. SUFFICES ASSUME ~Holds
                 PROVE  ~Holds'
    OBVIOUS
  <2>3. NttClear /\ lanes # DataLanes
        /\ \A a \in 0 .. (SRAM_WORDS - 1) : sram[a] = "clear"
    BY <2>2 DEF Holds, NttClear
  <2>4. NttClear' /\ lanes' # DataLanes
    BY <2>3 DEF Undisturbed
  <2>5. QED
    BY <2>1, <2>3, <2>4 DEF Holds, NttClear
<1>4. ~zeroize_active' => ~Holds'
  BY ScrubbingStep
<1>5. Holds' \in BOOLEAN
  BY DEF Holds
<1>6. CASE zeroize_active'
  BY <1>2, <1>3, <1>5, <1>6 DEF TheVault!Wipe
<1>7. CASE ~zeroize_active'
  BY <1>1, <1>2, <1>4, <1>5, <1>7 DEF TheVault!Wiped
<1>8. QED
  BY <1>6, <1>7

(* A trigger, a control wipe or a wipe command.                            *)
LEMMA VaultEnter ==
    ASSUME Inv, zeroize_active', ~Shows', Undisturbed, UNCHANGED sram
    PROVE  TheVault!Wipe
<1>1. Holds' => Holds
  BY StaysEmpty
<1>2. Holds' \in BOOLEAN /\ Shows' = FALSE
  BY DEF Holds, Shows
<1>3. QED
  BY <1>1, <1>2 DEF TheVault!Wipe

(* Use: data that comes to show was held.                                  *)
LEMMA VaultUse ==
    ASSUME ~zeroize_active, ~zeroize_active', Shows' => Shows \/ Holds
    PROVE  TheVault!Use
<1>1. Holds' \in BOOLEAN /\ Shows' \in BOOLEAN
  BY DEF Holds, Shows
<1>2. QED
  BY <1>1 DEF TheVault!Use

(* Every step of the core is a step of the vault or none.                  *)
LEMMA VaultStep == Inv /\ [Next]_vars => [TheVault!Next]_(TheVault!vaultVars)
<1>1. SUFFICES ASSUME Inv, [Next]_vars
               PROVE  TheVault!Next \/ UNCHANGED TheVault!vaultVars
  OBVIOUS
<1>2. CASE Reset
  BY <1>1, <1>2, VaultReset DEF TheVault!Next
<1>3. ASSUME NEW pins \in Pins, Edge(pins)
      PROVE  TheVault!Next
  <2>1. Worked /\ EdgeOf(pins) /\ Registers /\ zeroize_active' \in BOOLEAN
    BY <1>1, <1>3, EdgeSummary DEF Inv, Registers
  <2>2. Shows' => Shows \/ Holds
    BY <1>1, <1>3, ShowsFrom
  <2>3. CASE Scrub(pins) /\ Undisturbed
    BY <1>1, <2>1, <2>3, VaultScrub DEF TheVault!Next
  <2>4. CASE Enters /\ Undisturbed /\ UNCHANGED sram
    <3>1. zeroize_active' /\ ~Shows'
      BY <2>4 DEF Enters, EnterScrub, Shows
    <3>2. QED
      BY <1>1, <2>4, <3>1, VaultEnter DEF TheVault!Next
  <2>5. CASE Quiet(pins)
    <3>1. ~zeroize_active /\ ~zeroize_active'
      BY <2>5 DEF Quiet, Plain
    <3>2. QED
      BY <2>2, <3>1, VaultUse DEF TheVault!Next
  <2>6. CASE Served(pins) /\ ~busy /\ zeroize_active'
    <3>1. ~zeroize_active /\ ~Plain
      BY <1>1, <2>1, <2>6, FreeEngines DEF Plain
    <3>2. Undisturbed /\ UNCHANGED sram
      BY <2>1, <2>6, <3>1
         DEF EdgeOf, Scrub, Enters, Quiet, Served, MemoryEdge
    <3>3. ~Shows'
      BY <2>6, <3>1 DEF Served, Shows
    <3>4. QED
      BY <1>1, <2>6, <3>2, <3>3, VaultEnter DEF TheVault!Next
  <2>7. CASE Served(pins) /\ ~busy /\ ~zeroize_active'
    <3>1. ~zeroize_active
      BY <1>1, <2>1, <2>7, FreeEngines
    <3>2. QED
      BY <2>2, <2>7, <3>1, VaultUse DEF TheVault!Next
  <2>8. QED
    BY <2>1, <2>3, <2>4, <2>5, <2>6, <2>7 DEF EdgeOf
<1>4. CASE UNCHANGED vars
  <2>1. /\ UNCHANGED rspVars /\ UNCHANGED scrubVars /\ UNCHANGED sram
        /\ UNCHANGED Ntt!nttVars /\ UNCHANGED Keccak!kecVars
    BY <1>4 DEF vars
  <2>2. Holds' = Holds /\ Shows' = Shows /\ zeroize_active' = zeroize_active
    BY <2>1 DEF Holds, Shows, rspVars, scrubVars, Ntt!nttVars, Keccak!kecVars
  <2>3. QED
    BY <2>2 DEF TheVault!vaultVars
<1>5. QED
  BY <1>1, <1>2, <1>3, <1>4 DEF Next

(* The zeroization of the core implements the vault: a trigger, whatever   *)
(* was running, hides what is shown, adds nothing, and leaves every SRAM   *)
(* word, every coefficient and the Keccak state clear when it ends.        *)
THEOREM CoreIsVault == Spec => ImplementsVault
  BY VaultInit, VaultStep, CoreInvariant, PTL
     DEF Spec, ImplementsVault, TheVault!Spec
=============================================================================
