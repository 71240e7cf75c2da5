------------------------------ MODULE ChipTop ------------------------------
(***************************************************************************)
(* The full chip rtl/lca_chip_top.sv: the host frontend, the zeroization   *)
(* controller, the SRAM with its shared write port, the firmware mailbox   *)
(* and the NTT and Keccak peripherals, together with the firmware that the *)
(* processor runs (firmware/main.c and the two MMIO adapters).             *)
(*                                                                         *)
(* A step is one rising edge of clk_i or an asynchronous reset.  On an     *)
(* edge the processor makes at most one bus access: one action per         *)
(* operation of the firmware, and one for an edge without an access.  The  *)
(* input pins of an edge are one record, io.  What the cryptographic       *)
(* library computes is open: it stores to the SRAM, uses the engines and   *)
(* decides.  Data is reduced to taint, as in RevACore.                     *)
(***************************************************************************)
EXTENDS HostFrontend

CONSTANTS
    SRAM_WORDS,             \* parameter of the chip (131072)
    Base,                   \* first SRAM word of each object
    NTT_WORDS, KECCAK_WORDS, ROUNDS,    \* sizes of the engines
    IO,                     \* bound: the combinations of input pins
    CALLS,                  \* bound: engine runs of one command
    NttCalls                \* bound: the transforms it asks for

WorkWord == 0               \* stands for the firmware's data and stack
ObjectWords(o) == Base[o] .. (Base[o] + (Limit[o] + 3) \div 4 - 1)

(* The map of docs/ARCHITECTURE.md: disjoint areas, and a scrub that       *)
(* outlasts the one of the NTT engine.                                     *)
ASSUME MemoryMap ==
    /\ SRAM_WORDS \in Nat /\ SRAM_WORDS > NTT_WORDS
    /\ \A o \in Objects :
        /\ Base[o] \in Nat
        /\ ObjectWords(o) \subseteq 1 .. (SRAM_WORDS - 1)
        /\ \A p \in Objects \ {o} : ObjectWords(o) \cap ObjectWords(p) = {}

VARIABLES
    front,                  \* u_host_frontend
    fw,                     \* fw_claim .. fw_result_len
    zeroize_active, scrub_addr, entropy_word_valid, sram,
    cpu,                    \* the firmware: [pc, cmd, index, calls, outcome]
    ntt_state, ntt_busy, ntt_done, ntt_cmd, len, group, j, k, zeta,
    scale_index, zeroize_index, ntt_zeroize_seen, coeff,    \* u_ntt
    kec_busy, kec_done, round, lanes                        \* u_keccak

Mix(cmd, z, a, b) == IF a = "clear" /\ b = "clear" THEN "clear" ELSE "data"
Unscaled(cmd, a) == a
Stirred(l, r) == "data"
WordIn(l, a, v) == v

Ntt == INSTANCE NttAccel WITH
    N <- NTT_WORDS, ZeroCoeff <- "clear",
    NewA <- Mix, NewB <- Mix, Scaled <- Unscaled
Keccak == INSTANCE KeccakF1600 WITH
    WORDS <- KECCAK_WORDS, ZeroLanes <- "clear",
    RoundOf <- Stirred, WithWord <- WordIn

ASSUME EngineAssumption == Ntt!SizeOK /\ Ntt!BanksSplit
ASSUME SizesAssumption == KECCAK_WORDS \in Nat \ {0} /\ ROUNDS \in Nat \ {0}

(* What an edge of the bounded model may bring.                            *)
ASSUME BoundsAssumption ==
    /\ IO \subseteq [tamper : BOOLEAN, entropy : BOOLEAN, m_ready : BOOLEAN,
                     beat : Beats \cup {NoBeat}, apb : ApbWrites]
    /\ CALLS \in Nat
    /\ NttCalls \subseteq Ntt!NttCommand

vars == <<front, fw, zeroize_active, scrub_addr, entropy_word_valid, sram, cpu,
          Ntt!nttVars, Keccak!kecVars>>

NoFw == [claim |-> FALSE, we |-> FALSE, index |-> 0, data |-> "clear",
         complete |-> FALSE, code |-> "OK", len |-> 0]
Labels == {"poll", "fetch", "claim", "work", "words", "len", "code",
           "ntt_load", "ntt_start", "ntt_wait", "ntt_read",
           "kec_load", "kec_start", "kec_wait", "kec_read"}
Processor == [pc : Labels, cmd : FrontCommands, index : Nat, calls : 0 .. CALLS,
              outcome : [cmd : FrontCommands, code : Codes]]
Boot == [pc |-> "poll", cmd |-> "NONE", index |-> 0, calls |-> 0,
         outcome |-> [cmd |-> "NONE", code |-> "OK"]]

Init ==
    /\ front = Cleared /\ fw = NoFw /\ cpu = Boot
    /\ zeroize_active = FALSE /\ scrub_addr = 0 /\ entropy_word_valid = FALSE
    /\ sram = [a \in 0 .. (SRAM_WORDS - 1) |-> "data"]
    /\ Ntt!NttResetState
    /\ coeff = [b \in {0, 1} |-> [r \in Ntt!Row |-> "data"]]
    /\ Keccak!KecCleared

(* rst_ni low, at any time; the memories keep what they hold.              *)
Reset ==
    /\ front' = Cleared /\ fw' = NoFw /\ cpu' = Boot
    /\ zeroize_active' = FALSE /\ scrub_addr' = 0 /\ entropy_word_valid' = FALSE
    /\ Ntt!NttReset
    /\ Keccak!KecClear
    /\ UNCHANGED sram
-----------------------------------------------------------------------------
(* Zeroization: the trigger is a level, and the frontend, the processor    *)
(* and the engines see it on the very edge.                                *)
zeroize_trigger(io) == io.tamper \/ front.zeroize_req
zeroize_frontend(io) == zeroize_active \/ zeroize_trigger(io)

NoBus == [target |-> "none", index |-> 0, data |-> "clear"]
Bus(target, index, data) == [target |-> target, index |-> index, data |-> data]
HostPort(bus, target) == [we |-> bus.target = target, addr |-> bus.index,
                          data |-> bus.data]
Engines(io, bus) ==
    LET z == zeroize_frontend(io) IN
    /\ Ntt!NttEdge(z, bus.target = "ntt_start", bus.data, HostPort(bus, "ntt_coeff"))
    /\ Keccak!KecEdge(z, bus.target = "kec_start", HostPort(bus, "kec_word"))

Beat(io) == IF io.beat # NoBeat /\ s_ready(front, zeroize_frontend(io))
            THEN io.beat ELSE NoBeat
FrontStep(io) ==
    front' = FrontEdge(front, zeroize_frontend(io), Beat(io), io.apb,
                       io.m_ready, fw)

PulsesOff == [fw EXCEPT !.claim = FALSE, !.we = FALSE, !.complete = FALSE]
EntropyAlways(io) ==                                \* slip: while scrubbing
    entropy_word_valid \/ io.entropy
EntropyOffered(io) ==
    entropy_word_valid \/ (io.entropy /\ ~zeroize_active)

BeginZeroize(io) ==
    /\ ~zeroize_active /\ zeroize_trigger(io)
    /\ zeroize_active' = TRUE /\ scrub_addr' = 0
    /\ entropy_word_valid' = FALSE
    /\ fw' = [PulsesOff EXCEPT !.len = 0]
    /\ cpu' = Boot
    /\ FrontStep(io)
    /\ Engines(io, NoBus)
    /\ UNCHANGED sram

LastWord == scrub_addr = SRAM_WORDS - 1

Scrub(io) ==
    /\ zeroize_active
    /\ sram' = [sram EXCEPT ![scrub_addr] = "clear"]
    /\ zeroize_active' = ~LastWord
    /\ scrub_addr' = IF LastWord THEN 0 ELSE scrub_addr + 1
    /\ entropy_word_valid' = EntropyOffered(io)
    /\ fw' = PulsesOff
    /\ cpu' = Boot
    /\ FrontStep(io)
    /\ Engines(io, NoBus)
-----------------------------------------------------------------------------
(* An edge with neither: the bus access takes effect in the mailbox, an    *)
(* engine or the SRAM, whose write port the host's beats go first on.      *)
MailboxWritten(bus) ==
    CASE bus.target = "claim" -> [PulsesOff EXCEPT !.claim = TRUE]
      [] bus.target = "code"  -> [PulsesOff EXCEPT !.complete = TRUE,
                                                   !.code = bus.data]
      [] bus.target = "len"   -> [PulsesOff EXCEPT !.len = bus.data]
      [] bus.target = "word"  -> [PulsesOff EXCEPT !.we = TRUE,
                                                   !.index = bus.index,
                                                   !.data = bus.data]
      [] OTHER                -> PulsesOff

Dma(io) == Beat(io) # NoBeat /\ dma_we(front, io.beat)
DmaWordAfter(io) ==                                 \* slip: count moved on
    Base[io.beat.object] + next_count(front, io.beat) \div 4
DmaWord(io) == Base[io.beat.object] + front.in.count[io.beat.object] \div 4
SramWritten(io, bus) ==
    IF Dma(io) THEN [sram EXCEPT ![DmaWord(io)] = "data"]
    ELSE IF bus.target = "sram" THEN [sram EXCEPT ![WorkWord] = "data"]
    ELSE sram

Run(io, bus) ==
    /\ ~zeroize_frontend(io)
    /\ bus.target = "sram" => ~Dma(io)              \* else stalled
    /\ sram' = SramWritten(io, bus)
    /\ fw' = MailboxWritten(bus)
    /\ entropy_word_valid' = EntropyOffered(io)
    /\ FrontStep(io)
    /\ Engines(io, bus)
    /\ UNCHANGED <<zeroize_active, scrub_addr>>

(* No bus access: an instruction fetch, internal work, or a stall.         *)
NoAccess(io) == Run(io, NoBus) /\ UNCHANGED cpu

Goto(label) == [cpu EXCEPT !.pc = label, !.index = 0]
At(label) == cpu.pc = label

Poll(io) ==
    /\ At("poll")
    /\ Run(io, NoBus)
    /\ cpu' = IF front.pending THEN Goto("fetch") ELSE cpu

Fetch(io) ==
    /\ At("fetch")
    /\ Run(io, NoBus)
    /\ cpu' = [Goto("claim") EXCEPT !.cmd = front.command]

Claim(io) ==
    /\ At("claim")
    /\ Run(io, Bus("claim", 0, "clear"))
    /\ cpu' = [Goto("work") EXCEPT !.calls = 0]

(* The library at work.                                                    *)
StoreWork(io) ==
    /\ At("work")
    /\ Run(io, Bus("sram", WorkWord, "data"))
    /\ UNCHANGED cpu

UseEngine(io) ==
    /\ At("work")
    /\ cpu.calls < CALLS
    /\ Run(io, NoBus)
    /\ \E label \in IF cpu.cmd = "SELF_TEST" THEN {"kec_load"}
                    ELSE {"kec_load", "ntt_load"} :
          cpu' = [Goto(label) EXCEPT !.calls = @ + 1]

Outcomes(cmd) == CASE cmd = "VERIFY"    -> {"OK", "INVALID_SIGNATURE"}
                   [] cmd = "DECAPS"    -> {"OK", "INTERNAL"}
                   [] cmd = "SELF_TEST" -> {"OK", "SELF_TEST"}
                   [] OTHER             -> {"BAD_COMMAND"}
HasOutput == cpu.outcome = [cmd |-> "DECAPS", code |-> "OK"]

Decide(io) ==
    /\ At("work")
    /\ cpu.cmd = "SELF_TEST" => cpu.calls > 0
    /\ Run(io, NoBus)
    /\ \E code \in Outcomes(cpu.cmd) :
         cpu' = [Goto(IF cpu.cmd = "DECAPS" /\ code = "OK" THEN "words" ELSE "len")
                    EXCEPT !.outcome = [cmd |-> cpu.cmd, code |-> code]]

(* Word by word: on to the next index, or to the label that follows.       *)
Loop(size, label) == IF cpu.index = size - 1 THEN Goto(label)
                     ELSE [cpu EXCEPT !.index = @ + 1]

ResultWord(io) ==
    /\ At("words")
    /\ Run(io, Bus("word", cpu.index, "data"))
    /\ cpu' = Loop(RESULT_WORDS, "len")

ResultLen(io) ==
    /\ At("len")
    /\ Run(io, Bus("len", 0, IF HasOutput THEN 4 * RESULT_WORDS ELSE 0))
    /\ cpu' = Goto("code")

ResultCode(io) ==
    /\ At("code")
    /\ Run(io, Bus("code", 0, cpu.outcome.code))
    /\ cpu' = [Goto("poll") EXCEPT !.cmd = "NONE", !.calls = 0]

(* run_mldsa and run_mlkem.                                                *)
NttLoad(io) ==
    /\ At("ntt_load")
    /\ Run(io, Bus("ntt_coeff", cpu.index, "data"))
    /\ cpu' = Loop(NTT_WORDS, "ntt_start")
NttStart(io) ==
    /\ At("ntt_start")
    /\ \E c \in NttCalls : Run(io, Bus("ntt_start", 0, c))
    /\ cpu' = Goto("ntt_wait")
FinishedAssumed(busy) == TRUE                       \* slip: status not read
Finished(busy) == ~busy
NttWait(io) ==
    /\ At("ntt_wait")
    /\ Run(io, NoBus)
    /\ cpu' = IF Finished(ntt_busy) THEN Goto("ntt_read") ELSE cpu
NttRead(io) ==
    /\ At("ntt_read")
    /\ Run(io, NoBus)
    /\ cpu' = Loop(NTT_WORDS, "work")

(* KeccakF1600_StatePermute.                                               *)
KecLoad(io) ==
    /\ At("kec_load")
    /\ Run(io, Bus("kec_word", cpu.index, "data"))
    /\ cpu' = Loop(KECCAK_WORDS, "kec_start")
KecStart(io) ==
    /\ At("kec_start")
    /\ Run(io, Bus("kec_start", 0, "clear"))
    /\ cpu' = Goto("kec_wait")
KecWait(io) ==
    /\ At("kec_wait")
    /\ Run(io, NoBus)
    /\ cpu' = IF Finished(kec_busy) THEN Goto("kec_read") ELSE cpu
KecRead(io) ==
    /\ At("kec_read")
    /\ Run(io, NoBus)
    /\ cpu' = Loop(KECCAK_WORDS, "work")

Firmware(io) ==
    \/ Poll(io) \/ Fetch(io) \/ Claim(io)
    \/ UseEngine(io) \/ Decide(io)
    \/ ResultWord(io) \/ ResultLen(io) \/ ResultCode(io)
    \/ NttLoad(io) \/ NttStart(io) \/ NttWait(io) \/ NttRead(io)
    \/ KecLoad(io) \/ KecStart(io) \/ KecWait(io) \/ KecRead(io)

Edge(io) ==
    \/ BeginZeroize(io) \/ Scrub(io)
    \/ NoAccess(io) \/ StoreWork(io) \/ Firmware(io)

Next == Reset \/ \E io \in IO : Edge(io)

Spec == Init /\ [][Next]_vars

(* What follows the last reset.  The clock runs, and the processor goes on *)
(* with its program whenever it is out of reset.                           *)
SettledSpec ==
    /\ Init
    /\ [][\E io \in IO : Edge(io)]_vars
    /\ WF_vars(\E io \in IO : Edge(io))
    /\ WF_vars(\E io \in IO : Firmware(io))
-----------------------------------------------------------------------------
Serving == ~(At("poll") \/ At("fetch") \/ At("claim"))

TypeOK ==
    /\ FrontTypeOK(front) /\ fw \in Mailbox
    /\ zeroize_active \in BOOLEAN /\ entropy_word_valid \in BOOLEAN
    /\ scrub_addr \in 0 .. (SRAM_WORDS - 1)
    /\ sram \in [0 .. (SRAM_WORDS - 1) -> {"clear", "data"}]
    /\ cpu \in Processor
    /\ Ntt!NttTypeOK({"clear", "data"})
    /\ kec_busy \in BOOLEAN /\ kec_done \in BOOLEAN
    /\ lanes \in {"clear", "data"} /\ round \in 0 .. (ROUNDS - 1)

(* When zeroize_busy_o falls, other than by a reset, nothing of a command  *)
(* is left in the SRAM, the engines, the entropy register, the frontend or *)
(* the mailbox pulses, whatever the firmware, the engines and the host     *)
(* were doing when the trigger came (lca_chip_top.sv:163-177, 470-482;     *)
(* docs/ARCHITECTURE.md:176-184).                                          *)
Clean ==
    /\ \A a \in 0 .. (SRAM_WORDS - 1) : sram[a] = "clear"
    /\ \A b \in {0, 1}, r \in Ntt!Row : coeff[b][r] = "clear"
    /\ ~ntt_busy /\ lanes = "clear" /\ ~kec_busy
    /\ ~entropy_word_valid /\ front = Cleared /\ cpu = Boot
    /\ ~fw.claim /\ ~fw.we /\ ~fw.complete
ScrubCleans ==
    [][zeroize_active /\ ~zeroize_active' => Clean' \/ Reset]_vars

(* Busy stands for exactly one service of one command: until the claim has *)
(* landed the firmware has not begun, after it the firmware is at work on  *)
(* this very command or its completion is on the way, and when the host    *)
(* sees the chip idle the firmware is back at its poll (main.c:42-52,      *)
(* lca_host_frontend.sv:329, 335, 380).                                    *)
ServedOnce ==
    /\ front.pending /\ ~fw.claim => front.busy /\ ~Serving /\ ~fw.complete
    /\ front.busy /\ (fw.claim \/ ~front.pending) =>
           \/ Serving /\ cpu.cmd = front.command /\ ~fw.complete
           \/ At("poll") /\ fw.complete
    /\ ~front.busy => At("poll") /\ ~front.pending /\ ~fw.claim /\ ~fw.complete

(* VERIFY_VALID is only up for a verification that the firmware decided    *)
(* and found good, whatever was refused, acknowledged or wiped since.      *)
VerdictHonest ==
    front.result.verify_valid =>
        cpu.outcome = [cmd |-> "VERIFY", code |-> "OK"] \/ front.busy

(* What the output stream shows is the complete secret of a decapsulation: *)
(* the registered writes of all the words have landed, none has been       *)
(* scrubbed, and the stream ends at the last one (main.c:74-84,            *)
(* lca_host_frontend.sv:331-357, 405-415).                                 *)
OutputComplete ==
    front.out.active =>
        /\ front.command = "DECAPS" /\ ~front.busy
        /\ \A i \in ResultIndex : front.result.words[i] = "data"
        /\ front.out.left = 4 * (RESULT_WORDS - front.out.index)

(* An object marked as loaded has its exact length, or, a message or       *)
(* context, a length no longer than what was taken of it, and every word   *)
(* up to that count is in the SRAM: no beat is lost to the scrub, the      *)
(* processor's writes or a rejected beat.  The one exception is an object  *)
(* that the host streams on, without clearing it, after it ended inside a  *)
(* word, which docs/COMMAND_ABI.md:106-107 forbids and no register         *)
(* prevents: the next beat is written over the part word and counted from  *)
(* its end, so only its whole words are there (lca_host_frontend.sv:       *)
(* 193-200, 305-328; lca_chip_top.sv:212-225).                             *)
InMemory(o) ==
    \A a \in ObjectWords(o) :
        LET from == 4 * (a - Base[o])
            upto == IF o \in front.in.torn THEN from + 4 ELSE from + 1
        IN  upto <= front.in.count[o] => sram[a] = "data"
LoadedInMemory ==
    /\ front.in.torn \subseteq VariableObjects
    /\ \A o \in front.in.loaded :
        /\ InMemory(o)
        /\ o \in FixedObjects => front.in.count[o] = Limit[o]
        /\ o \in VariableObjects => front.in.len[o] <= front.in.count[o]

(* The firmware reads an engine's window only after a run that it started  *)
(* itself has finished, zeroized and restarted as it may have been.        *)
FreshResults ==
    /\ At("ntt_read") => ~ntt_busy /\ ntt_done
    /\ At("kec_read") => ~kec_busy /\ kec_done

(* A command that was accepted is served, or wiped by a reset or a         *)
(* zeroization: BUSY falls.                                                *)
CommandServed == front.pending ~> ~front.busy
=============================================================================
