--------------------------- MODULE ChipTopProofs ----------------------------
(***************************************************************************)
(* Proofs about the full chip and its firmware, for every size of its      *)
(* memories and objects, every host and everything the cryptographic       *)
(* library may compute.                                                    *)
(***************************************************************************)
EXTENDS ChipTop, TLAPS

NL == INSTANCE NttAccelProofs WITH
    N <- NTT_WORDS, ZeroCoeff <- "clear",
    NewA <- Mix, NewB <- Mix, Scaled <- Unscaled
-----------------------------------------------------------------------------
(* The inductive invariant.  The registers and the memories have their     *)
(* types, and the index of the processor stays within the loop it is in.   *)
LoopSize(pc) ==
    CASE pc = "words"                    -> RESULT_WORDS
      [] pc \in {"ntt_load", "ntt_read"} -> NTT_WORDS
      [] pc \in {"kec_load", "kec_read"} -> KECCAK_WORDS
      [] OTHER                           -> 1

Taint == {"clear", "data"}
Registers ==
    /\ front \in FrontRegisters /\ fw \in Mailbox
    /\ zeroize_active \in BOOLEAN /\ entropy_word_valid \in BOOLEAN
    /\ scrub_addr \in 0 .. (SRAM_WORDS - 1)
    /\ sram \in [0 .. (SRAM_WORDS - 1) -> Taint]
    /\ cpu \in Processor /\ cpu.index < LoopSize(cpu.pc)

KeccakInv ==
    /\ kec_busy \in BOOLEAN /\ kec_done \in BOOLEAN
    /\ lanes \in Taint /\ round \in 0 .. (ROUNDS - 1)

Coefficients == coeff \in [{0, 1} -> [Ntt!Row -> Taint]]

(* At most one pulse of the mailbox is up, and it carries what the         *)
(* firmware has.                                                           *)
Pulses ==
    /\ ~(fw.claim /\ fw.we) /\ ~(fw.claim /\ fw.complete)
    /\ ~(fw.we /\ fw.complete)
    /\ fw.we => fw.data = "data" /\ cpu.pc \in {"words", "len"}
    /\ fw.complete => fw.code = cpu.outcome.code

(* A word of the result is in its register, or the pulse that writes it is *)
(* up.  On the way from the decision to the completion the firmware holds  *)
(* the outcome of the command that the frontend holds, and, if it is a     *)
(* secret, as many words as the loop has passed have landed.               *)
Landed(i) == front.result.words[i] = "data" \/ (fw.we /\ fw.index = i)
Outcome ==
    /\ At("claim") => cpu.cmd = front.command
    /\ cpu.pc \in {"words", "len", "code"} => cpu.outcome.cmd = cpu.cmd
    /\ fw.complete => cpu.outcome.cmd = front.command
    /\ At("words") => HasOutput /\ \A i \in 0 .. (cpu.index - 1) : Landed(i)
    /\ HasOutput /\ (cpu.pc \in {"len", "code"} \/ fw.complete) =>
           \A i \in ResultIndex : Landed(i)
    /\ At("code") \/ fw.complete =>
           fw.len = IF HasOutput THEN 4 * RESULT_WORDS ELSE 0

(* The count of an object of exact length is a number of whole words until *)
(* the object is complete.  Every object has its whole words in the SRAM   *)
(* up to its count, and the last part as well, unless it is torn.          *)
FixedLoaded(o, v) ==
    /\ o \in v.loaded => v.count[o] = Limit[o]
    /\ v.count[o] % 4 = 0 \/ v.count[o] = Limit[o]
    /\ o \notin v.torn
Words(o, v, m) ==
    /\ \A w \in Nat : 4 * w + 4 <= v.count[o] => m[Base[o] + w] = "data"
    /\ o \notin v.torn =>
         \A w \in Nat : 4 * w < v.count[o] => m[Base[o] + w] = "data"
LoadedIn(v, m) ==
    /\ \A o \in Objects : v.count[o] <= Limit[o]
    /\ \A o \in FixedObjects : FixedLoaded(o, v)
    /\ \A o \in Objects : Words(o, v, m)
    /\ \A o \in VariableObjects : v.len[o] <= v.count[o]
Loaded == LoadedIn(front.in, sram)

(* An engine that runs has the firmware waiting for it, and outside a      *)
(* scrub none is being cleared; a zeroize input that the NTT engine has    *)
(* seen outside a scrub is one that was held past its end.                 *)
AllClear == \A b \in {0, 1}, r \in Ntt!Row : coeff[b][r] = "clear"
EnginesServe ==
    /\ ntt_state \in {"BUTTERFLY", "SCALE"} => At("ntt_wait")
    /\ At("ntt_wait") => ntt_state \in {"BUTTERFLY", "SCALE"} \/ ntt_done
    /\ At("ntt_read") => ntt_state = "IDLE" /\ ntt_done
    /\ kec_busy => At("kec_wait")
    /\ At("kec_wait") => kec_busy \/ kec_done
    /\ At("kec_read") => ~kec_busy /\ kec_done
    /\ ~zeroize_active => ntt_state # "ZEROIZE"
    /\ ~zeroize_active /\ ntt_zeroize_seen => ntt_state = "IDLE" /\ AllClear

(* A scrub holds the processor and the frontend in reset, has cleared the  *)
(* SRAM up to its address, and walks in step with the scrub of the NTT     *)
(* engine, which it outlasts.                                              *)
Wiping ==
    zeroize_active =>
        /\ cpu = Boot /\ front = Cleared
        /\ ~fw.claim /\ ~fw.we /\ ~fw.complete
        /\ ~entropy_word_valid /\ lanes = "clear" /\ ~kec_busy
        /\ \A a \in 0 .. (scrub_addr - 1) : sram[a] = "clear"
        /\ ntt_zeroize_seen
        /\ \/ ntt_state = "ZEROIZE" /\ zeroize_index = scrub_addr
           \/ ntt_state = "IDLE" /\ AllClear

Inv ==
    /\ Registers /\ Coefficients /\ KeccakInv
    /\ NL!EngineInv /\ NL!ScrubClears
    /\ Pulses /\ ServedOnce /\ Outcome /\ VerdictHonest /\ OutputComplete
    /\ Loaded /\ EnginesServe /\ Wiping
-----------------------------------------------------------------------------
(* The lemmas about the engine speak of the engine of the chip.            *)
LEMMA SameBanks ==
    /\ \A a : NL!Bank(a) = Ntt!Bank(a) /\ NL!RowOf(a) = Ntt!RowOf(a)
    /\ NL!Address = Ntt!Address /\ NL!Row = Ntt!Row
    /\ \A a : NL!coeff_read(a) = Ntt!coeff_read(a)
<1>1. \A a : NL!Bank(a) = Ntt!Bank(a)
  BY DEF NL!Bank, Ntt!Bank, NL!Parity, Ntt!Parity
<1>2. \A a : NL!RowOf(a) = Ntt!RowOf(a)
  BY DEF NL!RowOf, Ntt!RowOf
<1>3. NL!Address = Ntt!Address /\ NL!Row = Ntt!Row
  BY DEF NL!Address, Ntt!Address, NL!Row, Ntt!Row
<1>4. \A a : NL!coeff_read(a) = Ntt!coeff_read(a)
  BY <1>1, <1>2 DEF NL!coeff_read, Ntt!coeff_read
<1>5. QED
  BY <1>1, <1>2, <1>3, <1>4

(* What is assumed of the engine of the chip is what its lemmas assume.    *)
LEMMA EngineSize == NL!SizeOK /\ NL!BanksSplit
<1>1. NL!SizeOK
  BY EngineAssumption DEF NL!SizeOK, Ntt!SizeOK, NL!PowerOfTwo, Ntt!PowerOfTwo
<1>2. NL!BanksSplit
  BY EngineAssumption, SameBanks
     DEF NL!BanksSplit, Ntt!BanksSplit, NL!PowerOfTwo, Ntt!PowerOfTwo
<1>3. QED
  BY <1>1, <1>2

(* Its reset is theirs.                                                    *)
LEMMA SameReset ==
    /\ Ntt!NttResetState => NL!NttResetState
    /\ Ntt!NttReset => NL!NttReset
  BY DEF Ntt!NttResetState, NL!NttResetState, Ntt!NttReset, NL!NttReset

(* Its edge is theirs.                                                     *)
LEMMA SameEdge ==
    ASSUME NEW z, NEW s, NEW c, NEW h, Ntt!NttEdge(z, s, c, h)
    PROVE  NL!NttEdge(z, s, c, h)
<1>1. \A f, a, v : NL!Store(f, a, v) = Ntt!Store(f, a, v)
  BY SameBanks DEF NL!Store, Ntt!Store
<1>2. NL!HostWritten(z, h) = Ntt!HostWritten(z, h)
  BY <1>1 DEF NL!HostWritten, Ntt!HostWritten
<1>3. /\ NL!NttLatch(z) <=> Ntt!NttLatch(z)
      /\ NL!Forward = Ntt!Forward
      /\ NL!NextK = Ntt!NextK
      /\ NL!next_group_start = Ntt!next_group_start
      /\ NL!peer = Ntt!peer
  BY DEF NL!NttLatch, Ntt!NttLatch, NL!Forward, Ntt!Forward, NL!NextK,
         Ntt!NextK, NL!next_group_start, Ntt!next_group_start,
         NL!peer, Ntt!peer
<1>4. \A cmd, i : NL!ZetaOf(cmd, i) = Ntt!ZetaOf(cmd, i)
  BY DEF NL!ZetaOf, Ntt!ZetaOf
<1>5. NL!FirstLen(c) = Ntt!FirstLen(c) /\ NL!FirstK(c) = Ntt!FirstK(c)
  BY Zenon DEF NL!FirstLen, Ntt!FirstLen, NL!FirstK, Ntt!FirstK,
               NL!Forward, Ntt!Forward
<1>6. NL!LastLayer <=> Ntt!LastLayer
  BY Zenon DEF NL!LastLayer, Ntt!LastLayer
<1>7. NL!Advance <=> Ntt!Advance
  BY Zenon, <1>3, <1>4, <1>6 DEF NL!Advance, Ntt!Advance
<1>8. Ntt!NttZeroizeStart(z) => NL!NttZeroizeStart(z)
  BY DEF NL!NttZeroizeStart, Ntt!NttZeroizeStart
<1>9. Ntt!NttStart(z, s, c, h) => NL!NttStart(z, s, c, h)
  BY Zenon, <1>2, <1>3, <1>4, <1>5 DEF NL!NttStart, Ntt!NttStart
<1>10. Ntt!NttRest(z, s, h) => NL!NttRest(z, s, h)
  BY Zenon, <1>2, <1>3
     DEF NL!NttRest, Ntt!NttRest, NL!schedule, Ntt!schedule
<1>11. Ntt!NttButterfly(z, h) => NL!NttButterfly(z, h)
  BY Zenon, <1>2, <1>3, <1>7, SameBanks DEF NL!NttButterfly, Ntt!NttButterfly
<1>12. Ntt!NttScale(z, h) => NL!NttScale(z, h)
  BY Zenon, <1>1, <1>2, <1>3, SameBanks DEF NL!NttScale, Ntt!NttScale
<1>13. Ntt!NttZeroize(z, h) => NL!NttZeroize(z, h)
  BY Zenon, <1>1, <1>2, <1>3
     DEF NL!NttZeroize, Ntt!NttZeroize, NL!LastZeroize, Ntt!LastZeroize,
         NL!schedule, Ntt!schedule
<1>14. QED
  BY Zenon, <1>8, <1>9, <1>10, <1>11, <1>12, <1>13
     DEF NL!NttEdge, Ntt!NttEdge
-----------------------------------------------------------------------------
(* The registers of the frontend.  A part is replaced, the others stay.    *)
LEMMA WithInput ==
    ASSUME NEW n \in FrontRegisters, NEW v \in InputRegisters
    PROVE  LET r == [n EXCEPT !.in = v] IN
           /\ r \in FrontRegisters /\ r.in = v
           /\ r.command_reg = n.command_reg /\ r.command = n.command
           /\ r.pending = n.pending /\ r.busy = n.busy
           /\ r.result = n.result /\ r.out = n.out
  BY DEF FrontRegisters

(* The result registers are replaced.                                      *)
LEMMA WithResult ==
    ASSUME NEW n \in FrontRegisters, NEW v \in ResultRegisters
    PROVE  LET r == [n EXCEPT !.result = v] IN
           /\ r \in FrontRegisters /\ r.result = v
           /\ r.command_reg = n.command_reg /\ r.command = n.command
           /\ r.pending = n.pending /\ r.busy = n.busy
           /\ r.in = n.in /\ r.out = n.out
  BY DEF FrontRegisters

(* The registers of the output stream are replaced.                        *)
LEMMA WithOutput ==
    ASSUME NEW n \in FrontRegisters, NEW v \in OutputRegisters
    PROVE  LET r == [n EXCEPT !.out = v] IN
           /\ r \in FrontRegisters /\ r.out = v
           /\ r.command_reg = n.command_reg /\ r.command = n.command
           /\ r.pending = n.pending /\ r.busy = n.busy
           /\ r.in = n.in /\ r.result = n.result
  BY DEF FrontRegisters

(* What the registers of the frontend are, field by field.                 *)
Like(r, n) ==
    /\ r \in FrontRegisters
    /\ r.command = n.command
    /\ r.pending = n.pending /\ r.busy = n.busy
    /\ r.in = n.in /\ r.out = n.out
    /\ r.result.words = n.result.words
    /\ r.result.verify_valid = n.result.verify_valid

(* A refusal touches the status alone.                                     *)
LEMMA RefusedLike ==
    ASSUME NEW n \in FrontRegisters, NEW c \in Codes
    PROVE  LET v == [n.result EXCEPT !.done = TRUE, !.error = TRUE, !.code = c]
           IN  Like([n EXCEPT !.result = v], n)
<1> DEFINE v == [n.result EXCEPT !.done = TRUE, !.error = TRUE, !.code = c]
<1>1. n.result \in ResultRegisters
  BY DEF FrontRegisters
<1>2. /\ v \in ResultRegisters /\ v.words = n.result.words
      /\ v.verify_valid = n.result.verify_valid
  BY <1>1 DEF ResultRegisters
<1> HIDE DEF v
<1>3. Like([n EXCEPT !.result = v], n)
  BY <1>2, WithResult DEF Like
<1>4. QED
  BY <1>3 DEF v

(* A START that is refused leaves busy, the inputs and the output alone.   *)
LEMMA StartRefused ==
    ASSUME NEW f \in FrontRegisters, NEW n \in FrontRegisters,
           NEW bits \in SUBSET ControlBits,
           RefusedWith(f) # "OK" \/ "start" \notin bits
    PROVE  Like(Started(f, n, bits), n)
<1>1. RefusedWith(f) \in Codes
  BY DEF RefusedWith, Codes
<1>2. CASE "start" \notin bits
  BY <1>2 DEF Started, Like
<1>3. CASE "start" \in bits
  BY Zenon, <1>1, <1>3, RefusedLike DEF Started
<1>4. QED
  BY <1>2, <1>3

(* A zeroization that is asked for changes flags alone.                    *)
LEMMA AskedLike ==
    ASSUME NEW f \in FrontRegisters, NEW n \in FrontRegisters,
           NEW bits \in SUBSET ControlBits
    PROVE  /\ Like(ZeroizeAsked(f, n, bits), n)
           /\ ZeroizeAsked(f, n, bits).result = n.result
  BY DEF ZeroizeAsked, Like, FrontRegisters

(* While a command runs, a host write changes nothing of it.               *)
LEMMA WrittenWhileBusy ==
    ASSUME NEW f \in FrontRegisters, NEW n \in FrontRegisters,
           NEW apb \in ApbWrites, f.busy
    PROVE  Like(Written(f, n, apb), n)
<1>1. CASE apb.reg = "NONE"
  BY Zenon, <1>1 DEF Like, Written
<1>2. CASE apb.reg = "COMMAND"
  <2>1. apb.value \in FrontCommands
    BY <1>2 DEF ApbWrites
  <2>2. Written(f, n, apb) = [n EXCEPT !.command_reg = apb.value]
    BY Zenon, <1>2 DEF Written
  <2>3. QED
    BY <2>1, <2>2 DEF Like, FrontRegisters
<1>3. CASE apb.reg = "CONTROL"
  <2> DEFINE s == Started(f, n, apb.bits)
  <2>0. apb.bits \in SUBSET ControlBits
    BY <1>3 DEF ApbWrites
  <2>1. Like(s, n) /\ s \in FrontRegisters
    BY <2>0, StartRefused DEF RefusedWith, Like
  <2>2. Acknowledged(f, s, apb.bits) = s
    BY DEF Acknowledged
  <2>3. InputsCleared(f, s, apb.bits) = s
    BY DEF InputsCleared
  <2>4. Like(ZeroizeAsked(f, s, apb.bits), s)
    BY <2>0, <2>1, AskedLike
  <2>5. Written(f, n, apb) = ZeroizeAsked(f, s, apb.bits)
    BY Zenon, <1>3, <2>2, <2>3 DEF Written
  <2>6. QED
    BY <2>1, <2>4, <2>5 DEF Like
<1>4. QED
  BY <1>1, <1>2, <1>3 DEF ApbWrites

(* A start is accepted.                                                    *)
Accepts(f, apb) ==
    apb.reg = "CONTROL" /\ "start" \in apb.bits /\ RefusedWith(f) = "OK"

Emptied(r) == r.result.verify_valid = FALSE /\ r.out.active = FALSE

(* Cleared result registers are result registers.                          *)
LEMMA ClearedTypes ==
    /\ NoInput \in InputRegisters /\ NoResult \in ResultRegisters
    /\ NoOutput \in OutputRegisters /\ Cleared \in FrontRegisters
<1>1. /\ RESULT_WORDS \in Nat /\ RESULT_WORDS > 0
      /\ 0 \in 0 .. 4 * RESULT_WORDS /\ 0 \in ResultIndex
  BY SMT, ObjectsAssumption DEF ResultIndex
<1>2. NoInput \in InputRegisters
  BY DEF NoInput, InputRegisters, Objects
<1>3. NoResult \in ResultRegisters
  BY DEF NoResult, ResultRegisters, NoWords, Codes
<1>4. NoOutput \in OutputRegisters
  BY <1>1 DEF NoOutput, OutputRegisters
<1>5. QED
  BY <1>2, <1>3, <1>4 DEF Cleared, FrontRegisters, FrontCommands

Launched(r, f) ==
    /\ r \in FrontRegisters /\ f.busy = FALSE /\ f.pending = FALSE
    /\ r.command = f.command_reg /\ r.pending = TRUE /\ r.busy = TRUE
    /\ Emptied(r)

(* A START that is accepted makes the frontend busy and its command        *)
(* pending.                                                                *)
LEMMA StartAccepted ==
    ASSUME NEW f \in FrontRegisters, NEW n \in FrontRegisters, NEW bits,
           RefusedWith(f) = "OK", "start" \in bits
    PROVE  /\ Launched(Started(f, n, bits), f)
           /\ Started(f, n, bits).in = n.in
<1>1. f.busy = FALSE /\ f.pending = FALSE
  BY DEF RefusedWith, FrontRegisters
<1>2. Started(f, n, bits) =
          [n EXCEPT !.command = f.command_reg, !.pending = TRUE, !.busy = TRUE,
                    !.result = NoResult, !.out = NoOutput]
  BY DEF Started
<1>3. /\ NoResult \in ResultRegisters /\ NoResult.verify_valid = FALSE
      /\ NoOutput \in OutputRegisters /\ NoOutput.active = FALSE
  BY ClearedTypes DEF NoResult, NoOutput
<1>4. QED
  BY <1>1, <1>2, <1>3 DEF FrontRegisters, Emptied, Launched

(* An acknowledged result leaves the registers.                            *)
LEMMA AcknowledgedIs ==
    ASSUME NEW f \in FrontRegisters, NEW n \in FrontRegisters,
           NEW bits \in SUBSET ControlBits
    PROVE  LET r == Acknowledged(f, n, bits) IN
           /\ r \in FrontRegisters /\ r.command = n.command
           /\ r.pending = n.pending /\ r.busy = n.busy /\ r.in = n.in
           /\ r = n \/ Emptied(r)
<1>1. CASE "ack" \in bits /\ ~f.busy
  <2> DEFINE v == [n.out EXCEPT !.active = FALSE, !.left = 0]
  <2>1. n.out \in OutputRegisters /\ 0 \in 0 .. 4 * RESULT_WORDS
    BY SMT, ObjectsAssumption DEF FrontRegisters
  <2>2. v \in OutputRegisters /\ v.active = FALSE
    BY <2>1 DEF OutputRegisters
  <2>3. Acknowledged(f, n, bits) = [n EXCEPT !.result = NoResult, !.out = v]
    BY <1>1 DEF Acknowledged
  <2> HIDE DEF v
  <2>4. NoResult \in ResultRegisters /\ NoResult.verify_valid = FALSE
    BY ClearedTypes DEF NoResult
  <2>5. QED
    BY <2>2, <2>3, <2>4 DEF FrontRegisters, Emptied
<1>2. CASE ~("ack" \in bits /\ ~f.busy)
  BY <1>2 DEF Acknowledged
<1>3. QED
  BY <1>1, <1>2

(* The inputs are thrown away and their counts with them.                  *)
LEMMA InputsClearedIs ==
    ASSUME NEW f \in FrontRegisters, NEW n \in FrontRegisters,
           NEW bits \in SUBSET ControlBits
    PROVE  LET r == InputsCleared(f, n, bits) IN
           /\ r \in FrontRegisters /\ r.command = n.command
           /\ r.pending = n.pending /\ r.busy = n.busy
           /\ r.in \in {n.in, NoInput}
           /\ r.result = n.result /\ r.out = n.out
<1>1. CASE "clear" \in bits /\ ~f.busy
  BY Zenon, <1>1, WithInput, ClearedTypes DEF InputsCleared
<1>2. CASE ~("clear" \in bits /\ ~f.busy)
  BY <1>2 DEF InputsCleared
<1>3. QED
  BY <1>1, <1>2

Writes(r, n, f, apb) ==
    /\ r \in FrontRegisters /\ r.in \in {n.in, NoInput}
    /\ IF Accepts(f, apb)
       THEN Launched(r, f)
       ELSE /\ r.command = n.command
            /\ r.pending = n.pending /\ r.busy = n.busy
            /\ \/ /\ r.result.words = n.result.words /\ r.out = n.out
                  /\ r.result.verify_valid = n.result.verify_valid
               \/ Emptied(r)

(* What a host write makes of the registers: a START that is accepted, or  *)
(* flags, inputs and results that are dropped.                             *)
LEMMA WrittenWhileFree ==
    ASSUME NEW f \in FrontRegisters, NEW n \in FrontRegisters,
           NEW apb \in ApbWrites
    PROVE  Writes(Written(f, n, apb), n, f, apb)
<1>1. CASE apb.reg = "NONE"
  <2>1. Written(f, n, apb) = n /\ ~Accepts(f, apb)
    BY Zenon, <1>1 DEF Written, Accepts
  <2>2. QED
    BY <2>1 DEF Writes
<1>2. CASE apb.reg = "COMMAND"
  <2>1. apb.value \in FrontCommands
    BY <1>2 DEF ApbWrites
  <2>2. Written(f, n, apb) = [n EXCEPT !.command_reg = apb.value]
        /\ ~Accepts(f, apb)
    BY Zenon, <1>2 DEF Written, Accepts
  <2>3. QED
    BY <2>1, <2>2 DEF FrontRegisters, Writes
<1>3. CASE apb.reg = "CONTROL"
  <2> DEFINE s == Started(f, n, apb.bits)
             a == Acknowledged(f, s, apb.bits)
             i == InputsCleared(f, a, apb.bits)
             r == ZeroizeAsked(f, i, apb.bits)
  <2>1. apb.bits \in SUBSET ControlBits
    BY <1>3 DEF ApbWrites
  <2>2. Written(f, n, apb) = r
    BY Zenon, <1>3 DEF Written
  <2>3. /\ s \in FrontRegisters /\ s.in = n.in
        /\ IF Accepts(f, apb)
           THEN Launched(s, f)
           ELSE Like(s, n)
    <3>1. CASE Accepts(f, apb)
      <4>1. RefusedWith(f) = "OK" /\ "start" \in apb.bits
        BY <3>1 DEF Accepts
      <4>2. Launched(s, f) /\ s.in = n.in
        BY <4>1, StartAccepted
      <4> HIDE DEF s
      <4>3. QED
        BY <3>1, <4>2 DEF Launched
    <3>2. CASE ~Accepts(f, apb)
      <4>1. RefusedWith(f) # "OK" \/ "start" \notin apb.bits
        BY <1>3, <3>2 DEF Accepts
      <4>2. QED
        BY <2>1, <3>2, <4>1, StartRefused DEF Like
    <3>3. QED
      BY <3>1, <3>2
  <2> HIDE DEF s
  <2>4. /\ a \in FrontRegisters /\ a.command = s.command
        /\ a.pending = s.pending /\ a.busy = s.busy /\ a.in = s.in
        /\ a = s \/ Emptied(a)
    BY <2>1, <2>3, AcknowledgedIs
  <2> HIDE DEF a
  <2>5. /\ i \in FrontRegisters /\ i.command = a.command
        /\ i.pending = a.pending /\ i.busy = a.busy
        /\ i.in \in {a.in, NoInput}
        /\ i.result = a.result /\ i.out = a.out
    BY <2>1, <2>4, InputsClearedIs
  <2> HIDE DEF i
  <2>6. Like(r, i) /\ r.result = i.result
    BY <2>1, <2>5, AskedLike
  <2> HIDE DEF r
  <2>7. r \in FrontRegisters /\ r.in \in {n.in, NoInput}
    BY <2>3, <2>4, <2>5, <2>6 DEF Like
  <2>8. CASE Accepts(f, apb)
    BY <2>2, <2>3, <2>4, <2>5, <2>6, <2>7, <2>8
       DEF Like, Emptied, Launched, Writes
  <2>9. CASE ~Accepts(f, apb)
    BY <2>2, <2>3, <2>4, <2>5, <2>6, <2>7, <2>9 DEF Like, Emptied, Writes
  <2>10. QED
    BY <2>8, <2>9
<1>4. QED
  BY <1>1, <1>2, <1>3 DEF ApbWrites
-----------------------------------------------------------------------------
(* What a beat makes of the input registers.                               *)
TakesBeat(f, v, beat) ==
    LET o == beat.object IN
    IF BeatWrong(f, beat)
    THEN /\ v.count = f.in.count /\ v.len = f.in.len /\ v.torn = f.in.torn
         /\ v.loaded = f.in.loaded \ {o}
    ELSE /\ v.count = [f.in.count EXCEPT ![o] = next_count(f, beat)]
         /\ v.loaded = IF beat.last THEN f.in.loaded \cup {o}
                       ELSE IF f.in.count[o] = 0 THEN f.in.loaded \ {o}
                       ELSE f.in.loaded
         /\ v.len = IF beat.last /\ o \in VariableObjects
                    THEN [f.in.len EXCEPT ![o] = next_count(f, beat)]
                    ELSE f.in.len
         /\ v.torn = IF f.in.count[o] % 4 # 0 THEN f.in.torn \cup {o}
                     ELSE f.in.torn

Feeds(r, n, f, beat) ==
    /\ r \in FrontRegisters /\ TakesBeat(f, r.in, beat)
    /\ r.command = n.command /\ r.pending = n.pending /\ r.busy = n.busy
    /\ r.result = n.result /\ r.out = n.out

(* A beat of the input stream moves the input registers alone.             *)
LEMMA StreamedIs ==
    ASSUME NEW f \in FrontRegisters, NEW n \in FrontRegisters,
           NEW beat \in Beats, n.in = f.in
    PROVE  Feeds(Streamed(f, n, beat), n, f, beat)
<1> DEFINE o == beat.object
<1>1. /\ o \in Objects /\ n.in \in InputRegisters
      /\ next_count(f, beat) \in Nat
  <2>1. o \in Objects /\ beat.bytes \in Nat /\ n.in \in InputRegisters
    BY DEF Beats, FrontRegisters
  <2>2. f.in.count[o] \in Nat
    BY <2>1 DEF InputRegisters
  <2>3. QED
    BY SMT, <2>1, <2>2 DEF next_count
<1>2. CASE BeatWrong(f, beat)
  <2> DEFINE v == [n.in EXCEPT !.ingress_error = TRUE,
                            !.loaded = n.in.loaded \ {o}]
  <2>1. /\ v \in InputRegisters /\ v.count = n.in.count /\ v.len = n.in.len
        /\ v.loaded = n.in.loaded \ {o} /\ v.torn = n.in.torn
    BY <1>1 DEF InputRegisters
  <2>2. Streamed(f, n, beat) = [n EXCEPT !.in = v]
    BY <1>2 DEF Streamed
  <2> HIDE DEF v
  <2>3. QED
    BY <1>2, <2>1, <2>2, WithInput DEF TakesBeat, Feeds
<1>3. CASE ~BeatWrong(f, beat)
  <2> DEFINE c == [n.in.count EXCEPT ![o] = next_count(f, beat)]
             l == IF beat.last THEN n.in.loaded \cup {o}
                  ELSE IF f.in.count[o] = 0 THEN n.in.loaded \ {o}
                  ELSE n.in.loaded
             e == IF beat.last /\ o \in VariableObjects
                  THEN [n.in.len EXCEPT ![o] = next_count(f, beat)]
                  ELSE n.in.len
             t == IF f.in.count[o] % 4 # 0 THEN n.in.torn \cup {o}
                  ELSE n.in.torn
             v == [n.in EXCEPT !.count = c, !.loaded = l, !.len = e, !.torn = t]
  <2>1. /\ c \in [Objects -> Nat] /\ l \in SUBSET Objects
        /\ e \in [VariableObjects -> Nat] /\ t \in SUBSET Objects
    BY <1>1 DEF InputRegisters
  <2>2. Streamed(f, n, beat) = [n EXCEPT !.in = v]
    BY <1>3 DEF Streamed
  <2>3. TakesBeat(f, [count |-> c, loaded |-> l, len |-> e, torn |-> t], beat)
    BY <1>3 DEF TakesBeat
  <2> HIDE DEF c, l, e
  <2>4. /\ v \in InputRegisters /\ v.count = c /\ v.loaded = l /\ v.len = e
        /\ v.torn = t
    BY <1>1, <2>1 DEF InputRegisters
  <2> HIDE DEF v
  <2>5. TakesBeat(f, v, beat)
    BY <1>3, <2>3, <2>4 DEF TakesBeat
  <2>6. QED
    BY <2>2, <2>4, <2>5, WithInput DEF Feeds
<1>4. QED
  BY <1>2, <1>3

Stores(r, n, box) ==
    /\ r \in FrontRegisters /\ r.in = n.in /\ r.command = n.command
    /\ r.pending = IF box.claim THEN FALSE ELSE n.pending
    /\ r.busy = n.busy /\ r.out = n.out
    /\ r.result.verify_valid = n.result.verify_valid
    /\ r.result.words = IF box.we THEN [n.result.words EXCEPT
                                          ![box.index] = box.data]
                        ELSE n.result.words

(* A result word from the firmware moves its register alone.               *)
LEMMA StoredIs ==
    ASSUME NEW f \in FrontRegisters, NEW n \in FrontRegisters,
           NEW box \in Mailbox
    PROVE  Stores(WordStored(f, Claimed(f, n, box), box), n, box)
<1> DEFINE c == Claimed(f, n, box)
<1>1. /\ c \in FrontRegisters /\ c.in = n.in /\ c.command = n.command
      /\ c.pending = IF box.claim THEN FALSE ELSE n.pending
      /\ c.busy = n.busy /\ c.out = n.out /\ c.result = n.result
  BY DEF Claimed, FrontRegisters
<1> HIDE DEF c
<1>2. CASE box.we
  <2> DEFINE w == [c.result.words EXCEPT ![box.index] = box.data]
             v == [c.result EXCEPT !.words = w]
  <2>1. c.result \in ResultRegisters
    BY <1>1 DEF FrontRegisters
  <2>2. w \in [ResultIndex -> {"clear", "data"}]
    BY <2>1 DEF ResultRegisters, Mailbox
  <2>3. WordStored(f, c, box) = [c EXCEPT !.result = v]
    BY <1>2 DEF WordStored
  <2>4. w = [n.result.words EXCEPT ![box.index] = box.data]
    BY <1>1
  <2> HIDE DEF w
  <2>5. /\ v \in ResultRegisters /\ v.words = w
        /\ v.verify_valid = c.result.verify_valid
    BY <2>1, <2>2 DEF ResultRegisters
  <2> HIDE DEF v
  <2>6. LET r == [c EXCEPT !.result = v] IN
        /\ r \in FrontRegisters /\ r.result = v
        /\ r.command = c.command /\ r.pending = c.pending
        /\ r.busy = c.busy /\ r.in = c.in /\ r.out = c.out
    BY <1>1, <2>5, WithResult
  <2>7. QED
    BY <1>1, <1>2, <2>3, <2>4, <2>5, <2>6 DEF c, Stores
<1>3. CASE ~box.we
  <2>1. WordStored(f, c, box) = c
    BY <1>3 DEF WordStored
  <2>2. QED
    BY <1>1, <1>3, <2>1 DEF c, Stores
<1>4. QED
  BY <1>2, <1>3

Completes(r, n, f, box) ==
    /\ r \in FrontRegisters /\ r.in = n.in
    /\ r.command = n.command /\ r.pending = n.pending
    /\ r.busy = FALSE /\ r.result.words = n.result.words
    /\ r.result.verify_valid => f.command = "VERIFY" /\ box.code = "OK"
    /\ r.out.active => box.len # 0 /\ r.out.index = 0 /\ r.out.left = box.len

(* A completion frees the frontend and shows the outcome with its output.  *)
LEMMA CompletedIs ==
    ASSUME NEW f \in FrontRegisters, NEW n \in FrontRegisters,
           NEW box \in Mailbox, box.complete, f.busy
    PROVE  Completes(Completed(f, n, box), n, f, box)
<1> DEFINE x == box.code \in ErrorCodes
           y == f.command = "VERIFY" /\ box.code = "OK"
           z == box.len # 0 /\ box.len <= 4 * RESULT_WORDS
           v == [n.result EXCEPT !.done = TRUE, !.code = box.code,
                     !.len = box.len, !.error = x, !.verify_valid = y]
           u == [active |-> z, index |-> 0, left |-> box.len]
<1>1. Completed(f, n, box) = [n EXCEPT !.busy = FALSE, !.result = v, !.out = u]
  BY DEF Completed
<1>2. x \in BOOLEAN /\ y \in BOOLEAN /\ z \in BOOLEAN
  OBVIOUS
<1>3. /\ box.code \in Codes /\ box.len \in {0, 4 * RESULT_WORDS}
      /\ n.result \in ResultRegisters
  BY DEF Mailbox, FrontRegisters
<1>4. 0 \in ResultIndex /\ box.len \in 0 .. 4 * RESULT_WORDS
  BY SMT, <1>3, ObjectsAssumption DEF ResultIndex
<1>5. z => box.len # 0
  OBVIOUS
<1>6. y => f.command = "VERIFY" /\ box.code = "OK"
  OBVIOUS
<1> HIDE DEF x, y, z
<1>7. v \in ResultRegisters /\ v.words = n.result.words /\ v.verify_valid = y
  BY <1>2, <1>3 DEF ResultRegisters
<1>8. u \in OutputRegisters /\ u.active = z /\ u.index = 0 /\ u.left = box.len
  BY <1>2, <1>4 DEF OutputRegisters
<1> HIDE DEF u, v
<1>9. LET r == [n EXCEPT !.busy = FALSE, !.result = v, !.out = u] IN
      /\ r \in FrontRegisters /\ r.in = n.in
      /\ r.command = n.command /\ r.pending = n.pending
      /\ r.busy = FALSE /\ r.result = v /\ r.out = u
  BY <1>7, <1>8 DEF FrontRegisters
<1>10. QED
  BY <1>1, <1>5, <1>6, <1>7, <1>8, <1>9 DEF Completes

(* What the output stream shows next.                                      *)
PoppedIs(f, o) ==
    \/ o = f.out
    \/ o.active = FALSE
    \/ /\ f.out.active /\ f.out.left > 4
       /\ o.index = f.out.index + 1 /\ o.left = f.out.left - 4

Pops(r, n, f) ==
    /\ r \in FrontRegisters /\ r.in = n.in
    /\ r.command = n.command /\ r.pending = n.pending /\ r.busy = n.busy
    /\ r.result = n.result /\ PoppedIs(f, r.out)

(* A word that the host takes moves the output stream alone.               *)
LEMMA PopStep ==
    ASSUME NEW f \in FrontRegisters, NEW n \in FrontRegisters, NEW m,
           n.out = f.out,
           f.out.active => f.out.left = 4 * (RESULT_WORDS - f.out.index)
    PROVE  Pops(Popped(f, n, m), n, f)
<1>1. f.out \in OutputRegisters
  BY DEF FrontRegisters
<1>2. CASE ~(f.out.active /\ m)
  <2>1. Popped(f, n, m) = n
    BY <1>2 DEF Popped
  <2>2. QED
    BY <2>1 DEF PoppedIs, Pops
<1>3. CASE f.out.active /\ m /\ f.out.left <= 4
  <2> DEFINE v == [n.out EXCEPT !.active = FALSE, !.left = 0]
  <2>1. 0 \in 0 .. 4 * RESULT_WORDS
    BY SMT, ObjectsAssumption
  <2>2. v \in OutputRegisters /\ v.active = FALSE
    BY <1>1, <2>1 DEF OutputRegisters
  <2>3. Popped(f, n, m) = [n EXCEPT !.out = v]
    BY <1>3 DEF Popped
  <2> HIDE DEF v
  <2>4. QED
    BY <2>2, <2>3, WithOutput DEF PoppedIs, Pops
<1>4. CASE f.out.active /\ m /\ ~(f.out.left <= 4)
  <2> DEFINE v == [n.out EXCEPT !.index = f.out.index + 1,
                                !.left = f.out.left - 4]
  <2>1. /\ f.out.index + 1 \in ResultIndex /\ f.out.left > 4
        /\ f.out.left - 4 \in 0 .. 4 * RESULT_WORDS
    <3>1. f.out.index \in ResultIndex /\ f.out.left \in 0 .. 4 * RESULT_WORDS
      BY <1>1 DEF OutputRegisters
    <3>2. QED
      BY SMT, <1>4, <3>1, ObjectsAssumption DEF ResultIndex
  <2>2. /\ v \in OutputRegisters
        /\ v.index = f.out.index + 1 /\ v.left = f.out.left - 4
    BY <1>1, <2>1 DEF OutputRegisters
  <2>3. Popped(f, n, m) = [n EXCEPT !.out = v]
    BY <1>4 DEF Popped
  <2>4. PoppedIs(f, v)
    BY <1>4, <2>1, <2>2 DEF PoppedIs
  <2> HIDE DEF v
  <2>5. QED
    BY <2>2, <2>3, <2>4, WithOutput DEF Pops
<1>5. QED
  BY <1>2, <1>3, <1>4

(* An edge without a zeroization, statement by statement.                  *)
LEMMA EdgeIs ==
    ASSUME NEW f \in FrontRegisters, NEW z, ~z, NEW beat, NEW apb,
           NEW m, NEW box
    PROVE  FrontEdge(f, z, beat, apb, m, box) =
             LET f0 == [f EXCEPT !.zeroize_req = FALSE]
                 f1 == IF beat = NoBeat THEN f0 ELSE Streamed(f, f0, beat)
                 f2 == Completed(f, WordStored(f, Claimed(f, f1, box), box),
                                 box)
             IN  Written(f, Popped(f, f2, m), apb)
  BY DEF FrontEdge

(* How a frontend moves that runs a command.                               *)
BusyMoves(g, f, box) ==
    /\ g \in FrontRegisters /\ g.command = f.command /\ g.in = f.in
    /\ g.pending = IF box.claim THEN FALSE ELSE f.pending
    /\ g.result.words = IF box.we THEN [f.result.words EXCEPT
                                          ![box.index] = box.data]
                        ELSE f.result.words
    /\ IF box.complete
       THEN /\ g.busy = FALSE
            /\ g.result.verify_valid => f.command = "VERIFY" /\ box.code = "OK"
            /\ g.out.active => box.len # 0 /\ g.out.index = 0
                               /\ g.out.left = box.len
       ELSE /\ g.busy = TRUE /\ g.out = f.out
            /\ g.result.verify_valid = f.result.verify_valid

(* An edge of a frontend that runs a command.                              *)
LEMMA BusyEdge ==
    ASSUME NEW f \in FrontRegisters, NEW z, ~z, NEW beat, beat = NoBeat,
           NEW apb \in ApbWrites, NEW m, NEW box \in Mailbox,
           f.busy = TRUE, f.out.active = FALSE
    PROVE  BusyMoves(FrontEdge(f, z, beat, apb, m, box), f, box)
<1> DEFINE f0 == [f EXCEPT !.zeroize_req = FALSE]
           s == WordStored(f, Claimed(f, f0, box), box)
           c == Completed(f, s, box)
           p == Popped(f, c, m)
           g == Written(f, p, apb)
<1>1. FrontEdge(f, z, beat, apb, m, box) = g
  BY EdgeIs
<1>2. /\ f0 \in FrontRegisters /\ f0.in = f.in /\ f0.command = f.command
      /\ f0.pending = f.pending /\ f0.busy = f.busy
      /\ f0.result = f.result /\ f0.out = f.out
  BY DEF FrontRegisters
<1> HIDE DEF f0
<1>3. Stores(s, f0, box)
  BY <1>2, StoredIs
<1> HIDE DEF s
<1>4. IF box.complete THEN Completes(c, s, f, box) ELSE c = s
  <2>1. CASE box.complete
    <3>1. s \in FrontRegisters /\ f.busy
      BY <1>3 DEF Stores
    <3>2. Completes(c, s, f, box)
      BY <2>1, <3>1, CompletedIs
    <3>3. QED
      BY <2>1, <3>2
  <2>2. CASE ~box.complete
    BY <2>2 DEF Completed
  <2>3. QED
    BY <2>1, <2>2
<1> HIDE DEF c
<1>5. p = c
  BY DEF Popped
<1> HIDE DEF p
<1>6. Like(g, p)
  <2>1. p \in FrontRegisters /\ f.busy
    BY <1>3, <1>4, <1>5 DEF Stores, Completes
  <2>2. QED
    BY <2>1, WrittenWhileBusy
<1> HIDE DEF g
<1>7. /\ g \in FrontRegisters /\ g.command = c.command /\ g.in = c.in
      /\ g.pending = c.pending /\ g.busy = c.busy /\ g.out = c.out
      /\ g.result.words = c.result.words
      /\ g.result.verify_valid = c.result.verify_valid
  BY <1>5, <1>6 DEF Like
<1>8. /\ c.command = f.command /\ c.in = f.in
      /\ c.pending = IF box.claim THEN FALSE ELSE f.pending
      /\ c.result.words = IF box.we THEN [f.result.words EXCEPT
                                            ![box.index] = box.data]
                          ELSE f.result.words
  BY Zenon, <1>2, <1>3, <1>4 DEF Stores, Completes
<1>9. CASE box.complete
  <2>1. /\ c.busy = FALSE
        /\ c.result.verify_valid => f.command = "VERIFY" /\ box.code = "OK"
        /\ c.out.active => /\ box.len # 0 /\ c.out.index = 0
                           /\ c.out.left = box.len
    BY <1>4, <1>9 DEF Completes
  <2>2. BusyMoves(g, f, box)
    BY Zenon, <1>7, <1>8, <1>9, <2>1 DEF BusyMoves
  <2>3. QED
    BY <1>1, <2>2
<1>10. CASE ~box.complete
  <2>1. /\ c.busy = TRUE /\ c.out = f.out
        /\ c.result.verify_valid = f.result.verify_valid
    BY <1>2, <1>3, <1>4, <1>10 DEF Stores
  <2>2. BusyMoves(g, f, box)
    BY Zenon, <1>7, <1>8, <1>10, <2>1 DEF BusyMoves
  <2>3. QED
    BY <1>1, <2>2
<1>11. QED
  BY <1>9, <1>10

(* How a frontend moves that runs none.                                    *)
FreeMoves(g, f, beat, apb) ==
    /\ g \in FrontRegisters
    /\ \/ g.in = NoInput
       \/ beat = NoBeat /\ g.in = f.in
       \/ beat \in Beats /\ TakesBeat(f, g.in, beat)
    /\ IF Accepts(f, apb)
       THEN Launched(g, f)
       ELSE /\ g.command = f.command
            /\ g.pending = f.pending /\ g.busy = FALSE
            /\ \/ Emptied(g)
               \/ /\ g.result.words = f.result.words
                  /\ g.result.verify_valid = f.result.verify_valid
                  /\ PoppedIs(f, g.out)

(* An edge of a frontend that runs none.                                   *)
LEMMA FreeEdge ==
    ASSUME NEW f \in FrontRegisters, NEW z, ~z,
           NEW beat \in Beats \cup {NoBeat},
           NEW apb \in ApbWrites, NEW m, NEW box \in Mailbox,
           ~box.claim, ~box.we, ~box.complete, f.busy = FALSE,
           f.out.active => f.out.left = 4 * (RESULT_WORDS - f.out.index)
    PROVE  FreeMoves(FrontEdge(f, z, beat, apb, m, box), f, beat, apb)
<1> DEFINE f0 == [f EXCEPT !.zeroize_req = FALSE]
           s == IF beat = NoBeat THEN f0 ELSE Streamed(f, f0, beat)
           c == Completed(f, WordStored(f, Claimed(f, s, box), box), box)
           p == Popped(f, c, m)
           g == Written(f, p, apb)
<1>1. FrontEdge(f, z, beat, apb, m, box) = g
  BY EdgeIs
<1>2. /\ f0 \in FrontRegisters /\ f0.in = f.in /\ f0.command = f.command
      /\ f0.pending = f.pending /\ f0.busy = f.busy
      /\ f0.result = f.result /\ f0.out = f.out
  BY DEF FrontRegisters
<1> HIDE DEF f0
<1>3. /\ s \in FrontRegisters
      /\ \/ beat = NoBeat /\ s.in = f.in
         \/ beat \in Beats /\ TakesBeat(f, s.in, beat)
      /\ s.command = f.command /\ s.pending = f.pending
      /\ s.busy = f.busy /\ s.result = f.result /\ s.out = f.out
  <2>1. CASE beat = NoBeat
    BY <1>2, <2>1
  <2>2. CASE beat # NoBeat
    <3>1. beat \in Beats /\ s = Streamed(f, f0, beat)
      BY <2>2
    <3>2. Feeds(s, f0, f, beat)
      BY <1>2, <3>1, StreamedIs
    <3>3. QED
      BY <1>2, <3>1, <3>2 DEF Feeds
  <2>3. QED
    BY <2>1, <2>2
<1> HIDE DEF s
<1>4. c = s
  BY DEF Claimed, WordStored, Completed
<1> HIDE DEF c
<1>5. Pops(p, c, f)
  BY <1>3, <1>4, PopStep
<1> HIDE DEF p
<1>6. Writes(g, p, f, apb)
  <2>1. p \in FrontRegisters
    BY <1>5 DEF Pops
  <2>2. QED
    BY <2>1, WrittenWhileFree
<1> HIDE DEF g
<1>7. \/ g.in = NoInput
      \/ beat = NoBeat /\ g.in = f.in
      \/ beat \in Beats /\ TakesBeat(f, g.in, beat)
  BY <1>3, <1>4, <1>5, <1>6 DEF Pops, Writes
<1>8. CASE Accepts(f, apb)
  <2>1. FreeMoves(g, f, beat, apb)
    BY Zenon, <1>6, <1>7, <1>8 DEF Writes, FreeMoves
  <2>2. QED
    BY <1>1, <2>1
<1>9. CASE ~Accepts(f, apb)
  <2>1. /\ g \in FrontRegisters /\ g.command = f.command
        /\ g.pending = f.pending /\ g.busy = FALSE
    BY <1>3, <1>4, <1>5, <1>6, <1>9 DEF Pops, Writes
  <2>2. \/ Emptied(g)
        \/ /\ g.result.words = f.result.words
           /\ g.result.verify_valid = f.result.verify_valid
           /\ PoppedIs(f, g.out)
    BY <1>3, <1>4, <1>5, <1>6, <1>9 DEF Pops, Writes
  <2>3. FreeMoves(g, f, beat, apb)
    BY Zenon, <1>7, <1>9, <2>1, <2>2 DEF FreeMoves
  <2>4. QED
    BY <1>1, <2>3
<1>10. QED
  BY <1>8, <1>9
-----------------------------------------------------------------------------
(* Sizes.                                                                  *)
LEMMA Sizes ==
    /\ NTT_WORDS \in Nat /\ NTT_WORDS >= 4
    /\ SRAM_WORDS \in Nat /\ SRAM_WORDS > NTT_WORDS
    /\ KECCAK_WORDS \in Nat \ {0} /\ ROUNDS \in Nat \ {0}
    /\ RESULT_WORDS \in Nat \ {0} /\ CALLS \in Nat
    /\ Ntt!Address = 0 .. (NTT_WORDS - 1)
<1>1. NTT_WORDS \in Nat /\ NTT_WORDS >= 4
  BY EngineSize DEF NL!SizeOK
<1>2. QED
  BY <1>1, MemoryMap, SizesAssumption, BoundsAssumption, ObjectsAssumption
     DEF Ntt!Address

(* The length of the loop behind each label.                               *)
LEMMA LoopSizes ==
    /\ LoopSize("words") = RESULT_WORDS
    /\ LoopSize("ntt_load") = NTT_WORDS /\ LoopSize("ntt_read") = NTT_WORDS
    /\ LoopSize("kec_load") = KECCAK_WORDS
    /\ LoopSize("kec_read") = KECCAK_WORDS
    /\ \A pc \in Labels : LoopSize(pc) \in Nat \ {0}
<1>1. /\ LoopSize("words") = RESULT_WORDS
      /\ LoopSize("ntt_load") = NTT_WORDS /\ LoopSize("ntt_read") = NTT_WORDS
      /\ LoopSize("kec_load") = KECCAK_WORDS
      /\ LoopSize("kec_read") = KECCAK_WORDS
  BY DEF LoopSize
<1>2. \A pc \in Labels : LoopSize(pc) \in Nat \ {0}
  BY Sizes DEF LoopSize
<1>3. QED
  BY <1>1, <1>2

(* What the pins of an edge are.                                           *)
LEMMA Pins ==
    ASSUME NEW io \in IO
    PROVE  /\ io.apb \in ApbWrites /\ io.beat \in Beats \cup {NoBeat}
           /\ io.tamper \in BOOLEAN /\ io.entropy \in BOOLEAN
           /\ Beat(io) \in Beats \cup {NoBeat}
  BY BoundsAssumption DEF Beat
-----------------------------------------------------------------------------
(* The program of the processor: what it does on an edge without a         *)
(* zeroization, by the access it makes.                                    *)
Becomes(pc, index) == cpu'.pc = pc /\ cpu'.index = index
KeepsCommand == cpu'.cmd = cpu.cmd /\ cpu'.outcome = cpu.outcome
Loops(size, label) ==
    \/ cpu.index = size - 1 /\ Becomes(label, 0)
    \/ cpu.index # size - 1 /\ Becomes(cpu.pc, cpu.index + 1)

Rests(bus) == bus = NoBus /\ cpu' = cpu
Starts(bus) ==
    \/ /\ At("poll") /\ front.pending /\ bus = NoBus
       /\ Becomes("fetch", 0) /\ KeepsCommand
    \/ /\ At("fetch") /\ bus = NoBus
       /\ Becomes("claim", 0)
       /\ cpu'.cmd = front.command /\ cpu'.outcome = cpu.outcome
    \/ /\ At("claim") /\ bus = Bus("claim", 0, "clear")
       /\ Becomes("work", 0) /\ KeepsCommand
Decides(bus) ==
    /\ At("work") /\ bus = NoBus
    /\ cpu'.cmd = cpu.cmd /\ cpu'.outcome.cmd = cpu.cmd
    /\ \/ /\ Becomes("words", 0)
          /\ cpu'.outcome = [cmd |-> "DECAPS", code |-> "OK"]
       \/ Becomes("len", 0) /\ cpu'.outcome # [cmd |-> "DECAPS", code |-> "OK"]
Reports(bus) ==
    /\ cpu'.outcome = cpu.outcome
    /\ \/ /\ At("words") /\ bus = Bus("word", cpu.index, "data")
          /\ Loops(RESULT_WORDS, "len") /\ cpu'.cmd = cpu.cmd
       \/ /\ At("len") /\ Becomes("code", 0) /\ cpu'.cmd = cpu.cmd
          /\ bus = Bus("len", 0, IF HasOutput THEN 4 * RESULT_WORDS ELSE 0)
       \/ /\ At("code") /\ bus = Bus("code", 0, cpu.outcome.code)
          /\ Becomes("poll", 0)
UsesNtt(bus) ==
    \/ /\ At("ntt_load") /\ bus = Bus("ntt_coeff", cpu.index, "data")
       /\ Loops(NTT_WORDS, "ntt_start")
    \/ /\ At("ntt_start") /\ Becomes("ntt_wait", 0)
       /\ \E c \in NttCalls : bus = Bus("ntt_start", 0, c)
    \/ /\ At("ntt_wait") /\ ~ntt_busy /\ bus = NoBus /\ Becomes("ntt_read", 0)
    \/ /\ At("ntt_read") /\ bus = NoBus /\ Loops(NTT_WORDS, "work")
UsesKeccak(bus) ==
    \/ /\ At("kec_load") /\ bus = Bus("kec_word", cpu.index, "data")
       /\ Loops(KECCAK_WORDS, "kec_start")
    \/ /\ At("kec_start") /\ Becomes("kec_wait", 0)
       /\ bus = Bus("kec_start", 0, "clear")
    \/ /\ At("kec_wait") /\ ~kec_busy /\ bus = NoBus /\ Becomes("kec_read", 0)
    \/ /\ At("kec_read") /\ bus = NoBus /\ Loops(KECCAK_WORDS, "work")
Labors(bus) ==
    /\ KeepsCommand
    /\ \/ At("work") /\ bus = Bus("sram", WorkWord, "data") /\ cpu' = cpu
       \/ /\ At("work") /\ bus = NoBus
          /\ Becomes("kec_load", 0) \/ Becomes("ntt_load", 0)
       \/ UsesNtt(bus)
       \/ UsesKeccak(bus)
Program(bus) ==
    /\ cpu' \in Processor /\ cpu'.index < LoopSize(cpu'.pc)
    /\ Rests(bus) \/ Starts(bus) \/ Decides(bus) \/ Reports(bus) \/ Labors(bus)

(* A jump to a label, and a turn of a loop.                                *)
LEMMA Jump ==
    ASSUME cpu \in Processor, NEW label \in Labels
    PROVE  /\ Goto(label) \in Processor
           /\ Goto(label).pc = label /\ Goto(label).index = 0
           /\ Goto(label).cmd = cpu.cmd /\ Goto(label).calls = cpu.calls
           /\ Goto(label).outcome = cpu.outcome
           /\ Goto(label).index < LoopSize(label)
<1>1. /\ Goto(label) \in Processor
      /\ Goto(label).pc = label /\ Goto(label).index = 0
      /\ Goto(label).cmd = cpu.cmd /\ Goto(label).calls = cpu.calls
      /\ Goto(label).outcome = cpu.outcome
  BY DEF Goto, Processor
<1>2. LoopSize(label) \in Nat \ {0}
  BY LoopSizes
<1>3. QED
  BY <1>1, <1>2

(* A turn of a loop, its last one included, is a step of the loop.         *)
LEMMA Turn ==
    ASSUME cpu \in Processor, cpu.index < LoopSize(cpu.pc),
           NEW label \in Labels, cpu' = Loop(LoopSize(cpu.pc), label)
    PROVE  /\ cpu' \in Processor /\ cpu'.index < LoopSize(cpu'.pc)
           /\ KeepsCommand /\ Loops(LoopSize(cpu.pc), label)
<1>1. LoopSize(cpu.pc) \in Nat \ {0} /\ cpu.index \in Nat
  BY LoopSizes DEF Processor
<1>2. CASE cpu.index = LoopSize(cpu.pc) - 1
  <2>1. cpu' = Goto(label)
    BY <1>2 DEF Loop
  <2>2. QED
    BY <1>2, <2>1, Jump DEF KeepsCommand, Loops, Becomes
<1>3. CASE cpu.index # LoopSize(cpu.pc) - 1
  <2>1. cpu' = [cpu EXCEPT !.index = cpu.index + 1]
    BY <1>3 DEF Loop
  <2>2. /\ cpu' \in Processor /\ cpu'.pc = cpu.pc /\ cpu'.index = cpu.index + 1
        /\ KeepsCommand
    BY <1>1, <2>1 DEF Processor, KeepsCommand
  <2>3. cpu.index + 1 < LoopSize(cpu.pc)
    BY SMT, <1>1, <1>3
  <2>4. QED
    BY <1>3, <2>2, <2>3 DEF Loops, Becomes
<1>4. QED
  BY <1>2, <1>3

(* Each action of the firmware on an edge is a step of the program with    *)
(* its bus access.                                                         *)
Runs(io) == \E bus : Run(io, bus) /\ Program(bus)

(* At rest, the firmware touches nothing.                                  *)
LEMMA RestIs ==
    ASSUME Registers, NEW io, Run(io, NoBus), cpu' = cpu
    PROVE  Runs(io)
<1>1. Rests(NoBus) /\ cpu' \in Processor /\ cpu'.index < LoopSize(cpu'.pc)
  BY DEF Rests, Registers
<1>2. Program(NoBus)
  BY Zenon, <1>1 DEF Program
<1>3. QED
  BY <1>2 DEF Runs

(* The firmware claims a command, and enters the library with it.          *)
LEMMA StartsIs ==
    ASSUME Registers, NEW io, Poll(io) \/ Fetch(io) \/ Claim(io)
    PROVE  Runs(io)
<1>1. cpu \in Processor /\ front.command \in FrontCommands
  BY DEF Registers, FrontRegisters
<1>2. \A label \in Labels : 0 < LoopSize(label)
  BY LoopSizes
<1>3. {"poll", "fetch", "claim", "work"} \subseteq Labels
  BY DEF Labels
<1>4. CASE Poll(io) /\ ~front.pending
  BY <1>4, RestIs DEF Poll
<1>5. CASE Poll(io) /\ front.pending
  <2>1. cpu' = Goto("fetch") /\ Run(io, NoBus) /\ At("poll")
    BY <1>5 DEF Poll
  <2>2. cpu' \in Processor /\ cpu'.index < LoopSize(cpu'.pc)
    BY <1>1, <1>3, <2>1, Jump
  <2>3. Starts(NoBus)
    BY <1>1, <1>3, <1>5, <2>1, Jump DEF Starts, Becomes, KeepsCommand
  <2>4. QED
    BY Zenon, <2>1, <2>2, <2>3 DEF Program, Runs
<1>6. CASE Fetch(io)
  <2>1. /\ cpu' = [Goto("claim") EXCEPT !.cmd = front.command]
        /\ Run(io, NoBus) /\ At("fetch")
    BY <1>6 DEF Fetch
  <2>2. /\ cpu' \in Processor /\ cpu'.pc = "claim" /\ cpu'.index = 0
        /\ cpu'.cmd = front.command /\ cpu'.outcome = cpu.outcome
    BY <1>1, <1>3, <2>1, Jump DEF Processor
  <2>3. Starts(NoBus) /\ cpu'.index < LoopSize(cpu'.pc)
    BY <1>2, <1>3, <2>1, <2>2 DEF Starts, Becomes
  <2>4. QED
    BY Zenon, <2>1, <2>2, <2>3 DEF Program, Runs
<1>7. CASE Claim(io)
  <2>1. /\ cpu' = [Goto("work") EXCEPT !.calls = 0]
        /\ Run(io, Bus("claim", 0, "clear")) /\ At("claim")
    BY <1>7 DEF Claim
  <2>2. 0 \in 0 .. CALLS
    BY Sizes
  <2>3. /\ cpu' \in Processor /\ cpu'.pc = "work" /\ cpu'.index = 0
        /\ cpu'.cmd = cpu.cmd /\ cpu'.outcome = cpu.outcome
    BY <1>1, <1>3, <2>1, <2>2, Jump DEF Processor
  <2>4. Starts(Bus("claim", 0, "clear")) /\ cpu'.index < LoopSize(cpu'.pc)
    BY <1>2, <1>3, <2>1, <2>3 DEF Starts, Becomes, KeepsCommand
  <2>5. QED
    BY Zenon, <2>1, <2>3, <2>4 DEF Program, Runs
<1>8. QED
  BY <1>4, <1>5, <1>6, <1>7

(* In the library, the firmware chooses what comes next.                   *)
LEMMA LibraryIs ==
    ASSUME Registers, NEW io, StoreWork(io) \/ UseEngine(io) \/ Decide(io)
    PROVE  Runs(io)
<1>1. cpu \in Processor /\ cpu.index < LoopSize(cpu.pc)
  BY DEF Registers
<1>2. \A label \in Labels : 0 < LoopSize(label)
  BY LoopSizes
<1>3. {"kec_load", "ntt_load", "words", "len"} \subseteq Labels
  BY DEF Labels
<1>4. CASE StoreWork(io)
  <2>1. Labors(Bus("sram", WorkWord, "data"))
    BY <1>4 DEF StoreWork, Labors, KeepsCommand
  <2>2. QED
    BY Zenon, <1>1, <1>4, <2>1 DEF StoreWork, Program, Runs
<1>5. CASE UseEngine(io)
  <2>1. PICK label \in {"kec_load", "ntt_load"} :
             cpu' = [Goto(label) EXCEPT !.calls = Goto(label).calls + 1]
    BY <1>5 DEF UseEngine
  <2>2. cpu.calls + 1 \in 0 .. CALLS
    BY <1>1, <1>5, Sizes DEF UseEngine, Processor
  <2>3. /\ cpu' \in Processor /\ cpu'.pc = label /\ cpu'.index = 0
        /\ cpu'.cmd = cpu.cmd /\ cpu'.outcome = cpu.outcome
    BY <1>1, <1>3, <2>1, <2>2, Jump DEF Processor
  <2>4. Labors(NoBus) /\ cpu'.index < LoopSize(cpu'.pc)
    BY <1>2, <1>3, <1>5, <2>1, <2>3
       DEF UseEngine, Labors, Becomes, KeepsCommand
  <2>5. QED
    BY Zenon, <1>5, <2>3, <2>4 DEF UseEngine, Program, Runs
<1>6. CASE Decide(io)
  <2>1. PICK code \in Outcomes(cpu.cmd) :
             cpu' = [Goto(IF cpu.cmd = "DECAPS" /\ code = "OK"
                          THEN "words" ELSE "len")
                       EXCEPT !.outcome = [cmd |-> cpu.cmd, code |-> code]]
    BY <1>6 DEF Decide
  <2>2. code \in Codes /\ cpu.cmd \in FrontCommands
    BY <1>1 DEF Outcomes, Codes, Processor, FrontCommands
  <2>3. CASE cpu.cmd = "DECAPS" /\ code = "OK"
    <3>1. /\ cpu' \in Processor /\ cpu'.pc = "words" /\ cpu'.index = 0
          /\ cpu'.cmd = cpu.cmd
          /\ cpu'.outcome = [cmd |-> "DECAPS", code |-> "OK"]
      BY <1>1, <1>3, <2>1, <2>2, <2>3, Jump DEF Processor
    <3>2. Decides(NoBus) /\ cpu'.index < LoopSize(cpu'.pc)
      BY <1>2, <1>3, <1>6, <2>3, <3>1 DEF Decide, Decides, Becomes
    <3>3. QED
      BY Zenon, <1>6, <3>1, <3>2 DEF Decide, Program, Runs
  <2>4. CASE ~(cpu.cmd = "DECAPS" /\ code = "OK")
    <3>1. /\ cpu' \in Processor /\ cpu'.pc = "len" /\ cpu'.index = 0
          /\ cpu'.cmd = cpu.cmd
          /\ cpu'.outcome = [cmd |-> cpu.cmd, code |-> code]
      BY <1>1, <1>3, <2>1, <2>2, <2>4, Jump DEF Processor
    <3>2. Decides(NoBus) /\ cpu'.index < LoopSize(cpu'.pc)
      BY <1>2, <1>3, <1>6, <2>4, <3>1 DEF Decide, Decides, Becomes
    <3>3. QED
      BY Zenon, <1>6, <3>1, <3>2 DEF Decide, Program, Runs
  <2>5. QED
    BY <2>3, <2>4
<1>7. QED
  BY <1>4, <1>5, <1>6

(* On the way back, the firmware reports words, length and outcome.        *)
LEMMA ReportIs ==
    ASSUME Registers, NEW io,
           ResultWord(io) \/ ResultLen(io) \/ ResultCode(io)
    PROVE  Runs(io)
<1>1. cpu \in Processor /\ cpu.index < LoopSize(cpu.pc)
  BY DEF Registers
<1>2. \A label \in Labels : 0 < LoopSize(label)
  BY LoopSizes
<1>3. {"len", "code", "poll"} \subseteq Labels
  BY DEF Labels
<1>4. CASE ResultWord(io)
  <2>1. LoopSize(cpu.pc) = RESULT_WORDS /\ At("words")
    BY <1>4, LoopSizes DEF ResultWord, At
  <2>2. cpu' = Loop(LoopSize(cpu.pc), "len")
    BY <1>4, <2>1 DEF ResultWord
  <2>3. /\ cpu' \in Processor /\ cpu'.index < LoopSize(cpu'.pc)
        /\ KeepsCommand /\ Loops(RESULT_WORDS, "len")
    BY <1>1, <1>3, <2>1, <2>2, Turn
  <2>4. Reports(Bus("word", cpu.index, "data"))
    BY Zenon, <2>1, <2>3 DEF Reports, KeepsCommand
  <2>5. QED
    BY Zenon, <1>4, <2>3, <2>4 DEF ResultWord, Program, Runs
<1>5. CASE ResultLen(io)
  <2> DEFINE bus == Bus("len", 0, IF HasOutput THEN 4 * RESULT_WORDS ELSE 0)
  <2>1. cpu' = Goto("code") /\ At("len") /\ Run(io, bus)
    BY <1>5 DEF ResultLen
  <2>2. Reports(bus) /\ cpu' \in Processor /\ cpu'.index < LoopSize(cpu'.pc)
    BY <1>1, <1>3, <2>1, Jump DEF Reports, Becomes
  <2>3. QED
    BY Zenon, <2>1, <2>2 DEF Program, Runs
<1>6. CASE ResultCode(io)
  <2> DEFINE bus == Bus("code", 0, cpu.outcome.code)
  <2>1. /\ cpu' = [Goto("poll") EXCEPT !.cmd = "NONE", !.calls = 0]
        /\ At("code") /\ Run(io, bus)
    BY <1>6 DEF ResultCode
  <2>2. 0 \in 0 .. CALLS /\ "NONE" \in FrontCommands
    BY Sizes DEF FrontCommands
  <2>3. /\ cpu' \in Processor /\ cpu'.pc = "poll" /\ cpu'.index = 0
        /\ cpu'.outcome = cpu.outcome
    BY <1>1, <1>3, <2>1, <2>2, Jump DEF Processor
  <2>4. Reports(bus) /\ cpu'.index < LoopSize(cpu'.pc)
    BY <1>2, <1>3, <2>1, <2>3 DEF Reports, Becomes
  <2>5. QED
    BY Zenon, <2>1, <2>3, <2>4 DEF Program, Runs
<1>7. QED
  BY <1>4, <1>5, <1>6

(* The loops of the firmware over the NTT window.                          *)
LEMMA NttIs ==
    ASSUME Registers, NEW io,
           NttLoad(io) \/ NttStart(io) \/ NttWait(io) \/ NttRead(io)
    PROVE  Runs(io)
<1>1. cpu \in Processor /\ cpu.index < LoopSize(cpu.pc)
  BY DEF Registers
<1>2. {"ntt_start", "ntt_wait", "ntt_read", "work"} \subseteq Labels
  BY DEF Labels
<1>3. ASSUME NEW bus, Run(io, bus), UsesNtt(bus), KeepsCommand,
             cpu' \in Processor, cpu'.index < LoopSize(cpu'.pc)
      PROVE  Runs(io)
  BY Zenon, <1>3 DEF Labors, Program, Runs
<1>4. CASE NttLoad(io)
  <2>1. LoopSize(cpu.pc) = NTT_WORDS /\ At("ntt_load")
    BY <1>4, LoopSizes DEF NttLoad, At
  <2>2. cpu' = Loop(LoopSize(cpu.pc), "ntt_start")
    BY <1>4, <2>1 DEF NttLoad
  <2>3. /\ cpu' \in Processor /\ cpu'.index < LoopSize(cpu'.pc)
        /\ KeepsCommand /\ Loops(NTT_WORDS, "ntt_start")
    BY <1>1, <1>2, <2>1, <2>2, Turn
  <2>4. UsesNtt(Bus("ntt_coeff", cpu.index, "data"))
    BY Zenon, <2>1, <2>3 DEF UsesNtt
  <2>5. QED
    BY Zenon, <1>3, <1>4, <2>3, <2>4 DEF NttLoad
<1>5. CASE NttStart(io)
  <2>1. PICK c \in NttCalls : Run(io, Bus("ntt_start", 0, c))
    BY <1>5 DEF NttStart
  <2>2. cpu' = Goto("ntt_wait") /\ At("ntt_start")
    BY <1>5 DEF NttStart
  <2>3. /\ cpu' \in Processor /\ cpu'.index < LoopSize(cpu'.pc)
        /\ KeepsCommand /\ Becomes("ntt_wait", 0)
    BY <1>1, <1>2, <2>2, Jump DEF KeepsCommand, Becomes
  <2>4. UsesNtt(Bus("ntt_start", 0, c))
    BY Zenon, <2>2, <2>3 DEF UsesNtt
  <2>5. QED
    BY Zenon, <1>3, <2>1, <2>3, <2>4
<1>6. CASE NttWait(io) /\ ntt_busy
  BY <1>6, RestIs DEF NttWait, Finished
<1>7. CASE NttWait(io) /\ ~ntt_busy
  <2>1. cpu' = Goto("ntt_read") /\ At("ntt_wait") /\ Run(io, NoBus)
    BY <1>7 DEF NttWait, Finished
  <2>2. /\ cpu' \in Processor /\ cpu'.index < LoopSize(cpu'.pc)
        /\ KeepsCommand /\ Becomes("ntt_read", 0)
    BY <1>1, <1>2, <2>1, Jump DEF KeepsCommand, Becomes
  <2>3. UsesNtt(NoBus)
    BY Zenon, <1>7, <2>1, <2>2 DEF UsesNtt
  <2>4. QED
    BY Zenon, <1>3, <2>1, <2>2, <2>3
<1>8. CASE NttRead(io)
  <2>1. LoopSize(cpu.pc) = NTT_WORDS /\ At("ntt_read")
    BY <1>8, LoopSizes DEF NttRead, At
  <2>2. cpu' = Loop(LoopSize(cpu.pc), "work")
    BY <1>8, <2>1 DEF NttRead
  <2>3. /\ cpu' \in Processor /\ cpu'.index < LoopSize(cpu'.pc)
        /\ KeepsCommand /\ Loops(NTT_WORDS, "work")
    BY <1>1, <1>2, <2>1, <2>2, Turn
  <2>4. UsesNtt(NoBus)
    BY Zenon, <2>1, <2>3 DEF UsesNtt
  <2>5. QED
    BY Zenon, <1>3, <1>8, <2>3, <2>4 DEF NttRead
<1>9. QED
  BY <1>4, <1>5, <1>6, <1>7, <1>8

(* The loops of the firmware over the Keccak window.                       *)
LEMMA KeccakIs ==
    ASSUME Registers, NEW io,
           KecLoad(io) \/ KecStart(io) \/ KecWait(io) \/ KecRead(io)
    PROVE  Runs(io)
<1>1. cpu \in Processor /\ cpu.index < LoopSize(cpu.pc)
  BY DEF Registers
<1>2. {"kec_start", "kec_wait", "kec_read", "work"} \subseteq Labels
  BY DEF Labels
<1>3. ASSUME NEW bus, Run(io, bus), UsesKeccak(bus), KeepsCommand,
             cpu' \in Processor, cpu'.index < LoopSize(cpu'.pc)
      PROVE  Runs(io)
  BY Zenon, <1>3 DEF Labors, Program, Runs
<1>4. CASE KecLoad(io)
  <2>1. LoopSize(cpu.pc) = KECCAK_WORDS /\ At("kec_load")
    BY <1>4, LoopSizes DEF KecLoad, At
  <2>2. cpu' = Loop(LoopSize(cpu.pc), "kec_start")
    BY <1>4, <2>1 DEF KecLoad
  <2>3. /\ cpu' \in Processor /\ cpu'.index < LoopSize(cpu'.pc)
        /\ KeepsCommand /\ Loops(KECCAK_WORDS, "kec_start")
    BY <1>1, <1>2, <2>1, <2>2, Turn
  <2>4. UsesKeccak(Bus("kec_word", cpu.index, "data"))
    BY Zenon, <2>1, <2>3 DEF UsesKeccak
  <2>5. QED
    BY Zenon, <1>3, <1>4, <2>3, <2>4 DEF KecLoad
<1>5. CASE KecStart(io)
  <2>1. /\ cpu' = Goto("kec_wait") /\ At("kec_start")
        /\ Run(io, Bus("kec_start", 0, "clear"))
    BY <1>5 DEF KecStart
  <2>2. /\ cpu' \in Processor /\ cpu'.index < LoopSize(cpu'.pc)
        /\ KeepsCommand /\ Becomes("kec_wait", 0)
    BY <1>1, <1>2, <2>1, Jump DEF KeepsCommand, Becomes
  <2>3. UsesKeccak(Bus("kec_start", 0, "clear"))
    BY Zenon, <2>1, <2>2 DEF UsesKeccak
  <2>4. QED
    BY Zenon, <1>3, <2>1, <2>2, <2>3
<1>6. CASE KecWait(io) /\ kec_busy
  BY <1>6, RestIs DEF KecWait, Finished
<1>7. CASE KecWait(io) /\ ~kec_busy
  <2>1. cpu' = Goto("kec_read") /\ At("kec_wait") /\ Run(io, NoBus)
    BY <1>7 DEF KecWait, Finished
  <2>2. /\ cpu' \in Processor /\ cpu'.index < LoopSize(cpu'.pc)
        /\ KeepsCommand /\ Becomes("kec_read", 0)
    BY <1>1, <1>2, <2>1, Jump DEF KeepsCommand, Becomes
  <2>3. UsesKeccak(NoBus)
    BY Zenon, <1>7, <2>1, <2>2 DEF UsesKeccak
  <2>4. QED
    BY Zenon, <1>3, <2>1, <2>2, <2>3
<1>8. CASE KecRead(io)
  <2>1. LoopSize(cpu.pc) = KECCAK_WORDS /\ At("kec_read")
    BY <1>8, LoopSizes DEF KecRead, At
  <2>2. cpu' = Loop(LoopSize(cpu.pc), "work")
    BY <1>8, <2>1 DEF KecRead
  <2>3. /\ cpu' \in Processor /\ cpu'.index < LoopSize(cpu'.pc)
        /\ KeepsCommand /\ Loops(KECCAK_WORDS, "work")
    BY <1>1, <1>2, <2>1, <2>2, Turn
  <2>4. UsesKeccak(NoBus)
    BY Zenon, <2>1, <2>3 DEF UsesKeccak
  <2>5. QED
    BY Zenon, <1>3, <1>8, <2>3, <2>4 DEF KecRead
<1>9. QED
  BY <1>4, <1>5, <1>6, <1>7, <1>8

(* Every edge begins or continues a scrub, or runs the program.            *)
LEMMA ProgramIs ==
    ASSUME Registers, NEW io \in IO, Edge(io)
    PROVE  BeginZeroize(io) \/ Scrub(io) \/ Runs(io)
<1>1. CASE NoAccess(io)
  BY <1>1, RestIs DEF NoAccess
<1>2. QED
  BY <1>1, StartsIs, LibraryIs, ReportIs, NttIs, KeccakIs DEF Edge, Firmware
-----------------------------------------------------------------------------
(* What the bus access writes to the mailbox: one pulse at most, with what *)
(* it carries; the length stays until the next report.                     *)
Fits(bus) ==
    /\ bus.target = "word" => bus.index \in ResultIndex /\ bus.data \in Taint
    /\ bus.target = "code" => bus.data \in Codes
    /\ bus.target = "len" => bus.data \in {0, 4 * RESULT_WORDS}

Mails(bus) ==
    /\ fw' \in Mailbox
    /\ fw'.claim <=> bus.target = "claim"
    /\ fw'.we <=> bus.target = "word"
    /\ fw'.complete <=> bus.target = "code"
    /\ bus.target = "word" => fw'.index = bus.index /\ fw'.data = bus.data
    /\ bus.target = "code" => fw'.code = bus.data
    /\ fw'.len = IF bus.target = "len" THEN bus.data ELSE fw.len

(* A write from the firmware makes every field of the mailbox.             *)
LEMMA MailboxIs ==
    ASSUME fw \in Mailbox, NEW bus, Fits(bus), fw' = MailboxWritten(bus)
    PROVE  Mails(bus)
<1>1. /\ PulsesOff \in Mailbox /\ PulsesOff.len = fw.len
      /\ PulsesOff.claim = FALSE /\ PulsesOff.we = FALSE
      /\ PulsesOff.complete = FALSE
  BY DEF PulsesOff, Mailbox
<1>2. CASE bus.target = "claim"
  <2>1. fw' = [PulsesOff EXCEPT !.claim = TRUE]
    BY <1>2 DEF MailboxWritten
  <2>2. QED
    BY <1>1, <1>2, <2>1 DEF Mails, Mailbox
<1>3. CASE bus.target = "code"
  <2>1. fw' = [PulsesOff EXCEPT !.complete = TRUE, !.code = bus.data]
    BY <1>3 DEF MailboxWritten
  <2>2. QED
    BY <1>1, <1>3, <2>1 DEF Fits, Mails, Mailbox
<1>4. CASE bus.target = "len"
  <2>1. fw' = [PulsesOff EXCEPT !.len = bus.data]
    BY <1>4 DEF MailboxWritten
  <2>2. QED
    BY <1>1, <1>4, <2>1 DEF Fits, Mails, Mailbox
<1>5. CASE bus.target = "word"
  <2>1. fw' = [PulsesOff EXCEPT !.we = TRUE, !.index = bus.index,
                                !.data = bus.data]
    BY <1>5 DEF MailboxWritten
  <2>2. QED
    BY <1>1, <1>5, <2>1 DEF Fits, Mails, Mailbox, Taint
<1>6. CASE bus.target \notin {"claim", "code", "len", "word"}
  <2>1. fw' = PulsesOff
    BY <1>6 DEF MailboxWritten
  <2>2. QED
    BY <1>1, <1>6, <2>1 DEF Mails
<1>7. QED
  BY <1>2, <1>3, <1>4, <1>5, <1>6

(* The firmware at work for a library: where it is and what it accesses.   *)
WorkLabels == {"work", "ntt_load", "ntt_start", "ntt_wait", "ntt_read",
               "kec_load", "kec_start", "kec_wait", "kec_read"}
WorkTargets == {"none", "sram", "ntt_coeff", "ntt_start", "kec_word",
                "kec_start"}

(* Work for the library stays among its labels and touches no mailbox.     *)
LEMMA LaborsWhere ==
    ASSUME NEW bus, Labors(bus)
    PROVE  /\ cpu.pc \in WorkLabels /\ cpu'.pc \in WorkLabels
           /\ bus.target \in WorkTargets
<1>1. CASE UsesNtt(bus)
  BY <1>1 DEF UsesNtt, At, Loops, Becomes, Bus, NoBus, WorkLabels, WorkTargets
<1>2. CASE UsesKeccak(bus)
  BY <1>2 DEF UsesKeccak, At, Loops, Becomes, Bus, NoBus, WorkLabels,
              WorkTargets
<1>3. CASE ~UsesNtt(bus) /\ ~UsesKeccak(bus)
  BY <1>3 DEF Labors, At, Becomes, Bus, NoBus, WorkLabels, WorkTargets
<1>4. QED
  BY <1>1, <1>2, <1>3

(* Whatever the program writes to the mailbox fits its registers.          *)
LEMMA ProgramFits ==
    ASSUME Registers, NEW bus, Program(bus)
    PROVE  Fits(bus)
<1>1. cpu \in Processor /\ cpu.index < LoopSize(cpu.pc)
  BY DEF Registers
<1>2. CASE Rests(bus) \/ Starts(bus) \/ Decides(bus)
  BY <1>2 DEF Rests, Starts, Decides, NoBus, Bus, Fits
<1>3. CASE Labors(bus)
  BY <1>3, LaborsWhere DEF WorkTargets, Fits
<1>4. CASE Reports(bus)
  <2>1. CASE At("words") /\ bus = Bus("word", cpu.index, "data")
    <3>1. cpu.index \in Nat /\ cpu.index < RESULT_WORDS
      BY <1>1, <2>1, LoopSizes DEF At, Processor
    <3>2. cpu.index \in ResultIndex
      BY SMT, <3>1, Sizes DEF ResultIndex
    <3>3. QED
      BY <2>1, <3>2 DEF Bus, Fits, Taint
  <2>2. CASE bus = Bus("len", 0, IF HasOutput THEN 4 * RESULT_WORDS ELSE 0)
    BY <2>2 DEF Bus, Fits
  <2>3. CASE bus = Bus("code", 0, cpu.outcome.code)
    <3>1. cpu.outcome.code \in Codes
      BY <1>1 DEF Processor
    <3>2. QED
      BY <2>3, <3>1 DEF Bus, Fits
  <2>4. QED
    BY <1>4, <2>1, <2>2, <2>3 DEF Reports
<1>5. QED
  BY <1>2, <1>3, <1>4 DEF Program
-----------------------------------------------------------------------------
(* The frontend and the firmware on an edge without a zeroization, with    *)
(* everything each of them says of the other.                              *)
Service ==
    /\ Registers /\ Pulses /\ ServedOnce
    /\ Outcome /\ VerdictHonest /\ OutputComplete
ServiceKept ==
    Pulses' /\ ServedOnce' /\ Outcome' /\ VerdictHonest' /\ OutputComplete'

(* A frontend that is not busy has the firmware at its poll and no pulse   *)
(* on the way.                                                             *)
LEMMA FreeMeans ==
    ASSUME Pulses, ServedOnce, ~front.busy
    PROVE  /\ At("poll") /\ ~front.pending
           /\ ~fw.claim /\ ~fw.we /\ ~fw.complete
  BY DEF Pulses, ServedOnce, At

(* The frontend on an edge that begins no scrub.                           *)
LEMMA FrontIs ==
    ASSUME Service, NEW io \in IO, ~zeroize_frontend(io), FrontStep(io)
    PROVE  IF front.busy THEN BusyMoves(front', front, fw)
           ELSE FreeMoves(front', front, Beat(io), io.apb)
<1>1. /\ front \in FrontRegisters /\ fw \in Mailbox /\ io.apb \in ApbWrites
      /\ Beat(io) \in Beats \cup {NoBeat}
  BY Pins DEF Service, Registers
<1>2. front' = FrontEdge(front, zeroize_frontend(io), Beat(io), io.apb,
                         io.m_ready, fw)
  BY DEF FrontStep
<1>3. CASE front.busy
  <2>1. Beat(io) = NoBeat
    BY <1>3 DEF Beat, s_ready
  <2>2. front.busy = TRUE /\ front.out.active = FALSE
    BY <1>1, <1>3 DEF Service, OutputComplete, FrontRegisters, OutputRegisters
  <2> DEFINE z == zeroize_frontend(io)
             b == Beat(io)
             a == io.apb
             m == io.m_ready
  <2>3. ~z /\ b = NoBeat /\ a \in ApbWrites
    BY <1>1, <2>1
  <2> HIDE DEF z, b, a, m
  <2>4. BusyMoves(FrontEdge(front, z, b, a, m, fw), front, fw)
    BY <1>1, <2>2, <2>3, BusyEdge
  <2>5. QED
    BY <1>2, <1>3, <2>4 DEF z, b, a, m
<1>4. CASE ~front.busy
  <2>1. ~fw.claim /\ ~fw.we /\ ~fw.complete /\ front.busy = FALSE
    BY <1>1, <1>4, FreeMeans DEF Service, FrontRegisters
  <2>2. front.out.active =>
            front.out.left = 4 * (RESULT_WORDS - front.out.index)
    BY DEF Service, OutputComplete
  <2> DEFINE z == zeroize_frontend(io)
             b == Beat(io)
             a == io.apb
             m == io.m_ready
  <2>3. ~z /\ b \in Beats \cup {NoBeat} /\ a \in ApbWrites
    BY <1>1
  <2> HIDE DEF z, b, a, m
  <2>4. FreeMoves(FrontEdge(front, z, b, a, m, fw), front, b, a)
    BY <1>1, <2>1, <2>2, <2>3, FreeEdge
  <2>5. QED
    BY <1>2, <1>4, <2>4 DEF z, b, a, m
<1>5. QED
  BY <1>3, <1>4

(* Free: the firmware rests.  A start makes the frontend busy and pending; *)
(* otherwise the stream goes on, or is taken back.                         *)
LEMMA ServiceFree ==
    ASSUME Service, NEW bus, Program(bus), Mails(bus), NEW beat, NEW apb,
           ~front.busy, FreeMoves(front', front, beat, apb)
    PROVE  ServiceKept
<1>1. /\ At("poll") /\ ~front.pending
      /\ ~fw.claim /\ ~fw.we /\ ~fw.complete
  BY FreeMeans DEF Service
<1>2. bus = NoBus /\ cpu' = cpu
  BY <1>1, LaborsWhere
     DEF Program, Starts, Decides, Reports, Rests, At, WorkLabels
<1>3. ~fw'.claim /\ ~fw'.we /\ ~fw'.complete
  BY <1>2 DEF Mails, NoBus
<1>4. Pulses' /\ Outcome'
  BY <1>1, <1>2, <1>3 DEF Pulses, Outcome, At
<1>5. CASE Accepts(front, apb)
  <2>1. /\ front'.pending /\ front'.busy
        /\ front'.result.verify_valid = FALSE /\ front'.out.active = FALSE
    BY <1>5 DEF FreeMoves, Launched, Emptied
  <2>2. ServedOnce'
    BY <1>1, <1>2, <1>3, <2>1 DEF ServedOnce, Serving, At
  <2>3. VerdictHonest' /\ OutputComplete'
    BY <2>1 DEF VerdictHonest, OutputComplete
  <2>4. QED
    BY <1>4, <2>2, <2>3 DEF ServiceKept
<1>6. CASE ~Accepts(front, apb)
  <2>1. /\ front'.command = front.command /\ ~front'.pending /\ ~front'.busy
        /\ \/ Emptied(front')
           \/ /\ front'.result.words = front.result.words
              /\ front'.result.verify_valid = front.result.verify_valid
              /\ PoppedIs(front, front'.out)
    BY <1>1, <1>6 DEF FreeMoves
  <2>2. ServedOnce'
    BY <1>1, <1>2, <1>3, <2>1 DEF ServedOnce, At
  <2>3. VerdictHonest'
    BY <1>2, <2>1 DEF VerdictHonest, Emptied, Service
  <2>4. OutputComplete'
    <3>1. CASE front'.out.active = FALSE
      BY <3>1 DEF OutputComplete
    <3>2. CASE front'.out = front.out
               /\ front'.result.words = front.result.words
      BY <2>1, <3>2 DEF OutputComplete, Service
    <3>3. CASE /\ front.out.active /\ front.out.left > 4
               /\ front'.out.index = front.out.index + 1
               /\ front'.out.left = front.out.left - 4
               /\ front'.result.words = front.result.words
      <4>1. /\ front.command = "DECAPS"
            /\ \A i \in ResultIndex : front.result.words[i] = "data"
            /\ front.out.left = 4 * (RESULT_WORDS - front.out.index)
        BY <3>3 DEF OutputComplete, Service
      <4>2. front.out.index \in Nat /\ RESULT_WORDS \in Nat
        BY Sizes DEF Service, Registers, FrontRegisters, OutputRegisters,
                     ResultIndex
      <4>3. front'.out.left = 4 * (RESULT_WORDS - front'.out.index)
        BY SMT, <3>3, <4>1, <4>2
      <4>4. QED
        BY <2>1, <3>3, <4>1, <4>3 DEF OutputComplete
    <3>4. QED
      BY <2>1, <3>1, <3>2, <3>3 DEF Emptied, PoppedIs
  <2>5. QED
    BY <1>4, <2>2, <2>3, <2>4 DEF ServiceKept
<1>7. QED
  BY <1>5, <1>6

(* Busy with the completion on the way: the firmware rests, and the edge   *)
(* shows the outcome.                                                      *)
LEMMA ServiceCompletes ==
    ASSUME Service, NEW bus, Program(bus), Mails(bus),
           front.busy, fw.complete, BusyMoves(front', front, fw)
    PROVE  ServiceKept
<1>1. At("poll") /\ ~front.pending /\ ~fw.claim /\ ~fw.we
  BY DEF Service, ServedOnce, Pulses
<1>2. bus = NoBus /\ cpu' = cpu
  BY <1>1, LaborsWhere
     DEF Program, Starts, Decides, Reports, Rests, At, WorkLabels
<1>3. ~fw'.claim /\ ~fw'.we /\ ~fw'.complete
  BY <1>2 DEF Mails, NoBus
<1>4. Pulses' /\ Outcome'
  BY <1>1, <1>2, <1>3 DEF Pulses, Outcome, At
<1>5. /\ front'.command = front.command
      /\ ~front'.pending /\ ~front'.busy
      /\ front'.result.words = front.result.words
      /\ front'.result.verify_valid =>
             front.command = "VERIFY" /\ fw.code = "OK"
      /\ front'.out.active =>
            fw.len # 0 /\ front'.out.index = 0 /\ front'.out.left = fw.len
  BY <1>1 DEF BusyMoves
<1>6. ServedOnce'
  BY <1>1, <1>2, <1>3, <1>5 DEF ServedOnce, At
<1>7. /\ fw.code = cpu.outcome.code /\ cpu.outcome.cmd = front.command
      /\ fw.len = IF HasOutput THEN 4 * RESULT_WORDS ELSE 0
      /\ HasOutput => \A i \in ResultIndex : front.result.words[i] = "data"
  BY <1>1 DEF Service, Pulses, Outcome, Landed
<1>8. cpu.outcome = [cmd |-> cpu.outcome.cmd, code |-> cpu.outcome.code]
  BY DEF Service, Registers, Processor
<1>9. VerdictHonest'
  BY <1>2, <1>5, <1>7, <1>8 DEF VerdictHonest
<1>10. OutputComplete'
  <2>1. SUFFICES ASSUME front'.out.active PROVE OutputComplete'
    BY DEF OutputComplete
  <2>2. HasOutput /\ fw.len = 4 * RESULT_WORDS
    BY <1>5, <1>7, <2>1
  <2>3. front'.out.left = 4 * (RESULT_WORDS - front'.out.index)
    BY <1>5, <2>1, <2>2, Sizes
  <2>4. front'.command = "DECAPS"
    BY <1>5, <1>7, <2>2 DEF HasOutput
  <2>5. QED
    BY <1>5, <1>7, <2>2, <2>3, <2>4 DEF OutputComplete
<1>11. QED
  BY <1>4, <1>6, <1>9, <1>10 DEF ServiceKept

(* A command waits for its claim: the firmware comes for it.               *)
LEMMA ServiceWaits ==
    ASSUME Service, NEW bus, Program(bus), Mails(bus),
           front.busy, ~fw.complete, front.pending, ~fw.claim,
           BusyMoves(front', front, fw)
    PROVE  ServiceKept
<1>1. cpu.pc \in {"poll", "fetch", "claim"} /\ ~fw.we
  BY DEF Service, ServedOnce, Serving, At, Pulses
<1>2. /\ front'.command = front.command /\ front'.pending /\ front'.busy
      /\ front'.out.active = FALSE
  BY DEF BusyMoves, Service, Registers, FrontRegisters, OutputRegisters,
         OutputComplete
<1>3. VerdictHonest' /\ OutputComplete'
  BY <1>2 DEF VerdictHonest, OutputComplete
<1>4. Rests(bus) \/ Starts(bus)
  BY <1>1, LaborsWhere DEF Program, Decides, Reports, At, WorkLabels
<1>5. ~fw'.we /\ ~fw'.complete
  BY <1>4 DEF Rests, Starts, Mails, NoBus, Bus
<1>6. Pulses'
  BY <1>5 DEF Pulses
<1>7. cpu'.pc \in {"poll", "fetch", "claim", "work"}
  BY <1>1, <1>4 DEF Rests, Starts, Becomes
<1>8. At("claim")' => cpu'.cmd = front'.command
  BY <1>1, <1>2, <1>4 DEF Rests, Starts, Becomes, At, Service, Outcome
<1>9. Outcome'
  BY <1>5, <1>7, <1>8 DEF Outcome, At
<1>10. ServedOnce'
  <2>1. CASE Rests(bus) \/ bus = NoBus
    <3>1. ~fw'.claim
      BY <2>1 DEF Rests, Mails, NoBus
    <3>2. cpu'.pc \in {"poll", "fetch", "claim"}
      BY <1>1, <1>4, <2>1 DEF Rests, Starts, Becomes, NoBus, Bus
    <3>3. QED
      BY <1>2, <1>5, <3>1, <3>2 DEF ServedOnce, Serving, At
  <2>2. CASE Starts(bus) /\ bus # NoBus
    <3>1. /\ At("claim") /\ cpu'.pc = "work" /\ cpu'.cmd = cpu.cmd
          /\ bus = Bus("claim", 0, "clear")
      BY <2>2 DEF Starts, Becomes, KeepsCommand
    <3>2. fw'.claim
      BY <3>1 DEF Mails, Bus
    <3>3. cpu'.cmd = front'.command
      BY <1>2, <3>1 DEF Service, Outcome
    <3>4. QED
      BY <1>2, <1>5, <3>1, <3>2, <3>3 DEF ServedOnce, Serving, At
  <2>3. QED
    BY <1>4, <2>1, <2>2
<1>11. QED
  BY <1>3, <1>6, <1>9, <1>10 DEF ServiceKept
(* The claim has landed: the firmware serves.                              *)
LEMMA ServiceServes ==
    ASSUME Service, NEW bus, Program(bus), Mails(bus),
           front.busy, ~fw.complete, fw.claim \/ ~front.pending,
           BusyMoves(front', front, fw)
    PROVE  ServiceKept
<1>1. Serving /\ cpu.cmd = front.command
  BY DEF Service, ServedOnce
<1>2. /\ front'.command = front.command /\ ~front'.pending /\ front'.busy
      /\ front'.out.active = FALSE
  BY DEF BusyMoves, Service, Registers, FrontRegisters, OutputRegisters,
         OutputComplete
<1>3. VerdictHonest' /\ OutputComplete'
  BY <1>2 DEF VerdictHonest, OutputComplete
<1>4. ASSUME NEW i \in ResultIndex, Landed(i)
      PROVE  front'.result.words[i] = "data"
  <2>1. /\ front.result.words \in [ResultIndex -> Taint]
        /\ fw.we => fw.data = "data"
    BY DEF Service, Registers, FrontRegisters, ResultRegisters, Pulses, Taint
  <2>2. QED
    BY <1>4, <2>1 DEF Landed, BusyMoves
<1>5. ASSUME Rests(bus) PROVE ServiceKept
  <2>1. cpu' = cpu /\ ~fw'.claim /\ ~fw'.we /\ ~fw'.complete
        /\ fw'.len = fw.len
    BY <1>5 DEF Rests, Mails, NoBus
  <2>2. Pulses' /\ ServedOnce'
    BY <1>1, <1>2, <2>1 DEF Pulses, ServedOnce, Serving, At
  <2>3. At("words") => \A i \in 0 .. (cpu.index - 1) : i \in ResultIndex
    <3>1. At("words") => cpu.index \in Nat /\ cpu.index < RESULT_WORDS
      BY LoopSizes DEF At, Service, Registers, Processor
    <3>2. QED
      BY SMT, <3>1, Sizes DEF ResultIndex
  <2>4. Outcome'
    BY <1>2, <1>4, <2>1, <2>3
       DEF Service, Outcome, At, HasOutput, Landed
  <2>5. QED
    BY <1>3, <2>2, <2>4 DEF ServiceKept
<1>6. ASSUME Decides(bus) PROVE ServiceKept
  <2>1. /\ ~fw'.claim /\ ~fw'.we /\ ~fw'.complete
        /\ cpu'.cmd = cpu.cmd /\ cpu'.outcome.cmd = cpu.cmd
    BY <1>6 DEF Decides, Mails, NoBus
  <2>2. \/ cpu'.pc = "words" /\ cpu'.index = 0 /\ HasOutput'
        \/ cpu'.pc = "len" /\ ~HasOutput'
    BY <1>6 DEF Decides, Becomes, HasOutput
  <2>3. Pulses' /\ ServedOnce'
    BY <1>1, <1>2, <2>1, <2>2 DEF Pulses, ServedOnce, Serving, At
  <2>4. Outcome'
    BY <2>1, <2>2 DEF Outcome, At
  <2>5. QED
    BY <1>3, <2>3, <2>4 DEF ServiceKept
<1>7. ASSUME Labors(bus) PROVE ServiceKept
  <2>1. /\ cpu'.pc \in WorkLabels /\ cpu'.cmd = cpu.cmd
        /\ bus.target \in WorkTargets
    BY <1>7, LaborsWhere DEF Labors, KeepsCommand
  <2>2. ~fw'.claim /\ ~fw'.we /\ ~fw'.complete
    BY <2>1 DEF Mails, WorkTargets
  <2>3. Pulses' /\ ServedOnce' /\ Outcome'
    BY <1>1, <1>2, <2>1, <2>2
       DEF Pulses, ServedOnce, Outcome, Serving, At, WorkLabels
  <2>4. QED
    BY <1>3, <2>3 DEF ServiceKept
<1>8. ASSUME Reports(bus) PROVE ServiceKept
  <2>1. cpu.outcome.cmd = cpu.cmd /\ cpu'.outcome = cpu.outcome
    BY <1>8 DEF Reports, At, Service, Outcome
  <2>2. HasOutput' <=> HasOutput
    BY <2>1 DEF HasOutput
  <2>3. CASE At("words") /\ bus = Bus("word", cpu.index, "data")
             /\ Loops(RESULT_WORDS, "len") /\ cpu'.cmd = cpu.cmd
    <3>1. /\ ~fw'.claim /\ fw'.we /\ ~fw'.complete
          /\ fw'.index = cpu.index /\ fw'.data = "data"
      BY <2>3 DEF Mails, Bus
    <3>2. /\ HasOutput /\ cpu.index \in Nat /\ cpu.index < RESULT_WORDS
          /\ \A i \in 0 .. (cpu.index - 1) : Landed(i)
      BY <2>3, LoopSizes DEF Service, Outcome, Registers, Processor, At
    <3>3. RESULT_WORDS \in Nat
      BY Sizes
    <3>4. \A i \in 0 .. cpu.index : Landed(i)'
      <4>1. SUFFICES ASSUME NEW i \in 0 .. cpu.index PROVE Landed(i)'
        OBVIOUS
      <4>2. CASE i = cpu.index
        BY <3>1, <4>2 DEF Landed
      <4>3. CASE i # cpu.index
        <5>1. i \in 0 .. (cpu.index - 1) /\ i \in ResultIndex
          BY SMT, <3>2, <3>3, <4>3 DEF ResultIndex
        <5>2. QED
          BY <1>4, <3>2, <5>1 DEF Landed
      <4>4. QED
        BY <4>2, <4>3
    <3>5. CASE cpu.index = RESULT_WORDS - 1 /\ Becomes("len", 0)
      <4>1. \A i \in ResultIndex : Landed(i)'
        BY <3>4, <3>5 DEF ResultIndex
      <4>2. Pulses' /\ ServedOnce'
        BY <1>1, <1>2, <2>3, <3>1, <3>5
           DEF Pulses, ServedOnce, Serving, At, Becomes
      <4>3. Outcome'
        BY <2>1, <2>2, <2>3, <3>1, <3>5, <4>1 DEF Outcome, At, Becomes
      <4>4. QED
        BY <1>3, <4>2, <4>3 DEF ServiceKept
    <3>6. CASE Becomes(cpu.pc, cpu.index + 1)
      <4>1. \A i \in 0 .. (cpu'.index - 1) : Landed(i)'
        BY <3>2, <3>4, <3>6 DEF Becomes
      <4>2. Pulses' /\ ServedOnce'
        BY <1>1, <1>2, <2>3, <3>1, <3>6
           DEF Pulses, ServedOnce, Serving, At, Becomes
      <4>3. Outcome'
        BY <2>1, <2>2, <2>3, <3>1, <3>2, <3>6, <4>1 DEF Outcome, At, Becomes
      <4>4. QED
        BY <1>3, <4>2, <4>3 DEF ServiceKept
    <3>7. QED
      BY <2>3, <3>5, <3>6 DEF Loops
  <2>4. CASE At("len") /\ Becomes("code", 0) /\ cpu'.cmd = cpu.cmd
             /\ bus = Bus("len", 0, IF HasOutput THEN 4 * RESULT_WORDS ELSE 0)
    <3>1. /\ ~fw'.claim /\ ~fw'.we /\ ~fw'.complete
          /\ fw'.len = IF HasOutput THEN 4 * RESULT_WORDS ELSE 0
      BY <2>4 DEF Mails, Bus
    <3>2. Pulses' /\ ServedOnce'
      BY <1>1, <1>2, <2>4, <3>1 DEF Pulses, ServedOnce, Serving, At, Becomes
    <3>3. HasOutput => \A i \in ResultIndex : Landed(i)'
      <4>1. HasOutput => \A i \in ResultIndex : Landed(i)
        BY <2>4 DEF Service, Outcome, At
      <4>2. QED
        BY <1>4, <4>1 DEF Landed
    <3>4. Outcome'
      BY <2>1, <2>2, <2>4, <3>1, <3>3 DEF Outcome, At, Becomes
    <3>5. QED
      BY <1>3, <3>2, <3>4 DEF ServiceKept
  <2>5. CASE At("code") /\ Becomes("poll", 0)
             /\ bus = Bus("code", 0, cpu.outcome.code)
    <3>1. /\ ~fw'.claim /\ ~fw'.we /\ fw'.complete
          /\ fw'.code = cpu.outcome.code /\ fw'.len = fw.len
      BY <2>5 DEF Mails, Bus
    <3>2. Pulses' /\ ServedOnce'
      BY <1>2, <2>1, <2>5, <3>1 DEF Pulses, ServedOnce, At, Becomes
    <3>3. HasOutput => \A i \in ResultIndex : Landed(i)'
      <4>1. HasOutput => \A i \in ResultIndex : Landed(i)
        BY <2>5 DEF Service, Outcome, At
      <4>2. QED
        BY <1>4, <4>1 DEF Landed
    <3>4. fw'.len = IF HasOutput THEN 4 * RESULT_WORDS ELSE 0
      BY <2>5, <3>1 DEF Service, Outcome
    <3>5. Outcome'
      BY <1>1, <1>2, <2>1, <2>2, <2>5, <3>3, <3>4 DEF Outcome, At, Becomes
    <3>6. QED
      BY <1>3, <3>2, <3>5 DEF ServiceKept
  <2>6. QED
    BY <1>8, <2>3, <2>4, <2>5 DEF Reports
<1>9. ~Starts(bus)
  BY <1>1 DEF Serving, Starts, At
<1>10. QED
  BY <1>5, <1>6, <1>7, <1>8, <1>9 DEF Program

(* The four cases together: frontend and firmware keep their agreement.    *)
LEMMA ServiceStep ==
    ASSUME Service, NEW io \in IO, NEW bus, Run(io, bus), Program(bus)
    PROVE  ServiceKept
<1>1. Mails(bus)
  BY ProgramFits, MailboxIs DEF Service, Registers, Run
<1>2. IF front.busy THEN BusyMoves(front', front, fw)
      ELSE FreeMoves(front', front, Beat(io), io.apb)
  BY FrontIs DEF Run
<1>3. QED
  BY <1>1, <1>2, ServiceFree, ServiceCompletes, ServiceWaits, ServiceServes
-----------------------------------------------------------------------------
(* The objects in the memory.  The words of an object are words of the     *)
(* SRAM, apart from the firmware's own.                                    *)
LEMMA WordPlace ==
    ASSUME NEW o \in Objects
    PROVE  /\ \A w \in Nat : 4 * w < Limit[o] =>
                  Base[o] + w \in 1 .. (SRAM_WORDS - 1)
           /\ \A a \in ObjectWords(o) :
                  a - Base[o] \in Nat /\ 4 * (a - Base[o]) < Limit[o]
<1>1. /\ Base[o] \in Nat /\ Limit[o] \in Nat
      /\ ObjectWords(o) \subseteq 1 .. (SRAM_WORDS - 1)
  BY MemoryMap, ObjectsAssumption
<1>2. ASSUME NEW w \in Nat, 4 * w < Limit[o]
      PROVE  Base[o] + w \in ObjectWords(o)
  BY SMT, <1>1, <1>2 DEF ObjectWords
<1>3. \A a \in ObjectWords(o) :
          a - Base[o] \in Nat /\ 4 * (a - Base[o]) < Limit[o]
  BY SMT, <1>1 DEF ObjectWords
<1>4. QED
  BY <1>1, <1>2, <1>3

(* No input is loaded, whatever the memory holds.                          *)
LEMMA EmptyLoaded ==
    ASSUME NEW m
    PROVE  LoadedIn(NoInput, m)
<1>1. \A o \in Objects : NoInput.count[o] = 0 /\ Limit[o] \in Nat
  BY ObjectsAssumption DEF NoInput
<1>2. \A o \in VariableObjects : NoInput.len[o] = 0 /\ o \in Objects
  BY DEF NoInput, Objects
<1>3. \A o \in FixedObjects : o \notin NoInput.loaded /\ o \in Objects
  BY ObjectsAssumption DEF NoInput, Objects
<1>4. 0 % 4 = 0 /\ \A w \in Nat : ~(4 * w < 0) /\ ~(4 * w + 4 <= 0)
  BY SMT
<1>5. NoInput.torn = {}
  BY DEF NoInput
<1>6. QED
  BY <1>1, <1>2, <1>3, <1>4, <1>5 DEF LoadedIn, FixedLoaded, Words

(* More data in the memory, the same inputs or fewer of them.              *)
Memory == [0 .. (SRAM_WORDS - 1) -> Taint]
KeepsData(m, n) ==
    \A a \in 0 .. (SRAM_WORDS - 1) : m[a] = "data" => n[a] = "data"

(* What is loaded stays loaded when the memory only gains data.            *)
LEMMA KeptLoaded ==
    ASSUME NEW u \in InputRegisters, NEW v, NEW m, NEW n, LoadedIn(u, m),
           KeepsData(m, n), v.count = u.count, v.len = u.len,
           v.loaded \subseteq u.loaded, v.torn = u.torn
    PROVE  LoadedIn(v, n)
<1>1. ASSUME NEW o \in Objects, NEW w \in Nat, 4 * w < u.count[o],
             m[Base[o] + w] = "data"
      PROVE  n[Base[o] + w] = "data"
  <2>1. /\ o \in Objects /\ Limit[o] \in Nat
        /\ u.count[o] \in Nat /\ u.count[o] <= Limit[o]
    BY ObjectsAssumption DEF Objects, LoadedIn, InputRegisters
  <2>2. 4 * w < Limit[o]
    BY SMT, <1>1, <2>1
  <2>3. Base[o] + w \in 1 .. (SRAM_WORDS - 1)
    BY <2>1, <2>2, WordPlace
  <2>4. QED
    BY <1>1, <2>3, Sizes DEF KeepsData
<1>2. ASSUME NEW o \in Objects PROVE Words(o, v, n)
  <2>1. u.count[o] \in Nat /\ Words(o, u, m)
    BY DEF LoadedIn, InputRegisters
  <2>2. \A w \in Nat : 4 * w + 4 <= u.count[o] => 4 * w < u.count[o]
    BY SMT, <2>1
  <2>3. QED
    BY <1>1, <2>1, <2>2 DEF Words
<1>3. QED
  BY <1>2 DEF LoadedIn, FixedLoaded

(* A beat that is taken: its word is in the memory.                        *)
LEMMA BeatLoaded ==
    ASSUME NEW f \in FrontRegisters, NEW beat \in Beats,
           NEW v \in InputRegisters, TakesBeat(f, v, beat),
           NEW m, NEW n, LoadedIn(f.in, m), KeepsData(m, n),
           dma_we(f, beat) =>
               n[Base[beat.object] + f.in.count[beat.object] \div 4] = "data"
    PROVE  LoadedIn(v, n)
<1> DEFINE o == beat.object
           u == f.in
<1>1. /\ u \in InputRegisters /\ o \in Objects
      /\ beat.bytes \in 0 .. 4 /\ beat.last \in BOOLEAN
  BY DEF FrontRegisters, Beats
<1>2. /\ u.count[o] \in Nat /\ Limit[o] \in Nat /\ u.count[o] <= Limit[o]
  BY <1>1, ObjectsAssumption DEF InputRegisters, LoadedIn
<1>3. CASE BeatWrong(f, beat)
  <2>1. /\ v.count = u.count /\ v.len = u.len /\ v.loaded \subseteq u.loaded
        /\ v.torn = u.torn
    BY <1>3 DEF TakesBeat
  <2>2. QED
    BY <1>1, <2>1, KeptLoaded
<1>4. CASE ~BeatWrong(f, beat)
  <2> DEFINE c == u.count[o]
             next == c + beat.bytes
  <2>1. /\ beat.bytes > 0 /\ (~beat.last => beat.bytes = 4)
        /\ next <= Limit[o]
        /\ o \in FixedObjects /\ beat.last => next = Limit[o]
        /\ o \in FixedObjects /\ ~beat.last => next < Limit[o]
    BY <1>1, <1>2, <1>4 DEF BeatWrong, keep_valid, next_count
  <2>2. dma_we(f, beat)
    BY <2>1 DEF dma_we, keep_valid, next_count
  <2>3. /\ v.count = [u.count EXCEPT ![o] = next]
        /\ v.loaded = IF beat.last THEN u.loaded \cup {o}
                      ELSE IF c = 0 THEN u.loaded \ {o} ELSE u.loaded
        /\ v.len = IF beat.last /\ o \in VariableObjects
                   THEN [u.len EXCEPT ![o] = next] ELSE u.len
        /\ v.torn = IF c % 4 # 0 THEN u.torn \cup {o} ELSE u.torn
    BY <1>4 DEF TakesBeat, next_count
  <2>4. /\ v.count[o] = next
        /\ \A p \in Objects \ {o} : v.count[p] = u.count[p]
    BY <1>1, <2>3 DEF InputRegisters
  <2>5. LoadedIn(u, n)
    BY <1>1, KeptLoaded
  <2>6. \A p \in Objects : v.count[p] <= Limit[p]
    BY <2>1, <2>4, <2>5 DEF LoadedIn
  <2>7. ASSUME NEW p \in VariableObjects PROVE v.len[p] <= v.count[p]
    <3>1. p \in Objects /\ u.len[p] \in Nat /\ u.len[p] <= u.count[p]
      BY <1>1, <2>5 DEF Objects, InputRegisters, LoadedIn
    <3>2. CASE p = o
      <4>1. v.len[p] = u.len[p] \/ v.len[p] = next
        BY <1>1, <2>3, <3>2 DEF InputRegisters
      <4>2. next \in Nat /\ c <= next
        BY SMT, <1>1, <1>2
      <4>3. QED
        BY <1>2, <2>4, <3>1, <3>2, <4>1, <4>2
    <3>3. CASE p # o
      <4>1. v.len[p] = u.len[p]
        BY <1>1, <2>3, <3>3 DEF InputRegisters
      <4>2. QED
        BY <2>4, <3>1, <3>3, <4>1
    <3>4. QED
      BY <3>2, <3>3
  <2>8. ASSUME NEW p \in FixedObjects PROVE FixedLoaded(p, v)
    <3>1. p \in Objects /\ FixedLoaded(p, u)
      BY <2>5 DEF Objects, LoadedIn
    <3>2. CASE p # o
      BY <2>3, <2>4, <3>1, <3>2 DEF FixedLoaded
    <3>3. CASE p = o
      <4>1. c % 4 = 0 /\ o \notin u.loaded
        BY SMT, <1>1, <1>2, <2>1, <3>1, <3>3 DEF FixedLoaded
      <4>2. o \in v.loaded => next = Limit[o]
        BY <1>1, <2>1, <2>3, <3>3, <4>1
      <4>3. next % 4 = 0 \/ next = Limit[o]
        BY SMT, <1>1, <1>2, <2>1, <3>3, <4>1
      <4>4. o \notin v.torn
        BY <2>3, <3>1, <3>3, <4>1 DEF FixedLoaded
      <4>5. QED
        BY <2>4, <3>3, <4>2, <4>3, <4>4 DEF FixedLoaded
    <3>4. QED
      BY <3>2, <3>3
  <2>9. ASSUME NEW p \in Objects PROVE Words(p, v, n)
    <3>1. Words(p, u, n)
      BY <2>5 DEF LoadedIn
    <3>2. CASE p # o
      BY <2>3, <2>4, <3>1, <3>2 DEF Words
    <3>3. CASE p = o
      <4>1. n[Base[o] + c \div 4] = "data"
        BY <2>2
      <4>2. ASSUME NEW w \in Nat, 4 * w + 4 <= next
            PROVE  n[Base[o] + w] = "data"
        <5>1. 4 * w + 4 <= c \/ w = c \div 4
          BY SMT, <1>1, <1>2, <4>2
        <5>2. QED
          BY <3>1, <3>3, <4>1, <5>1 DEF Words
      <4>3. ASSUME o \notin v.torn, NEW w \in Nat, 4 * w < next
            PROVE  n[Base[o] + w] = "data"
        <5>1. c % 4 = 0 /\ o \notin u.torn
          BY <2>3, <4>3
        <5>2. 4 * w < c \/ w = c \div 4
          BY SMT, <1>1, <1>2, <4>3, <5>1
        <5>3. QED
          BY <3>1, <3>3, <4>1, <5>1, <5>2 DEF Words
      <4>4. QED
        BY <2>4, <3>3, <4>2, <4>3 DEF Words
    <3>4. QED
      BY <3>2, <3>3
  <2>10. QED
    BY <2>6, <2>7, <2>8, <2>9 DEF LoadedIn
<1>5. QED
  BY <1>3, <1>4
(* What an edge without a zeroization writes to the memory: data, the word *)
(* of a beat that is taken included.                                       *)
LEMMA MemoryStep ==
    ASSUME Registers, NEW io \in IO, NEW bus, sram' = SramWritten(io, bus)
    PROVE  /\ sram' \in Memory /\ KeepsData(sram, sram')
           /\ dma_we(front, Beat(io)) =>
                  sram'[Base[Beat(io).object]
                          + front.in.count[Beat(io).object] \div 4] = "data"
<1>1. sram \in Memory /\ front.in \in InputRegisters
  BY DEF Registers, Memory, FrontRegisters
<1>2. Beat(io) \in Beats \cup {NoBeat}
  BY Pins
<1>3. dma_we(front, Beat(io)) => Dma(io) /\ io.beat = Beat(io)
  <2>1. ~dma_we(front, NoBeat)
    BY DEF dma_we, keep_valid, NoBeat
  <2>2. Beat(io) # NoBeat => io.beat = Beat(io)
    BY DEF Beat
  <2>3. QED
    BY <2>1, <2>2 DEF Dma
<1>4. CASE Dma(io)
  <2>1. /\ io.beat = Beat(io) /\ io.beat \in Beats
        /\ dma_we(front, io.beat)
    BY <1>2, <1>4 DEF Dma, Beat
  <2> DEFINE o == io.beat.object
             c == front.in.count[o]
  <2>2. /\ o \in Objects /\ io.beat.bytes \in 0 .. 4
        /\ c \in Nat /\ Limit[o] \in Nat
    BY <1>1, <2>1, ObjectsAssumption DEF Beats, InputRegisters
  <2>3. io.beat.bytes > 0 /\ c + io.beat.bytes <= Limit[o]
    BY <2>1 DEF dma_we, keep_valid, next_count
  <2>4. c \div 4 \in Nat /\ 4 * (c \div 4) < Limit[o]
    BY SMT, <2>2, <2>3
  <2>5. DmaWord(io) \in 0 .. (SRAM_WORDS - 1)
    <3>1. Base[o] + c \div 4 \in 1 .. (SRAM_WORDS - 1)
      BY Zenon, <2>2, <2>4, WordPlace
    <3>2. QED
      BY <3>1, Sizes DEF DmaWord
  <2>6. sram' = [sram EXCEPT ![DmaWord(io)] = "data"]
    BY <1>4 DEF SramWritten
  <2>7. /\ sram' \in Memory /\ KeepsData(sram, sram')
        /\ sram'[DmaWord(io)] = "data"
    BY <1>1, <2>5, <2>6 DEF Memory, KeepsData, Taint
  <2>8. QED
    BY <2>1, <2>7 DEF DmaWord
<1>5. CASE ~Dma(io)
  <2>1. sram' = sram \/ sram' = [sram EXCEPT ![WorkWord] = "data"]
    BY <1>5 DEF SramWritten
  <2>2. sram' \in Memory /\ KeepsData(sram, sram')
    BY <1>1, <2>1 DEF Memory, KeepsData, Taint
  <2>3. QED
    BY <1>3, <1>5, <2>2
<1>6. QED
  BY <1>4, <1>5

(* What is marked as loaded is in the memory after an edge.                *)
LEMMA LoadedStep ==
    ASSUME Service, Loaded, NEW io \in IO, NEW bus, Run(io, bus)
    PROVE  sram' \in Memory /\ Loaded' /\ front' \in FrontRegisters
<1>1. IF front.busy THEN BusyMoves(front', front, fw)
      ELSE FreeMoves(front', front, Beat(io), io.apb)
  BY FrontIs DEF Run
<1>2. /\ sram' \in Memory /\ KeepsData(sram, sram')
      /\ dma_we(front, Beat(io)) =>
             sram'[Base[Beat(io).object]
                     + front.in.count[Beat(io).object] \div 4] = "data"
  BY MemoryStep DEF Run, Service
<1>3. /\ front \in FrontRegisters /\ front.in \in InputRegisters
      /\ front' \in FrontRegisters /\ front'.in \in InputRegisters
  BY <1>1 DEF Service, Registers, FrontRegisters, BusyMoves, FreeMoves
<1>4. CASE front'.in = NoInput
  <2>1. LoadedIn(NoInput, sram')
    BY EmptyLoaded
  <2>2. QED
    BY <1>2, <1>3, <1>4, <2>1 DEF Loaded
<1>5. CASE front'.in = front.in
  <2>1. LoadedIn(front.in, sram')
    BY <1>2, <1>3, KeptLoaded DEF Loaded
  <2>2. QED
    BY <1>2, <1>3, <1>5, <2>1 DEF Loaded
<1>6. CASE Beat(io) \in Beats /\ TakesBeat(front, front'.in, Beat(io))
  <2> DEFINE v == front'.in
             b == Beat(io)
             n == sram'
  <2>1. /\ v \in InputRegisters /\ b \in Beats /\ TakesBeat(front, v, b)
        /\ KeepsData(sram, n) /\ LoadedIn(front.in, sram)
        /\ dma_we(front, b) =>
             n[Base[b.object] + front.in.count[b.object] \div 4] = "data"
    BY <1>2, <1>3, <1>6 DEF Loaded
  <2> HIDE DEF v, b, n
  <2>2. LoadedIn(v, n)
    BY <1>3, <2>1, BeatLoaded
  <2>3. QED
    BY <1>2, <1>3, <2>2 DEF Loaded, v, n
<1>7. QED
  BY <1>1, <1>4, <1>5, <1>6 DEF BusyMoves, FreeMoves
-----------------------------------------------------------------------------
(* The engines on one edge.  The NTT engine keeps its invariant, is        *)
(* interrupted or follows its schedule, and stays clear if no beat of data *)
(* comes in.                                                               *)
NttSafe == NL!EngineInv /\ NL!ScrubClears /\ Coefficients
NttMoves(z, s, h) ==
    /\ NttSafe'
    /\ \/ NL!Interrupted(z)
       \/ NL!NttLatch(z) /\ NL!Follows(z, s)
    /\ ntt_state = "ZEROIZE" /\ ntt_state' = "IDLE" => AllClear'
    /\ ~h.we /\ AllClear => AllClear'

(* The NTT engine on one edge.                                             *)
LEMMA NttOnEdge ==
    ASSUME NttSafe, NEW z \in BOOLEAN, NEW s \in BOOLEAN, NEW c, NEW h,
           s => c \in NttCalls,
           h.we => h.addr \in Ntt!Address /\ h.data \in Taint,
           Ntt!NttEdge(z, s, c, h)
    PROVE  NttMoves(z, s, h)
<1> DEFINE d == IF s THEN c ELSE "MLDSA_NTT"
<1>1. d \in NL!NttCommand
  BY BoundsAssumption DEF NL!NttCommand, Ntt!NttCommand
<1>2. NL!NttEdge(z, s, d, h)
  <2>1. NL!NttEdge(z, s, c, h)
    BY SameEdge
  <2>2. CASE s
    BY <2>1, <2>2
  <2>3. CASE ~s
    <3>1. ~NL!NttStart(z, s, c, h)
      BY <2>3 DEF NL!NttStart
    <3>2. QED
      BY Zenon, <2>1, <3>1 DEF NL!NttEdge
  <2>4. QED
    BY <2>2, <2>3
<1> HIDE DEF d
<1>3. NL!SizeOK /\ NL!BanksSplit
  BY EngineSize
<1>4. h.we => h.addr \in NL!Address
  BY SameBanks
<1>5. /\ NL!Shape(coeff)
      /\ \A b \in NL!TwoBanks, r \in NL!Row : coeff[b][r] \in Taint
  BY SameBanks DEF NttSafe, Coefficients, NL!Shape, NL!TwoBanks
<1>6. NL!EngineInv /\ NL!ScrubClears
  BY DEF NttSafe
<1>7. /\ NL!EngineInv'
      /\ \/ NL!Interrupted(z)
         \/ NL!NttLatch(z) /\ NL!Follows(z, s)
  BY <1>1, <1>2, <1>3, <1>6, NL!EngineStep
<1>8. /\ NL!ScrubClears'
      /\ ntt_state = "ZEROIZE" /\ ntt_state' = "IDLE" => NL!AllClear'
  BY <1>2, <1>3, <1>5, <1>6, NL!ScrubStep
<1>9. /\ NL!Shape(coeff')
      /\ \A b \in NL!TwoBanks, r \in NL!Row :
             NL!Becomes(coeff[b][r], coeff'[b][r], z, h)
  BY <1>2, <1>3, <1>4, <1>5, <1>6, NL!CellStep
<1>10. \A x, y : /\ Mix(ntt_cmd, zeta, x, y) \in Taint
                 /\ x = "clear" /\ y = "clear" =>
                        Mix(ntt_cmd, zeta, x, y) = "clear"
                 /\ Unscaled(ntt_cmd, x) = x
  BY DEF Mix, Unscaled, Taint
<1>11. \A x \in NL!Cells : x \in Taint
  BY <1>5 DEF NL!Cells
<1>12. ASSUME NEW b \in NL!TwoBanks, NEW r \in NL!Row
       PROVE  coeff'[b][r] \in Taint
  BY <1>5, <1>9, <1>10, <1>11 DEF NL!Becomes, Taint
<1>13. Coefficients'
  BY <1>9, <1>12, SameBanks DEF Coefficients, NL!Shape, NL!TwoBanks
<1>14. /\ AllClear <=> NL!AllClear
       /\ AllClear' <=> NL!AllClear'
  BY SameBanks DEF AllClear, NL!AllClear, NL!TwoBanks
<1>15. ASSUME ~h.we, AllClear, NEW b \in NL!TwoBanks, NEW r \in NL!Row
       PROVE  coeff'[b][r] = "clear"
  <2>1. coeff[b][r] = "clear" /\ \A x \in NL!Cells : x = "clear"
    BY <1>14, <1>15 DEF NL!AllClear, NL!Cells
  <2>2. QED
    BY <1>9, <1>10, <1>15, <2>1 DEF NL!Becomes
<1>16. ~h.we /\ AllClear => AllClear'
  BY <1>14, <1>15 DEF NL!AllClear
<1>17. QED
  BY <1>7, <1>8, <1>13, <1>14, <1>16 DEF NttSafe, NttMoves

(* The Keccak engine: a zeroization clears it at once; otherwise it        *)
(* starts, computes a round or rests.                                      *)
KeccakMoves(z, s) ==
    /\ KeccakInv'
    /\ IF z
       THEN kec_busy' = FALSE /\ lanes' = "clear"
       ELSE \/ s /\ ~kec_busy /\ kec_busy'
            \/ kec_busy /\ (kec_busy' \/ kec_done')
            \/ ~s /\ ~kec_busy /\ ~kec_busy' /\ kec_done' = kec_done

(* The Keccak engine on one edge.                                          *)
LEMMA KeccakOnEdge ==
    ASSUME KeccakInv, NEW z, NEW s, NEW h, h.we => h.data \in Taint,
           Keccak!KecEdge(z, s, h)
    PROVE  KeccakMoves(z, s)
<1>1. ROUNDS \in Nat \ {0} /\ 0 \in 0 .. (ROUNDS - 1)
  BY Sizes
<1>2. Keccak!HostWritten(h) \in Taint
  BY DEF Keccak!HostWritten, WordIn, KeccakInv
<1>3. CASE z
  BY <1>1, <1>3
     DEF Keccak!KecEdge, Keccak!KecClear, KeccakMoves, KeccakInv, Taint
<1>4. CASE ~z /\ Keccak!KecStart(s, h)
  BY <1>1, <1>2, <1>4 DEF Keccak!KecStart, KeccakMoves, KeccakInv
<1>5. CASE ~z /\ Keccak!KecRest(s, h)
  BY <1>2, <1>5 DEF Keccak!KecRest, KeccakMoves, KeccakInv
<1>6. CASE ~z /\ Keccak!KecRound
  <2>1. kec_busy /\ lanes' \in Taint
    BY <1>6 DEF Keccak!KecRound, Stirred, Taint
  <2>2. CASE round = ROUNDS - 1
    BY <1>6, <2>1, <2>2 DEF Keccak!KecRound, KeccakMoves, KeccakInv
  <2>3. CASE round # ROUNDS - 1
    <3>1. round + 1 \in 0 .. (ROUNDS - 1)
      BY SMT, <1>1, <2>3 DEF KeccakInv
    <3>2. QED
      BY <1>6, <2>1, <2>3, <3>1 DEF Keccak!KecRound, KeccakMoves, KeccakInv
  <2>4. QED
    BY <2>2, <2>3
<1>7. QED
  BY <1>3, <1>4, <1>5, <1>6 DEF Keccak!KecEdge

(* How the firmware uses the engines: it writes and reads their windows    *)
(* and starts them only where its program does, and waits for a busy one.  *)
CallsNtt(bus) ==
    /\ bus.target = "ntt_start" =>
           At("ntt_start") /\ cpu'.pc = "ntt_wait" /\ bus.data \in NttCalls
    /\ bus.target = "ntt_coeff" =>
           bus.index \in Ntt!Address /\ bus.data \in Taint
    /\ At("ntt_wait") /\ ntt_busy => cpu'.pc = "ntt_wait"
    /\ cpu'.pc = "ntt_wait" => bus.target = "ntt_start" \/ At("ntt_wait")
    /\ cpu'.pc = "ntt_read" => At("ntt_read") \/ (At("ntt_wait") /\ ~ntt_busy)
CallsKeccak(bus) ==
    /\ bus.target = "kec_start" => At("kec_start") /\ cpu'.pc = "kec_wait"
    /\ bus.target = "kec_word" => bus.data \in Taint
    /\ At("kec_wait") /\ kec_busy => cpu'.pc = "kec_wait"
    /\ cpu'.pc = "kec_wait" => bus.target = "kec_start" \/ At("kec_wait")
    /\ cpu'.pc = "kec_read" => At("kec_read") \/ (At("kec_wait") /\ ~kec_busy)

(* Every step of the program uses the engines in these ways.               *)
LEMMA EngineCalls ==
    ASSUME Registers, NEW bus, Program(bus)
    PROVE  CallsNtt(bus) /\ CallsKeccak(bus)
<1>1. CASE Rests(bus)
  BY <1>1 DEF Rests, NoBus, CallsNtt, CallsKeccak, At
<1>2. CASE Starts(bus)
  BY <1>2 DEF Starts, Becomes, NoBus, Bus, CallsNtt, CallsKeccak, At
<1>3. CASE Decides(bus)
  BY <1>3 DEF Decides, Becomes, NoBus, Bus, CallsNtt, CallsKeccak, At
<1>4. CASE Reports(bus)
  BY <1>4 DEF Reports, Loops, Becomes, NoBus, Bus, CallsNtt, CallsKeccak, At
<1>5. CASE Labors(bus)
  <2>1. CASE UsesNtt(bus)
    <3>1. At("ntt_load") => cpu.index \in Ntt!Address
      <4>1. At("ntt_load") => cpu.index \in Nat /\ cpu.index < NTT_WORDS
        BY LoopSizes DEF At, Registers, Processor
      <4>2. QED
        BY SMT, <4>1, Sizes
    <3>2. CallsKeccak(bus)
      BY <2>1 DEF UsesNtt, Loops, Becomes, NoBus, Bus, CallsKeccak, At
    <3>3. CallsNtt(bus)
      BY <2>1, <3>1 DEF UsesNtt, Loops, Becomes, NoBus, Bus, CallsNtt, At, Taint
    <3>4. QED
      BY <3>2, <3>3
  <2>2. CASE UsesKeccak(bus)
    <3>1. CallsNtt(bus)
      BY <2>2 DEF UsesKeccak, Loops, Becomes, NoBus, Bus, CallsNtt, At
    <3>2. CallsKeccak(bus)
      BY <2>2 DEF UsesKeccak, Loops, Becomes, NoBus, Bus, CallsKeccak, At, Taint
    <3>3. QED
      BY <3>1, <3>2
  <2>3. CASE ~UsesNtt(bus) /\ ~UsesKeccak(bus)
    BY <1>5, <2>3 DEF Labors, Becomes, NoBus, Bus, CallsNtt, CallsKeccak, At
  <2>4. QED
    BY <2>1, <2>2, <2>3
<1>6. QED
  BY <1>1, <1>2, <1>3, <1>4, <1>5 DEF Program

(* What a step does to the two engines, given what reaches them.           *)
EngineInputs(z, bus) ==
    /\ NttMoves(z, bus.target = "ntt_start", HostPort(bus, "ntt_coeff"))
    /\ KeccakMoves(z, bus.target = "kec_start")

(* The two engines, with the firmware that calls them.                     *)
LEMMA EnginesOnEdge ==
    ASSUME Registers, NttSafe, KeccakInv, NEW io \in IO, NEW bus,
           bus = NoBus \/ (CallsNtt(bus) /\ CallsKeccak(bus)), Engines(io, bus)
    PROVE  EngineInputs(zeroize_frontend(io), bus)
<1> DEFINE z == zeroize_frontend(io)
           h == HostPort(bus, "ntt_coeff")
           g == HostPort(bus, "kec_word")
<1>1. /\ Ntt!NttEdge(z, bus.target = "ntt_start", bus.data, h)
      /\ Keccak!KecEdge(z, bus.target = "kec_start", g)
  BY DEF Engines
<1>2. z \in BOOLEAN
  BY DEF zeroize_frontend, zeroize_trigger
<1>3. /\ h.we => h.addr \in Ntt!Address /\ h.data \in Taint
      /\ g.we => g.data \in Taint
  <2>1. /\ h.we = (bus.target = "ntt_coeff")
        /\ g.we = (bus.target = "kec_word")
        /\ h.addr = bus.index /\ h.data = bus.data /\ g.data = bus.data
    BY Zenon DEF HostPort
  <2> HIDE DEF h, g
  <2>2. /\ bus.target = "ntt_coeff" =>
              bus.index \in Ntt!Address /\ bus.data \in Taint
        /\ bus.target = "kec_word" => bus.data \in Taint
    BY DEF CallsNtt, CallsKeccak, NoBus
  <2>3. QED
    BY <2>1, <2>2
<1>4. bus.target = "ntt_start" => bus.data \in NttCalls
  BY DEF CallsNtt, NoBus
<1> HIDE DEF z, h, g
<1>5. (bus.target = "ntt_start") \in BOOLEAN
  OBVIOUS
<1> DEFINE s == bus.target = "ntt_start"
<1>6. s \in BOOLEAN /\ (s => bus.data \in NttCalls)
      /\ Ntt!NttEdge(z, s, bus.data, h)
  BY <1>1, <1>4
<1> HIDE DEF s
<1>7. NttMoves(z, s, h)
  BY <1>2, <1>3, <1>6, NttOnEdge
<1> DEFINE t == bus.target = "kec_start"
<1>8. Keccak!KecEdge(z, t, g)
  BY <1>1
<1> HIDE DEF t
<1>9. KeccakMoves(z, t)
  BY <1>3, <1>8, KeccakOnEdge
<1>10. QED
  BY <1>7, <1>9 DEF EngineInputs, z, h, s, t

(* Without a zeroization an engine that runs keeps the firmware waiting,   *)
(* and its result is there when the firmware reads it.                     *)
LEMMA ServeStep ==
    ASSUME NttSafe, EnginesServe, ~zeroize_active, ~zeroize_active',
           NEW bus, CallsNtt(bus), CallsKeccak(bus), EngineInputs(FALSE, bus)
    PROVE  EnginesServe'
<1>1. /\ ntt_state \in {"IDLE", "BUTTERFLY", "SCALE", "ZEROIZE"}
      /\ ntt_busy <=> ntt_state # "IDLE"
      /\ ntt_done => ntt_state = "IDLE"
  BY DEF NttSafe, NL!EngineInv, NL!Control
<1>2. ntt_state # "ZEROIZE"
  BY DEF EnginesServe
<1>3. ~ntt_zeroize_seen' /\ NL!Follows(FALSE, bus.target = "ntt_start")
  BY DEF EngineInputs, NttMoves, NL!Interrupted, NL!NttLatch
<1>4. \/ /\ ntt_state = "IDLE" /\ bus.target = "ntt_start"
         /\ ntt_state' = "BUTTERFLY" /\ ~ntt_done'
      \/ /\ ntt_state = "IDLE" /\ bus.target # "ntt_start"
         /\ ntt_state' = "IDLE" /\ ntt_done' = ntt_done
      \/ /\ ntt_state \in {"BUTTERFLY", "SCALE"}
         /\ \/ ntt_state' \in {"BUTTERFLY", "SCALE"} /\ ~ntt_done'
            \/ ntt_state' = "IDLE" /\ ntt_done'
  BY <1>2, <1>3 DEF NL!Follows
<1>5. /\ ntt_state' \in {"BUTTERFLY", "SCALE"} => At("ntt_wait")'
      /\ At("ntt_wait")' => ntt_state' \in {"BUTTERFLY", "SCALE"} \/ ntt_done'
      /\ At("ntt_read")' => ntt_state' = "IDLE" /\ ntt_done'
      /\ ntt_state' # "ZEROIZE"
  BY <1>1, <1>2, <1>4 DEF EnginesServe, CallsNtt, At
<1>6. \/ bus.target = "kec_start" /\ ~kec_busy /\ kec_busy'
      \/ kec_busy /\ (kec_busy' \/ kec_done')
      \/ /\ bus.target # "kec_start" /\ ~kec_busy /\ ~kec_busy'
         /\ kec_done' = kec_done
  BY DEF EngineInputs, KeccakMoves
<1>7. /\ kec_busy' => At("kec_wait")'
      /\ At("kec_wait")' => kec_busy' \/ kec_done'
      /\ At("kec_read")' => ~kec_busy' /\ kec_done'
  BY <1>6 DEF EnginesServe, CallsKeccak, At
<1>8. QED
  BY <1>3, <1>5, <1>7 DEF EnginesServe
-----------------------------------------------------------------------------
(* The steps.  With frontend and firmware at rest there is nothing that    *)
(* one of them could have wrong of the other.                              *)
AtRest ==
    /\ front = Cleared /\ cpu = Boot /\ fw \in Mailbox
    /\ ~fw.claim /\ ~fw.we /\ ~fw.complete

RestMeans ==
    /\ front \in FrontRegisters
    /\ cpu \in Processor /\ cpu.index < LoopSize(cpu.pc)
    /\ Pulses /\ ServedOnce /\ Outcome /\ VerdictHonest
    /\ OutputComplete /\ Loaded

(* At rest nothing can be wrong,                                           *)
LEMMA Rested == AtRest => RestMeans
<1> SUFFICES ASSUME AtRest PROVE RestMeans
  OBVIOUS
<1>1. /\ front = Cleared /\ cpu = Boot
      /\ ~fw.claim /\ ~fw.we /\ ~fw.complete
  BY DEF AtRest
<1>2. front \in FrontRegisters
  BY <1>1, ClearedTypes
<1>3. /\ cpu.pc = "poll" /\ cpu.index = 0 /\ cpu \in Processor
      /\ LoopSize(cpu.pc) = 1
  <2>1. 0 \in 0 .. CALLS
    BY Sizes
  <2>2. /\ cpu.pc = "poll" /\ cpu.index = 0 /\ cpu \in Processor
    BY <1>1, <2>1 DEF Boot, Processor, Labels, FrontCommands, Codes
  <2>3. QED
    BY <2>2 DEF LoopSize
<1>4. /\ ~front.busy /\ ~front.pending /\ front.in = NoInput
      /\ ~front.result.verify_valid /\ ~front.out.active
  BY <1>1 DEF Cleared, NoResult, NoOutput
<1>5. Pulses /\ ServedOnce /\ Outcome /\ VerdictHonest /\ OutputComplete
  BY <1>1, <1>3, <1>4
     DEF Pulses, ServedOnce, Outcome, VerdictHonest, OutputComplete, At
<1>6. Loaded
  BY <1>4, EmptyLoaded DEF Loaded
<1>7. QED
  BY <1>2, <1>3, <1>5, <1>6 DEF RestMeans

(* whichever state rests.                                                  *)
LEMMA RestedNext == AtRest' => RestMeans'
  BY Rested, PTL

(* A mailbox that carries no pulse.                                        *)
NoPulse(m) == m \in Mailbox /\ ~m.claim /\ ~m.we /\ ~m.complete

(* The mailbox of a reset chip.                                            *)
LEMMA ResetMailbox == NoPulse(NoFw)
<1>1. 0 \in ResultIndex
  BY SMT, Sizes DEF ResultIndex
<1>2. QED
  BY <1>1 DEF NoFw, Mailbox, Codes, NoPulse

(* The mailbox after an edge of a scrub.                                   *)
LEMMA WipedMailbox ==
    ASSUME fw \in Mailbox
    PROVE  NoPulse(PulsesOff) /\ NoPulse([PulsesOff EXCEPT !.len = 0])
  BY DEF PulsesOff, Mailbox, NoPulse

(* An edge on which the firmware runs.                                     *)
LEMMA RunStep ==
    ASSUME Inv, NEW io \in IO, Runs(io)
    PROVE  Inv'
<1>1. PICK bus : Run(io, bus) /\ Program(bus)
  BY DEF Runs
<1>2. /\ ~zeroize_frontend(io) /\ ~zeroize_active /\ ~zeroize_active'
      /\ scrub_addr' = scrub_addr
      /\ entropy_word_valid' = EntropyOffered(io)
      /\ zeroize_active' = zeroize_active
  BY <1>1 DEF Run, zeroize_frontend
<1>3. Service /\ Loaded /\ NttSafe /\ KeccakInv /\ EnginesServe
  BY DEF Inv, Service, NttSafe
<1>4. ServiceKept
  BY <1>1, <1>3, ServiceStep
<1>5. sram' \in Memory /\ Loaded' /\ front' \in FrontRegisters
  BY <1>1, <1>3, LoadedStep
<1>6. Registers
  BY <1>3 DEF Service
<1>7. Mails(bus)
  BY <1>1, <1>6, ProgramFits, MailboxIs DEF Registers, Run
<1>8. CallsNtt(bus) /\ CallsKeccak(bus)
  BY <1>1, <1>6, EngineCalls
<1>9. EngineInputs(zeroize_frontend(io), bus)
  BY <1>1, <1>3, <1>6, <1>8, EnginesOnEdge DEF Run
<1>10. EngineInputs(FALSE, bus)
  <2>1. zeroize_frontend(io) = FALSE
    BY <1>2 DEF zeroize_frontend, zeroize_trigger
  <2>2. QED
    BY <1>9, <2>1
<1>11. EnginesServe'
  BY <1>2, <1>3, <1>8, <1>10, ServeStep
<1>12. NttSafe' /\ KeccakInv'
  BY <1>10 DEF EngineInputs, NttMoves, KeccakMoves
<1>13. entropy_word_valid' \in BOOLEAN
  BY <1>2, <1>6 DEF EntropyOffered, Registers
<1>14. Registers'
  BY <1>1, <1>2, <1>5, <1>6, <1>7, <1>13
     DEF Registers, Memory, Mails, Program
<1>15. Wiping'
  BY <1>2 DEF Wiping
<1>16. QED
  BY <1>4, <1>5, <1>11, <1>12, <1>14, <1>15 DEF Inv, NttSafe, ServiceKept
(* A trigger: everything but the memories is at rest, the engines clear.   *)
LEMMA BeginStep ==
    ASSUME Inv, NEW io \in IO, BeginZeroize(io)
    PROVE  Inv'
<1>1. /\ ~zeroize_active /\ zeroize_active' = TRUE /\ scrub_addr' = 0
      /\ entropy_word_valid' = FALSE /\ sram' = sram
      /\ fw' = [PulsesOff EXCEPT !.len = 0] /\ cpu' = Boot
      /\ Engines(io, NoBus) /\ FrontStep(io)
  BY DEF BeginZeroize
<1>2. zeroize_frontend(io) = TRUE
  BY DEF BeginZeroize, zeroize_frontend, zeroize_trigger
<1>3. Registers /\ NttSafe /\ KeccakInv /\ EnginesServe
  BY DEF Inv, NttSafe
<1>4. front' = Cleared
  BY <1>1, <1>2 DEF FrontStep, FrontEdge
<1>5. AtRest' /\ fw' \in Mailbox
  BY <1>1, <1>3, <1>4, WipedMailbox DEF Registers, NoPulse, AtRest
<1>6. RestMeans'
  BY <1>5, RestedNext
<1>7. EngineInputs(TRUE, NoBus)
  BY <1>1, <1>2, <1>3, EnginesOnEdge
<1>8. /\ NttSafe' /\ KeccakInv' /\ kec_busy' = FALSE /\ lanes' = "clear"
  BY <1>7 DEF EngineInputs, NttMoves, KeccakMoves
<1>9. /\ ntt_zeroize_seen'
      /\ \/ ntt_state' = "ZEROIZE" /\ zeroize_index' = 0
         \/ ntt_state' = "IDLE" /\ AllClear'
  <2>1. CASE NL!Interrupted(TRUE)
    BY <2>1 DEF NL!Interrupted
  <2>2. CASE NL!NttLatch(TRUE) /\ NL!Follows(TRUE, NoBus.target = "ntt_start")
    <3>1. ntt_zeroize_seen /\ ntt_zeroize_seen'
      BY <2>2 DEF NL!NttLatch
    <3>2. ntt_state = "IDLE" /\ AllClear
      BY <1>1, <1>3, <3>1 DEF EnginesServe
    <3>3. ntt_state' = "IDLE"
      BY <2>2, <3>2 DEF NL!Follows
    <3>4. ~HostPort(NoBus, "ntt_coeff").we
      BY DEF HostPort, NoBus
    <3>5. AllClear'
      BY <1>7, <3>2, <3>4 DEF EngineInputs, NttMoves
    <3>6. QED
      BY <3>1, <3>3, <3>5
  <2>3. QED
    BY <1>7, <2>1, <2>2 DEF EngineInputs, NttMoves
<1>10. 0 \in 0 .. (SRAM_WORDS - 1)
  BY SMT, Sizes
<1>11. Registers'
  BY <1>1, <1>3, <1>5, <1>6, <1>10 DEF Registers, RestMeans
<1>12. cpu'.pc = "poll"
  BY <1>1 DEF Boot
<1>13. EnginesServe'
  BY <1>1, <1>8, <1>9, <1>12 DEF EnginesServe, At
<1>14. Wiping'
  <2>1. \A a \in 0 .. (scrub_addr' - 1) : sram'[a] = "clear"
    BY <1>1
  <2>2. QED
    BY <1>1, <1>4, <1>5, <1>8, <1>9, <2>1 DEF Wiping, AtRest
<1>15. QED
  BY <1>6, <1>8, <1>11, <1>13, <1>14 DEF Inv, NttSafe, RestMeans

(* An edge of the scrub.  The one of the NTT engine ends first, so the     *)
(* last edge leaves nothing.                                               *)
LEMMA ScrubStep ==
    ASSUME Inv, NEW io \in IO, Scrub(io)
    PROVE  Inv' /\ (~zeroize_active' => Clean')
<1>1. /\ zeroize_active /\ fw' = PulsesOff /\ cpu' = Boot
      /\ sram' = [sram EXCEPT ![scrub_addr] = "clear"]
      /\ zeroize_active' = ~LastWord
      /\ scrub_addr' = IF LastWord THEN 0 ELSE scrub_addr + 1
      /\ entropy_word_valid' = EntropyOffered(io)
      /\ Engines(io, NoBus) /\ FrontStep(io)
  BY DEF Scrub
<1>2. zeroize_frontend(io) = TRUE
  BY <1>1 DEF zeroize_frontend, zeroize_trigger, Inv, Registers
<1>3. Registers /\ NttSafe /\ KeccakInv /\ EnginesServe
  BY DEF Inv, NttSafe
<1>4. /\ ~entropy_word_valid /\ ntt_zeroize_seen
      /\ \A a \in 0 .. (scrub_addr - 1) : sram[a] = "clear"
      /\ \/ ntt_state = "ZEROIZE" /\ zeroize_index = scrub_addr
         \/ ntt_state = "IDLE" /\ AllClear
  BY <1>1 DEF Inv, Wiping
<1>5. front' = Cleared /\ entropy_word_valid' = FALSE
  BY <1>1, <1>2, <1>3, <1>4
     DEF FrontStep, FrontEdge, EntropyOffered, Registers
<1>6. AtRest' /\ fw' \in Mailbox
  BY <1>1, <1>3, <1>5, WipedMailbox DEF Registers, NoPulse, AtRest
<1>7. RestMeans'
  BY <1>6, RestedNext
<1>8. EngineInputs(TRUE, NoBus)
  BY <1>1, <1>2, <1>3, EnginesOnEdge
<1>9. NttSafe' /\ KeccakInv' /\ kec_busy' = FALSE /\ lanes' = "clear"
  BY <1>8 DEF EngineInputs, NttMoves, KeccakMoves
<1>10. /\ scrub_addr \in 0 .. (SRAM_WORDS - 1)
       /\ SRAM_WORDS \in Nat /\ SRAM_WORDS > NTT_WORDS /\ NTT_WORDS \in Nat
  BY <1>3, Sizes DEF Registers
<1>11. /\ ntt_zeroize_seen'
       /\ \/ /\ ntt_state' = "ZEROIZE" /\ zeroize_index' = scrub_addr + 1
             /\ ~LastWord
          \/ ntt_state' = "IDLE" /\ AllClear'
  <2>1. NL!NttLatch(TRUE) /\ NL!Follows(TRUE, NoBus.target = "ntt_start")
    BY <1>4, <1>8 DEF EngineInputs, NttMoves, NL!Interrupted
  <2>2. ntt_zeroize_seen'
    BY <2>1 DEF NL!NttLatch
  <2>3. CASE ntt_state = "ZEROIZE" /\ zeroize_index = scrub_addr
    <3>1. zeroize_index \in 0 .. (NTT_WORDS - 1)
      BY <1>3, SameBanks, Sizes DEF NttSafe, NL!EngineInv, NL!Ranges
    <3>2. ~LastWord
      BY SMT, <1>10, <2>3, <3>1 DEF LastWord
    <3>3. \/ ntt_state' = "IDLE"
          \/ ntt_state' = "ZEROIZE" /\ zeroize_index' = scrub_addr + 1
      BY <2>1, <2>3 DEF NL!Follows
    <3>4. ntt_state' = "IDLE" => AllClear'
      BY <1>8, <2>3 DEF EngineInputs, NttMoves
    <3>5. QED
      BY <2>2, <3>2, <3>3, <3>4
  <2>4. CASE ntt_state = "IDLE" /\ AllClear
    <3>1. ntt_state' = "IDLE"
      BY <2>1, <2>4 DEF NL!Follows
    <3>2. ~HostPort(NoBus, "ntt_coeff").we
      BY DEF HostPort, NoBus
    <3>3. AllClear'
      BY <1>8, <2>4, <3>2 DEF EngineInputs, NttMoves
    <3>4. QED
      BY <2>2, <3>1, <3>3
  <2>5. QED
    BY <1>4, <2>3, <2>4
<1>12. sram' \in Memory /\ \A a \in 0 .. scrub_addr : sram'[a] = "clear"
  <2>1. sram \in Memory
    BY <1>3 DEF Registers, Memory
  <2>2. \A a \in 0 .. (SRAM_WORDS - 1) :
            sram'[a] = IF a = scrub_addr THEN "clear" ELSE sram[a]
    BY <1>1, <1>10, <2>1 DEF Memory
  <2>3. sram' \in Memory
    BY <1>1, <1>10, <2>1 DEF Memory, Taint
  <2>4. ASSUME NEW a \in 0 .. scrub_addr PROVE sram'[a] = "clear"
    <3>1. /\ a \in 0 .. (SRAM_WORDS - 1)
          /\ a = scrub_addr \/ a \in 0 .. (scrub_addr - 1)
      BY SMT, <1>10
    <3>2. QED
      BY <1>4, <2>2, <3>1
  <2>5. QED
    BY <2>3, <2>4
<1>13. Registers'
  <2>1. scrub_addr' \in 0 .. (SRAM_WORDS - 1)
    BY SMT, <1>1, <1>10 DEF LastWord
  <2>2. zeroize_active' \in BOOLEAN
    BY <1>1 DEF LastWord
  <2>3. QED
    BY <1>5, <1>6, <1>7, <1>12, <2>1, <2>2 DEF Registers, RestMeans, Memory
<1>14. cpu'.pc = "poll"
  BY <1>1 DEF Boot
<1>15. EnginesServe'
  BY <1>1, <1>9, <1>11, <1>14 DEF EnginesServe, At
<1>16. Wiping'
  <2>1. SUFFICES ASSUME ~LastWord PROVE Wiping'
    BY <1>1 DEF Wiping
  <2>2. \A a \in 0 .. (scrub_addr' - 1) : sram'[a] = "clear"
    BY <1>1, <1>10, <1>12, <2>1
  <2>3. QED
    BY <1>1, <1>5, <1>6, <1>9, <1>11, <2>1, <2>2 DEF Wiping, AtRest
<1>17. ~zeroize_active' => Clean'
  <2>1. SUFFICES ASSUME LastWord PROVE Clean'
    BY <1>1
  <2>2. \A a \in 0 .. (SRAM_WORDS - 1) : sram'[a] = "clear"
    BY <1>12, <2>1 DEF LastWord
  <2>3. ntt_state' = "IDLE" /\ AllClear'
    BY <1>11, <2>1
  <2>4. ~ntt_busy'
    BY <1>9, <2>3 DEF NttSafe, NL!EngineInv, NL!Control
  <2>5. QED
    BY <1>5, <1>6, <1>9, <2>2, <2>3, <2>4 DEF Clean, AllClear, AtRest
<1>18. QED
  BY <1>7, <1>9, <1>13, <1>15, <1>16, <1>17 DEF Inv, NttSafe, RestMeans
(* The chip begins, and a reset leaves it, in the invariant.               *)
LEMMA InitInv == Init => Inv
<1>1. SUFFICES ASSUME Init PROVE Inv
  OBVIOUS
<1>2. /\ front = Cleared /\ fw = NoFw /\ cpu = Boot
      /\ zeroize_active = FALSE /\ scrub_addr = 0
      /\ entropy_word_valid = FALSE
      /\ sram = [a \in 0 .. (SRAM_WORDS - 1) |-> "data"]
      /\ Ntt!NttResetState /\ Keccak!KecCleared
      /\ coeff = [b \in {0, 1} |-> [r \in Ntt!Row |-> "data"]]
  BY <1>1 DEF Init
<1>3. AtRest /\ fw \in Mailbox
  BY <1>2, ResetMailbox DEF AtRest, NoPulse
<1>4. RestMeans
  BY <1>3, Rested
<1>5. 0 \in 0 .. (SRAM_WORDS - 1) /\ 0 \in 0 .. (ROUNDS - 1)
  BY SMT, Sizes
<1>6. sram \in [0 .. (SRAM_WORDS - 1) -> Taint] /\ Coefficients
  BY <1>2 DEF Coefficients, Taint
<1>7. Registers
  BY <1>2, <1>3, <1>4, <1>5, <1>6 DEF Registers, RestMeans
<1>8. KeccakInv /\ kec_busy = FALSE
  BY <1>2, <1>5 DEF Keccak!KecCleared, KeccakInv, Taint
<1>9. /\ NL!EngineInv /\ ntt_state = "IDLE" /\ ntt_zeroize_seen = FALSE
  BY <1>2, SameReset, EngineSize, NL!EngineReset DEF Ntt!NttResetState
<1>10. NL!ScrubClears
  BY <1>9 DEF NL!ScrubClears
<1>11. EnginesServe /\ Wiping
  BY <1>2, <1>8, <1>9 DEF EnginesServe, Wiping, At, Boot
<1>12. QED
  BY <1>4, <1>6, <1>7, <1>8, <1>9, <1>10, <1>11 DEF Inv, RestMeans

(* A reset, at any time, ends in the invariant.                            *)
LEMMA ResetStep == Inv /\ Reset => Inv'
<1>1. SUFFICES ASSUME Inv, Reset PROVE Inv'
  OBVIOUS
<1>2. /\ front' = Cleared /\ fw' = NoFw /\ cpu' = Boot
      /\ zeroize_active' = FALSE /\ scrub_addr' = 0
      /\ entropy_word_valid' = FALSE /\ sram' = sram /\ coeff' = coeff
      /\ Ntt!NttReset /\ Keccak!KecClear
  BY <1>1 DEF Reset, Ntt!NttReset
<1>3. AtRest' /\ fw' \in Mailbox
  BY <1>2, ResetMailbox DEF AtRest, NoPulse
<1>4. RestMeans'
  BY <1>3, RestedNext
<1>5. 0 \in 0 .. (SRAM_WORDS - 1) /\ 0 \in 0 .. (ROUNDS - 1)
  BY SMT, Sizes
<1>6. Coefficients' /\ sram' \in [0 .. (SRAM_WORDS - 1) -> Taint]
  BY <1>1, <1>2 DEF Inv, Coefficients, Registers
<1>7. Registers'
  BY <1>2, <1>3, <1>4, <1>5, <1>6 DEF Registers, RestMeans
<1>8. KeccakInv' /\ kec_busy' = FALSE
  BY <1>2, <1>5 DEF Keccak!KecClear, KeccakInv, Taint
<1>9. /\ NL!EngineInv' /\ ntt_state' = "IDLE" /\ ntt_zeroize_seen' = FALSE
  BY <1>2, SameReset, EngineSize, NL!EngineReset DEF Ntt!NttReset
<1>10. NL!ScrubClears'
  BY <1>9 DEF NL!ScrubClears
<1>11. EnginesServe' /\ Wiping'
  BY <1>2, <1>8, <1>9 DEF EnginesServe, Wiping, At, Boot
<1>12. QED
  BY <1>4, <1>6, <1>7, <1>8, <1>9, <1>10, <1>11 DEF Inv, RestMeans

(* The invariant is kept by every edge,                                    *)
LEMMA EdgeStep ==
    ASSUME Inv, NEW io \in IO, Edge(io)
    PROVE  Inv'
  BY ProgramIs, BeginStep, ScrubStep, RunStep DEF Inv

(* by a step that changes nothing,                                         *)
LEMMA StutterInv == Inv /\ UNCHANGED vars => Inv'
<1>1. SUFFICES ASSUME Inv, UNCHANGED vars PROVE Inv'
  OBVIOUS
<1>2. /\ UNCHANGED <<front, fw, zeroize_active, scrub_addr>>
      /\ UNCHANGED <<entropy_word_valid, sram, cpu>>
      /\ UNCHANGED Ntt!nttVars /\ UNCHANGED Keccak!kecVars
  BY <1>1 DEF vars
<1>3. Registers' /\ Coefficients' /\ KeccakInv'
  BY <1>1, <1>2 DEF Inv, Registers, Coefficients, KeccakInv, Ntt!nttVars,
     Keccak!kecVars
<1>4. NL!EngineInv' /\ NL!ScrubClears'
  BY <1>1, <1>2 DEF Inv, NL!EngineInv, NL!Control, NL!Ranges, NL!Scheduled,
     NL!InLayer, NL!ScrubClears, NL!ClearedBelow, NL!coeff_read,
     Ntt!nttVars, Ntt!schedule
<1>5. Pulses' /\ ServedOnce' /\ VerdictHonest' /\ OutputComplete' /\ Loaded'
  BY <1>1, <1>2 DEF Inv, Pulses, ServedOnce, VerdictHonest, OutputComplete,
     Loaded, Serving, At
<1>6. Outcome'
  BY <1>1, <1>2 DEF Inv, Outcome, At, HasOutput, Landed
<1>7. EnginesServe' /\ Wiping'
  BY <1>1, <1>2 DEF Inv, EnginesServe, Wiping, At, AllClear, Ntt!nttVars,
     Ntt!schedule, Keccak!kecVars
<1>8. QED
  BY <1>3, <1>4, <1>5, <1>6, <1>7 DEF Inv

(* and so by every step.                                                   *)
LEMMA InvStep == Inv /\ [Next]_vars => Inv'
  BY EdgeStep, ResetStep, StutterInv DEF Next

(* The invariant holds throughout every behaviour.                         *)
LEMMA ChipInvariant == Spec => []Inv
  BY InitInv, InvStep, PTL DEF Spec

(* What follows the last reset is a behaviour of the chip, so all that is  *)
(* proved of the chip holds of it.                                         *)
LEMMA SettledIsSpec == SettledSpec => Spec
<1>1. [\E io \in IO : Edge(io)]_vars => [Next]_vars
  BY DEF Next
<1>2. QED
  BY <1>1, PTL DEF SettledSpec, Spec
-----------------------------------------------------------------------------
(* The registers of the chip hold what fits them: no count passes the      *)
(* length of its object, the processor stays within its loops, the scrub   *)
(* address within the SRAM, the schedule of the NTT engine within its      *)
(* banks (the declarations of lca_chip_top.sv and lca_host_frontend.sv).   *)
THEOREM TypeCorrect == Spec => []TypeOK
<1>1. Inv => TypeOK
  <2>1. SUFFICES ASSUME Inv PROVE TypeOK
    OBVIOUS
  <2>2. Registers /\ KeccakInv /\ Coefficients /\ NL!EngineInv /\ Loaded
    BY <2>1 DEF Inv
  <2>3. FrontTypeOK(front)
    <3>1. /\ front \in FrontRegisters /\ front.in \in InputRegisters
          /\ \A o \in Objects : front.in.count[o] <= Limit[o]
          /\ \A o \in VariableObjects : front.in.len[o] <= front.in.count[o]
      BY <2>2 DEF Registers, FrontRegisters, Loaded, LoadedIn
    <3>2. ASSUME NEW o \in VariableObjects
          PROVE  front.in.len[o] <= Limit[o]
      <4>1. /\ o \in Objects /\ front.in.len[o] \in Nat
            /\ front.in.count[o] \in Nat /\ Limit[o] \in Nat
        BY <3>1, ObjectsAssumption DEF Objects, InputRegisters
      <4>2. QED
        BY <3>1, <4>1
    <3>3. QED
      BY <3>1, <3>2 DEF FrontTypeOK
  <2>4. Ntt!NttTypeOK({"clear", "data"})
    BY <2>2, SameBanks
       DEF NL!EngineInv, NL!Control, NL!Ranges, Coefficients, Taint,
           Ntt!NttTypeOK, NL!NttCommand, Ntt!NttCommand
  <2>5. QED
    BY <2>2, <2>3, <2>4 DEF TypeOK, Registers, KeccakInv, Taint
<1>2. QED
  BY <1>1, ChipInvariant, PTL

(* BUSY is one service of one command, from the start that was accepted to *)
(* the completion the host sees: no interleaving of host writes, pulses on *)
(* the way, zeroizations and resets has a command served twice, forgotten, *)
(* or answered with the outcome of another (main.c:42-52,                  *)
(* lca_host_frontend.sv:329, 335, 380).                                    *)
THEOREM CommandsServedOnce == Spec => []ServedOnce
<1>1. Inv => ServedOnce
  BY DEF Inv
<1>2. QED
  BY <1>1, ChipInvariant, PTL

(* VERIFY_VALID is up only for a verification that the firmware decided    *)
(* and found good (lca_host_frontend.sv:335-346).                          *)
THEOREM VerdictIsHonest == Spec => []VerdictHonest
<1>1. Inv => VerdictHonest
  BY DEF Inv
<1>2. QED
  BY <1>1, ChipInvariant, PTL

(* The output stream only ever shows a complete secret, and ends at its    *)
(* last word (main.c:74-84, lca_host_frontend.sv:331-357, 405-415).        *)
THEOREM OutputIsComplete == Spec => []OutputComplete
<1>1. Inv => OutputComplete
  BY DEF Inv
<1>2. QED
  BY <1>1, ChipInvariant, PTL

(* What was taken of an object that is marked as loaded is in the SRAM:    *)
(* all of a key or ciphertext, and every word of a message or context up   *)
(* to its count, for any sizes and any beats, but for the last part of one *)
(* that the host streamed on after its end without clearing it             *)
(* (lca_host_frontend.sv:193-200, 305-328; lca_chip_top.sv:212-225).       *)
THEOREM LoadedIsInMemory == Spec => []LoadedInMemory
<1>1. Inv => LoadedInMemory
  <2>1. SUFFICES ASSUME Inv PROVE LoadedInMemory
    OBVIOUS
  <2>2. LoadedIn(front.in, sram) /\ front.in \in InputRegisters
    BY <2>1 DEF Inv, Loaded, Registers, FrontRegisters
  <2>3. front.in.torn \subseteq VariableObjects
    BY <2>2 DEF LoadedIn, FixedLoaded, InputRegisters, Objects
  <2>4. ASSUME NEW o \in Objects PROVE InMemory(o)
    <3>1. /\ Words(o, front.in, sram)
          /\ front.in.count[o] \in Nat /\ Base[o] \in Nat
      BY <2>2, MemoryMap DEF LoadedIn, InputRegisters
    <3>2. SUFFICES ASSUME NEW a \in ObjectWords(o),
                          4 * (a - Base[o]) + (IF o \in front.in.torn THEN 4 ELSE 1)
                              <= front.in.count[o]
                   PROVE  sram[a] = "data"
      BY DEF InMemory
    <3>3. a - Base[o] \in Nat /\ a \in Int
      BY <3>1, WordPlace, MemoryMap, ObjectsAssumption DEF ObjectWords
    <3>4. PICK w \in Nat : w = a - Base[o]
      BY <3>3
    <3>5. Base[o] + w = a
      BY SMT, <3>1, <3>3, <3>4
    <3>6. CASE o \in front.in.torn
      BY <3>1, <3>2, <3>4, <3>5, <3>6 DEF Words
    <3>7. CASE o \notin front.in.torn
      <4>1. 4 * w < front.in.count[o]
        BY SMT, <3>1, <3>2, <3>4, <3>7
      <4>2. QED
        BY <3>1, <3>5, <3>7, <4>1 DEF Words
    <3>8. QED
      BY <3>6, <3>7
  <2>5. front.in.loaded \subseteq Objects
    BY <2>2 DEF InputRegisters
  <2>6. QED
    BY <2>2, <2>3, <2>4, <2>5 DEF LoadedInMemory, LoadedIn, FixedLoaded
<1>2. QED
  BY <1>1, ChipInvariant, PTL

(* The firmware reads the window of an engine only after a run of its own  *)
(* has finished, whatever zeroizations and resets came between             *)
(* (mldsa_mmio.c, mlkem_mmio.c, keccakf1600_mmio.c).                       *)
THEOREM ResultsAreFresh == Spec => []FreshResults
<1>1. Inv => FreshResults
  BY DEF Inv, EnginesServe, FreshResults, At, NL!EngineInv, NL!Control
<1>2. QED
  BY <1>1, ChipInvariant, PTL

(* When a scrub ends, nothing of a command is left in the SRAM, the        *)
(* engines, the entropy register, the frontend or the mailbox pulses, for  *)
(* any sizes with an SRAM larger than the NTT banks                        *)
(* (lca_chip_top.sv:163-177, 470-482).                                     *)
THEOREM ScrubLeavesNothing == Spec => ScrubCleans
<1>1. ASSUME Inv, [Next]_vars, zeroize_active, ~zeroize_active'
      PROVE  Clean' \/ Reset
  <2>1. CASE Reset
    BY <2>1
  <2>2. CASE UNCHANGED vars
    BY <1>1, <2>2 DEF vars
  <2>3. ASSUME NEW io \in IO, Edge(io) PROVE Clean'
    <3>1. ~BeginZeroize(io) /\ ~Runs(io)
      BY <1>1 DEF BeginZeroize, Runs, Run, zeroize_frontend
    <3>2. Scrub(io)
      BY <1>1, <2>3, <3>1, ProgramIs DEF Inv
    <3>3. QED
      BY <1>1, <3>2, ScrubStep
  <2>4. QED
    BY <1>1, <2>1, <2>2, <2>3 DEF Next
<1>2. Inv /\ [Next]_vars =>
          [zeroize_active /\ ~zeroize_active' => Clean' \/ Reset]_vars
  BY <1>1
<1>3. QED
  BY <1>2, ChipInvariant, PTL DEF Spec, ScrubCleans
=============================================================================
