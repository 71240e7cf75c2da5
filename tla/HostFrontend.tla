---------------------------- MODULE HostFrontend ----------------------------
(***************************************************************************)
(* The host interface of the full chip, rtl/lca_host_frontend.sv: APB      *)
(* registers, the tagged input stream, command launch and completion, and  *)
(* the output stream.                                                      *)
(*                                                                         *)
(* Its registers are one record.  The clocked process assigns them from a  *)
(* chain of independent statements, so a step is a chain of operators      *)
(* (f, n): f holds the registers before the edge, which every statement    *)
(* reads, and n what the statements before it have assigned.               *)
(***************************************************************************)
EXTENDS Integers

CONSTANTS
    FixedObjects,           \* objects of exact length (pk, sig, dk, ct)
    VariableObjects,        \* objects of bounded length (message, context)
    Limit,                  \* length of each object, or its bound, in bytes
    VerifyObjects,          \* what VERIFY requires (lines 373-374)
    DecapsObjects,          \* what DECAPS requires (lines 375-376)
    RESULT_WORDS            \* words of a result (8)

Objects == FixedObjects \cup VariableObjects
ASSUME ObjectsAssumption ==
    /\ FixedObjects \cap VariableObjects = {}
    /\ \A o \in Objects : Limit[o] \in Nat
    /\ RESULT_WORDS \in Nat \ {0}

Codes == {"OK", "INVALID_SIGNATURE", "BAD_COMMAND", "INPUT_LENGTH", "BUSY",
          "INTERNAL", "SELF_TEST"}
ErrorCodes == Codes \ {"OK", "INVALID_SIGNATURE"}       \* 0x80 and above
FrontCommands == {"NONE", "VERIFY", "DECAPS", "SELF_TEST", "OTHER"}
ControlBits == {"start", "ack", "clear", "zeroize"}
ResultIndex == 0 .. (RESULT_WORDS - 1)

NoWords == [i \in ResultIndex |-> "clear"]
NoInput == [count         |-> [o \in Objects |-> 0],
            len           |-> [o \in VariableObjects |-> 0],
            loaded        |-> VariableObjects,  \* empty ones are valid
            ingress_error |-> FALSE,
            torn          |-> {}]
NoResult == [done |-> FALSE, error |-> FALSE, verify_valid |-> FALSE,
             code |-> "OK", len |-> 0, words |-> NoWords]
NoOutput == [active |-> FALSE, index |-> 0, left |-> 0]

(* in.torn is history, not a register: the objects that were streamed on   *)
(* after they had ended inside a word.  command is command_o, which        *)
(* active_command copies.                                                  *)
Cleared == [command_reg |-> "NONE", command |-> "NONE", pending |-> FALSE,
            busy |-> FALSE, zeroize_req |-> FALSE,
            in |-> NoInput, result |-> NoResult, out |-> NoOutput]
-----------------------------------------------------------------------------
(* One beat of the input stream: [object, bytes, last]; bytes = 0 stands   *)
(* for a mask that is empty or not contiguous.                             *)
s_ready(f, zeroize) == ~zeroize /\ ~f.busy

keep_valid(beat) == beat.bytes > 0 /\ (~beat.last => beat.bytes = 4)
next_count(f, beat) == f.in.count[beat.object] + beat.bytes

dma_we(f, beat) == keep_valid(beat) /\ next_count(f, beat) <= Limit[beat.object]

BeatWrong(f, beat) ==
    LET limit == Limit[beat.object]
        next  == next_count(f, beat)
    IN  \/ ~keep_valid(beat)
        \/ next > limit
        \/ beat.object \in FixedObjects /\ beat.last /\ next # limit
        \/ beat.object \in FixedObjects /\ ~beat.last /\ next >= limit

Streamed(f, n, beat) ==
    LET o == beat.object
        loaded == IF beat.last THEN n.in.loaded \cup {o}
                  ELSE IF f.in.count[o] = 0 THEN n.in.loaded \ {o}
                  ELSE n.in.loaded
        len == IF beat.last /\ o \in VariableObjects
               THEN [n.in.len EXCEPT ![o] = next_count(f, beat)] ELSE n.in.len
        torn == IF f.in.count[o] % 4 # 0 THEN n.in.torn \cup {o}
                ELSE n.in.torn
    IN  IF BeatWrong(f, beat)
        THEN [n EXCEPT !.in = [n.in EXCEPT !.ingress_error = TRUE,
                                           !.loaded = n.in.loaded \ {o}]]
        ELSE [n EXCEPT !.in = [n.in EXCEPT
                !.count = [n.in.count EXCEPT ![o] = next_count(f, beat)],
                !.loaded = loaded, !.len = len, !.torn = torn]]

(* The firmware's side: fw is [claim, we, index, data, complete, code,     *)
(* len], the registers of the chip top.                                    *)
Claimed(f, n, fw) == IF fw.claim THEN [n EXCEPT !.pending = FALSE] ELSE n

WordStored(f, n, fw) ==
    IF fw.we
    THEN LET words == [n.result.words EXCEPT ![fw.index] = fw.data]
         IN  [n EXCEPT !.result = [n.result EXCEPT !.words = words]]
    ELSE n

CompletedAnyCommand(f, n, fw) ==                    \* slip: any OK verifies
    IF fw.complete /\ f.busy
    THEN [n EXCEPT !.busy = FALSE,
                   !.result = [@ EXCEPT
                       !.done = TRUE, !.code = fw.code, !.len = fw.len,
                       !.error = fw.code \in ErrorCodes,
                       !.verify_valid = fw.code = "OK"],
                   !.out = [active |-> fw.len # 0 /\ fw.len <= 4 * RESULT_WORDS,
                            index |-> 0, left |-> fw.len]]
    ELSE n
CompletedIfPending(f, n, fw) ==                     \* slip: wrong flag
    IF fw.complete /\ f.pending
    THEN [n EXCEPT !.busy = FALSE, !.result = [@ EXCEPT !.done = TRUE]] ELSE n
Completed(f, n, fw) ==
    IF fw.complete /\ f.busy
    THEN [n EXCEPT !.busy = FALSE,
                   !.result = [@ EXCEPT
                       !.done = TRUE, !.code = fw.code, !.len = fw.len,
                       !.error = fw.code \in ErrorCodes,
                       !.verify_valid = f.command = "VERIFY" /\ fw.code = "OK"],
                   !.out = [active |-> fw.len # 0 /\ fw.len <= 4 * RESULT_WORDS,
                            index |-> 0, left |-> fw.len]]
    ELSE n

(* One beat of the output stream.                                          *)
Popped(f, n, m_ready) ==
    IF ~(f.out.active /\ m_ready) THEN n
    ELSE IF f.out.left <= 4
    THEN [n EXCEPT !.out = [@ EXCEPT !.active = FALSE, !.left = 0]]
    ELSE [n EXCEPT !.out = [@ EXCEPT !.index = f.out.index + 1,
                                     !.left = f.out.left - 4]]
-----------------------------------------------------------------------------
(* An APB write to CONTROL, as the set of its bits.                        *)
Required(cmd) == CASE cmd = "VERIFY" -> VerifyObjects
                   [] cmd = "DECAPS" -> DecapsObjects
                   [] OTHER          -> {}

RefusedWhilePending(f) ==                           \* slip: BUSY not checked
    IF f.pending THEN "BUSY"
    ELSE IF f.command_reg \in {"NONE", "OTHER"} THEN "BAD_COMMAND"
    ELSE "OK"
RefusedWith(f) ==
    IF f.busy \/ f.pending THEN "BUSY"
    ELSE IF f.in.ingress_error \/ ~(Required(f.command_reg) \subseteq f.in.loaded)
    THEN "INPUT_LENGTH"
    ELSE IF f.command_reg \in {"NONE", "OTHER"} THEN "BAD_COMMAND"
    ELSE "OK"

Started(f, n, bits) ==
    IF "start" \notin bits THEN n
    ELSE IF RefusedWith(f) # "OK"
    THEN [n EXCEPT !.result = [@ EXCEPT !.done = TRUE, !.error = TRUE,
                                        !.code = RefusedWith(f)]]
    ELSE [n EXCEPT !.command = f.command_reg, !.pending = TRUE, !.busy = TRUE,
                   !.result = NoResult, !.out = NoOutput]

AcknowledgedAlways(f, n, bits) ==                   \* slip: while busy too
    IF "ack" \in bits
    THEN [n EXCEPT !.result = NoResult,
                   !.out = [@ EXCEPT !.active = FALSE, !.left = 0]]
    ELSE n
Acknowledged(f, n, bits) ==
    IF "ack" \in bits /\ ~f.busy
    THEN [n EXCEPT !.result = NoResult,
                   !.out = [@ EXCEPT !.active = FALSE, !.left = 0]]
    ELSE n

InputsCleared(f, n, bits) ==
    IF "clear" \in bits /\ ~f.busy THEN [n EXCEPT !.in = NoInput] ELSE n

ZeroizeAsked(f, n, bits) ==
    IF "zeroize" \in bits THEN [n EXCEPT !.zeroize_req = TRUE] ELSE n

(* apb is [reg |-> "NONE"], a COMMAND write or a CONTROL write.            *)
Written(f, n, apb) ==
    CASE apb.reg = "NONE"    -> n
      [] apb.reg = "COMMAND" -> [n EXCEPT !.command_reg = apb.value]
      [] apb.reg = "CONTROL" ->
            ZeroizeAsked(f, InputsCleared(f, Acknowledged(f,
                Started(f, n, apb.bits), apb.bits), apb.bits), apb.bits)

NoBeat == [object |-> "none", bytes |-> 0, last |-> FALSE]

(* One clock edge.  A beat is only given when s_ready holds.               *)
FrontEdge(f, zeroize, beat, apb, m_ready, fw) ==
    LET f0 == [f EXCEPT !.zeroize_req = FALSE]
        f1 == IF beat = NoBeat THEN f0 ELSE Streamed(f, f0, beat)
        f2 == Completed(f, WordStored(f, Claimed(f, f1, fw), fw), fw)
        f3 == Written(f, Popped(f, f2, m_ready), apb)
    IN  IF zeroize THEN Cleared ELSE f3

(* The values of the input pins, of the pulses of the firmware and of the  *)
(* registers.                                                              *)
Beats == [object : Objects, bytes : 0 .. 4, last : BOOLEAN]
ApbWrites ==
    [reg : {"NONE"}]
        \cup [reg : {"COMMAND"}, value : FrontCommands]
        \cup [reg : {"CONTROL"}, bits : SUBSET ControlBits]
Mailbox ==
    [claim : BOOLEAN, we : BOOLEAN, index : ResultIndex,
     data : {"clear", "data"}, complete : BOOLEAN, code : Codes,
     len : {0, 4 * RESULT_WORDS}]

InputRegisters ==
    [count : [Objects -> Nat], len : [VariableObjects -> Nat],
     loaded : SUBSET Objects, ingress_error : BOOLEAN, torn : SUBSET Objects]
ResultRegisters ==
    [done : BOOLEAN, error : BOOLEAN, verify_valid : BOOLEAN, code : Codes,
     len : {0, 4 * RESULT_WORDS}, words : [ResultIndex -> {"clear", "data"}]]
OutputRegisters ==
    [active : BOOLEAN, index : ResultIndex, left : 0 .. 4 * RESULT_WORDS]
FrontRegisters ==
    [command_reg : FrontCommands, command : FrontCommands,
     pending : BOOLEAN, busy : BOOLEAN, zeroize_req : BOOLEAN,
     in : InputRegisters, result : ResultRegisters, out : OutputRegisters]

FrontTypeOK(f) ==
    /\ f \in FrontRegisters
    /\ \A o \in Objects : f.in.count[o] <= Limit[o]
    /\ \A o \in VariableObjects : f.in.len[o] <= Limit[o]
=============================================================================
