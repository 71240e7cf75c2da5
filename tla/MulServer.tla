----------------------------- MODULE MulServer ------------------------------
(***************************************************************************)
(* What the serial multiplier promises: one request at a time, answered    *)
(* exactly LATENCY clock edges after it was taken whatever the operands,   *)
(* with the residue of the product when the first operand is reduced.  A   *)
(* request made while the server is idle is taken, an answer stays until   *)
(* the edge on which its consumer is ready, and nothing but a reset        *)
(* cancels what is going on.                                               *)
(***************************************************************************)
EXTENDS Integers

CONSTANTS Word, LATENCY

VARIABLES
    phase,      \* "idle", "working" or "answered"
    left,       \* edges left before the answer, while working
    operands,   \* the request being worked on, or answered
    answer,     \* the word shown while answered
    pins        \* what the last edge sampled

serverVars == <<phase, left, operands, answer, pins>>

Pins == [clk : {0, 1}, reset : BOOLEAN, req_valid : BOOLEAN, rsp_ready : BOOLEAN]

(* A request outside the precondition of the algorithm (its first operand  *)
(* not reduced) is answered too, with some word.                           *)
Admissible(r, w) == r.a < r.q => w = (r.a * r.b) % r.q

Init ==
    /\ phase = "idle"
    /\ left = LATENCY
    /\ operands \in [a : Word, b : Word, q : Word]
    /\ answer \in Word
    /\ pins \in Pins

Rest ==
    /\ phase = "idle"
    /\ ~pins'.req_valid
    /\ UNCHANGED <<phase, left, operands, answer>>

Take ==
    /\ phase = "idle"
    /\ pins'.req_valid
    /\ phase' = "working"
    /\ left' = LATENCY
    /\ operands' \in [a : Word, b : Word, q : Word]
    /\ UNCHANGED answer

Work ==
    /\ phase = "working"
    /\ left > 1
    /\ left' = left - 1
    /\ UNCHANGED <<phase, operands, answer>>

Answer ==
    /\ phase = "working"
    /\ left = 1
    /\ phase' = "answered"
    /\ left' = LATENCY
    /\ answer' \in Word
    /\ Admissible(operands, answer')
    /\ UNCHANGED operands

Hold ==
    /\ phase = "answered"
    /\ ~pins'.rsp_ready
    /\ UNCHANGED <<phase, left, operands, answer>>

Consume ==
    /\ phase = "answered"
    /\ pins'.rsp_ready
    /\ phase' = "idle"
    /\ UNCHANGED <<left, operands, answer>>

Cancel ==
    /\ phase' = "idle"
    /\ left' = LATENCY
    /\ answer' \in Word
    /\ UNCHANGED operands

(* One clock edge: what happens is decided by the inputs it samples.       *)
Next ==
    /\ pins' \in Pins
    /\ pins'.clk = 1 - pins.clk
    /\ IF pins'.reset THEN Cancel
       ELSE Rest \/ Take \/ Work \/ Answer \/ Hold \/ Consume

Spec == Init /\ [][Next]_serverVars
=============================================================================
