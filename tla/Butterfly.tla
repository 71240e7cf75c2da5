----------------------------- MODULE Butterfly ------------------------------
(***************************************************************************)
(* The Cooley-Tukey butterfly rtl/lca_butterfly.sv: it checks a request,   *)
(* hands b and the twiddle to the serial multiplier (module ModMul) and    *)
(* shows a + b*t and a - b*t, or refuses with a fault response.  One step  *)
(* is one clock edge of the butterfly and of its multiplier together.      *)
(***************************************************************************)
EXTENDS Words

CONSTANTS KEM_Q, DSA_Q      \* the two moduli a request may select

VARIABLES
    busy, count, product, multiplicand, multiplier, modulus,
    mul_rsp_valid, mul_product, mul_request, mul_pins,  \* u_modmul
    a_saved, modulus_saved, fault_pending,
    op                      \* history: the request not yet answered

Mul == INSTANCE ModMul WITH rsp_valid <- mul_rsp_valid,
                            rsp_product <- mul_product,
                            request <- mul_request,
                            pins <- mul_pins

ModulusId == 0 .. 3

ASSUME ModuliAssumption == /\ KEM_Q \in Word \ {0}
                           /\ DSA_Q \in Word \ {0}

mulVars == <<busy, count, product, multiplicand, multiplier, modulus,
             mul_rsp_valid, mul_product, mul_request, mul_pins>>
vars == <<mulVars, a_saved, modulus_saved, fault_pending, op>>

Operation == [id : ModulusId, a : Word, b : Word, t : Word]
NoOp == [id |-> 4, a |-> 0, b |-> 0, t |-> 0]     \* nothing outstanding

selected_modulus(id) == CASE id = 0 -> KEM_Q
                          [] id = 1 -> DSA_Q
                          [] OTHER  -> 0

request_validInclusive(r) ==                        \* slip: <= for <
    /\ r.id <= 1
    /\ \A x \in {r.a, r.b, r.t} : x <= selected_modulus(r.id)
request_valid(r) ==
    /\ r.id <= 1
    /\ r.a < selected_modulus(r.id)
    /\ r.b < selected_modulus(r.id)
    /\ r.t < selected_modulus(r.id)

req_ready == Mul!req_ready /\ ~fault_pending
mul_rsp_ready(rsp_ready) == rsp_ready /\ ~fault_pending

rsp_validProduct == mul_rsp_valid                   \* slip
rsp_valid == fault_pending \/ mul_rsp_valid
rsp_fault == fault_pending
rsp_a == IF fault_pending THEN 0
         ELSE add_mod(a_saved, mul_product, modulus_saved)
rsp_b == IF fault_pending THEN 0
         ELSE sub_mod(a_saved, mul_product, modulus_saved)

Init ==
    /\ Mul!Init
    /\ a_saved = 0
    /\ modulus_saved = 0
    /\ fault_pending = FALSE
    /\ op = NoOp

Reset ==
    /\ Mul!Reset
    /\ a_saved' = 0
    /\ modulus_saved' = 0
    /\ fault_pending' = FALSE
    /\ op' = NoOp

(* An edge that accepts a well-formed request: the multiplier starts too.  *)
AcceptValid(r, rsp_ready) ==
    /\ req_ready
    /\ request_valid(r)
    /\ Mul!Accept(r.b, r.t, selected_modulus(r.id), mul_rsp_ready(rsp_ready))
    /\ a_saved' = r.a
    /\ modulus_saved' = selected_modulus(r.id)
    /\ fault_pending' = (fault_pending /\ ~rsp_ready)
    /\ op' = r

(* An edge that accepts a malformed one: the multiplier sees nothing.      *)
AcceptFaultInSilence(r, rsp_ready) ==               \* slip: not remembered
    /\ req_ready
    /\ ~request_valid(r)
    /\ Mul!Rest(FALSE, mul_rsp_ready(rsp_ready))
    /\ op' = r
    /\ UNCHANGED <<a_saved, modulus_saved, fault_pending>>
AcceptFault(r, rsp_ready) ==
    /\ req_ready
    /\ ~request_valid(r)
    /\ Mul!Rest(FALSE, mul_rsp_ready(rsp_ready))
    /\ fault_pending' = TRUE
    /\ op' = r
    /\ UNCHANGED <<a_saved, modulus_saved>>

(* An edge without a new request.                                          *)
Run(rsp_ready) ==
    /\ \/ Mul!Iterate(FALSE, mul_rsp_ready(rsp_ready))
       \/ Mul!Rest(FALSE, mul_rsp_ready(rsp_ready))
    /\ fault_pending' = (fault_pending /\ ~rsp_ready)
    /\ op' = IF rsp_valid /\ rsp_ready THEN NoOp ELSE op
    /\ UNCHANGED <<a_saved, modulus_saved>>

Edge(rsp_ready) ==
    \/ /\ req_ready
       /\ \E r \in Operation :
              AcceptValid(r, rsp_ready) \/ AcceptFault(r, rsp_ready)
    \/ Run(rsp_ready)

Next == Reset \/ \E rsp_ready \in BOOLEAN : Edge(rsp_ready)

Spec == Init /\ [][Next]_vars

(* The clock runs while a multiplication is in flight.  Nothing is assumed *)
(* of the requester, of the consumer or of reset.                          *)
FairSpec == Spec /\ WF_vars(busy /\ \E rsp_ready \in BOOLEAN : Run(rsp_ready))
-----------------------------------------------------------------------------
TypeOK ==
    /\ Mul!TypeOK
    /\ a_saved \in Word
    /\ modulus_saved \in Word
    /\ fault_pending \in BOOLEAN
    /\ op \in Operation \cup {NoOp}

(* The moduli, the operands and the product a request asks for.            *)
Product(r) == (r.b * r.t) % selected_modulus(r.id)

(* The response on show answers the outstanding request: the two halves of *)
(* the butterfly modulo the selected prime when the request was well       *)
(* formed, and otherwise a fault with both words zero, never a product of  *)
(* an earlier request (lines 82-89).                                       *)
ResponseAnswersRequest ==
    rsp_valid =>
        /\ op # NoOp
        /\ rsp_fault <=> ~request_valid(op)
        /\ IF request_valid(op)
           THEN LET q == selected_modulus(op.id) IN
                /\ rsp_a = (op.a + Product(op)) % q
                /\ rsp_b = (op.a + q - Product(op)) % q
           ELSE rsp_a = 0 /\ rsp_b = 0

(* A fault response is only ever pending over an idle multiplier, so a     *)
(* refusal and a result never compete for the port (B1).                   *)
FaultExcludesMultiply == fault_pending => ~busy /\ ~mul_rsp_valid

(* A response that stays on show does not change: fault flag and words are *)
(* stable however long the consumer waits (B4).                            *)
ResponseStable ==
    [][rsp_valid /\ rsp_valid' =>
           <<rsp_fault, rsp_a, rsp_b>>' = <<rsp_fault, rsp_a, rsp_b>>]_vars

(* The response is the one model/modarith.py computes, and a refusal is    *)
(* exactly a request for which it raises ValueError, so that the corpus    *)
(* tools/gen_vectors.py writes from it is a corpus of this unit, provided  *)
(* both moduli stay below half of a word (butterfly, modarith.py 91-104,   *)
(* against lca_butterfly.sv 76-89).                                        *)
Model == INSTANCE ModArith
ModelAgrees ==
    rsp_valid =>
        LET answer == Model!butterfly(op.a, op.b, op.t, selected_modulus(op.id))
        IN  /\ rsp_fault <=> answer = Model!Rejected
            /\ ~rsp_fault => /\ answer.out_a = rsp_a
                             /\ answer.out_b = rsp_b
                             /\ answer.product = mul_product

(* The multiplier inside the butterfly keeps its contract MulServer: every *)
(* request handed to it is taken, answered exactly WORD_BITS edges later   *)
(* with the right word, and the answer is held until an edge on which the  *)
(* butterfly passes its consumer's ready on; nothing but a reset ends it   *)
(* earlier (lines 82-84, 111-122).                                         *)
MultiplierServes == Mul!ImplementsServer

(* Every accepted request, multiplied or refused, comes to have its        *)
(* response on show, unless a reset comes first: none is lost in silence.  *)
RequestAnswered == (op # NoOp) ~> (rsp_valid \/ mul_pins.reset)
=============================================================================
