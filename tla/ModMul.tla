------------------------------- MODULE ModMul -------------------------------
(***************************************************************************)
(* The serial modular multiplier rtl/lca_modmul.sv: shift-and-add over the *)
(* bits of the second operand, one bit per clock, with a valid/ready       *)
(* handshake on each side.  A step is a rising clock edge; which action it *)
(* takes depends on the registers and on the inputs sampled at that edge.  *)
(***************************************************************************)
EXTENDS Words

VARIABLES
    busy, count, product, multiplicand, multiplier, modulus,  \* lines 23-28
    rsp_valid, rsp_product,     \* the response port
    request,                    \* history: operands of the last request
    pins                        \* history: what the last edge sampled

regs == <<busy, count, product, multiplicand, multiplier, modulus,
          rsp_valid, rsp_product>>
vars == <<regs, request, pins>>

Request == [a : Word, b : Word, q : Word]

(* The handshake inputs of an edge, and the clock, which makes every edge  *)
(* a step of the history.                                                  *)
Sample(reset, req_valid, rsp_ready) ==
    pins' = [clk |-> 1 - pins.clk, reset |-> reset,
             req_valid |-> req_valid, rsp_ready |-> rsp_ready]

req_readyWhileHeld == ~busy                         \* slip
req_readyWhileBusy == ~rsp_valid                    \* slip
req_ready == ~busy /\ ~rsp_valid

(* The combinational block: one bit of the multiplier.                     *)
product_next ==
    IF multiplier % 2 = 1 THEN add_mod(product, multiplicand, modulus)
                          ELSE product
multiplicand_next == add_mod(multiplicand, multiplicand, modulus)

Init ==
    /\ busy = FALSE
    /\ count = 0
    /\ product = 0
    /\ multiplicand = 0
    /\ multiplier = 0
    /\ modulus = 0
    /\ rsp_valid = FALSE
    /\ rsp_product = 0
    /\ request = [a |-> 0, b |-> 0, q |-> 0]
    /\ pins = [clk |-> 0, reset |-> TRUE, req_valid |-> FALSE, rsp_ready |-> FALSE]

(* rst_n low: every register goes back to its initial value, and no other  *)
(* input is looked at.                                                     *)
Reset ==
    /\ busy' = FALSE
    /\ count' = 0
    /\ product' = 0
    /\ multiplicand' = 0
    /\ multiplier' = 0
    /\ modulus' = 0
    /\ rsp_valid' = FALSE
    /\ rsp_product' = 0
    /\ Sample(TRUE, FALSE, FALSE)
    /\ UNCHANGED request

(* A response leaves when the consumer is ready; this is evaluated on      *)
(* every edge, before the rest of the block may set rsp_valid again.       *)
RspHeldOneEdge(rsp_ready) == FALSE                  \* slip
RspHeld(rsp_ready) == rsp_valid /\ ~rsp_ready

(* req_valid && req_ready: the operands are loaded.                        *)
Accept(a, b, q, rsp_ready) ==
    /\ req_ready
    /\ busy' = TRUE
    /\ count' = 0
    /\ product' = 0
    /\ multiplicand' = a
    /\ multiplier' = b
    /\ modulus' = q
    /\ rsp_valid' = RspHeld(rsp_ready)
    /\ UNCHANGED rsp_product
    /\ request' = [a |-> a, b |-> b, q |-> q]
    /\ Sample(FALSE, TRUE, rsp_ready)

(* A busy edge consumes one multiplier bit; the last one answers.          *)
Iterate(req_valid, rsp_ready) ==
    /\ busy
    /\ Sample(FALSE, req_valid, rsp_ready)
    /\ product' = product_next
    /\ multiplicand' = multiplicand_next
    /\ multiplier' = multiplier \div 2
    /\ IF count = WORD_BITS - 1
       THEN /\ busy' = FALSE
            /\ rsp_valid' = TRUE
            /\ rsp_product' = product_next
            /\ UNCHANGED count
       ELSE /\ count' = count + 1
            /\ rsp_valid' = RspHeld(rsp_ready)
            /\ UNCHANGED <<busy, rsp_product>>
    /\ UNCHANGED <<modulus, request>>

(* No request accepted and nothing in flight.                              *)
Rest(req_valid, rsp_ready) ==
    /\ ~busy
    /\ ~(req_valid /\ req_ready)
    /\ Sample(FALSE, req_valid, rsp_ready)
    /\ rsp_valid' = RspHeld(rsp_ready)
    /\ UNCHANGED <<busy, count, product, multiplicand, multiplier, modulus,
                   rsp_product, request>>

Edge == \E req_valid, rsp_ready \in BOOLEAN :
            \/ req_valid /\ \E a, b, q \in Word : Accept(a, b, q, rsp_ready)
            \/ Iterate(req_valid, rsp_ready)
            \/ Rest(req_valid, rsp_ready)

Next == Reset \/ Edge

Spec == Init /\ [][Next]_vars
-----------------------------------------------------------------------------
TypeOK ==
    /\ busy \in BOOLEAN
    /\ count \in 0 .. (WORD_BITS - 1)
    /\ product \in Word
    /\ multiplicand \in Word
    /\ multiplier \in Word
    /\ modulus \in Word
    /\ rsp_valid \in BOOLEAN
    /\ rsp_product \in Word
    /\ request \in Request
    /\ pins \in [clk : {0, 1}, reset : BOOLEAN,
                 req_valid : BOOLEAN, rsp_ready : BOOLEAN]

(* A request within the precondition of the algorithm: the first operand   *)
(* is reduced (the second may be any word).                                *)
Reduced == request.a < request.q

(* While the multiplier works on a reduced request, the partial product    *)
(* and the multiplicand stay reduced, the bits that are left fit in the    *)
(* iterations that are left, and the part done plus the part to do is the  *)
(* requested product up to a multiple of the modulus (lines 50-89).        *)
WorkInvariant ==
    busy =>
        /\ modulus = request.q
        /\ multiplier < 2^(WORD_BITS - count)
        /\ Reduced =>
            /\ product < modulus
            /\ multiplicand < modulus
            /\ \E k \in 0 .. (request.a * request.b) :
                 product + multiplicand * multiplier + k * modulus
                     = request.a * request.b

(* A waiting response is the residue of the product of the operands it     *)
(* was requested for, even when they sat at the modulus boundary or the    *)
(* second one was not reduced (rsp_product, line 84).                      *)
ResponseCorrect ==
    rsp_valid /\ Reduced =>
        rsp_product = (request.a * request.b) % request.q

(* Nothing is accepted while a response waits: the two halves of the       *)
(* handshake exclude each other (invariant I1 of the FORMAL block).        *)
OneAtATime == ~(busy /\ rsp_valid)

(* The multiplier implements the abstract server: a request made to an     *)
(* idle unit is taken, its answer is right, comes exactly WORD_BITS edges  *)
(* later whatever the data, and stays until the edge that finds the        *)
(* consumer ready; only a reset cancels (lines 57-91).                     *)
Server == INSTANCE MulServer WITH
    LATENCY  <- WORD_BITS,
    phase    <- IF busy THEN "working"
                ELSE IF rsp_valid THEN "answered" ELSE "idle",
    left     <- IF busy THEN WORD_BITS - count ELSE WORD_BITS,
    operands <- request,
    answer   <- rsp_product
ImplementsServer == Server!Spec
=============================================================================
