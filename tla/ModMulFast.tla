----------------------------- MODULE ModMulFast -----------------------------
(***************************************************************************)
(* The pipelined multiplier rtl/lca_modmul_fast.sv: branch-free reduction  *)
(* for the two production moduli in three registered stages.  A step is a  *)
(* rising clock edge.  Slices of a signal are remainders; the width of the *)
(* 48-bit ML-DSA path is left out, FastProofs showing that its values stay *)
(* below 2^46 (lemma FoldRange).                                           *)
(***************************************************************************)
EXTENDS Integers, Sequences

CONSTANT Requests       \* the requests a requester may put on the port

ASSUME RequestsAssumption ==
    \A r \in Requests : /\ r \in [id : 0 .. 3, a : Nat, b : Nat]
                        /\ r.a < 16777216 /\ r.b < 16777216

VARIABLES
    stage1_valid, stage1_fault, stage1_kem, stage1_product,
    stage2_valid, stage2_fault, stage2_kem, stage2_data,
    rsp_valid, rsp_fault, rsp_product,
    pending     \* history: requests taken and not yet answered, in order

vars == <<stage1_valid, stage1_fault, stage1_kem, stage1_product,
          stage2_valid, stage2_fault, stage2_kem, stage2_data,
          rsp_valid, rsp_fault, rsp_product, pending>>

KEM_Q == 3329
DSA_Q == 8380417

kred(v) == 13 * (v % 256) - (v \div 256)

CondSub(v, q) == IF v - q < 0 THEN v ELSE v - q

kem_normalizeOnce(v) == CondSub(v + KEM_Q, KEM_Q)   \* slip: one subtract
kem_normalize(v) == CondSub(CondSub(v + KEM_Q, KEM_Q), KEM_Q)

kred2_norm(v) == kem_normalize(kred(kred(v)))

dsa_fold(v) == (v % 8388608) + (v \div 8388608) * 8192 - (v \div 8388608)

dsa_final(v) == CondSub(v, DSA_Q)

(* Stage A: a bad selector or operand is replaced by zeros, and flagged.   *)
selected_modulus(id) ==
    IF id = 0 THEN KEM_Q ELSE IF id = 1 THEN DSA_Q ELSE 0
request_ok(r) ==
    /\ r.id <= 1
    /\ r.a < selected_modulus(r.id)
    /\ r.b < selected_modulus(r.id)
stage_a_product(r) == IF request_ok(r) THEN r.a * r.b ELSE 0

(* Stage B: 169 times the product, or two of the four folds.               *)
stage_b_data(kem, product) ==
    IF kem THEN kred2_norm(product % 16777216) % 4096
           ELSE dsa_fold(dsa_fold(product))

(* Stage C: the constant that undoes 169 * 169, or the other two folds.    *)
stage_c_result(kem, data) ==
    IF kem THEN kred2_norm(((data % 4096) * 1353) % 16777216) % 4096
           ELSE dsa_final(dsa_fold(dsa_fold(data))) % 16777216

pipeline_advanceAlways(rsp_ready) == TRUE           \* slip: no back-pressure
pipeline_advance(rsp_ready) == ~rsp_valid \/ rsp_ready

Init ==
    /\ stage1_valid = FALSE /\ stage1_fault = FALSE
    /\ stage1_kem = FALSE /\ stage1_product = 0
    /\ stage2_valid = FALSE /\ stage2_fault = FALSE
    /\ stage2_kem = FALSE /\ stage2_data = 0
    /\ rsp_valid = FALSE /\ rsp_fault = FALSE /\ rsp_product = 0
    /\ pending = << >>

(* rst_n low at the edge.                                                  *)
Reset ==
    /\ stage1_valid' = FALSE /\ stage1_fault' = FALSE
    /\ stage1_kem' = FALSE /\ stage1_product' = 0
    /\ stage2_valid' = FALSE /\ stage2_fault' = FALSE
    /\ stage2_kem' = FALSE /\ stage2_data' = 0
    /\ rsp_valid' = FALSE /\ rsp_fault' = FALSE /\ rsp_product' = 0
    /\ pending' = << >>

(* The edge with the request r on the port, offered or not (req_valid):    *)
(* everything moves, or nothing does.                                      *)
Advance(r, req_valid, rsp_ready) ==
    /\ pipeline_advance(rsp_ready)
    /\ stage1_valid' = req_valid
    /\ stage1_fault' = ~request_ok(r)
    /\ stage1_kem' = (r.id = 0)
    /\ stage1_product' = stage_a_product(r)
    /\ stage2_valid' = stage1_valid
    /\ stage2_fault' = stage1_fault
    /\ stage2_kem' = stage1_kem
    /\ stage2_data' = stage_b_data(stage1_kem, stage1_product)
    /\ rsp_valid' = stage2_valid
    /\ rsp_fault' = stage2_fault
    /\ rsp_product' = IF stage2_fault THEN 0
                      ELSE stage_c_result(stage2_kem, stage2_data)
    /\ pending' = (IF rsp_valid /\ rsp_ready THEN Tail(pending) ELSE pending)
                      \o (IF req_valid THEN <<r>> ELSE << >>)

Stall(rsp_ready) == ~pipeline_advance(rsp_ready) /\ UNCHANGED vars

Next ==
    \/ Reset
    \/ \E r \in Requests, req_valid, rsp_ready \in BOOLEAN :
           Advance(r, req_valid, rsp_ready)
    \/ \E rsp_ready \in BOOLEAN : Stall(rsp_ready)

Spec == Init /\ [][Next]_vars
-----------------------------------------------------------------------------
(* The answer a request must get: the residue of the product, or the fault *)
(* flag and zero for an operand that is not canonical (lines 155-181).     *)
Canonical(r) ==
    \/ r.id = 0 /\ r.a < 3329 /\ r.b < 3329
    \/ r.id = 1 /\ r.a < 8380417 /\ r.b < 8380417
Expected(r) ==
    IF Canonical(r)
    THEN (r.a * r.b) % (IF r.id = 0 THEN 3329 ELSE 8380417)
    ELSE 0

(* A response on the port is the exact answer to the oldest request taken  *)
(* and not yet answered, through any stalls and resets (lines 242-270).    *)
(* The FORMAL block proves only the ranges of the results.                 *)
ResponseExact ==
    rsp_valid =>
        /\ pending # << >>
        /\ rsp_fault <=> ~Canonical(Head(pending))
        /\ rsp_product = Expected(Head(pending))

(* The answer on the port is the one model/fastmod.py computes: the two    *)
(* reductions agree although the model selects by the borrow bit of a      *)
(* fixed width and the pipeline splits the work over two stages (execute,  *)
(* fastmod.py lines 320-324, against lines 242-270).                       *)
Model == INSTANCE FastMod
MatchesModel ==
    rsp_valid =>
        LET r == Head(pending)
        IN  Model!execute(r.id, r.a, r.b) = [product |-> rsp_product, fault |-> rsp_fault]

(* The pipeline implements PipeServer: no request is lost, doubled or      *)
(* overtaken, and each is answered after exactly two edges that are not    *)
(* held up, faulting or not (lines 183-203, 242-270).                      *)
Server == INSTANCE PipeServer WITH
    LATENCY <- 2,
    Answers <- [r \in Requests |-> IF Canonical(r) THEN Expected(r) ELSE -1],
    None    <- -2,
    queue   <- pending,
    due     <- [k \in 0 .. 2 |-> IF k = 0 THEN rsp_valid
                               ELSE IF k = 1 THEN stage2_valid
                               ELSE stage1_valid],
    answer  <- IF ~rsp_valid THEN -2 ELSE IF rsp_fault THEN -1 ELSE rsp_product
ImplementsPipeline == Server!Spec
=============================================================================
