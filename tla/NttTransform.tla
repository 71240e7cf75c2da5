---------------------------- MODULE NttTransform ----------------------------
(***************************************************************************)
(* The NTT engine run on a small field, under a host that starts it,       *)
(* writes coefficients and zeroizes it at any edge.  The field has the     *)
(* structure of the two real ones (a root of unity of order 2N for ML-DSA, *)
(* of order N for ML-KEM, whose last layer is left out), so the schedule   *)
(* of lca_ntt_accel can be compared with what an NTT is: evaluation at the *)
(* odd powers of the root, in bit-reversed order.  The Montgomery factors  *)
(* of the real reductions are left out of the small field.                 *)
(***************************************************************************)
EXTENDS Integers, FiniteSetsExt

CONSTANTS
    N,
    Q,                      \* the small prime
    Psi,                    \* a root of unity of order 2N modulo Q
    InputPolys,             \* polynomials the engine may hold at power-on
    HostData,               \* values the host may write
    MAX_STARTS, MAX_WRITES, \* bounds on accepted starts and host writes
    MAX_CUTS                \* bound on resets and zeroize pulses

Field == 0 .. (Q - 1)

Power[b \in Int, e \in Nat] == IF e = 0 THEN 1 ELSE (b * Power[b, e - 1]) % Q

(* Reversal of the low bits of i, as many as 2^n = size has.               *)
BitRev[i \in Nat, size \in Nat] ==
    IF size = 1 THEN 0
    ELSE (i % 2) * (size \div 2) + BitRev[i \div 2, size \div 2]

(* The zeta ROMs (lca_ntt_zetas.svh): powers of the root in bit-reversed   *)
(* order; a negative index is the negated entry.                           *)
MldsaZeta(i) == Power[Psi, BitRev[i, N]]
MlkemZeta(i) == Power[(Psi * Psi) % Q, BitRev[i, N \div 2]]
Zeta(cmd, z) ==
    CASE cmd = "MLDSA_NTT"  -> MldsaZeta(z)
      [] cmd = "MLDSA_INTT" -> Q - MldsaZeta(-z)
      [] OTHER              -> MlkemZeta(z)

Twiddled(cmd, z, x) == (Zeta(cmd, z) * x) % Q
FieldNewA(cmd, z, a, b) ==
    IF cmd \in {"MLDSA_NTT", "MLKEM_NTT"}
    THEN (a + Twiddled(cmd, z, b)) % Q
    ELSE (a + b) % Q
FieldNewB(cmd, z, a, b) ==
    CASE cmd \in {"MLDSA_NTT", "MLKEM_NTT"} ->
             (a + Q - Twiddled(cmd, z, b)) % Q
      [] cmd = "MLDSA_INTT" -> Twiddled(cmd, z, a + Q - b)
      [] cmd = "MLKEM_INTT" -> Twiddled(cmd, z, b + Q - a)

FieldInverse(x) == CHOOSE y \in Field : (x * y) % Q = 1
FieldScaled(cmd, a) ==
    (a * FieldInverse(IF cmd = "MLDSA_INTT" THEN N ELSE N \div 2)) % Q

VARIABLES
    ntt_state, ntt_busy, ntt_done, ntt_cmd, len, group, j, k, zeta,
    scale_index, zeroize_index, ntt_zeroize_seen, coeff,
    input,                  \* history: the coefficients at the last start
    edges,                  \* history: edges since the last start
    starts, writes, cuts    \* counters for the three bounds

Ntt == INSTANCE NttAccel WITH ZeroCoeff <- 0, NewA <- FieldNewA,
                              NewB <- FieldNewB, Scaled <- FieldScaled

ASSUME TransformAssumption == Ntt!SizeOK /\ Ntt!BanksSplit

(* The ROM holds residues, and the two numbers that SCALE divides by have  *)
(* their inverses in the field.                                            *)
ASSUME FieldAssumption ==
    /\ Q \in Nat \ {0}
    /\ \A i \in Ntt!Address : MldsaZeta(i) \in Field /\ MlkemZeta(i) \in Field
    /\ \A n \in {N, N \div 2} : \E y \in Field : (n * y) % Q = 1

ASSUME BoundsAssumption ==
    /\ InputPolys \subseteq [Ntt!Address -> Field]
    /\ HostData \subseteq Field
    /\ MAX_STARTS \in Nat /\ MAX_WRITES \in Nat /\ MAX_CUTS \in Nat

vars == <<Ntt!nttVars, input, edges, starts, writes, cuts>>

Address == Ntt!Address
Poly == [a \in Address |-> Ntt!coeff_read(a)]
Banks(p) == [b \in {0, 1} |-> [r \in Ntt!Row |->
    p[CHOOSE a \in Address : Ntt!Bank(a) = b /\ Ntt!RowOf(a) = r]]]

Init ==
    /\ Ntt!NttResetState
    /\ coeff \in {Banks(p) : p \in InputPolys}
    /\ input = Poly
    /\ edges = 0
    /\ starts = 0
    /\ writes = 0
    /\ cuts = 0

NoWrite == [we |-> FALSE, addr |-> 0, data |-> 0]
HostWrites == [we : {TRUE}, addr : Address, data : HostData]

(* Edges since the start, up to one more than any transform takes.         *)
MaxEdges == 2 * N * N
Elapsed == IF edges < MaxEdges THEN edges + 1 ELSE edges

Cut == cuts < MAX_CUTS /\ cuts' = cuts + 1

Reset ==
    /\ Cut
    /\ Ntt!NttReset
    /\ UNCHANGED <<input, edges, starts, writes>>

ZeroizeStart(zeroize_i) ==
    /\ Cut
    /\ Ntt!NttZeroizeStart(zeroize_i)
    /\ edges' = 0
    /\ UNCHANGED <<input, starts, writes>>

Start(zeroize_i, cmd, host) ==
    /\ starts < MAX_STARTS
    /\ Ntt!NttStart(zeroize_i, TRUE, cmd, host)
    /\ input' = [a \in Address |-> Ntt!HostWritten(zeroize_i, host)
                                       [Ntt!Bank(a)][Ntt!RowOf(a)]]
    /\ edges' = 0
    /\ starts' = starts + 1
    /\ writes' = IF host.we THEN writes + 1 ELSE writes
    /\ UNCHANGED cuts

Rest(zeroize_i, start_i, host) ==
    /\ Ntt!NttRest(zeroize_i, start_i, host)
    /\ ntt_done => ~host.we     \* the result is compared as it stands
    /\ writes' = IF host.we THEN writes + 1 ELSE writes
    /\ UNCHANGED <<input, edges, starts, cuts>>

(* While the engine is busy it must ignore starts and host writes.         *)
Work(zeroize_i, host) ==
    /\ \/ Ntt!NttButterfly(zeroize_i, host)
       \/ Ntt!NttScale(zeroize_i, host)
    /\ edges' = Elapsed
    /\ UNCHANGED <<input, starts, writes, cuts>>

Zeroize(zeroize_i, host) ==
    /\ Ntt!NttZeroize(zeroize_i, host)
    /\ UNCHANGED <<input, edges, starts, writes, cuts>>

Next ==
    \/ Reset
    \/ \E zeroize_i \in BOOLEAN :
        \/ ZeroizeStart(zeroize_i)
        \/ \E host \in {NoWrite} \cup HostWrites :
            /\ host.we => writes < MAX_WRITES \/ ntt_busy
            /\ \/ \E cmd \in Ntt!NttCommand : Start(zeroize_i, cmd, host)
               \/ \E start_i \in BOOLEAN : Rest(zeroize_i, start_i, host)
               \/ Work(zeroize_i, host)
               \/ Zeroize(zeroize_i, host)

Spec == Init /\ [][Next]_vars
-----------------------------------------------------------------------------
TypeOK ==
    /\ Ntt!NttTypeOK(Field)
    /\ input \in [Address -> Field]
    /\ edges \in 0 .. MaxEdges
    /\ starts \in 0 .. MAX_STARTS
    /\ writes \in 0 .. MAX_WRITES
    /\ cuts \in 0 .. MAX_CUTS

(* What the transforms are, from the definition: evaluation at the odd     *)
(* powers of the root, in bit-reversed order (ML-KEM: of the even and odd  *)
(* halves, its factors being quadratic).                                   *)
SumOver(S, f(_)) == FoldSet(LAMBDA x, acc : (f(x) + acc) % Q, 0, S)
MldsaNtt(p) == [i \in Address |->
    SumOver(Address, LAMBDA m :
        p[m] * Power[Psi, ((2 * BitRev[i, N] + 1) * m) % (2 * N)])]
MlkemNtt(p) == [i \in Address |->
    SumOver(0 .. ((N \div 2) - 1), LAMBDA m :
        p[2 * m + (i % 2)] *
        Power[(Psi * Psi) % Q,
              ((2 * BitRev[i \div 2, N \div 2] + 1) * m) % N])]

(* When the engine says done, the banks hold the transform of what they    *)
(* held at the start: every layer, group and twiddle of the schedule was   *)
(* right, and no late host write or ignored start disturbed it             *)
(* (lines 238-360).                                                        *)
TransformCorrect ==
    ntt_done =>
        CASE ntt_cmd = "MLDSA_NTT"  -> Poly = MldsaNtt(input)
          [] ntt_cmd = "MLDSA_INTT" -> MldsaNtt(Poly) = input
          [] ntt_cmd = "MLKEM_NTT"  -> Poly = MlkemNtt(input)
          [] ntt_cmd = "MLKEM_INTT" -> MlkemNtt(Poly) = input

(* The two operands of a butterfly sit in different banks, so each bank    *)
(* serves one read and one write per edge (comment at lines 10-15).        *)
BankConflictFree ==
    ntt_state = "BUTTERFLY" =>
        /\ Ntt!peer \in Address
        /\ Ntt!Bank(j) # Ntt!Bank(Ntt!peer)

(* The number of layers of a command: log2 N, and one less for ML-KEM.     *)
Log2[n \in Nat] == IF n <= 1 THEN 0 ELSE 1 + Log2[n \div 2]

(* Its recurrence at the sizes that occur, which a prover does not know.   *)
ASSUME Log2Assumption ==
    /\ Log2[1] = 0
    /\ \A n \in 2 .. N : Log2[n] = 1 + Log2[n \div 2]
    /\ \A n \in 1 .. N : Log2[n] \in 0 .. n

Layers(cmd) == IF cmd \in {"MLDSA_NTT", "MLDSA_INTT"} THEN Log2[N]
               ELSE Log2[N] - 1

(* A transform takes a number of edges that only its command decides:      *)
(* N/2 per layer, and N more to scale (docs/ARCHITECTURE.md: 1,024, 1,280, *)
(* 896 and 1,152 cycles at N = 256).                                       *)
FixedLatency ==
    ntt_done => edges = Layers(ntt_cmd) * (N \div 2)
                            + IF ntt_cmd \in Ntt!Forward THEN 0 ELSE N

(* A zeroization that has been let finish leaves nothing: as soon as the   *)
(* engine has answered a zeroize pulse and is idle again, every            *)
(* coefficient is zero, whatever it interrupted (lines 207-221, 362-378).  *)
ZeroizeCleans ==
    [][ntt_state = "ZEROIZE" /\ ntt_state' = "IDLE" =>
           \/ Poly' = [a \in Address |-> 0]
           \/ Reset]_vars
=============================================================================
