------------------------------ MODULE NttAccel ------------------------------
(***************************************************************************)
(* The NTT/INTT engine rtl/lca_ntt_accel.sv: the registers of its schedule *)
(* and its two coefficient banks.  The module gives one action per branch  *)
(* of the clocked process, with the input ports as parameters; what a      *)
(* butterfly computes is a parameter too, so that the engine can be run on *)
(* a small field (NttTransform) or on taint marks (RevACore).                *)
(***************************************************************************)
EXTENDS Integers

CONSTANTS
    N,                      \* number of coefficients (256 in the RTL)
    ZeroCoeff,              \* the cleared coefficient
    NewA(_, _, _, _),       \* new_a for (command, zeta, a, b)
    NewB(_, _, _, _),       \* new_b for (command, zeta, a, b)
    Scaled(_, _)            \* the SCALE result for (command, a)

NttCommand == {"MLDSA_NTT", "MLDSA_INTT", "MLKEM_NTT", "MLKEM_INTT"}
Forward == {"MLDSA_NTT", "MLKEM_NTT"}
Address == 0 .. (N - 1)
Row == 0 .. ((N \div 2) - 1)

(* What the instances assume of N: a power of two (256), that is, a number *)
(* without an odd divisor.                                                 *)
PowerOfTwo(n) == \A d \in 2 .. n : n % d = 0 => d % 2 = 0
SizeOK == N \in Nat /\ N >= 4 /\ PowerOfTwo(N)

VARIABLES
    ntt_state,              \* state_q: IDLE, BUTTERFLY, SCALE or ZEROIZE
    ntt_busy, ntt_done,     \* busy_o, done_o
    ntt_cmd,                \* command_q
    len, group, j, k,       \* len_q, start_q, j_q, k_q
    zeta,                   \* zeta_q as the signed index into the ROM
    scale_index, zeroize_index,
    ntt_zeroize_seen,       \* zeroize_seen_q
    coeff                   \* coeff_bank0_q and coeff_bank1_q

schedule == <<ntt_cmd, len, group, j, k, zeta, scale_index>>
nttVars == <<ntt_state, ntt_busy, ntt_done, schedule, zeroize_index,
             ntt_zeroize_seen, coeff>>

(* The bank of an address is the XOR of its bits, the row its low bits.    *)
Parity[a \in Nat] == IF a = 0 THEN 0 ELSE (a + Parity[a \div 2]) % 2
Bank(a) == Parity[a]
RowOf(a) == a % (N \div 2)

(* Addresses that differ in one bit sit in different banks, as the comment *)
(* at the head of the file argues; the instances assume it of Parity.      *)
BanksSplit ==
    /\ \A a \in Address : Bank(a) \in {0, 1}
    /\ \A bit \in 1 .. (N \div 2), a \in Address :
           PowerOfTwo(bit) /\ (a \div bit) % 2 = 0 =>
               Bank(a + bit) = 1 - Bank(a)

coeff_read(a) == coeff[Bank(a)][RowOf(a)]

(* Registers that reset clears; the coefficient banks keep their content.  *)
NttResetState ==
    /\ ntt_state = "IDLE"
    /\ ntt_busy = FALSE
    /\ ntt_done = FALSE
    /\ ntt_cmd = "MLDSA_NTT"
    /\ len = 0 /\ group = 0 /\ j = 0 /\ k = 0 /\ zeta = 0
    /\ scale_index = 0
    /\ zeroize_index = 0
    /\ ntt_zeroize_seen = FALSE

NttReset ==
    /\ ntt_state' = "IDLE"
    /\ ntt_busy' = FALSE
    /\ ntt_done' = FALSE
    /\ ntt_cmd' = "MLDSA_NTT"
    /\ len' = 0 /\ group' = 0 /\ j' = 0 /\ k' = 0 /\ zeta' = 0
    /\ scale_index' = 0
    /\ zeroize_index' = 0
    /\ ntt_zeroize_seen' = FALSE
    /\ UNCHANGED coeff

(* The rising edge of zeroize_i interrupts whatever runs.                  *)
NttZeroizeStart(zeroize_i) ==
    /\ zeroize_i /\ ~ntt_zeroize_seen
    /\ ntt_zeroize_seen' = TRUE
    /\ ntt_state' = "ZEROIZE"
    /\ ntt_busy' = TRUE
    /\ ntt_done' = FALSE
    /\ len' = 0 /\ group' = 0 /\ j' = 0 /\ k' = 0 /\ zeta' = 0
    /\ scale_index' = 0
    /\ zeroize_index' = 0
    /\ UNCHANGED <<ntt_cmd, coeff>>

(* On every other edge the zeroize latch follows its input ...             *)
NttLatch(zeroize_i) ==
    /\ ~(zeroize_i /\ ~ntt_zeroize_seen)
    /\ ntt_zeroize_seen' = zeroize_i

(* ... and a host write reaches the banks of an engine that is not busy.   *)
(* host is [we, addr, data].                                               *)
Store(banks, a, v) == [banks EXCEPT ![Bank(a)][RowOf(a)] = v]
HostWritten(zeroize_i, host) ==
    IF host.we /\ ~ntt_busy /\ ~zeroize_i
    THEN Store(coeff, host.addr, host.data) ELSE coeff

(* First twiddle index and first span of each command.                     *)
FirstKZero(cmd) ==                                  \* slip: from entry 0
    CASE cmd \in Forward     -> 0
      [] cmd = "MLDSA_INTT" -> N - 1
      [] cmd = "MLKEM_INTT" -> (N \div 2) - 1
FirstK(cmd) == CASE cmd \in Forward        -> 1
                 [] cmd = "MLDSA_INTT" -> N - 1
                 [] cmd = "MLKEM_INTT" -> (N \div 2) - 1
FirstLen(cmd) == CASE cmd \in Forward        -> N \div 2
                   [] cmd = "MLDSA_INTT" -> 1
                   [] cmd = "MLKEM_INTT" -> 2
ZetaOf(cmd, i) == IF cmd = "MLDSA_INTT" THEN -i ELSE i
NextK == IF ntt_cmd \in Forward THEN k + 1 ELSE k - 1

(* ST_IDLE: accept a start.                                                *)
NttStart(zeroize_i, start_i, command_i, host) ==
    /\ NttLatch(zeroize_i)
    /\ ntt_state = "IDLE"
    /\ start_i /\ ~zeroize_i
    /\ ntt_cmd' = command_i
    /\ ntt_busy' = TRUE
    /\ ntt_done' = FALSE
    /\ group' = 0
    /\ j' = 0
    /\ ntt_state' = "BUTTERFLY"
    /\ len' = FirstLen(command_i)
    /\ k' = FirstK(command_i)
    /\ zeta' = ZetaOf(command_i, FirstK(command_i))
    /\ coeff' = HostWritten(zeroize_i, host)
    /\ UNCHANGED <<scale_index, zeroize_index>>

NttRest(zeroize_i, start_i, host) ==
    /\ NttLatch(zeroize_i)
    /\ ntt_state = "IDLE"
    /\ ~(start_i /\ ~zeroize_i)
    /\ coeff' = HostWritten(zeroize_i, host)
    /\ UNCHANGED <<ntt_state, ntt_busy, ntt_done, schedule, zeroize_index>>

(* ST_BUTTERFLY: one butterfly per edge, written to the two banks, then    *)
(* the next pair, the next group, the next layer, SCALE or the end.        *)
peerShort == j + len - 1                            \* slip
peer == j + len
next_group_start == group + 2 * len
LastLayerOfAll ==                                   \* slip: layers of ML-DSA
    len = IF ntt_cmd \in Forward THEN 1 ELSE N \div 2
LastLayer == len = CASE ntt_cmd = "MLDSA_NTT" -> 1
                     [] ntt_cmd = "MLKEM_NTT" -> 2
                     [] OTHER                 -> N \div 2

Advance ==
    IF j + 1 < group + len
    THEN /\ j' = j + 1
         /\ UNCHANGED <<ntt_state, ntt_busy, ntt_done, len, group, k, zeta,
                        scale_index>>
    ELSE IF next_group_start < N
    THEN /\ group' = next_group_start
         /\ j' = next_group_start
         /\ k' = NextK
         /\ zeta' = ZetaOf(ntt_cmd, NextK)
         /\ UNCHANGED <<ntt_state, ntt_busy, ntt_done, len, scale_index>>
    ELSE /\ group' = 0
         /\ j' = 0
         /\ IF LastLayer
            THEN /\ IF ntt_cmd \in Forward
                    THEN /\ ntt_state' = "IDLE"
                         /\ ntt_busy' = FALSE
                         /\ ntt_done' = TRUE
                         /\ UNCHANGED scale_index
                    ELSE /\ ntt_state' = "SCALE"
                         /\ scale_index' = 0
                         /\ UNCHANGED <<ntt_busy, ntt_done>>
                 /\ UNCHANGED <<len, k, zeta>>
            ELSE /\ len' = IF ntt_cmd \in Forward THEN len \div 2 ELSE 2 * len
                 /\ k' = NextK
                 /\ zeta' = ZetaOf(ntt_cmd, NextK)
                 /\ UNCHANGED <<ntt_state, ntt_busy, ntt_done, scale_index>>

NttButterfly(zeroize_i, host) ==
    /\ NttLatch(zeroize_i)
    /\ ntt_state = "BUTTERFLY"
    /\ LET a == coeff_read(j)
           b == coeff_read(peer)
       IN coeff' = [HostWritten(zeroize_i, host) EXCEPT
                        ![Bank(j)][RowOf(j)] = NewA(ntt_cmd, zeta, a, b),
                        ![1 - Bank(j)][RowOf(peer)] = NewB(ntt_cmd, zeta, a, b)]
    /\ Advance
    /\ UNCHANGED <<ntt_cmd, zeroize_index>>

(* ST_SCALE: one coefficient per edge.                                     *)
NttScale(zeroize_i, host) ==
    /\ NttLatch(zeroize_i)
    /\ ntt_state = "SCALE"
    /\ coeff' = Store(HostWritten(zeroize_i, host), scale_index,
                      Scaled(ntt_cmd, coeff_read(scale_index)))
    /\ IF scale_index = N - 1
       THEN /\ ntt_state' = "IDLE"
            /\ ntt_busy' = FALSE
            /\ ntt_done' = TRUE
            /\ UNCHANGED scale_index
       ELSE /\ scale_index' = scale_index + 1
            /\ UNCHANGED <<ntt_state, ntt_busy, ntt_done>>
    /\ UNCHANGED <<ntt_cmd, len, group, j, k, zeta, zeroize_index>>

(* ST_ZEROIZE: one coefficient per edge.                                   *)
LastZeroizeEarly == zeroize_index = N - 2           \* slip
LastZeroize == zeroize_index = N - 1
NttZeroize(zeroize_i, host) ==
    /\ NttLatch(zeroize_i)
    /\ ntt_state = "ZEROIZE"
    /\ coeff' = Store(HostWritten(zeroize_i, host), zeroize_index, ZeroCoeff)
    /\ ntt_done' = FALSE
    /\ IF LastZeroize
       THEN /\ zeroize_index' = 0
            /\ ntt_state' = "IDLE"
            /\ ntt_busy' = FALSE
       ELSE /\ zeroize_index' = zeroize_index + 1
            /\ ntt_busy' = TRUE
            /\ UNCHANGED ntt_state
    /\ UNCHANGED schedule

(* One clock edge with the given inputs.                                   *)
NttEdge(zeroize_i, start_i, command_i, host) ==
    \/ NttZeroizeStart(zeroize_i)
    \/ NttStart(zeroize_i, start_i, command_i, host)
    \/ NttRest(zeroize_i, start_i, host)
    \/ NttButterfly(zeroize_i, host)
    \/ NttScale(zeroize_i, host)
    \/ NttZeroize(zeroize_i, host)

NttTypeOK(Coeff) ==
    /\ ntt_state \in {"IDLE", "BUTTERFLY", "SCALE", "ZEROIZE"}
    /\ ntt_busy \in BOOLEAN /\ ntt_done \in BOOLEAN
    /\ ntt_cmd \in NttCommand
    /\ len \in 0 .. N \div 2
    /\ group \in Address /\ j \in Address
    /\ k \in 0 .. (N - 1) /\ zeta \in -(N - 1) .. (N - 1)
    /\ scale_index \in Address /\ zeroize_index \in Address
    /\ ntt_zeroize_seen \in BOOLEAN
    /\ coeff \in [{0, 1} -> [Row -> Coeff]]
=============================================================================
