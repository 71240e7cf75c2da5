---------------------------- MODULE KeccakF1600 -----------------------------
(***************************************************************************)
(* The Keccak permutation engine rtl/lca_keccak_f1600.sv: one round per    *)
(* clock edge over a state that the host loads and reads word by word.     *)
(* The content of the lanes is a parameter: what a round makes of it, and  *)
(* what a host write makes of it.                                          *)
(***************************************************************************)
EXTENDS Integers

CONSTANTS
    WORDS,                  \* 32-bit words of the state window (50)
    ROUNDS,                 \* rounds of the permutation (24)
    ZeroLanes,              \* the cleared state
    RoundOf(_, _),          \* state_d for (lanes, round)
    WithWord(_, _, _)       \* the state after a host write of (address, data)

VARIABLES kec_busy, kec_done, round, lanes

kecVars == <<kec_busy, kec_done, round, lanes>>

KecCleared ==
    /\ kec_busy = FALSE
    /\ kec_done = FALSE
    /\ round = 0
    /\ lanes = ZeroLanes

(* rst_ni low, or zeroize_i on any edge: everything is cleared at once.    *)
KecClear ==
    /\ kec_busy' = FALSE
    /\ kec_done' = FALSE
    /\ round' = 0
    /\ lanes' = ZeroLanes

(* A host write reaches an engine that is not busy; host is                *)
(* [we, addr, data].                                                       *)
HostWritten(host) ==
    IF host.we /\ ~kec_busy /\ host.addr < WORDS
    THEN WithWord(lanes, host.addr, host.data) ELSE lanes

KecStart(start_i, host) ==
    /\ start_i /\ ~kec_busy
    /\ kec_busy' = TRUE
    /\ kec_done' = FALSE
    /\ round' = 0
    /\ lanes' = HostWritten(host)

KecRound ==
    /\ kec_busy
    /\ lanes' = RoundOf(lanes, round)
    /\ IF round = ROUNDS - 1
       THEN /\ kec_busy' = FALSE
            /\ kec_done' = TRUE
            /\ UNCHANGED round
       ELSE /\ round' = round + 1
            /\ UNCHANGED <<kec_busy, kec_done>>

KecRest(start_i, host) ==
    /\ ~start_i /\ ~kec_busy
    /\ lanes' = HostWritten(host)
    /\ UNCHANGED <<kec_busy, kec_done, round>>

(* One clock edge with the given inputs.                                   *)
KecEdge(zeroize_i, start_i, host) ==
    IF zeroize_i THEN KecClear
    ELSE KecStart(start_i, host) \/ KecRound \/ KecRest(start_i, host)
=============================================================================
