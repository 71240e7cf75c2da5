------------------------------- MODULE Vault --------------------------------
(***************************************************************************)
(* What the zeroization of the Rev-A core promises, in three facts: is the *)
(* device open to its host or wiping, does it hold data that the host      *)
(* loaded (or anything computed from it), and does it show such data on    *)
(* the link.  Data can be shown only if it was held while open; nothing is *)
(* shown while wiping; wiping never adds data and ends with none.          *)
(***************************************************************************)
VARIABLES phase, holds, shows

vaultVars == <<phase, holds, shows>>

Init ==
    /\ phase = "wiping"
    /\ holds \in BOOLEAN        \* the memories power up with anything
    /\ shows = FALSE

Use ==
    /\ phase = "open" /\ phase' = "open"
    /\ holds' \in BOOLEAN
    /\ shows' \in BOOLEAN
    /\ shows' => shows \/ holds

(* A trigger, a step of the wipe, or a reset.                              *)
Wipe ==
    /\ phase' = "wiping"
    /\ holds' \in BOOLEAN
    /\ holds' => holds
    /\ shows' = FALSE

Wiped ==
    /\ phase = "wiping" /\ phase' = "open"
    /\ holds' = FALSE
    /\ shows' = FALSE

Next == Use \/ Wipe \/ Wiped

Spec == Init /\ [][Next]_vaultVars
=============================================================================
