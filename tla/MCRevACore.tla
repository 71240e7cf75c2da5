----------------------------- MODULE MCRevACore -----------------------------
(* Instances of the Rev-A core: four coefficients, a five-word SRAM, and a *)
(* host that is restricted, run by run, to the part of the link that the   *)
(* run is about.                                                           *)
EXTENDS RevACore

MCNttControl == {{"start"}, {"abort"}, {"clear_fault"}}
MCLinkControl == {{"start"}, {"zeroize"}, {"clear_irq", "start"}}
MCLiveControl == {{"start"}, {"zeroize"}, {"reset_cursors", "clear_done"}}
=============================================================================
