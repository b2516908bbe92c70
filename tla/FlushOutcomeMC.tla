--------------------------- MODULE FlushOutcomeMC ---------------------------
(* Instances of FlushOutcome for TLC, with the definitions of FlushServiceMC. *)
EXTENDS FlushOutcome, FlushServiceMC
=============================================================================
