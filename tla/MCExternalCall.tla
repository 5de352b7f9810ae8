--------------------------- MODULE MCExternalCall ---------------------------
(* ExternalCall of two processes, of which one calls again.               *)
EXTENDS ExternalCall, TLC

CONSTANTS p, q

TwiceAndOnce == p :> 2 @@ q :> 1
=============================================================================
