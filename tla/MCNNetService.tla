--------------------------- MODULE MCNNetService ---------------------------
(* NNetService alone, for a new weight while engines start (MCAutousi and        *)
(* MCEngine check the rest): two engines are enough.                            *)
EXTENDS NNetService
=============================================================================
