------------------------------ MODULE MCJQueue ------------------------------
(* JQueue alone, for the end of its worker (MCCommon checks the rest): one job  *)
(* and one slot are enough.                                                     *)
EXTENDS JQueue
=============================================================================
