---------------------------- MODULE MCWghtFetch ----------------------------
(* WghtFetch alone, for blocks that an end of the process tears (MCClient       *)
(* checks the rest). The first weight has fewer blocks than the second and the   *)
(* third has more than either.                                                  *)
EXTENDS WghtFetch

MCNBlock == [w \in 0 .. MaxWght |-> IF w = 1 THEN 1 ELSE 2 + (w \div 2)]
=============================================================================
