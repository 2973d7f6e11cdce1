---------------------------- MODULE MCConnLimit ----------------------------
(* ConnLimit alone, for the sockets of refused connections (MCServer checks     *)
(* the rest), with the limits in the order of the defaults.                     *)
EXTENDS ConnLimit
=============================================================================
