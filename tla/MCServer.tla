------------------------------ MODULE MCServer ------------------------------
(* Four parts of the server that share nothing: the limits on connections, an  *)
(* address list and its file, the weights, the log. They are checked side by   *)
(* side: a behaviour is one of the four (`side').                              *)
(*                                                                              *)
(* The limit that leads to the deny list is below the limit per minute and the  *)
(* clock may be set back, so that every branch of handle_connect() is taken.    *)
(* Two lines of list and three ticks hold an edit in the tick of another. Three *)
(* archives are filled in three lives, whose numbers start from 0. With three   *)
(* weights two can be new while one is served.                                  *)
EXTENDS ConnLimit

CONSTANTS Addrs, ListLines, Ticks,                   \* of AddrList
          NoFile, LenTot, LogLines, MaxLives,        \* of Logger
          NoPw, MaxNo                                \* of WghtKeep

\* That there is no file, or no weight, is not taken for one.
ASSUME ServerAssumption ==
  /\ NoFile \notin Seq(0 .. LogLines) /\ NoFile \notin [lines : Seq(0 .. LogLines), life : Nat]
  /\ LogLines \in Nat
  /\ MaxNo \in Nat

VARIABLES there, lines, mtime, set, noted, al_pc, al_now, missed,
          log, tmp, arch, xze, no_arch, lg_len, lg_pc, life, next, told, replaced,
          dir, wk_list, map_wght, i64_now, pwght, wk_pc, todo, served,
          side

List == INSTANCE AddrList WITH MaxLines <- ListLines,
                               pc <- al_pc, now <- al_now
Log == INSTANCE Logger WITH MaxLines <- LogLines,
                            pc <- lg_pc, len <- lg_len
Wghts == INSTANCE WghtKeep WITH list <- wk_list, pc <- wk_pc
list == <<there, lines, mtime, set, noted, al_pc, al_now, missed>>
logger == <<log, tmp, arch, xze, no_arch, lg_len, lg_pc, life, next, told, replaced>>
wghts == <<dir, wk_list, map_wght, i64_now, pwght, wk_pc, todo, served>>

MCInit == /\ side \in {"limits", "list", "log", "wghts"}
          /\ Init /\ List!Init /\ Log!Init /\ Wghts!Init
MCNext == \/ side = "limits" /\ Next       /\ UNCHANGED <<list, logger, wghts, side>>
          \/ side = "list"   /\ List!Next  /\ UNCHANGED <<vars, logger, wghts, side>>
          \/ side = "log"    /\ Log!Next   /\ UNCHANGED <<vars, list, wghts, side>>
          \/ side = "wghts"  /\ Wghts!Next /\ UNCHANGED <<vars, list, logger, side>>
MCSpec == MCInit /\ [][MCNext]_<<vars, list, logger, wghts, side>>

\* The properties of AddrList, Logger and WghtKeep.
StaleOnlyIfMissed == List!StaleOnlyIfMissed
LinesKept         == Log!LinesKept
ServedIsKnown     == Wghts!ServedIsKnown
=============================================================================
