------------------------------- MODULE Logger -------------------------------
(* The log of the server (src/server/logging.cpp). A line goes to the log file,    *)
(* flushed, and into an encoder whose stream ends in a temporary file. When       *)
(* the log is long enough the temporary file becomes the next archive and the    *)
(* log starts anew. The two threads that write lines keep to one mutex. The      *)
(* process may end between any two of these steps and is then started again.     *)
EXTENDS Integers, Sequences, SequencesExt

CONSTANTS NoFile,    \* there is none of that name
          LenTot,    \* _len_tot, in lines
          MaxLines,  \* bound: lines ever written
          MaxLives   \* bound: starts of the server

Nos == 0 .. MaxLines

VARIABLES log,       \* the log file
          tmp,       \* the temporary file: what its stream holds, and whether it ended
          arch,      \* the archives: no |-> [lines, life]
          xze,       \* the lines the encoder was given
          no_arch,   \* _no_arch
          len,       \* _len
          pc, life,
          next,      \* the next line
          told,      \* history: the lines out() has returned for
          replaced   \* history: lines of archives whose name a later life took
vars == <<log, tmp, arch, xze, no_arch, len, pc, life, next, told, replaced>>
files == <<log, tmp, arch>>

----------------------------------------------------------------------------
\* The constructor. The names it scans for a number (:21) end in .txt.xz, those of
\* archives (:19) in .xz: it finds none. A log that is there goes to the encoder again.
FirstNo == 0
Start ==
  /\ pc = "down" /\ life < MaxLives
  /\ life' = life + 1
  /\ no_arch' = FirstNo
  /\ IF log = NoFile THEN pc' = "open" /\ len' = 0 /\ UNCHANGED <<tmp, xze>>
     ELSE /\ pc' = "ready" /\ tmp' = [lines |-> <<>>, whole |-> FALSE]
          /\ xze' = log /\ len' = Len(log)
  /\ UNCHANGED <<log, arch, next, told, replaced>>

\* out()
Write ==
  /\ pc = "ready" /\ next <= MaxLines
  /\ log' = Append(log, next) /\ len' = len + 1
  /\ next' = next + 1 /\ pc' = "wrote"
  /\ UNCHANGED <<tmp, arch, xze, no_arch, life, told, replaced>>
Full == len >= LenTot
Encode ==
  /\ pc = "wrote"
  /\ xze' = Append(xze, Last(log))
  /\ IF Full THEN pc' = "close" /\ UNCHANGED told
     ELSE pc' = "ready" /\ told' = told \union {Last(log)}
  /\ UNCHANGED <<files, no_arch, len, life, next, replaced>>

\* close_all(): the stream ends, then the file gets its name.
EndStream ==
  /\ pc = "close"
  /\ tmp' = [lines |-> xze, whole |-> TRUE] /\ pc' = "ended"
  /\ UNCHANGED <<log, arch, xze, no_arch, len, life, next, told, replaced>>
Rename ==
  /\ pc = "ended"
  /\ arch' = [arch EXCEPT ![no_arch] = [lines |-> tmp.lines, life |-> life]]
  /\ tmp' = NoFile
  /\ replaced' = IF arch[no_arch] # NoFile /\ arch[no_arch].life < life
                   THEN replaced \union ToSet(arch[no_arch].lines) ELSE replaced
  /\ pc' = "rotate"
  /\ UNCHANGED <<log, xze, no_arch, len, life, next, told>>

\* open_all(), for the constructor and for out().
OpenTmp ==
  /\ pc \in {"open", "rotate"}
  /\ tmp' = [lines |-> <<>>, whole |-> FALSE]
  /\ pc' = IF pc = "open" THEN "open_log" ELSE "rotate_log"
  /\ UNCHANGED <<log, arch, xze, no_arch, len, life, next, told, replaced>>

\* Mutation: the number stays.
NextNoSame == no_arch

NextNo == no_arch + 1
OpenLog ==
  /\ pc \in {"open_log", "rotate_log"}
  /\ IF pc = "open_log" THEN UNCHANGED <<no_arch, told>>
     ELSE no_arch' = NextNo /\ told' = told \union {Last(log)}
  /\ log' = <<>> /\ xze' = <<>> /\ len' = 0
  /\ pc' = "ready"
  /\ UNCHANGED <<tmp, arch, life, next, replaced>>

\* The end of the process. The destructor closes the temporary file before it ends
\* the stream, so an orderly end leaves no more than this.
Crash == /\ pc # "down" /\ pc' = "down"
         /\ UNCHANGED <<files, xze, no_arch, len, life, next, told, replaced>>

Init == /\ log = NoFile /\ tmp = NoFile /\ arch = [n \in Nos |-> NoFile]
        /\ xze = <<>> /\ no_arch = 0 /\ len = 0 /\ pc = "down" /\ life = 0
        /\ next = 1 /\ told = {} /\ replaced = {}
Next == \/ Start \/ Write \/ Encode \/ EndStream \/ Rename
        \/ OpenTmp \/ OpenLog \/ Crash
Spec == Init /\ [][Next]_vars

----------------------------------------------------------------------------
\* Every line that out() returned for is in the log or in an archive, wherever the
\* process ended, but for those of an archive whose name was given again in a
\* later life, which starts its numbers from 0.
InArchives == UNION {ToSet(arch[n].lines) : n \in {m \in Nos : arch[m] # NoFile}}
InLog == IF log = NoFile THEN {} ELSE ToSet(log)
LinesKept == told \subseteq InLog \union InArchives \union replaced
=============================================================================
