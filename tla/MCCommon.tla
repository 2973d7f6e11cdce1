------------------------------ MODULE MCCommon ------------------------------
(* The three shared structures of src/common: the queue of jobs, the readers of *)
(* a child's lines, the hash table. They are checked side by side: a behaviour   *)
(* is one of the three (`side').                                                *)
(*                                                                              *)
(* Two jobs tell a job from the one before it, two slots of queue the bottom of *)
(* the stack from its top. Three keys of one bucket and one of another do not   *)
(* fit into three entries. One pipe ends amid a line and has an empty one.      *)
EXTENDS JQueue

CONSTANTS Text, Letters, Broken, BufSize, MaxChild, \* of LineReader
          Keys, Hash, Nentry, Values, Default       \* of LruTable

MCText == [r \in {"in", "err"} |->
             IF r = "in" THEN <<<<"a", "b">>, <<>>, <<"c">>>> ELSE <<<<"d">>>>]
MCHash == [k \in Keys |-> IF k = 4 THEN 2 ELSE 1]

VARIABLES rd, is_eof, has_line, do_read, is_ready, num_ready, main, mode, got, died,
          f, bfp, used_f, used_bfp, used_end, unused, key, val, found,
          side

Lines == INSTANCE LineReader
Table == INSTANCE LruTable

\* A child has two pipes. The end of a line is no letter, and a line that ends with
\* the pipe is not empty. There is room for the two readers of a child.
ASSUME LinesAssumption ==
  /\ Text \in [{"in", "err"} -> Seq(Seq(Letters))] /\ Lines!NL \notin Letters
  /\ Broken \subseteq {"in", "err"}
  /\ \A r \in Broken : Text[r] # <<>> /\ Text[r][Len(Text[r])] # <<>>
  /\ BufSize \in Nat \ {0} /\ MaxChild \in Nat /\ MaxChild >= 2

\* reset() asserts that there are two entries at least. A chain has a number.
ASSUME TableAssumption ==
  /\ Nentry \in Nat /\ Nentry >= 2
  /\ Keys # {} /\ Hash \in [Keys -> Nat \ {0}]

lines == <<rd, is_eof, has_line, do_read, is_ready, num_ready, main, mode, got, died>>
table == <<f, bfp, used_f, used_bfp, used_end, unused, key, val, found>>

MCInit == /\ side \in {"queue", "lines", "table"}
          /\ Init
          /\ Lines!Init /\ (side # "lines" => mode = "play")
          /\ Table!Init
MCNext == \/ side = "queue" /\ Next       /\ UNCHANGED <<lines, table, side>>
          \/ side = "lines" /\ Lines!Next /\ UNCHANGED <<vars, table, side>>
          \/ side = "table" /\ Table!Next /\ UNCHANGED <<vars, lines, side>>
          \/ side = "lines" /\ main.pc = "closed" /\ UNCHANGED <<vars, lines, table, side>>
\* Each one's own fairness, where it is the one that runs.
MCFairness ==
  /\ WF_vars(side = "queue" /\ ProducerStep)
  /\ WF_vars(side = "queue" /\ ConsumerStep)
  /\ \A t \in Threads : SF_vars(side = "queue" /\ Lock(t))
  /\ WF_lines(side = "lines" /\ Lines!Worker("in"))
  /\ WF_lines(side = "lines" /\ Lines!Worker("err"))
  /\ WF_lines(side = "lines" /\ Lines!Main)
MCSpec == MCInit /\ [][MCNext]_<<vars, lines, table, side>> /\ MCFairness

\* LineReader's properties and LruTable's, for their behaviours.
LinesInOrder     == Lines!LinesInOrder
ChildIsClosed    == side = "lines" => Lines!ChildIsClosed
ImplementsLruMap == Table!ImplementsLruMap
\* Nobody sleeps on a queue that lets him go on: the producer comes back from
\* push, the worker from pop.
NobodySleepsOnWork == PushReturns /\ WorkerWakesForJob
=============================================================================
