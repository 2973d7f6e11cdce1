------------------------------ MODULE JobStack ------------------------------
(***************************************************************************)
(* What JQueue<T> (src/common/jqueue.hpp) promises to the two threads that *)
(* share it: a bounded stack of jobs.  One thread pushes, one thread takes *)
(* the job on top, works on it and comes back for the next.  After end()   *)
(* no job is taken any more; the jobs still stacked are dropped.           *)
(*                                                                         *)
(* Nothing is said of slots, of the mutex or of the condition variable:    *)
(* module JQueue says how the code does it, and implements this one.       *)
(***************************************************************************)
EXTENDS Naturals, Sequences

CONSTANTS Jobs,         \* the contents a job may have
          NoJob,        \* "the worker has no job"
          MaxlenQueue   \* the capacity given to the constructor

VARIABLES stack,    \* the jobs pushed and not taken, the newest last
          current,  \* the job the worker is at, or NoJob
          ended     \* end() has been called

vars == <<stack, current, ended>>

Init ==
  /\ stack = <<>>
  /\ current = NoJob
  /\ ended = FALSE

Push(j) ==
  /\ Len(stack) < MaxlenQueue
  /\ stack' = Append(stack, j)
  /\ UNCHANGED <<current, ended>>

Take ==
  /\ ~ended
  /\ current = NoJob
  /\ stack # <<>>
  /\ current' = stack[Len(stack)]
  /\ stack' = SubSeq(stack, 1, Len(stack) - 1)
  /\ UNCHANGED ended

Finish ==
  /\ current # NoJob
  /\ current' = NoJob
  /\ UNCHANGED <<stack, ended>>

End ==
  /\ ~ended
  /\ ended' = TRUE
  /\ UNCHANGED <<stack, current>>

Next ==
  \/ \E j \in Jobs : Push(j)
  \/ Take
  \/ Finish
  \/ End

Spec == Init /\ [][Next]_vars
=============================================================================
