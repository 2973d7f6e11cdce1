----------------------------- MODULE LineReader -----------------------------
(* The lines of a child process: Reader and Child of src/common/child.cpp, with *)
(* the two loops of PlayManager that read them (src/autousi/play.cpp). A child   *)
(* has two pipes, each with a reader thread that gathers a line and hands it to  *)
(* the main thread. One mutex guards everything; every wait on a condition      *)
(* variable has a predicate that changes under it, so waiting is a guard here.  *)
EXTENDS Integers, Sequences, FiniteSets, SequencesExt

CONSTANTS Text,       \* [pipe -> the lines, sequences of characters, the child writes]
          Broken,     \* the pipes whose last line has no end of line
          BufSize,    \* BUFSIZ
          MaxChild    \* Param::maxnum_child

Pipes == DOMAIN Text
NL == "\n"
Stream(r) == LET all == FlattenSeq([i \in DOMAIN Text[r] |-> Append(Text[r][i], NL)])
             IN IF r \in Broken THEN Front(all) ELSE all

VARIABLES rd,         \* [pc, rest, buf, line, eof]: the reader threads
          is_eof, has_line, do_read, is_ready, num_ready,
          main,       \* the main thread: pc, is_ready_unlock, the flags of the ends
          mode,       \* "play": manage_play(), "end": PlayManager::end()
          got,        \* the lines the main thread was given
          died        \* "Internal Error"
shared == <<is_eof, has_line, do_read, is_ready, num_ready>>
vars == <<rd, shared, main, mode, got, died>>

Live == ~died

----------------------------------------------------------------------------
\* Reader::worker(). What is in the buffer is gone through up to an end of line,
\* what is behind it stays for the next turn.
Fill(r) ==
  /\ rd[r].pc = "scan" /\ rd[r].buf = <<>> /\ ~rd[r].eof
  /\ \/ \E n \in 1 .. BufSize :
          /\ n <= Len(rd[r].rest)
          /\ rd' = [rd EXCEPT ![r].buf = SubSeq(rd[r].rest, 1, n),
                              ![r].rest = SubSeq(@, n + 1, Len(@))]
     \/ /\ rd[r].rest = <<>>
        /\ rd' = [rd EXCEPT ![r].eof = TRUE,
                            ![r].buf = IF rd[r].line # <<>> THEN <<NL>> ELSE <<>>]
  /\ UNCHANGED <<shared, main, mode, got, died>>

Scan(r) ==
  LET buf == rd[r].buf
      ends == {i \in DOMAIN buf : buf[i] = NL}
      pos == CHOOSE i \in ends : \A j \in ends : i <= j
  IN /\ rd[r].pc = "scan" /\ buf # <<>>
     /\ rd' = IF ends = {}
                THEN [rd EXCEPT ![r].line = @ \o buf, ![r].buf = <<>>]
                ELSE [rd EXCEPT ![r].line = @ \o SubSeq(buf, 1, pos - 1),
                                ![r].buf = SubSeq(@, pos + 1, Len(@)),
                                ![r].pc = "give"]
     /\ UNCHANGED <<shared, main, mode, got, died>>

\* A line, or the end, is handed over.
Give(r, eof) ==
  /\ died' = (is_ready[r] \/ num_ready = MaxChild)
  /\ is_eof' = [is_eof EXCEPT ![r] = eof]
  /\ has_line' = [has_line EXCEPT ![r] = ~eof]
  /\ do_read' = [do_read EXCEPT ![r] = FALSE]
  /\ num_ready' = num_ready + 1
  /\ is_ready' = [is_ready EXCEPT ![r] = TRUE]
  /\ rd' = [rd EXCEPT ![r].pc = IF eof THEN "done" ELSE "hold"]
  /\ UNCHANGED <<main, mode, got>>
GiveLine(r) == rd[r].pc = "give" /\ Give(r, FALSE)
GiveEnd(r) == rd[r].pc = "scan" /\ rd[r].buf = <<>> /\ rd[r].eof /\ Give(r, TRUE)

\* Mutation: the line is not emptied for the next one.
NextLineKeepsText(k) == [k EXCEPT !.pc = "scan"]

NextLine(k) == [k EXCEPT !.pc = "scan", !.line = <<>>]
Resume(r) ==
  /\ rd[r].pc = "hold" /\ do_read[r]
  /\ died' = is_ready[r]
  /\ rd' = [rd EXCEPT ![r] = NextLine(@)]
  /\ UNCHANGED <<shared, main, mode, got>>

----------------------------------------------------------------------------

\* Mutation: the end is taken like a line.
ReadyAtEndTaken(r) == /\ is_ready' = [is_ready EXCEPT ![r] = FALSE]
                      /\ num_ready' = num_ready - 1

\* Reader::getline(): 0 at the end, which stays ready for ever.
ReadyAtEnd(r) == UNCHANGED <<is_ready, num_ready>>
GetLine(r) ==
  /\ is_eof[r] \/ has_line[r]
  /\ died' = (~is_ready[r] \/ num_ready = 0)
  /\ IF is_eof[r] THEN ReadyAtEnd(r) /\ UNCHANGED <<has_line, do_read, got>>
     ELSE /\ got' = [got EXCEPT ![r] = Append(@, rd[r].line)]
          /\ is_ready' = [is_ready EXCEPT ![r] = FALSE]
          /\ num_ready' = num_ready - 1
          /\ has_line' = [has_line EXCEPT ![r] = FALSE]
          /\ do_read' = [do_read EXCEPT ![r] = TRUE]
  /\ UNCHANGED <<rd, is_eof, mode>>

\* Child::wait() looks at what is ready, on a notification or a time-out.
Wait == /\ main.pc = "wait"
        /\ main' = [main EXCEPT !.pc = "err", !.snap = is_ready, !.ends = {}]
        /\ UNCHANGED <<rd, shared, mode, got, died>>

\* One line from each pipe that was ready, the errors first. In "end" the child is
\* closed when both have ended in the same turn; in "play" an end of either is fatal,
\* and all lines are read first.
After(r, ends) ==
  CASE r = "err" -> "in"
    [] r = "in" /\ mode = "end"  -> IF ends = Pipes THEN "close" ELSE "wait"
    [] r = "in" /\ mode = "play" -> IF ends # {} THEN "drain_err" ELSE "wait"
Poll(r) ==
  LET ends == main.ends \union (IF main.snap[r] /\ is_eof[r] THEN {r} ELSE {})
  IN /\ main.pc = r
     /\ IF main.snap[r] THEN GetLine(r) ELSE UNCHANGED <<rd, shared, mode, got, died>>
     /\ main' = [main EXCEPT !.ends = ends, !.pc = After(r, ends)]

Drain(r, here, next) ==
  /\ main.pc = here /\ GetLine(r)
  /\ main' = IF is_eof[r] THEN [main EXCEPT !.pc = next] ELSE main

\* Child::close() joins both threads.
Close == /\ main.pc = "close" /\ \A r \in Pipes : rd[r].pc = "done"
         /\ num_ready' = num_ready - Cardinality({r \in Pipes : is_ready[r]})
         /\ is_ready' = [r \in Pipes |-> FALSE]
         /\ main' = [main EXCEPT !.pc = "closed"]
         /\ UNCHANGED <<rd, is_eof, has_line, do_read, mode, got, died>>

Init == /\ rd = [r \in Pipes |-> [pc |-> "scan", rest |-> Stream(r), buf |-> <<>>,
                                  line |-> <<>>, eof |-> FALSE]]
        /\ is_eof = [r \in Pipes |-> FALSE] /\ has_line = [r \in Pipes |-> FALSE]
        /\ do_read = [r \in Pipes |-> TRUE] /\ is_ready = [r \in Pipes |-> FALSE]
        /\ num_ready = 0
        /\ main = [pc |-> "wait", snap |-> is_ready, ends |-> {}]
        /\ mode \in {"play", "end"}
        /\ got = [r \in Pipes |-> <<>>] /\ died = FALSE

Worker(r) == Live /\ (Fill(r) \/ Scan(r) \/ GiveLine(r) \/ GiveEnd(r) \/ Resume(r))
Main == Live /\ (\/ Wait \/ Poll("err") \/ Poll("in") \/ Close
                 \/ Drain("err", "drain_err", "drain_in") \/ Drain("in", "drain_in", "closed"))
Next == Main \/ \E r \in Pipes : Worker(r)
\* Every thread runs; the child writes its lines and ends.
Fairness == WF_vars(Main) /\ \A r \in Pipes : WF_vars(Worker(r))
Spec == Init /\ [][Next]_vars /\ Fairness

----------------------------------------------------------------------------
\* The main thread is given the lines of each pipe in their order, whole, however
\* the pipe was cut, and all of them before the child is closed or given up. A
\* hand-over always finds the last one taken; and with at most half of maxnum_child
\* children their readers, two each, do not meet the count that ends the process.
LinesInOrder == /\ ~died
                /\ \A r \in Pipes : /\ IsPrefix(got[r], Text[r])
                                    /\ main.pc = "closed" => got[r] = Text[r]

\* The loop ends when the child has: an end of a pipe that was read once is still
\* there when the other pipe's end is read.
ChildIsClosed == <>(main.pc = "closed")
=============================================================================
