------------------------------- MODULE Upload -------------------------------
(* A client and the server: Client::sender() of src/autousi/client.cpp, which   *)
(* takes games from the queue and sends each over a connection of its own, and  *)
(* a download of the newest weight beside it, both against the connections of   *)
(* Peer. OSI::Conn (src/common/osi.cpp) throws on a time-out, on the end of the  *)
(* stream and on an error; the connection is closed on the way out.             *)
EXTENDS Peer

CONSTANTS NRec,      \* games, taken from the queue in the order of their numbers
          LenRec,    \* [game -> length of its compressed record]
          MaxRetry,  \* snd_max_retry
          Works      \* what there is to do at first: games left, and whether to download

Games == 1 .. NRec
Loader == 0                    \* the connection of the download
Senders == Conns \ {Loader}    \* the connections of the sender

VARIABLES snd,      \* the sender: pc, game, retry_count, connection, units written
          nsend, ndiscard, has_conn,
          stop,     \* how far Client::end() is: "no", _quit set, _bEnd set, notified
          via,      \* history: the connection over which a game was counted as sent
          ld        \* the download: pc, the weight it was told of, blocks, what it has read
vars == <<conn, peer, wght, taken, ignored, snd, nsend, ndiscard, has_conn, stop, via, ld>>
sndVars == <<snd, nsend, ndiscard, has_conn, via>>

Body(g)   == [j \in 1 .. LenRec[g] |-> Unit("body", g, j)]
Stream(g) == <<Cmd("rec"), Num(LenRec[g])>> \o Body(g)

----------------------------------------------------------------------------
\* The sender. What is left of the games is in the queue; pop() gives one out unless
\* _bEnd is set. With an empty queue its predicate is false: then it blocks, without a
\* time-out, until it is notified or wakes for no reason (module JQueue).
HasQuit == stop # "no"
HasEnd  == stop \in {"bEnd", "notified"}

Take == /\ snd.pc = "take" /\ snd.game < NRec /\ ~HasEnd
        /\ snd' = [snd EXCEPT !.pc = "connect", !.game = @ + 1, !.retry = 0]
        /\ UNCHANGED <<peerVars, nsend, ndiscard, has_conn, stop, via, ld>>

\* The sender goes from one place to another and does nothing else.
Goes(from, to) == /\ snd.pc = from
                  /\ snd' = [snd EXCEPT !.pc = to]
                  /\ UNCHANGED <<peerVars, nsend, ndiscard, has_conn, stop, via, ld>>

Leave  == HasEnd /\ Goes("take", "end")
Block  == snd.game = NRec /\ ~HasEnd /\ Goes("take", "block")
Sleep  == Goes("block", "asleep")
Wakeup == Goes("asleep", "take")

\* Where _quit is seen the game in hand is neither sent nor counted, and pop() is next.
Drop == HasQuit /\ Goes("connect", "take")

NextConn == snd.c + 1
Connect == /\ snd.pc = "connect" /\ ~HasQuit /\ NextConn \in Conns
           /\ snd' = [snd EXCEPT !.pc = "header", !.c = NextConn, !.cut = 0]
           /\ conn' = [conn EXCEPT ![NextConn].st = "backlog"]
           /\ UNCHANGED <<peer, wght, records, nsend, ndiscard, has_conn, stop, via, ld>>

Header == /\ snd.pc = "header" /\ conn[snd.c].down # <<>>
          /\ conn' = [conn EXCEPT ![snd.c].down = Tail(@)]
          /\ snd' = [snd EXCEPT !.pc = "send"]
          /\ UNCHANGED <<peer, wght, records, nsend, ndiscard, has_conn, stop, via, ld>>

\* The kernel takes some of the stream. What is written to a connection that the
\* server has closed is lost, and the client need not notice.
Written(c, units) == IF conn[c].st = "shut" \/ conn[c].rst THEN conn
                     ELSE [conn EXCEPT ![c].up = @ \o units]
Write == /\ snd.pc = "send" /\ ~conn[snd.c].rst
         /\ \E n \in 1 .. Len(Stream(snd.game)) - snd.cut :
              LET cut == snd.cut + n
                  all == cut = Len(Stream(snd.game))
              IN /\ conn' = Written(snd.c, SubSeq(Stream(snd.game), snd.cut + 1, cut))
                 /\ snd' = [snd EXCEPT !.cut = cut, !.pc = IF all THEN "close" ELSE @]
                 /\ nsend' = IF all THEN nsend + 1 ELSE nsend
                 /\ has_conn' = (all \/ has_conn)
                 /\ via' = IF all THEN [via EXCEPT ![snd.game] = snd.c] ELSE via
         /\ UNCHANGED <<peer, wght, records, ndiscard, stop, ld>>

\* The destructor of the connection.
Finish(k) == [k EXCEPT !.fin = TRUE, !.down = <<>>]
Done == /\ snd.pc = "close"
        /\ conn' = [conn EXCEPT ![snd.c] = Finish(@)]
        /\ snd' = [snd EXCEPT !.pc = "take"]
        /\ UNCHANGED <<peer, wght, records, nsend, ndiscard, has_conn, stop, via, ld>>

\* connect(), receive_header() or send() throws: the server is not there, a
\* time-out, the end of the stream or an error. Some more of the record may have
\* been sent before; never all of it.
GiveUp(retry) == MaxRetry < retry
NextTry(retry) == retry + 1

ThrowsAt == {"connect", "header", "send"}
Fail == /\ snd.pc \in ThrowsAt /\ ~(snd.pc = "connect" /\ HasQuit)
        /\ LET retry == NextTry(snd.retry)
           IN /\ snd' = [snd EXCEPT !.retry = retry,
                                    !.pc = IF GiveUp(retry) THEN "take" ELSE "connect"]
              /\ ndiscard' = IF GiveUp(retry) THEN ndiscard + 1 ELSE ndiscard
        /\ has_conn' = FALSE
        /\ conn' = IF snd.pc = "connect" THEN conn ELSE [conn EXCEPT ![snd.c] = Finish(@)]
        /\ UNCHANGED <<peer, wght, records, nsend, stop, via, ld>>

\* Mutation: nobody is notified.
StaysAsleep(k) == k

\* notify_one(): a sender that is not blocked yet does not notice.
Notified(k) == IF k.pc = "asleep" THEN [k EXCEPT !.pc = "take"] ELSE k

\* Client::end(): _quit, then _bEnd and notify_one() of JQueue::end().
Quit == /\ stop = "no" /\ stop' = "quit"
        /\ UNCHANGED <<peerVars, sndVars, ld>>
SetEnd == /\ stop = "quit" /\ stop' = "bEnd"
          /\ UNCHANGED <<peerVars, sndVars, ld>>
Notify == /\ stop = "bEnd" /\ stop' = "notified"
          /\ snd' = Notified(snd)
          /\ UNCHANGED <<peerVars, nsend, ndiscard, has_conn, via, ld>>

----------------------------------------------------------------------------
\* The download asks for the next thing when it has read the last one.
LoadConnect == /\ ld.pc = "start"
               /\ conn' = [conn EXCEPT ![Loader].st = "backlog"]
               /\ ld' = [ld EXCEPT !.pc = "hello"]
               /\ UNCHANGED <<peer, wght, records, sndVars, stop>>
Ask(i) == IF i = None THEN <<Cmd("info")>> ELSE <<Cmd("wght"), Num(i)>>
LoadRead ==
  LET down == conn[Loader].down
      Reads(n) == conn' = [conn EXCEPT ![Loader].down = SubSeq(@, n + 1, Len(@))]
      Asks(n, i) == conn' = [conn EXCEPT ![Loader].down = SubSeq(@, n + 1, Len(@)),
                                         ![Loader].up = @ \o Ask(i)]
  IN /\ \/ /\ ld.pc = "hello" /\ Len(down) >= 1 /\ Asks(1, None)
           /\ ld' = [ld EXCEPT !.pc = "info"]
        \/ /\ ld.pc = "info" /\ Len(down) >= 2 /\ Asks(2, 0)
           /\ ld' = [ld EXCEPT !.pc = "len", !.no = down[1].n, !.nblock = down[2].n]
        \/ /\ ld.pc = "len" /\ Len(down) >= 1 /\ Reads(1)
           /\ ld' = [ld EXCEPT !.pc = "block", !.need = down[1].n]
        \/ /\ ld.pc = "block" /\ Len(down) >= ld.need
           /\ IF ld.i + 1 < ld.nblock THEN Asks(ld.need, ld.i + 1) ELSE Reads(ld.need)
           /\ ld' = [ld EXCEPT !.i = @ + 1, !.got = @ \o SubSeq(down, 1, ld.need),
                               !.pc = IF ld.i + 1 < ld.nblock THEN "len" ELSE "close"]
     /\ UNCHANGED <<peer, wght, records, sndVars, stop>>
LoadClose == /\ ld.pc \in {"hello", "info", "len", "block", "close"}
             /\ conn' = [conn EXCEPT ![Loader] = Finish(@)]
             /\ ld' = [ld EXCEPT !.pc = IF @ = "close" THEN "loaded" ELSE "failed"]
             /\ UNCHANGED <<peer, wght, records, sndVars, stop>>

----------------------------------------------------------------------------
Init == /\ PeerInit
        /\ \E w \in Works :
             /\ snd = [pc |-> "take", game |-> NRec - w.games, retry |-> 0, c |-> 0, cut |-> 0]
             /\ wght = IF w.load THEN 1 ELSE Len(LenWght)   \* news matter to a download only
             /\ ld = [pc |-> IF w.load THEN "start" ELSE "loaded", no |-> None, nblock |-> 0,
                      i |-> 0, need |-> 0, got |-> <<>>]
        /\ nsend = 0 /\ ndiscard = 0 /\ has_conn = TRUE /\ stop = "no"
        /\ via = [g \in Games |-> None]

Client == Take \/ Leave \/ Block \/ Sleep \/ Drop \/ Connect \/ Header \/ Write \/ Done \/ Fail
End    == SetEnd \/ Notify
Server == /\ \/ \E c \in Conns : Accept(c) \/ Reset(c)
             \/ \E u \in 1 .. MaxAccept : Recv(u) \/ Send(u) \/ Expire(u)
             \/ Publish
          /\ UNCHANGED <<sndVars, stop, ld>>
Next == Client \/ Wakeup \/ Quit \/ End \/ LoadConnect \/ LoadRead \/ LoadClose \/ Server

\* The sender's thread runs, and so does the one that has called end(). The waits for
\* the server have a time-out each; the one in pop() has none, and nothing is assumed
\* that would end it (Wakeup), as nothing is of the server and of the network.
Fairness == WF_vars(Client) /\ WF_vars(End)
Spec == Init /\ [][Next]_vars /\ Fairness

----------------------------------------------------------------------------
\* The server reads records as they were sent, whole, whatever pieces they came in and
\* whoever had the slot before; no game twice, however often sending it was tried, and
\* none that the client has counted as lost. So none is recorded twice, and none is
\* recorded and ignored.
RecordedOnceAndWhole ==
  /\ \A n \in DOMAIN taken : \E g \in Games : taken[n] = Body(g) /\ via[g] # None
  /\ IsInjective(taken)

\* The bodies given to RecKeep::add(), and those logged as ignored.
Added   == {taken[n] : n \in DOMAIN taken \ ignored}
Ignored == {taken[n] : n \in ignored}

\* A game that counts as sent, fits, and whose connection was neither reset nor
\* closed by the server before its end is recorded when the stream has been read,
\* unless the address was on the ignore list then: the client is not told, the server
\* has read the record whole and logged it.
Fits(g) == Len(Stream(g)) <= MaxRecv
SentArrives ==
  \A g \in Games : via[g] # None /\ Fits(g) =>
     LET c == conn[via[g]]
     IN c.st = "open" /\ c.up = <<>> /\ ~c.rst => Body(g) \in Added \union Ignored

\* What the download has read is the weight it was told of, from its start; what
\* it takes for the length of a block is one.
AnswersAsAsked == /\ \A j \in DOMAIN ld.got : ld.got[j] = Unit("part", ld.no, j)
                  /\ ld.pc = "len" /\ conn[Loader].down # <<>> =>
                       conn[Loader].down[1].k = "num"
                  /\ ld.pc = "loaded" /\ ld.no # None => Len(ld.got) = LenWght[ld.no]

\* Every game is sent or given up, though the server may never answer; then the sender
\* blocks in pop().
SenderGoesOn == <>(HasQuit \/ (snd.pc = "asleep" /\ snd.game = NRec))

\* Client::end() ends the sender wherever it is, unless the sender stands between its
\* test of _bEnd and its block when _bEnd is set: then the notification may miss it
\* (jqueue.hpp:57 takes no lock), as module JQueue shows.
QuitEndsSenderUnlessBlocking == (stop = "bEnd" /\ snd.pc # "block") ~> (snd.pc = "end")
=============================================================================
