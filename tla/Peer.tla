-------------------------------- MODULE Peer --------------------------------
(* The server's end of its connections: handle_connect(), handle_recv() and     *)
(* handle_send() of src/server/listen.cpp, for connections of one address that  *)
(* carry records, requests for the newest weight's information, and requests    *)
(* for its blocks. A byte stream is a sequence of units: a command, a number,   *)
(* one part of a record's body or of a block. TCP cuts it anywhere.             *)
EXTENDS Integers, Sequences, FiniteSets, SequencesExt

CONSTANTS Conns,      \* connections, numbers in the order of connect()
          MaxAccept,  \* _max_accept
          MaxRecv,    \* _max_recv, in units
          MaxSend,    \* _max_send, in units; the number in front of a block is one
          LenBlock,   \* _len_block
          LenWght,    \* [weight number -> length]
          Resets,     \* bound on the connections that the network resets
          None

VARIABLES conn,   \* [st, up, fin, rst, down]: a connection and what it carries
          peer,   \* _pPeer: the slots
          wght,   \* the server's newest weight
          taken,  \* the bodies of the records that were whole, in this order
          ignored \* the places in `taken' of those that were logged as ignored; the
                  \* others were given to RecKeep::add()
records  == <<taken, ignored>>
peerVars == <<conn, peer, wght, records>>

Unused == [st |-> "none", up |-> <<>>, fin |-> FALSE, rst |-> FALSE, down |-> <<>>]
Open(p) == p.sckt # None

\* A unit: a command, a number, or part j of the body of record n or of weight n.
Unit(k, n, j) == [k |-> k, n |-> n, j |-> j]
Units   == [k : {"hello", "rec", "info", "wght", "num", "body", "part"}, n : Nat, j : Nat]
Cmd(k)  == Unit(k, 0, 0)
Num(n)  == Unit("num", n, 0)

Clear(p) == [p EXCEPT !.sckt = None, !.wght = None]

----------------------------------------------------------------------------

\* Mutation: the buffer of the slot is not emptied for a new connection.
FreshKeepsBuf(p, c) == [p EXCEPT !.sckt = c, !.stat = "header"]

\* A connection is taken into the first free slot; without one it is closed.
\* The limits and the deny list (ConnLimit) close a connection or leave it alone:
\* then it stays open and nobody reads it (`mute').
Fresh(p, c) == [p EXCEPT !.sckt = c, !.buf = <<>>, !.stat = "header"]
Accept(c) ==
  LET free == {u \in 1 .. MaxAccept : ~Open(peer[u])}
      slot == CHOOSE u \in free : \A v \in free : u <= v
  IN /\ conn[c].st = "backlog"
     /\ \E st \in {"open", "shut", "mute"} :
          /\ st = "open" => free # {}
          /\ conn' = [conn EXCEPT ![c].st = st]
          /\ peer' = IF st = "open" THEN [peer EXCEPT ![slot] = Fresh(@, c)] ELSE peer
     /\ UNCHANGED <<wght, records>>

\* Mutation: a record is found whole one part late.
WholeLate(b) == Len(b) > 2 + b[2].n

\* handle_recv()'s loop over the buffer: one turn takes a record that is whole, or
\* says what to do: wait for more, answer, or close.
Whole(b) == Len(b) >= 2 + b[2].n
Turn(r) ==
  LET b == r.rest
      n == 2 + b[2].n
      Stop(do) == [r EXCEPT !.do = do]
  IN CASE r.do # "turn" -> r
       [] r.do = "turn" /\ b = <<>> -> Stop("wait")
       [] r.do = "turn" /\ b # <<>> /\ b[1].k = "rec" ->
            IF Len(b) <= 2 THEN Stop("wait")
            ELSE IF MaxRecv < n THEN Stop("close")
            ELSE IF ~Whole(b) THEN Stop("wait")
            ELSE [r EXCEPT !.rest = SubSeq(b, n + 1, Len(b)),
                           !.recs = Append(@, SubSeq(b, 3, n))]
       [] r.do = "turn" /\ b # <<>> /\ b[1].k = "info" -> [Stop("info") EXCEPT !.rest = Tail(b)]
       [] r.do = "turn" /\ b # <<>> /\ b[1].k = "wght" -> Stop("wght")
       [] OTHER -> Stop("close")
Parse(buf) ==
  LET turn[i \in Nat] == IF i = 0 THEN [do |-> "turn", rest |-> buf, recs |-> <<>>]
                                  ELSE Turn(turn[i-1])
  IN turn[Len(buf) + 1]

\* Mutation: a block is sent from where the last one ended.
AskedKeepsSent(p, i) == [p EXCEPT !.stat = "wght", !.iblock = i]

\* A block is to be sent from its start.
Asked(p, i) == [p EXCEPT !.stat = "wght", !.iblock = i, !.sent = 0]

\* The slot after the loop, cleared or not.
Handled(p, r) ==
  LET q == [p EXCEPT !.buf = r.rest]
      TooFar == LenWght[p.wght] < LenBlock * r.rest[2].n
  IN CASE r.do = "wait"  -> q
       [] r.do = "close" -> Clear(q)
       [] r.do = "info"  -> IF p.stat # "idle" THEN Clear(q)
                            ELSE [q EXCEPT !.wght = wght, !.stat = "info"]
       [] r.do = "wght"  -> IF p.stat # "idle" \/ p.wght = None THEN Clear(q)
                            ELSE IF Len(r.rest) < 2 THEN q
                            ELSE IF TooFar THEN Clear(q)
                            ELSE Asked([q EXCEPT !.buf = SubSeq(@, 3, Len(@))],
                                       r.rest[2].n)

\* A slot that is cleared closes its connection; what was not read is lost.
Shut(k) == [k EXCEPT !.st = "shut", !.up = <<>>]
Read(k, n) == [k EXCEPT !.up = SubSeq(@, n + 1, Len(@))]
Close(u) == /\ peer' = [peer EXCEPT ![u] = Clear(@)]
            /\ conn' = [conn EXCEPT ![peer[u].sckt] = Shut(@)]

\* The socket is readable: some bytes, the end of the stream, or a reset. An operator
\* may put the address on the ignore list and take it off at any time; the list is
\* read again between two calls of handle_recv() (wait()), never in one.
Recv(u) ==
  LET p == peer[u]
      c == p.sckt
  IN /\ Open(p)
     /\ \/ /\ ~conn[c].rst /\ conn[c].up # <<>>
           /\ \E n \in 1 .. Len(conn[c].up) :
                LET r == Parse(p.buf \o SubSeq(conn[c].up, 1, n))
                    q == Handled(p, r)
                IN /\ n <= MaxRecv - Len(p.buf)
                   /\ peer' = [peer EXCEPT ![u] = q]
                   /\ conn' = [conn EXCEPT ![c] = IF Open(q) THEN Read(@, n) ELSE Shut(@)]
                   /\ taken' = taken \o r.recs
                   /\ \/ ignored' = ignored
                      \/ ignored' = ignored \union (Len(taken) + 1 .. Len(taken'))
        \/ /\ conn[c].rst \/ (conn[c].up = <<>> /\ conn[c].fin)
           /\ Close(u)
           /\ UNCHANGED records
     /\ UNCHANGED wght

\* What handle_send() writes in one turn, and the slot after it.
Piece(p) ==
  LET start == LenBlock * p.iblock
      whole == IF LenWght[p.wght] - start < LenBlock THEN LenWght[p.wght] - start ELSE LenBlock
      head  == IF p.sent = 0 THEN <<Num(whole)>> ELSE <<>>
      room  == MaxSend - Len(head)
      n     == IF whole - p.sent < room THEN whole - p.sent ELSE room
  IN [out  |-> head \o [j \in 1 .. n |-> Unit("part", p.wght, start + p.sent + j)],
      sent |-> p.sent + n, done |-> p.sent + n = whole]
Blocks(w) == (LenWght[w] \div LenBlock) + (IF LenWght[w] % LenBlock > 0 THEN 1 ELSE 0)
Send(u) ==
  LET p   == peer[u]
      c   == p.sckt
      out == CASE p.stat = "header" -> <<Cmd("hello")>>
               [] p.stat = "info"   -> <<Num(p.wght), Num(Blocks(p.wght))>>
               [] p.stat = "wght"   -> Piece(p).out
  IN /\ Open(p) /\ p.stat # "idle"
     /\ \/ /\ conn[c].rst /\ Close(u)
        \/ /\ ~conn[c].rst
           /\ conn' = [conn EXCEPT ![c].down = @ \o out]
           /\ peer' = IF p.stat = "wght" /\ ~Piece(p).done
                        THEN [peer EXCEPT ![u].sent = Piece(p).sent]
                        ELSE [peer EXCEPT ![u].stat = "idle"]
     /\ UNCHANGED <<wght, records>>

\* A connection lasts _playerTO seconds at most, whatever it does.
Expire(u) == Open(peer[u]) /\ Close(u) /\ UNCHANGED <<wght, records>>

\* WghtKeep finds a newer weight.
Publish == wght + 1 \in DOMAIN LenWght /\ wght' = wght + 1 /\ UNCHANGED <<conn, peer, records>>

\* The network resets a connection: what it carried is gone.
Reset(c) == /\ Cardinality({d \in Conns : conn[d].rst}) < Resets
            /\ conn[c].st \in {"backlog", "open", "mute"} /\ ~conn[c].rst
            /\ conn' = [conn EXCEPT ![c].rst = TRUE, ![c].up = <<>>, ![c].down = <<>>]
            /\ UNCHANGED <<peer, wght, records>>

PeerInit ==
  /\ conn = [c \in Conns |-> Unused]
  /\ peer = [u \in 1 .. MaxAccept |-> [sckt |-> None, buf |-> <<>>, stat |-> "idle",
                                       wght |-> None, iblock |-> 0, sent |-> 0]]
  /\ wght \in DOMAIN LenWght /\ taken = <<>> /\ ignored = {}
=============================================================================
