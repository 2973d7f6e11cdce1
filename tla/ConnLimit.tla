----------------------------- MODULE ConnLimit -----------------------------
(***************************************************************************)
(* Listen::handle_connect() of src/server/listen.cpp: the connections that *)
(* one address opens, and the limits on their rate.                        *)
(*                                                                         *)
(* The table of addresses holds for each a ring of the times at which its  *)
(* latest connections were counted, and how many were counted in all       *)
(* (IAddrValue).  The n-th last time is read at (len - n) mod the length   *)
(* of the ring.  Three limits read it: more than maxconn_sec connections   *)
(* in a second or maxconn_min in a minute are refused, cutconn_min in a    *)
(* minute put the address into the deny list.                              *)
(*                                                                         *)
(* The server handles at most one connection per turn of its loop, at the  *)
(* time _now it read at the start of that turn.                            *)
(***************************************************************************)
EXTENDS Integers, Sequences

CONSTANTS
  maxconn_sec,    \* MaxConnPerAddrSec
  maxconn_min,    \* MaxConnPerAddrMin
  cutconn_min,    \* CutConnPerAddrMin
  Second,         \* ticks of the clock in a second
  Minute,         \* ticks of the clock in a minute
  max_accept,     \* MaxAccept
  ClockStepsBack, \* system_clock may be set back
  MaxNow,         \* bound: the last time
  MaxRefused,     \* bound: refused connections
  MaxCounted      \* bound: counted connections of an entry

ASSUME ConnLimitAssumption ==
  /\ maxconn_sec \in Nat \ {0, 1}      \* server.cpp: 1U < u
  /\ maxconn_min \in Nat \ {0, 1}
  /\ cutconn_min \in Nat \ {0, 1}
  /\ Second \in Nat \ {0} /\ Minute \in Nat \ {0}
  /\ max_accept \in Nat
  /\ ClockStepsBack \in BOOLEAN
  /\ MaxNow \in Nat
  /\ MaxRefused \in Nat
  /\ MaxCounted \in Nat

VARIABLES
  now,      \* _now
  known,    \* the address has an initialized entry in _maxconn_table
  len,      \* IAddrValue::_len
  ring,     \* IAddrValue::_tbl_recv_time
  denied,   \* the address is in _deny_list
  peers,    \* slots of _pPeer in use, by any address
  leaked,   \* sockets accepted from the address, in no slot and not closed
  counted   \* the times of the counted connections since the entry was made
            \* (used by properties only)

vars == <<now, known, len, ring, denied, peers, leaked, counted>>

MaxOf(a, b) == IF a < b THEN b ELSE a

\* _maxconn_len
RingLen == MaxOf(MaxOf(maxconn_sec, maxconn_min), cutconn_min) + 1
RingAt == 0 .. RingLen - 1

\* Fresh entries hold a time that is an hour old.
Hour == 60 * Minute

Init ==
  /\ now = 0
  /\ known = FALSE
  /\ len = 0
  /\ ring = [i \in RingAt |-> 0]
  /\ denied = FALSE
  /\ peers = 0
  /\ leaked = 0
  /\ counted = <<>>

\* The ring that handle_connect() reads: IAddrValue::reset() fills a new entry's.
Ring == IF known THEN ring ELSE [i \in RingAt |-> now - Hour]

\* Mutation: the limit is not looked at until there is one connection more.
ReachedOffByOne(n, window) ==
  /\ n < len
  /\ now < Ring[(len - n) % RingLen] + window

\* The limit of n connections within a window is reached.
Reached(n, window) ==
  /\ n <= len
  /\ now < Ring[(len - n) % RingLen] + window

\* The table has an entry of the address afterwards.
Entered == known' = TRUE /\ ring' = Ring

-----------------------------------------------------------------------------
(* A connection from the address, by what becomes of it.  Of an address in *)
(* the deny list nothing is recorded: it is logged, at most every three    *)
(* seconds, and closed.                                                    *)

OverRate == Reached(maxconn_sec, Second) \/ Reached(maxconn_min, Minute)

\* Too many in a minute for the third limit: the socket is closed.
Deny ==
  /\ ~denied
  /\ Reached(cutconn_min, Minute)
  /\ denied' = TRUE
  /\ Entered
  /\ UNCHANGED <<now, len, peers, leaked, counted>>

\* Too many in a second or in a minute: the handler returns and does not close
\* the socket.
Refuse ==
  /\ ~denied
  /\ ~Reached(cutconn_min, Minute)
  /\ OverRate
  /\ leaked < MaxRefused
  /\ leaked' = leaked + 1
  /\ Entered
  /\ UNCHANGED <<now, len, denied, peers, counted>>

\* Mutation: the time is recorded in the slot after the one it belongs in.
RecordedNextSlot == [Ring EXCEPT ![(len + 1) % RingLen] = now]

Recorded == [Ring EXCEPT ![len % RingLen] = now]

PeersTaken == IF peers < max_accept THEN peers + 1 ELSE peers

\* The connection counts.  It takes a slot of _pPeer, or all of them are taken and
\* it is closed.
Count ==
  /\ ~denied
  /\ ~Reached(cutconn_min, Minute)
  /\ ~OverRate
  /\ Len(counted) < MaxCounted
  /\ known' = TRUE
  /\ ring' = Recorded
  /\ len' = len + 1
  /\ counted' = Append(counted, now)
  /\ peers' = PeersTaken
  /\ UNCHANGED <<now, denied, leaked>>

Connect == Deny \/ Refuse \/ Count

-----------------------------------------------------------------------------
(* What else happens between two connections of the address.               *)

\* Another turn of the loop.
Tick ==
  /\ \E t \in 0 .. MaxNow : (ClockStepsBack \/ now <= t) /\ now' = t
  /\ UNCHANGED <<known, len, ring, denied, peers, leaked, counted>>

\* Another address takes a slot, or a slot is cleared: reset, closed by the peer,
\* timed out, a bad command.
OtherPeer ==
  /\ peers < max_accept
  /\ peers' = peers + 1
  /\ UNCHANGED <<now, known, len, ring, denied, leaked, counted>>

PeerCleared ==
  /\ 0 < peers
  /\ peers' = peers - 1
  /\ UNCHANGED <<now, known, len, ring, denied, leaked, counted>>

\* The table is full and the entry is its least recently used one.
Evict ==
  /\ known
  /\ known' = FALSE
  /\ len' = 0
  /\ ring' = [i \in RingAt |-> 0]
  /\ counted' = <<>>
  /\ UNCHANGED <<now, denied, peers, leaked>>

\* wait() looks at how much was sent to the address of a peer, and that makes an
\* entry of one that was evicted.
Remade ==
  /\ ~known
  /\ 0 < peers
  /\ Entered
  /\ UNCHANGED <<now, len, denied, peers, leaked, counted>>

\* The operator takes the address out of the file of the deny list, and the worker
\* thread reads it again.
Pardoned ==
  /\ denied
  /\ denied' = FALSE
  /\ UNCHANGED <<now, known, len, ring, peers, leaked, counted>>

Next == Connect \/ Tick \/ OtherPeer \/ PeerCleared \/ Evict \/ Remade \/ Pardoned

Spec == Init /\ [][Next]_vars

-----------------------------------------------------------------------------
(* Properties.                                                             *)

\* Types of the variables.
TypeOK ==
  /\ now \in 0 .. MaxNow
  /\ known \in BOOLEAN
  /\ len \in Nat
  /\ ring \in [RingAt -> Int]
  /\ denied \in BOOLEAN
  /\ peers \in 0 .. max_accept
  /\ leaked \in 0 .. MaxRefused
  /\ counted \in Seq(0 .. MaxNow)

\* The ring tells the times of the latest connections, whatever has been
\* overwritten in it: the n-th last one is at (len - n) mod its length.
RingTells ==
  /\ len = Len(counted)
  /\ ~known => len = 0
  /\ \A n \in 1 .. RingLen : n <= len => ring[(len - n) % RingLen] = counted[len - n + 1]

\* No window of a second holds more than maxconn_sec counted connections and none
\* of a minute more than maxconn_min, as long as the address keeps its entry.
RateLimited ==
  /\ \A i, k \in 1 .. Len(counted) : k = i + maxconn_sec => counted[k] >= counted[i] + Second
  /\ \A i, k \in 1 .. Len(counted) : k = i + maxconn_min => counted[k] >= counted[i] + Minute

\* The deny list gets an address only after cutconn_min counted connections, the
\* first of them less than a minute ago.
DeniedOverLimit ==
  [][denied' => denied \/
       /\ cutconn_min <= Len(counted)
       /\ now < counted[Len(counted) - cutconn_min + 1] + Minute]_vars

\* With a clock that is not set back and the defaults of server.cpp:52-53 (256, 1024)
\* or those of server.cfg (128, 1024) no address is ever put into the deny list: a
\* refused connection is not counted, so a minute never holds more than maxconn_min.
NeverDenied == (~ClockStepsBack /\ maxconn_min < cutconn_min) => ~denied

\* Times in order; this is what a clock that steps back takes away.
InOrder ==
  ~ClockStepsBack =>
    /\ \A i, k \in 1 .. Len(counted) : i <= k => counted[i] <= counted[k]
    /\ \A i \in 1 .. Len(counted) : counted[i] <= now

\* Inductive.
IInv == TypeOK /\ RingTells /\ RateLimited /\ InOrder /\ NeverDenied

\* server.cfg:4 says that MaxAccept bounds the connections (and their memory): the
\* sockets held open for players are no more than that.
OpenSocketsBounded == peers + leaked <= max_accept
=============================================================================
