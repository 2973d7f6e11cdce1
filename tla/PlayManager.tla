----------------------------- MODULE PlayManager -----------------------------
(* The games of autousi (src/autousi/play.cpp): manage_play() goes through the    *)
(* engines that have a line, starts games and moves and loads a new weight when  *)
(* no engine thinks. An engine is a process behind two pipes that answers its    *)
(* commands in order (src/usi-engine/bona/proce.cpp); it searches with the       *)
(* weight of its device.                                                         *)
EXTENDS Integers, Sequences, FiniteSets, FiniteSetsExt

CONSTANTS NEngines,
          MaxWght,    \* bound: the last weight
          MaxMoves    \* bound: moves of a game

Eids == 1 .. NEngines
NoWght == -1
Command(c) == [cmd |-> c]
SetWght(w) == [cmd |-> "setoption", wght |-> w]

VARIABLES eng,          \* USIEngine: [ready, playing, thinking, nmove, id_wght, record_wght]
          proc,         \* the engine's process: [in, out, task, told, first]
          num_thinking, \* _num_thinking
          wid,          \* _wid
          net,          \* the weight of the devices
          client,       \* [conn, wght]: what Client says
          call,         \* [pc, has, conn, wght]: manage_play() and its arguments
          record,       \* the last record: the weight it names, that of its first move
          missed        \* history: engines last left alone for want of a connection
vars == <<eng, proc, num_thinking, wid, net, client, call, record, missed>>

----------------------------------------------------------------------------
\* What the manager does with an engine e is a function of its object and of what
\* was written to its pipe.
StartNewgame(p) ==
  [u |-> [p.u EXCEPT !.playing = TRUE, !.thinking = FALSE, !.nmove = 0,
                     !.record_wght = p.u.id_wght],
   in |-> Append(p.in, Command("usinewgame"))]
EngineGo(p) ==
  [u |-> [p.u EXCEPT !.thinking = TRUE], in |-> Append(p.in, Command("go"))]
EngineWghtUpdate(p, w) ==
  [u |-> [p.u EXCEPT !.id_wght = w], in |-> Append(p.in, SetWght(w))]

\* Games are started with a connection only, and moves by the weight of now.
Start(p, id) ==
  LET q == IF call.conn /\ ~p.u.playing THEN StartNewgame(p) ELSE p
  IN IF ~p.u.ready \/ id # call.wght THEN p
     ELSE IF q.u.playing /\ ~q.u.thinking THEN EngineGo(q) ELSE q

\* update(): usiok is answered, bestmove is a move and may end the game.
Moved(u, ends) ==
  [u EXCEPT !.thinking = FALSE, !.nmove = @ + 1, !.playing = ~ends]
Update(p, line, ends) ==
  CASE line = "usiok"    -> [u |-> [p.u EXCEPT !.ready = TRUE],
                             in |-> Append(p.in, Command("isready"))]
    [] line = "readyok"  -> p
    [] line = "bestmove" -> [p EXCEPT !.u = Moved(p.u, ends)]

Thinks(u) == IF u.thinking THEN 1 ELSE 0

\* Mutation: an engine that stops thinking is not taken off the count.
CountedUp(from, to) == num_thinking + (IF Thinks(to) > Thinks(from) THEN 1 ELSE 0)

Counted(from, to) == num_thinking - Thinks(from) + Thinks(to)
LeftAlone(u) == ~u.playing /\ ~call.conn

----------------------------------------------------------------------------
\* The arguments are taken before Child::wait(), which sleeps up to a second.
Ask == /\ call.pc = "ask"
       /\ call' = [call EXCEPT !.pc = "wait", !.conn = client.conn, !.wght = client.wght]
       /\ UNCHANGED <<eng, proc, num_thinking, wid, net, client, record, missed>>
Wait == /\ call.pc = "wait"
        /\ call' = [call EXCEPT !.pc = "lines",
                                !.has = {e \in Eids : proc[e].out # <<>>}]
        /\ UNCHANGED <<eng, proc, num_thinking, wid, net, client, record, missed>>

\* One line of the next engine that has one.
Line(ends) ==
  LET e == Min(call.has)
      line == Head(proc[e].out)
      old == [u |-> eng[e], in |-> proc[e].in]
      seen == Update(old, line, ends)
      new == Start(seen, wid)
  IN /\ call.pc = "lines" /\ call.has # {}
     /\ ends => line = "bestmove"
     /\ line = "bestmove" => ends \/ eng[e].nmove + 1 < MaxMoves
     /\ eng' = [eng EXCEPT ![e] = new.u]
     /\ proc' = [proc EXCEPT ![e].in = new.in, ![e].out = Tail(@)]
     /\ num_thinking' = Counted(old.u, new.u)
     /\ record' = IF ends THEN <<old.u.record_wght, proc[e].first>> ELSE record
     /\ missed' = IF LeftAlone(new.u) THEN missed \union {e} ELSE missed \ {e}
     /\ call' = [call EXCEPT !.has = @ \ {e}]
     /\ UNCHANGED <<wid, net, client>>

\* Mutation: the engine goes on before it is told of the weight.
RenewedLate(p, w) == EngineWghtUpdate(Start(p, w), w)

\* Mutation: the engine is told of the weight and does not go on.
RenewedOnly(p, w) == EngineWghtUpdate(p, w)

\* A new weight: nnreset() and wait() for every device, then every engine.
Renewed(p, w) == Start(EngineWghtUpdate(p, w), w)
Idle == num_thinking = 0
Change ==
  LET new == [e \in Eids |->
                Renewed([u |-> eng[e], in |-> proc[e].in], call.wght)]
  IN /\ call.pc = "lines" /\ call.has = {}
     /\ wid # call.wght /\ Idle
     /\ wid' = call.wght /\ net' = call.wght
     /\ eng' = [e \in Eids |-> new[e].u]
     /\ proc' = [e \in Eids |-> [proc[e] EXCEPT !.in = new[e].in]]
     /\ num_thinking' = Cardinality({e \in Eids : new[e].u.thinking})
     /\ missed' = {e \in Eids : LeftAlone(new[e].u)}
     /\ call' = [call EXCEPT !.pc = "ask"]
     /\ UNCHANGED <<client, record>>
Done == /\ call.pc = "lines" /\ call.has = {}
        /\ wid = call.wght \/ ~Idle
        /\ call' = [call EXCEPT !.pc = "ask"]
        /\ UNCHANGED <<eng, proc, num_thinking, wid, net, client, record, missed>>

----------------------------------------------------------------------------
\* The reader and the sender of the client.
HasConn == /\ client' = [client EXCEPT !.conn = ~@]
           /\ UNCHANGED <<eng, proc, num_thinking, wid, net, call, record, missed>>
NewWght == /\ client.wght < MaxWght
           /\ client' = [client EXCEPT !.wght = @ + 1]
           /\ UNCHANGED <<eng, proc, num_thinking, wid, net, call, record, missed>>

\* The engine.
Obey(e) ==
  LET k == proc[e]
      c == Head(k.in)
      rest == [k EXCEPT !.in = Tail(k.in)]
  IN /\ k.task = "read" /\ k.in # <<>>
     /\ proc' = [proc EXCEPT ![e] =
          CASE c.cmd = "usi"        -> [rest EXCEPT !.out = Append(@, "usiok")]
            [] c.cmd = "isready"    -> [rest EXCEPT !.out = Append(@, "readyok")]
            [] c.cmd = "setoption"  -> [rest EXCEPT !.told = c.wght]
            [] c.cmd = "usinewgame" -> [rest EXCEPT !.first = NoWght]
            [] c.cmd = "go"         -> [rest EXCEPT !.task = "search",
                                                    !.first = IF @ = NoWght THEN net ELSE @]]
     /\ UNCHANGED <<eng, num_thinking, wid, net, client, call, record, missed>>
BestMove(e) ==
  /\ proc[e].task = "search"
  /\ proc' = [proc EXCEPT ![e].task = "read", ![e].out = Append(@, "bestmove")]
  /\ UNCHANGED <<eng, num_thinking, wid, net, client, call, record, missed>>

\* start(): the devices have the first weight when the engines are started.
Init ==
  /\ eng = [e \in Eids |-> [ready |-> FALSE, playing |-> FALSE, thinking |-> FALSE,
                               nmove |-> 0, id_wght |-> 0, record_wght |-> NoWght]]
  /\ proc = [e \in Eids |-> [in |-> <<Command("usi")>>, out |-> <<>>, task |-> "read",
                                told |-> 0, first |-> NoWght]]
  /\ num_thinking = 0 /\ wid = 0 /\ net = 0
  /\ client = [conn |-> TRUE, wght |-> 0]
  /\ call = [pc |-> "ask", has |-> {}, conn |-> TRUE, wght |-> 0]
  /\ record = <<>> /\ missed = {}

Manager == Ask \/ Wait \/ Change \/ Done \/ \E ends \in BOOLEAN : Line(ends)
Next == Manager \/ HasConn \/ NewWght \/ \E e \in Eids : Obey(e) \/ BestMove(e)
Spec == Init /\ [][Next]_vars

----------------------------------------------------------------------------
\* The count that holds back a new weight is that of the moves that were asked for
\* and not yet read, wherever in the pipes they are; and while there is one, the
\* devices have the weight its engine was told of.
Asked(e) == \/ Command("go") \in {proc[e].in[i] : i \in DOMAIN proc[e].in}
            \/ proc[e].task = "search"
            \/ "bestmove" \in {proc[e].out[i] : i \in DOMAIN proc[e].out}
ThinkingCounted ==
  /\ num_thinking = Cardinality({e \in Eids : Asked(e)})
  /\ \A e \in Eids : proc[e].task = "search" => proc[e].told = net

\* The weight a record names is the one that its first move was searched with, also
\* when later moves were not.
RecordNamesItsFirstWght == record # <<>> => record[1] = record[2]

\* An engine that is not at work has a line to be read, or a weight to wait for, or
\* was left alone without a connection; nothing else starts it again.
Quiet(e) == /\ proc[e].in = <<>> /\ proc[e].out = <<>> /\ proc[e].task = "read"
StrandedOnlyWithoutConn ==
  \A e \in Eids : call.pc = "ask" /\ Quiet(e) /\ wid = client.wght => e \in missed
=============================================================================
