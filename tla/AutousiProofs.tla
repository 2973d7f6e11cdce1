---------------------------- MODULE AutousiProofs ----------------------------
(* Proofs about how autousi drives its engines and about the game one of them    *)
(* plays: the instances Play and Shogi of MCAutousi.                             *)
(*                                                                               *)
(* The games of PlayManager, for any number of engines.  The invariant relates,  *)
(* for one engine, the manager's object, the two pipes and the process (Fits): a *)
(* move that is asked for is in one of them, the last weight in the pipe or      *)
(* known to the engine is the devices', and a new game is followed by its first  *)
(* move.  The loops over the engines keep it because what they do with one       *)
(* engine changes that engine's part only.                                       *)
(*                                                                               *)
(* The game and its record, for any graph of positions (GameInv): Node's type of *)
(* the game is what the path says of repetitions (NodeOk), and reading back the  *)
(* record of a game replays exactly that game.  The engine's own rule of         *)
(* repetition, which looks at the path backwards, agrees with it.                *)
EXTENDS MCAutousi, Induction

----------------------------------------------------------------------------
(* The games: the inductive invariant.                                           *)

Commands == [cmd : {"usi", "isready", "usinewgame", "go"}]
              \union [cmd : {"setoption"}, wght : Nat]
Lines    == {"usiok", "readyok", "bestmove"}
Objects  == [ready : BOOLEAN, playing : BOOLEAN, thinking : BOOLEAN, nmove : Nat,
             id_wght : Nat, record_wght : Nat \union {-1}]
Procs    == [in : Seq(Commands), out : Seq(Lines), task : {"read", "search"},
             told : Nat, first : Nat \union {-1}]
Calls    == [pc : {"ask", "wait", "lines"}, has : SUBSET Play!Eids, conn : BOOLEAN, wght : Nat]

PlayTypes ==
  /\ eng \in [Play!Eids -> Objects] /\ proc \in [Play!Eids -> Procs]
  /\ num_thinking \in Int /\ pm_wid \in Nat /\ pm_net = pm_wid
  /\ client \in [conn : BOOLEAN, wght : Nat] /\ call \in Calls
  /\ missed \subseteq Play!Eids

\* A command is in a pipe, a line is in the other one.
Sent(in, c) == \E i \in 1 .. Len(in) : in[i].cmd = c
Said(out, l) == \E i \in 1 .. Len(out) : out[i] = l

\* A move that is asked for is in one place: the command, the search or the answer.
OneMove(u, in, out, task) ==
  /\ (u.thinking = TRUE) <=> (Sent(in, "go") \/ task = "search" \/ Said(out, "bestmove"))
  /\ Sent(in, "go") => task = "read" /\ ~Said(out, "bestmove")
  /\ task = "search" => ~Said(out, "bestmove")
  /\ \A i, j \in 1 .. Len(in) : in[i].cmd = "go" /\ in[j].cmd = "go" => i = j
  /\ \A i, j \in 1 .. Len(out) : out[i] = "bestmove" /\ out[j] = "bestmove" => i = j

\* The last weight an engine is told of is the devices' one, w, and it is told so
\* before it searches.
ToldLast(u, in, task, told, w) ==
  /\ u.id_wght = w
  /\ \A i \in 1 .. Len(in) :
       in[i].cmd = "setoption" /\ (\A j \in i + 1 .. Len(in) : in[j].cmd # "setoption") =>
         in[i].wght = w
  /\ ~Sent(in, "setoption") => told = w
  /\ \A i \in 1 .. Len(in) :
       in[i].cmd = "go" => \A j \in i + 1 .. Len(in) : in[j].cmd # "setoption"
  /\ task = "search" => ~Sent(in, "setoption")

\* A new game and its first move are sent together, with the weight of then; until
\* the move is searched the engine has no first weight, and then it is that one.
GameBegins(u, in, first, w) ==
  /\ u.thinking = TRUE => u.playing = TRUE
  /\ \A i \in 1 .. Len(in) : in[i].cmd = "usinewgame" =>
       i < Len(in) /\ in[i + 1].cmd = "go" /\ u.record_wght = w
  /\ u.playing = TRUE /\ ~Sent(in, "usinewgame") =>
       /\ u.record_wght \in Nat
       /\ first = u.record_wght \/ (first = -1 /\ Sent(in, "go") /\ u.record_wght = w)

\* An engine that is not ready has usi to answer, or the answer is to be read.
Handshake(u, in, out) ==
  u.ready # TRUE => /\ Sent(in, "usi") \/ Said(out, "usiok")
                    /\ ~Said(out, "readyok") /\ ~Sent(in, "isready") /\ u.thinking # TRUE

Fits(u, in, out, task, told, first, w) ==
  /\ OneMove(u, in, out, task) /\ ToldLast(u, in, task, told, w)
  /\ GameBegins(u, in, first, w) /\ Handshake(u, in, out)

\* Nothing the engine has been sent will make it say anything.
Silent(in, out, task) ==
  /\ ~Sent(in, "usi") /\ ~Sent(in, "isready") /\ ~Sent(in, "go")
  /\ task = "read" /\ out = <<>>

EnginesFit ==
  \A e \in Play!Eids : Fits(eng[e], proc[e].in, proc[e].out, proc[e].task,
                            proc[e].told, proc[e].first, pm_wid)
SilentIsMissed ==
  \A e \in Play!Eids : Silent(proc[e].in, proc[e].out, proc[e].task) =>
    e \in missed \/ pm_wid < client.wght
Thinkers(g) == {e \in Play!Eids : g[e].thinking = TRUE}
Counts == num_thinking = Cardinality(Thinkers(eng))
WghtsGrow == pm_wid <= call.wght /\ call.wght <= client.wght
LinesAreThere == call.pc = "lines" => \A e \in call.has : proc[e].out # <<>>

PlayInv == /\ PlayTypes /\ EnginesFit /\ SilentIsMissed /\ Counts /\ WghtsGrow
           /\ LinesAreThere /\ RecordNamesItsFirstWght

----------------------------------------------------------------------------
(* Pipes.                                                                        *)

\* A sequence with one more element.
LEMMA Appended ==
  ASSUME NEW S, NEW s \in Seq(S), NEW c \in S
  PROVE  /\ Append(s, c) \in Seq(S) /\ Len(Append(s, c)) = Len(s) + 1 /\ Len(s) \in Nat
         /\ \A i \in 1 .. Len(s) : Append(s, c)[i] = s[i]
         /\ Append(s, c)[Len(s) + 1] = c /\ Append(s, c) # <<>>
  OBVIOUS

\* A sequence without its first element.
LEMMA Taken ==
  ASSUME NEW S, NEW s \in Seq(S), s # <<>>
  PROVE  /\ Tail(s) \in Seq(S) /\ Len(Tail(s)) = Len(s) - 1 /\ Len(s) \in Nat /\ Len(s) > 0
         /\ \A i \in 1 .. Len(s) - 1 : Tail(s)[i] = s[i + 1]
         /\ Head(s) = s[1] /\ Head(s) \in S
  OBVIOUS

\* What is in a pipe after one more command, and after one is read.
LEMMA SentAppended ==
  ASSUME NEW in \in Seq(Commands), NEW c \in Commands, NEW d
  PROVE  Sent(Append(in, c), d) <=> Sent(in, d) \/ c.cmd = d
<1>1. /\ Len(Append(in, c)) = Len(in) + 1 /\ Len(in) \in Nat
      /\ \A i \in 1 .. Len(in) : Append(in, c)[i] = in[i]
      /\ Append(in, c)[Len(in) + 1] = c
  BY Appended
<1> HIDE DEF Commands
<1> QED BY <1>1 DEF Sent

\* A command is in a pipe if it is the first or behind it.
LEMMA SentTaken ==
  ASSUME NEW in \in Seq(Commands), in # <<>>, NEW d
  PROVE  Sent(in, d) <=> Head(in).cmd = d \/ Sent(Tail(in), d)
<1>1. /\ Len(Tail(in)) = Len(in) - 1 /\ Len(in) \in Nat /\ Len(in) > 0
      /\ \A i \in 1 .. Len(in) - 1 : Tail(in)[i] = in[i + 1]
      /\ Head(in) = in[1]
  BY Taken
<1>2. ASSUME NEW i \in 1 .. Len(in), in[i].cmd = d PROVE Head(in).cmd = d \/ Sent(Tail(in), d)
  <2>1. CASE i = 1 BY <2>1, <1>1, <1>2
  <2>2. CASE i # 1
    <3>1. i - 1 \in 1 .. Len(in) - 1 /\ i - 1 + 1 = i BY <2>2, <1>1
    <3>2. Tail(in)[i - 1].cmd = d BY <3>1, <1>1, <1>2
    <3> QED BY <3>1, <3>2, <1>1 DEF Sent
  <2> QED BY <2>1, <2>2
<1>3. ASSUME NEW i \in 1 .. Len(Tail(in)), Tail(in)[i].cmd = d PROVE Sent(in, d)
  BY <1>1, <1>3 DEF Sent
<1>4. Head(in).cmd = d => Sent(in, d) BY <1>1 DEF Sent
<1> QED BY <1>2, <1>3, <1>4 DEF Sent

\* A line is among the lines and one more if it was or is the new one.
LEMMA SaidAppended ==
  ASSUME NEW out \in Seq(Lines), NEW l \in Lines, NEW d
  PROVE  Said(Append(out, l), d) <=> Said(out, d) \/ l = d
<1>1. /\ Len(Append(out, l)) = Len(out) + 1 /\ Len(out) \in Nat
      /\ \A i \in 1 .. Len(out) : Append(out, l)[i] = out[i]
      /\ Append(out, l)[Len(out) + 1] = l
  BY Appended
<1> QED BY <1>1 DEF Said

\* A line is in a pipe if it is the first or behind it.
LEMMA SaidTaken ==
  ASSUME NEW out \in Seq(Lines), out # <<>>, NEW d
  PROVE  Said(out, d) <=> Head(out) = d \/ Said(Tail(out), d)
<1>1. /\ Len(Tail(out)) = Len(out) - 1 /\ Len(out) \in Nat /\ Len(out) > 0
      /\ \A i \in 1 .. Len(out) - 1 : Tail(out)[i] = out[i + 1]
      /\ Head(out) = out[1]
  BY Taken
<1>2. ASSUME NEW i \in 1 .. Len(out), out[i] = d PROVE Head(out) = d \/ Said(Tail(out), d)
  <2>1. CASE i = 1 BY <2>1, <1>1, <1>2
  <2>2. CASE i # 1
    <3>1. i - 1 \in 1 .. Len(out) - 1 /\ i - 1 + 1 = i BY <2>2, <1>1
    <3>2. Tail(out)[i - 1] = d BY <3>1, <1>1, <1>2
    <3> QED BY <3>1, <3>2, <1>1 DEF Said
  <2> QED BY <2>1, <2>2
<1>3. ASSUME NEW i \in 1 .. Len(Tail(out)), Tail(out)[i] = d PROVE Said(out, d)
  BY <1>1, <1>3 DEF Said
<1>4. Head(out) = d => Said(out, d) BY <1>1 DEF Said
<1> QED BY <1>2, <1>3, <1>4 DEF Said

\* An empty pipe holds no line.
LEMMA SaidNothing == ASSUME NEW d PROVE ~Said(<<>>, d)
  BY DEF Said

----------------------------------------------------------------------------
(* What the manager does with one engine.                                        *)

\* Commands that are neither moves, nor games, nor weights.
LEMMA Other ==
  ASSUME NEW u, NEW in \in Seq(Commands), NEW out, NEW task, NEW told, NEW first, NEW w,
         Fits(u, in, out, task, told, first, w), u.ready = TRUE
  PROVE  Fits(u, Append(in, Play!Command("isready")), out, task, told, first, w)
<1> DEFINE c == Play!Command("isready")
           n == Append(in, c)
<1>1. c \in Commands /\ c.cmd = "isready" BY DEF Play!Command, Commands
<1> HIDE DEF c
<1>2. /\ Len(n) = Len(in) + 1 /\ Len(in) \in Nat
      /\ \A i \in 1 .. Len(in) : n[i] = in[i]
      /\ n[Len(in) + 1] = c
  BY <1>1, Appended
<1>3. \A d : Sent(n, d) <=> Sent(in, d) \/ d = "isready" BY <1>1, SentAppended
<1> HIDE DEF n
<1>4. \A i \in 1 .. Len(n) : \/ i \in 1 .. Len(in) /\ n[i] = in[i]
                             \/ i = Len(in) + 1 /\ n[i].cmd = "isready"
  BY <1>1, <1>2
<1>5. OneMove(u, n, out, task) BY <1>3, <1>4 DEF Fits, OneMove
<1>6. ToldLast(u, n, task, told, w)
  <2>1. ASSUME NEW i \in 1 .. Len(n), n[i].cmd = "setoption",
               \A j \in i + 1 .. Len(n) : n[j].cmd # "setoption"
        PROVE  n[i].wght = w
    <3>1. i \in 1 .. Len(in) /\ n[i] = in[i] BY <2>1, <1>4
    <3>2. \A j \in i + 1 .. Len(in) : in[j].cmd # "setoption" BY <2>1, <1>2
    <3> QED BY <2>1, <3>1, <3>2 DEF Fits, ToldLast
  <2>2. ASSUME NEW i \in 1 .. Len(n), n[i].cmd = "go", NEW j \in i + 1 .. Len(n)
        PROVE  n[j].cmd # "setoption"
    <3>1. i \in 1 .. Len(in) /\ n[i] = in[i] BY <2>2, <1>4
    <3>2. j \in i + 1 .. Len(in) \/ j = Len(in) + 1 BY <1>2
    <3> QED BY <2>2, <3>1, <3>2, <1>1, <1>2 DEF Fits, ToldLast
  <2> QED BY <2>1, <2>2, <1>3 DEF Fits, ToldLast
<1>7. GameBegins(u, n, first, w)
  <2>1. ASSUME NEW i \in 1 .. Len(n), n[i].cmd = "usinewgame"
        PROVE  i < Len(n) /\ n[i + 1].cmd = "go" /\ u.record_wght = w
    <3>1. i \in 1 .. Len(in) /\ n[i] = in[i] BY <2>1, <1>4
    <3>2. i < Len(in) /\ in[i + 1].cmd = "go" /\ u.record_wght = w
      BY <2>1, <3>1 DEF Fits, GameBegins
    <3>3. i + 1 \in 1 .. Len(in) BY <3>1, <3>2, <1>2
    <3> QED BY <3>2, <3>3, <1>2
  <2> QED BY <2>1, <1>3 DEF Fits, GameBegins
<1>8. Handshake(u, n, out) BY <1>3 DEF Handshake
<1> QED BY <1>5, <1>6, <1>7, <1>8 DEF Fits, n, c

\* Two states of an engine's object with the same weights.
Like(u, v) == v.record_wght = u.record_wght /\ v.id_wght = u.id_wght

\* An object before and after the next move is asked for, in the game or in a new one.
Goes(u, v, in, task) ==
  /\ in \in Seq(Commands) /\ task \in {"read", "search"}
  /\ u.thinking # TRUE /\ u.ready = TRUE
  /\ v.ready = TRUE /\ v.playing = TRUE /\ v.thinking = TRUE
GoesOn(u, v, in, task)  == Goes(u, v, in, task) /\ u.playing = TRUE /\ Like(u, v)
GoesNew(u, v, in, task) ==
  Goes(u, v, in, task) /\ v.record_wght = u.id_wght /\ v.id_wght = u.id_wght

\* A new weight for an engine that does not think.
LEMMA WeightFits ==
  ASSUME NEW u, NEW v, NEW in \in Seq(Commands), NEW out, NEW task, NEW told, NEW first,
         NEW w, NEW x \in Nat, Fits(u, in, out, task, told, first, w), u.thinking # TRUE,
         v.ready = u.ready, v.playing = u.playing, v.thinking = u.thinking,
         v.record_wght = u.record_wght, v.id_wght = x
  PROVE  Fits(v, Append(in, Play!SetWght(x)), out, task, told, first, x)
<1> DEFINE c == Play!SetWght(x)
           n == Append(in, c)
<1>1. c \in Commands /\ c.cmd = "setoption" /\ c.wght = x BY DEF Play!SetWght, Commands
<1> HIDE DEF c
<1>2. /\ Len(n) = Len(in) + 1 /\ Len(in) \in Nat
      /\ \A i \in 1 .. Len(in) : n[i] = in[i]
      /\ n[Len(in) + 1] = c
  BY <1>1, Appended
<1>3. \A d : Sent(n, d) <=> Sent(in, d) \/ d = "setoption" BY <1>1, SentAppended
<1> HIDE DEF n
<1>4. \A i \in 1 .. Len(n) : \/ i \in 1 .. Len(in) /\ n[i] = in[i]
                             \/ i = Len(in) + 1 /\ n[i].cmd = "setoption" /\ n[i].wght = x
  BY <1>1, <1>2
<1>5. ~Sent(in, "go") /\ task # "search" /\ ~Said(out, "bestmove") BY DEF Fits, OneMove
<1>6. \A i \in 1 .. Len(in) : in[i].cmd # "go" /\ in[i].cmd # "usinewgame"
  <2>1. \A i \in 1 .. Len(in) : in[i].cmd # "go" BY <1>5 DEF Sent
  <2>2. ASSUME NEW i \in 1 .. Len(in), in[i].cmd = "usinewgame" PROVE FALSE
    <3>1. i + 1 \in 1 .. Len(in) /\ in[i + 1].cmd = "go" BY <2>2, <1>2 DEF Fits, GameBegins
    <3> QED BY <3>1, <2>1
  <2> QED BY <2>1, <2>2
<1>7. OneMove(v, n, out, task) BY <1>3, <1>4, <1>5, <1>6 DEF Fits, OneMove
<1>8. ToldLast(v, n, task, told, x)
  <2>1. ASSUME NEW i \in 1 .. Len(n), n[i].cmd = "setoption",
               \A j \in i + 1 .. Len(n) : n[j].cmd # "setoption"
        PROVE  n[i].wght = x
    <3>1. CASE i \in 1 .. Len(in)
      <4>1. Len(in) + 1 \in i + 1 .. Len(n) BY <3>1, <1>2
      <4> QED BY <4>1, <2>1, <1>1, <1>2
    <3> QED BY <3>1, <1>4
  <2>2. ASSUME NEW i \in 1 .. Len(n) PROVE n[i].cmd # "go" BY <1>4, <1>6
  <2> QED BY <2>1, <2>2, <1>3, <1>5 DEF ToldLast
<1>9. GameBegins(v, n, first, x)
  <2>1. \A i \in 1 .. Len(n) : n[i].cmd # "usinewgame" BY <1>4, <1>6
  <2>2. ~Sent(in, "usinewgame") BY <1>6 DEF Sent
  <2> QED BY <2>1, <2>2, <1>5 DEF Fits, GameBegins
<1>10. Handshake(v, n, out) BY <1>3 DEF Fits, Handshake
<1> QED BY <1>7, <1>8, <1>9, <1>10 DEF Fits, n, c

\* The next move of a game.
LEMMA GoFits ==
  ASSUME NEW u, NEW v, NEW in, NEW out, NEW task, NEW told, NEW first, NEW w,
         Fits(u, in, out, task, told, first, w), GoesOn(u, v, in, task)
  PROVE  Fits(v, Append(in, Play!Command("go")), out, task, told, first, w)
<1> USE DEF GoesOn, Goes, Like
<1> DEFINE c == Play!Command("go")
           n == Append(in, c)
<1>1. c \in Commands /\ c.cmd = "go" BY DEF Play!Command, Commands
<1> HIDE DEF c
<1>2. /\ Len(n) = Len(in) + 1 /\ Len(in) \in Nat
      /\ \A i \in 1 .. Len(in) : n[i] = in[i]
      /\ n[Len(in) + 1] = c
  BY <1>1, Appended
<1>3. \A d : Sent(n, d) <=> Sent(in, d) \/ d = "go" BY <1>1, SentAppended
<1> HIDE DEF n
<1>4. \A i \in 1 .. Len(n) : \/ i \in 1 .. Len(in) /\ n[i] = in[i]
                             \/ i = Len(in) + 1 /\ n[i].cmd = "go"
  BY <1>1, <1>2
<1>5. ~Sent(in, "go") /\ task = "read" /\ ~Said(out, "bestmove") BY DEF Fits, OneMove
<1>6. \A i \in 1 .. Len(in) : in[i].cmd # "go" /\ in[i].cmd # "usinewgame"
  <2>1. \A i \in 1 .. Len(in) : in[i].cmd # "go" BY <1>5 DEF Sent
  <2>2. ASSUME NEW i \in 1 .. Len(in), in[i].cmd = "usinewgame" PROVE FALSE
    <3>1. i + 1 \in 1 .. Len(in) /\ in[i + 1].cmd = "go" BY <2>2, <1>2 DEF Fits, GameBegins
    <3> QED BY <3>1, <2>1
  <2> QED BY <2>1, <2>2
<1>7. OneMove(v, n, out, task) BY <1>3, <1>4, <1>5, <1>6 DEF Fits, OneMove
<1>8. ToldLast(v, n, task, told, w)
  <2>1. ASSUME NEW i \in 1 .. Len(n), n[i].cmd = "setoption",
               \A j \in i + 1 .. Len(n) : n[j].cmd # "setoption"
        PROVE  n[i].wght = w
    <3>1. i \in 1 .. Len(in) /\ n[i] = in[i] BY <2>1, <1>4
    <3>2. \A j \in i + 1 .. Len(in) : in[j].cmd # "setoption" BY <2>1, <1>2
    <3> QED BY <2>1, <3>1, <3>2 DEF Fits, ToldLast
  <2>2. ASSUME NEW i \in 1 .. Len(n), n[i].cmd = "go", NEW j \in i + 1 .. Len(n) PROVE FALSE
    BY <2>2, <1>2, <1>4, <1>6
  <2> QED BY <2>1, <2>2, <1>3, <1>5 DEF Fits, ToldLast
<1>9. GameBegins(v, n, first, w)
  <2>1. \A i \in 1 .. Len(n) : n[i].cmd # "usinewgame" BY <1>4, <1>6
  <2>2. ~Sent(in, "usinewgame") BY <1>6 DEF Sent
  <2> QED BY <2>1, <2>2, <1>5 DEF Fits, GameBegins
<1>10. Handshake(v, n, out) BY DEF Handshake
<1> QED BY <1>7, <1>8, <1>9, <1>10 DEF Fits, n, c

\* A new game and its first move.
LEMMA GameFits ==
  ASSUME NEW u, NEW v, NEW in, NEW out, NEW task, NEW told, NEW first, NEW w \in Nat,
         Fits(u, in, out, task, told, first, w), GoesNew(u, v, in, task)
  PROVE  Fits(v, Append(Append(in, Play!Command("usinewgame")), Play!Command("go")),
              out, task, told, first, w)
<1> USE DEF GoesNew, Goes
<1> DEFINE b == Play!Command("usinewgame")
           c == Play!Command("go")
           m == Append(in, b)
           n == Append(m, c)
<1>1. b \in Commands /\ b.cmd = "usinewgame" /\ c \in Commands /\ c.cmd = "go"
  BY DEF Play!Command, Commands
<1> HIDE DEF b, c
<1>2. /\ m \in Seq(Commands) /\ Len(m) = Len(in) + 1 /\ Len(in) \in Nat
      /\ \A i \in 1 .. Len(in) : m[i] = in[i]
      /\ m[Len(in) + 1] = b
  BY <1>1, Appended
<1>3. \A d : Sent(m, d) <=> Sent(in, d) \/ d = "usinewgame" BY <1>1, SentAppended
<1> HIDE DEF m
<1>4. /\ Len(n) = Len(m) + 1
      /\ \A i \in 1 .. Len(m) : n[i] = m[i]
      /\ n[Len(m) + 1] = c
  BY <1>1, <1>2, Appended
<1>5. \A d : Sent(n, d) <=> Sent(m, d) \/ d = "go" BY <1>1, <1>2, SentAppended
<1> HIDE DEF n
<1>6. /\ Len(n) = Len(in) + 2 /\ \A i \in 1 .. Len(in) : n[i] = in[i]
      /\ n[Len(in) + 1].cmd = "usinewgame" /\ n[Len(in) + 2].cmd = "go"
      /\ \A d : Sent(n, d) <=> Sent(in, d) \/ d = "usinewgame" \/ d = "go"
  <2>1. 1 .. Len(in) \subseteq 1 .. Len(m) /\ Len(in) + 1 \in 1 .. Len(m) BY <1>2
  <2>2. Len(m) + 1 = Len(in) + 2 BY <1>2
  <2> QED BY <2>1, <2>2, <1>1, <1>2, <1>3, <1>4, <1>5
<1>7. \A i \in 1 .. Len(n) : \/ i \in 1 .. Len(in) /\ n[i] = in[i]
                             \/ i = Len(in) + 1 /\ n[i].cmd = "usinewgame"
                             \/ i = Len(in) + 2 /\ n[i].cmd = "go"
  BY <1>2, <1>6
<1>8. ~Sent(in, "go") /\ task = "read" /\ ~Said(out, "bestmove") BY DEF Fits, OneMove
<1>9. \A i \in 1 .. Len(in) : in[i].cmd # "go" /\ in[i].cmd # "usinewgame"
  <2>1. \A i \in 1 .. Len(in) : in[i].cmd # "go" BY <1>8 DEF Sent
  <2>2. ASSUME NEW i \in 1 .. Len(in), in[i].cmd = "usinewgame" PROVE FALSE
    <3>1. i + 1 \in 1 .. Len(in) /\ in[i + 1].cmd = "go" BY <2>2, <1>2 DEF Fits, GameBegins
    <3> QED BY <3>1, <2>1
  <2> QED BY <2>1, <2>2
<1>10. OneMove(v, n, out, task)
  <2>1. \A i \in 1 .. Len(n) : n[i].cmd = "go" => i = Len(in) + 2 BY <1>7, <1>9
  <2> QED BY <2>1, <1>6, <1>8 DEF Fits, OneMove
<1>11. ToldLast(v, n, task, told, w)
  <2>1. ASSUME NEW i \in 1 .. Len(n), n[i].cmd = "setoption",
               \A j \in i + 1 .. Len(n) : n[j].cmd # "setoption"
        PROVE  n[i].wght = w
    <3>1. i \in 1 .. Len(in) /\ n[i] = in[i] BY <2>1, <1>7
    <3>2. \A j \in i + 1 .. Len(in) : in[j].cmd # "setoption" BY <2>1, <1>2, <1>6
    <3> QED BY <2>1, <3>1, <3>2 DEF Fits, ToldLast
  <2>2. ASSUME NEW i \in 1 .. Len(n), n[i].cmd = "go", NEW j \in i + 1 .. Len(n) PROVE FALSE
    BY <2>2, <1>2, <1>6, <1>7, <1>9
  <2> QED BY <2>1, <2>2, <1>6, <1>8 DEF Fits, ToldLast
<1>12. GameBegins(v, n, first, w)
  <2>1. v.record_wght = w BY DEF Fits, ToldLast
  <2>2. ASSUME NEW i \in 1 .. Len(n), n[i].cmd = "usinewgame"
        PROVE  i < Len(n) /\ n[i + 1].cmd = "go"
    <3>1. i = Len(in) + 1 BY <2>2, <1>7, <1>9
    <3>2. i + 1 = Len(in) + 2 /\ i < Len(n) BY <3>1, <1>2, <1>6
    <3> QED BY <3>2, <1>6
  <2>3. Sent(n, "usinewgame") BY <1>6
  <2> QED BY <2>1, <2>2, <2>3 DEF GameBegins
<1>13. Handshake(v, n, out) BY DEF Handshake
<1> QED BY <1>10, <1>11, <1>12, <1>13 DEF Fits, n, m, b, c

\* The engine object's fields after start_newgame() and after the go command.
LEMMA GoObject ==
  ASSUME NEW u \in Objects
  PROVE  LET v == [u EXCEPT !.thinking = TRUE]
         IN /\ v \in Objects /\ v.thinking = TRUE /\ v.ready = u.ready /\ v.playing = u.playing
            /\ v.record_wght = u.record_wght /\ v.id_wght = u.id_wght
  BY DEF Objects

\* The object at the start of a game, field by field.
LEMMA GameObject ==
  ASSUME NEW u \in Objects, u.id_wght \in Nat
  PROVE  LET v == [u EXCEPT !.playing = TRUE, !.thinking = FALSE, !.nmove = 0,
                            !.record_wght = u.id_wght]
         IN /\ v \in Objects /\ v.thinking = FALSE /\ v.ready = u.ready /\ v.playing = TRUE
            /\ v.record_wght = u.id_wght /\ v.id_wght = u.id_wght
<1> DEFINE v == [u EXCEPT !.playing = TRUE, !.thinking = FALSE, !.nmove = 0,
                          !.record_wght = u.id_wght]
<1>1. u \in [ready : {u.ready}, playing : BOOLEAN, thinking : BOOLEAN, nmove : Nat,
             id_wght : {u.id_wght}, record_wght : Nat \union {-1}] /\ u.ready \in BOOLEAN
  BY DEF Objects
<1>2. v \in [ready : {u.ready}, playing : {TRUE}, thinking : {FALSE}, nmove : {0},
             id_wght : {u.id_wght}, record_wght : {u.id_wght}]
  BY <1>1
<1>3. v \in Objects
  <2> DEFINE a == [u EXCEPT !.playing = TRUE]
             b == [a EXCEPT !.thinking = FALSE]
             c == [b EXCEPT !.nmove = 0]
             d == [c EXCEPT !.record_wght = u.id_wght]
  <2>1. a \in Objects BY DEF Objects
  <2> HIDE DEF a
  <2>2. b \in Objects BY <2>1 DEF Objects
  <2> HIDE DEF b
  <2>3. c \in Objects BY <2>2 DEF Objects
  <2> HIDE DEF c
  <2>4. d \in Objects BY <2>3 DEF Objects
  <2> QED BY <2>4 DEF a, b, c, d
<1> HIDE DEF v
<1>4. v.thinking = FALSE /\ v.ready = u.ready /\ v.playing = TRUE
      /\ v.record_wght = u.id_wght /\ v.id_wght = u.id_wght
  BY <1>2
<1> QED BY <1>3, <1>4 DEF v

\* The object after a bestmove, field by field.
LEMMA MovedObject ==
  ASSUME NEW u \in Objects, NEW ends \in BOOLEAN
  PROVE  LET v == Play!Moved(u, ends)
         IN /\ v \in Objects /\ v.thinking = FALSE /\ v.ready = u.ready
            /\ v.record_wght = u.record_wght /\ v.id_wght = u.id_wght
<1> DEFINE v == Play!Moved(u, ends)
           n == u.nmove + 1
           b == ~ends
<1>1. n \in Nat /\ b \in BOOLEAN BY DEF Objects
<1>2. v = [u EXCEPT !.thinking = FALSE, !.nmove = n, !.playing = b]
  BY DEF Play!Moved, Objects
<1> HIDE DEF v, n, b
<1>3. v \in Objects
  <2> DEFINE a == [u EXCEPT !.thinking = FALSE]
             c == [a EXCEPT !.nmove = n]
             d == [c EXCEPT !.playing = b]
  <2>1. a \in Objects BY DEF Objects
  <2> HIDE DEF a
  <2>2. c \in Objects BY <1>1, <2>1 DEF Objects
  <2> HIDE DEF c
  <2>3. d \in Objects BY <1>1, <2>2 DEF Objects
  <2> QED BY <1>2, <2>3 DEF a, c, d
<1>4. u \in [ready : {u.ready}, playing : BOOLEAN, thinking : BOOLEAN, nmove : Nat,
             id_wght : {u.id_wght}, record_wght : {u.record_wght}]
  BY DEF Objects
<1>5. v \in [ready : {u.ready}, playing : {b}, thinking : {FALSE}, nmove : {n},
             id_wght : {u.id_wght}, record_wght : {u.record_wght}]
  BY <1>1, <1>2, <1>4
<1>6. /\ v.thinking = FALSE /\ v.ready = u.ready
      /\ v.record_wght = u.record_wght /\ v.id_wght = u.id_wght
  BY <1>5
<1> QED BY <1>3, <1>6 DEF v

\* What start() leaves: nothing done, a move asked for, or a game and its first move.
\* It does nothing with an engine that is not ready, has the weight to wait for, is
\* at work or is left alone for want of a connection.
NewGame(u) == [u EXCEPT !.playing = TRUE, !.thinking = FALSE, !.nmove = 0,
                        !.record_wght = u.id_wght]
NotStarted(u, in, x, q) ==
  /\ q.u = u /\ q.in = in
  /\ u.ready # TRUE \/ x # call.wght \/ u.thinking = TRUE \/ Play!LeftAlone(u)
MoveStarted(u, in, q) ==
  /\ u.ready = TRUE /\ u.playing = TRUE /\ u.thinking # TRUE
  /\ q.u = [u EXCEPT !.thinking = TRUE] /\ q.in = Append(in, Play!Command("go"))
GameStarted(u, in, q) ==
  /\ u.ready = TRUE /\ u.thinking # TRUE
  /\ q.in = Append(Append(in, Play!Command("usinewgame")), Play!Command("go"))
  /\ q.u = [NewGame(u) EXCEPT !.thinking = TRUE]
Started(u, in, x, q) ==
  NotStarted(u, in, x, q) \/ MoveStarted(u, in, q) \/ GameStarted(u, in, q)

MayStart(u) == u.id_wght \in Nat /\ (u.thinking = TRUE => u.playing = TRUE)

\* What Start does with an object that may start.
LEMMA StartDoes ==
  ASSUME NEW u \in Objects, NEW in \in Seq(Commands), NEW x, call.conn \in BOOLEAN,
         MayStart(u)
  PROVE  Started(u, in, x, Play!Start([u |-> u, in |-> in], x))
<1> DEFINE p == [u |-> u, in |-> in]
           g == NewGame(u)
           s == Play!StartNewgame(p)
           q == Play!Start(p, x)
<1> SUFFICES Started(u, in, x, q)
  OBVIOUS
<1> USE DEF MayStart, Started, NotStarted, MoveStarted, GameStarted
<1>1. p.u = u /\ p.in = in OBVIOUS
<1>2. s.u = g /\ s.in = Append(in, Play!Command("usinewgame"))
  BY <1>1 DEF Play!StartNewgame, NewGame
<1>3. g.playing = TRUE /\ g.thinking = FALSE BY GameObject DEF NewGame
<1>4. u.ready \in BOOLEAN /\ u.playing \in BOOLEAN /\ u.thinking \in BOOLEAN BY DEF Objects
<1>5. \A z : /\ Play!EngineGo(z).u = [z.u EXCEPT !.thinking = TRUE]
             /\ Play!EngineGo(z).in = Append(z.in, Play!Command("go"))
  BY DEF Play!EngineGo
<1> HIDE DEF p, g, s, q
<1>6. CASE ~(u.ready = TRUE) \/ x # call.wght
  <2>1. q = p BY <1>1, <1>4, <1>6 DEF q, Play!Start
  <2> QED BY <2>1, <1>1, <1>6
<1>7. CASE u.ready = TRUE /\ x = call.wght
  <2>1. CASE u.playing = TRUE /\ u.thinking = TRUE
    <3>1. q = p BY <1>1, <1>7, <2>1 DEF q, Play!Start
    <3> QED BY <3>1, <1>1, <2>1
  <2>2. CASE u.playing = TRUE /\ u.thinking = FALSE
    <3>1. q = Play!EngineGo(p) BY <1>1, <1>7, <2>2 DEF q, Play!Start
    <3> QED BY <3>1, <1>1, <1>5, <1>7, <2>2
  <2>3. CASE u.playing = FALSE /\ call.conn = TRUE
    <3>1. u.thinking # TRUE BY <2>3
    <3>2. q = Play!EngineGo(s) BY <1>1, <1>2, <1>3, <1>7, <2>3 DEF q, s, Play!Start
    <3> QED BY <3>1, <3>2, <1>2, <1>5, <1>7 DEF g
  <2>4. CASE u.playing = FALSE /\ call.conn = FALSE
    <3>1. q = p BY <1>1, <1>7, <2>4 DEF q, Play!Start
    <3>2. Play!LeftAlone(u) BY <2>4 DEF Play!LeftAlone
    <3> QED BY <3>1, <3>2, <1>1
  <2> QED BY <2>1, <2>2, <2>3, <2>4, <1>4
<1> QED BY <1>4, <1>6, <1>7

\* start() keeps what holds between the engine and its pipes; an engine it leaves
\* silent was silent before and has a reason to be.
StartedFit(q, u, in, out, task, told, first, w, x) ==
  /\ q.u \in Objects /\ q.in \in Seq(Commands)
  /\ Fits(q.u, q.in, out, task, told, first, w)
  /\ Silent(q.in, out, task) =>
       /\ Silent(in, out, task)
       /\ u.ready # TRUE \/ x # call.wght \/ Play!LeftAlone(q.u)

\* Object, pipes and process still fit together after Start.
LEMMA StartFits ==
  ASSUME NEW u \in Objects, NEW in \in Seq(Commands), NEW out, NEW task \in {"read", "search"},
         NEW told, NEW first, NEW w \in Nat, NEW x, call \in Calls,
         Fits(u, in, out, task, told, first, w)
  PROVE  StartedFit(Play!Start([u |-> u, in |-> in], x),
                    u, in, out, task, told, first, w, x)
<1> DEFINE q == Play!Start([u |-> u, in |-> in], x)
<1> USE DEF StartedFit
<1>1. MayStart(u) BY DEF MayStart, Fits, ToldLast, GameBegins
<1>0. call.conn \in BOOLEAN BY DEF Calls
<1>2. Started(u, in, x, q) BY <1>0, <1>1, StartDoes
<1> HIDE DEF q
<1>3. /\ Play!Command("go") \in Commands /\ Play!Command("usinewgame") \in Commands
      /\ Play!Command("go").cmd = "go"
  BY DEF Play!Command, Commands
<1>4. CASE NotStarted(u, in, x, q)
  <2>1. u.thinking = TRUE => ~Silent(in, out, task)
    BY SaidNothing DEF Fits, OneMove, Silent
  <2> QED BY <2>1, <1>4 DEF q, NotStarted
<1>5. CASE MoveStarted(u, in, q)
  <2> USE DEF MoveStarted
  <2>1. q.u \in Objects /\ GoesOn(u, q.u, in, task) BY <1>5, GoObject DEF GoesOn, Goes, Like
  <2>2. Fits(q.u, q.in, out, task, told, first, w) BY <1>5, <2>1, GoFits
  <2>3. Sent(q.in, "go") /\ q.in \in Seq(Commands) BY <1>3, <1>5, SentAppended
  <2> QED BY <2>1, <2>2, <2>3 DEF Silent, q
<1>6. CASE GameStarted(u, in, q)
  <2> USE DEF GameStarted
  <2> DEFINE g == NewGame(u)
             m == Append(in, Play!Command("usinewgame"))
  <2>1. /\ g \in Objects /\ g.ready = u.ready /\ g.playing = TRUE
        /\ g.record_wght = u.id_wght /\ g.id_wght = u.id_wght
    BY <1>1, GameObject DEF NewGame, MayStart
  <2> HIDE DEF g
  <2>2. /\ q.u \in Objects /\ q.u.thinking = TRUE /\ q.u.ready = g.ready
        /\ q.u.playing = g.playing /\ Like(g, q.u)
    BY <1>6, <2>1, GoObject DEF Like, g
  <2>3. GoesNew(u, q.u, in, task) BY <1>6, <2>1, <2>2 DEF GoesNew, Goes, Like
  <2>4. Fits(q.u, q.in, out, task, told, first, w) BY <1>6, <2>3, GameFits
  <2>5. m \in Seq(Commands) BY <1>3
  <2>6. q.in = Append(m, Play!Command("go")) BY <1>6
  <2> HIDE DEF m
  <2>7. Sent(q.in, "go") /\ q.in \in Seq(Commands) BY <1>3, <2>5, <2>6, SentAppended
  <2> QED BY <2>2, <2>4, <2>7 DEF Silent, q
<1> QED BY <1>2, <1>4, <1>5, <1>6 DEF Started, q

\* A line that is not a move is read.
LEMMA ReadFits ==
  ASSUME NEW u, NEW v, NEW in, NEW out \in Seq(Lines), out # <<>>, NEW task, NEW told,
         NEW first, NEW w, Fits(u, in, out, task, told, first, w), Head(out) # "bestmove",
         v.ready = TRUE, v.playing = u.playing, v.thinking = u.thinking, Like(u, v)
  PROVE  Fits(v, in, Tail(out), task, told, first, w)
<1> USE DEF Like
<1>1. /\ Len(Tail(out)) = Len(out) - 1 /\ Len(out) \in Nat /\ Len(out) > 0
      /\ \A i \in 1 .. Len(out) - 1 : Tail(out)[i] = out[i + 1]
  BY Taken
<1>2. Said(Tail(out), "bestmove") <=> Said(out, "bestmove") BY SaidTaken
<1>3. ASSUME NEW i \in 1 .. Len(Tail(out)), NEW j \in 1 .. Len(Tail(out)),
             Tail(out)[i] = "bestmove", Tail(out)[j] = "bestmove"
      PROVE  i = j
  <2>1. i + 1 \in 1 .. Len(out) /\ j + 1 \in 1 .. Len(out) BY <1>1
  <2>2. out[i + 1] = "bestmove" /\ out[j + 1] = "bestmove" BY <1>1, <1>3
  <2>3. i + 1 = j + 1 BY <2>1, <2>2 DEF Fits, OneMove
  <2> QED BY <2>3, <1>1
<1>4. OneMove(v, in, Tail(out), task) BY <1>2, <1>3 DEF Fits, OneMove
<1> QED BY <1>4 DEF Fits, ToldLast, GameBegins, Handshake

\* A move is read: it was the one asked for, and the first weight is the record's.
LEMMA MoveFits ==
  ASSUME NEW u, NEW v, NEW in \in Seq(Commands), NEW out \in Seq(Lines), out # <<>>,
         NEW task \in {"read", "search"}, NEW told, NEW first, NEW w,
         Fits(u, in, out, task, told, first, w), Head(out) = "bestmove",
         v.ready = u.ready, v.thinking = FALSE, Like(u, v)
  PROVE  /\ Fits(v, in, Tail(out), task, told, first, w)
         /\ first = u.record_wght /\ u.ready = TRUE /\ u.thinking = TRUE
<1> USE DEF Like
<1>1. /\ Len(Tail(out)) = Len(out) - 1 /\ Len(out) \in Nat /\ Len(out) > 0
      /\ \A i \in 1 .. Len(out) - 1 : Tail(out)[i] = out[i + 1]
      /\ Head(out) = out[1]
  BY Taken
<1>2. Said(out, "bestmove") BY SaidTaken
<1>3. ~Sent(in, "go") /\ task = "read" /\ u.thinking = TRUE /\ u.playing = TRUE /\ u.ready = TRUE
  BY <1>2 DEF Fits, OneMove, GameBegins, Handshake
<1>4. \A i \in 1 .. Len(Tail(out)) : Tail(out)[i] # "bestmove"
  <2> SUFFICES ASSUME NEW i \in 1 .. Len(Tail(out)), Tail(out)[i] = "bestmove" PROVE FALSE
    OBVIOUS
  <2>1. i + 1 \in 1 .. Len(out) /\ 1 \in 1 .. Len(out) BY <1>1
  <2>2. out[i + 1] = "bestmove" /\ out[1] = "bestmove" BY <1>1
  <2>3. i + 1 = 1 BY <2>1, <2>2 DEF Fits, OneMove
  <2> QED BY <2>3, <1>1
<1>5. OneMove(v, in, Tail(out), task)
  <2>1. ~Said(Tail(out), "bestmove") BY <1>4 DEF Said
  <2> QED BY <2>1, <1>3, <1>4 DEF Fits, OneMove
<1>6. \A i \in 1 .. Len(in) : in[i].cmd # "usinewgame"
  <2> SUFFICES ASSUME NEW i \in 1 .. Len(in), in[i].cmd = "usinewgame" PROVE FALSE
    OBVIOUS
  <2>1. i < Len(in) /\ in[i + 1].cmd = "go" BY DEF Fits, GameBegins
  <2>2. i + 1 \in 1 .. Len(in) BY <2>1
  <2> QED BY <2>1, <2>2, <1>3 DEF Sent
<1>7. ~Sent(in, "usinewgame") BY <1>6 DEF Sent
<1>8. u.record_wght \in Nat /\ first = u.record_wght BY <1>3, <1>7 DEF Fits, GameBegins
<1>9. GameBegins(v, in, first, w) BY <1>6, <1>8 DEF GameBegins
<1> QED BY <1>3, <1>5, <1>8, <1>9 DEF Fits, ToldLast, Handshake

\* update() keeps it too; an engine that has said a line is ready by then, and
\* usiok is answered.
Updated(q, u, out, task, told, first, w) ==
  /\ q = [u |-> q.u, in |-> q.in]
  /\ q.u \in Objects /\ q.in \in Seq(Commands) /\ q.u.ready = TRUE
  /\ Fits(q.u, q.in, Tail(out), task, told, first, w)
  /\ Head(out) = "bestmove" => first = u.record_wght

\* Object, pipes and process still fit together after a line was read.
LEMMA UpdateFits ==
  ASSUME NEW u \in Objects, NEW in \in Seq(Commands), NEW out \in Seq(Lines), out # <<>>,
         NEW task \in {"read", "search"}, NEW told, NEW first, NEW w,
         NEW ends \in BOOLEAN, Fits(u, in, out, task, told, first, w)
  PROVE  Updated(Play!Update([u |-> u, in |-> in], Head(out), ends),
                 u, out, task, told, first, w)
<1> DEFINE p == [u |-> u, in |-> in]
           q == Play!Update(p, Head(out), ends)
<1> USE DEF Updated
<1>1. Head(out) \in Lines BY Taken
<1>5. q = [u |-> q.u, in |-> q.in] BY <1>1 DEF Lines, Play!Update
<1>2. CASE Head(out) = "usiok"
  <2> DEFINE v == [u EXCEPT !.ready = TRUE]
  <2>1. /\ v \in Objects /\ v.ready = TRUE /\ v.playing = u.playing /\ v.thinking = u.thinking
        /\ Like(u, v)
    BY DEF Objects, Like
  <2>2. q.u = v /\ q.in = Append(in, Play!Command("isready")) BY <1>2 DEF Play!Update
  <2> HIDE DEF v, q
  <2>3. Fits(v, in, Tail(out), task, told, first, w) BY <1>2, <2>1, ReadFits
  <2>4. Fits(v, q.in, Tail(out), task, told, first, w) BY <2>1, <2>2, <2>3, Other
  <2>5. q.in \in Seq(Commands)
    <3>1. Play!Command("isready") \in Commands BY DEF Play!Command, Commands
    <3> QED BY <3>1, <2>2
  <2> QED BY <1>2, <1>5, <2>1, <2>2, <2>4, <2>5 DEF q
<1>3. CASE Head(out) = "readyok"
  <2>1. q = p BY <1>3 DEF Play!Update
  <2>2. u.ready = TRUE
    <3>1. Said(out, "readyok") BY <1>3, SaidTaken
    <3> QED BY <3>1 DEF Fits, Handshake
  <2>3. Fits(u, in, Tail(out), task, told, first, w) BY <1>3, <2>2, ReadFits DEF Like
  <2> QED BY <1>3, <2>1, <2>2, <2>3
<1>4. CASE Head(out) = "bestmove"
  <2> DEFINE v == Play!Moved(u, ends)
  <2>1. /\ v \in Objects /\ v.ready = u.ready /\ v.thinking = FALSE /\ Like(u, v)
    BY MovedObject DEF Like
  <2>2. q.u = v /\ q.in = in BY <1>4 DEF Play!Update
  <2> HIDE DEF v, q
  <2>6. /\ Fits(v, in, Tail(out), task, told, first, w)
        /\ first = u.record_wght /\ u.ready = TRUE
    BY <1>4, <2>1, MoveFits
  <2> QED BY <1>5, <2>1, <2>2, <2>6 DEF q
<1> HIDE DEF q
<1> QED BY <1>1, <1>2, <1>3, <1>4, <1>5 DEF Lines

----------------------------------------------------------------------------
(* What the engine does.                                                         *)

\* What is left of the pipe when its first command is taken.
Rest(in, r) ==
  /\ in \in Seq(Commands) /\ r \in Seq(Commands) /\ Len(in) \in Nat /\ Len(in) > 0
  /\ Len(r) = Len(in) - 1 /\ \A i \in 1 .. Len(r) : r[i] = in[i + 1]
  /\ \A d : Sent(in, d) <=> in[1].cmd = d \/ Sent(r, d)

\* The pipe without its first command is a rest of it.
LEMMA RestIs ==
  ASSUME NEW in \in Seq(Commands), in # <<>>
  PROVE  Rest(in, Tail(in)) /\ Head(in) = in[1] /\ in[1] \in Commands
  BY Taken, SentTaken DEF Rest

\* No command moves another way than forward, so the order of those left is kept.
Ordered(r, u, w) ==
  /\ \A i, j \in 1 .. Len(r) : r[i].cmd = "go" /\ r[j].cmd = "go" => i = j
  /\ \A i \in 1 .. Len(r) :
       r[i].cmd = "setoption" /\ (\A j \in i + 1 .. Len(r) : r[j].cmd # "setoption") =>
         r[i].wght = w
  /\ \A i \in 1 .. Len(r) :
       r[i].cmd = "go" => \A j \in i + 1 .. Len(r) : r[j].cmd # "setoption"
  /\ \A i \in 1 .. Len(r) : r[i].cmd = "usinewgame" =>
       i < Len(r) /\ r[i + 1].cmd = "go" /\ u.record_wght = w

\* What the invariant says of a pipe it says of its rest.
LEMMA RestFits ==
  ASSUME NEW in, NEW r, Rest(in, r), NEW u, NEW out, NEW task, NEW told, NEW first, NEW w,
         Fits(u, in, out, task, told, first, w)
  PROVE  Ordered(r, u, w)
<1> USE DEF Rest
<1>1. \A i \in 1 .. Len(r) : i + 1 \in 1 .. Len(in) /\ r[i] = in[i + 1] OBVIOUS
<1>2. ASSUME NEW i \in 1 .. Len(r), NEW j \in 1 .. Len(r), r[i].cmd = "go", r[j].cmd = "go"
      PROVE  i = j
  <2>1. i + 1 = j + 1 BY <1>1, <1>2 DEF Fits, OneMove
  <2> QED BY <2>1
<1>3. ASSUME NEW i \in 1 .. Len(r), r[i].cmd = "setoption",
             \A j \in i + 1 .. Len(r) : r[j].cmd # "setoption"
      PROVE  r[i].wght = w
  <2>1. ASSUME NEW j \in i + 2 .. Len(in) PROVE in[j].cmd # "setoption"
    <3>1. j - 1 \in i + 1 .. Len(r) /\ j - 1 \in 1 .. Len(r) /\ j - 1 + 1 = j OBVIOUS
    <3> QED BY <3>1, <1>3
  <2>2. i + 1 + 1 = i + 2 OBVIOUS
  <2> QED BY <2>1, <2>2, <1>1, <1>3 DEF Fits, ToldLast
<1>4. ASSUME NEW i \in 1 .. Len(r), r[i].cmd = "go", NEW j \in i + 1 .. Len(r)
      PROVE  r[j].cmd # "setoption"
  <2>1. j \in 1 .. Len(r) /\ j + 1 \in i + 1 + 1 .. Len(in) OBVIOUS
  <2> QED BY <2>1, <1>1, <1>4 DEF Fits, ToldLast
<1>5. ASSUME NEW i \in 1 .. Len(r), r[i].cmd = "usinewgame"
      PROVE  i < Len(r) /\ r[i + 1].cmd = "go" /\ u.record_wght = w
  <2>1. i + 1 < Len(in) /\ in[i + 1 + 1].cmd = "go" /\ u.record_wght = w
    BY <1>1, <1>5 DEF Fits, GameBegins
  <2>2. i + 1 \in 1 .. Len(r) BY <2>1
  <2> QED BY <2>1, <2>2, <1>1
<1> QED BY <1>2, <1>3, <1>4, <1>5 DEF Ordered

\* usi and isready are answered.
LEMMA AnswerFits ==
  ASSUME NEW in, NEW r, Rest(in, r), NEW u, NEW out \in Seq(Lines), NEW told, NEW first, NEW w,
         Fits(u, in, out, "read", told, first, w),
         NEW l \in Lines,
         \/ in[1].cmd = "usi" /\ l = "usiok"
         \/ in[1].cmd = "isready" /\ l = "readyok"
  PROVE  Fits(u, r, Append(out, l), "read", told, first, w)
<1>0. Ordered(r, u, w) BY RestFits
<1> DEFINE n == Append(out, l)
<1>1. \A d : Said(n, d) <=> Said(out, d) \/ l = d BY SaidAppended
<1>2. \A i, j \in 1 .. Len(n) : n[i] = "bestmove" /\ n[j] = "bestmove" => i = j
  <2>1. /\ Len(n) = Len(out) + 1 /\ Len(out) \in Nat
        /\ \A i \in 1 .. Len(out) : n[i] = out[i]
        /\ n[Len(out) + 1] = l
    BY Appended
  <2> HIDE DEF n
  <2>2. \A i \in 1 .. Len(n) : n[i] = "bestmove" => i \in 1 .. Len(out) /\ out[i] = "bestmove"
    BY <2>1
  <2> QED BY <2>2 DEF Fits, OneMove
<1> HIDE DEF n
<1>3. \A d : d \notin {"usi", "isready"} => (Sent(in, d) <=> Sent(r, d)) BY DEF Rest
<1>4. Sent(in, "isready") <=> in[1].cmd = "isready" \/ Sent(r, "isready") BY DEF Rest
<1>5. Sent(in, "usi") <=> in[1].cmd = "usi" \/ Sent(r, "usi") BY DEF Rest
<1>6. OneMove(u, r, n, "read") BY <1>1, <1>2, <1>3, <1>0 DEF Fits, OneMove, Ordered
<1>7. ToldLast(u, r, "read", told, w) BY <1>3, <1>0 DEF Fits, ToldLast, Ordered
<1>8. GameBegins(u, r, first, w) BY <1>3, <1>0 DEF Fits, GameBegins, Ordered
<1>9. Handshake(u, r, n) BY <1>1, <1>4, <1>5 DEF Fits, Handshake
<1> QED BY <1>6, <1>7, <1>8, <1>9 DEF Fits, n

\* The engine takes the weight it is told of.
LEMMA ToldFits ==
  ASSUME NEW in, NEW r, Rest(in, r), NEW u, NEW out, NEW told, NEW first, NEW w,
         Fits(u, in, out, "read", told, first, w), in[1].cmd = "setoption"
  PROVE  Fits(u, r, out, "read", in[1].wght, first, w)
<1>0. Ordered(r, u, w) BY RestFits
<1>1. \A d : d # "setoption" => (Sent(in, d) <=> Sent(r, d)) BY DEF Rest
<1>2. OneMove(u, r, out, "read") BY <1>1, <1>0 DEF Fits, OneMove, Ordered
<1>3. ASSUME ~Sent(r, "setoption") PROVE in[1].wght = w
  <2>1. 1 \in 1 .. Len(in) BY DEF Rest
  <2>2. ASSUME NEW j \in 2 .. Len(in) PROVE in[j].cmd # "setoption"
    <3>1. j - 1 \in 1 .. Len(r) /\ in[j] = r[j - 1]
      <4>1. j - 1 \in 1 .. Len(r) /\ j - 1 + 1 = j BY DEF Rest
      <4> QED BY <4>1 DEF Rest
    <3> QED BY <3>1, <1>3 DEF Sent
  <2>3. 1 + 1 = 2 OBVIOUS
  <2> QED BY <2>1, <2>2, <2>3 DEF Fits, ToldLast
<1>4. ToldLast(u, r, "read", in[1].wght, w) BY <1>3, <1>0 DEF Fits, ToldLast, Ordered
<1>5. GameBegins(u, r, first, w) BY <1>1, <1>0 DEF Fits, GameBegins, Ordered
<1>6. Handshake(u, r, out) BY <1>1 DEF Fits, Handshake
<1> QED BY <1>2, <1>4, <1>5, <1>6 DEF Fits

\* A new game: it has no first weight yet, and its first move is next.
LEMMA BeginFits ==
  ASSUME NEW in, NEW r, Rest(in, r), NEW u, NEW out, NEW told, NEW first, NEW w \in Nat,
         Fits(u, in, out, "read", told, first, w), in[1].cmd = "usinewgame"
  PROVE  Fits(u, r, out, "read", told, -1, w)
<1>0. Ordered(r, u, w) BY RestFits
<1>1. \A d : d # "usinewgame" => (Sent(in, d) <=> Sent(r, d)) BY DEF Rest
<1>2. OneMove(u, r, out, "read") BY <1>1, <1>0 DEF Fits, OneMove, Ordered
<1>3. ToldLast(u, r, "read", told, w) BY <1>1, <1>0 DEF Fits, ToldLast, Ordered
<1>4. Sent(r, "go") /\ u.record_wght = w
  <2>1. 1 \in 1 .. Len(in) BY DEF Rest
  <2>2. 1 < Len(in) /\ in[1 + 1].cmd = "go" /\ u.record_wght = w
    BY <2>1 DEF Fits, GameBegins
  <2>3. 1 \in 1 .. Len(r) /\ r[1] = in[1 + 1] BY <2>2 DEF Rest
  <2> QED BY <2>2, <2>3 DEF Sent
<1>5. GameBegins(u, r, -1, w) BY <1>4, <1>0 DEF Fits, GameBegins, Ordered
<1>6. Handshake(u, r, out) BY <1>1 DEF Fits, Handshake
<1> QED BY <1>2, <1>3, <1>5, <1>6 DEF Fits

\* A move is searched: it is the only one asked for, the engine has been told of the
\* devices' weight, and that is the game's first one if it had none.
LEMMA SearchFits ==
  ASSUME NEW in, NEW r, Rest(in, r), NEW u, NEW out, NEW told, NEW first, NEW w,
         Fits(u, in, out, "read", told, first, w), in[1].cmd = "go"
  PROVE  Fits(u, r, out, "search", told, IF first = -1 THEN w ELSE first, w)
<1>0. Ordered(r, u, w) BY RestFits
<1> DEFINE f == IF first = -1 THEN w ELSE first
<1>1. \A d : d # "go" => (Sent(in, d) <=> Sent(r, d)) BY DEF Rest
<1>2. 1 \in 1 .. Len(in) /\ Sent(in, "go") BY DEF Rest
<1>3. \A i \in 1 .. Len(r) : r[i].cmd # "go"
  <2> SUFFICES ASSUME NEW i \in 1 .. Len(r), r[i].cmd = "go" PROVE FALSE
    OBVIOUS
  <2>1. i + 1 \in 1 .. Len(in) /\ in[i + 1].cmd = "go" BY DEF Rest
  <2>2. i + 1 = 1 BY <2>1, <1>2 DEF Fits, OneMove
  <2> QED BY <2>2
<1>4. ~Sent(r, "go") BY <1>3 DEF Sent
<1>5. OneMove(u, r, out, "search") BY <1>2, <1>3, <1>4 DEF Fits, OneMove
<1>6. ~Sent(r, "setoption")
  <2> SUFFICES ASSUME NEW i \in 1 .. Len(r), r[i].cmd = "setoption" PROVE FALSE
    BY DEF Sent
  <2>1. i + 1 \in 1 + 1 .. Len(in) /\ in[i + 1].cmd = "setoption" BY DEF Rest
  <2> QED BY <2>1, <1>2 DEF Fits, ToldLast
<1>7. ToldLast(u, r, "search", told, w) BY <1>1, <1>6, <1>0 DEF Fits, ToldLast, Ordered
<1>8. \A i \in 1 .. Len(r) : r[i].cmd # "usinewgame"
  <2> SUFFICES ASSUME NEW i \in 1 .. Len(r), r[i].cmd = "usinewgame" PROVE FALSE
    OBVIOUS
  <2>1. i < Len(r) /\ r[i + 1].cmd = "go" BY <1>0 DEF Ordered
  <2>2. i + 1 \in 1 .. Len(r) BY <2>1 DEF Rest
  <2> QED BY <2>1, <2>2, <1>3
<1>9. ~Sent(in, "usinewgame") BY <1>1, <1>8 DEF Sent
<1>10. u.playing = TRUE => u.record_wght \in Nat /\ f = u.record_wght
  BY <1>9 DEF Fits, GameBegins
<1>11. GameBegins(u, r, f, w) BY <1>8, <1>10 DEF Fits, GameBegins
<1>12. Handshake(u, r, out) BY <1>1 DEF Fits, Handshake
<1> QED BY <1>5, <1>7, <1>11, <1>12 DEF Fits

\* The search ends with a line.
LEMMA BestFits ==
  ASSUME NEW in, NEW u, NEW out \in Seq(Lines), NEW told, NEW first, NEW w,
         Fits(u, in, out, "search", told, first, w)
  PROVE  Fits(u, in, Append(out, "bestmove"), "read", told, first, w)
<1> DEFINE n == Append(out, "bestmove")
<1>1. "bestmove" \in Lines BY DEF Lines
<1>2. \A d : Said(n, d) <=> Said(out, d) \/ d = "bestmove" BY <1>1, SaidAppended
<1>3. ~Said(out, "bestmove") BY DEF Fits, OneMove
<1>4. \A i, j \in 1 .. Len(n) : n[i] = "bestmove" /\ n[j] = "bestmove" => i = j
  <2>1. /\ Len(n) = Len(out) + 1 /\ Len(out) \in Nat
        /\ \A i \in 1 .. Len(out) : n[i] = out[i]
    BY <1>1, Appended
  <2> HIDE DEF n
  <2>2. \A i \in 1 .. Len(n) : n[i] = "bestmove" => i = Len(out) + 1 BY <2>1, <1>3 DEF Said
  <2> QED BY <2>2
<1> HIDE DEF n
<1>5. OneMove(u, in, n, "read") BY <1>2, <1>3, <1>4 DEF Fits, OneMove
<1>6. Handshake(u, in, n) BY <1>2 DEF Fits, Handshake
<1> QED BY <1>5, <1>6 DEF Fits, ToldLast, n

----------------------------------------------------------------------------
(* The steps of an engine.                                                       *)

\* An engine's process takes a step and nothing else does.
LEMMA ProcKeeps ==
  ASSUME PlayInv, NEW e \in Play!Eids, NEW k \in Procs, proc' = [proc EXCEPT ![e] = k],
         Fits(eng[e], k.in, k.out, k.task, k.told, k.first, pm_wid),
         Silent(k.in, k.out, k.task) => Silent(proc[e].in, proc[e].out, proc[e].task),
         proc[e].out # <<>> => k.out # <<>>,
         UNCHANGED <<eng, num_thinking, pm_wid, pm_net, client, call, record, missed>>
  PROVE  PlayInv'
<1>1. \A f \in Play!Eids : proc'[f] = IF f = e THEN k ELSE proc[f]
  BY DEF PlayInv, PlayTypes
<1>2. PlayTypes'
  <2>1. proc' \in [Play!Eids -> Procs] BY DEF PlayInv, PlayTypes
  <2>2. Play!Eids' = Play!Eids BY DEF Play!Eids
  <2> QED BY <2>1, <2>2 DEF PlayInv, PlayTypes, Calls
<1>3. EnginesFit' BY <1>1 DEF PlayInv, EnginesFit, Play!Eids
<1>4. SilentIsMissed'
  <2>1. ASSUME NEW f \in Play!Eids, Silent(proc'[f].in, proc'[f].out, proc'[f].task)
        PROVE  Silent(proc[f].in, proc[f].out, proc[f].task)
    BY <1>1, <2>1
  <2> QED BY <2>1 DEF PlayInv, SilentIsMissed, Play!Eids
<1>5. LinesAreThere'
  <2>1. call.has \subseteq Play!Eids BY DEF PlayInv, PlayTypes, Calls
  <2> QED BY <1>1, <2>1 DEF PlayInv, LinesAreThere
<1> QED BY <1>2, <1>3, <1>4, <1>5
        DEF PlayInv, Counts, WghtsGrow, RecordNamesItsFirstWght,
            Play!RecordNamesItsFirstWght, Play!Eids

\* The fields of an engine's process after a command.
LEMMA RestRecord ==
  ASSUME NEW k \in Procs, NEW r \in Seq(Commands)
  PROVE  LET q == [k EXCEPT !.in = r]
         IN /\ q \in Procs /\ q.in = r /\ q.out = k.out /\ q.task = k.task
            /\ q.told = k.told /\ q.first = k.first
  BY DEF Procs

\* The fields of a process after it wrote.
LEMMA OutRecord ==
  ASSUME NEW k \in Procs, NEW o \in Seq(Lines)
  PROVE  LET q == [k EXCEPT !.out = o]
         IN /\ q \in Procs /\ q.in = k.in /\ q.out = o /\ q.task = k.task
            /\ q.told = k.told /\ q.first = k.first
  BY DEF Procs

\* The fields of a process after setoption.
LEMMA ToldRecord ==
  ASSUME NEW k \in Procs, NEW w \in Nat
  PROVE  LET q == [k EXCEPT !.told = w]
         IN /\ q \in Procs /\ q.in = k.in /\ q.out = k.out /\ q.task = k.task
            /\ q.told = w /\ q.first = k.first
  BY DEF Procs

\* The fields of a process after usinewgame.
LEMMA FirstRecord ==
  ASSUME NEW k \in Procs, NEW w \in Nat \union {-1}
  PROVE  LET q == [k EXCEPT !.first = w]
         IN /\ q \in Procs /\ q.in = k.in /\ q.out = k.out /\ q.task = k.task
            /\ q.told = k.told /\ q.first = w
  BY DEF Procs

\* The fields of a process that starts or ends its search.
LEMMA TaskRecord ==
  ASSUME NEW k \in Procs, NEW t \in {"read", "search"}
  PROVE  LET q == [k EXCEPT !.task = t]
         IN /\ q \in Procs /\ q.in = k.in /\ q.out = k.out /\ q.task = t
            /\ q.told = k.told /\ q.first = k.first
  BY DEF Procs

\* The search ends.
LEMMA BestMoveKeeps ==
  ASSUME PlayInv, NEW e \in Play!Eids, Play!BestMove(e)
  PROVE  PlayInv'
<1> DEFINE k == proc[e]
           o == Append(k.out, "bestmove")
           m == [k EXCEPT !.task = "read"]
           n == [m EXCEPT !.out = o]
<1>1. k \in Procs /\ k.out \in Seq(Lines) /\ k.in \in Seq(Commands) /\ k.task = "search"
  BY DEF PlayInv, PlayTypes, Procs, Play!BestMove
<1>2. proc' = [proc EXCEPT ![e] = n] BY DEF PlayInv, PlayTypes, Play!BestMove
<1>3. Fits(eng[e], k.in, k.out, "search", k.told, k.first, pm_wid)
  BY <1>1 DEF PlayInv, EnginesFit
<1> HIDE DEF k
<1>4. o \in Seq(Lines) /\ o # <<>>
  <2>1. "bestmove" \in Lines BY DEF Lines
  <2> QED BY <1>1, <2>1, Appended
<1>5. Fits(eng[e], k.in, o, "read", k.told, k.first, pm_wid) BY <1>1, <1>3, BestFits
<1> HIDE DEF o
<1>6. /\ m \in Procs /\ m.in = k.in /\ m.out = k.out /\ m.task = "read"
      /\ m.told = k.told /\ m.first = k.first
  BY <1>1, TaskRecord
<1> HIDE DEF m
<1>7. /\ n \in Procs /\ n.in = m.in /\ n.out = o /\ n.task = m.task
      /\ n.told = m.told /\ n.first = m.first
  BY <1>4, <1>6, OutRecord
<1> HIDE DEF n
<1>8. Fits(eng[e], n.in, n.out, n.task, n.told, n.first, pm_wid) BY <1>5, <1>6, <1>7
<1>9. ~Silent(n.in, n.out, n.task) BY <1>4, <1>7 DEF Silent
<1> QED BY <1>2, <1>4, <1>7, <1>8, <1>9, ProcKeeps DEF Play!BestMove

\* The two commands that are answered, each with its line.
Answers(c, l) == \/ c.cmd = "usi" /\ l = "usiok"
                 \/ c.cmd = "isready" /\ l = "readyok"

\* A command is obeyed.
LEMMA ObeyKeeps ==
  ASSUME PlayInv, NEW e \in Play!Eids, Play!Obey(e)
  PROVE  PlayInv'
<1> DEFINE k == proc[e]
           c == Head(k.in)
           r == Tail(k.in)
           m == [k EXCEPT !.in = r]
<1>1. /\ k \in Procs /\ k.in \in Seq(Commands) /\ k.out \in Seq(Lines) /\ k.task = "read"
      /\ k.in # <<>> /\ pm_net = pm_wid /\ pm_wid \in Nat
  BY DEF PlayInv, PlayTypes, Procs, Play!Obey
<1>2. proc' = [proc EXCEPT ![e] =
          CASE c.cmd = "usi"        -> [m EXCEPT !.out = Append(@, "usiok")]
            [] c.cmd = "isready"    -> [m EXCEPT !.out = Append(@, "readyok")]
            [] c.cmd = "setoption"  -> [m EXCEPT !.told = c.wght]
            [] c.cmd = "usinewgame" -> [m EXCEPT !.first = -1]
            [] c.cmd = "go"         -> [m EXCEPT !.task = "search",
                                                 !.first = IF @ = -1 THEN pm_net ELSE @]]
  BY DEF Play!Obey, Play!NoWght
<1>3. /\ Fits(eng[e], k.in, k.out, "read", k.told, k.first, pm_wid)
      /\ UNCHANGED <<eng, num_thinking, pm_wid, pm_net, client, call, record, missed>>
  BY <1>1 DEF PlayInv, EnginesFit, Play!Obey
<1> HIDE DEF k
<1>4. Rest(k.in, r) /\ c = k.in[1] /\ c \in Commands BY <1>1, RestIs
<1>5. r \in Seq(Commands) BY <1>4 DEF Rest
<1> HIDE DEF r, c
<1>6. /\ m \in Procs /\ m.in = r /\ m.out = k.out /\ m.task = "read"
      /\ m.told = k.told /\ m.first = k.first
  BY <1>1, <1>5, RestRecord
<1> HIDE DEF m
<1>7. ASSUME NEW n \in Procs, proc' = [proc EXCEPT ![e] = n],
             Fits(eng[e], n.in, n.out, n.task, n.told, n.first, pm_wid),
             Silent(n.in, n.out, n.task) => Silent(k.in, k.out, k.task),
             k.out # <<>> => n.out # <<>>
      PROVE  PlayInv'
  BY <1>3, <1>7, ProcKeeps DEF k
<1>8. ASSUME NEW l \in Lines, Answers(c, l),
             proc' = [proc EXCEPT ![e] = [m EXCEPT !.out = Append(@, l)]]
      PROVE  PlayInv'
  <2> DEFINE o == Append(k.out, l)
             n == [m EXCEPT !.out = o]
  <2>1. o \in Seq(Lines) /\ o # <<>> BY <1>1, <1>8, Appended
  <2>2. Fits(eng[e], r, o, "read", k.told, k.first, pm_wid)
    BY <1>1, <1>3, <1>4, <1>8, AnswerFits DEF Answers
  <2>3. proc' = [proc EXCEPT ![e] = n] BY <1>6, <1>8 DEF Procs
  <2> HIDE DEF o
  <2>4. /\ n \in Procs /\ n.in = m.in /\ n.out = o /\ n.task = m.task
        /\ n.told = m.told /\ n.first = m.first
    BY <1>6, <2>1, OutRecord
  <2> HIDE DEF n
  <2>5. Fits(eng[e], n.in, n.out, n.task, n.told, n.first, pm_wid) BY <1>6, <2>2, <2>4
  <2>6. ~Silent(n.in, n.out, n.task) BY <2>1, <2>4 DEF Silent
  <2> QED BY <1>7, <2>1, <2>3, <2>4, <2>5, <2>6
<1>9. CASE c.cmd = "usi"
  <2>1. proc' = [proc EXCEPT ![e] = [m EXCEPT !.out = Append(@, "usiok")]] BY <1>2, <1>9
  <2>2. "usiok" \in Lines /\ Answers(c, "usiok") BY <1>9 DEF Lines, Answers
  <2> QED BY <1>8, <2>1, <2>2
<1>10. CASE c.cmd = "isready"
  <2>1. proc' = [proc EXCEPT ![e] = [m EXCEPT !.out = Append(@, "readyok")]] BY <1>2, <1>10
  <2>2. "readyok" \in Lines /\ Answers(c, "readyok") BY <1>10 DEF Lines, Answers
  <2> QED BY <1>8, <2>1, <2>2
<1>11. CASE c.cmd = "setoption"
  <2> DEFINE n == [m EXCEPT !.told = c.wght]
  <2>1. proc' = [proc EXCEPT ![e] = n] BY <1>2, <1>11
  <2>2. c.wght \in Nat BY <1>4, <1>11 DEF Commands
  <2>3. /\ n \in Procs /\ n.in = m.in /\ n.out = m.out /\ n.task = m.task
        /\ n.told = c.wght /\ n.first = m.first
    BY <1>6, <2>2, ToldRecord
  <2> HIDE DEF n
  <2>4. Fits(eng[e], r, k.out, "read", c.wght, k.first, pm_wid)
    BY <1>3, <1>4, <1>11, ToldFits
  <2>5. Fits(eng[e], n.in, n.out, n.task, n.told, n.first, pm_wid) BY <1>6, <2>3, <2>4
  <2>6. Silent(n.in, n.out, n.task) => Silent(k.in, k.out, k.task)
    BY <1>1, <1>4, <1>6, <1>11, <2>3 DEF Silent, Rest
  <2> QED BY <1>6, <1>7, <2>1, <2>3, <2>5, <2>6
<1>12. CASE c.cmd = "usinewgame"
  <2> DEFINE n == [m EXCEPT !.first = -1]
  <2>1. proc' = [proc EXCEPT ![e] = n] BY <1>2, <1>12
  <2>2. /\ n \in Procs /\ n.in = m.in /\ n.out = m.out /\ n.task = m.task
        /\ n.told = m.told /\ n.first = -1
    BY <1>6, FirstRecord
  <2> HIDE DEF n
  <2>3. Fits(eng[e], r, k.out, "read", k.told, -1, pm_wid)
    BY <1>1, <1>3, <1>4, <1>12, BeginFits
  <2>4. Fits(eng[e], n.in, n.out, n.task, n.told, n.first, pm_wid) BY <1>6, <2>2, <2>3
  <2>5. Silent(n.in, n.out, n.task) => Silent(k.in, k.out, k.task)
    BY <1>1, <1>4, <1>6, <1>12, <2>2 DEF Silent, Rest
  <2> QED BY <1>6, <1>7, <2>1, <2>2, <2>4, <2>5
<1>13. CASE c.cmd = "go"
  <2> DEFINE f == IF k.first = -1 THEN pm_wid ELSE k.first
             s == [m EXCEPT !.task = "search"]
             n == [s EXCEPT !.first = f]
  <2>1. f \in Nat \union {-1} BY <1>1 DEF Procs
  <2>2. proc' = [proc EXCEPT ![e] = n] BY <1>1, <1>2, <1>6, <1>13 DEF Procs
  <2>3. Fits(eng[e], r, k.out, "search", k.told, f, pm_wid)
    BY <1>3, <1>4, <1>13, SearchFits
  <2> HIDE DEF f
  <2>4. /\ s \in Procs /\ s.in = m.in /\ s.out = m.out /\ s.task = "search"
        /\ s.told = m.told /\ s.first = m.first
    BY <1>6, TaskRecord
  <2> HIDE DEF s
  <2>5. /\ n \in Procs /\ n.in = s.in /\ n.out = s.out /\ n.task = s.task
        /\ n.told = s.told /\ n.first = f
    BY <2>1, <2>4, FirstRecord
  <2> HIDE DEF n
  <2>6. Fits(eng[e], n.in, n.out, n.task, n.told, n.first, pm_wid) BY <1>6, <2>3, <2>4, <2>5
  <2>7. ~Silent(n.in, n.out, n.task) BY <2>4, <2>5 DEF Silent
  <2> QED BY <1>6, <1>7, <2>2, <2>4, <2>5, <2>6, <2>7
<1> QED BY <1>4, <1>9, <1>10, <1>11, <1>12, <1>13 DEF Commands

----------------------------------------------------------------------------
(* The steps of the manager.                                                     *)

\* The next engine is one of those with a line.
LEMMA MinIsIn ==
  ASSUME NEW S \in SUBSET Play!Eids, S # {}
  PROVE  Play!Min(S) \in S
<1>1. S \subseteq Nat BY PlayAssumption DEF Play!Eids
<1>2. IsWellFoundedOn(OpToRel(<, Nat), Nat) BY NatLessThanWellFounded
<1>3. PICK x \in S : \A y \in S : ~(<<y, x>> \in OpToRel(<, Nat)) BY <1>1, <1>2, WFMin
<1>4. \A y \in S : x <= y
  <2> SUFFICES ASSUME NEW y \in S, ~(x <= y) PROVE FALSE
    OBVIOUS
  <2>1. x \in Nat /\ y \in Nat /\ y < x BY <1>1
  <2>2. <<y, x>> \in OpToRel(<, Nat) BY <2>1 DEF OpToRel
  <2> QED BY <1>3, <2>2
<1> QED BY <1>4 DEF Play!Min

\* The engines are finitely many, and their number is the same in both modules.
LEMMA EnginesAreFinite ==
  ASSUME NEW S \in SUBSET Play!Eids
  PROVE  IsFiniteSet(S) /\ Play!Cardinality(S) = Cardinality(S) /\ Cardinality(S) \in Nat
<1>1. IsFiniteSet(Play!Eids) BY PlayAssumption, FS_Interval DEF Play!Eids
<1>2. IsFiniteSet(S) BY <1>1, FS_Subset
<1>3. Play!Cardinality(S) = Cardinality(S) BY DEF Play!Cardinality, Cardinality
<1> QED BY <1>2, <1>3, FS_CardinalityType

\* The count goes with the one engine that changes.
LEMMA CountFollows ==
  ASSUME NEW g \in [Play!Eids -> Objects], NEW e \in Play!Eids, NEW v \in Objects,
         NEW h, h = [g EXCEPT ![e] = v]
  PROVE  Cardinality(Thinkers(h)) =
           Cardinality(Thinkers(g)) - Play!Thinks(g[e]) + Play!Thinks(v)
<1> DEFINE S == Thinkers(g)
           R == Thinkers(h)
<1> USE DEF Thinkers
<1>1. \A f \in Play!Eids : h[f] = IF f = e THEN v ELSE g[f] OBVIOUS
<1>2. g[e].thinking \in BOOLEAN /\ v.thinking \in BOOLEAN BY DEF Objects
<1>3. IsFiniteSet(S) /\ Cardinality(S) \in Nat BY EnginesAreFinite
<1>4. CASE v.thinking = TRUE
  <2>1. R = S \union {e} BY <1>1, <1>4
  <2>2. Play!Thinks(v) = 1 BY <1>4 DEF Play!Thinks
  <2>3. CASE g[e].thinking = TRUE
    <3>1. e \in S /\ Play!Thinks(g[e]) = 1 BY <2>3 DEF Play!Thinks
    <3>2. R = S BY <2>1, <3>1
    <3> HIDE DEF S, R
    <3>3. Cardinality(R) = Cardinality(S) - 1 + 1 BY <1>3, <3>2
    <3> QED BY <2>2, <3>1, <3>3 DEF S, R
  <2>4. CASE g[e].thinking # TRUE
    <3>1. e \notin S /\ Play!Thinks(g[e]) = 0 BY <1>2, <2>4 DEF Play!Thinks
    <3> HIDE DEF S, R
    <3>2. Cardinality(R) = Cardinality(S) + 1 BY <1>3, <2>1, <3>1, FS_AddElement
    <3>3. Cardinality(R) = Cardinality(S) - 0 + 1 BY <1>3, <3>2
    <3> QED BY <2>2, <3>1, <3>3 DEF S, R
  <2> QED BY <2>3, <2>4
<1>5. CASE v.thinking # TRUE
  <2>1. R = S \ {e} BY <1>1, <1>5
  <2>2. Play!Thinks(v) = 0 BY <1>2, <1>5 DEF Play!Thinks
  <2>3. CASE g[e].thinking = TRUE
    <3>1. e \in S /\ Play!Thinks(g[e]) = 1 BY <2>3 DEF Play!Thinks
    <3> HIDE DEF S, R
    <3>2. Cardinality(R) = Cardinality(S) - 1 BY <1>3, <2>1, <3>1, FS_RemoveElement
    <3>3. Cardinality(R) = Cardinality(S) - 1 + 0 BY <1>3, <3>2
    <3> QED BY <2>2, <3>1, <3>3 DEF S, R
  <2>4. CASE g[e].thinking # TRUE
    <3>1. e \notin S /\ Play!Thinks(g[e]) = 0 BY <1>2, <2>4 DEF Play!Thinks
    <3>2. R = S BY <2>1, <3>1
    <3> HIDE DEF S, R
    <3>3. Cardinality(R) = Cardinality(S) - 0 + 0 BY <1>3, <3>2
    <3> QED BY <2>2, <3>1, <3>3 DEF S, R
  <2> QED BY <2>3, <2>4
<1> QED BY <1>4, <1>5

\* A line is read: update() and start().
LEMMA LineKeeps ==
  ASSUME PlayInv, NEW ends \in BOOLEAN, Play!Line(ends)
  PROVE  PlayInv'
<1> DEFINE e == Play!Min(call.has)
           k == proc[e]
           u == eng[e]
           q == Play!Update([u |-> u, in |-> k.in], Head(k.out), ends)
           n == Play!Start(q, pm_wid)
<1>1. /\ call.pc = "lines" /\ call.has # {} /\ call \in Calls /\ call.has \in SUBSET Play!Eids
      /\ call.conn \in BOOLEAN /\ call.wght \in Nat /\ call.has \subseteq Play!Eids
  BY DEF PlayInv, PlayTypes, Calls, Play!Line
<1>2. e \in call.has /\ e \in Play!Eids BY <1>1, MinIsIn
<1>3. /\ ends = TRUE => Head(k.out) = "bestmove"
      /\ eng' = [eng EXCEPT ![e] = n.u]
      /\ proc' = [proc EXCEPT ![e].in = n.in, ![e].out = Tail(@)]
      /\ num_thinking' = num_thinking - Play!Thinks(u) + Play!Thinks(n.u)
      /\ record' = IF ends THEN <<u.record_wght, k.first>> ELSE record
      /\ missed' = IF Play!LeftAlone(n.u) THEN missed \union {e} ELSE missed \ {e}
      /\ call' = [call EXCEPT !.has = @ \ {e}]
      /\ UNCHANGED <<pm_wid, pm_net, client>>
  BY DEF Play!Line, Play!Counted
<1> HIDE DEF e
<1>4. /\ k \in Procs /\ k.in \in Seq(Commands) /\ k.out \in Seq(Lines)
      /\ k.task \in {"read", "search"} /\ u \in Objects /\ k.out # <<>>
      /\ pm_wid \in Nat /\ Fits(u, k.in, k.out, k.task, k.told, k.first, pm_wid)
  BY <1>1, <1>2 DEF PlayInv, PlayTypes, Procs, LinesAreThere, EnginesFit
<1> HIDE DEF k, u
<1>5. Updated(q, u, k.out, k.task, k.told, k.first, pm_wid) BY <1>4, UpdateFits
<1> HIDE DEF q
<1> USE DEF Updated
<1>6. /\ n.u \in Objects /\ n.in \in Seq(Commands)
      /\ Fits(n.u, n.in, Tail(k.out), k.task, k.told, k.first, pm_wid)
      /\ Silent(n.in, Tail(k.out), k.task) => pm_wid # call.wght \/ Play!LeftAlone(n.u)
  <2> DEFINE m == Play!Start([u |-> q.u, in |-> q.in], pm_wid)
  <2>1. StartedFit(m, q.u, q.in, Tail(k.out), k.task, k.told, k.first, pm_wid, pm_wid)
    <3>1. /\ q.u \in Objects /\ q.in \in Seq(Commands)
          /\ Fits(q.u, q.in, Tail(k.out), k.task, k.told, k.first, pm_wid)
      BY <1>5
    <3> QED BY <1>1, <1>4, <3>1, StartFits
  <2>2. n = m BY <1>5
  <2> HIDE DEF m, n
  <2> QED BY <1>5, <2>1, <2>2 DEF StartedFit
<1> HIDE DEF n
<1>7. Tail(k.out) \in Seq(Lines) BY <1>4, Taken
<1>8. /\ proc' \in [Play!Eids -> Procs]
      /\ \A f \in Play!Eids : f # e => proc'[f] = proc[f]
      /\ proc'[e].in = n.in /\ proc'[e].out = Tail(k.out) /\ proc'[e].task = k.task
      /\ proc'[e].told = k.told /\ proc'[e].first = k.first
  <2> DEFINE r == [k EXCEPT !.in = n.in]
             s == [r EXCEPT !.out = Tail(k.out)]
  <2>1. /\ r \in Procs /\ r.in = n.in /\ r.out = k.out /\ r.task = k.task
        /\ r.told = k.told /\ r.first = k.first
    BY <1>4, <1>6, RestRecord
  <2>2. /\ s \in Procs /\ s.in = n.in /\ s.out = Tail(k.out) /\ s.task = k.task
        /\ s.told = k.told /\ s.first = k.first
    <3> HIDE DEF r
    <3> QED BY <1>7, <2>1, OutRecord
  <2>3. proc' = [proc EXCEPT ![e] = s] BY <1>2, <1>3 DEF PlayInv, PlayTypes, Procs, k
  <2> HIDE DEF s
  <2> QED BY <1>2, <2>2, <2>3 DEF PlayInv, PlayTypes
<1>9. /\ eng' \in [Play!Eids -> Objects] /\ eng'[e] = n.u
      /\ \A f \in Play!Eids : f # e => eng'[f] = eng[f]
  BY <1>2, <1>3, <1>6 DEF PlayInv, PlayTypes
<1>10. /\ call' \in Calls /\ call'.pc = "lines" /\ call'.has = call.has \ {e}
       /\ call'.wght = call.wght
  BY <1>1, <1>3 DEF Calls
<1>11. num_thinking \in Int /\ Play!Thinks(u) \in Int /\ Play!Thinks(n.u) \in Int
  BY DEF PlayInv, PlayTypes, Play!Thinks
<1>12. PlayTypes'
  <2>1. Play!Eids' = Play!Eids /\ Calls' = Calls BY DEF Play!Eids, Calls
  <2>2. missed' \subseteq Play!Eids BY <1>2, <1>3 DEF PlayInv, PlayTypes
  <2>3. num_thinking' \in Int BY <1>3, <1>11
  <2> QED BY <1>3, <1>8, <1>9, <1>10, <2>1, <2>2, <2>3 DEF PlayInv, PlayTypes
<1>13. EnginesFit'
  <2>1. ASSUME NEW f \in Play!Eids
        PROVE  Fits(eng'[f], proc'[f].in, proc'[f].out, proc'[f].task, proc'[f].told,
                    proc'[f].first, pm_wid)
    <3>1. CASE f = e BY <3>1, <1>6, <1>8, <1>9
    <3>2. CASE f # e BY <3>2, <1>8, <1>9 DEF PlayInv, EnginesFit
    <3> QED BY <3>1, <3>2
  <2> QED BY <1>3, <2>1 DEF EnginesFit, Play!Eids
<1>14. SilentIsMissed'
  <2>1. ASSUME NEW f \in Play!Eids, Silent(proc'[f].in, proc'[f].out, proc'[f].task)
        PROVE  f \in missed' \/ pm_wid < client.wght
    <3>1. CASE f = e
      <4>1. pm_wid # call.wght \/ Play!LeftAlone(n.u) BY <2>1, <3>1, <1>6, <1>8
      <4>2. pm_wid # call.wght => pm_wid < client.wght
        BY <1>1, <1>4 DEF PlayInv, PlayTypes, WghtsGrow
      <4> QED BY <3>1, <4>1, <4>2, <1>3
    <3>2. CASE f # e
      <4>1. f \in missed \/ pm_wid < client.wght
        BY <2>1, <3>2, <1>8 DEF PlayInv, SilentIsMissed
      <4> QED BY <3>2, <4>1, <1>3
    <3> QED BY <3>1, <3>2
  <2> QED BY <1>3, <2>1 DEF SilentIsMissed, Play!Eids
<1>15. Counts'
  <2>1. Cardinality(Thinkers(eng')) =
          Cardinality(Thinkers(eng)) - Play!Thinks(eng[e]) + Play!Thinks(n.u)
    <3>1. eng \in [Play!Eids -> Objects] BY DEF PlayInv, PlayTypes
    <3> DEFINE h == eng'
    <3>2. h = [eng EXCEPT ![e] = n.u] BY <1>3
    <3> HIDE DEF h
    <3>3. Cardinality(Thinkers(h)) =
            Cardinality(Thinkers(eng)) - Play!Thinks(eng[e]) + Play!Thinks(n.u)
      BY <1>2, <1>6, <3>1, <3>2, CountFollows
    <3> QED BY <3>3 DEF h
  <2> QED BY <1>3, <2>1 DEF PlayInv, Counts, Thinkers, Play!Eids, u
<1>16. WghtsGrow' BY <1>3, <1>10 DEF PlayInv, WghtsGrow
<1>17. LinesAreThere' BY <1>1, <1>8, <1>10 DEF PlayInv, LinesAreThere
<1>18. RecordNamesItsFirstWght'
  <2>1. CASE ends = TRUE
    <3>1. record' = <<u.record_wght, k.first>> /\ k.first = u.record_wght
      BY <1>3, <1>5, <2>1
    <3> QED BY <3>1 DEF RecordNamesItsFirstWght, Play!RecordNamesItsFirstWght
  <2>2. CASE ends = FALSE
    BY <1>3, <2>2 DEF PlayInv, RecordNamesItsFirstWght, Play!RecordNamesItsFirstWght
  <2> QED BY <2>1, <2>2
<1> QED BY <1>12, <1>13, <1>14, <1>15, <1>16, <1>17, <1>18 DEF PlayInv

\* A new weight is told, and the next move asked for with it: an engine that this
\* leaves silent was left alone, for one that is not ready has usi to answer.
RenewedFit(q, out, task, told, first, x) ==
  /\ q.u \in Objects /\ q.in \in Seq(Commands)
  /\ Fits(q.u, q.in, out, task, told, first, x)
  /\ Silent(q.in, out, task) => Play!LeftAlone(q.u)

\* Object, pipes and process still fit together after the change of the weight.
LEMMA RenewedFits ==
  ASSUME NEW u \in Objects, NEW in \in Seq(Commands), NEW out, NEW task \in {"read", "search"},
         NEW told, NEW first, NEW w, call \in Calls,
         Fits(u, in, out, task, told, first, w), u.thinking # TRUE
  PROVE  RenewedFit(Play!Renewed([u |-> u, in |-> in], call.wght),
                    out, task, told, first, call.wght)
<1> DEFINE x == call.wght
           c == Play!SetWght(x)
           n == Append(in, c)
           v == [u EXCEPT !.id_wght = x]
           q == Play!Start([u |-> v, in |-> n], x)
<1>1. x \in Nat BY DEF Calls
<1>2. Play!Renewed([u |-> u, in |-> in], x) = q BY DEF Play!Renewed, Play!EngineWghtUpdate
<1> HIDE DEF x
<1>3. /\ v \in Objects /\ v.ready = u.ready /\ v.playing = u.playing
      /\ v.thinking = u.thinking /\ v.record_wght = u.record_wght /\ v.id_wght = x
  BY <1>1 DEF Objects
<1> HIDE DEF v
<1>4. Fits(v, n, out, task, told, first, x) BY <1>1, <1>3, WeightFits
<1>5. c \in Commands /\ c.cmd = "setoption" BY <1>1 DEF Play!SetWght, Commands
<1> HIDE DEF c
<1>6. n \in Seq(Commands) BY <1>5, Appended
<1>7. \A d : Sent(n, d) <=> Sent(in, d) \/ d = "setoption" BY <1>5, SentAppended
<1> HIDE DEF n
<1>8. StartedFit(q, v, n, out, task, told, first, x, x)
  BY <1>1, <1>3, <1>4, <1>6, StartFits
<1> HIDE DEF q
<1>9. Silent(n, out, task) => u.ready = TRUE
  <2>1. u.ready # TRUE => Sent(in, "usi") \/ Said(out, "usiok") BY DEF Fits, Handshake
  <2> QED BY <2>1, <1>7, SaidNothing DEF Silent
<1>10. RenewedFit(q, out, task, told, first, x)
  BY <1>3, <1>8, <1>9 DEF StartedFit, RenewedFit, x
<1> QED BY <1>2, <1>10 DEF x

\* The devices and all engines are given a new weight: nobody thinks.
LEMMA ChangeKeeps ==
  ASSUME PlayInv, Play!Change
  PROVE  PlayInv'
<1> DEFINE w == call.wght
           new == [e \in Play!Eids |->
                     Play!Renewed([u |-> eng[e], in |-> proc[e].in], w)]
<1>1. call \in Calls /\ w \in Nat /\ num_thinking = 0 /\ pm_wid # w
  BY DEF PlayInv, PlayTypes, Calls, Play!Change, Play!Idle
<1>2. /\ pm_wid' = w /\ pm_net' = w
      /\ eng' = [e \in Play!Eids |-> new[e].u]
      /\ proc' = [e \in Play!Eids |-> [proc[e] EXCEPT !.in = new[e].in]]
      /\ num_thinking' = Play!Cardinality({e \in Play!Eids : new[e].u.thinking})
      /\ missed' = {e \in Play!Eids : Play!LeftAlone(new[e].u)}
      /\ call' = [call EXCEPT !.pc = "ask"]
      /\ UNCHANGED <<client, record>>
  BY DEF Play!Change
<1>3. \A e \in Play!Eids : eng[e].thinking # TRUE
  <2>1. Cardinality(Thinkers(eng)) = 0 BY <1>1 DEF PlayInv, Counts
  <2>2. Thinkers(eng) \in SUBSET Play!Eids BY DEF Thinkers
  <2>3. IsFiniteSet(Thinkers(eng)) BY <2>2, EnginesAreFinite
  <2>4. Thinkers(eng) = {} BY <2>1, <2>3, FS_EmptySet
  <2> QED BY <2>4 DEF Thinkers
<1>4. ASSUME NEW e \in Play!Eids
      PROVE  RenewedFit(new[e], proc[e].out, proc[e].task, proc[e].told, proc[e].first, w)
  <2>1. /\ proc[e] \in Procs /\ eng[e] \in Objects
        /\ Fits(eng[e], proc[e].in, proc[e].out, proc[e].task, proc[e].told,
                proc[e].first, pm_wid)
    BY DEF PlayInv, PlayTypes, EnginesFit
  <2>2. proc[e].in \in Seq(Commands) /\ proc[e].task \in {"read", "search"}
    BY <2>1 DEF Procs
  <2>3. new[e] = Play!Renewed([u |-> eng[e], in |-> proc[e].in], w) OBVIOUS
  <2> HIDE DEF new
  <2> QED BY <1>1, <1>3, <2>1, <2>2, <2>3, RenewedFits
<1> HIDE DEF new
<1>5. \A e \in Play!Eids : eng'[e] = new[e].u BY <1>2
<1>6. ASSUME NEW e \in Play!Eids
      PROVE  /\ proc'[e] \in Procs /\ proc'[e].in = new[e].in /\ proc'[e].out = proc[e].out
             /\ proc'[e].task = proc[e].task /\ proc'[e].told = proc[e].told
             /\ proc'[e].first = proc[e].first
  <2>1. proc[e] \in Procs BY DEF PlayInv, PlayTypes
  <2>2. new[e].in \in Seq(Commands) BY <1>4 DEF RenewedFit
  <2>3. proc'[e] = [proc[e] EXCEPT !.in = new[e].in] BY <1>2
  <2> QED BY <2>1, <2>2, <2>3, RestRecord
<1>7. call' \in Calls /\ call'.pc = "ask" /\ call'.wght = w BY <1>1, <1>2 DEF Calls
<1>8. num_thinking' = Cardinality(Thinkers(eng')) /\ num_thinking' \in Int
  <2>1. \A e \in Play!Eids : new[e].u.thinking \in BOOLEAN
    BY <1>4 DEF RenewedFit, Objects
  <2> DEFINE S == {e \in Play!Eids : new[e].u.thinking}
             R == Thinkers(eng')
  <2>2. S = R BY <1>5, <2>1 DEF Thinkers
  <2>3. num_thinking' = Play!Cardinality(S) BY <1>2
  <2>4. R \in SUBSET Play!Eids BY DEF Thinkers
  <2> HIDE DEF S, R
  <2>5. Play!Cardinality(R) = Cardinality(R) /\ Cardinality(R) \in Nat
    BY <2>4, EnginesAreFinite
  <2>6. num_thinking' = Cardinality(R) /\ num_thinking' \in Int BY <2>2, <2>3, <2>5
  <2> QED BY <2>6 DEF R
<1>9. PlayTypes'
  <2>1. Play!Eids' = Play!Eids /\ Calls' = Calls BY DEF Play!Eids, Calls
  <2>2. eng' \in [Play!Eids -> Objects] BY <1>2, <1>4 DEF RenewedFit
  <2>3. proc' \in [Play!Eids -> Procs] BY <1>2, <1>6
  <2>4. missed' \subseteq Play!Eids BY <1>2
  <2>5. client' \in [conn : BOOLEAN, wght : Nat] BY <1>2 DEF PlayInv, PlayTypes
  <2> QED BY <1>1, <1>2, <1>7, <1>8, <2>1, <2>2, <2>3, <2>4, <2>5 DEF PlayTypes
<1>10. EnginesFit'
  <2>1. ASSUME NEW e \in Play!Eids
        PROVE  Fits(eng'[e], proc'[e].in, proc'[e].out, proc'[e].task, proc'[e].told,
                    proc'[e].first, w)
    BY <1>4, <1>5, <1>6 DEF RenewedFit
  <2> QED BY <1>2, <2>1 DEF EnginesFit, Play!Eids
<1>11. SilentIsMissed'
  <2>1. ASSUME NEW e \in Play!Eids, Silent(proc'[e].in, proc'[e].out, proc'[e].task)
        PROVE  e \in missed'
    <3>1. Silent(new[e].in, proc[e].out, proc[e].task) BY <2>1, <1>6
    <3>2. Play!LeftAlone(new[e].u) BY <3>1, <1>4 DEF RenewedFit
    <3> QED BY <3>2, <1>2
  <2> QED BY <2>1 DEF SilentIsMissed, Play!Eids
<1>12. Counts' BY <1>8 DEF Counts, Thinkers, Play!Eids
<1>13. WghtsGrow' BY <1>1, <1>2, <1>7 DEF PlayInv, PlayTypes, WghtsGrow
<1>14. LinesAreThere' BY <1>7 DEF LinesAreThere
<1>15. RecordNamesItsFirstWght'
  BY <1>2 DEF PlayInv, RecordNamesItsFirstWght, Play!RecordNamesItsFirstWght
<1> QED BY <1>9, <1>10, <1>11, <1>12, <1>13, <1>14, <1>15 DEF PlayInv

\* The steps that move neither an engine nor a line: the manager's call, and what the
\* client learns of the server.
LEMMA CallsKeep ==
  ASSUME PlayInv, UNCHANGED <<eng, proc, num_thinking, pm_wid, pm_net, record, missed>>,
         call' \in Calls, call'.wght >= call.wght, call'.wght <= client'.wght,
         client' \in [conn : BOOLEAN, wght : Nat], client'.wght >= client.wght,
         call'.pc = "lines" => \A e \in call'.has : proc[e].out # <<>>
  PROVE  PlayInv'
<1>1. PlayTypes'
  <2>1. Play!Eids' = Play!Eids /\ Calls' = Calls BY DEF Play!Eids, Calls
  <2> QED BY <2>1 DEF PlayInv, PlayTypes
<1>2. EnginesFit' BY DEF PlayInv, EnginesFit, Play!Eids
<1>3. SilentIsMissed'
  <2>1. pm_wid < client.wght => pm_wid < client'.wght BY DEF PlayInv, PlayTypes
  <2> QED BY <2>1 DEF PlayInv, SilentIsMissed, Play!Eids
<1>4. Counts' BY DEF PlayInv, Counts, Thinkers, Play!Eids
<1>5. WghtsGrow' BY DEF PlayInv, PlayTypes, WghtsGrow, Calls
<1>6. LinesAreThere' BY DEF LinesAreThere
<1>7. RecordNamesItsFirstWght'
  BY DEF PlayInv, RecordNamesItsFirstWght, Play!RecordNamesItsFirstWght
<1> QED BY <1>1, <1>2, <1>3, <1>4, <1>5, <1>6, <1>7 DEF PlayInv

\* It holds at first: every engine has usi to answer.
LEMMA PlayStarts == Play!Init => PlayInv
<1> SUFFICES ASSUME Play!Init PROVE PlayInv
  OBVIOUS
<1> DEFINE c == Play!Command("usi")
           in == <<c>>
           u == [ready |-> FALSE, playing |-> FALSE, thinking |-> FALSE, nmove |-> 0,
                 id_wght |-> 0, record_wght |-> -1]
<1>1. c \in Commands /\ c.cmd = "usi" BY DEF Play!Command, Commands
<1>2. /\ eng = [e \in Play!Eids |-> u]
      /\ proc = [e \in Play!Eids |-> [in |-> in, out |-> <<>>, task |-> "read",
                                      told |-> 0, first |-> -1]]
      /\ num_thinking = 0 /\ pm_wid = 0 /\ pm_net = 0
      /\ client = [conn |-> TRUE, wght |-> 0]
      /\ call = [pc |-> "ask", has |-> {}, conn |-> TRUE, wght |-> 0]
      /\ record = <<>> /\ missed = {}
  BY DEF Play!Init, Play!NoWght
<1> HIDE DEF c
<1>3. in \in Seq(Commands) /\ Len(in) = 1 /\ in[1].cmd = "usi" BY <1>1
<1> HIDE DEF in
<1>4. \A d : Sent(in, d) <=> d = "usi" BY <1>3 DEF Sent
<1>5. u \in Objects /\ u.ready = FALSE /\ u.playing = FALSE /\ u.thinking = FALSE /\ u.id_wght = 0
  BY DEF Objects
<1> HIDE DEF u
<1>6. PlayTypes
  <2>1. \A e \in Play!Eids : proc[e] \in Procs BY <1>2, <1>3 DEF Procs
  <2>2. proc \in [Play!Eids -> Procs] BY <1>2, <2>1
  <2>3. call \in Calls BY <1>2 DEF Calls
  <2> QED BY <1>2, <1>5, <2>2, <2>3 DEF PlayTypes
<1>7. Fits(u, in, <<>>, "read", 0, -1, 0)
  <2>1. OneMove(u, in, <<>>, "read") BY <1>3, <1>4, <1>5, SaidNothing DEF OneMove
  <2>2. ToldLast(u, in, "read", 0, 0) BY <1>3, <1>4, <1>5 DEF ToldLast
  <2>3. GameBegins(u, in, -1, 0) BY <1>3, <1>4, <1>5 DEF GameBegins
  <2>4. Handshake(u, in, <<>>) BY <1>4, <1>5, SaidNothing DEF Handshake
  <2> QED BY <2>1, <2>2, <2>3, <2>4 DEF Fits
<1>8. EnginesFit BY <1>2, <1>7 DEF EnginesFit
<1>9. SilentIsMissed BY <1>2, <1>4 DEF SilentIsMissed, Silent
<1>10. Counts
  <2>1. Thinkers(eng) = {} BY <1>2, <1>5 DEF Thinkers
  <2> QED BY <1>2, <2>1, FS_EmptySet DEF Counts
<1>11. WghtsGrow /\ LinesAreThere BY <1>2 DEF WghtsGrow, LinesAreThere
<1>12. RecordNamesItsFirstWght
  BY <1>2 DEF RecordNamesItsFirstWght, Play!RecordNamesItsFirstWght
<1> QED BY <1>6, <1>8, <1>9, <1>10, <1>11, <1>12 DEF PlayInv

\* Every step keeps it.
LEMMA PlayKeeps == PlayInv /\ [Play!Next]_(Play!vars) => PlayInv'
<1> SUFFICES ASSUME PlayInv, [Play!Next]_(Play!vars) PROVE PlayInv'
  OBVIOUS
<1>0. /\ call \in Calls /\ client \in [conn : BOOLEAN, wght : Nat]
      /\ call.wght <= client.wght /\ call.wght \in Nat /\ client.wght \in Nat
      /\ call.pc = "lines" => \A e \in call.has : proc[e].out # <<>>
  BY DEF PlayInv, PlayTypes, WghtsGrow, LinesAreThere, Calls
<1>1. CASE Play!Ask
  <2>1. /\ call' = [call EXCEPT !.pc = "wait", !.conn = client.conn, !.wght = client.wght]
        /\ UNCHANGED <<eng, proc, num_thinking, pm_wid, pm_net, client, record, missed>>
    BY <1>1 DEF Play!Ask
  <2>2. call' \in Calls /\ call'.pc = "wait" /\ call'.wght = client.wght
    <3> DEFINE a == [call EXCEPT !.pc = "wait"]
               b == [a EXCEPT !.conn = client.conn]
    <3>1. a \in Calls /\ a.pc = "wait" BY <1>0 DEF Calls
    <3> HIDE DEF a
    <3>2. b \in Calls /\ b.pc = "wait" BY <1>0, <3>1 DEF Calls
    <3>3. call' = [b EXCEPT !.wght = client.wght] BY <2>1 DEF a
    <3> HIDE DEF b
    <3> QED BY <1>0, <3>2, <3>3 DEF Calls
  <2> QED BY <1>0, <2>1, <2>2, CallsKeep
<1>2. CASE Play!Wait
  <2> DEFINE h == {e \in Play!Eids : proc[e].out # <<>>}
  <2>1. /\ call' = [call EXCEPT !.pc = "lines", !.has = h]
        /\ UNCHANGED <<eng, proc, num_thinking, pm_wid, pm_net, client, record, missed>>
    BY <1>2 DEF Play!Wait
  <2>2. h \in SUBSET Play!Eids /\ \A e \in h : proc[e].out # <<>> OBVIOUS
  <2> HIDE DEF h
  <2>3. call' \in Calls /\ call'.has = h /\ call'.wght = call.wght
    BY <1>0, <2>1, <2>2 DEF Calls
  <2> QED BY <1>0, <2>1, <2>2, <2>3, CallsKeep
<1>3. CASE Play!Change BY <1>3, ChangeKeeps
<1>4. CASE Play!Done
  <2>1. /\ call' = [call EXCEPT !.pc = "ask"]
        /\ UNCHANGED <<eng, proc, num_thinking, pm_wid, pm_net, client, record, missed>>
    BY <1>4 DEF Play!Done
  <2>2. call' \in Calls /\ call'.pc = "ask" /\ call'.wght = call.wght
    BY <1>0, <2>1 DEF Calls
  <2> QED BY <1>0, <2>1, <2>2, CallsKeep
<1>5. CASE \E ends \in BOOLEAN : Play!Line(ends) BY <1>5, LineKeeps
<1>6. CASE Play!HasConn
  <2>1. /\ client' = [client EXCEPT !.conn = ~@]
        /\ UNCHANGED <<eng, proc, num_thinking, pm_wid, pm_net, call, record, missed>>
    BY <1>6 DEF Play!HasConn
  <2>2. client' \in [conn : BOOLEAN, wght : Nat] /\ client'.wght = client.wght
    BY <1>0, <2>1
  <2> QED BY <1>0, <2>1, <2>2, CallsKeep
<1>7. CASE Play!NewWght
  <2>1. /\ client' = [client EXCEPT !.wght = @ + 1]
        /\ UNCHANGED <<eng, proc, num_thinking, pm_wid, pm_net, call, record, missed>>
    BY <1>7 DEF Play!NewWght
  <2>2. client' \in [conn : BOOLEAN, wght : Nat] /\ client'.wght = client.wght + 1
    BY <1>0, <2>1
  <2> QED BY <1>0, <2>1, <2>2, CallsKeep
<1>8. CASE \E e \in Play!Eids : Play!Obey(e) BY <1>8, ObeyKeeps
<1>9. CASE \E e \in Play!Eids : Play!BestMove(e) BY <1>9, BestMoveKeeps
<1>10. CASE UNCHANGED Play!vars
  <2>1. UNCHANGED <<eng, proc, num_thinking, pm_wid, pm_net, client, call, record, missed>>
    BY <1>10 DEF Play!vars
  <2> QED BY <1>0, <2>1, CallsKeep
<1> QED BY <1>1, <1>2, <1>3, <1>4, <1>5, <1>6, <1>7, <1>8, <1>9, <1>10
        DEF Play!Next, Play!Manager

----------------------------------------------------------------------------
(* What the games promise.                                                       *)

\* In every state of the games, what the manager knows of an engine, what is in the
\* engine's two pipes and what the engine does fit together.
THEOREM PlayInvariance == Play!Spec => []PlayInv
<1>1. Play!Init => PlayInv BY PlayStarts
<1>2. PlayInv /\ [Play!Next]_(Play!vars) => PlayInv' BY PlayKeeps
<1> QED BY <1>1, <1>2, PTL DEF Play!Spec

\* A new weight waits for exactly the moves that were asked for and not yet read, and
\* a search never runs with another weight than its engine was told of (play.cpp,
\* manage_play: _num_thinking), however many engines there are.
THEOREM MovesAreCounted == Play!Spec => []ThinkingCounted
<1>1. PlayInv => ThinkingCounted
  <2> SUFFICES ASSUME PlayInv PROVE ThinkingCounted
    OBVIOUS
  <2>1. ASSUME NEW e \in Play!Eids
        PROVE  /\ Play!Asked(e) <=> eng[e].thinking = TRUE
               /\ proc[e].task = "search" => proc[e].told = pm_net
    <3>1. /\ Fits(eng[e], proc[e].in, proc[e].out, proc[e].task, proc[e].told,
                  proc[e].first, pm_wid)
          /\ proc[e] \in Procs /\ pm_net = pm_wid
      BY DEF PlayInv, PlayTypes, EnginesFit
    <3>2. proc[e].in \in Seq(Commands) /\ proc[e].out \in Seq(Lines) BY <3>1 DEF Procs
    <3>3. Sent(proc[e].in, "go") <=>
            Play!Command("go") \in {proc[e].in[i] : i \in DOMAIN proc[e].in}
      <4>1. \A i \in 1 .. Len(proc[e].in) :
              proc[e].in[i].cmd = "go" <=> proc[e].in[i] = Play!Command("go")
        <5> SUFFICES ASSUME NEW c \in Commands
                     PROVE  c.cmd = "go" <=> c = Play!Command("go")
          BY <3>2
        <5> QED BY DEF Commands, Play!Command
      <4>2. DOMAIN proc[e].in = 1 .. Len(proc[e].in) BY <3>2
      <4> QED BY <4>1, <4>2 DEF Sent
    <3>4. Said(proc[e].out, "bestmove") <=>
            "bestmove" \in {proc[e].out[i] : i \in DOMAIN proc[e].out}
      <4>1. DOMAIN proc[e].out = 1 .. Len(proc[e].out) BY <3>2
      <4> QED BY <4>1 DEF Said
    <3> QED BY <3>1, <3>3, <3>4 DEF Play!Asked, Fits, OneMove, ToldLast
  <2>2. {e \in Play!Eids : Play!Asked(e)} = Thinkers(eng) BY <2>1 DEF Thinkers
  <2>3. Thinkers(eng) \in SUBSET Play!Eids BY DEF Thinkers
  <2>4. num_thinking = Play!Cardinality(Thinkers(eng))
    BY <2>3, EnginesAreFinite DEF PlayInv, Counts
  <2> QED BY <2>1, <2>2, <2>4 DEF ThinkingCounted, Play!ThinkingCounted
<1> QED BY <1>1, PlayInvariance, PTL

\* The weight in a record is the one the first move was searched with, across new
\* weights during the game (play.cpp, start_newgame: _record_wght).
THEOREM RecordsNameTheirWght == Play!Spec => []RecordNamesItsFirstWght
<1>1. PlayInv => RecordNamesItsFirstWght BY DEF PlayInv
<1> QED BY <1>1, PlayInvariance, PTL

\* An engine with nothing to read, to search or to be read, while there is no newer
\* weight, was left without a connection when it was last looked at (play.cpp,
\* manage_play: only a line or a new weight starts an engine).
THEOREM NoneStranded == Play!Spec => []StrandedOnlyWithoutConn
<1>1. PlayInv => StrandedOnlyWithoutConn
  <2> SUFFICES ASSUME PlayInv, NEW e \in Play!Eids, Play!Quiet(e), pm_wid = client.wght
               PROVE  e \in missed
    BY DEF StrandedOnlyWithoutConn, Play!StrandedOnlyWithoutConn
  <2>1. proc[e].in = <<>> /\ proc[e].out = <<>> /\ proc[e].task = "read" BY DEF Play!Quiet
  <2>2. \A d : ~Sent(proc[e].in, d) BY <2>1 DEF Sent
  <2>3. Silent(proc[e].in, proc[e].out, proc[e].task) BY <2>1, <2>2 DEF Silent
  <2>4. ~(pm_wid < client.wght) BY DEF PlayInv, PlayTypes
  <2> QED BY <2>3, <2>4 DEF PlayInv, SilentIsMissed
<1> QED BY <1>1, PlayInvariance, PTL

----------------------------------------------------------------------------
(* A game and its record, in the instance Shogi of MCAutousi, for any finite or  *)
(* infinite set of positions, checks and declarations. Examine and Played are    *)
(* recursive functions; that there are such functions and that they go one line  *)
(* further with one line more comes first. The invariant: the node is that of a  *)
(* line of legal moves, and while the game goes on, what examine_record() is at  *)
(* after the moves so far is that very node. So the last line finds it there.    *)

\* g is what examine_record() is at after each of the lines ls.
ReadsBy(g, ls, nr, q) ==
  g = [i \in 0 .. Len(ls) |-> IF i = 0 THEN Shogi!Unread(q)
                              ELSE Shogi!ReadLine(g[i - 1], ls[i], nr)]

\* What it is at after them all.
GameReads(ls, nr, q) == Shogi!Examine([no_resign |-> nr, lines |-> ls], q)

\* There is such a g.
LEMMA ReadingDefined ==
  ASSUME NEW ls \in Seq(GameLines), NEW nr, NEW q PROVE \E g : ReadsBy(g, ls, nr, q)
<1> DEFINE From(g, n) == g = [i \in 0 .. n |-> IF i = 0 THEN Shogi!Unread(q)
                                               ELSE Shogi!ReadLine(g[i - 1], ls[i], nr)]
           Good == {n \in Nat : \E g : From(g, n)}
<1>1. 0 \in Good
  <2> DEFINE g == [i \in 0 .. 0 |-> Shogi!Unread(q)]
  <2>1. From(g, 0) OBVIOUS
  <2> HIDE DEF From, g
  <2> QED BY <2>1
<1>2. ASSUME NEW n \in Nat, n \in Good PROVE n + 1 \in Good
  <2>1. PICK g : From(g, n) BY <1>2
  <2> DEFINE h == [i \in 0 .. n + 1 |->
                     IF i = n + 1 THEN Shogi!ReadLine(g[n], ls[n + 1], nr) ELSE g[i]]
             w == [i \in 0 .. n + 1 |-> IF i = 0 THEN Shogi!Unread(q)
                                        ELSE Shogi!ReadLine(h[i - 1], ls[i], nr)]
  <2>2. \A i \in 0 .. n : g[i] = IF i = 0 THEN Shogi!Unread(q)
                                 ELSE Shogi!ReadLine(g[i - 1], ls[i], nr)
    BY <2>1
  <2>3. ASSUME NEW i \in 0 .. n + 1 PROVE h[i] = w[i]
    <3>1. CASE i = n + 1
      <4>1. i - 1 = n /\ n \in 0 .. n + 1 /\ n # n + 1 /\ i # 0 BY <3>1
      <4> QED BY <4>1, <3>1
    <3>2. CASE i \in 0 .. n
      <4>1. i # n + 1 /\ (i # 0 => i - 1 \in 0 .. n + 1 /\ i - 1 # n + 1) BY <3>2
      <4>2. h[i] = g[i] /\ (i # 0 => h[i - 1] = g[i - 1]) BY <4>1
      <4> QED BY <4>2, <2>2, <3>2
    <3> QED BY <3>1, <3>2
  <2>4. h = [i \in 0 .. n + 1 |-> h[i]] /\ w = [i \in 0 .. n + 1 |-> w[i]] OBVIOUS
  <2>5. h = w
    <3> HIDE DEF h, w
    <3> QED BY <2>3, <2>4
  <2>6. From(h, n + 1)
    <3> HIDE DEF h
    <3> QED BY <2>5
  <2> HIDE DEF From, h
  <2> QED BY <2>6
<1>3. Len(ls) \in Good
  <2>1. Nat \subseteq Good
    <3> HIDE DEF Good
    <3> QED BY <1>1, <1>2, AllNumbers
  <2> HIDE DEF Good
  <2> QED BY <2>1
<1> QED BY <1>3 DEF ReadsBy

\* It is what examine_record() computes.
LEMMA ReadingIs ==
  ASSUME NEW ls \in Seq(GameLines), NEW nr, NEW q, NEW g, ReadsBy(g, ls, nr, q)
  PROVE  GameReads(ls, nr, q) = g[Len(ls)]
<1> DEFINE rec == [no_resign |-> nr, lines |-> ls]
           f == CHOOSE f : ReadsBy(f, ls, nr, q)
<1>1. GameReads(ls, nr, q) = f[Len(ls)]
  <2>1. Shogi!Examine(rec, q) = (CHOOSE x : ReadsBy(x, rec.lines, rec.no_resign, q))[Len(rec.lines)]
    BY Zenon DEF Shogi!Examine, ReadsBy
  <2>2. rec.lines = ls /\ rec.no_resign = nr OBVIOUS
  <2> QED BY <2>1, <2>2, Zenon DEF GameReads
<1>2. ReadsBy(f, ls, nr, q)
  <2> HIDE DEF f
  <2> QED BY Zenon DEF f
<1> HIDE DEF f
<1> DEFINE E == {i \in 0 .. Len(ls) : f[i] = g[i]}
<1>3. /\ \A i \in 0 .. Len(ls) : f[i] = IF i = 0 THEN Shogi!Unread(q)
                                        ELSE Shogi!ReadLine(f[i - 1], ls[i], nr)
      /\ \A i \in 0 .. Len(ls) : g[i] = IF i = 0 THEN Shogi!Unread(q)
                                        ELSE Shogi!ReadLine(g[i - 1], ls[i], nr)
  BY <1>2 DEF ReadsBy
<1>4. 0 \in E
  <2>1. 0 \in 0 .. Len(ls) OBVIOUS
  <2> QED BY <1>3, <2>1
<1>5. ASSUME NEW n \in 0 .. Len(ls) - 1, n \in E PROVE n + 1 \in E
  <2>1. n + 1 \in 0 .. Len(ls) /\ n + 1 # 0 /\ (n + 1) - 1 = n OBVIOUS
  <2>2. f[n] = g[n] BY <1>5
  <2> QED BY <1>3, <2>1, <2>2
<1>6. 0 .. Len(ls) \subseteq E
  <2>1. 0 \in Int /\ Len(ls) \in Int OBVIOUS
  <2>2. \A n \in 0 .. Len(ls) - 1 : n \in E => n + 1 \in E BY <1>5
  <2> HIDE DEF E
  <2> QED BY <1>4, <2>1, <2>2, AllBetween
<1>7. Len(ls) \in 0 .. Len(ls) OBVIOUS
<1> QED BY <1>1, <1>6, <1>7

\* One line more.
LEMMA ReadAppended ==
  ASSUME NEW ls \in Seq(GameLines), NEW l \in GameLines, NEW nr, NEW q
  PROVE  GameReads(Append(ls, l), nr, q) = Shogi!ReadLine(GameReads(ls, nr, q), l, nr)
<1> DEFINE n == Len(ls)
           all == Append(ls, l)
<1>1. all \in Seq(GameLines) /\ Len(all) = n + 1 /\ all[n + 1] = l /\ n \in Nat
      /\ \A i \in 1 .. n : all[i] = ls[i]
  OBVIOUS
<1>2. PICK g : ReadsBy(g, all, nr, q) BY <1>1, ReadingDefined
<1> HIDE DEF n, all
<1>3. \A i \in 0 .. n + 1 : g[i] = IF i = 0 THEN Shogi!Unread(q)
                                   ELSE Shogi!ReadLine(g[i - 1], all[i], nr)
  BY <1>1, <1>2 DEF ReadsBy
<1> DEFINE h == [i \in 0 .. n |-> g[i]]
           w == [i \in 0 .. n |-> IF i = 0 THEN Shogi!Unread(q)
                                  ELSE Shogi!ReadLine(h[i - 1], ls[i], nr)]
<1>4. ASSUME NEW i \in 0 .. n PROVE h[i] = w[i]
  <2>1. i \in 0 .. n + 1 /\ (i # 0 => i - 1 \in 0 .. n /\ i \in 1 .. n) BY <1>1
  <2>2. i # 0 => h[i - 1] = g[i - 1] /\ all[i] = ls[i] BY <2>1, <1>1
  <2> QED BY <1>3, <2>1, <2>2
<1>5. h = w
  <2>1. h = [i \in 0 .. n |-> h[i]] /\ w = [i \in 0 .. n |-> w[i]] OBVIOUS
  <2> HIDE DEF h, w
  <2> QED BY <1>4, <2>1
<1>6. ReadsBy(h, ls, nr, q)
  <2> HIDE DEF h
  <2> QED BY <1>5 DEF ReadsBy, n
<1>7. h[n] = g[n] BY <1>1
<1> HIDE DEF h
<1>8. GameReads(ls, nr, q) = g[n] BY <1>6, <1>7, ReadingIs DEF n
<1>9. GameReads(all, nr, q) = g[n + 1] BY <1>1, <1>2, ReadingIs
<1>10. g[n + 1] = Shogi!ReadLine(g[n], all[n + 1], nr)
  <2>1. n + 1 \in 0 .. n + 1 /\ n + 1 # 0 /\ (n + 1) - 1 = n BY <1>1
  <2> QED BY <1>3, <2>1
<1> QED BY <1>1, <1>8, <1>9, <1>10 DEF all

----------------------------------------------------------------------------
\* The positions of a game: a line of legal moves.
LineIs(path) ==
  /\ path \in Seq(DOMAIN Succ) /\ Len(path) >= 1
  /\ \A i \in 1 .. Len(path) - 1 : path[i + 1] \in Succ[path[i]]

\* For every position, the length of its mover's run of checks.
RunIs(path, run) ==
  /\ run \in Seq(Nat) /\ Len(run) = Len(path) + 1 /\ run[1] = 0
  /\ \A i \in 1 .. Len(path) :
       run[i + 1] = IF path[i] \in InCheck THEN IF i = 1 THEN 1 ELSE run[i - 1] + 1 ELSE 0

\* The node of a game: what ended it is the rule of repetition, or something else
\* where that says nothing.
NodeOk(nd) ==
  /\ nd = [path |-> nd.path, run |-> nd.run, type |-> nd.type]
  /\ LineIs(nd.path) /\ RunIs(nd.path, nd.run)
  /\ \/ nd.type = Shogi!Verdict(nd.path, nd.run)
     \/ nd.type \in {"maxlen_term", "resigned", "windclrd"}
          /\ Shogi!Verdict(nd.path, nd.run) = "interior"

\* The instances count as the module does.
LEMMA SameCardinality ==
  \A X : Shogi!Cardinality(X) = Cardinality(X) /\ Shogi!Engine!Cardinality(X) = Cardinality(X)
BY DEF Shogi!Cardinality, Shogi!Engine!Cardinality, Cardinality

\* Earlier occurrences can be counted.
LEMMA EarlierIsFinite ==
  ASSUME NEW path \in Seq(DOMAIN Succ)
  PROVE  /\ Shogi!Earlier(path) \subseteq 1 .. Len(path) /\ IsFiniteSet(Shogi!Earlier(path))
         /\ Cardinality(Shogi!Earlier(path)) \in Nat
         /\ Shogi!Cardinality(Shogi!Earlier(path)) = Cardinality(Shogi!Earlier(path))
<1>1. Shogi!Earlier(path) \subseteq 1 .. Len(path) BY DEF Shogi!Earlier
<1>2. IsFiniteSet(1 .. Len(path))
  <2>1. 1 \in Int /\ Len(path) \in Int OBVIOUS
  <2> QED BY <2>1, FS_Interval
<1>3. IsFiniteSet(Shogi!Earlier(path)) BY <1>1, <1>2, FS_Subset
<1>4. Cardinality(Shogi!Earlier(path)) \in Nat BY <1>3, FS_CardinalityType
<1> QED BY <1>1, <1>3, <1>4, SameCardinality

\* What the rule of repetition says, by how often the position was there.
LEMMA VerdictIs ==
  ASSUME NEW path \in Seq(DOMAIN Succ), NEW run
  PROVE  /\ Shogi!Verdict(path, run) \in {"interior", "illegal_bwin", "illegal_wwin", "repeated"}
         /\ Cardinality(Shogi!Earlier(path)) < 3 => Shogi!Verdict(path, run) = "interior"
         /\ \A n \in Int, u, v \in Nat :
              /\ Cardinality(Shogi!Earlier(path)) >= 3
              /\ n = Shogi!NMove(path) /\ u = run[Len(path) + 1] /\ v = run[Len(path)]
              => Shogi!Verdict(path, run) =
                   LET next == IF Len(path) % 2 = 1 THEN "black" ELSE "white"
                   IN IF n <= u THEN Shogi!IllegalWin(next)
                      ELSE IF n <= v THEN Shogi!IllegalWin(Shogi!Opp(next))
                      ELSE "repeated"
<1> DEFINE c == Shogi!Cardinality(Shogi!Earlier(path))
           n == Shogi!NMove(path)
           l == Len(path)
           next == IF l % 2 = 1 THEN "black" ELSE "white"
           win == Shogi!IllegalWin(next)
           lost == Shogi!IllegalWin(Shogi!Opp(next))
           a == n <= run[l + 1]
           b == n > run[l + 1]
           d == n <= run[l]
<1>1. win \in {"illegal_bwin", "illegal_wwin"} /\ lost \in {"illegal_bwin", "illegal_wwin"}
  BY DEF Shogi!IllegalWin
<1>2. c = Cardinality(Shogi!Earlier(path)) /\ c \in Nat BY EarlierIsFinite
<1>3. Shogi!Verdict(path, run) = CASE c < 3 -> "interior"
                                   [] c >= 3 /\ a -> win
                                   [] c >= 3 /\ b /\ d -> lost
                                   [] OTHER -> "repeated"
  BY Zenon DEF Shogi!Verdict
<1> HIDE DEF win, lost, a, b, d, c, next
<1>4. c < 3 => Shogi!Verdict(path, run) = "interior" BY <1>2, <1>3
<1>5. ASSUME c >= 3 PROVE Shogi!Verdict(path, run) \in {win, lost, "repeated"}
  <2>1. ~(c < 3) BY <1>2, <1>5
  <2>2. CASE a BY <1>3, <1>5, <2>1, <2>2
  <2>3. CASE ~a /\ b /\ d BY <1>3, <1>5, <2>1, <2>3
  <2>4. CASE ~a /\ ~(b /\ d) BY <1>3, <1>5, <2>1, <2>4
  <2> QED BY <2>2, <2>3, <2>4
<1>6. ASSUME NEW m \in Int, NEW u \in Nat, NEW v \in Nat, c >= 3,
             m = n, u = run[l + 1], v = run[l]
      PROVE  Shogi!Verdict(path, run) = IF m <= u THEN win ELSE IF m <= v THEN lost ELSE "repeated"
  <2>1. ~(c < 3) BY <1>2, <1>6
  <2>2. (a <=> m <= u) /\ (b <=> m > u) /\ (d <=> m <= v) BY <1>6 DEF a, b, d
  <2>3. m <= u <=> ~(m > u) OBVIOUS
  <2> QED BY <1>3, <1>6, <2>1, <2>2, <2>3
<1>7. c < 3 \/ c >= 3 BY <1>2
<1>8. Shogi!Verdict(path, run) \in {"interior", "illegal_bwin", "illegal_wwin", "repeated"}
  BY <1>1, <1>4, <1>5, <1>7
<1> QED BY <1>2, <1>4, <1>6, <1>8, Zenon DEF win, lost, next

\* Node::clear() makes a node.
LEMMA ClearedOk ==
  ASSUME NEW q \in DOMAIN Succ
  PROVE  /\ NodeOk(Shogi!Cleared(q)) /\ Shogi!Cleared(q).type = "interior"
         /\ Shogi!Cleared(q).path = <<q>>
<1> DEFINE nd == Shogi!Cleared(q)
<1>1. nd = [path |-> <<q>>, run |-> <<0, IF q \in InCheck THEN 1 ELSE 0>>, type |-> "interior"]
  BY DEF Shogi!Cleared
<1>2. LineIs(<<q>>) BY DEF LineIs
<1>3. RunIs(<<q>>, <<0, IF q \in InCheck THEN 1 ELSE 0>>) BY DEF RunIs
<1>4. Shogi!Earlier(<<q>>) = {} BY DEF Shogi!Earlier
<1>5. Cardinality(Shogi!Earlier(<<q>>)) < 3 BY <1>4, FS_EmptySet
<1>6. Shogi!Verdict(<<q>>, <<0, IF q \in InCheck THEN 1 ELSE 0>>) = "interior"
  <2>1. <<q>> \in Seq(DOMAIN Succ) OBVIOUS
  <2> QED BY <1>5, <2>1, VerdictIs
<1> QED BY <1>1, <1>2, <1>3, <1>6 DEF NodeOk

\* Node::take_action() of a legal move makes one that goes on, or one that is over by
\* the rules.
LEMMA TakeMoveOk ==
  ASSUME NEW nd, NodeOk(nd), nd.type = "interior", NEW q \in Succ[Shogi!Last(nd.path)],
         nd.path[Len(nd.path)] \in DOMAIN Succ
  PROVE  /\ NodeOk(Shogi!TakeMove(nd, q)) /\ Shogi!TakeMove(nd, q).path[1] = nd.path[1]
         /\ Shogi!TakeMove(nd, q).type
              \in {"interior", "illegal_bwin", "illegal_wwin", "repeated", "maxlen_term"}
         /\ Shogi!TakeMove(nd, q).type # "maxlen_term" =>
              Shogi!TakeMove(nd, q).path = Append(nd.path, q)
<1> DEFINE t == Shogi!TakeMove(nd, q)
           l == Len(nd.path)
           p == Append(nd.path, q)
           r == Append(nd.run, Shogi!LenInCheck(nd.run, q))
<1>0. /\ nd = [path |-> nd.path, run |-> nd.run, type |-> nd.type]
      /\ LineIs(nd.path) /\ RunIs(nd.path, nd.run)
      /\ Shogi!Verdict(nd.path, nd.run) = "interior"
  BY DEF NodeOk
<1>1. CASE Len(nd.path) = N
  <2>1. t = [nd EXCEPT !.type = "maxlen_term"] BY <1>1 DEF Shogi!TakeMove
  <2>2. t = [path |-> nd.path, run |-> nd.run, type |-> "maxlen_term"] BY <1>0, <2>1
  <2> QED BY <1>0, <2>2 DEF NodeOk
<1>2. CASE Len(nd.path) # N
  <2>1. t = [path |-> p, run |-> r, type |-> Shogi!Verdict(p, r)] BY <1>2 DEF Shogi!TakeMove
  <2>2. /\ nd.path \in Seq(DOMAIN Succ) /\ l \in Nat /\ l >= 1
        /\ \A i \in 1 .. l - 1 : nd.path[i + 1] \in Succ[nd.path[i]]
    BY <1>0 DEF LineIs
  <2>3. q \in DOMAIN Succ /\ q \in Succ[nd.path[l]]
    <3>1. q \in Succ[nd.path[l]] BY DEF Shogi!Last
    <3>2. Succ[nd.path[l]] \subseteq DOMAIN Succ BY GameAssumption
    <3> QED BY <3>1, <3>2
  <2>4. /\ p \in Seq(DOMAIN Succ) /\ Len(p) = l + 1 /\ p[l + 1] = q
        /\ \A i \in 1 .. l : p[i] = nd.path[i]
    BY <2>2, <2>3
  <2>5. LineIs(p)
    <3> HIDE DEF p
    <3>1. ASSUME NEW i \in 1 .. Len(p) - 1 PROVE p[i + 1] \in Succ[p[i]]
      <4>1. CASE i = l BY <4>1, <2>2, <2>3, <2>4
      <4>2. CASE i # l
        <5>1. i \in 1 .. l - 1 /\ i \in 1 .. l /\ i + 1 \in 1 .. l BY <2>2, <2>4, <4>2
        <5> QED BY <2>2, <2>4, <5>1
      <4> QED BY <4>1, <4>2
    <3> QED BY <3>1, <2>2, <2>4 DEF LineIs
  <2>6. RunIs(p, r)
    <3> DEFINE v == Shogi!LenInCheck(nd.run, q)
    <3>1. nd.run \in Seq(Nat) /\ Len(nd.run) = l + 1 BY <1>0 DEF RunIs
    <3>2. v = IF q \in InCheck THEN nd.run[l] + 1 ELSE 0
      <4>1. Len(nd.run) - 1 = l BY <3>1, <2>2
      <4> QED BY <4>1 DEF Shogi!LenInCheck
    <3>3. v \in Nat
      <4>1. nd.run[l] \in Nat BY <3>1, <2>2
      <4> QED BY <3>2, <4>1
    <3> HIDE DEF v
    <3>4. /\ r \in Seq(Nat) /\ Len(r) = l + 2 /\ r[l + 2] = v
          /\ \A i \in 1 .. l + 1 : r[i] = nd.run[i]
      <4>1. r = Append(nd.run, v) BY DEF v
      <4> HIDE DEF r
      <4> QED BY <4>1, <3>1, <3>3, <2>2
    <3> HIDE DEF r, p
    <3>5. ASSUME NEW i \in 1 .. Len(p)
          PROVE  r[i + 1] = IF p[i] \in InCheck THEN IF i = 1 THEN 1 ELSE r[i - 1] + 1 ELSE 0
      <4>1. CASE i = l + 1
        <5>1. i + 1 = l + 2 /\ i - 1 = l /\ i # 1 /\ l \in 1 .. l + 1 BY <4>1, <2>2
        <5> QED BY <5>1, <4>1, <2>4, <3>2, <3>4
      <4>2. CASE i # l + 1
        <5>1. /\ i \in 1 .. l /\ i + 1 \in 1 .. l + 1 /\ (i # 1 => i - 1 \in 1 .. l + 1)
          BY <4>2, <2>2, <2>4
        <5>2. nd.run[i + 1] = IF nd.path[i] \in InCheck
                                THEN IF i = 1 THEN 1 ELSE nd.run[i - 1] + 1 ELSE 0
          BY <1>0, <5>1 DEF RunIs
        <5> QED BY <5>1, <5>2, <2>4, <3>4
      <4> QED BY <4>1, <4>2
    <3>6. r[1] = 0
      <4>1. nd.run[1] = 0 BY <1>0 DEF RunIs
      <4>2. 1 \in 1 .. l + 1 BY <2>2
      <4> QED BY <4>1, <4>2, <3>4
    <3> QED BY <3>4, <3>5, <3>6, <2>2, <2>4 DEF RunIs
  <2>7. NodeOk(t)
    <3> HIDE DEF p, r, t
    <3> QED BY <2>1, <2>5, <2>6 DEF NodeOk
  <2>8. t.path = p /\ p[1] = nd.path[1] BY <2>1, <2>2, <2>4
  <2>9. t.type \in {"interior", "illegal_bwin", "illegal_wwin", "repeated"}
    <3> HIDE DEF p, r, t
    <3> QED BY <2>1, <2>4, VerdictIs
  <2> QED
    <3> HIDE DEF t, p, r
    <3>1. t = Shogi!TakeMove(nd, q) /\ p = Append(nd.path, q) BY DEF t, p
    <3> QED BY <3>1, <2>7, <2>8, <2>9
<1> QED BY <1>1, <1>2

\* It does so of a resignation and of a declaration.
LEMMA EndedOk ==
  ASSUME NEW nd, NodeOk(nd), nd.type = "interior", NEW t \in {"resigned", "windclrd"}
  PROVE  /\ NodeOk(Shogi!Ended(nd, t)) /\ Shogi!Ended(nd, t).type = t
         /\ Shogi!Ended(nd, t).path = nd.path
<1>1. /\ nd = [path |-> nd.path, run |-> nd.run, type |-> nd.type]
      /\ LineIs(nd.path) /\ RunIs(nd.path, nd.run)
      /\ Shogi!Verdict(nd.path, nd.run) = "interior"
  BY DEF NodeOk
<1>2. Shogi!Ended(nd, t) = [path |-> nd.path, run |-> nd.run, type |-> t]
  BY <1>1 DEF Shogi!Ended
<1> QED BY <1>1, <1>2 DEF NodeOk

----------------------------------------------------------------------------
\* The colours that had a low value in the moves ms.
LowsOf(ms, c) == \E i \in DOMAIN ms : ms[i].low /\ (c = "black") = (i % 2 = 1)

\* What examine_record() is at, and so when it has read the moves of a game that goes on.
State(ok, nd, has, res, low) ==
  [ok |-> ok, node |-> nd, has_result |-> has, result |-> res, low |-> low]
Here(nd, ms) ==
  State(TRUE, nd, FALSE, "none", [c \in {"black", "white"} |-> LowsOf(ms, c)])

\* A game that goes on, and its record so far: read again it is the same game.
GameGoesOn(nd, ms) ==
  /\ NodeOk(nd) /\ nd.type = "interior"
  /\ ms \in Seq(GameMoves) /\ Len(nd.path) = Len(ms) + 1
  /\ \A nr \in BOOLEAN : GameReads(ms, nr, nd.path[1]) = Here(nd, ms)

\* Who had a low value after one move more.
LEMMA LowsAppended ==
  ASSUME NEW ms \in Seq(GameMoves), NEW q \in DOMAIN Succ, NEW low \in BOOLEAN, NEW c
  PROVE  LowsOf(Append(ms, Shogi!Move(q, low)), c) <=>
           LowsOf(ms, c) \/ (low = TRUE /\ (c = "black") = ((Len(ms) + 1) % 2 = 1))
<1> DEFINE l == Shogi!Move(q, low)
           all == Append(ms, l)
           n == Len(ms)
<1>1. l \in GameMoves /\ l.low = low BY DEF Shogi!Move, GameMoves
<1>2. DOMAIN ms = 1 .. n /\ n \in Nat OBVIOUS
<1>3. DOMAIN all = 1 .. n + 1 /\ all[n + 1] = l /\ \A i \in 1 .. n : all[i] = ms[i]
  <2> HIDE DEF l
  <2> QED BY <1>1
<1> HIDE DEF all, l
<1>4. ASSUME LowsOf(ms, c) PROVE LowsOf(all, c)
  <2>1. PICK i \in 1 .. n : ms[i].low /\ (c = "black") = (i % 2 = 1) BY <1>2, <1>4 DEF LowsOf
  <2>2. i \in 1 .. n + 1 /\ all[i] = ms[i] BY <1>2, <1>3
  <2> QED BY <1>3, <2>1, <2>2 DEF LowsOf
<1>5. ASSUME low = TRUE /\ (c = "black") = ((n + 1) % 2 = 1) PROVE LowsOf(all, c)
  <2>1. n + 1 \in 1 .. n + 1 BY <1>2
  <2> QED BY <1>1, <1>3, <1>5, <2>1 DEF LowsOf
<1>6. ASSUME LowsOf(all, c), ~LowsOf(ms, c) PROVE low = TRUE /\ (c = "black") = ((n + 1) % 2 = 1)
  <2>1. PICK i \in 1 .. n + 1 : all[i].low /\ (c = "black") = (i % 2 = 1)
    BY <1>3, <1>6 DEF LowsOf
  <2>2. i \notin 1 .. n BY <1>2, <1>3, <1>6, <2>1 DEF LowsOf
  <2>3. i = n + 1 BY <1>2, <2>2
  <2> QED BY <1>1, <1>3, <2>1, <2>3
<1> QED BY <1>4, <1>5, <1>6 DEF all, l

\* A state of examine_record() with two fields changed.
NodeAndLow(x, m, w) == [x EXCEPT !.node = m, !.low = w]
NodeAndResult(x, m, w) == [x EXCEPT !.node = m, !.result = w]
HasResult(x, m, w) == [x EXCEPT !.has_result = m, !.result = w]
\* The fields they have then.
LEMMA StateFields ==
  ASSUME NEW a, NEW b, NEW c, NEW d, NEW e, NEW m, NEW w
  PROVE  /\ NodeAndLow(State(a, b, c, d, e), m, w) = State(a, m, c, d, w)
         /\ NodeAndResult(State(a, b, c, d, e), m, w) = State(a, m, c, w, e)
         /\ HasResult(State(a, b, c, d, e), m, w) = State(a, b, m, w, e)
<1> DEFINE x == State(a, b, c, d, e)
           y == [x EXCEPT !.node = m]
           z == [x EXCEPT !.has_result = m]
<1>1. y = State(a, m, c, d, e) BY DEF State
<1>2. z = State(a, b, m, d, e) BY DEF State
<1>3. [x EXCEPT !.node = m, !.low = w] = [y EXCEPT !.low = w] OBVIOUS
<1>4. [x EXCEPT !.node = m, !.result = w] = [y EXCEPT !.result = w] OBVIOUS
<1>5. [x EXCEPT !.has_result = m, !.result = w] = [z EXCEPT !.result = w] OBVIOUS
<1> HIDE DEF y, z
<1>6. [y EXCEPT !.low = w] = State(a, m, c, d, w) BY <1>1 DEF State
<1>7. [y EXCEPT !.result = w] = State(a, m, c, w, e) BY <1>1 DEF State
<1>8. [z EXCEPT !.result = w] = State(a, b, m, w, e) BY <1>2 DEF State
<1> QED BY <1>3, <1>4, <1>5, <1>6, <1>7, <1>8, Zenon DEF NodeAndLow, NodeAndResult, HasResult

\* One move more.
LEMMA MoveIsRead ==
  ASSUME NEW nd, NEW ms, GameGoesOn(nd, ms), NEW q \in Succ[Shogi!Last(nd.path)],
         NEW low \in BOOLEAN, NEW nr \in BOOLEAN
  PROVE  /\ Append(ms, Shogi!Move(q, low)) \in Seq(GameMoves)
         /\ GameReads(Append(ms, Shogi!Move(q, low)), nr, nd.path[1]) =
              Here(Shogi!TakeMove(nd, q), Append(ms, Shogi!Move(q, low)))
<1> DEFINE l == Shogi!Move(q, low)
           all == Append(ms, l)
           x == Here(nd, ms)
           t == Shogi!Turn(nd)
<1>1. /\ ms \in Seq(GameMoves) /\ Len(nd.path) = Len(ms) + 1 /\ nd.type = "interior"
      /\ GameReads(ms, nr, nd.path[1]) = x
      /\ nd.path \in Seq(DOMAIN Succ) /\ Len(nd.path) >= 1
  BY DEF GameGoesOn, NodeOk, LineIs
<1>2. q \in DOMAIN Succ
  <2>1. nd.path[Len(nd.path)] \in DOMAIN Succ BY <1>1
  <2>2. Succ[nd.path[Len(nd.path)]] \subseteq DOMAIN Succ BY <2>1, GameAssumption
  <2> QED BY <2>2 DEF Shogi!Last
<1>3. l = [k |-> "move", to |-> q, low |-> low] BY DEF Shogi!Move
<1>4. l \in GameMoves BY <1>2, <1>3 DEF GameMoves
<1>5. ms \in Seq(GameLines) /\ l \in GameLines BY <1>1, <1>4 DEF GameLines
<1>6. GameReads(all, nr, nd.path[1]) = Shogi!ReadLine(x, l, nr)
  <2>1. GameReads(all, nr, nd.path[1]) = Shogi!ReadLine(GameReads(ms, nr, nd.path[1]), l, nr)
    BY <1>5, ReadAppended
  <2> QED BY <1>1, <2>1
<1>7. x.ok = TRUE /\ x.node = nd BY DEF Here, State
<1>8. Shogi!ReadLine(x, l, nr) = Shogi!ReadMove(x, l)
  <2>1. ~Shogi!IsTerm(x.node) BY <1>1, <1>7 DEF Shogi!IsTerm
  <2>2. l.k = "move" BY <1>3
  <2> HIDE DEF x, l
  <2> QED BY <1>7, <2>1, <2>2 DEF Shogi!ReadLine
<1>9. Shogi!ReadMove(x, l) =
        [x EXCEPT !.node = Shogi!TakeMove(nd, q), !.low[t] = x.low[t] \/ low]
  <2>1. l.to = q /\ l.low = low BY <1>3
  <2> HIDE DEF x, l
  <2> QED BY <1>7, <2>1 DEF Shogi!ReadMove
<1> DEFINE f == [c \in {"black", "white"} |-> LowsOf(ms, c)]
           g == [c \in {"black", "white"} |-> LowsOf(all, c)]
<1>10. x = State(TRUE, nd, FALSE, "none", f)
  BY DEF Here
<1>11. [f EXCEPT ![t] = f[t] \/ low] = g
  <2>1. t \in {"black", "white"} /\ (t = "black" <=> (Len(ms) + 1) % 2 = 1)
    BY <1>1 DEF Shogi!Turn
  <2>2. \A c \in {"black", "white"} : g[c] = (f[c] \/ (c = t /\ low))
    <3> SUFFICES ASSUME NEW c \in {"black", "white"} PROVE g[c] = (f[c] \/ (c = t /\ low))
      OBVIOUS
    <3>1. LowsOf(all, c) <=>
            LowsOf(ms, c) \/ (low = TRUE /\ (c = "black") = ((Len(ms) + 1) % 2 = 1))
      BY <1>1, <1>2, LowsAppended
    <3>2. (c = "black") = ((Len(ms) + 1) % 2 = 1) <=> c = t BY <2>1
    <3>3. LowsOf(all, c) <=> LowsOf(ms, c) \/ (c = t /\ low) BY <3>1, <3>2
    <3>4. LowsOf(all, c) \in BOOLEAN /\ LowsOf(ms, c) \in BOOLEAN BY DEF LowsOf
    <3> QED BY <3>3, <3>4
  <2>3. \A c \in {"black", "white"} : f[c] \in BOOLEAN BY DEF LowsOf
  <2> HIDE DEF g
  <2>4. g = [c \in {"black", "white"} |-> g[c]] BY DEF g
  <2>5. f = [c \in {"black", "white"} |-> f[c]] OBVIOUS
  <2> HIDE DEF f, t
  <2> QED BY <2>1, <2>2, <2>3, <2>4, <2>5
<1>12. [x EXCEPT !.node = Shogi!TakeMove(nd, q), !.low[t] = x.low[t] \/ low] =
         State(TRUE, Shogi!TakeMove(nd, q), FALSE, "none", [f EXCEPT ![t] = f[t] \/ low])
  <2> DEFINE m == Shogi!TakeMove(nd, q)
             w == [x.low EXCEPT ![t] = x.low[t] \/ low]
             v == [f EXCEPT ![t] = f[t] \/ low]
  <2>1. x.low = f BY <1>10 DEF State
  <2> HIDE DEF x, f, t, m
  <2>2. [x EXCEPT !.node = m, !.low[t] = x.low[t] \/ low] = [x EXCEPT !.node = m, !.low = w]
    OBVIOUS
  <2>3. w = v BY <2>1, Zenon
  <2> HIDE DEF w, v
  <2>4. [x EXCEPT !.node = m, !.low = w] = State(TRUE, m, FALSE, "none", w)
    <3>1. x.ok = TRUE /\ x.has_result = FALSE BY <1>10 DEF State
    <3>2. x = State(x.ok, nd, x.has_result, "none", f) BY <1>10, <3>1, Zenon
    <3>3. NodeAndLow(x, m, w) = State(x.ok, m, x.has_result, "none", w)
      <4>1. NodeAndLow(State(x.ok, nd, x.has_result, "none", f), m, w)
              = State(x.ok, m, x.has_result, "none", w)
        BY StateFields
      <4> QED BY <3>2, <4>1, Zenon
    <3> QED BY <3>1, <3>3, Zenon DEF NodeAndLow
  <2> QED BY <2>2, <2>3, <2>4, Zenon DEF m, w, v
<1>13. all \in Seq(GameMoves) BY <1>1, <1>4
<1> HIDE DEF f, t, l
<1> QED BY <1>6, <1>8, <1>9, <1>11, <1>12, <1>13 DEF Here, g, l

\* The same as a function of the colour.
LOf(ms) == [c \in {"black", "white"} |-> LowsOf(ms, c)]

\* The last line: a game that is over by the rules, one that is given up by a
\* search value, and one that an engine ends.
LEMMA EndIsRead ==
  ASSUME NEW nd, NEW ms \in Seq(GameMoves), NEW nr \in BOOLEAN, NEW q,
         GameReads(ms, nr, q) = Here(nd, ms)
  PROVE  /\ nd.type \in {"illegal_bwin", "illegal_wwin", "repeated", "maxlen_term"} =>
              GameReads(Append(ms, Shogi!End(Shogi!Says(nd.type), FALSE)), nr, q) =
                State(TRUE, nd, TRUE, Shogi!ByType(nd.type), LOf(ms))
         /\ nd.type = "interior" /\ nr = FALSE =>
              GameReads(Append(ms, Shogi!End("TORYO", TRUE)), nr, q) =
                State(TRUE, Shogi!Ended(nd, "resigned"), FALSE, "none", LOf(ms))
         /\ \A t \in {"resigned", "windclrd"} :
              nd.type = "interior" /\ (t = "windclrd" => Shogi!Last(nd.path) \in Declares) =>
                GameReads(Append(ms, Shogi!End(Shogi!Says(t), FALSE)), nr, q) =
                  State(TRUE, Shogi!Ended(nd, t), FALSE,
                        Shogi!WinnerOf(Shogi!Ended(nd, t)), LOf(ms))
<1> DEFINE x == Here(nd, ms)
           low == LOf(ms)
<1>1. x = State(TRUE, nd, FALSE, "none", low) BY DEF Here, LOf
<1>2. x.ok = TRUE /\ x.node = nd /\ x.has_result = FALSE /\ x.result = "none"
  BY <1>1 DEF State
<1>3. ms \in Seq(GameLines) BY DEF GameLines
<1>4. ASSUME NEW says \in GameEnds, NEW auto \in BOOLEAN
      PROVE  /\ Shogi!End(says, auto) \in GameLines
             /\ Shogi!End(says, auto).k = "end" /\ Shogi!End(says, auto).says = says
             /\ Shogi!End(says, auto).auto = auto
             /\ GameReads(Append(ms, Shogi!End(says, auto)), nr, q) =
                  Shogi!ReadLine(x, Shogi!End(says, auto), nr)
  <2>1. Shogi!End(says, auto) = [k |-> "end", says |-> says, auto |-> auto] BY DEF Shogi!End
  <2>2. Shogi!End(says, auto) \in GameLines BY <2>1 DEF GameLines
  <2>3. GameReads(Append(ms, Shogi!End(says, auto)), nr, q) =
          Shogi!ReadLine(GameReads(ms, nr, q), Shogi!End(says, auto), nr)
    BY <1>3, <2>2, ReadAppended
  <2> QED BY <2>1, <2>2, <2>3
<1> HIDE DEF x, low
<1>5. ASSUME nd.type \in {"illegal_bwin", "illegal_wwin", "repeated", "maxlen_term"}
      PROVE  GameReads(Append(ms, Shogi!End(Shogi!Says(nd.type), FALSE)), nr, q) =
               State(TRUE, nd, TRUE, Shogi!ByType(nd.type), low)
  <2> DEFINE says == Shogi!Says(nd.type)
             l == Shogi!End(says, FALSE)
             w == Shogi!ByType(nd.type)
  <2>1. says \in GameEnds BY <1>5 DEF Shogi!Says, GameEnds
  <2> HIDE DEF says
  <2>2. l.k = "end" /\ l.says = says /\ GameReads(Append(ms, l), nr, q) = Shogi!ReadLine(x, l, nr)
    BY <1>4, <2>1
  <2>3. Shogi!IsTerm(x.node) BY <1>2, <1>5 DEF Shogi!IsTerm
  <2> HIDE DEF l
  <2>4. Shogi!ReadLine(x, l, nr) = [x EXCEPT !.has_result = TRUE, !.result = Shogi!ByType(x.node.type)]
    BY <1>2, <2>2, <2>3 DEF Shogi!ReadLine, says
  <2> HIDE DEF w
  <2>5. [x EXCEPT !.has_result = TRUE, !.result = Shogi!ByType(x.node.type)] = HasResult(x, TRUE, w)
    BY <1>2, Zenon DEF HasResult, w
  <2>6. HasResult(State(x.ok, nd, x.has_result, "none", low), x.ok, w) =
          State(x.ok, nd, x.ok, w, low)
    BY StateFields
  <2>7. x = State(x.ok, nd, x.has_result, "none", low) BY <1>1, <1>2, Zenon
  <2>8. HasResult(x, x.ok, w) = State(x.ok, nd, x.ok, w, low) BY <2>6, <2>7, Zenon
  <2>9. HasResult(x, TRUE, w) = State(TRUE, nd, TRUE, w, low)
    <3> HIDE DEF HasResult
    <3> QED BY <1>2, <2>8, Zenon
  <2> QED BY <2>2, <2>4, <2>5, <2>9, Zenon DEF l, says, w
<1>6. ASSUME nd.type = "interior", NEW says \in {"TORYO", "KACHI"}, NEW auto \in BOOLEAN,
             says = "KACHI" => Shogi!Last(nd.path) \in Declares,
             auto = TRUE => nr = FALSE /\ says = "TORYO"
      PROVE  GameReads(Append(ms, Shogi!End(says, auto)), nr, q) =
               LET e == Shogi!Ended(nd, IF says = "TORYO" THEN "resigned" ELSE "windclrd")
               IN State(TRUE, e, FALSE, IF auto = TRUE THEN "none" ELSE Shogi!WinnerOf(e), low)
  <2> DEFINE l == Shogi!End(says, auto)
             e == Shogi!Ended(nd, IF says = "TORYO" THEN "resigned" ELSE "windclrd")
             w == IF auto = TRUE THEN "none" ELSE Shogi!WinnerOf(e)
  <2>1. says \in GameEnds BY <1>6 DEF GameEnds
  <2>2. /\ l.k = "end" /\ l.says = says /\ l.auto = auto
        /\ GameReads(Append(ms, l), nr, q) = Shogi!ReadLine(x, l, nr)
    BY <1>4, <2>1
  <2>3. ~Shogi!IsTerm(x.node) BY <1>2, <1>6 DEF Shogi!IsTerm
  <2> HIDE DEF l, e
  <2>4. Shogi!ReadLine(x, l, nr) = Shogi!ReadEnd(x, l, nr)
    BY <1>2, <2>2, <2>3 DEF Shogi!ReadLine
  <2>5. Shogi!ReadEnd(x, l, nr) =
          [x EXCEPT !.node = e, !.result = IF l.auto THEN x.result ELSE Shogi!WinnerOf(e)]
    <3>1. ~ (\/ l.says \notin {"TORYO", "KACHI"}
             \/ l.says = "KACHI" /\ Shogi!Last(x.node.path) \notin Declares
             \/ l.auto /\ (nr \/ l.says # "TORYO"))
      BY <1>2, <1>6, <2>2
    <3>2. Shogi!Ended(x.node, IF l.says = "TORYO" THEN "resigned" ELSE "windclrd") = e
      BY <1>2, <2>2 DEF e
    <3> QED BY <3>1, <3>2 DEF Shogi!ReadEnd
  <2>6. (IF l.auto THEN x.result ELSE Shogi!WinnerOf(e)) = w BY <1>2, <2>2
  <2> HIDE DEF w
  <2>7. Shogi!ReadEnd(x, l, nr) = NodeAndResult(x, e, w)
    BY <2>5, <2>6, Zenon DEF NodeAndResult
  <2>8. NodeAndResult(State(x.ok, nd, x.has_result, "none", low), e, w) =
          State(x.ok, e, x.has_result, w, low)
    BY StateFields
  <2> QED BY <1>1, <1>2, <2>2, <2>4, <2>7, <2>8, Zenon DEF l, e, w
<1>7. ASSUME nd.type = "interior" /\ nr = FALSE
      PROVE  GameReads(Append(ms, Shogi!End("TORYO", TRUE)), nr, q) =
               State(TRUE, Shogi!Ended(nd, "resigned"), FALSE, "none", low)
  BY <1>6, <1>7
<1>8. ASSUME NEW t \in {"resigned", "windclrd"}, nd.type = "interior",
             t = "windclrd" => Shogi!Last(nd.path) \in Declares
      PROVE  GameReads(Append(ms, Shogi!End(Shogi!Says(t), FALSE)), nr, q) =
               State(TRUE, Shogi!Ended(nd, t), FALSE, Shogi!WinnerOf(Shogi!Ended(nd, t)), low)
  <2>1. CASE t = "resigned"
    <3>1. Shogi!Says(t) = "TORYO" BY <2>1 DEF Shogi!Says
    <3>2. FALSE \in BOOLEAN /\ "TORYO" \in {"TORYO", "KACHI"} /\ "TORYO" # "KACHI" OBVIOUS
    <3> QED BY <1>6, <1>8, <2>1, <3>1, <3>2
  <2>2. CASE t = "windclrd"
    <3>1. Shogi!Says(t) = "KACHI" BY <2>2 DEF Shogi!Says
    <3>2. FALSE \in BOOLEAN /\ "KACHI" \in {"TORYO", "KACHI"} /\ "TORYO" # "KACHI" OBVIOUS
    <3> QED BY <1>6, <1>8, <2>2, <3>1, <3>2
  <2> QED BY <2>1, <2>2
<1> QED BY <1>5, <1>7, <1>8 DEF low

----------------------------------------------------------------------------
\* The last position of a game that goes on is one.
LEMMA LastIsPosition ==
  ASSUME NEW nd, NodeOk(nd)
  PROVE  /\ nd.path \in Seq(DOMAIN Succ) /\ Len(nd.path) \in Nat \ {0}
         /\ nd.path[Len(nd.path)] \in DOMAIN Succ
         /\ Shogi!Last(nd.path) = nd.path[Len(nd.path)]
<1>1. nd.path \in Seq(DOMAIN Succ) /\ Len(nd.path) >= 1 BY DEF NodeOk, LineIs
<1> QED BY <1>1 DEF Shogi!Last

\* A game goes on with a move that does not end it.
LEMMA MoveGoesOn ==
  ASSUME NEW nd, NEW ms, GameGoesOn(nd, ms), NEW q \in Succ[Shogi!Last(nd.path)],
         NEW low \in BOOLEAN, Shogi!TakeMove(nd, q).type = "interior"
  PROVE  GameGoesOn(Shogi!TakeMove(nd, q), Append(ms, Shogi!Move(q, low)))
<1> DEFINE t == Shogi!TakeMove(nd, q)
           all == Append(ms, Shogi!Move(q, low))
<1>1. NodeOk(nd) /\ nd.type = "interior" /\ ms \in Seq(GameMoves) /\ Len(nd.path) = Len(ms) + 1
  BY DEF GameGoesOn
<1>2. nd.path[Len(nd.path)] \in DOMAIN Succ /\ nd.path \in Seq(DOMAIN Succ)
  BY <1>1, LastIsPosition
<1>3. NodeOk(t) /\ t.path[1] = nd.path[1] /\ (t.type # "maxlen_term" => t.path = Append(nd.path, q))
  BY <1>1, <1>2, TakeMoveOk
<1>4. t.path = Append(nd.path, q) BY <1>3
<1>5. all \in Seq(GameMoves) BY MoveIsRead
<1>6. \A nr \in BOOLEAN : GameReads(all, nr, nd.path[1]) = Here(t, all) BY MoveIsRead
<1>7. Len(t.path) = Len(nd.path) + 1 /\ Len(all) = Len(ms) + 1 BY <1>1, <1>2, <1>4
<1>8. Len(t.path) = Len(all) + 1 BY <1>1, <1>7
<1>9. t.type = "interior" OBVIOUS
<1> HIDE DEF t, all
<1>10. GameGoesOn(t, all) BY <1>3, <1>5, <1>6, <1>8, <1>9 DEF GameGoesOn
<1> QED BY <1>10 DEF t, all

\* f are the nodes of the line o, as USIEngine::start_newgame() plays it.
PlaysBy(f, o) ==
  f = [i \in 1 .. Len(o) |-> IF i = 1 THEN Shogi!Cleared(o[1]) ELSE Shogi!TakeMove(f[i - 1], o[i])]

\* They are what it computes.
LEMMA PlayedIs ==
  ASSUME NEW o \in Seq(DOMAIN Succ)
  PROVE  \E f : PlaysBy(f, o) /\ Shogi!Played(o) = f[Len(o)]
<1> DEFINE From(g, n) == g = [i \in 1 .. n |-> IF i = 1 THEN Shogi!Cleared(o[1])
                                               ELSE Shogi!TakeMove(g[i - 1], o[i])]
           Good == {n \in Nat : \E g : From(g, n)}
<1>1. 0 \in Good
  <2> DEFINE g == [i \in 1 .. 0 |-> Shogi!Cleared(o[1])]
  <2>1. From(g, 0) OBVIOUS
  <2> HIDE DEF From, g
  <2> QED BY <2>1
<1>2. ASSUME NEW n \in Nat, n \in Good PROVE n + 1 \in Good
  <2>1. PICK g : From(g, n) BY <1>2
  <2> DEFINE h == [i \in 1 .. n + 1 |->
                     IF i = n + 1 THEN IF n = 0 THEN Shogi!Cleared(o[1])
                                       ELSE Shogi!TakeMove(g[n], o[n + 1])
                     ELSE g[i]]
             w == [i \in 1 .. n + 1 |-> IF i = 1 THEN Shogi!Cleared(o[1])
                                        ELSE Shogi!TakeMove(h[i - 1], o[i])]
  <2>2. \A i \in 1 .. n : g[i] = IF i = 1 THEN Shogi!Cleared(o[1])
                                 ELSE Shogi!TakeMove(g[i - 1], o[i])
    BY <2>1
  <2>3. ASSUME NEW i \in 1 .. n + 1 PROVE h[i] = w[i]
    <3>1. CASE i = n + 1
      <4>1. i - 1 = n /\ (n # 0 => i # 1 /\ n \in 1 .. n + 1 /\ n # n + 1) /\ (n = 0 => i = 1)
        BY <3>1
      <4> QED BY <4>1, <3>1
    <3>2. CASE i \in 1 .. n
      <4>1. i # n + 1 /\ (i # 1 => i - 1 \in 1 .. n + 1 /\ i - 1 # n + 1) BY <3>2
      <4>2. h[i] = g[i] /\ (i # 1 => h[i - 1] = g[i - 1]) BY <4>1
      <4> QED BY <4>2, <2>2, <3>2
    <3> QED BY <3>1, <3>2
  <2>4. h = [i \in 1 .. n + 1 |-> h[i]] /\ w = [i \in 1 .. n + 1 |-> w[i]] OBVIOUS
  <2>5. h = w
    <3> HIDE DEF h, w
    <3> QED BY <2>3, <2>4
  <2>6. From(h, n + 1)
    <3> HIDE DEF h
    <3> QED BY <2>5
  <2> HIDE DEF From, h
  <2> QED BY <2>6
<1>3. Len(o) \in Good
  <2>1. Nat \subseteq Good
    <3> HIDE DEF Good
    <3> QED BY <1>1, <1>2, AllNumbers
  <2> HIDE DEF Good
  <2> QED BY <2>1
<1>4. \E f : PlaysBy(f, o) BY <1>3 DEF PlaysBy
<1> DEFINE f == CHOOSE f : PlaysBy(f, o)
<1>5. PlaysBy(f, o) BY <1>4, Zenon
<1>6. Shogi!Played(o) = f[Len(o)] BY Zenon DEF Shogi!Played, PlaysBy
<1> HIDE DEF f
<1> QED BY <1>5, <1>6

\* The moves of an opening, up to its position n.
OpeningMoves(o, n) == [i \in 1 .. n - 1 |-> Shogi!Move(o[i + 1], FALSE)]

\* A game goes on after its opening.
LEMMA OpeningGoesOn ==
  ASSUME NEW o \in Openings
  PROVE  GameGoesOn(Shogi!Played(o), OpeningMoves(o, Len(o)))
<1>1. /\ o \in Seq(DOMAIN Succ) /\ Len(o) \in Nat \ {0} /\ Len(o) <= N /\ N \in Nat
      /\ \A i \in 1 .. Len(o) - 1 : o[i + 1] \in Succ[o[i]]
      /\ \A i \in 1 .. Len(o) : Cardinality({j \in 1 .. Len(o) : o[j] = o[i]}) <= 3
      /\ \A i \in 1 .. Len(o) : o[i] \in DOMAIN Succ
  BY GameAssumption
<1>2. PICK f : PlaysBy(f, o) /\ Shogi!Played(o) = f[Len(o)] BY <1>1, PlayedIs
<1>3. /\ f[1] = Shogi!Cleared(o[1])
      /\ \A n \in 1 .. Len(o) - 1 : f[n + 1] = Shogi!TakeMove(f[n], o[n + 1])
  <2>1. \A i \in 1 .. Len(o) :
          f[i] = IF i = 1 THEN Shogi!Cleared(o[1]) ELSE Shogi!TakeMove(f[i - 1], o[i])
    BY <1>2 DEF PlaysBy
  <2>2. 1 \in 1 .. Len(o) BY <1>1
  <2>3. \A n \in 1 .. Len(o) - 1 : n + 1 \in 1 .. Len(o) /\ n + 1 # 1 /\ (n + 1) - 1 = n
    BY <1>1
  <2> QED BY <2>1, <2>2, <2>3
<1> DEFINE At(n) == /\ GameGoesOn(f[n], OpeningMoves(o, n))
                    /\ \A j \in 1 .. n : f[n].path[j] = o[j]
           Good == {n \in 1 .. Len(o) : At(n)}
<1>4. At(1)
  <2> DEFINE nd == Shogi!Cleared(o[1])
             ms == OpeningMoves(o, 1)
  <2>1. o[1] \in DOMAIN Succ BY <1>1
  <2>2. NodeOk(nd) /\ nd.type = "interior" /\ nd.path = <<o[1]>> BY <2>1, ClearedOk
  <2>3. ms = <<>> BY DEF OpeningMoves
  <2> HIDE DEF ms, nd
  <2>4. ms \in Seq(GameMoves) /\ ms \in Seq(GameLines) /\ Len(ms) = 0 BY <2>3
  <2>5. ASSUME NEW nr \in BOOLEAN PROVE GameReads(ms, nr, o[1]) = Here(nd, ms)
    <3>1. PICK g : ReadsBy(g, ms, nr, o[1]) BY <2>4, ReadingDefined
    <3>2. GameReads(ms, nr, o[1]) = g[0] BY <2>4, <3>1, ReadingIs
    <3>3. g[0] = Shogi!Unread(o[1])
      <4>1. 0 \in 0 .. Len(ms) BY <2>4
      <4> QED BY <3>1, <4>1 DEF ReadsBy
    <3>4. [c \in {"black", "white"} |-> LowsOf(ms, c)] = [c \in {"black", "white"} |-> FALSE]
      <4>1. DOMAIN ms = {} BY <2>3
      <4>2. \A c : LowsOf(ms, c) = FALSE BY <4>1 DEF LowsOf
      <4> QED BY <4>2, Zenon
    <3> QED BY <3>2, <3>3, <3>4, Zenon DEF Here, State, Shogi!Unread, nd
  <2>6. GameGoesOn(nd, ms)
    <3>1. nd.path[1] = o[1] /\ Len(nd.path) = 1 BY <2>2
    <3> QED BY <2>2, <2>4, <2>5, <3>1 DEF GameGoesOn
  <2>7. \A j \in 1 .. 1 : nd.path[j] = o[j] BY <2>2
  <2> QED BY <1>3, <2>6, <2>7 DEF nd, ms
<1>5. ASSUME NEW n \in 1 .. Len(o) - 1, At(n) PROVE At(n + 1)
  <2> DEFINE nd == f[n]
             q == o[n + 1]
             t == Shogi!TakeMove(nd, q)
             ms == OpeningMoves(o, n)
  <2>1. /\ n + 1 \in 1 .. Len(o) /\ n \in 1 .. Len(o) /\ n \in Nat /\ q \in Succ[o[n]]
        /\ q \in DOMAIN Succ
    BY <1>1
  <2>2. GameGoesOn(nd, ms) /\ \A j \in 1 .. n : nd.path[j] = o[j] BY <1>5
  <2>3. f[n + 1] = t BY <1>3
  <2> HIDE DEF nd, q, t, ms, At
  <2>4. NodeOk(nd) /\ nd.type = "interior" /\ Len(nd.path) = Len(ms) + 1
    BY <2>2 DEF GameGoesOn
  <2>5. Len(ms) = n - 1
    <3>1. ms \in Seq(GameMoves) BY <2>2 DEF GameGoesOn
    <3>2. n - 1 \in Nat BY <2>1
    <3>3. ms = [i \in 1 .. n - 1 |-> Shogi!Move(o[i + 1], FALSE)] BY DEF ms, OpeningMoves
    <3> QED BY <3>1, <3>2, <3>3
  <2>6. Len(nd.path) = n BY <2>1, <2>4, <2>5
  <2>7. /\ nd.path \in Seq(DOMAIN Succ) /\ Shogi!Last(nd.path) = o[n]
        /\ nd.path[Len(nd.path)] \in DOMAIN Succ
    BY <2>1, <2>2, <2>4, <2>6, LastIsPosition
  <2>8. Len(nd.path) # N BY <1>1, <2>1, <2>6
  <2> DEFINE p == Append(nd.path, q)
             r == Append(nd.run, Shogi!LenInCheck(nd.run, q))
  <2>9. t = [path |-> p, run |-> r, type |-> Shogi!Verdict(p, r)]
    BY <2>8 DEF Shogi!TakeMove, t
  <2>10. /\ p \in Seq(DOMAIN Succ) /\ Len(p) = n + 1 /\ p[n + 1] = q
         /\ \A j \in 1 .. n + 1 : p[j] = o[j]
    <3>1. p \in Seq(DOMAIN Succ) /\ Len(p) = n + 1 /\ p[n + 1] = q
          /\ \A j \in 1 .. n : p[j] = nd.path[j]
      BY <2>1, <2>6, <2>7
    <3> QED BY <2>1, <2>2, <3>1 DEF q
  <2> HIDE DEF p, r
  <2>11. Cardinality(Shogi!Earlier(p)) < 3
    <3> DEFINE E == Shogi!Earlier(p)
               D == {j \in 1 .. Len(o) : o[j] = o[n + 1]}
    <3>1. IsFiniteSet(E) /\ Cardinality(E) \in Nat BY <2>10, EarlierIsFinite
    <3>2. n + 1 \notin E /\ E \union {n + 1} \subseteq D
      <4>1. \A i \in E : i \in 1 .. n - 1 /\ p[i] = p[n + 1]
        BY <2>1, <2>10 DEF Shogi!Earlier
      <4>2. \A i \in E : i \in 1 .. n + 1 /\ i \in 1 .. Len(o) /\ i # n + 1 /\ o[i] = o[n + 1]
        BY <2>1, <2>10, <4>1
      <4> QED BY <2>1, <4>2
    <3> HIDE DEF E
    <3>3. Cardinality(E \union {n + 1}) = Cardinality(E) + 1 BY <3>1, <3>2, FS_AddElement
    <3>4. IsFiniteSet(D)
      <4>1. D \subseteq 1 .. Len(o) OBVIOUS
      <4>2. 1 \in Int /\ Len(o) \in Int BY <1>1
      <4>3. IsFiniteSet(1 .. Len(o)) BY <4>2, FS_Interval
      <4> QED BY <4>1, <4>3, FS_Subset
    <3>5. Cardinality(D) <= 3 BY <1>1, <2>1
    <3> HIDE DEF D
    <3>6. Cardinality(E \union {n + 1}) <= Cardinality(D) BY <3>2, <3>4, FS_Subset
    <3>7. Cardinality(D) \in Nat BY <3>4, FS_CardinalityType
    <3> QED BY <3>1, <3>3, <3>5, <3>6, <3>7 DEF E
  <2>12. t.type = "interior"
    <3>1. Shogi!Verdict(p, r) = "interior" BY <2>10, <2>11, VerdictIs
    <3> QED BY <2>9, <3>1
  <2>13. GameGoesOn(t, Append(ms, Shogi!Move(q, FALSE)))
    <3>1. q \in Succ[Shogi!Last(nd.path)] BY <2>1, <2>7
    <3>2. FALSE \in BOOLEAN OBVIOUS
    <3> QED BY <2>2, <2>12, <3>1, <3>2, MoveGoesOn DEF t
  <2>14. Append(ms, Shogi!Move(q, FALSE)) = OpeningMoves(o, n + 1)
    <3> DEFINE a == Append(ms, Shogi!Move(q, FALSE))
               b == OpeningMoves(o, n + 1)
    <3>0. ms \in Seq(GameMoves) BY <2>2 DEF GameGoesOn
    <3>1. ms = [i \in 1 .. n - 1 |-> Shogi!Move(o[i + 1], FALSE)] BY DEF ms, OpeningMoves
    <3>2. /\ a \in Seq(GameMoves) /\ Len(a) = n /\ a[n] = Shogi!Move(q, FALSE)
          /\ \A i \in 1 .. n - 1 : a[i] = ms[i]
      <4> DEFINE v == Shogi!Move(q, FALSE)
      <4>1. v \in GameMoves BY <2>1 DEF Shogi!Move, GameMoves
      <4> HIDE DEF v
      <4>2. (n - 1) + 1 = n /\ Len(ms) + 1 = n BY <2>1, <2>5
      <4>3. Append(ms, v) \in Seq(GameMoves) /\ Len(Append(ms, v)) = n
            /\ Append(ms, v)[n] = v /\ \A i \in 1 .. n - 1 : Append(ms, v)[i] = ms[i]
        <5>1. ms \in Seq(GameMoves) /\ Len(ms) \in Nat BY <3>0
        <5> HIDE DEF ms
        <5> QED BY <4>1, <4>2, <5>1
      <4> QED BY <4>3 DEF v, a
    <3>3. b = [i \in 1 .. n |-> Shogi!Move(o[i + 1], FALSE)]
      <4>1. (n + 1) - 1 = n BY <2>1
      <4> QED BY <4>1 DEF OpeningMoves
    <3> HIDE DEF a, b
    <3>4. b \in Seq(GameMoves) /\ Len(b) = n
      <4>1. \A i \in 1 .. n : Shogi!Move(o[i + 1], FALSE) \in GameMoves
        <5> SUFFICES ASSUME NEW i \in 1 .. n PROVE Shogi!Move(o[i + 1], FALSE) \in GameMoves
          OBVIOUS
        <5>1. o[i + 1] \in DOMAIN Succ
          <6>1. i + 1 \in 1 .. Len(o) BY <2>1
          <6> QED BY <1>1, <6>1
        <5> QED BY <5>1 DEF Shogi!Move, GameMoves
      <4>2. b \in [1 .. n -> GameMoves] BY <3>3, <4>1, Zenon
      <4>3. n \in Nat BY <2>1
      <4> QED BY <4>2, <4>3
    <3>5. \A i \in 1 .. n : a[i] = b[i]
      <4> SUFFICES ASSUME NEW i \in 1 .. n PROVE a[i] = b[i] OBVIOUS
      <4>1. CASE i = n BY <3>2, <3>3, <4>1 DEF q
      <4>2. CASE i # n
        <5>1. i \in 1 .. n - 1 BY <2>1, <4>2
        <5> QED BY <3>1, <3>2, <3>3, <5>1
      <4> QED BY <4>1, <4>2
    <3>6. a = b BY <3>2, <3>4, <3>5, SeqEqual
    <3> QED BY <3>6 DEF a, b
  <2>15. \A j \in 1 .. n + 1 : t.path[j] = o[j] BY <2>9, <2>10
  <2> QED BY <2>3, <2>13, <2>14, <2>15 DEF At
<1>6. 1 .. Len(o) \subseteq Good
  <2>1. 1 \in Int /\ Len(o) \in Int /\ 1 \in 1 .. Len(o) BY <1>1
  <2>2. 1 \in Good BY <1>4, <2>1
  <2>3. \A n \in 1 .. Len(o) - 1 : n \in Good => n + 1 \in Good
    <3> SUFFICES ASSUME NEW n \in 1 .. Len(o) - 1, n \in Good PROVE n + 1 \in Good OBVIOUS
    <3>1. n + 1 \in 1 .. Len(o) BY <1>1
    <3>2. At(n) OBVIOUS
    <3> HIDE DEF At
    <3>3. At(n + 1) BY <1>5, <3>2
    <3> QED BY <3>1, <3>3
  <2> HIDE DEF Good
  <2> QED BY <2>1, <2>2, <2>3, AllBetween
<1>7. Len(o) \in Good BY <1>1, <1>6
<1>8. GameGoesOn(f[Len(o)], OpeningMoves(o, Len(o))) BY <1>7
<1> QED BY <1>2, <1>8

----------------------------------------------------------------------------
\* A record rec of a game from q, with the moves ms, that w won, says so.
RecordSays(rec, q, ms, w) ==
  LET x == Shogi!Examine(rec, q)
  IN /\ x.ok /\ Shogi!IsTerm(x.node)
     /\ Shogi!WinnerOf(x.node) = w
     /\ rec.no_resign =>
          /\ x.result = w
          /\ Shogi!Low(x) = \E c \in {"black", "white"} : LowsOf(ms, c) /\ w \in {c, "none"}

\* value_min: a low value of the winner, or of anyone when nobody won.
LEMMA LowIs ==
  ASSUME NEW ms, NEW ok, NEW nd, NEW has, NEW w \in {"black", "white", "none"}
  PROVE  Shogi!Low(State(ok, nd, has, w, LOf(ms))) =
           \E c \in {"black", "white"} : LowsOf(ms, c) /\ w \in {c, "none"}
<1> DEFINE x == State(ok, nd, has, w, LOf(ms))
           b == LowsOf(ms, "black")
           v == LowsOf(ms, "white")
<1>1. x.result = w /\ x.low = LOf(ms) BY DEF State
<1>2. x.low["black"] = b /\ x.low["white"] = v BY <1>1 DEF LOf
<1>3. b \in BOOLEAN /\ v \in BOOLEAN BY DEF LowsOf
<1>4. Shogi!Low(x) = IF w = "none" THEN b \/ v ELSE x.low[w]
  <2> HIDE DEF x, b, v
  <2> QED BY <1>1, <1>2, <1>3 DEF Shogi!Low
<1>5. (\E c \in {"black", "white"} : LowsOf(ms, c) /\ w \in {c, "none"})
        <=> (b /\ w \in {"black", "none"}) \/ (v /\ w \in {"white", "none"})
  BY <1>3
<1> DEFINE e == \E c \in {"black", "white"} : LowsOf(ms, c) /\ w \in {c, "none"}
<1>6. e \in BOOLEAN OBVIOUS
<1> HIDE DEF x, b, v, e
<1>7. CASE w = "none"
  <2>1. e <=> b \/ v BY <1>5, <1>7 DEF e
  <2> QED BY <1>3, <1>4, <1>6, <1>7, <2>1 DEF x, e
<1>8. CASE w = "black"
  <2>1. e <=> b BY <1>5, <1>8 DEF e
  <2>2. Shogi!Low(x) = b BY <1>2, <1>4, <1>8
  <2> QED BY <1>3, <1>6, <2>1, <2>2 DEF x, e
<1>9. CASE w = "white"
  <2>1. e <=> v BY <1>5, <1>9 DEF e
  <2>2. Shogi!Low(x) = v BY <1>2, <1>4, <1>9
  <2> QED BY <1>3, <1>6, <2>1, <2>2 DEF x, e
<1> QED BY <1>7, <1>8, <1>9

\* What a node that is over by the rules says of the winner is the winner.
LEMMA WinnerIs ==
  ASSUME NEW nd
  PROVE  /\ Shogi!WinnerOf(nd) \in {"black", "white", "none"}
         /\ nd.type \in {"illegal_bwin", "illegal_wwin", "repeated", "maxlen_term"} =>
              Shogi!ByType(nd.type) = Shogi!WinnerOf(nd)
<1>1. Shogi!Turn(nd) \in {"black", "white"} BY DEF Shogi!Turn
<1>2. Shogi!Opp(Shogi!Turn(nd)) \in {"black", "white"} BY DEF Shogi!Opp
<1> QED BY <1>1, <1>2 DEF Shogi!WinnerOf, Shogi!ByType

\* The record of a game that is over says so, whatever ended it.
LEMMA EndSays ==
  ASSUME NEW nd, NEW ms \in Seq(GameMoves), NEW nr \in BOOLEAN, NEW q,
         GameReads(ms, nr, q) = Here(nd, ms),
         nd = [path |-> nd.path, run |-> nd.run, type |-> nd.type]
  PROVE  /\ nd.type \in {"illegal_bwin", "illegal_wwin", "repeated", "maxlen_term"} =>
              RecordSays([no_resign |-> nr,
                          lines |-> Append(ms, Shogi!End(Shogi!Says(nd.type), FALSE))],
                         q, ms, Shogi!WinnerOf(nd))
         /\ nd.type = "interior" /\ nr = FALSE =>
              RecordSays([no_resign |-> nr, lines |-> Append(ms, Shogi!End("TORYO", TRUE))],
                         q, ms, Shogi!Opp(Shogi!Turn(nd)))
         /\ \A t \in {"resigned", "windclrd"} :
              nd.type = "interior" /\ (t = "windclrd" => Shogi!Last(nd.path) \in Declares) =>
                RecordSays([no_resign |-> nr,
                            lines |-> Append(ms, Shogi!End(Shogi!Says(t), FALSE))],
                           q, ms, Shogi!WinnerOf(Shogi!Ended(nd, t)))
<1>1. ASSUME NEW ls, NEW w \in {"black", "white", "none"}, NEW e, NEW has,
             GameReads(ls, nr, q) = State(TRUE, e, has, w, LOf(ms)),
             e.type # "interior", Shogi!WinnerOf(e) = w
      PROVE  RecordSays([no_resign |-> nr, lines |-> ls], q, ms, w)
  <2> DEFINE x == Shogi!Examine([no_resign |-> nr, lines |-> ls], q)
  <2>1. x = State(TRUE, e, has, w, LOf(ms)) BY <1>1 DEF GameReads
  <2>2. x.ok = TRUE /\ x.node = e /\ x.result = w BY <2>1 DEF State
  <2>3. Shogi!Low(x) = \E c \in {"black", "white"} : LowsOf(ms, c) /\ w \in {c, "none"}
    <3>1. x.ok = TRUE BY <2>1 DEF State
    <3> HIDE DEF x
    <3>2. Shogi!Low(State(x.ok, e, has, w, LOf(ms))) =
            \E c \in {"black", "white"} : LowsOf(ms, c) /\ w \in {c, "none"}
      BY LowIs
    <3> QED BY <2>1, <3>1, <3>2, Zenon
  <2>4. Shogi!IsTerm(x.node) BY <1>1, <2>2 DEF Shogi!IsTerm
  <2> HIDE DEF x
  <2> QED BY <1>1, <2>2, <2>3, <2>4, Zenon DEF RecordSays, x
<1>2. ASSUME nd.type \in {"illegal_bwin", "illegal_wwin", "repeated", "maxlen_term"}
      PROVE  RecordSays([no_resign |-> nr,
                         lines |-> Append(ms, Shogi!End(Shogi!Says(nd.type), FALSE))],
                        q, ms, Shogi!WinnerOf(nd))
  <2> DEFINE ls == Append(ms, Shogi!End(Shogi!Says(nd.type), FALSE))
  <2>1. GameReads(ls, nr, q) = State(TRUE, nd, TRUE, Shogi!ByType(nd.type), LOf(ms))
    BY <1>2, EndIsRead
  <2>2. Shogi!ByType(nd.type) = Shogi!WinnerOf(nd)
        /\ Shogi!WinnerOf(nd) \in {"black", "white", "none"}
    BY <1>2, WinnerIs
  <2> HIDE DEF ls
  <2>3. nd.type # "interior" BY <1>2
  <2>4. RecordSays([no_resign |-> nr, lines |-> ls], q, ms, Shogi!WinnerOf(nd))
    BY <1>1, <2>1, <2>2, <2>3
  <2> QED BY <2>4 DEF ls
<1>3. ASSUME NEW t \in {"resigned", "windclrd"}
      PROVE  /\ Shogi!Ended(nd, t).type = t
             /\ t = "resigned" => Shogi!WinnerOf(Shogi!Ended(nd, t)) = Shogi!Opp(Shogi!Turn(nd))
  <2>1. Shogi!Ended(nd, t) = [path |-> nd.path, run |-> nd.run, type |-> t]
    BY DEF Shogi!Ended
  <2>2. Shogi!Turn(Shogi!Ended(nd, t)) = Shogi!Turn(nd) BY <2>1 DEF Shogi!Turn
  <2>3. Shogi!Ended(nd, t).type = t BY <2>1
  <2> QED BY <2>2, <2>3 DEF Shogi!WinnerOf
<1>4. ASSUME nd.type = "interior" /\ nr = FALSE
      PROVE  RecordSays([no_resign |-> nr, lines |-> Append(ms, Shogi!End("TORYO", TRUE))],
                        q, ms, Shogi!Opp(Shogi!Turn(nd)))
  <2> DEFINE ls == Append(ms, Shogi!End("TORYO", TRUE))
             e == Shogi!Ended(nd, "resigned")
             x == Shogi!Examine([no_resign |-> nr, lines |-> ls], q)
  <2>1. GameReads(ls, nr, q) = State(TRUE, e, FALSE, "none", LOf(ms)) BY <1>4, EndIsRead
  <2>2. x = State(TRUE, e, FALSE, "none", LOf(ms)) BY <2>1 DEF GameReads
  <2>3. x.ok = TRUE /\ x.node = e BY <2>2 DEF State
  <2>4. e.type = "resigned" /\ Shogi!WinnerOf(e) = Shogi!Opp(Shogi!Turn(nd)) BY <1>3, <1>4
  <2>5. Shogi!IsTerm(x.node) BY <2>3, <2>4 DEF Shogi!IsTerm
  <2>6. [no_resign |-> nr, lines |-> ls].no_resign = FALSE BY <1>4
  <2> HIDE DEF x, e, ls
  <2>7. RecordSays([no_resign |-> nr, lines |-> ls], q, ms, Shogi!Opp(Shogi!Turn(nd)))
    BY <2>3, <2>4, <2>5, <2>6, Zenon DEF RecordSays, x
  <2> QED BY <2>7 DEF ls
<1>5. ASSUME NEW t \in {"resigned", "windclrd"},
             nd.type = "interior" /\ (t = "windclrd" => Shogi!Last(nd.path) \in Declares)
      PROVE  RecordSays([no_resign |-> nr,
                         lines |-> Append(ms, Shogi!End(Shogi!Says(t), FALSE))],
                        q, ms, Shogi!WinnerOf(Shogi!Ended(nd, t)))
  <2> DEFINE ls == Append(ms, Shogi!End(Shogi!Says(t), FALSE))
             e == Shogi!Ended(nd, t)
  <2>1. GameReads(ls, nr, q) = State(TRUE, e, FALSE, Shogi!WinnerOf(e), LOf(ms))
    BY <1>5, EndIsRead
  <2>2. Shogi!WinnerOf(e) \in {"black", "white", "none"} BY WinnerIs
  <2>3. e.type # "interior" BY <1>3, <1>5
  <2> HIDE DEF ls, e
  <2>4. RecordSays([no_resign |-> nr, lines |-> ls], q, ms, Shogi!WinnerOf(e))
    BY <1>1, <2>1, <2>2, <2>3
  <2> QED BY <2>4 DEF ls, e
<1> QED BY <1>2, <1>4, <1>5, Zenon

----------------------------------------------------------------------------
\* While there is no record the game goes on, and when there is one it says the game.
GameInv ==
  /\ NodeOk(node) /\ do_resign \in BOOLEAN
  /\ game_record = NoRecord => GameGoesOn(node, moves) /\ winner = "none"
  /\ game_record # NoRecord => RecordSays(game_record, node.path[1], moves, winner)

\* What the server finds in the record is what happened.
LEMMA RecordSaysIs ==
  GameInv => RecordSaysGame
<1>1. ASSUME NEW c PROVE LowsOf(moves, c) <=> Shogi!Lows(c) BY DEF LowsOf, Shogi!Lows
<1>2. \A w : (\E c \in {"black", "white"} : LowsOf(moves, c) /\ w \in {c, "none"})
               = (\E c \in {"black", "white"} : Shogi!Lows(c) /\ w \in {c, "none"})
  BY <1>1
<1> SUFFICES ASSUME GameInv, game_record # NoRecord PROVE Shogi!RecordSaysGame
  BY DEF RecordSaysGame, Shogi!RecordSaysGame
<1>3. RecordSays(game_record, node.path[1], moves, winner) BY DEF GameInv
<1> DEFINE x == Shogi!Examine(game_record, node.path[1])
<1>4. /\ x.ok /\ Shogi!IsTerm(x.node) /\ Shogi!WinnerOf(x.node) = winner
      /\ game_record.no_resign =>
           /\ x.result = winner
           /\ Shogi!Low(x) = \E c \in {"black", "white"} : LowsOf(moves, c) /\ winner \in {c, "none"}
  BY <1>3, Zenon DEF RecordSays
<1> HIDE DEF x
<1>5. game_record.no_resign =>
        Shogi!Low(x) = \E c \in {"black", "white"} : Shogi!Lows(c) /\ winner \in {c, "none"}
  BY <1>2, <1>4, Zenon
<1> QED BY <1>4, <1>5, Zenon DEF Shogi!RecordSaysGame, x

\* A record is one.
LEMMA RecordIsOne ==
  ASSUME NEW ms \in Seq(GameMoves), NEW nr \in BOOLEAN, NEW says \in GameEnds,
         NEW auto \in BOOLEAN
  PROVE  [no_resign |-> nr, lines |-> Append(ms, Shogi!End(says, auto))] # NoRecord
<1>1. Shogi!End(says, auto) \in GameLines BY DEF Shogi!End, GameLines
<1>2. ms \in Seq(GameLines) BY DEF GameLines
<1>3. Append(ms, Shogi!End(says, auto)) \in Seq(GameLines) BY <1>1, <1>2
<1>4. [no_resign |-> nr, lines |-> Append(ms, Shogi!End(says, auto))] \in GameRecords
  BY <1>3 DEF GameRecords
<1> QED BY <1>4, GameAssumption

\* A new game.
LEMMA GameStarts ==
  ASSUME NEW o \in Openings, NEW nd, NEW ms, nd = Shogi!Played(o),
         ms = [i \in 1 .. Len(o) - 1 |-> Shogi!Move(o[i + 1], FALSE)]
  PROVE  GameGoesOn(nd, ms) /\ NodeOk(nd)
<1>1. ms = OpeningMoves(o, Len(o)) BY DEF OpeningMoves
<1>2. GameGoesOn(nd, ms) BY <1>1, OpeningGoesOn
<1> QED BY <1>2 DEF GameGoesOn

\* A win that is declared for the next to move.
LEMMA DeclaredIs ==
  ASSUME NEW nd, NodeOk(nd),
         nd.type \in {"interior", "illegal_bwin", "illegal_wwin", "repeated", "maxlen_term"}
  PROVE  /\ NodeOk(Shogi!Declared(nd)) /\ Shogi!Declared(nd).path[1] = nd.path[1]
         /\ \/ /\ nd.type = "interior" /\ Shogi!Last(nd.path) \in Declares
               /\ Shogi!Declared(nd) = Shogi!Ended(nd, "windclrd")
               /\ Shogi!Declared(nd).type = "windclrd"
            \/ Shogi!Declared(nd) = nd
<1>1. nd.type = "interior" => /\ NodeOk(Shogi!Ended(nd, "windclrd"))
                              /\ Shogi!Ended(nd, "windclrd").path = nd.path
                              /\ Shogi!Ended(nd, "windclrd").type = "windclrd"
  BY EndedOk
<1> QED BY <1>1 DEF Shogi!Declared, Shogi!IsTerm

\* A move, whether it ends the game, gives it up or neither.
LEMMA PlayMoveKeeps ==
  ASSUME GameInv, NEW q \in Succ[Shogi!Last(node.path)], NEW low \in BOOLEAN,
         Shogi!PlayMove(q, low)
  PROVE  GameInv'
<1> DEFINE tm == Shogi!TakeMove(node, q)
           new == Shogi!Declared(tm)
           mv == Shogi!Move(q, low)
           all == Append(moves, mv)
           p == node.path[1]
<1>1. game_record = NoRecord /\ node' = new /\ do_resign' = do_resign /\ do_resign \in BOOLEAN
  BY DEF Shogi!PlayMove, GameInv
<1>2. GameGoesOn(node, moves) /\ winner = "none" BY <1>1 DEF GameInv
<1>3. /\ NodeOk(node) /\ node.type = "interior" /\ moves \in Seq(GameMoves)
      /\ \A nr \in BOOLEAN : GameReads(moves, nr, p) = Here(node, moves)
      /\ node = [path |-> node.path, run |-> node.run, type |-> node.type]
  BY <1>2 DEF GameGoesOn, NodeOk
<1>4. node.path[Len(node.path)] \in DOMAIN Succ BY <1>3, LastIsPosition
<1>5. /\ NodeOk(tm) /\ tm.path[1] = p
      /\ tm.type \in {"interior", "illegal_bwin", "illegal_wwin", "repeated", "maxlen_term"}
  BY <1>3, <1>4, TakeMoveOk
<1>6. all \in Seq(GameMoves) /\ \A nr \in BOOLEAN : GameReads(all, nr, p) = Here(tm, all)
  BY <1>2, MoveIsRead
<1>7. tm = [path |-> tm.path, run |-> tm.run, type |-> tm.type] BY <1>5 DEF NodeOk
<1> HIDE DEF tm, mv, all
<1>8. /\ NodeOk(new) /\ new.path[1] = p
      /\ \/ /\ tm.type = "interior" /\ Shogi!Last(tm.path) \in Declares
            /\ new = Shogi!Ended(tm, "windclrd") /\ new.type = "windclrd"
         \/ new = tm
  BY <1>5, DeclaredIs
<1> HIDE DEF new, p
<1>9. CASE low /\ do_resign /\ Len(all) > Opening
  <2> DEFINE ls == Append(moves, Shogi!End("TORYO", TRUE))
             rec == [no_resign |-> FALSE, lines |-> ls]
  <2>1. /\ game_record' = rec /\ winner' = Shogi!Opp(Shogi!Turn(node)) /\ moves' = moves
    BY <1>9 DEF Shogi!PlayMove, Shogi!GivenUp, all, mv
  <2>2. RecordSays(rec, p, moves, Shogi!Opp(Shogi!Turn(node)))
    BY <1>3, EndSays
  <2>3. rec # NoRecord
    <3>1. TRUE \in BOOLEAN /\ FALSE \in BOOLEAN /\ "TORYO" \in GameEnds BY DEF GameEnds
    <3> QED BY <1>3, <3>1, RecordIsOne
  <2> HIDE DEF rec
  <2>4. RecordSays(game_record', node'.path[1], moves', winner')
    BY <1>1, <1>8, <2>1, <2>2
  <2> QED BY <1>1, <1>8, <2>1, <2>3, <2>4 DEF GameInv
<1>10. CASE ~(low /\ do_resign /\ Len(all) > Opening)
  <2>1. /\ moves' = all
        /\ IF Shogi!IsTerm(new)
             THEN /\ game_record' = [no_resign |-> ~do_resign,
                                     lines |-> Append(all, Shogi!End(Shogi!Says(new.type), FALSE))]
                  /\ winner' = Shogi!WinnerOf(new)
             ELSE UNCHANGED <<game_record, winner>>
    BY <1>10 DEF Shogi!PlayMove, all, mv, new, tm
  <2>2. CASE Shogi!IsTerm(new)
    <3> DEFINE nr == ~do_resign
               rec == [no_resign |-> nr,
                       lines |-> Append(all, Shogi!End(Shogi!Says(new.type), FALSE))]
    <3>1. nr \in BOOLEAN BY <1>1
    <3>2. game_record' = rec /\ winner' = Shogi!WinnerOf(new) BY <2>1, <2>2
    <3> HIDE DEF nr
    <3>3. RecordSays(rec, p, all, Shogi!WinnerOf(new))
      <4>1. CASE new = tm
        <5>1. tm.type \in {"illegal_bwin", "illegal_wwin", "repeated", "maxlen_term"}
          BY <1>5, <2>2, <4>1 DEF Shogi!IsTerm
        <5>2. RecordSays([no_resign |-> nr,
                          lines |-> Append(all, Shogi!End(Shogi!Says(tm.type), FALSE))],
                         p, all, Shogi!WinnerOf(tm))
          BY <1>6, <1>7, <3>1, <5>1, EndSays
        <5> QED BY <4>1, <5>2
      <4>2. CASE /\ tm.type = "interior" /\ Shogi!Last(tm.path) \in Declares
                 /\ new = Shogi!Ended(tm, "windclrd") /\ new.type = "windclrd"
        <5>1. RecordSays([no_resign |-> nr,
                          lines |-> Append(all, Shogi!End(Shogi!Says("windclrd"), FALSE))],
                         p, all, Shogi!WinnerOf(Shogi!Ended(tm, "windclrd")))
          BY <1>6, <1>7, <3>1, <4>2, EndSays
        <5> QED BY <4>2, <5>1
      <4> QED BY <1>8, <4>1, <4>2
    <3>4. rec # NoRecord
      <4>1. FALSE \in BOOLEAN OBVIOUS
      <4>2. Shogi!Says(new.type) \in GameEnds
        BY <1>5, <1>8, <2>2 DEF Shogi!Says, GameEnds, Shogi!IsTerm
      <4> QED BY <1>6, <3>1, <4>1, <4>2, RecordIsOne
    <3> HIDE DEF rec
    <3>5. RecordSays(game_record', node'.path[1], moves', winner')
      BY <1>1, <1>8, <2>1, <3>2, <3>3
    <3> QED BY <1>1, <1>8, <3>2, <3>4, <3>5 DEF GameInv
  <2>3. CASE ~Shogi!IsTerm(new)
    <3>1. new = tm /\ tm.type = "interior" BY <1>8, <2>3 DEF Shogi!IsTerm
    <3>2. GameGoesOn(tm, all) BY <1>2, <3>1, MoveGoesOn DEF tm, all, mv
    <3>3. node' = tm /\ moves' = all /\ game_record' = game_record /\ winner' = winner
      BY <1>1, <2>1, <2>3, <3>1
    <3> QED BY <1>1, <1>2, <1>5, <3>2, <3>3 DEF GameInv
  <2> QED BY <2>2, <2>3
<1> QED BY <1>9, <1>10

\* An engine that resigns or declares.
LEMMA PlayEndKeeps ==
  ASSUME GameInv, NEW t \in {"resigned", "windclrd"}, Shogi!PlayEnd(t)
  PROVE  GameInv'
<1> DEFINE new == Shogi!Ended(node, t)
           nr == ~do_resign
           rec == [no_resign |-> nr, lines |-> Append(moves, Shogi!End(Shogi!Says(t), FALSE))]
           p == node.path[1]
<1>1. /\ game_record = NoRecord /\ node' = new /\ do_resign' = do_resign /\ moves' = moves
      /\ t = "windclrd" => Shogi!Last(node.path) \in Declares
      /\ game_record' = rec /\ winner' = Shogi!WinnerOf(new)
  BY DEF Shogi!PlayEnd
<1>2. GameGoesOn(node, moves) /\ do_resign \in BOOLEAN BY <1>1 DEF GameInv
<1>3. /\ NodeOk(node) /\ node.type = "interior" /\ moves \in Seq(GameMoves)
      /\ \A b \in BOOLEAN : GameReads(moves, b, p) = Here(node, moves)
      /\ node = [path |-> node.path, run |-> node.run, type |-> node.type]
  BY <1>2 DEF GameGoesOn, NodeOk
<1>4. NodeOk(new) /\ new.path = node.path BY <1>3, EndedOk
<1>5. nr \in BOOLEAN BY <1>2
<1> HIDE DEF nr
<1>6. RecordSays(rec, p, moves, Shogi!WinnerOf(new)) BY <1>1, <1>3, <1>5, EndSays
<1>7. rec # NoRecord
  <2>1. FALSE \in BOOLEAN /\ Shogi!Says(t) \in GameEnds BY DEF Shogi!Says, GameEnds
  <2> QED BY <1>3, <1>5, <2>1, RecordIsOne
<1> HIDE DEF rec, new
<1>8. RecordSays(game_record', node'.path[1], moves', winner') BY <1>1, <1>4, <1>6
<1> QED BY <1>1, <1>2, <1>4, <1>7, <1>8 DEF GameInv

\* Every step of a game keeps it so.
LEMMA GameKeeps == GameInv /\ [Shogi!Next]_(Shogi!vars) => GameInv'
<1> SUFFICES ASSUME GameInv, [Shogi!Next]_(Shogi!vars) PROVE GameInv'
  OBVIOUS
<1>1. CASE \E q \in Succ[Shogi!Last(node.path)], low \in BOOLEAN : Shogi!PlayMove(q, low)
  BY <1>1, PlayMoveKeeps
<1>2. CASE \E type \in {"resigned", "windclrd"} : Shogi!PlayEnd(type)
  BY <1>2, PlayEndKeeps
<1>3. CASE game_record # NoRecord /\ Shogi!StartNewgame
  <2>1. PICK o \in Openings, resign \in BOOLEAN :
          /\ node' = Shogi!Played(o) /\ do_resign' = resign
          /\ moves' = [i \in 1 .. Len(o) - 1 |-> Shogi!Move(o[i + 1], FALSE)]
          /\ game_record' = NoRecord /\ winner' = "none"
    BY <1>3 DEF Shogi!StartNewgame
  <2>2. GameGoesOn(node', moves') /\ NodeOk(node') BY <2>1, GameStarts
  <2> QED BY <2>1, <2>2 DEF GameInv
<1>4. CASE UNCHANGED Shogi!vars
  <2>1. /\ node' = node /\ do_resign' = do_resign /\ moves' = moves
        /\ game_record' = game_record /\ winner' = winner
    BY <1>4 DEF Shogi!vars
  <2> QED BY <2>1 DEF GameInv
<1> QED BY <1>1, <1>2, <1>3, <1>4 DEF Shogi!Next

\* A game that goes on is the one that its record says so far, however long it is, and
\* a record that is written says the whole of its game (play.cpp, update and
\* start_newgame, against datakeep.cpp, examine_record).
THEOREM GameInvariance == Shogi!Spec => []GameInv
<1>1. Shogi!Init => GameInv
  <2> SUFFICES ASSUME Shogi!Init PROVE GameInv OBVIOUS
  <2>1. PICK o \in Openings :
          /\ node = Shogi!Played(o)
          /\ moves = [i \in 1 .. Len(o) - 1 |-> Shogi!Move(o[i + 1], FALSE)]
    BY DEF Shogi!Init
  <2>2. GameGoesOn(node, moves) /\ NodeOk(node) BY <2>1, GameStarts
  <2> QED BY <2>2 DEF GameInv, Shogi!Init
<1> QED BY <1>1, GameKeeps, PTL DEF Shogi!Spec

\* The server takes every record that a client writes, finds the winner that the game
\* had and learns from the values that were low (datakeep.cpp, examine_record), for
\* every game of positions whose sides alternate.
THEOREM RecordsSayTheGame == Shogi!Spec => []RecordSaysGame
<1> QED BY GameInvariance, RecordSaysIs, PTL

----------------------------------------------------------------------------
\* Positions of a line are of the two sides in turn, so an earlier occurrence of the
\* last one is an even number of moves back.
LEMMA SidesAlternate ==
  ASSUME NEW path, LineIs(path), NEW i \in 1 .. Len(path), NEW j \in 1 .. Len(path),
         path[i] = path[j]
  PROVE  (j - i) % 2 = 0
<1> DEFINE l == Len(path)
<1>1. /\ path \in Seq(DOMAIN Succ) /\ l \in Nat /\ l >= 1
      /\ \A k \in 1 .. l - 1 : path[k + 1] \in Succ[path[k]]
      /\ \A k \in 1 .. l : path[k] \in DOMAIN Succ
  BY DEF LineIs
<1>2. PICK black \in SUBSET DOMAIN Succ :
        \A p \in DOMAIN Succ : \A q \in Succ[p] : p \in black <=> q \notin black
  BY GameAssumption
<1> HIDE DEF l
<1> DEFINE Good == {k \in 1 .. l : (path[k] \in black) <=> ((path[1] \in black) <=> k % 2 = 1)}
<1>3. 1 .. l \subseteq Good
  <2>1. 1 \in Good BY <1>1
  <2>2. ASSUME NEW k \in 1 .. l - 1, k \in Good PROVE k + 1 \in Good
    <3>1. k \in 1 .. l /\ k + 1 \in 1 .. l BY <1>1
    <3>2. path[k] \in black <=> path[k + 1] \notin black BY <1>1, <1>2, <3>1
    <3>3. k % 2 = 1 <=> ~((k + 1) % 2 = 1) BY <3>1
    <3>4. (path[k] \in black) <=> ((path[1] \in black) <=> k % 2 = 1) BY <2>2
    <3>5. (path[k + 1] \in black) <=> ((path[1] \in black) <=> (k + 1) % 2 = 1)
      BY <3>2, <3>3, <3>4
    <3> QED BY <3>1, <3>5
  <2>3. 1 \in Int /\ l \in Int BY <1>1
  <2>4. \A k \in 1 .. l - 1 : k \in Good => k + 1 \in Good BY <2>2
  <2> HIDE DEF Good
  <2> QED BY <2>1, <2>3, <2>4, AllBetween
<1>4. i \in Good /\ j \in Good BY <1>3 DEF l
<1>5. i % 2 = 1 <=> j % 2 = 1 BY <1>4
<1> QED BY <1>5

\* The length of a run of checks is at least n where the last n positions of that
\* side were in check.
LEMMA RunLength ==
  ASSUME NEW path, NEW run, path \in Seq(DOMAIN Succ), RunIs(path, run),
         NEW i \in 1 .. Len(path), NEW n \in Nat \ {0}, i - 2 * (n - 1) >= 1
  PROVE  n <= run[i + 1] <=> \A k \in 0 .. n - 1 : path[i - 2 * k] \in InCheck
<1> DEFINE l == Len(path)
           In(p) == p \in InCheck
           Good == {m \in Nat : \A j \in 1 .. l : j - 2 * m >= 1 =>
                      (m + 1 <= run[j + 1] <=> \A k \in 0 .. m : In(path[j - 2 * k]))}
<1>1. /\ l \in Nat /\ run \in Seq(Nat) /\ Len(run) = l + 1
      /\ \A j \in 1 .. l : run[j + 1] = IF In(path[j])
                                          THEN IF j = 1 THEN 1 ELSE run[j - 1] + 1 ELSE 0
      /\ \A j \in 1 .. l + 1 : run[j] \in Nat
  BY DEF RunIs
<1> HIDE DEF l, In
<1>2. 0 \in Good
  <2> SUFFICES ASSUME NEW j \in 1 .. l
               PROVE  0 + 1 <= run[j + 1] <=> \A k \in 0 .. 0 : In(path[j - 2 * k])
    OBVIOUS
  <2>1. (\A k \in 0 .. 0 : In(path[j - 2 * k])) <=> In(path[j])
    <3>1. \A k \in 0 .. 0 : k = 0 /\ j - 2 * k = j OBVIOUS
    <3>2. 0 \in 0 .. 0 OBVIOUS
    <3> QED BY <3>1, <3>2
  <2>2. j # 1 => run[j - 1] \in Nat
    <3>1. j # 1 => j - 1 \in 1 .. l + 1 BY <1>1
    <3> QED BY <1>1, <3>1
  <2>3. 1 <= run[j + 1] <=> In(path[j]) BY <1>1, <2>2
  <2> QED BY <2>1, <2>3
<1>3. ASSUME NEW m \in Nat, m \in Good PROVE m + 1 \in Good
  <2> SUFFICES ASSUME NEW j \in 1 .. l, j - 2 * (m + 1) >= 1
               PROVE  (m + 1) + 1 <= run[j + 1] <=> \A k \in 0 .. m + 1 : In(path[j - 2 * k])
    OBVIOUS
  <2>1. /\ j - 2 \in 1 .. l /\ (j - 2) - 2 * m >= 1 /\ j # 1 /\ (j - 2) + 1 = j - 1
        /\ j - 1 \in 1 .. l + 1
    BY <1>1
  <2>2. m + 1 <= run[j - 1] <=> \A k \in 0 .. m : In(path[(j - 2) - 2 * k]) BY <1>3, <2>1
  <2>3. (m + 1) + 1 <= run[j + 1] <=> In(path[j]) /\ m + 1 <= run[j - 1]
    <3>1. run[j + 1] = IF In(path[j]) THEN run[j - 1] + 1 ELSE 0 BY <1>1, <2>1
    <3>2. run[j - 1] \in Nat BY <1>1, <2>1
    <3> QED BY <3>1, <3>2
  <2>4. (\A k \in 0 .. m + 1 : In(path[j - 2 * k]))
          <=> In(path[j]) /\ \A k \in 0 .. m : In(path[(j - 2) - 2 * k])
    <3>1. ASSUME \A k \in 0 .. m + 1 : In(path[j - 2 * k])
          PROVE  In(path[j]) /\ \A k \in 0 .. m : In(path[(j - 2) - 2 * k])
      <4>1. 0 \in 0 .. m + 1 /\ j - 2 * 0 = j OBVIOUS
      <4>2. In(path[j]) BY <3>1, <4>1
      <4>3. ASSUME NEW k \in 0 .. m PROVE In(path[(j - 2) - 2 * k])
        <5>1. k + 1 \in 0 .. m + 1 /\ j - 2 * (k + 1) = (j - 2) - 2 * k OBVIOUS
        <5>2. In(path[j - 2 * (k + 1)]) BY <3>1, <5>1
        <5> QED BY <5>1, <5>2
      <4> QED BY <4>2, <4>3
    <3>2. ASSUME In(path[j]) /\ \A k \in 0 .. m : In(path[(j - 2) - 2 * k]),
                 NEW k \in 0 .. m + 1
          PROVE  In(path[j - 2 * k])
      <4>1. CASE k = 0
        <5>1. j - 2 * k = j BY <4>1
        <5> QED BY <3>2, <5>1
      <4>2. CASE k # 0
        <5>1. k - 1 \in 0 .. m /\ (j - 2) - 2 * (k - 1) = j - 2 * k BY <4>2
        <5>2. In(path[(j - 2) - 2 * (k - 1)]) BY <3>2, <5>1
        <5> QED BY <5>1, <5>2
      <4> QED BY <4>1, <4>2
    <3> QED BY <3>1, <3>2
  <2> QED BY <2>2, <2>3, <2>4
<1>4. Nat \subseteq Good
  <2> HIDE DEF Good
  <2> QED BY <1>2, <1>3, AllNumbers
<1>5. n - 1 \in Nat /\ (n - 1) + 1 = n OBVIOUS
<1>6. n - 1 \in Good BY <1>4, <1>5
<1>7. \A j \in 1 .. l : j - 2 * (n - 1) >= 1 =>
        ((n - 1) + 1 <= run[j + 1] <=> \A k \in 0 .. n - 1 : In(path[j - 2 * k]))
  BY <1>6
<1> HIDE DEF Good
<1>8. i \in 1 .. l BY DEF l
<1>9. n <= run[i + 1] <=> \A k \in 0 .. n - 1 : In(path[i - 2 * k]) BY <1>5, <1>7, <1>8
<1> QED BY <1>9 DEF In

\* A set of at least three numbers has three last ones.
LEMMA ThreeLast ==
  ASSUME NEW b \in Int, NEW S \in SUBSET Int, IsFiniteSet(S), \A n \in S : n <= b,
         Cardinality(S) >= 3
  PROVE  \E x, y, z \in S : x < y /\ y < z /\ \A n \in S : n \in {x, y, z} \/ n < x
<1>0. Cardinality(S) \in Nat BY FS_CardinalityType
<1>1. S # {} BY <1>0, FS_EmptySet
<1>2. PICK z \in S : \A n \in S : n <= z BY <1>1, GreatestMember
<1> DEFINE S1 == S \ {z}
<1>3. IsFiniteSet(S1) /\ Cardinality(S1) = Cardinality(S) - 1 BY FS_RemoveElement
<1>4. S1 \in SUBSET Int /\ \A n \in S1 : n <= b OBVIOUS
<1>5. S1 # {} BY <1>0, <1>3, FS_EmptySet
<1>6. PICK y \in S1 : \A n \in S1 : n <= y
  <2> HIDE DEF S1
  <2> QED BY <1>4, <1>5, GreatestMember
<1> DEFINE S2 == S1 \ {y}
<1>7. IsFiniteSet(S2) /\ Cardinality(S2) = Cardinality(S1) - 1
  <2> HIDE DEF S1
  <2> QED BY <1>3, <1>6, FS_RemoveElement
<1>8. S2 \in SUBSET Int /\ \A n \in S2 : n <= b OBVIOUS
<1>9. S2 # {} BY <1>0, <1>3, <1>7, FS_EmptySet
<1>10. PICK x \in S2 : \A n \in S2 : n <= x
  <2> HIDE DEF S2
  <2> QED BY <1>8, <1>9, GreatestMember
<1>11. x \in S /\ y \in S /\ z \in S /\ x < y /\ y < z BY <1>2, <1>6, <1>10
<1>12. ASSUME NEW n \in S PROVE n \in {x, y, z} \/ n < x
  <2> SUFFICES ASSUME n \notin {x, y, z} PROVE n < x OBVIOUS
  <2>1. n \in S2 OBVIOUS
  <2>2. n <= x /\ n # x BY <1>10, <2>1
  <2> QED BY <2>2
<1> QED BY <1>11, <1>12

\* What comes before the last position of a line.
LEMMA BeforeLast ==
  ASSUME NEW path, LineIs(path)
  PROVE  /\ DOMAIN Shogi!Front(path) = 1 .. Len(path) - 1
         /\ Len(Shogi!Front(path)) = Len(path) - 1
         /\ \A i \in 1 .. Len(path) - 1 : Shogi!Front(path)[i] = path[i]
         /\ Len(path) \in Nat \ {0} /\ Shogi!Last(path) = path[Len(path)]
<1>1. path \in Seq(DOMAIN Succ) /\ Len(path) \in Nat \ {0} BY DEF LineIs
<1> DEFINE n == Len(path) - 1
<1>2. Shogi!Front(path) = SubSeq(path, 1, n) BY DEF Shogi!Front
<1>3. n \in 0 .. Len(path) BY <1>1
<1>4. /\ SubSeq(path, 1, n) \in Seq(DOMAIN Succ) /\ Len(SubSeq(path, 1, n)) = n
      /\ \A i \in 1 .. n : SubSeq(path, 1, n)[i] = path[i]
  <2>1. \A i \in 1 .. n : path[i] \in DOMAIN Succ BY <1>1, <1>3
  <2> HIDE DEF n
  <2> QED BY <1>1, <1>3, <2>1, SubSeqProperties
<1> HIDE DEF n
<1>5. DOMAIN SubSeq(path, 1, n) = 1 .. n BY <1>4
<1> QED BY <1>1, <1>2, <1>4, <1>5 DEF Shogi!Last, n

\* The engine's occurrences of the last position are the node's.
LEMMA OccurrencesAre ==
  ASSUME NEW path, LineIs(path)
  PROVE  Shogi!Engine!Occurrences(Shogi!Front(path), Shogi!Last(path)) = Shogi!Earlier(path)
<1> DEFINE l == Len(path)
           h == Shogi!Front(path)
           q == Shogi!Last(path)
<1>1. /\ DOMAIN h = 1 .. l - 1 /\ l \in Nat \ {0} /\ q = path[l]
      /\ \A i \in 1 .. l - 1 : h[i] = path[i]
  BY BeforeLast
<1>2. ASSUME NEW i \in 1 .. l - 1, path[i] = path[l] PROVE i \in 1 .. l - 2 /\ (l - i) % 2 = 0
  <2>1. i \in 1 .. l /\ l \in 1 .. l BY <1>1
  <2>2. (l - i) % 2 = 0 BY <1>2, <2>1, SidesAlternate
  <2>3. i # l - 1
    <3>1. i = l - 1 => l - i = 1 BY <1>1
    <3>2. 1 % 2 = 1 OBVIOUS
    <3> QED BY <2>2, <3>1, <3>2
  <2> HIDE DEF l
  <2> QED BY <1>1, <2>2, <2>3
<1>3. Shogi!Engine!Occurrences(h, q) = {i \in DOMAIN h : h[i] = q}
  BY DEF Shogi!Engine!Occurrences
<1>4. Shogi!Earlier(path) = {i \in 1 .. l - 2 : (l - i) % 2 = 0 /\ path[i] = path[l]}
  BY DEF Shogi!Earlier
<1>5. 1 .. l - 2 \subseteq 1 .. l - 1 BY <1>1
<1> HIDE DEF h, q, l
<1>6. Shogi!Engine!Occurrences(h, q) = Shogi!Earlier(path) BY <1>1, <1>2, <1>3, <1>4, <1>5
<1> QED BY <1>6 DEF h, q

\* Its last three, and the third from the end.
LEMMA RecentAre ==
  ASSUME NEW path, LineIs(path)
  PROVE  LET R == Shogi!Engine!Recent(Shogi!Front(path), Shogi!Last(path))
             E == Shogi!Earlier(path)
         IN /\ Cardinality(E) < 3 => R = E
            /\ Cardinality(E) >= 3 =>
                 /\ Cardinality(R) = 3 /\ Shogi!Third(path) \in E
                 /\ Shogi!Engine!Min(R) = Shogi!Third(path)
<1> DEFINE R == Shogi!Engine!Recent(Shogi!Front(path), Shogi!Last(path))
           E == Shogi!Earlier(path)
<1>1. path \in Seq(DOMAIN Succ) BY DEF LineIs
<1>2. E \subseteq 1 .. Len(path) /\ IsFiniteSet(E) /\ Cardinality(E) \in Nat
  BY <1>1, EarlierIsFinite
<1>3. Shogi!Engine!Occurrences(Shogi!Front(path), Shogi!Last(path)) = E BY OccurrencesAre
<1>4. R = {i \in E : Cardinality({j \in E : j > i}) < 3}
  <2>1. \A i : Shogi!Engine!Cardinality({j \in E : j > i}) = Cardinality({j \in E : j > i})
    BY SameCardinality
  <2> HIDE DEF E
  <2> QED BY <1>3, <2>1 DEF Shogi!Engine!Recent
<1>5. Shogi!Third(path) = CHOOSE i \in E : Cardinality({j \in E : j > i}) = 2
  <2>1. \A i : Shogi!Cardinality({j \in E : j > i}) = Cardinality({j \in E : j > i})
    BY SameCardinality
  <2>2. Shogi!Third(path) = CHOOSE i \in E : Shogi!Cardinality({j \in E : j > i}) = 2
    BY DEF Shogi!Third
  <2> HIDE DEF E
  <2> QED BY <2>1, <2>2
<1> HIDE DEF R, E
<1>6. ASSUME NEW D \in SUBSET E
      PROVE  IsFiniteSet(D) /\ Cardinality(D) \in Nat /\ Cardinality(D) <= Cardinality(E)
  BY <1>2, FS_Subset, FS_CardinalityType
<1>7. ASSUME Cardinality(E) < 3 PROVE R = E
  <2>1. ASSUME NEW i \in E PROVE Cardinality({j \in E : j > i}) < 3
    <3>1. {j \in E : j > i} \in SUBSET E OBVIOUS
    <3>2. /\ Cardinality({j \in E : j > i}) \in Nat
          /\ Cardinality({j \in E : j > i}) <= Cardinality(E)
      BY <3>1, <1>6
    <3> QED BY <1>2, <1>7, <3>2
  <2> QED BY <1>4, <2>1
<1>8. ASSUME Cardinality(E) >= 3
      PROVE  /\ Cardinality(R) = 3 /\ Shogi!Third(path) \in E
             /\ Shogi!Engine!Min(R) = Shogi!Third(path)
  <2>1. E \in SUBSET Int /\ Len(path) \in Int /\ \A n \in E : n <= Len(path) BY <1>1, <1>2
  <2>2. PICK x, y, z \in E : x < y /\ y < z /\ \A n \in E : n \in {x, y, z} \/ n < x
    BY <1>2, <1>8, <2>1, ThreeLast
  <2>3. x \in Int /\ y \in Int /\ z \in Int BY <2>1
  <2>4. Cardinality({}) = 0 /\ Cardinality({z}) = 1 /\ Cardinality({y, z}) = 2
        /\ Cardinality({x, y, z}) = 3
    <3>1. IsFiniteSet({}) /\ Cardinality({}) = 0 BY FS_EmptySet
    <3>2. IsFiniteSet({z}) /\ Cardinality({z}) = 1 BY FS_Singleton
    <3>3. y \notin {z} /\ {z} \union {y} = {y, z} BY <2>2, <2>3
    <3>4. IsFiniteSet({y, z}) /\ Cardinality({y, z}) = 2
      <4>1. IsFiniteSet({z} \union {y}) /\ Cardinality({z} \union {y}) = Cardinality({z}) + 1
        BY <3>2, <3>3, FS_AddElement
      <4> QED BY <3>2, <3>3, <4>1
    <3>5. x \notin {y, z} /\ {y, z} \union {x} = {x, y, z} BY <2>2, <2>3
    <3>6. Cardinality({x, y, z}) = 3
      <4>1. Cardinality({y, z} \union {x}) = Cardinality({y, z}) + 1
        BY <3>4, <3>5, FS_AddElement
      <4> QED BY <3>4, <3>5, <4>1
    <3> QED BY <3>1, <3>2, <3>4, <3>6
  <2>5. /\ {j \in E : j > z} = {} /\ {j \in E : j > y} = {z} /\ {j \in E : j > x} = {y, z}
    <3>1. \A j \in E : j \in Int /\ (j > z => FALSE) /\ (j > y <=> j = z)
                       /\ (j > x <=> j \in {y, z})
      BY <2>1, <2>2, <2>3
    <3> QED BY <3>1, <2>2
  <2>6. ASSUME NEW i \in E, i \notin {x, y, z}
        PROVE  /\ ~(Cardinality({j \in E : j > i}) < 3)
               /\ Cardinality({j \in E : j > i}) # 2
    <3> DEFINE D == {j \in E : j > i}
    <3>1. i < x /\ i \in Int BY <2>1, <2>2, <2>6
    <3>2. {x, y, z} \subseteq D BY <2>2, <2>3, <3>1
    <3>3. D \in SUBSET E OBVIOUS
    <3> HIDE DEF D
    <3>4. IsFiniteSet(D) /\ Cardinality(D) \in Nat BY <1>6, <3>3
    <3>5. Cardinality({x, y, z}) <= Cardinality(D) BY <3>2, <3>4, FS_Subset
    <3>6. ~(Cardinality(D) < 3) /\ Cardinality(D) # 2 BY <2>4, <3>4, <3>5
    <3> QED BY <3>6 DEF D
  <2>7. R = {x, y, z}
    <3>1. \A i \in {x, y, z} : i \in E /\ Cardinality({j \in E : j > i}) < 3
      BY <2>2, <2>4, <2>5
    <3> QED BY <1>4, <2>6, <3>1
  <2>8. Shogi!Third(path) = x
    <3>1. \A i \in E : Cardinality({j \in E : j > i}) = 2 <=> i = x
      <4> SUFFICES ASSUME NEW i \in E PROVE Cardinality({j \in E : j > i}) = 2 <=> i = x
        OBVIOUS
      <4>1. CASE i \notin {x, y, z}
        <5>1. i # x BY <4>1
        <5> QED BY <2>6, <4>1, <5>1
      <4>2. CASE i = x BY <2>4, <2>5, <4>2
      <4>3. CASE i = y
        <5>1. i # x BY <2>2, <2>3, <4>3
        <5> QED BY <2>4, <2>5, <4>3, <5>1
      <4>4. CASE i = z
        <5>1. i # x BY <2>2, <2>3, <4>4
        <5> QED BY <2>4, <2>5, <4>4, <5>1
      <4> QED BY <4>1, <4>2, <4>3, <4>4
    <3> DEFINE c == CHOOSE i \in E : Cardinality({j \in E : j > i}) = 2
    <3>2. c \in E /\ Cardinality({j \in E : j > c}) = 2
      <4>1. \E i \in E : Cardinality({j \in E : j > i}) = 2 BY <2>2, <3>1
      <4> QED BY <4>1
    <3> HIDE DEF c
    <3>3. c = x BY <3>1, <3>2
    <3> QED BY <1>5, <3>3 DEF c
  <2>9. Shogi!Engine!Min(R) = x
    <3> DEFINE c == CHOOSE i \in R : \A j \in R : i <= j
    <3>1. x \in R /\ \A j \in R : x <= j BY <2>2, <2>3, <2>7
    <3>2. c \in R /\ \A j \in R : c <= j
      <4>1. \E i \in R : \A j \in R : i <= j BY <3>1
      <4> QED BY <4>1
    <3>3. c = Shogi!Engine!Min(R) BY DEF Shogi!Engine!Min
    <3> HIDE DEF c
    <3>4. c \in Int BY <2>3, <2>7, <3>2
    <3>5. c <= x /\ x <= c BY <3>1, <3>2
    <3>6. c = x BY <2>3, <3>4, <3>5
    <3> QED BY <3>3, <3>6
  <2> QED BY <2>2, <2>4, <2>7, <2>8, <2>9
<1> QED BY <1>7, <1>8 DEF R, E

\* The engine finds the repetition forced where Node's run of checks goes back to the
\* repeated position: the mover's if he is in check, else the other side's.
LEMMA ForcedIs ==
  ASSUME NEW path, LineIs(path), NEW run, RunIs(path, run),
         Cardinality(Shogi!Earlier(path)) >= 3
  PROVE  /\ Shogi!NMove(path) \in Nat \ {0} /\ Len(path) >= 2
         /\ run[Len(path) + 1] \in Nat /\ run[Len(path)] \in Nat
         /\ Shogi!Engine!Forced(Shogi!Front(path), Shogi!Last(path)) <=>
              IF path[Len(path)] \in InCheck THEN Shogi!NMove(path) <= run[Len(path) + 1]
                                             ELSE Shogi!NMove(path) <= run[Len(path)]
         /\ path[Len(path)] \notin InCheck => run[Len(path) + 1] = 0
<1> DEFINE l == Len(path)
           h == Shogi!Front(path)
           q == Shogi!Last(path)
           x == Shogi!Third(path)
           n == Shogi!NMove(path)
           In(p) == p \in InCheck
<1>1. /\ Len(h) = l - 1 /\ l \in Nat \ {0} /\ q = path[l]
      /\ \A i \in 1 .. l - 1 : h[i] = path[i]
  BY BeforeLast
<1>2. path \in Seq(DOMAIN Succ) BY DEF LineIs
<1>3. /\ x \in Shogi!Earlier(path)
      /\ Shogi!Engine!Min(Shogi!Engine!Recent(h, q)) = x
  BY RecentAre
<1>4. x \in 1 .. l - 2 /\ (l - x) % 2 = 0 /\ path[x] = path[l]
  BY <1>3 DEF Shogi!Earlier
<1>5. n = (l - x) \div 2 BY DEF Shogi!NMove
<1> DEFINE forced == Shogi!Engine!Forced(h, q)
<1>6. forced <=> LET top == IF In(q) THEN Len(h) - 1 ELSE Len(h)
                 IN \A j \in x .. top : (top - j) % 2 = 0 => In(h[j])
  BY <1>3 DEF Shogi!Engine!Forced
<1>0. /\ run \in Seq(Nat) /\ Len(run) = Len(path) + 1
      /\ \A i \in 1 .. Len(path) :
           run[i + 1] = IF path[i] \in InCheck THEN IF i = 1 THEN 1 ELSE run[i - 1] + 1 ELSE 0
  BY DEF RunIs
<1>7. /\ RunIs(path, run)
      /\ run[l + 1] \in Nat /\ run[l] \in Nat
      /\ ~In(path[l]) => run[l + 1] = 0
  <2>1. l \in 1 .. l + 1 /\ l + 1 \in 1 .. l + 1 /\ l \in 1 .. l BY <1>1
  <2>2. \A i \in 1 .. l + 1 : run[i] \in Nat BY <1>0
  <2>3. ~In(path[l]) => run[l + 1] = 0 BY <1>0, <2>1
  <2> QED BY <2>1, <2>2, <2>3
<1> HIDE DEF l, h, q, x, n, In, forced
<1>8. l = x + 2 * n /\ n \in Nat \ {0} /\ l >= 2 BY <1>1, <1>4, <1>5
<1>9. CASE In(q)
  <2>1. forced <=> \A j \in x .. l - 2 : (l - 2 - j) % 2 = 0 => In(path[j])
    <3>1. Len(h) - 1 = l - 2 BY <1>1
    <3>2. \A j \in x .. l - 2 : h[j] = path[j] BY <1>1, <1>4
    <3> QED BY <1>6, <1>9, <3>1, <3>2
  <2>2. n <= run[l + 1] <=> \A k \in 0 .. n - 1 : In(path[l - 2 * k])
    <3>1. l \in 1 .. l /\ l - 2 * (n - 1) >= 1
      <4>1. l \in Nat /\ x \in Nat \ {0} BY <1>1, <1>4
      <4>2. l - 2 * (n - 1) = x + 2 BY <1>8, <4>1
      <4> QED BY <1>8, <4>1, <4>2
    <3> QED BY <1>2, <1>7, <1>8, <3>1, RunLength DEF l, In
  <2>3. ASSUME \A j \in x .. l - 2 : (l - 2 - j) % 2 = 0 => In(path[j]), NEW k \in 0 .. n - 1
        PROVE  In(path[l - 2 * k])
    <3>1. CASE k = 0
      <4>1. l - 2 * k = l BY <1>1, <3>1
      <4> QED BY <1>1, <1>9, <4>1
    <3>2. CASE k # 0
      <4>1. l - 2 * k \in x .. l - 2 BY <1>1, <1>4, <1>8, <3>2
      <4>2. (l - 2 - (l - 2 * k)) % 2 = 0 BY <1>1, <1>8
      <4> QED BY <2>3, <4>1, <4>2
    <3> QED BY <3>1, <3>2
  <2>4. ASSUME \A k \in 0 .. n - 1 : In(path[l - 2 * k]),
               NEW j \in x .. l - 2, (l - 2 - j) % 2 = 0
        PROVE  In(path[j])
    <3>1. CASE j = x BY <1>1, <1>4, <1>9, <3>1
    <3>2. CASE j # x
      <4>0. (l - 2 - j) \div 2 \in Nat /\ l - 2 - j = 2 * ((l - 2 - j) \div 2)
        BY <1>1, <1>4, <2>4
      <4>1. PICK k \in Nat : l - 2 - j = 2 * k BY <4>0
      <4>2. k + 1 \in 0 .. n - 1 /\ l - 2 * (k + 1) = j BY <1>1, <1>4, <1>8, <3>2, <4>1
      <4> QED BY <2>4, <4>2
    <3> QED BY <3>1, <3>2
  <2>5. forced <=> n <= run[l + 1] BY <2>1, <2>2, <2>3, <2>4
  <2>6. In(path[l]) BY <1>1, <1>9
  <2> QED BY <1>7, <1>8, <2>5, <2>6 DEF forced, h, q, l, n, In
<1>10. CASE ~In(q)
  <2>1. forced <=> \A j \in x .. l - 1 : (l - 1 - j) % 2 = 0 => In(path[j])
    <3>1. \A j \in x .. l - 1 : h[j] = path[j] BY <1>1, <1>4
    <3> QED BY <1>1, <1>6, <1>10, <3>1
  <2>2. n <= run[l] <=> \A k \in 0 .. n - 1 : In(path[(l - 1) - 2 * k])
    <3>1. l - 1 \in 1 .. l /\ (l - 1) - 2 * (n - 1) >= 1 /\ (l - 1) + 1 = l
      <4>1. l \in Nat /\ x \in Nat \ {0} BY <1>1, <1>4
      <4>2. (l - 1) - 2 * (n - 1) = x + 1 BY <1>8, <4>1
      <4> QED BY <1>8, <4>1, <4>2
    <3>2. n <= run[(l - 1) + 1] <=> \A k \in 0 .. n - 1 : path[(l - 1) - 2 * k] \in InCheck
      BY <1>2, <1>7, <1>8, <3>1, RunLength DEF l
    <3> QED BY <3>1, <3>2 DEF In
  <2>3. ASSUME \A j \in x .. l - 1 : (l - 1 - j) % 2 = 0 => In(path[j]), NEW k \in 0 .. n - 1
        PROVE  In(path[(l - 1) - 2 * k])
    <3>1. (l - 1) - 2 * k \in x .. l - 1 BY <1>1, <1>4, <1>8
    <3>2. (l - 1 - ((l - 1) - 2 * k)) % 2 = 0 BY <1>1, <1>8
    <3> QED BY <2>3, <3>1, <3>2
  <2>4. ASSUME \A k \in 0 .. n - 1 : In(path[(l - 1) - 2 * k]),
               NEW j \in x .. l - 1, (l - 1 - j) % 2 = 0
        PROVE  In(path[j])
    <3>0. (l - 1 - j) \div 2 \in Nat /\ l - 1 - j = 2 * ((l - 1 - j) \div 2)
      BY <1>1, <1>4, <2>4
    <3>1. PICK k \in Nat : l - 1 - j = 2 * k BY <3>0
    <3>2. k \in 0 .. n - 1 /\ (l - 1) - 2 * k = j BY <1>1, <1>4, <1>8, <3>1
    <3> QED BY <2>4, <3>2
  <2>5. forced <=> n <= run[l] BY <2>1, <2>2, <2>3, <2>4
  <2>6. ~In(path[l]) /\ run[l + 1] = 0 BY <1>1, <1>7, <1>10
  <2> QED BY <1>7, <1>8, <2>5, <2>6 DEF forced, h, q, l, n, In
<1> QED BY <1>9, <1>10

\* What the engine takes the repetition for, by what Node does.
LEMMA EngineSees ==
  ASSUME NEW nd, NodeOk(nd)
  PROVE  LET q == Shogi!Last(nd.path)
             sees == Shogi!Engine!Repetition(Shogi!Front(nd.path), q)
         IN CASE nd.type = Shogi!IllegalWin(Shogi!Turn(nd))            -> sees = "illegal"
              [] nd.type = Shogi!IllegalWin(Shogi!Opp(Shogi!Turn(nd))) ->
                   sees = IF q \in InCheck THEN "draw" ELSE "win"
              [] nd.type = "repeated" -> sees = "draw"
              [] OTHER -> \/ sees = "none"
                          \/ sees = "illegal" /\ Shogi!Cardinality(Shogi!Earlier(nd.path)) = 2
<1> DEFINE path == nd.path
           run == nd.run
           l == Len(path)
           q == Shogi!Last(path)
           h == Shogi!Front(path)
           sees == Shogi!Engine!Repetition(h, q)
           R == Shogi!Engine!Recent(h, q)
           E == Shogi!Earlier(path)
           sum == Cardinality(R)
           forced == Shogi!Engine!Forced(h, q)
           turn == Shogi!Turn(nd)
           ill == Shogi!IllegalWin(turn)
           lost == Shogi!IllegalWin(Shogi!Opp(turn))
           v == Shogi!Verdict(path, run)
<1>1. /\ LineIs(path) /\ RunIs(path, run) /\ path \in Seq(DOMAIN Succ)
      /\ nd.type = v \/ (nd.type \in {"maxlen_term", "resigned", "windclrd"} /\ v = "interior")
  BY DEF NodeOk, LineIs
<1>2. turn = (IF l % 2 = 1 THEN "black" ELSE "white") BY DEF Shogi!Turn
<1>3. /\ ill \in {"illegal_bwin", "illegal_wwin"} /\ lost \in {"illegal_bwin", "illegal_wwin"}
      /\ ill # lost
  BY <1>2 DEF Shogi!IllegalWin, Shogi!Opp
<1>4. Cardinality(E) \in Nat /\ Shogi!Cardinality(E) = Cardinality(E)
  BY <1>1, EarlierIsFinite
<1>5. sees = IF sum < 2 THEN "none"
             ELSE IF q \in InCheck /\ forced THEN "illegal"
             ELSE IF sum < 3 THEN "none"
             ELSE IF forced THEN "win" ELSE "draw"
  <2>1. Shogi!Engine!Cardinality(R) = sum BY SameCardinality
  <2>2. sees = IF Shogi!Engine!Cardinality(R) < 3 - 1 THEN "none"
               ELSE IF q \in InCheck /\ forced THEN "illegal"
               ELSE IF Shogi!Engine!Cardinality(R) < 3 THEN "none"
               ELSE IF forced THEN "win" ELSE "draw"
    BY DEF Shogi!Engine!Repetition
  <2>3. 3 - 1 = 2 OBVIOUS
  <2> HIDE DEF R, sum, sees, forced, q
  <2> QED BY <2>1, <2>2, <2>3
<1>6. /\ Cardinality(E) < 3 => R = E
      /\ Cardinality(E) >= 3 => sum = 3
  BY <1>1, RecentAre
<1>7. q = path[l] BY <1>1, BeforeLast
<1> DEFINE says == CASE nd.type = ill -> sees = "illegal"
                     [] nd.type = lost -> sees = IF q \in InCheck THEN "draw" ELSE "win"
                     [] nd.type = "repeated" -> sees = "draw"
                     [] OTHER -> \/ sees = "none"
                                 \/ sees = "illegal" /\ Shogi!Cardinality(E) = 2
<1>8. CASE Cardinality(E) < 3
  <2>1. v = "interior" BY <1>1, <1>8, VerdictIs
  <2>2. nd.type \notin {"illegal_bwin", "illegal_wwin", "repeated"} BY <1>1, <2>1
  <2>3. nd.type # ill /\ nd.type # lost /\ nd.type # "repeated" BY <1>3, <2>2
  <2>4. sum = Cardinality(E) BY <1>6, <1>8
  <2> HIDE DEF sees, ill, lost, E, sum, q, forced
  <2>5. sees = "none" \/ (sees = "illegal" /\ Cardinality(E) = 2) BY <1>4, <1>5, <1>8, <2>4
  <2>6. says BY <1>4, <2>3, <2>5
  <2> QED BY <2>6, Zenon DEF says, sees, ill, lost, E, q
<1>9. CASE Cardinality(E) >= 3
  <2> DEFINE n == Shogi!NMove(path)
             a == run[l + 1]
             b == run[l]
  <2>1. /\ n \in Nat \ {0} /\ a \in Nat /\ b \in Nat
        /\ forced <=> IF path[l] \in InCheck THEN n <= a ELSE n <= b
        /\ path[l] \notin InCheck => a = 0
    BY <1>1, <1>9, ForcedIs
  <2>2. v = IF n <= a THEN ill ELSE IF n <= b THEN lost ELSE "repeated"
    <3>1. n \in Int BY <2>1
    <3>2. \A m \in Int, i, j \in Nat :
            m = Shogi!NMove(path) /\ i = run[Len(path) + 1] /\ j = run[Len(path)]
            => v = LET next == IF Len(path) % 2 = 1 THEN "black" ELSE "white"
                   IN IF m <= i THEN Shogi!IllegalWin(next)
                      ELSE IF m <= j THEN Shogi!IllegalWin(Shogi!Opp(next))
                      ELSE "repeated"
      BY <1>1, <1>9, VerdictIs
    <3> DEFINE c == IF Len(path) % 2 = 1 THEN "black" ELSE "white"
    <3>3. v = IF n <= a THEN Shogi!IllegalWin(c)
              ELSE IF n <= b THEN Shogi!IllegalWin(Shogi!Opp(c)) ELSE "repeated"
      BY <2>1, <3>1, <3>2
    <3>4. c = turn BY <1>2
    <3> HIDE DEF c, turn, v, n, a, b
    <3> QED BY <3>3, <3>4
  <2>3. sum = 3 BY <1>6, <1>9
  <2> HIDE DEF sees, ill, lost, E, sum, q, forced, v, n, a, b, path, run
  <2>4. nd.type = v BY <1>1, <1>3, <2>2
  <2>5. sees = IF q \in InCheck /\ forced THEN "illegal" ELSE IF forced THEN "win" ELSE "draw"
    BY <1>5, <2>3
  <2>6. CASE q \in InCheck
    <3>1. forced <=> n <= a BY <1>7, <2>1, <2>6
    <3> QED
      <4>1. says BY <1>3, <2>2, <2>4, <2>5, <2>6, <3>1
      <4> QED BY <4>1, Zenon DEF says, sees, ill, lost, E, q, path
  <2>7. CASE q \notin InCheck
    <3>1. (forced <=> n <= b) /\ ~(n <= a) BY <1>7, <2>1, <2>7
    <3> QED
      <4>1. says BY <1>3, <2>2, <2>4, <2>5, <2>7, <3>1
      <4> QED BY <4>1, Zenon DEF says, sees, ill, lost, E, q, path
  <2> QED BY <2>6, <2>7
<1> QED BY <1>4, <1>8, <1>9

\* The engine (ysszero.cpp, uct_tree) and Node (shogibase.cpp, take_action) see the
\* same in every repetition of a position but for the two exceptions, whatever the
\* positions, the checks and the length of the game.
THEOREM EngineAgreesWithNode == Shogi!Spec => []EngineAgrees
<1>1. GameInv => EngineAgrees
  <2> SUFFICES ASSUME GameInv PROVE Shogi!EngineAgrees
    BY DEF EngineAgrees
  <2>1. NodeOk(node) BY DEF GameInv
  <2> QED BY <2>1, EngineSees, Zenon DEF Shogi!EngineAgrees
<1> QED BY <1>1, GameInvariance, PTL
=============================================================================
