----------------------------- MODULE WghtFetch -----------------------------
(***************************************************************************)
(* How a player gets the newest weight: Client::start(), reader() and      *)
(* get_new_wght() of src/autousi/client.cpp, with what the server answers  *)
(* (SendInfo and SendWght of src/server/listen.cpp, WghtKeep).             *)
(*                                                                         *)
(* A weight comes in blocks.  The client writes each into a file of its    *)
(* own, tmp<i>.bi_, next to info.txt, which holds the number of the weight *)
(* the blocks are of.  When all are there it writes them into tmp.bi_,     *)
(* renames that to w<no>.txt.xz and removes the blocks.  A download that   *)
(* broke off, because of the connection or because the process ended, is   *)
(* resumed: blocks whose files exist are not asked for again.              *)
(*                                                                         *)
(* Each write and each removal of a file is a step, so that the process    *)
(* can end between any two of them.                                        *)
(***************************************************************************)
EXTENDS Integers, FiniteSets

CONSTANTS
  MaxWght,     \* bound: the last weight
  NBlock,      \* the number of blocks of each weight
  MaxRetry,    \* MaxRetry of autousi.cfg
  KillTears,   \* the process may be killed amid the write of a block
  MaxKill,     \* bound: ends of the process
  MaxFail,     \* bound: connections refused, lost or timed out
  MaxRollback  \* bound: restarts of the server without its newest weights

Weights == 0 .. MaxWght

ASSUME WghtFetchAssumption ==
  /\ MaxWght \in Nat
  /\ NBlock \in [Weights -> Nat \ {0}]
  /\ MaxRetry \in Nat /\ MaxKill \in Nat /\ MaxFail \in Nat /\ MaxRollback \in Nat
  /\ KillTears \in BOOLEAN

None == -1
Garbage == -2   \* contents that are no weight

Blocks == UNION {0 .. NBlock[w] - 1 : w \in Weights}
Block == [w : Weights, whole : BOOLEAN]
NoBlock == [w |-> None, whole |-> FALSE]

VARIABLES
  newest,   \* the server's newest weight (WghtKeep::_pwght)
  pinned,   \* the weight of the connection (Peer::_wght), or None
  info,     \* the number that info.txt reads as; 0 if it cannot be read
  tmp,      \* the files tmp<i>.bi_
  gathered, \* what tmp.bi_ holds: a weight, Garbage or None
  file,     \* what each w<no>.txt.xz holds
  pc,       \* where the client is
  starting, \* in start(); the thread of reader() does not run yet
  wid,      \* _wght_id
  no,       \* no_wght
  flags,    \* the blocks that need not be asked for
  retries,  \* retry_count of start(), _retry_count of reader()
  kills, fails, rollbacks

client == <<pc, starting, wid, no, flags, retries>>
disk == <<info, tmp, gathered, file>>
bounds == <<kills, fails, rollbacks>>
vars == <<newest, pinned, disk, client, bounds>>

Init ==
  /\ newest = 0
  /\ pinned = None
  /\ info = 0
  /\ tmp = [b \in Blocks |-> NoBlock]
  /\ gathered = None
  /\ file = [w \in Weights |-> None]
  /\ pc = "Start" /\ starting = TRUE
  /\ wid = None /\ no = None /\ flags = {} /\ retries = 0
  /\ kills = 0 /\ fails = 0 /\ rollbacks = 0

\* grab_files(set_tmp, ...)
Tmps == {b \in Blocks : tmp[b] # NoBlock}
Files == {w \in Weights : file[w] # None}
Newest(S) == CHOOSE w \in S : \A v \in S : v <= w
First(S) == CHOOSE b \in S : \A c \in S : b <= c

\* What the blocks add up to.
Sum ==
  IF \E w \in Weights : Tmps = 0 .. NBlock[w] - 1 /\ \A b \in Tmps : tmp[b] = [w |-> w, whole |-> TRUE]
  THEN tmp[0].w ELSE Garbage

-----------------------------------------------------------------------------
(* The server.                                                             *)

\* get_new_wght() of WghtKeep finds a weight.
Publish ==
  /\ \E w \in Weights : newest < w /\ newest' = w
  /\ UNCHANGED <<pinned, disk, client, bounds>>

\* The server is stopped, weights are taken away, and it starts again.
Rollback ==
  /\ rollbacks < MaxRollback
  /\ \E w \in Weights : w < newest /\ newest' = w
  /\ pinned' = None
  /\ rollbacks' = rollbacks + 1
  /\ UNCHANGED <<disk, client, kills, fails>>

-----------------------------------------------------------------------------
(* The client.                                                             *)

\* start() looks for the newest file and decodes it; one that cannot be decoded ends
\* the process.
Start ==
  /\ pc = "Start"
  /\ IF Files = {} THEN pc' = "Ask" /\ wid' = None
     ELSE /\ wid' = Newest(Files)
          /\ pc' = IF file[Newest(Files)] = Garbage THEN "Dead" ELSE "Ask"
  /\ UNCHANGED <<newest, pinned, disk, starting, no, flags, retries, bounds>>

\* get_new_wght() is through: start() starts the threads, reader() waits to poll.
Through ==
  /\ pc' = "Idle"
  /\ starting' = FALSE
  /\ retries' = 0
  /\ pinned' = None

\* Mutation: an older weight of the server is taken for no news.
NoNewsOlder == newest <= wid

NoNews == newest = wid

\* Mutation: the client does not insist that weights get newer.
GoesBackNever == FALSE

GoesBack == newest < wid

\* Connect, ask for the newest weight, compare.  An older one than the client's ends
\* the process, and so does a block that the weight to resume has no room for.
Ask ==
  /\ pc = "Ask"
  /\ no' = newest
  /\ IF NoNews
     THEN Through /\ UNCHANGED flags
     ELSE /\ pinned' = newest
          /\ flags' = IF info = newest THEN Tmps ELSE {}
          /\ pc' = IF GoesBack THEN "Dead"
                   ELSE IF info # newest THEN "Clean"
                   ELSE IF \E b \in Tmps : NBlock[newest] <= b THEN "Dead" ELSE "Blocks"
          /\ UNCHANGED <<starting, retries>>
  /\ UNCHANGED <<newest, disk, wid, bounds>>

\* Mutation: old blocks are kept.
OldTmpsNone == {}

OldTmps == Tmps

\* Mutation: the number is written before the old blocks are gone.
CleanLast ==
  /\ pc = "Clean"
  /\ IF info # no THEN info' = no /\ UNCHANGED <<tmp, pc>>
     ELSE IF Tmps # {}
     THEN tmp' = [tmp EXCEPT ![First(Tmps)] = NoBlock] /\ UNCHANGED <<info, pc>>
     ELSE pc' = "Blocks" /\ UNCHANGED <<tmp, info>>
  /\ UNCHANGED <<newest, pinned, gathered, file, starting, wid, no, flags, retries, bounds>>

\* The blocks of another weight are removed one by one; then info.txt is opened, which
\* empties it.
Clean ==
  /\ pc = "Clean"
  /\ IF OldTmps # {}
     THEN tmp' = [tmp EXCEPT ![First(OldTmps)] = NoBlock] /\ UNCHANGED <<info, pc>>
     ELSE info' = 0 /\ pc' = "Info" /\ UNCHANGED tmp
  /\ UNCHANGED <<newest, pinned, gathered, file, starting, wid, no, flags, retries, bounds>>

\* The number is written.
Info ==
  /\ pc = "Info"
  /\ info' = no
  /\ pc' = "Blocks"
  /\ UNCHANGED <<newest, pinned, tmp, gathered, file, starting, wid, no, flags, retries, bounds>>

\* The blocks that have to be asked for.
Missing == (0 .. NBlock[no] - 1) \ flags

Sent == pinned

\* A block arrives, of the weight that the server pinned to the connection, and its
\* file is opened.
Receive ==
  /\ pc = "Blocks" /\ Missing # {}
  /\ pinned # None
  /\ tmp' = [tmp EXCEPT ![First(Missing)] = [w |-> Sent, whole |-> FALSE]]
  /\ pc' = "Write"
  /\ UNCHANGED <<newest, pinned, info, gathered, file, starting, wid, no, flags, retries, bounds>>

\* The file of the block is written.  The count of retries starts anew in reader(), and
\* does not in start(), which has a count of its own.
Write ==
  /\ pc = "Write"
  /\ tmp' = [tmp EXCEPT ![First(Missing)].whole = TRUE]
  /\ flags' = flags \cup {First(Missing)}
  /\ retries' = IF starting THEN retries ELSE 0
  /\ pc' = "Blocks"
  /\ UNCHANGED <<newest, pinned, info, gathered, file, starting, wid, no, bounds>>

\* All blocks are there.  They are written into tmp.bi_ in their order.
Gather ==
  /\ pc = "Blocks" /\ Missing = {}
  /\ IF Cardinality(Tmps) = NBlock[no]
     THEN gathered' = Sum /\ pc' = "Rename"
     ELSE pc' = "Dead" /\ UNCHANGED gathered
  /\ UNCHANGED <<newest, pinned, info, tmp, file, starting, wid, no, flags, retries, bounds>>

Rename ==
  /\ pc = "Rename"
  /\ file' = [file EXCEPT ![no] = gathered]
  /\ gathered' = None
  /\ pc' = "Remove"
  /\ UNCHANGED <<newest, pinned, info, tmp, starting, wid, no, flags, retries, bounds>>

\* The blocks are removed.  Then the weight is decoded.
Remove ==
  /\ pc = "Remove"
  /\ IF Tmps # {}
     THEN /\ tmp' = [tmp EXCEPT ![First(Tmps)] = NoBlock]
          /\ UNCHANGED <<pinned, pc, starting, wid, retries>>
     ELSE /\ wid' = no
          /\ IF file[no] = Garbage
             THEN pc' = "Dead" /\ UNCHANGED <<pinned, starting, retries>>
             ELSE Through
          /\ UNCHANGED tmp
  /\ UNCHANGED <<newest, info, gathered, file, no, flags, bounds>>

\* reader() polls.
Poll ==
  /\ pc = "Idle"
  /\ pc' = "Ask"
  /\ UNCHANGED <<newest, pinned, disk, starting, wid, no, flags, retries, bounds>>

GivesUp == MaxRetry < retries + 1

\* An exception of the connection, on either side or between: the client tries again
\* from the start, or gives up.
Retry ==
  /\ pc \in {"Ask", "Blocks"}
  /\ pc = "Blocks" => Missing # {}
  /\ pinned' = None
  /\ retries' = retries + 1
  /\ pc' = IF GivesUp THEN "Dead" ELSE "Ask"
  /\ UNCHANGED <<newest, disk, starting, wid, no, flags, kills, rollbacks>>

\* Nobody closed the connection that fails, or the server is not there.
Fail == fails < MaxFail /\ fails' = fails + 1 /\ Retry

\* The server went down, and the connection with it.
Lost == pc = "Blocks" /\ pinned = None /\ Retry /\ UNCHANGED fails

\* The process ends, wherever it is: a signal before the handler is set, die() in
\* another thread.  It is started again.
Kill ==
  /\ kills < MaxKill
  /\ pc = "Write" => KillTears
  /\ kills' = kills + 1
  /\ pc' = "Start" /\ starting' = TRUE
  /\ wid' = None /\ no' = None /\ flags' = {} /\ retries' = 0
  /\ pinned' = None
  /\ UNCHANGED <<newest, disk, fails, rollbacks>>

Step == Start \/ Ask \/ Clean \/ Info \/ Receive \/ Write \/ Gather \/ Rename \/ Remove \/ Poll \/ Lost

Next == Publish \/ Rollback \/ Step \/ Fail \/ Kill

Spec == Init /\ [][Next]_vars

\* The client's threads run, and its connections do not fail for ever.
FairSpec == Spec /\ WF_vars(Step)

-----------------------------------------------------------------------------
(* Properties.                                                             *)

\* Types of the variables.
TypeOK ==
  /\ newest \in Weights
  /\ pinned \in Weights \cup {None}
  /\ info \in Weights
  /\ tmp \in [Blocks -> Block \cup {NoBlock}]
  /\ gathered \in Weights \cup {None, Garbage}
  /\ file \in [Weights -> Weights \cup {None, Garbage}]
  /\ pc \in {"Start", "Ask", "Clean", "Info", "Blocks", "Write", "Rename", "Remove", "Idle", "Dead"}
  /\ starting \in BOOLEAN
  /\ wid \in Weights \cup {None}
  /\ no \in Weights \cup {None}
  /\ flags \subseteq Blocks
  /\ retries \in 0 .. MaxRetry + 1
  /\ kills \in 0 .. MaxKill /\ fails \in 0 .. MaxFail /\ rollbacks \in 0 .. MaxRollback

\* A file that is named after a weight holds that weight, or nothing a decoder takes
\* if a block was torn; and the blocks left on the disk, wherever the process ended,
\* are of the weight that info.txt names, though number and blocks are in different
\* files: no weight is ever put together of two.
FilesHoldTheirWeight ==
  /\ \A w \in Files : file[w] = w \/ (KillTears /\ file[w] = Garbage)
  /\ \A b \in Tmps : tmp[b].w = info /\ b < NBlock[info]

\* A resumed download ends in a whole weight: the client ends itself only because it
\* ran out of retries or because the server's weight is older than its own
\* (CHANGELOG.md:14 lists the resumption of a broken download as working).
ResumeWorks ==
  [][pc' = "Dead" /\ pc # "Dead" =>
       \/ pc \in {"Ask", "Blocks"} /\ retries = MaxRetry
       \/ pc = "Ask" /\ newest < wid]_vars

\* The weight in use is the newest one that was ever whole on the client's disk.
UsesNewestFile == pc = "Idle" => Files # {} /\ wid = Newest(Files)

\* The client has the weight that the server has in the end, whatever happened before,
\* unless it ended itself.
CatchesUp == <>[](pc = "Dead" \/ wid = newest)
=============================================================================
