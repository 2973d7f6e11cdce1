---------------------------- MODULE ClientProofs ----------------------------
(***************************************************************************)
(* What an autousi client and the server promise to each other.            *)
(*                                                                         *)
(* First the download of WghtFetch, for any weights, of any number of      *)
(* blocks each, and any number of broken connections, of ends of the       *)
(* process and of restarts of the server.  The argument: info.txt names    *)
(* the weight of the blocks beside it at every moment, since it is emptied *)
(* only when the last old block is gone and names the new weight before    *)
(* the first new block comes; a connection gives blocks of one weight,     *)
(* that of the client's no_wght.  So the blocks a resumed download finds   *)
(* are of its own weight, and they are complete unless the process was     *)
(* killed amid the write of one.                                           *)
(*                                                                         *)
(* Then Upload, unit by unit, for any games, weights, connections, slots   *)
(* and buffers, however TCP cuts the stream.  The argument: what is on its *)
(* way to a slot of the sender - the slot's buffer, then what the network  *)
(* carries - is a beginning of one record's stream, and a whole one only   *)
(* for a game that counts as sent over this connection and is not recorded *)
(* yet.  So a turn of the server's loop that finds a whole record finds    *)
(* exactly that game's, and takes it once; and since a slot starts empty   *)
(* nothing of an earlier connection is in front.  Of the download's slot   *)
(* it is known which question is on its way, is answered, or was.          *)
(***************************************************************************)
EXTENDS MCClient, Induction, FiniteSetTheorems, WellFoundedInduction

-----------------------------------------------------------------------------
(* The download: its inductive invariant.                                  *)

Downloading == {"Clean", "Info", "Blocks", "Write", "Rename", "Remove"}

\* A file holds the weight of its name.
FilesInv == \A w \in Weights : file[w] \in {None, w} \/ (KillTears /\ file[w] = Garbage)

\* The blocks on the disk are of the weight that info.txt names.
BlocksAreInfos == \A b \in Tmps : tmp[b].w = info /\ b < NBlock[info]

\* The client downloads what the server pinned, which is newer than what it has.
OneWeight ==
  /\ pc \in Downloading => no \in Weights /\ pinned \in {no, None} /\ wid < no
  /\ pc \in {"Blocks", "Write", "Rename", "Remove"} => info = no
  /\ pc = "Info" => Tmps = {}

\* The block that is being written.
Current == First(Missing)

\* A block that need not be asked for is there, and whole but for an end amid its write.
BlocksAreThere ==
  /\ pc \in {"Clean", "Info"} => flags = {}
  /\ pc \in {"Blocks", "Write"} => flags \subseteq Tmps
  /\ pc = "Write" => Missing # {} /\ Current \in Tmps
  /\ ~KillTears => \A b \in Tmps : tmp[b].whole \/ (pc = "Write" /\ b = Current)

\* What the blocks were gathered to.
GatheredIsWeight == pc = "Rename" => gathered = no \/ (KillTears /\ gathered = Garbage)

IsNewest(w, S) == w \in S /\ \A v \in S : v <= w

\* The weight in use is that of the newest file.
WidIsNewest ==
  /\ pc \in {"Ask", "Idle", "Clean", "Info", "Blocks", "Write", "Rename"} =>
       IF Files = {} THEN wid = None ELSE IsNewest(wid, Files)
  /\ pc = "Remove" => IsNewest(no, Files)
  /\ pc = "Idle" => Files # {}

RetriesLeft == pc # "Dead" => retries <= MaxRetry

DownInv ==
  /\ TypeOK
  /\ FilesInv /\ BlocksAreInfos /\ OneWeight /\ BlocksAreThere
  /\ GatheredIsWeight /\ WidIsNewest /\ RetriesLeft

-----------------------------------------------------------------------------
(* Numbers, blocks and files.                                              *)

\* Weights and blocks are numbers, and None and Garbage are none of them.
LEMMA Numbered ==
  /\ \A w \in Weights : w \in Nat /\ NBlock[w] \in Nat \ {0} /\ w # None /\ w # Garbage
  /\ \A w \in Weights : 0 .. NBlock[w] - 1 \subseteq Blocks
  /\ \A b \in Blocks : b \in Nat
  /\ MaxWght \in Nat /\ 0 \in Weights /\ None \in Int /\ None # Garbage /\ None < 0
<1>1. \A w \in Weights : w \in Nat /\ NBlock[w] \in Nat \ {0} /\ w # None /\ w # Garbage
  BY WghtFetchAssumption DEF Weights, None, Garbage
<1>2. \A w \in Weights : 0 .. NBlock[w] - 1 \subseteq Blocks
  BY DEF Blocks
<1>3. \A b \in Blocks : b \in Nat
  BY <1>1 DEF Blocks
<1>4. MaxWght \in Nat /\ 0 \in Weights /\ None \in Int /\ None # Garbage /\ None < 0
  BY WghtFetchAssumption DEF Weights, None, Garbage
<1>. QED  BY <1>1, <1>2, <1>3, <1>4

\* Some numbers have a first one.
LEMMA FirstIsOne ==
  ASSUME NEW S \in SUBSET Nat, S # {}
  PROVE  First(S) \in S /\ \A n \in S : First(S) <= n
<1>1. IsWellFoundedOn(OpToRel(<, Nat), Nat)
  BY NatLessThanWellFounded
<1>2. \E x \in S : \A y \in S : ~(<<y, x>> \in OpToRel(<, Nat))
  BY <1>1, WFMin
<1>3. PICK x \in S : \A y \in S : ~(y < x)
  BY <1>2 DEF OpToRel
<1>4. \A y \in S : x <= y
  BY <1>3
<1>. QED  BY <1>4 DEF First

\* Some weights have a newest one.
LEMMA NewestIsOne ==
  ASSUME NEW S \in SUBSET Weights, S # {}
  PROVE  IsNewest(Newest(S), S)
<1> DEFINE below(n) == MaxWght - n
           T == {below(n) : n \in S}
<1>1. MaxWght \in Nat /\ \A n \in S : n \in Int /\ below(n) \in Nat
  BY Numbered DEF Weights
<1>2. T \subseteq Nat /\ T # {}
  BY <1>1
<1>3. First(T) \in T /\ \A k \in T : First(T) <= k
  <2> HIDE DEF T
  <2>. QED  BY <1>2, FirstIsOne
<1>4. PICK m \in S : First(T) = below(m)
  BY <1>3
<1>5. \A n \in S : n <= m
  <2> SUFFICES ASSUME NEW n \in S PROVE n <= m
    OBVIOUS
  <2>1. below(n) \in T
    OBVIOUS
  <2>2. below(m) <= below(n)
    BY <1>3, <1>4, <2>1
  <2>. QED  BY <1>1, <2>2
<1>. QED  BY <1>5 DEF Newest, IsNewest

\* There is one newest only.
LEMMA OneNewest ==
  ASSUME NEW S \in SUBSET Weights, NEW w, IsNewest(w, S)
  PROVE  w = Newest(S)
<1>1. S # {} /\ w \in Weights
  BY DEF IsNewest
<1>2. IsNewest(Newest(S), S)
  BY <1>1, NewestIsOne
<1>3. Newest(S) \in Weights /\ w <= Newest(S) /\ Newest(S) <= w
  BY <1>2 DEF IsNewest
<1>. QED  BY <1>1, <1>3, Numbered

\* A file of a block comes, changes or goes.
LEMMA TmpsAfter ==
  ASSUME TypeOK, NEW b \in Blocks, NEW v, tmp' = [tmp EXCEPT ![b] = v]
  PROVE  /\ Tmps' = IF v = NoBlock THEN Tmps \ {b} ELSE Tmps \cup {b}
         /\ tmp'[b] = v /\ \A c \in Blocks \ {b} : tmp'[c] = tmp[c]
<1>1. tmp'[b] = v /\ \A c \in Blocks \ {b} : tmp'[c] = tmp[c]
  BY DEF TypeOK
<1>. QED  BY <1>1 DEF Tmps

\* The blocks that are there are blocks.
LEMMA TmpsAreBlocks ==
  ASSUME TypeOK
  PROVE  /\ Tmps \in SUBSET Blocks /\ Tmps \in SUBSET Nat
         /\ \A b \in Tmps : tmp[b] \in Block
         /\ Files \in SUBSET Weights
BY Numbered DEF TypeOK, Tmps, Files

\* The first block to ask for is one that the weight has.
LEMMA CurrentIsMissing ==
  ASSUME TypeOK, no \in Weights, Missing # {}
  PROVE  Current \in Missing /\ Current \in Blocks /\ Current < NBlock[no] /\ Current \notin flags
<1>1. Missing \in SUBSET Nat /\ Missing \subseteq 0 .. NBlock[no] - 1 /\ Missing \cap flags = {}
  BY Numbered DEF Missing
<1>2. Current \in Missing
  BY <1>1, FirstIsOne DEF Current
<1>. QED  BY <1>1, <1>2, Numbered

\* A block that is removed is the first one.
LEMMA RemovedIsThere ==
  ASSUME TypeOK, Tmps # {}
  PROVE  First(Tmps) \in Tmps /\ First(Tmps) \in Blocks
BY TmpsAreBlocks, FirstIsOne

-----------------------------------------------------------------------------
(* The steps.                                                              *)

\* Before the first start there is no file.
LEMMA DownStart ==
  ASSUME Init
  PROVE  DownInv
<1>1. Tmps = {} /\ Files = {}
  BY DEF Init, Tmps, Files
<1>2. TypeOK
  BY Numbered, WghtFetchAssumption DEF Init, TypeOK
<1>3. FilesInv /\ BlocksAreInfos /\ GatheredIsWeight /\ RetriesLeft
  BY <1>1, WghtFetchAssumption DEF Init, FilesInv, BlocksAreInfos, GatheredIsWeight, RetriesLeft
<1>4. OneWeight /\ BlocksAreThere /\ WidIsNewest
  BY <1>1 DEF Init, OneWeight, BlocksAreThere, WidIsNewest, Downloading
<1>. QED  BY <1>2, <1>3, <1>4 DEF DownInv

\* What depends on the files of the blocks, on those of the weights and on what is
\* missing is as it was when these are.
LEMMA Kept ==
  /\ tmp' = tmp => Tmps' = Tmps
  /\ file' = file => Files' = Files
  /\ no' = no /\ flags' = flags => Missing' = Missing /\ Current' = Current
  /\ file' = file => (FilesInv => FilesInv')
  /\ tmp' = tmp /\ info' = info => (BlocksAreInfos => BlocksAreInfos')
BY DEF Tmps, Files, Missing, Current, FilesInv, BlocksAreInfos

\* The server and a broken connection change what the client will do, not its files.
LEMMA OutsideStep ==
  ASSUME DownInv, Publish \/ Rollback \/ Fail \/ Lost \/ Kill \/ Poll
  PROVE  DownInv'
<1>0. /\ TypeOK /\ FilesInv /\ BlocksAreInfos /\ OneWeight /\ BlocksAreThere
      /\ GatheredIsWeight /\ WidIsNewest /\ RetriesLeft
      /\ MaxRetry \in Nat /\ MaxKill \in Nat /\ MaxFail \in Nat /\ MaxRollback \in Nat
  BY WghtFetchAssumption DEF DownInv
<1>1. Tmps' = Tmps /\ Files' = Files /\ FilesInv' /\ BlocksAreInfos'
  BY <1>0, Kept DEF Publish, Rollback, Fail, Lost, Kill, Poll, Retry, disk
<1>2. CASE Publish
  <2>1. UNCHANGED <<pinned, disk, client, bounds>> /\ newest' \in Weights
    BY <1>2 DEF Publish
  <2>2. Missing' = Missing /\ Current' = Current
    BY <2>1, Kept DEF client
  <2>. QED
    BY <1>0, <1>1, <2>1, <2>2
       DEF DownInv, disk, client, bounds, TypeOK, OneWeight, BlocksAreThere, GatheredIsWeight,
           WidIsNewest, RetriesLeft
<1>3. CASE Rollback
  <2>1. /\ UNCHANGED <<disk, client, kills, fails>> /\ newest' \in Weights
        /\ pinned' = None /\ rollbacks' \in 0 .. MaxRollback
    BY <1>0, <1>3 DEF Rollback, TypeOK
  <2>2. Missing' = Missing /\ Current' = Current
    BY <2>1, Kept DEF client
  <2>. QED
    BY <1>0, <1>1, <2>1, <2>2
       DEF DownInv, disk, client, TypeOK, OneWeight, BlocksAreThere, GatheredIsWeight,
           WidIsNewest, RetriesLeft
<1>4. CASE Fail \/ Lost
  <2>1. /\ UNCHANGED <<newest, disk, starting, wid, no, flags, kills, rollbacks>>
        /\ pinned' = None /\ retries' = retries + 1 /\ pc \in {"Ask", "Blocks"}
        /\ pc' = IF MaxRetry < retries + 1 THEN "Dead" ELSE "Ask"
        /\ fails' \in 0 .. MaxFail
    BY <1>0, <1>4 DEF Fail, Lost, Retry, GivesUp, TypeOK
  <2>2. retries \in 0 .. MaxRetry
    BY <1>0, <2>1 DEF TypeOK, RetriesLeft
  <2>3. TypeOK'
    BY <1>0, <2>1, <2>2 DEF TypeOK, disk
  <2>. QED
    BY <1>0, <1>1, <2>1, <2>2, <2>3
       DEF DownInv, disk, OneWeight, BlocksAreThere, GatheredIsWeight, WidIsNewest, RetriesLeft,
           Downloading
<1>5. CASE Kill
  <2>1. /\ UNCHANGED <<newest, disk, fails, rollbacks>> /\ pc' = "Start" /\ starting' = TRUE
        /\ wid' = None /\ no' = None /\ flags' = {} /\ retries' = 0 /\ pinned' = None
        /\ kills' \in 0 .. MaxKill /\ (pc = "Write" => KillTears)
    BY <1>0, <1>5 DEF Kill, TypeOK
  <2>2. TypeOK'
    BY <1>0, <2>1 DEF TypeOK, disk
  <2>. QED
    BY <1>0, <1>1, <2>1, <2>2
       DEF DownInv, disk, OneWeight, BlocksAreThere, GatheredIsWeight, WidIsNewest, RetriesLeft,
           Downloading
<1>6. CASE Poll
  <2>1. pc = "Idle" /\ pc' = "Ask" /\ UNCHANGED <<newest, pinned, disk, starting, wid, no, flags, retries, bounds>>
    BY <1>6 DEF Poll
  <2>. QED
    BY <1>0, <1>1, <2>1
       DEF DownInv, disk, bounds, TypeOK, OneWeight, BlocksAreThere, GatheredIsWeight, WidIsNewest,
           RetriesLeft, Downloading
<1>. QED  BY <1>2, <1>3, <1>4, <1>5, <1>6

\* The client starts, and asks for what is new.
LEMMA AskStep ==
  ASSUME DownInv, Start \/ Ask
  PROVE  DownInv'
<1>0. /\ TypeOK /\ FilesInv /\ BlocksAreInfos /\ OneWeight /\ BlocksAreThere
      /\ GatheredIsWeight /\ WidIsNewest /\ RetriesLeft /\ MaxRetry \in Nat
      /\ Files \in SUBSET Weights /\ Tmps \in SUBSET Blocks
  BY WghtFetchAssumption, TmpsAreBlocks DEF DownInv
<1>1. Tmps' = Tmps /\ Files' = Files /\ FilesInv' /\ BlocksAreInfos'
  BY <1>0, Kept DEF Start, Ask, disk
<1>2. CASE Start
  <2>1. /\ UNCHANGED <<newest, pinned, disk, starting, no, flags, retries, bounds>>
        /\ pc = "Start" /\ pc' \in {"Ask", "Dead"}
        /\ IF Files = {} THEN wid' = None ELSE wid' = Newest(Files)
    BY <1>2 DEF Start
  <2>2. IF Files = {} THEN wid' = None ELSE IsNewest(wid', Files)
    BY <1>0, <2>1, NewestIsOne
  <2>3. wid' \in Weights \cup {None}
    BY <1>0, <2>2 DEF IsNewest
  <2>4. TypeOK'
    BY <1>0, <2>1, <2>3 DEF TypeOK, disk, bounds
  <2>. QED
    BY <1>0, <1>1, <2>1, <2>2, <2>4
       DEF DownInv, disk, OneWeight, BlocksAreThere, GatheredIsWeight, WidIsNewest, RetriesLeft,
           Downloading
<1>3. CASE Ask /\ NoNews
  <2>1. /\ UNCHANGED <<newest, disk, wid, bounds, flags>> /\ no' = newest /\ newest = wid
        /\ pc = "Ask" /\ pc' = "Idle" /\ starting' = FALSE /\ retries' = 0 /\ pinned' = None
    BY <1>3 DEF Ask, NoNews, Through
  <2>2. Files # {}
    BY <1>0, <2>1, Numbered DEF WidIsNewest, TypeOK
  <2>3. TypeOK'
    <3>1. starting' \in BOOLEAN
      BY <2>1, Zenon
    <3>2. retries' \in 0 .. MaxRetry + 1 /\ no' \in Weights \cup {None}
      BY <1>0, <2>1 DEF TypeOK
    <3>. QED  BY <1>0, <2>1, <3>1, <3>2, Zenon DEF TypeOK, disk, bounds
  <2>. QED
    BY <1>0, <1>1, <2>1, <2>2, <2>3
       DEF DownInv, disk, OneWeight, BlocksAreThere, GatheredIsWeight, WidIsNewest, RetriesLeft,
           Downloading
<1>4. CASE Ask /\ ~NoNews
  <2>1. /\ UNCHANGED <<newest, disk, wid, bounds, starting, retries>>
        /\ no' = newest /\ pinned' = newest /\ newest # wid /\ newest \in Weights
        /\ pc = "Ask" /\ pc' \in {"Dead", "Clean", "Blocks"}
        /\ pc' # "Dead" => ~(newest < wid)
        /\ pc' = "Blocks" => info = newest
        /\ pc' = "Clean" => info # newest
        /\ flags' = IF info = newest THEN Tmps ELSE {}
    BY <1>0, <1>4 DEF Ask, NoNews, GoesBack, TypeOK
  <2>2. pc' # "Dead" => wid < newest
    BY <1>0, <2>1, Numbered DEF TypeOK
  <2>3. TypeOK'
    BY <1>0, <2>1 DEF TypeOK, disk, bounds
  <2>. QED
    BY <1>0, <1>1, <2>1, <2>2, <2>3
       DEF DownInv, disk, OneWeight, BlocksAreThere, GatheredIsWeight, WidIsNewest, RetriesLeft,
           Downloading
<1>. QED  BY <1>2, <1>3, <1>4

\* The old blocks go, then the number; the new number comes before the first new block.
LEMMA CleanStep ==
  ASSUME DownInv, Clean \/ Info
  PROVE  DownInv'
<1>0. /\ TypeOK /\ FilesInv /\ BlocksAreInfos /\ OneWeight /\ BlocksAreThere
      /\ GatheredIsWeight /\ WidIsNewest /\ RetriesLeft
  BY DEF DownInv
<1>1. Files' = Files /\ FilesInv'
  BY <1>0, Kept DEF Clean, Info
<1>2. CASE Clean /\ Tmps # {}
  <2> DEFINE b == First(Tmps)
  <2>1. /\ tmp' = [tmp EXCEPT ![b] = NoBlock] /\ pc = "Clean" /\ pc' = pc
        /\ UNCHANGED <<newest, pinned, info, gathered, file, starting, wid, no, flags, retries, bounds>>
    BY <1>2 DEF Clean, OldTmps
  <2>2. b \in Tmps /\ b \in Blocks
    BY <1>0, <1>2, RemovedIsThere
  <2> HIDE DEF b
  <2>3. Tmps' = Tmps \ {b} /\ \A c \in Tmps' : tmp'[c] = tmp[c]
    <3>1. Tmps' = Tmps \ {b} /\ \A c \in Blocks \ {b} : tmp'[c] = tmp[c]
      BY <1>0, <2>1, <2>2, TmpsAfter
    <3>. QED  BY <1>0, <3>1, TmpsAreBlocks
  <2>4. BlocksAreInfos'
    BY <1>0, <2>1, <2>3 DEF BlocksAreInfos
  <2>5. TypeOK'
    BY <1>0, <2>1, <2>2 DEF TypeOK, bounds
  <2>. QED
    BY <1>0, <1>1, <2>1, <2>3, <2>4, <2>5
       DEF DownInv, OneWeight, BlocksAreThere, GatheredIsWeight, WidIsNewest, RetriesLeft, Downloading
<1>3. CASE Clean /\ Tmps = {}
  <2>1. /\ info' = 0 /\ pc = "Clean" /\ pc' = "Info" /\ tmp' = tmp
        /\ UNCHANGED <<newest, pinned, gathered, file, starting, wid, no, flags, retries, bounds>>
    BY <1>3 DEF Clean, OldTmps
  <2>2. Tmps' = {} /\ BlocksAreInfos'
    BY <1>3, <2>1, Kept DEF BlocksAreInfos
  <2>3. TypeOK'
    BY <1>0, <2>1, Numbered DEF TypeOK, bounds
  <2>. QED
    BY <1>0, <1>1, <2>1, <2>2, <2>3
       DEF DownInv, OneWeight, BlocksAreThere, GatheredIsWeight, WidIsNewest, RetriesLeft, Downloading
<1>4. CASE Info
  <2>1. /\ info' = no /\ pc = "Info" /\ pc' = "Blocks" /\ tmp' = tmp
        /\ UNCHANGED <<newest, pinned, gathered, file, starting, wid, no, flags, retries, bounds>>
    BY <1>4 DEF Info
  <2>2. Tmps' = {} /\ Tmps = {} /\ BlocksAreInfos'
    BY <1>0, <2>1, Kept DEF BlocksAreInfos, OneWeight
  <2>3. TypeOK'
    BY <1>0, <2>1 DEF TypeOK, bounds, OneWeight, Downloading
  <2>. QED
    BY <1>0, <1>1, <2>1, <2>2, <2>3
       DEF DownInv, OneWeight, BlocksAreThere, GatheredIsWeight, WidIsNewest, RetriesLeft, Downloading
<1>. QED  BY <1>2, <1>3, <1>4

\* A block comes and is written.
LEMMA BlockStep ==
  ASSUME DownInv, Receive \/ Write
  PROVE  DownInv'
<1>0. /\ TypeOK /\ FilesInv /\ BlocksAreInfos /\ OneWeight /\ BlocksAreThere
      /\ GatheredIsWeight /\ WidIsNewest /\ RetriesLeft /\ MaxRetry \in Nat
      /\ Tmps \in SUBSET Blocks /\ \A b \in Tmps : tmp[b] \in Block
  BY TmpsAreBlocks, WghtFetchAssumption DEF DownInv
<1>1. /\ Files' = Files /\ FilesInv' /\ info = no /\ no \in Weights /\ Missing # {}
      /\ pinned \in {no, None}
  BY <1>0, Kept DEF Receive, Write, OneWeight, BlocksAreThere, Downloading
<1>2. Current \in Blocks /\ Current < NBlock[no] /\ Current \notin flags
  BY <1>0, <1>1, CurrentIsMissing
<1>3. CASE Receive
  <2> DEFINE v == [w |-> no, whole |-> FALSE]
  <2>1. /\ tmp' = [tmp EXCEPT ![Current] = v] /\ pc = "Blocks" /\ pc' = "Write"
        /\ UNCHANGED <<newest, pinned, info, gathered, file, starting, wid, no, flags, retries, bounds>>
    BY <1>1, <1>3 DEF Receive, Sent, Current
  <2>2. v \in Block /\ v # NoBlock /\ v.w = no
    BY <1>1, Numbered DEF Block, NoBlock
  <2> HIDE DEF v
  <2>3. /\ Tmps' = Tmps \cup {Current} /\ tmp'[Current] = v
        /\ \A c \in Tmps : c # Current => tmp'[c] = tmp[c]
    BY <1>0, <1>2, <2>1, <2>2, TmpsAfter
  <2>4. Current' = Current /\ Missing' = Missing
    BY <2>1, Kept
  <2>5. BlocksAreInfos'
    BY <1>0, <1>1, <1>2, <2>1, <2>2, <2>3 DEF BlocksAreInfos
  <2>6. BlocksAreThere'
    BY <1>0, <1>1, <2>1, <2>3, <2>4 DEF BlocksAreThere
  <2>7. TypeOK'
    BY <1>0, <1>2, <2>1, <2>2 DEF TypeOK, bounds
  <2>. QED
    BY <1>0, <1>1, <2>1, <2>5, <2>6, <2>7
       DEF DownInv, OneWeight, GatheredIsWeight, WidIsNewest, RetriesLeft, Downloading
<1>4. CASE Write
  <2> DEFINE v == [tmp[Current] EXCEPT !.whole = TRUE]
  <2>1. /\ tmp' = [tmp EXCEPT ![Current].whole = TRUE] /\ flags' = flags \cup {Current}
        /\ pc = "Write" /\ pc' = "Blocks" /\ retries' = IF starting THEN retries ELSE 0
        /\ UNCHANGED <<newest, pinned, info, gathered, file, starting, wid, no, bounds>>
    BY <1>4 DEF Write, Current
  <2>2. Current \in Tmps /\ tmp[Current] \in Block /\ tmp[Current].w = info
    BY <1>0, <2>1 DEF BlocksAreThere, BlocksAreInfos
  <2>3. v \in Block /\ v # NoBlock /\ v.w = info /\ v.whole
    BY <1>1, <2>2, Numbered DEF Block, NoBlock
  <2>4. tmp' = [tmp EXCEPT ![Current] = v]
    BY <2>1
  <2> HIDE DEF v
  <2>5. /\ Tmps' = Tmps /\ tmp'[Current] = v
        /\ \A c \in Tmps : c # Current => tmp'[c] = tmp[c]
    <3>1. /\ Tmps' = Tmps \cup {Current} /\ tmp'[Current] = v
          /\ \A c \in Blocks \ {Current} : tmp'[c] = tmp[c]
      BY <1>0, <1>2, <2>3, <2>4, TmpsAfter
    <3>. QED  BY <1>0, <2>2, <3>1
  <2>6. BlocksAreInfos'
    BY <1>0, <2>1, <2>3, <2>5 DEF BlocksAreInfos
  <2>7. BlocksAreThere'
    BY <1>0, <1>1, <2>1, <2>2, <2>3, <2>5 DEF BlocksAreThere
  <2>8. TypeOK'
    <3>1. flags' \subseteq Blocks /\ retries' \in 0 .. MaxRetry + 1
      BY <1>0, <1>2, <2>1 DEF TypeOK
    <3>2. tmp' \in [Blocks -> Block \cup {NoBlock}]
      BY <1>0, <2>3, <2>4 DEF TypeOK
    <3>. QED  BY <1>0, <2>1, <3>1, <3>2 DEF TypeOK, bounds
  <2>9. RetriesLeft'
    BY <1>0, <2>1 DEF RetriesLeft
  <2>. QED
    BY <1>0, <1>1, <2>1, <2>6, <2>7, <2>8, <2>9
       DEF DownInv, OneWeight, GatheredIsWeight, WidIsNewest, Downloading
<1>. QED  BY <1>3, <1>4

\* What is gathered when no block is missing.
LEMMA GatheredWhole ==
  ASSUME DownInv, pc = "Blocks", Missing = {}
  PROVE  /\ Tmps = 0 .. NBlock[no] - 1 /\ Cardinality(Tmps) = NBlock[no]
         /\ Sum = no \/ (KillTears /\ Sum = Garbage)
<1>0. /\ TypeOK /\ BlocksAreInfos /\ OneWeight /\ BlocksAreThere /\ info = no /\ no \in Weights
      /\ flags \subseteq Tmps
  BY DEF DownInv, OneWeight, BlocksAreThere, Downloading
<1> DEFINE n == NBlock[no]
<1>1. n \in Nat \ {0}
  BY <1>0, Numbered
<1>2. Tmps = 0 .. n - 1
  <2>1. 0 .. n - 1 \subseteq Tmps
    BY <1>0 DEF Missing
  <2>2. \A b \in Tmps : b \in Nat /\ b < n
    BY <1>0, TmpsAreBlocks DEF BlocksAreInfos
  <2> HIDE DEF n
  <2>3. \A b \in Tmps : b \in 0 .. n - 1
    BY <1>1, <2>2
  <2>. QED  BY <2>1, <2>3, Zenon
<1>3. Cardinality(Tmps) = n
  <2> HIDE DEF n
  <2>. QED  BY <1>1, <1>2, FS_Interval
<1>4. 0 \in Tmps
  <2> HIDE DEF n
  <2>. QED  BY <1>1, <1>2
<1>5. tmp[0].w = no
  BY <1>0, <1>4 DEF BlocksAreInfos
<1>6. CASE KillTears
  <2>1. Sum = tmp[0].w \/ Sum = Garbage
    BY DEF Sum
  <2>. QED  BY <1>2, <1>3, <1>5, <1>6, <2>1
<1>7. CASE ~KillTears
  <2>1. \A b \in Tmps : tmp[b] = [w |-> no, whole |-> TRUE]
    <3> SUFFICES ASSUME NEW b \in Tmps PROVE tmp[b] = [w |-> no, whole |-> TRUE]
      OBVIOUS
    <3>1. tmp[b] \in Block /\ tmp[b].w = no
      BY <1>0, TmpsAreBlocks DEF BlocksAreInfos
    <3>2. tmp[b].whole = TRUE
      <4>1. tmp[b].whole
        BY <1>0, <1>7 DEF BlocksAreThere
      <4>2. tmp[b].whole \in BOOLEAN
        BY <3>1 DEF Block
      <4>. QED  BY <4>1, <4>2, Zenon
    <3>3. tmp[b] = [w |-> tmp[b].w, whole |-> tmp[b].whole]
      BY <3>1 DEF Block
    <3>. QED  BY <3>1, <3>2, <3>3
  <2>2. Sum = tmp[0].w
    BY <1>0, <1>2, <2>1 DEF Sum
  <2>. QED  BY <1>2, <1>3, <1>5, <2>2
<1>. QED  BY <1>2, <1>3, <1>6, <1>7

\* The blocks become the file of the weight, and are removed.
LEMMA FileStep ==
  ASSUME DownInv, Gather \/ Rename \/ Remove
  PROVE  DownInv'
<1>0. /\ TypeOK /\ FilesInv /\ BlocksAreInfos /\ OneWeight /\ BlocksAreThere
      /\ GatheredIsWeight /\ WidIsNewest /\ RetriesLeft /\ MaxRetry \in Nat
      /\ Tmps \in SUBSET Blocks /\ Files \in SUBSET Weights /\ no \in Weights
  BY TmpsAreBlocks, WghtFetchAssumption DEF DownInv, Gather, Rename, Remove, OneWeight, Downloading
<1>1. CASE Gather
  <2>1. /\ pc = "Blocks" /\ Missing = {} /\ pc' \in {"Rename", "Dead"}
        /\ gathered' = IF pc' = "Rename" THEN Sum ELSE gathered
        /\ UNCHANGED <<newest, pinned, info, tmp, file, starting, wid, no, flags, retries, bounds>>
    BY <1>1 DEF Gather
  <2>2. Sum = no \/ (KillTears /\ Sum = Garbage)
    BY <2>1, GatheredWhole
  <2>3. Tmps' = Tmps /\ Files' = Files /\ FilesInv' /\ BlocksAreInfos'
    BY <1>0, <2>1, Kept
  <2>4. TypeOK'
    BY <1>0, <2>1, <2>2 DEF TypeOK, bounds
  <2>. QED
    BY <1>0, <2>1, <2>2, <2>3, <2>4
       DEF DownInv, OneWeight, BlocksAreThere, GatheredIsWeight, WidIsNewest, RetriesLeft, Downloading
<1>2. CASE Rename
  <2>1. /\ pc = "Rename" /\ pc' = "Remove" /\ gathered' = None
        /\ file' = [file EXCEPT ![no] = gathered]
        /\ UNCHANGED <<newest, pinned, info, tmp, starting, wid, no, flags, retries, bounds>>
    BY <1>2 DEF Rename
  <2>2. gathered = no \/ (KillTears /\ gathered = Garbage)
    BY <1>0, <2>1 DEF GatheredIsWeight
  <2>3. file'[no] = gathered /\ \A w \in Weights \ {no} : file'[w] = file[w]
    BY <1>0, <2>1 DEF TypeOK
  <2>4. Files' = Files \cup {no} /\ FilesInv'
    BY <1>0, <2>2, <2>3, Numbered DEF Files, FilesInv
  <2>5. wid < no /\ (Files # {} => IsNewest(wid, Files))
    BY <1>0, <2>1 DEF OneWeight, WidIsNewest, Downloading
  <2>6. IsNewest(no, Files')
    <3>1. \A v \in Files : v < no
      BY <1>0, <2>5, Numbered DEF IsNewest
    <3>. QED  BY <1>0, <2>4, <3>1, Numbered DEF IsNewest
  <2>7. Tmps' = Tmps /\ BlocksAreInfos'
    BY <1>0, <2>1, Kept
  <2>8. TypeOK'
    BY <1>0, <2>1, <2>2 DEF TypeOK, bounds
  <2>. QED
    BY <1>0, <2>1, <2>4, <2>6, <2>7, <2>8
       DEF DownInv, OneWeight, BlocksAreThere, GatheredIsWeight, WidIsNewest, RetriesLeft, Downloading
<1>3. CASE Remove /\ Tmps # {}
  <2> DEFINE b == First(Tmps)
  <2>1. /\ tmp' = [tmp EXCEPT ![b] = NoBlock] /\ pc = "Remove" /\ pc' = pc
        /\ UNCHANGED <<newest, info, gathered, file, no, flags, bounds, pinned, starting, wid, retries>>
    BY <1>3 DEF Remove
  <2>2. b \in Tmps /\ b \in Blocks
    BY <1>0, <1>3, RemovedIsThere
  <2> HIDE DEF b
  <2>3. Tmps' = Tmps \ {b} /\ \A c \in Tmps' : tmp'[c] = tmp[c]
    <3>1. Tmps' = Tmps \ {b} /\ \A c \in Blocks \ {b} : tmp'[c] = tmp[c]
      BY <1>0, <2>1, <2>2, TmpsAfter
    <3>. QED  BY <1>0, <3>1
  <2>4. BlocksAreInfos'
    BY <1>0, <2>1, <2>3 DEF BlocksAreInfos
  <2>5. Files' = Files /\ FilesInv'
    BY <1>0, <2>1, Kept
  <2>6. TypeOK'
    BY <1>0, <2>1, <2>2 DEF TypeOK, bounds
  <2>. QED
    BY <1>0, <2>1, <2>3, <2>4, <2>5, <2>6
       DEF DownInv, OneWeight, BlocksAreThere, GatheredIsWeight, WidIsNewest, RetriesLeft, Downloading
<1>4. CASE Remove /\ Tmps = {}
  <2>1. /\ pc = "Remove" /\ wid' = no /\ pc' \in {"Dead", "Idle"}
        /\ pc' = "Dead" => UNCHANGED <<pinned, starting, retries>>
        /\ pc' = "Idle" => starting' = FALSE /\ retries' = 0 /\ pinned' = None
        /\ UNCHANGED <<newest, info, tmp, gathered, file, no, flags, bounds>>
    BY <1>4 DEF Remove, Through
  <2>2. Tmps' = Tmps /\ Files' = Files /\ FilesInv' /\ BlocksAreInfos'
    BY <1>0, <2>1, Kept
  <2>3. IsNewest(no, Files) /\ Files # {}
    BY <1>0, <2>1 DEF WidIsNewest, IsNewest
  <2>4. TypeOK'
    <3>1. starting' \in BOOLEAN
      BY <1>0, <2>1, Zenon DEF TypeOK
    <3>2. retries' \in 0 .. MaxRetry + 1 /\ pinned' \in Weights \cup {None}
      BY <1>0, <2>1 DEF TypeOK
    <3>. QED  BY <1>0, <2>1, <3>1, <3>2, Zenon DEF TypeOK, bounds
  <2>. QED
    BY <1>0, <2>1, <2>2, <2>3, <2>4
       DEF DownInv, OneWeight, BlocksAreThere, GatheredIsWeight, WidIsNewest, RetriesLeft, Downloading
<1>. QED  BY <1>1, <1>2, <1>3, <1>4

\* Every step keeps the invariant.
LEMMA DownNext ==
  ASSUME DownInv, [Next]_vars
  PROVE  DownInv'
<1>1. CASE UNCHANGED vars
  BY <1>1, Kept
     DEF vars, client, disk, bounds, DownInv, TypeOK, OneWeight, BlocksAreThere, GatheredIsWeight,
         WidIsNewest, RetriesLeft
<1>. QED  BY <1>1, OutsideStep, AskStep, CleanStep, BlockStep, FileStep DEF Next, Step

-----------------------------------------------------------------------------
(* The theorems.                                                           *)

\* The whole invariant holds in every state the client and the server can be in.
THEOREM DownloadInvariance == Spec => []DownInv
<1>1. Init => DownInv
  BY DownStart
<1>2. DownInv /\ [Next]_vars => DownInv'
  BY DownNext
<1>. QED  BY <1>1, <1>2, PTL DEF Spec

\* Variables keep their types, and the counts their bounds (client.cpp:134-342).
THEOREM DownloadTypeCorrect == Spec => []TypeOK
<1>1. DownInv => TypeOK
  BY DEF DownInv
<1>. QED  BY <1>1, DownloadInvariance, PTL

\* However often get_new_wght() (client.cpp:134-246) is broken off and resumed, no file
\* and no set of blocks on the client's disk mixes two weights.
THEOREM FilesAreTrue == Spec => []FilesHoldTheirWeight
<1>1. DownInv => FilesHoldTheirWeight
  BY DEF DownInv, FilesInv, BlocksAreInfos, FilesHoldTheirWeight, Files
<1>. QED  BY <1>1, DownloadInvariance, PTL

\* While reader() waits (client.cpp:248-276), the weight in use is the newest of the
\* files, whatever the server offered meanwhile.
THEOREM NewestInUse == Spec => []UsesNewestFile
<1>1. DownInv => UsesNewestFile
  <2> SUFFICES ASSUME DownInv, pc = "Idle" PROVE Files # {} /\ wid = Newest(Files)
    BY DEF UsesNewestFile
  <2>1. Files \in SUBSET Weights
    BY TmpsAreBlocks DEF DownInv
  <2>2. Files # {} /\ IsNewest(wid, Files)
    BY DEF DownInv, WidIsNewest
  <2>. QED  BY <2>1, <2>2, OneNewest
<1>. QED  BY <1>1, DownloadInvariance, PTL

\* Where no end of the process tears a block that is being written, a resumed download
\* (client.cpp:194-246) ends in a whole weight: the client ends itself only out of
\* retries or before an older weight of the server (CHANGELOG.md:14).
THEOREM ResumesWhole == ~KillTears => (Spec => ResumeWorks)
<1> DEFINE Excused == \/ pc \in {"Ask", "Blocks"} /\ retries = MaxRetry
                      \/ pc = "Ask" /\ newest < wid
<1>1. ASSUME ~KillTears, DownInv, [Next]_vars, pc' = "Dead", pc # "Dead"
      PROVE  Excused
  <2>0. /\ TypeOK /\ FilesInv /\ BlocksAreInfos /\ OneWeight /\ WidIsNewest /\ RetriesLeft
        /\ MaxRetry \in Nat /\ Files \in SUBSET Weights
    BY <1>1, TmpsAreBlocks, WghtFetchAssumption DEF DownInv
  <2>1. \A w \in Files : file[w] = w /\ w # Garbage
    BY <1>1, <2>0, Numbered DEF FilesInv, Files
  <2>2. CASE Start
    <3>1. Files # {} /\ file[Newest(Files)] = Garbage
      BY <1>1, <2>2 DEF Start
    <3>. QED  BY <2>0, <2>1, <3>1, NewestIsOne DEF IsNewest
  <2>3. CASE Ask
    <3>1. pc = "Ask" /\ (newest < wid \/ (info = newest /\ \E b \in Tmps : NBlock[newest] <= b))
      BY <1>1, <2>3 DEF Ask, Through, GoesBack
    <3>2. \A b \in Tmps : ~(NBlock[info] <= b)
      BY <2>0, TmpsAreBlocks, Numbered DEF BlocksAreInfos, TypeOK
    <3>. QED  BY <3>1, <3>2
  <2>4. CASE Gather
    <3>1. pc = "Blocks" /\ Missing = {} /\ Cardinality(Tmps) # NBlock[no]
      BY <1>1, <2>4 DEF Gather
    <3>. QED  BY <1>1, <3>1, GatheredWhole
  <2>5. CASE Remove
    <3>1. pc = "Remove" /\ file[no] = Garbage
      BY <1>1, <2>5 DEF Remove, Through
    <3>2. no \in Files
      BY <2>0, <3>1 DEF WidIsNewest, IsNewest
    <3>. QED  BY <2>1, <3>1, <3>2
  <2>6. CASE Fail \/ Lost
    <3>1. pc \in {"Ask", "Blocks"} /\ MaxRetry < retries + 1
      BY <1>1, <2>6 DEF Fail, Lost, Retry, GivesUp
    <3>2. retries \in 0 .. MaxRetry + 1 /\ retries <= MaxRetry
      BY <1>1, <2>0 DEF TypeOK, RetriesLeft
    <3>. QED  BY <2>0, <3>1, <3>2
  <2>7. ~(Publish \/ Rollback \/ Kill \/ Clean \/ Info \/ Receive \/ Write \/ Rename \/ Poll \/ UNCHANGED vars)
    BY <1>1
       DEF Publish, Rollback, Kill, Clean, Info, Receive, Write, Rename, Poll, vars, client
  <2>. QED  BY <1>1, <2>2, <2>3, <2>4, <2>5, <2>6, <2>7 DEF Next, Step
<1>2. ASSUME ~KillTears PROVE Spec => ResumeWorks
  <2>1. DownInv /\ [Next]_vars => [pc' = "Dead" /\ pc # "Dead" => Excused]_vars
    BY <1>1, <1>2
  <2>. QED  BY <2>1, DownloadInvariance, PTL DEF Spec, ResumeWorks
<1>. QED  BY <1>2

----------------------------------------------------------------------------
(* The upload: its inductive invariant.                                      *)

Connections == [st : {"none", "backlog", "open", "shut", "mute"}, up : Seq(U!Units),
                fin : BOOLEAN, rst : BOOLEAN, down : Seq(U!Units)]
PeerSlots   == [sckt : Conns \union {None_}, buf : Seq(U!Units),
                stat : {"header", "idle", "info", "wght"},
                wght : DOMAIN LenWght \union {None_}, iblock : Nat, sent : Nat]
Sender      == [pc : {"take", "block", "asleep", "connect", "header", "send", "close", "end"},
                game : 0 .. NRec, retry : Nat, c : Conns, cut : Nat]
Download    == [pc : {"start", "hello", "info", "len", "block", "close", "loaded", "failed"},
                no : DOMAIN LenWght \union {None_}, nblock : Nat, i : Nat, need : Nat,
                got : Seq(U!Units)]
UpTypes ==
  /\ conn \in [Conns -> Connections]
  /\ peer \in [1 .. MaxAccept -> PeerSlots]
  /\ wght \in DOMAIN LenWght
  /\ taken \in Seq(Seq(U!Units))
  /\ snd \in Sender
  /\ via \in [U!Games -> Conns \union {None_}]
  /\ ld \in Download

\* What a slot is to send can be sent.
BlockLen(w, i) == IF LenWght[w] - LenBlock * i < LenBlock THEN LenWght[w] - LenBlock * i
                                                          ELSE LenBlock
CanSend(p) ==
  p.sckt # None_ =>
  /\ p.stat \in {"info", "wght"} => p.wght # None_
  /\ p.stat = "wght" => LenBlock * p.iblock <= LenWght[p.wght]
                        /\ p.sent <= BlockLen(p.wght, p.iblock)

\* A connection has at most one slot, and one exactly while it is open. Before that,
\* and when it is reset, nothing is on its way.
UpSlots   == 1 .. MaxAccept
Slots ==
  /\ \A u \in UpSlots : peer[u].sckt # None_ => conn[peer[u].sckt].st = "open"
  /\ \A c \in Conns : conn[c].st = "open" => \E u \in UpSlots : peer[u].sckt = c
  /\ \A u, v \in UpSlots : peer[u].sckt # None_ /\ peer[u].sckt = peer[v].sckt => u = v
  /\ \A c \in Conns : conn[c].st \in {"none", "backlog", "mute"} \/ conn[c].rst =>
                        conn[c].up = <<>> /\ conn[c].down = <<>>
  /\ \A u \in UpSlots : CanSend(peer[u])

\* What is on its way from the client to a slot: what the server has not looked at yet
\* and what the network carries.
OnItsWay(u) == peer[u].buf \o conn[peer[u].sckt].up

\* The slots of the sender's connections carry the beginning of a record, and a whole
\* one only if it counts as sent over this connection and is not recorded yet.
Carries(p, up, c) ==
  /\ p.stat \in {"header", "idle"}
  /\ \/ p.buf = <<>> /\ up = <<>>
     \/ \E g \in U!Games : \E k \in 1 .. 2 + LenRec[g] :
          /\ p.buf \o up = SubSeq(U!Stream(g), 1, k)
          /\ Len(p.buf) < 2 + LenRec[g]
          /\ k = 2 + LenRec[g] => via[g] = c /\ \A n \in DOMAIN taken : taken[n] # U!Body(g)

\* The game in hand: its connection carries as much of the record as was written.
Hands == {"header", "send"}
Sending ==
  \A u \in UpSlots : /\ snd.pc \in Hands
                   /\ peer[u].sckt = snd.c
                   /\ ~conn[snd.c].rst
    => OnItsWay(u) = SubSeq(U!Stream(snd.game), 1, snd.cut)

\* A game that counts as sent is recorded or on its way, unless its connection is lost.
Arrives ==
  \A g \in U!Games : via[g] # None_ =>
    /\ via[g] \in U!Senders /\ conn[via[g]].st \in {"open", "shut"}
    /\ \A u \in UpSlots : peer[u].sckt = via[g] /\ ~conn[via[g]].rst =>
         \/ OnItsWay(u) = U!Stream(g) /\ Len(peer[u].buf) < 2 + LenRec[g]
         \/ \E n \in DOMAIN taken : taken[n] = U!Body(g)

Recorded ==
  /\ \A n \in DOMAIN taken : \E g \in U!Games : taken[n] = U!Body(g) /\ via[g] # None_
  /\ \A m, n \in DOMAIN taken : taken[m] = taken[n] => m = n

Sends ==
  /\ \A c \in Conns : c > snd.c => conn[c].st = "none"
  /\ snd.pc \in {"connect", "header", "send", "close"} => snd.game \in U!Games
  /\ snd.pc \in {"header", "send", "close"} => snd.c \in U!Senders
  /\ \A g \in U!Games : g > snd.game \/ (g = snd.game /\ snd.pc \in {"connect", "header", "send"})
                          => via[g] = None_
  /\ snd.pc = "header" => snd.cut = 0
  /\ snd.pc = "send" => conn[snd.c].st \in {"open", "shut"}
  /\ snd.pc \in Hands => snd.cut < 2 + LenRec[snd.game]
  /\ \A u \in UpSlots : peer[u].sckt \in U!Senders =>
       Carries(peer[u], conn[peer[u].sckt].up, peer[u].sckt)

\* Parts a + 1, ..., a + s of weight w.
Parts(w, a, s) == [j \in 1 .. s |-> U!Unit("part", w, a + j)]

\* What the download has been sent and has not read, when it waits for an answer.
Answer(w, i, s) == IF s = 0 THEN <<>> ELSE <<U!Num(BlockLen(w, i))>> \o Parts(w, LenBlock * i, s)
InfoSent(w) == <<U!Num(w), U!Num(U!Blocks(w))>>
HelloSent    == <<U!Cmd("hello")>>
InfoAsked     == <<U!Cmd("info")>>
BlockAsked(i)  == <<U!Cmd("wght"), U!Num(i)>>

Unread ==
  LET down == conn[U!Loader].down
  IN /\ ld.pc = "hello" => down \in {<<>>, HelloSent}
     /\ ld.pc = "info" => down = <<>> \/ \E w \in DOMAIN LenWght : down = InfoSent(w)
     /\ ld.pc = "len" => \E s \in 0 .. BlockLen(ld.no, ld.i) : down = Answer(ld.no, ld.i, s)
     /\ ld.pc = "block" => \E s \in 0 .. BlockLen(ld.no, ld.i) :
                             down = Parts(ld.no, LenBlock * ld.i, s)

\* What it has read.
HasRead ==
  /\ ld.got = Parts(ld.no, 0, Len(ld.got))
  /\ ld.pc \in {"start", "hello", "info"} => ld.no = None_ /\ ld.i = 0 /\ ld.got = <<>>
  /\ ld.pc \in {"len", "block"} => /\ ld.no # None_ /\ ld.nblock = U!Blocks(ld.no)
                                   /\ ld.i < ld.nblock /\ Len(ld.got) = LenBlock * ld.i
  /\ ld.pc = "block" => ld.need = BlockLen(ld.no, ld.i)
  /\ ld.pc \in {"close", "loaded"} /\ ld.no # None_ => Len(ld.got) = LenWght[ld.no]

\* What its slot knows of it: nothing was asked for, or a question is on its way, or the
\* slot answers it, or has answered it.
Asks(p, k, t) ==
  CASE ld.pc = "hello" ->
         /\ t = <<>>
         /\ \/ p.stat = "header" /\ k.down = <<>>
            \/ p.stat = "idle" /\ k.down = HelloSent
    [] ld.pc = "info" ->
         \/ t = InfoAsked /\ p.stat = "idle" /\ k.down = <<>>
         \/ t = <<>> /\ p.stat = "info" /\ k.down = <<>>
         \/ t = <<>> /\ p.stat = "idle" /\ p.wght # None_ /\ k.down = InfoSent(p.wght)
    [] ld.pc = "len" ->
         /\ p.wght = ld.no
         /\ \/ t = BlockAsked(ld.i) /\ p.stat = "idle" /\ k.down = <<>>
            \/ /\ t = <<>> /\ p.stat = "wght" /\ p.iblock = ld.i
               /\ p.sent < BlockLen(ld.no, ld.i) /\ k.down = Answer(ld.no, ld.i, p.sent)
            \/ /\ t = <<>> /\ p.stat = "idle"
               /\ k.down = Answer(ld.no, ld.i, BlockLen(ld.no, ld.i))
    [] ld.pc = "block" ->
         /\ p.wght = ld.no /\ t = <<>>
         /\ \/ /\ p.stat = "wght" /\ p.iblock = ld.i /\ 0 < p.sent
               /\ p.sent < BlockLen(ld.no, ld.i)
               /\ k.down = Parts(ld.no, LenBlock * ld.i, p.sent)
            \/ /\ p.stat = "idle"
               /\ k.down = Parts(ld.no, LenBlock * ld.i, BlockLen(ld.no, ld.i))
    [] ld.pc = "close" -> t = <<>> /\ p.stat = "idle"
    [] OTHER -> TRUE

\* What it has asked for and the slot has not taken: a question, or half of one.
Questions == {<<>>, InfoAsked, <<U!Cmd("wght")>>} \union {BlockAsked(i) : i \in Nat}

Loads ==
  /\ ld.pc = "start" => conn[U!Loader].st = "none"
  /\ ld.pc \in {"info", "len", "block", "close"} => conn[U!Loader].st \in {"open", "shut"}
  /\ Unread /\ HasRead
  /\ \A u \in UpSlots : peer[u].sckt = U!Loader =>
       /\ OnItsWay(u) \in Questions
       /\ ~conn[U!Loader].rst => Asks(peer[u], conn[U!Loader], OnItsWay(u))

UpInv == UpTypes /\ Slots /\ Sending /\ Arrives /\ Recorded /\ Sends /\ Loads
----------------------------------------------------------------------------
(* What is sent.                                                             *)

\* The constants of Upload: connections, weights and games are numbered, and each has a length.
LEMMA UpFacts ==
  /\ Conns \subseteq Nat /\ U!Loader \in Conns /\ None_ \notin Conns
  /\ U!Senders = Conns \ {U!Loader} /\ U!Loader = 0
  /\ DOMAIN LenWght \subseteq Nat /\ None_ \notin DOMAIN LenWght
  /\ \A w \in DOMAIN LenWght : LenWght[w] \in Nat \ {0}
  /\ \A g \in U!Games : LenRec[g] \in Nat \ {0} /\ g \in Nat
  /\ U!Games = 1 .. NRec
<1>1. DOMAIN LenWght = 1 .. Len(LenWght) /\ \A w \in 1 .. Len(LenWght) : LenWght[w] \in Nat \ {0}
  BY UploadAssumption, ElementOfSeq
<1>2. 1 .. Len(LenWght) \subseteq Nat BY UploadAssumption
<1>3. None_ \notin DOMAIN LenWght BY <1>1, <1>2, UploadAssumption
<1>4. \A g \in U!Games : LenRec[g] \in Nat \ {0} /\ g \in Nat BY UploadAssumption DEF U!Games
<1> QED BY <1>1, <1>2, <1>3, <1>4, UploadAssumption DEF U!Loader, U!Senders, U!Games

\* Commands, numbers and parts are units.
LEMMA UnitTypes ==
  /\ \A k \in {"hello", "rec", "info", "wght"} : U!Cmd(k) \in U!Units /\ U!Cmd(k).k = k
  /\ \A n \in Nat : U!Num(n) \in U!Units /\ U!Num(n).n = n /\ U!Num(n).k = "num"
  /\ \A k \in {"body", "part"}, n \in Nat, j \in Nat :
       U!Unit(k, n, j) \in U!Units /\ U!Unit(k, n, j) = [k |-> k, n |-> n, j |-> j]
BY DEF U!Cmd, U!Num, U!Unit, U!Units

\* The stream of a record is its command, its length and its body; no two records
\* have the same.
LEMMA StreamFacts ==
  ASSUME NEW g \in U!Games
  PROVE  /\ U!Stream(g) \in Seq(U!Units) /\ Len(U!Stream(g)) = 2 + LenRec[g]
         /\ U!Stream(g)[1].k = "rec" /\ U!Stream(g)[2].n = LenRec[g]
         /\ U!Body(g) \in Seq(U!Units) /\ Len(U!Body(g)) = LenRec[g]
         /\ \A i \in 1 .. LenRec[g] : U!Stream(g)[2 + i] = U!Body(g)[i]
         /\ U!Body(g)[1].n = g
<1> DEFINE h == <<U!Cmd("rec"), U!Num(LenRec[g])>>
           b == U!Body(g)
<1>1. LenRec[g] \in Nat \ {0} /\ g \in Nat BY UpFacts
<1>2. h \in Seq(U!Units) /\ Len(h) = 2 /\ h[1].k = "rec" /\ h[2].n = LenRec[g]
  <2>1. U!Cmd("rec") \in U!Units /\ U!Cmd("rec").k = "rec" BY UnitTypes
  <2>2. U!Num(LenRec[g]) \in U!Units /\ U!Num(LenRec[g]).n = LenRec[g] BY <1>1, UnitTypes
  <2> QED BY <2>1, <2>2
<1>3. b \in Seq(U!Units) /\ Len(b) = LenRec[g] /\ b[1].n = g
  <2>1. \A j \in 1 .. LenRec[g] : U!Unit("body", g, j) \in U!Units BY <1>1, UnitTypes
  <2>2. b = [j \in 1 .. LenRec[g] |-> U!Unit("body", g, j)] BY DEF U!Body
  <2>3. b \in Seq(U!Units) /\ Len(b) = LenRec[g] BY <2>1, <2>2, <1>1
  <2>4. b[1] = U!Unit("body", g, 1) BY <2>2, <1>1
  <2>5. U!Unit("body", g, 1).n = g BY DEF U!Unit
  <2> QED BY <2>3, <2>4, <2>5
<1>4. U!Stream(g) = h \o b BY DEF U!Stream
<1> HIDE DEF h, b
<1>5. /\ h \o b \in Seq(U!Units) /\ Len(h \o b) = 2 + LenRec[g]
      /\ \A i \in 1 .. 2 + LenRec[g] : (h \o b)[i] = IF i <= 2 THEN h[i] ELSE b[i - 2]
  <2>1. Len(h) + Len(b) = 2 + LenRec[g] BY <1>2, <1>3
  <2>2. /\ h \o b \in Seq(U!Units) /\ Len(h \o b) = Len(h) + Len(b)
        /\ \A i \in 1 .. Len(h) + Len(b) : (h \o b)[i] = IF i <= Len(h) THEN h[i] ELSE b[i - Len(h)]
    BY <1>2, <1>3, ConcatProperties
  <2> QED BY <2>1, <2>2, <1>2
<1>6. (h \o b)[1] = h[1] /\ (h \o b)[2] = h[2]
  <2>1. 1 \in 1 .. 2 + LenRec[g] /\ 2 \in 1 .. 2 + LenRec[g] BY <1>1
  <2> QED BY <2>1, <1>5
<1>7. ASSUME NEW i \in 1 .. LenRec[g] PROVE (h \o b)[2 + i] = b[i]
  <2>1. 2 + i \in 1 .. 2 + LenRec[g] /\ ~(2 + i <= 2) /\ (2 + i) - 2 = i BY <1>1
  <2> QED BY <2>1, <1>5
<1> QED BY <1>2, <1>3, <1>4, <1>5, <1>6, <1>7 DEF b

\* A game is known by the third unit of its stream, and by its body.
LEMMA ThirdUnit == \A g \in U!Games : U!Stream(g)[3].n = g
<1> SUFFICES ASSUME NEW g \in U!Games PROVE U!Stream(g)[3].n = g OBVIOUS
<1>1. 1 \in 1 .. LenRec[g] /\ 2 + 1 = 3 BY UpFacts
<1>2. U!Stream(g)[2 + 1] = U!Body(g)[1] /\ U!Body(g)[1].n = g BY <1>1, StreamFacts
<1> QED BY <1>1, <1>2

\* Two games have two bodies.
LEMMA BodyOne == \A g, h \in U!Games : U!Body(g) = U!Body(h) => g = h
BY StreamFacts

\* The first k units of the stream of g.
Begins(s, g, k) == s = SubSeq(U!Stream(g), 1, k)

\* A beginning is as long as it says, and its units are those of the stream.
LEMMA BeginFacts ==
  ASSUME NEW g \in U!Games, NEW k \in 0 .. 2 + LenRec[g], NEW s, Begins(s, g, k)
  PROVE  s \in Seq(U!Units) /\ Len(s) = k /\ \A i \in 1 .. k : s[i] = U!Stream(g)[i]
<1> DEFINE t == U!Stream(g)
<1>1. t \in Seq(U!Units) /\ Len(t) = 2 + LenRec[g] BY StreamFacts
<1>2. LenRec[g] \in Nat BY UpFacts
<1>3. s = SubSeq(t, 1, k) BY DEF Begins
<1> HIDE DEF t
<1>4. \A i \in 1 .. Len(t) : t[i] \in U!Units BY <1>1, ElementOfSeq
<1>5. \A i \in 1 .. k : t[i] \in U!Units BY <1>1, <1>2, <1>4
<1>6. /\ SubSeq(t, 1, k) \in Seq(U!Units) /\ Len(SubSeq(t, 1, k)) = k
      /\ \A i \in 1 .. k : SubSeq(t, 1, k)[i] = t[i]
  BY <1>1, <1>2, <1>5, SubSeqProperties
<1> QED BY <1>3, <1>6 DEF t

\* And what starts a sequence as the stream does is a beginning.
LEMMA BeginIs ==
  ASSUME NEW g \in U!Games, NEW k \in 0 .. 2 + LenRec[g], NEW s \in Seq(U!Units), Len(s) = k,
         \A i \in 1 .. k : s[i] = U!Stream(g)[i]
  PROVE  Begins(s, g, k)
<1> DEFINE b == SubSeq(U!Stream(g), 1, k)
<1>1. Begins(b, g, k) BY DEF Begins
<1> HIDE DEF b
<1>2. b \in Seq(U!Units) /\ Len(b) = k /\ \A i \in 1 .. k : b[i] = U!Stream(g)[i]
  BY <1>1, BeginFacts
<1>3. s = b BY <1>2, SeqEqual
<1> QED BY <1>1, <1>3

\* Part of a beginning is one.
LEMMA BeginCut ==
  ASSUME NEW g \in U!Games, NEW k \in 0 .. 2 + LenRec[g], NEW a \in Seq(U!Units),
         NEW b \in Seq(U!Units), Begins(a \o b, g, k)
  PROVE  Len(a) + Len(b) = k /\ Begins(a, g, Len(a))
<1>0. LenRec[g] \in Nat BY UpFacts
<1>1. Len(a \o b) = k /\ \A i \in 1 .. k : (a \o b)[i] = U!Stream(g)[i] BY BeginFacts
<1>2. Len(a \o b) = Len(a) + Len(b) BY ConcatProperties
<1>3. \A i \in 1 .. Len(a) : (a \o b)[i] = a[i]
  <2>1. Len(a) \in Nat /\ Len(b) \in Nat OBVIOUS
  <2> QED BY <2>1, ConcatProperties
<1>4. Len(a) \in 0 .. 2 + LenRec[g] /\ \A i \in 1 .. Len(a) : a[i] = U!Stream(g)[i]
  <2>1. Len(a) \in Nat /\ Len(b) \in Nat OBVIOUS
  <2> QED BY <2>1, <1>0, <1>1, <1>2, <1>3
<1> QED BY <1>1, <1>2, <1>4, BeginIs

\* What a slot reads and what is left to read are what there was.
LEMMA Reading ==
  ASSUME NEW buf \in Seq(U!Units), NEW up \in Seq(U!Units), NEW n \in 0 .. Len(up)
  PROVE  /\ buf \o SubSeq(up, 1, n) \in Seq(U!Units) /\ Len(buf \o SubSeq(up, 1, n)) = Len(buf) + n
         /\ SubSeq(up, n + 1, Len(up)) \in Seq(U!Units)
         /\ Len(SubSeq(up, n + 1, Len(up))) = Len(up) - n
         /\ (buf \o SubSeq(up, 1, n)) \o SubSeq(up, n + 1, Len(up)) = buf \o up
<1> DEFINE x == SubSeq(up, 1, n)
           y == SubSeq(up, n + 1, Len(up))
<1>1. x \in Seq(U!Units) /\ y \in Seq(U!Units) /\ x \o y = up BY Cut
<1>2. Len(x) = n /\ Len(y) = Len(up) - n
  <2>1. Len(up) \in Nat /\ n \in Nat /\ n <= Len(up) OBVIOUS
  <2>2. \A i \in 1 .. Len(up) : up[i] \in U!Units BY ElementOfSeq
  <2>3. Len(x) = n BY <2>1, <2>2, SubSeqProperties
  <2>4. Len(y) = Len(up) - n BY <2>1, <2>2, SubSeqProperties
  <2> QED BY <2>3, <2>4
<1> HIDE DEF x, y
<1>3. buf \o x \in Seq(U!Units) /\ Len(buf \o x) = Len(buf) + n BY <1>1, <1>2, ConcatProperties
<1>4. (buf \o x) \o y = buf \o (x \o y)
  <2>1. Associates(U!Units) BY ConcatenationLaws
  <2> QED BY <1>1, <2>1, Zenon DEF Associates
<1> QED BY <1>1, <1>2, <1>3, <1>4 DEF x, y

\* What is written goes on where it ended.
LEMMA BeginGrows ==
  ASSUME NEW g \in U!Games, NEW k \in 0 .. 2 + LenRec[g], NEW n \in k .. 2 + LenRec[g],
         NEW buf \in Seq(U!Units), NEW up \in Seq(U!Units), Begins(buf \o up, g, k)
  PROVE  /\ SubSeq(U!Stream(g), k + 1, n) \in Seq(U!Units)
         /\ Begins(buf \o (up \o SubSeq(U!Stream(g), k + 1, n)), g, n)
<1> DEFINE t == U!Stream(g)
           x == SubSeq(t, k + 1, n)
           a == buf \o up
<1>0. LenRec[g] \in Nat BY UpFacts
<1>1. t \in Seq(U!Units) /\ Len(t) = 2 + LenRec[g] BY StreamFacts
<1>2. a \in Seq(U!Units) /\ Len(a) = k /\ \A i \in 1 .. k : a[i] = t[i] BY BeginFacts
<1> HIDE DEF t
<1>3. x \in Seq(U!Units) /\ Len(x) = n - k /\ \A i \in 1 .. n - k : x[i] = t[k + i]
  <2>1. \A i \in 1 .. Len(t) : t[i] \in U!Units BY <1>1, ElementOfSeq
  <2>2. \A i \in k + 1 .. n : t[i] \in U!Units BY <1>0, <1>1, <2>1
  <2>3. IF n < k + 1 THEN x = <<>> ELSE x \in Seq(U!Units) /\ Len(x) = n - (k + 1) + 1
    BY <1>0, <1>1, <2>2, SubSeqProperties
  <2>4. x \in Seq(U!Units) /\ Len(x) = n - k BY <2>3, <1>0
  <2>5. \A i \in 1 .. n - k : x[i] = t[k + i]
    <3> SUFFICES ASSUME NEW i \in 1 .. n - k PROVE x[i] = t[k + i] OBVIOUS
    <3>1. k + 1 \in Int /\ n \in Int /\ i \in 1 .. n - (k + 1) + 1 /\ (k + 1) + i - 1 = k + i BY <1>0
    <3>2. x[i] = t[(k + 1) + i - 1] BY <3>1, <1>0, <1>1, <2>2, SubSeqProperties
    <3> QED BY <3>1, <3>2
  <2> QED BY <2>4, <2>5
<1> HIDE DEF x, a
<1>4. /\ a \o x \in Seq(U!Units) /\ Len(a \o x) = n
      /\ \A i \in 1 .. n : (a \o x)[i] = IF i <= k THEN a[i] ELSE x[i - k]
  <2>1. Len(a) + Len(x) = n BY <1>0, <1>2, <1>3
  <2> QED BY <2>1, <1>2, <1>3, ConcatProperties
<1>5. \A i \in 1 .. n : (a \o x)[i] = t[i]
  <2> SUFFICES ASSUME NEW i \in 1 .. n PROVE (a \o x)[i] = t[i] OBVIOUS
  <2>1. CASE i <= k BY <2>1, <1>0, <1>2, <1>4
  <2>2. CASE ~(i <= k)
    <3>1. i - k \in 1 .. n - k /\ k + (i - k) = i BY <2>2, <1>0
    <3> QED BY <2>2, <3>1, <1>3, <1>4
  <2> QED BY <2>1, <2>2
<1>6. Begins(a \o x, g, n)
  <2>1. n \in 0 .. 2 + LenRec[g] BY <1>0
  <2> QED BY <2>1, <1>4, <1>5, BeginIs DEF t
<1>7. (buf \o up) \o x = buf \o (up \o x)
  <2>1. Associates(U!Units) BY ConcatenationLaws
  <2> QED BY <1>3, <2>1, Zenon DEF Associates
<1> QED BY <1>3, <1>6, <1>7 DEF a, x, t

----------------------------------------------------------------------------
(* The loop over the buffer.                                                 *)

Turns == [do : {"turn", "wait", "close", "info", "wght"}, rest : Seq(U!Units),
          recs : Seq(Seq(U!Units))]
Starts(buf) == [do |-> "turn", rest |-> buf, recs |-> <<>>]

\* A turn makes a turn of a turn.
LEMMA TurnTypes == \A r \in Turns : U!Turn(r) \in Turns
<1> SUFFICES ASSUME NEW r \in Turns PROVE U!Turn(r) \in Turns OBVIOUS
<1> DEFINE b == r.rest
           n == 2 + b[2].n
           x == SubSeq(b, 3, n)
           y == SubSeq(b, n + 1, Len(b))
           a == Append(r.recs, x)
<1>1. b \in Seq(U!Units) /\ r.recs \in Seq(Seq(U!Units)) BY DEF Turns
<1>2. Tail(b) \in Seq(U!Units) \/ b = <<>> BY <1>1
<1>3. ~(Len(b) <= 2) /\ U!Whole(b) => x \in Seq(U!Units) /\ y \in Seq(U!Units)
  <2> SUFFICES ASSUME ~(Len(b) <= 2), U!Whole(b)
               PROVE  x \in Seq(U!Units) /\ y \in Seq(U!Units)
    OBVIOUS
  <2>1. \A i \in 1 .. Len(b) : b[i] \in U!Units BY <1>1, ElementOfSeq
  <2>2. n \in Nat /\ n >= 2
    <3>1. b[2] \in U!Units BY <2>1, <1>1
    <3>2. b[2].n \in Nat BY <3>1 DEF U!Units
    <3> QED BY <3>2
  <2>3. n <= Len(b) BY DEF U!Whole
  <2> HIDE DEF b, n
  <2>4. x \in Seq(U!Units)
    <3>1. \A i \in 3 .. n : b[i] \in U!Units BY <2>1, <2>2, <2>3, <1>1
    <3>2. n \in Int /\ 3 \in Int BY <2>2
    <3> QED BY <3>1, <3>2, <1>1, SubSeqProperties
  <2>5. y \in Seq(U!Units)
    <3>1. n \in 0 .. Len(b) BY <2>2, <2>3, <1>1
    <3> QED BY <3>1, <1>1, Cut
  <2> QED BY <2>4, <2>5
<1>4. U!Turn(r) \in {r} \union {[r EXCEPT !.do = d] : d \in {"wait", "close", "info", "wght"}}
                    \union (IF b = <<>> THEN {} ELSE {[[r EXCEPT !.do = "info"] EXCEPT !.rest = Tail(b)]})
                    \union (IF ~(Len(b) <= 2) /\ U!Whole(b)
                            THEN {[r EXCEPT !.rest = y, !.recs = Append(@, x)]} ELSE {})
  <2> HIDE DEF x, y
  <2> QED BY Zenon DEF U!Turn, x, y
<1> HIDE DEF b, n, x, y
<1>5. \A d \in {"wait", "close", "info", "wght"} : [r EXCEPT !.do = d] \in Turns BY DEF Turns
<1>6. b # <<>> => [[r EXCEPT !.do = "info"] EXCEPT !.rest = Tail(b)] \in Turns BY <1>1, <1>2 DEF Turns
<1>7. ~(Len(b) <= 2) /\ U!Whole(b) => [r EXCEPT !.rest = y, !.recs = Append(@, x)] \in Turns
  <2> SUFFICES ASSUME ~(Len(b) <= 2), U!Whole(b)
               PROVE  [r EXCEPT !.rest = y, !.recs = Append(@, x)] \in Turns
    OBVIOUS
  <2>1. Append(r.recs, x) \in Seq(Seq(U!Units)) BY <1>1, <1>3
  <2> QED BY <2>1, <1>3 DEF Turns
<1> QED BY <1>4, <1>5, <1>6, <1>7

\* A turn that has stopped stays as it is, and the loop is through after as many turns
\* as there are units, and one.
LEMMA ParseIs ==
  ASSUME NEW buf \in Seq(U!Units)
  PROVE  \E f : /\ f[0] = Starts(buf) /\ U!Parse(buf) = f[Len(buf) + 1]
                /\ U!Parse(buf) \in Turns
                /\ \A i \in Nat : f[i + 1] = U!Turn(f[i])
                /\ \A i, j \in Nat : i <= j /\ f[i].do # "turn" => f[j] = f[i]
<1> DEFINE F == [i \in Nat |-> [r \in Turns |-> U!Turn(r)]]
           v == Starts(buf)
           T(f) == f = [i \in Nat |-> IF i = 0 THEN v ELSE U!Turn(f[i - 1])]
<1>1. v \in Turns BY DEF Turns, Starts
<1>2. F \in [Nat -> [Turns -> Turns]] BY TurnTypes
<1>3. PICK g : Defined(g, Turns, v, F)
  <2> HIDE DEF F, v
  <2> QED BY <1>1, <1>2, Recursion
<1>4. /\ g \in [Nat -> Turns] /\ g[0] = v
      /\ \A i \in Nat : g[i + 1] = U!Turn(g[i])
  <2>1. /\ g \in [Nat -> Turns] /\ g[0] = v
        /\ \A i \in Nat : g[i + 1] = F[i][g[i]]
    BY <1>3 DEF Defined
  <2>2. \A i \in Nat : F[i][g[i]] = U!Turn(g[i]) BY <2>1
  <2> HIDE DEF F, v
  <2> QED BY <2>1, <2>2
<1>5. T(g)
  <2> HIDE DEF v
  <2>1. ASSUME NEW i \in Nat PROVE g[i] = IF i = 0 THEN v ELSE U!Turn(g[i - 1])
    <3>1. i # 0 => i - 1 \in Nat /\ (i - 1) + 1 = i OBVIOUS
    <3> QED BY <3>1, <1>4
  <2>2. g = [i \in Nat |-> g[i]] BY <1>4
  <2> QED BY <2>1, <2>2
<1> DEFINE f == CHOOSE f : T(f)
<1>6. T(f)
  <2> HIDE DEF T
  <2> QED BY <1>5
<1>7. U!Parse(buf) = f[Len(buf) + 1]
  <2> DEFINE t[i \in Nat] == IF i = 0 THEN [do |-> "turn", rest |-> buf, recs |-> <<>>]
                                      ELSE U!Turn(t[i - 1])
  <2>1. U!Parse(buf) = t[Len(buf) + 1] BY DEF U!Parse
  <2>2. t = f BY Zenon DEF Starts
  <2> HIDE DEF t
  <2> QED BY <2>1, <2>2
<1> HIDE DEF f, F, v
<1>8. f[0] = v /\ \A i \in Nat : f[i + 1] = U!Turn(f[i])
  <2>1. \A i \in Nat : f[i] = IF i = 0 THEN v ELSE U!Turn(f[i - 1]) BY <1>6
  <2>2. \A i \in Nat : i + 1 \in Nat /\ i + 1 # 0 /\ (i + 1) - 1 = i OBVIOUS
  <2> HIDE DEF T
  <2> QED BY <2>1, <2>2
<1> HIDE DEF T
<1>9. \A i \in Nat : f[i] \in Turns
  <2> DEFINE D == {i \in Nat : f[i] \in Turns}
  <2>0. \A i \in Nat : f[i] \in Turns => f[i + 1] \in Turns BY <1>8, TurnTypes
  <2>1. 0 \in D /\ \A i \in Nat : i \in D => i + 1 \in D
    <3>1. f[0] \in Turns BY <1>1, <1>8
    <3> QED BY <3>1, <2>0
  <2>2. Nat \subseteq D
    <3> HIDE DEF D
    <3> QED BY <2>1, AllNumbers
  <2> QED BY <2>2
<1>10. ASSUME NEW i \in Nat, f[i].do # "turn", NEW j \in Nat, i <= j PROVE f[j] = f[i]
  <2> DEFINE D == {k \in i .. j : f[k] = f[i]}
  <2>1. i \in D BY <1>10
  <2>2. \A k \in i .. j - 1 : k \in D => k + 1 \in D
    <3> SUFFICES ASSUME NEW k \in i .. j - 1, f[k] = f[i] PROVE f[k + 1] = f[i] OBVIOUS
    <3>1. k \in Nat BY <1>10
    <3>2. f[k + 1] = U!Turn(f[k]) BY <3>1, <1>8
    <3>3. U!Turn(f[k]) = f[k] BY <1>10 DEF U!Turn
    <3> QED BY <3>2, <3>3
  <2>3. i .. j \subseteq D
    <3> HIDE DEF D
    <3> QED BY <2>1, <2>2, AllBetween
  <2> QED BY <2>3, <1>10
<1>11. Len(buf) + 1 \in Nat OBVIOUS
<1> QED BY <1>7, <1>8, <1>9, <1>10, <1>11 DEF v

\* What the loop ends with is the result of a turn.
LEMMA ParseTypes == \A buf \in Seq(U!Units) : U!Parse(buf) \in Turns
<1> SUFFICES ASSUME NEW buf \in Seq(U!Units) PROVE U!Parse(buf) \in Turns OBVIOUS
<1>1. PICK f : U!Parse(buf) \in Turns BY ParseIs
<1> QED BY <1>1

\* A loop that stops in its first turn.
LEMMA ParseOnce ==
  ASSUME NEW buf \in Seq(U!Units), U!Turn(Starts(buf)).do # "turn"
  PROVE  U!Parse(buf) = U!Turn(Starts(buf))
<1>1. PICK f : /\ f[0] = Starts(buf) /\ U!Parse(buf) = f[Len(buf) + 1]
               /\ \A i \in Nat : f[i + 1] = U!Turn(f[i])
               /\ \A i, j \in Nat : i <= j /\ f[i].do # "turn" => f[j] = f[i]
  BY ParseIs
<1>2. f[1] = U!Turn(Starts(buf))
  <2>1. f[0 + 1] = U!Turn(f[0]) BY <1>1
  <2> QED BY <2>1, <1>1
<1>3. Len(buf) + 1 \in Nat /\ 1 <= Len(buf) + 1 OBVIOUS
<1> QED BY <1>1, <1>2, <1>3

\* A loop that stops in its second turn.
LEMMA ParseTwice ==
  ASSUME NEW buf \in Seq(U!Units), buf # <<>>, U!Turn(U!Turn(Starts(buf))).do # "turn"
  PROVE  U!Parse(buf) = U!Turn(U!Turn(Starts(buf)))
<1>1. PICK f : /\ f[0] = Starts(buf) /\ U!Parse(buf) = f[Len(buf) + 1]
               /\ \A i \in Nat : f[i + 1] = U!Turn(f[i])
               /\ \A i, j \in Nat : i <= j /\ f[i].do # "turn" => f[j] = f[i]
  BY ParseIs
<1>2. f[2] = U!Turn(U!Turn(Starts(buf)))
  <2>1. f[0 + 1] = U!Turn(f[0]) /\ f[1 + 1] = U!Turn(f[1]) BY <1>1
  <2> QED BY <2>1, <1>1
<1>3. Len(buf) + 1 \in Nat /\ 2 <= Len(buf) + 1
  <2>1. Len(buf) # 0 BY EmptySeq
  <2> QED BY <2>1
<1> QED BY <1>1, <1>2, <1>3

\* Nothing is waited for.
LEMMA ParseNothing == U!Parse(<<>>) = [do |-> "wait", rest |-> <<>>, recs |-> <<>>]
<1> DEFINE e == <<>>
<1>1. e \in Seq(U!Units) OBVIOUS
<1>2. U!Turn(Starts(e)) = [do |-> "wait", rest |-> <<>>, recs |-> <<>>] BY DEF U!Turn, Starts
<1> HIDE DEF e
<1>3. U!Parse(e) = U!Turn(Starts(e)) BY <1>1, <1>2, ParseOnce
<1> QED BY <1>2, <1>3 DEF e

\* The beginning of a record stays in the buffer, or the record is too long.
LEMMA ParsePart ==
  ASSUME NEW g \in U!Games, NEW k \in 1 .. 2 + LenRec[g], NEW buf, Begins(buf, g, k),
         k < 2 + LenRec[g] \/ MaxRecv < 2 + LenRec[g]
  PROVE  /\ U!Parse(buf).do \in {"wait", "close"} /\ U!Parse(buf).recs = <<>>
         /\ U!Parse(buf).do = "wait" => U!Parse(buf).rest = buf
<1> DEFINE n == 2 + LenRec[g]
           r == Starts(buf)
<1>0. LenRec[g] \in Nat /\ MaxRecv \in Nat /\ k \in 0 .. 2 + LenRec[g] BY UpFacts, UploadAssumption
<1>1. buf \in Seq(U!Units) /\ Len(buf) = k /\ \A i \in 1 .. k : buf[i] = U!Stream(g)[i]
  BY <1>0, BeginFacts
<1>2. buf # <<>> /\ buf[1].k = "rec" /\ (Len(buf) > 2 => buf[2].n = LenRec[g])
  <2>1. buf[1] = U!Stream(g)[1] BY <1>0, <1>1
  <2>2. Len(buf) > 2 => buf[2] = U!Stream(g)[2] BY <1>0, <1>1
  <2>3. buf # <<>> BY <1>0, <1>1
  <2> QED BY <2>1, <2>2, <2>3, StreamFacts
<1>3. r.do = "turn" /\ r.rest = buf /\ r.recs = <<>> BY DEF Starts
<1>4. U!Turn(r) = IF Len(buf) <= 2 THEN [r EXCEPT !.do = "wait"]
                  ELSE IF MaxRecv < n THEN [r EXCEPT !.do = "close"]
                  ELSE [r EXCEPT !.do = "wait"]
  <2>1. ~(MaxRecv < n) => k < n OBVIOUS
  <2>2. Len(buf) > 2 => (U!Whole(buf) <=> k >= n) BY <1>1, <1>2 DEF U!Whole
  <2>3. ~(Len(buf) <= 2) => Len(buf) > 2 BY <1>1, <1>0
  <2>4. k < n => ~(k >= n) BY <1>0
  <2>5. Len(buf) > 2 => 2 + buf[2].n = n BY <1>2
  <2> HIDE DEF n, r
  <2>6. CASE Len(buf) <= 2 BY <2>6, <1>2, <1>3 DEF U!Turn
  <2>7. CASE Len(buf) > 2 /\ MaxRecv < n BY <2>7, <2>3, <2>5, <1>1, <1>0, <1>2, <1>3 DEF U!Turn
  <2>8. CASE Len(buf) > 2 /\ ~(MaxRecv < n)
    <3>1. ~U!Whole(buf) BY <2>8, <2>1, <2>2, <2>4
    <3>2. ~(Len(buf) <= 2) BY <2>8, <1>1, <1>0
    <3> QED BY <3>1, <3>2, <2>8, <2>5, <1>2, <1>3 DEF U!Turn
  <2> QED BY <2>3, <2>6, <2>7, <2>8
<1>5. [r EXCEPT !.do = "wait"] = [do |-> "wait", rest |-> buf, recs |-> <<>>]
      /\ [r EXCEPT !.do = "close"] = [do |-> "close", rest |-> buf, recs |-> <<>>]
  BY DEF Starts
<1> HIDE DEF n, r
<1>6. U!Turn(r).do # "turn" BY <1>4, <1>5
<1>7. U!Parse(buf) = U!Turn(r) BY <1>1, <1>6, ParseOnce DEF r
<1> QED BY <1>4, <1>5, <1>7

\* A whole one that fits is taken, and nothing is left.
LEMMA ParseWhole ==
  ASSUME NEW g \in U!Games, NEW buf, Begins(buf, g, 2 + LenRec[g]), 2 + LenRec[g] <= MaxRecv
  PROVE  U!Parse(buf) = [do |-> "wait", rest |-> <<>>, recs |-> <<U!Body(g)>>]
<1> DEFINE n == 2 + LenRec[g]
           r == Starts(buf)
           s == [do |-> "turn", rest |-> <<>>, recs |-> <<U!Body(g)>>]
<1>0. LenRec[g] \in Nat \ {0} /\ MaxRecv \in Nat /\ n \in 0 .. 2 + LenRec[g] BY UpFacts, UploadAssumption
<1>1. buf \in Seq(U!Units) /\ Len(buf) = n /\ \A i \in 1 .. n : buf[i] = U!Stream(g)[i]
  BY <1>0, BeginFacts
<1>2. buf # <<>> /\ buf[1].k = "rec" /\ buf[2].n = LenRec[g]
  <2>1. buf[1] = U!Stream(g)[1] /\ buf[2] = U!Stream(g)[2] BY <1>0, <1>1
  <2>3. buf # <<>> BY <1>0, <1>1
  <2> QED BY <2>1, <2>3, StreamFacts
<1>3. r.do = "turn" /\ r.rest = buf /\ r.recs = <<>> BY DEF Starts
<1>4. U!Whole(buf) /\ ~(Len(buf) <= 2) BY <1>0, <1>1, <1>2 DEF U!Whole
<1>5. SubSeq(buf, 3, n) = U!Body(g)
  <2> DEFINE x == SubSeq(buf, 3, n)
  <2>1. \A i \in 3 .. n : buf[i] \in U!Units
    <3>1. \A i \in 1 .. Len(buf) : buf[i] \in U!Units BY <1>1, ElementOfSeq
    <3> QED BY <3>1, <1>0, <1>1
  <2>2. x \in Seq(U!Units) /\ Len(x) = LenRec[g] BY <1>0, <1>1, <2>1, SubSeqProperties
  <2>3. \A i \in 1 .. LenRec[g] : x[i] = buf[2 + i]
    <3> SUFFICES ASSUME NEW i \in 1 .. LenRec[g] PROVE x[i] = buf[2 + i] OBVIOUS
    <3>1. i \in 1 .. n - 3 + 1 /\ 3 + i - 1 = 2 + i BY <1>0
    <3> QED BY <3>1, <1>0, <1>1, <2>1, SubSeqProperties
  <2>4. \A i \in 1 .. LenRec[g] : x[i] = U!Body(g)[i]
    <3> SUFFICES ASSUME NEW i \in 1 .. LenRec[g] PROVE x[i] = U!Body(g)[i] OBVIOUS
    <3>1. 2 + i \in 1 .. n BY <1>0
    <3>2. buf[2 + i] = U!Stream(g)[2 + i] BY <3>1, <1>1
    <3> QED BY <3>2, <2>3, StreamFacts
  <2> HIDE DEF x
  <2>5. x = U!Body(g) BY <2>2, <2>4, StreamFacts, SeqEqual
  <2> QED BY <2>5 DEF x
<1>6. SubSeq(buf, n + 1, Len(buf)) = <<>> BY <1>0, <1>1, SubSeqProperties
<1>7. U!Turn(r) = s
  <2>1. U!Turn(r) = [r EXCEPT !.rest = SubSeq(buf, n + 1, Len(buf)), !.recs = Append(@, SubSeq(buf, 3, n))]
    <3>1. 2 + buf[2].n = n BY <1>2
    <3>2. ~(MaxRecv < n) BY <1>0
    <3> HIDE DEF n, r
    <3> QED BY <3>1, <3>2, <1>2, <1>3, <1>4 DEF U!Turn
  <2>2. Append(<<>>, U!Body(g)) = <<U!Body(g)>> OBVIOUS
  <2> QED BY <2>1, <2>2, <1>5, <1>6 DEF Starts
<1>8. U!Turn(s) = [do |-> "wait", rest |-> <<>>, recs |-> <<U!Body(g)>>] BY DEF U!Turn
<1> HIDE DEF r, s
<1>9. U!Parse(buf) = U!Turn(U!Turn(r)) BY <1>1, <1>2, <1>7, <1>8, ParseTwice DEF r
<1> QED BY <1>7, <1>8, <1>9

\* The questions of a download.
LEMMA ParseQuestion ==
  /\ U!Parse(InfoAsked) = [do |-> "info", rest |-> <<>>, recs |-> <<>>]
  /\ U!Parse(<<U!Cmd("wght")>>) = [do |-> "wght", rest |-> <<U!Cmd("wght")>>, recs |-> <<>>]
  /\ \A i \in Nat : U!Parse(BlockAsked(i)) = [do |-> "wght", rest |-> BlockAsked(i), recs |-> <<>>]
<1>1. U!Parse(InfoAsked) = [do |-> "info", rest |-> <<>>, recs |-> <<>>]
  <2> DEFINE b == InfoAsked
  <2>1. b \in Seq(U!Units) /\ b # <<>> /\ b[1].k = "info" /\ Tail(b) = <<>>
    <3>1. U!Cmd("info") \in U!Units /\ U!Cmd("info").k = "info" BY UnitTypes
    <3> QED BY <3>1 DEF InfoAsked
  <2>2. U!Turn(Starts(b)) = [do |-> "info", rest |-> <<>>, recs |-> <<>>]
    <3> HIDE DEF b
    <3> QED BY <2>1 DEF U!Turn, Starts
  <2> QED BY <2>1, <2>2, ParseOnce
<1>2. ASSUME NEW b \in Seq(U!Units), b # <<>>, b[1].k = "wght"
      PROVE  U!Parse(b) = [do |-> "wght", rest |-> b, recs |-> <<>>]
  <2>1. U!Turn(Starts(b)) = [do |-> "wght", rest |-> b, recs |-> <<>>] BY <1>2 DEF U!Turn, Starts
  <2> QED BY <1>2, <2>1, ParseOnce
<1>3. U!Parse(<<U!Cmd("wght")>>) = [do |-> "wght", rest |-> <<U!Cmd("wght")>>, recs |-> <<>>]
  <2> DEFINE b == <<U!Cmd("wght")>>
  <2>1. b \in Seq(U!Units) /\ b # <<>> /\ b[1].k = "wght"
    <3>1. U!Cmd("wght") \in U!Units /\ U!Cmd("wght").k = "wght" BY UnitTypes
    <3> QED BY <3>1
  <2> HIDE DEF b
  <2>2. U!Parse(b) = [do |-> "wght", rest |-> b, recs |-> <<>>] BY <2>1, <1>2
  <2> QED BY <2>2 DEF b
<1>4. ASSUME NEW i \in Nat
      PROVE  U!Parse(BlockAsked(i)) = [do |-> "wght", rest |-> BlockAsked(i), recs |-> <<>>]
  <2>1. U!Cmd("wght") \in U!Units /\ U!Cmd("wght").k = "wght" /\ U!Num(i) \in U!Units BY UnitTypes
  <2>2. BlockAsked(i) \in Seq(U!Units) /\ BlockAsked(i) # <<>> /\ BlockAsked(i)[1].k = "wght"
    BY <2>1 DEF BlockAsked
  <2> QED BY <2>2, <1>2
<1> QED BY <1>1, <1>3, <1>4

----------------------------------------------------------------------------
(* What is sent of a weight.                                                 *)

Joins(a, b, c) == a \o b = c

\* Parts that follow parts.
LEMMA PartsFollow ==
  ASSUME NEW w \in Nat, NEW a \in Nat, NEW s \in Nat, NEW n \in Nat
  PROVE  /\ Parts(w, a, s) \in Seq(U!Units) /\ Len(Parts(w, a, s)) = s
         /\ Joins(Parts(w, a, s), Parts(w, a + s, n), Parts(w, a, s + n))
<1> DEFINE x == Parts(w, a, s)
           y == Parts(w, a + s, n)
           z == Parts(w, a, s + n)
<1>1. ASSUME NEW b \in Nat, NEW m \in Nat
      PROVE  /\ Parts(w, b, m) \in Seq(U!Units) /\ Len(Parts(w, b, m)) = m
             /\ \A j \in 1 .. m : Parts(w, b, m)[j] = U!Unit("part", w, b + j)
  <2>1. Parts(w, b, m) = [j \in 1 .. m |-> U!Unit("part", w, b + j)] BY DEF Parts
  <2>2. \A j \in 1 .. m : U!Unit("part", w, b + j) \in U!Units
    <3>1. \A j \in 1 .. m : b + j \in Nat OBVIOUS
    <3> QED BY <3>1, UnitTypes
  <2> QED BY <2>1, <2>2
<1>2. /\ x \in Seq(U!Units) /\ Len(x) = s
      /\ \A j \in 1 .. s : x[j] = U!Unit("part", w, a + j)
  BY <1>1
<1>3. /\ y \in Seq(U!Units) /\ Len(y) = n
      /\ \A j \in 1 .. n : y[j] = U!Unit("part", w, a + s + j)
  <2>1. a + s \in Nat OBVIOUS
  <2> QED BY <2>1, <1>1
<1>4. /\ z \in Seq(U!Units) /\ Len(z) = s + n
      /\ \A j \in 1 .. s + n : z[j] = U!Unit("part", w, a + j)
  <2>1. s + n \in Nat OBVIOUS
  <2> QED BY <2>1, <1>1
<1> HIDE DEF x, y, z
<1>5. /\ x \o y \in Seq(U!Units) /\ Len(x \o y) = s + n
      /\ \A j \in 1 .. s + n : (x \o y)[j] = IF j <= s THEN x[j] ELSE y[j - s]
  BY <1>2, <1>3, ConcatProperties
<1>6. \A j \in 1 .. s + n : (x \o y)[j] = z[j]
  <2> SUFFICES ASSUME NEW j \in 1 .. s + n PROVE (x \o y)[j] = z[j] OBVIOUS
  <2>1. CASE j <= s BY <2>1, <1>2, <1>4, <1>5
  <2>2. CASE ~(j <= s)
    <3>1. j - s \in 1 .. n /\ a + s + (j - s) = a + j BY <2>2
    <3>2. y[j - s] = U!Unit("part", w, a + s + (j - s)) BY <3>1, <1>3
    <3> QED BY <2>2, <3>1, <3>2, <1>4, <1>5
  <2> QED BY <2>1, <2>2
<1>7. x \o y = z BY <1>4, <1>5, <1>6, SeqEqual
<1> QED BY <1>2, <1>7 DEF x, y, z, Joins

\* A weight's blocks: each but the last has LenBlock parts, the last one the rest, and
\* none is empty.
LEMMA BlockFacts ==
  ASSUME NEW w \in DOMAIN LenWght
  PROVE  /\ U!Blocks(w) \in Nat
         /\ 0 < U!Blocks(w)
         /\ \A i \in Nat : LenBlock * i \in Nat
         /\ \A i \in Nat : i < U!Blocks(w) =>
              /\ LenBlock * i < LenWght[w] /\ BlockLen(w, i) \in Nat \ {0}
              /\ i + 1 < U!Blocks(w) => LenBlock * i + BlockLen(w, i) = LenBlock * (i + 1)
              /\ ~(i + 1 < U!Blocks(w)) => LenBlock * i + BlockLen(w, i) = LenWght[w]
<1> DEFINE L == LenWght[w]
           B == LenBlock
           q == L \div B
           r == L % B
           N == U!Blocks(w)
<1>1. L \in Nat \ {0} /\ B \in Nat \ {0} BY UpFacts, UploadAssumption
<1>2. N = q + (IF r > 0 THEN 1 ELSE 0) BY DEF U!Blocks
<1>3. \A i \in Nat : BlockLen(w, i) = IF L - B * i < B THEN L - B * i ELSE B BY DEF BlockLen
<1> HIDE DEF L, B, N
<1>4. q \in Nat /\ r \in 0 .. B - 1 /\ L = B * q + r BY <1>1
<1> HIDE DEF q, r
<1>5. N \in Nat BY <1>2, <1>4
<1>6. \A i \in Nat : B * i \in Nat /\ B * (i + 1) = B * i + B BY <1>1
<1>7. \A i \in Nat : i <= q => B * i <= B * q BY <1>1, <1>4
<1>8. 0 < N
  <2>1. CASE r > 0 BY <2>1, <1>2, <1>4
  <2>2. CASE ~(r > 0)
    <3>1. r = 0 /\ B * q # 0 BY <2>2, <1>1, <1>4
    <3>2. q # 0 BY <3>1, <1>1
    <3> QED BY <2>2, <3>2, <1>2, <1>4
  <2> QED BY <2>1, <2>2
<1>9. ASSUME NEW i \in Nat, i < N
      PROVE  /\ B * i < L /\ BlockLen(w, i) \in Nat \ {0}
             /\ i + 1 < N => B * i + BlockLen(w, i) = B * (i + 1)
             /\ ~(i + 1 < N) => B * i + BlockLen(w, i) = L
  <2>1. B * i \in Nat /\ B * (i + 1) = B * i + B /\ B * (i + 1) \in Nat /\ B * q \in Nat BY <1>1, <1>4, <1>6
  <2>2. BlockLen(w, i) = IF L - B * i < B THEN L - B * i ELSE B BY <1>3
  <2>3. CASE r > 0
    <3>1. N = q + 1 BY <2>3, <1>2
    <3>2. i <= q BY <3>1, <1>4, <1>9
    <3>3. B * i <= B * q BY <3>2, <1>7
    <3>4. B * i < L BY <3>3, <2>3, <2>1, <1>4
    <3>5. i + 1 < N => L - B * i >= B
      <4> SUFFICES ASSUME i + 1 < N PROVE L - B * i >= B OBVIOUS
      <4>1. i + 1 <= q /\ i + 1 \in Nat BY <3>1, <1>4
      <4>2. B * (i + 1) <= B * q BY <4>1, <1>7
      <4> QED BY <4>2, <2>1, <1>1, <1>4
    <3>6. ~(i + 1 < N) => L - B * i < B
      <4> SUFFICES ASSUME ~(i + 1 < N) PROVE L - B * i < B OBVIOUS
      <4>1. i = q BY <3>1, <3>2, <1>4
      <4> QED BY <4>1, <2>1, <1>1, <1>4
    <3> QED BY <3>4, <3>5, <3>6, <2>1, <2>2, <1>1
  <2>4. CASE ~(r > 0)
    <3>1. N = q /\ r = 0 /\ L = B * q BY <2>4, <1>1, <1>2, <1>4
    <3>2. i + 1 <= q /\ i + 1 \in Nat BY <3>1, <1>4, <1>9
    <3>3. B * (i + 1) <= B * q BY <3>2, <1>7
    <3>4. B * i < L /\ L - B * i >= B BY <3>1, <3>3, <2>1, <1>1
    <3>5. ~(i + 1 < N) => L = B * (i + 1)
      <4> SUFFICES ASSUME ~(i + 1 < N) PROVE L = B * (i + 1) OBVIOUS
      <4>1. i + 1 = q BY <3>1, <3>2, <1>4
      <4> QED BY <4>1, <3>1
    <3> QED BY <3>4, <3>5, <2>1, <2>2, <1>1
  <2> QED BY <2>3, <2>4
<1> QED BY <1>5, <1>6, <1>8, <1>9 DEF N, L, B

\* One turn of handle_send() goes on with the block, and by one part at least.
LEMMA PieceFacts ==
  ASSUME NEW p \in PeerSlots, NEW w \in DOMAIN LenWght, p.wght = w,
         LenBlock * p.iblock <= LenWght[w], p.sent <= BlockLen(w, p.iblock)
  PROVE  /\ BlockLen(w, p.iblock) \in Nat /\ U!Piece(p).out \in Seq(U!Units)
         /\ U!Piece(p).sent \in p.sent .. BlockLen(w, p.iblock)
         /\ U!Piece(p).done <=> U!Piece(p).sent = BlockLen(w, p.iblock)
         /\ p.sent < BlockLen(w, p.iblock) =>
              /\ U!Piece(p).sent > p.sent
              /\ Answer(w, p.iblock, p.sent) \o U!Piece(p).out = Answer(w, p.iblock, U!Piece(p).sent)
              /\ p.sent # 0 =>
                   Parts(w, LenBlock * p.iblock, p.sent) \o U!Piece(p).out
                     = Parts(w, LenBlock * p.iblock, U!Piece(p).sent)
<1> DEFINE start == LenBlock * p.iblock
           whole == BlockLen(w, p.iblock)
           head  == IF p.sent = 0 THEN <<U!Num(whole)>> ELSE <<>>
           room  == MaxSend - Len(head)
           n     == IF whole - p.sent < room THEN whole - p.sent ELSE room
           s     == p.sent
<1>1. s \in Nat /\ start \in Nat /\ w \in Nat /\ LenWght[w] \in Nat /\ LenBlock \in Nat
  <2>1. p.sent \in Nat /\ p.iblock \in Nat BY DEF PeerSlots
  <2> QED BY <2>1, UpFacts, UploadAssumption
<1>2. whole \in Nat BY <1>1 DEF BlockLen
<1>3. Len(head) \in {0, 1} /\ head \in Seq(U!Units)
  <2>1. U!Num(whole) \in U!Units BY <1>2, UnitTypes
  <2> QED BY <2>1
<1>4. n \in Nat /\ s + n \in Nat /\ s + n <= whole /\ (s < whole => n > 0)
  <2>1. room \in Nat /\ room > 0 BY <1>3, UploadAssumption
  <2>2. s <= whole OBVIOUS
  <2> HIDE DEF room, whole, s
  <2>3. CASE whole - s < room BY <2>1, <2>2, <2>3, <1>1, <1>2 DEF s
  <2>4. CASE ~(whole - s < room) BY <2>1, <2>2, <2>4, <1>1, <1>2 DEF s
  <2> QED BY <2>3, <2>4
<1>5. /\ U!Piece(p).out = head \o [j \in 1 .. n |-> U!Unit("part", p.wght, start + p.sent + j)]
      /\ U!Piece(p).sent = s + n /\ U!Piece(p).done = (s + n = whole)
  BY DEF U!Piece, BlockLen
<1>6. [j \in 1 .. n |-> U!Unit("part", p.wght, start + p.sent + j)] = Parts(w, start + s, n)
  BY DEF Parts
<1> HIDE DEF start, whole, room, n, s
<1>7. /\ Parts(w, start, s) \in Seq(U!Units) /\ Parts(w, start + s, n) \in Seq(U!Units)
      /\ Parts(w, start, s) \o Parts(w, start + s, n) = Parts(w, start, s + n)
  <2>1. start + s \in Nat BY <1>1
  <2>2. n \in Nat /\ s \in Nat /\ start \in Nat /\ w \in Nat BY <1>1, <1>4
  <2>3. Parts(w, start, s) \in Seq(U!Units) BY <2>2, PartsFollow
  <2>4. Parts(w, start + s, n) \in Seq(U!Units) BY <2>1, <2>2, PartsFollow
  <2>5. Parts(w, start, s) \o Parts(w, start + s, n) = Parts(w, start, s + n)
    <3>1. Joins(Parts(w, start, s), Parts(w, start + s, n), Parts(w, start, s + n))
      BY <2>2, PartsFollow
    <3> QED BY <3>1 DEF Joins
  <2> QED BY <2>3, <2>4, <2>5
<1>8. head \o Parts(w, start + s, n) \in Seq(U!Units)
  <2> HIDE DEF head
  <2> QED BY <1>3, <1>7, ConcatProperties
<1>9. ASSUME s < whole
      PROVE  /\ Answer(w, p.iblock, s) \o U!Piece(p).out = Answer(w, p.iblock, s + n)
             /\ s # 0 => Parts(w, start, s) \o U!Piece(p).out = Parts(w, start, s + n)
  <2>0. s + n # 0 BY <1>1, <1>4, <1>9
  <2>1. Answer(w, p.iblock, s + n) = <<U!Num(whole)>> \o Parts(w, start, s + n)
    BY <2>0 DEF Answer, whole, start
  <2>2. HasUnit(U!Units) /\ Associates(U!Units) BY ConcatenationLaws
  <2>3. CASE s = 0
    <3>1. start + s = start /\ s + n = n BY <2>3, <1>1, <1>4
    <3>2. Answer(w, p.iblock, s) = <<>> BY <2>3 DEF Answer
    <3>3. head = <<U!Num(whole)>> BY <2>3 DEF s
    <3>4. U!Piece(p).out = <<U!Num(whole)>> \o Parts(w, start, s + n) BY <3>1, <3>3, <1>5, <1>6
    <3>5. U!Piece(p).out \in Seq(U!Units) BY <1>5, <1>6, <1>8
    <3>6. <<>> \o U!Piece(p).out = U!Piece(p).out BY <3>5, <2>2, Zenon DEF HasUnit
    <3> QED BY <2>1, <2>3, <3>2, <3>4, <3>6
  <2>4. CASE s # 0
    <3>1. head = <<>> BY <2>4 DEF s
    <3>2. U!Piece(p).out = Parts(w, start + s, n)
      <4>1. U!Piece(p).out = head \o Parts(w, start + s, n) BY <1>5, <1>6
      <4>2. <<>> \o Parts(w, start + s, n) = Parts(w, start + s, n) BY <1>7, <2>2, Zenon DEF HasUnit
      <4> HIDE DEF head
      <4> QED BY <4>1, <4>2, <3>1
    <3>3. Answer(w, p.iblock, s) = <<U!Num(whole)>> \o Parts(w, start, s)
      BY <2>4 DEF Answer, whole, start
    <3> DEFINE h == <<U!Num(whole)>>
               x == Parts(w, start, s)
               y == Parts(w, start + s, n)
    <3>4. h \in Seq(U!Units)
      <4>1. U!Num(whole) \in U!Units BY <1>2, UnitTypes
      <4> QED BY <4>1
    <3>5. x \in Seq(U!Units) /\ y \in Seq(U!Units) /\ x \o y = Parts(w, start, s + n) BY <1>7
    <3>6. Answer(w, p.iblock, s) = h \o x /\ Answer(w, p.iblock, s + n) = h \o Parts(w, start, s + n)
      BY <2>1, <3>3
    <3> HIDE DEF h, x, y
    <3>7. (h \o x) \o y = h \o (x \o y) BY <3>4, <3>5, <2>2, Zenon DEF Associates
    <3>8. U!Piece(p).out = y BY <3>2 DEF y
    <3>9. Parts(w, start, s) = x BY DEF x
    <3> QED BY <3>5, <3>6, <3>7, <3>8, <3>9
  <2> QED BY <2>3, <2>4
<1>10. U!Piece(p).sent \in p.sent .. BlockLen(w, p.iblock)
  BY <1>1, <1>2, <1>4, <1>5 DEF s, whole
<1>11. U!Piece(p).out \in Seq(U!Units) BY <1>5, <1>6, <1>8
<1>12. U!Piece(p).done <=> U!Piece(p).sent = BlockLen(w, p.iblock) BY <1>5 DEF whole
<1>13. s < whole => s + n > s BY <1>1, <1>4
<1> QED BY <1>2, <1>5, <1>9, <1>10, <1>11, <1>12, <1>13 DEF s, whole, start

----------------------------------------------------------------------------
(* What a step leaves alone.                                                 *)

\* A download is as it was if its connection and its slot are.
LEMMA LoadsKept ==
  ASSUME Loads, ld' = ld, conn'[U!Loader] = conn[U!Loader],
         \A u \in UpSlots : peer'[u].sckt = U!Loader => peer'[u] = peer[u]
  PROVE  Loads'
<1>0. U!Loader' = U!Loader BY DEF U!Loader
<1>1. Unread' BY <1>0 DEF Loads, Unread
<1>2. HasRead' BY DEF Loads, HasRead
<1>3. ASSUME NEW u \in UpSlots, peer'[u].sckt = U!Loader
      PROVE  /\ OnItsWay(u)' \in Questions
             /\ ~conn'[U!Loader].rst => Asks(peer[u], conn[U!Loader], OnItsWay(u))'
  <2>1. peer'[u] = peer[u] /\ peer[u].sckt = U!Loader BY <1>3
  <2>2. OnItsWay(u)' = OnItsWay(u) BY <2>1 DEF OnItsWay
  <2>3. OnItsWay(u) \in Questions /\ (~conn[U!Loader].rst => Asks(peer[u], conn[U!Loader], OnItsWay(u)))
    BY <2>1 DEF Loads
  <2>4. ~conn[U!Loader].rst => Asks(peer[u], conn[U!Loader], OnItsWay(u))'
    BY <2>1, <2>2, <2>3, <1>0 DEF Asks
  <2> QED BY <2>2, <2>3, <2>4
<1>4. Questions' = Questions /\ UpSlots' = UpSlots BY DEF Questions, UpSlots
<1> QED BY <1>0, <1>1, <1>2, <1>3, <1>4 DEF Loads

\* And so are the games if the sender, its connections and their slots are.
LEMMA SendsKept ==
  ASSUME UpTypes, Sending, Arrives, Recorded, Sends, snd' = snd, via' = via, taken' = taken,
         conn' \in [Conns -> Connections],
         \A c \in U!Senders : conn'[c] = conn[c],
         \A u \in UpSlots : peer'[u].sckt \in U!Senders => peer'[u] = peer[u]
  PROVE  Sending' /\ Arrives' /\ Recorded' /\ Sends'
<1>0. UpSlots' = UpSlots /\ U!Senders' = U!Senders /\ U!Games' = U!Games
  BY DEF UpSlots, U!Senders, U!Games, U!Loader
<1>1. \A u \in UpSlots : peer'[u].sckt \in U!Senders => OnItsWay(u)' = OnItsWay(u)
  BY DEF OnItsWay
<1>2. Sending'
  <2> SUFFICES ASSUME NEW u \in UpSlots, snd.pc \in Hands, peer'[u].sckt = snd.c, ~conn'[snd.c].rst
               PROVE  OnItsWay(u)' = SubSeq(U!Stream(snd.game), 1, snd.cut)
    BY <1>0 DEF Sending, Hands, U!Stream, U!Body
  <2>1. snd.c \in U!Senders BY DEF Sends, Hands
  <2> QED BY <1>1, <2>1 DEF Sending
<1>3. Arrives'
  <2> SUFFICES ASSUME NEW g \in U!Games, via[g] # None_
               PROVE  /\ via[g] \in U!Senders /\ conn'[via[g]].st \in {"open", "shut"}
                      /\ \A u \in UpSlots : peer'[u].sckt = via[g] /\ ~conn'[via[g]].rst =>
                           \/ OnItsWay(u)' = U!Stream(g) /\ Len(peer'[u].buf) < 2 + LenRec[g]
                           \/ \E n \in DOMAIN taken : taken[n] = U!Body(g)
    BY <1>0 DEF Arrives, U!Stream, U!Body
  <2>1. via[g] \in U!Senders /\ conn[via[g]].st \in {"open", "shut"} BY DEF Arrives
  <2> QED BY <1>1, <2>1 DEF Arrives
<1>4. Recorded' BY <1>0 DEF Recorded, U!Body
<1>5. Sends'
  <2>1. ASSUME NEW u \in UpSlots, peer'[u].sckt \in U!Senders
        PROVE  Carries(peer[u], conn[peer[u].sckt].up, peer[u].sckt)'
    <3>1. peer'[u] = peer[u] /\ conn'[peer[u].sckt] = conn[peer[u].sckt] BY <2>1
    <3>2. Carries(peer[u], conn[peer[u].sckt].up, peer[u].sckt) BY <2>1, <3>1 DEF Sends
    <3> DEFINE up == conn[peer[u].sckt].up
               c  == peer[u].sckt
    <3>3. up' = up /\ c' = c BY <3>1
    <3> HIDE DEF up, c
    <3>4. Carries(peer[u], up, c)' BY <3>1, <3>2, <3>3 DEF Carries, up, c
    <3> QED BY <3>4 DEF up, c
  <2>2. \A c \in Conns : c > snd.c => conn'[c].st = "none"
    <3> SUFFICES ASSUME NEW c \in Conns, c > snd.c PROVE conn'[c].st = "none" OBVIOUS
    <3>1. snd.c \in Nat BY UpFacts DEF UpTypes, Sender
    <3>2. c # 0 BY <3>1
    <3> QED BY <3>2, UpFacts DEF Sends
  <2>3. snd.pc = "send" => conn'[snd.c].st \in {"open", "shut"} BY DEF Sends
  <2> QED BY <1>0, <2>1, <2>2, <2>3 DEF Sends, Hands
<1> QED BY <1>2, <1>3, <1>4, <1>5

\* A connection that is neither opened nor closed keeps its slot.
LEMMA SlotsKept ==
  ASSUME UpTypes, Slots, NEW x \in Conns, NEW k \in Connections, conn' = [conn EXCEPT ![x] = k],
         peer' = peer, k.st = "open" <=> conn[x].st = "open",
         k.st \in {"none", "backlog", "mute"} \/ k.rst => k.up = <<>> /\ k.down = <<>>
  PROVE  Slots'
<1>1. \A c \in Conns : conn'[c] = IF c = x THEN k ELSE conn[c] BY DEF UpTypes
<1>2. \A u \in UpSlots : peer[u].sckt # None_ => peer[u].sckt \in Conns BY DEF UpTypes, PeerSlots, UpSlots
<1>3. \A u \in UpSlots : CanSend(peer[u])' BY DEF Slots, CanSend, BlockLen
<1>4. UpSlots' = UpSlots BY DEF UpSlots
<1> QED BY <1>1, <1>2, <1>3, <1>4 DEF Slots

----------------------------------------------------------------------------
(* The sender.                                                               *)

\* The sender changes nothing but a connection of its own, and not whether it is open.
SenderTouches(x, k) ==
  /\ conn' = [conn EXCEPT ![x] = k]
  /\ peer' = peer /\ wght' = wght /\ taken' = taken /\ ld' = ld
  /\ k.st = "open" <=> conn[x].st = "open"
  /\ k.st \in {"none", "backlog", "mute"} \/ k.rst => k.up = <<>> /\ k.down = <<>>

\* A step of the sender at its connection leaves the slots and the download alone.
LEMMA SenderKeeps ==
  ASSUME UpInv, NEW x \in U!Senders, NEW k \in Connections, SenderTouches(x, k)
  PROVE  /\ Slots' /\ Loads' /\ conn' \in [Conns -> Connections]
         /\ \A c \in Conns : conn'[c] = IF c = x THEN k ELSE conn[c]
<1>0. x \in Conns /\ x # U!Loader /\ U!Loader \in Conns BY UpFacts
<1>1. Slots' BY <1>0, SlotsKept DEF UpInv, SenderTouches
<1>2. conn' \in [Conns -> Connections] /\ \A c \in Conns : conn'[c] = IF c = x THEN k ELSE conn[c]
  BY DEF UpInv, UpTypes, SenderTouches
<1>3. Loads' BY <1>0, <1>2, LoadsKept DEF UpInv, SenderTouches
<1> QED BY <1>1, <1>2, <1>3

\* A step after which the connections carry what they did, for the sender's part.
SameLines ==
  /\ conn' \in [Conns -> Connections]
  /\ \A c \in Conns : conn'[c].up = conn[c].up /\ conn'[c].st = conn[c].st /\ conn'[c].rst = conn[c].rst
  /\ peer' = peer /\ wght' = wght /\ taken' = taken /\ via' = via /\ ld' = ld

\* A step that keeps what is on its way keeps what slots are to know of it.
LEMMA LinesKept ==
  ASSUME UpInv, SameLines
  PROVE  /\ Arrives' /\ Recorded'
         /\ \A u \in UpSlots : peer[u].sckt # None_ => OnItsWay(u)' = OnItsWay(u)
         /\ \A u \in UpSlots : peer[u].sckt \in U!Senders =>
              Carries(peer[u], conn[peer[u].sckt].up, peer[u].sckt)'
<1>0. UpSlots' = UpSlots /\ U!Senders' = U!Senders /\ U!Games' = U!Games
  BY DEF UpSlots, U!Senders, U!Games, U!Loader
<1>1. ASSUME NEW u \in UpSlots, peer[u].sckt # None_ PROVE conn'[peer[u].sckt].up = conn[peer[u].sckt].up
  <2>1. peer[u].sckt \in Conns BY <1>1 DEF UpInv, UpTypes, PeerSlots, UpSlots
  <2> QED BY <2>1 DEF SameLines
<1>2. \A u \in UpSlots : peer[u].sckt # None_ => OnItsWay(u)' = OnItsWay(u)
  BY <1>1 DEF OnItsWay, SameLines
<1>3. Arrives'
  <2> SUFFICES ASSUME NEW g \in U!Games, via[g] # None_
               PROVE  /\ via[g] \in U!Senders /\ conn'[via[g]].st \in {"open", "shut"}
                      /\ \A u \in UpSlots : peer[u].sckt = via[g] /\ ~conn'[via[g]].rst =>
                           \/ OnItsWay(u)' = U!Stream(g) /\ Len(peer[u].buf) < 2 + LenRec[g]
                           \/ \E n \in DOMAIN taken : taken[n] = U!Body(g)
    BY <1>0 DEF Arrives, U!Stream, U!Body, SameLines
  <2>1. via[g] \in U!Senders /\ conn[via[g]].st \in {"open", "shut"} BY DEF UpInv, Arrives
  <2>2. via[g] \in Conns /\ via[g] # None_ BY <2>1, UpFacts
  <2> QED BY <1>2, <2>1, <2>2 DEF UpInv, Arrives, SameLines
<1>4. Recorded' BY <1>0 DEF UpInv, Recorded, U!Body, SameLines
<1>5. ASSUME NEW u \in UpSlots, peer[u].sckt \in U!Senders
      PROVE  Carries(peer[u], conn[peer[u].sckt].up, peer[u].sckt)'
  <2>1. Carries(peer[u], conn[peer[u].sckt].up, peer[u].sckt) BY <1>5 DEF UpInv, Sends
  <2>2. conn'[peer[u].sckt].up = conn[peer[u].sckt].up BY <1>1, <1>5, UpFacts
  <2> DEFINE up == conn[peer[u].sckt].up
             c  == peer[u].sckt
  <2>3. up' = up /\ c' = c /\ peer' = peer BY <2>2 DEF SameLines
  <2> HIDE DEF up, c
  <2>4. Carries(peer[u], up, c)' BY <2>1, <2>3, <1>0 DEF Carries, up, c, SameLines
  <2> QED BY <2>4 DEF up, c
<1> QED BY <1>2, <1>3, <1>4, <1>5

\* The sender has no connection in hand any more, or none yet.
LEMMA Rests ==
  ASSUME UpInv, SameLines, Slots', Loads', snd' \in Sender, snd'.c = snd.c,
         snd'.pc \in {"take", "block", "asleep", "connect", "end"},
         snd'.pc = "connect" => snd'.game \in U!Games,
         \A g \in U!Games : g > snd'.game \/ (g = snd'.game /\ snd'.pc = "connect") => via[g] = None_
  PROVE  UpInv'
<1>1. UpTypes' BY DEF UpInv, UpTypes, SameLines
<1>2. Sending' BY DEF Sending, Hands
<1>3. UpSlots' = UpSlots /\ U!Senders' = U!Senders /\ U!Games' = U!Games
  BY DEF UpSlots, U!Senders, U!Games, U!Loader
<1>4. Sends'
  <2>1. \A u \in UpSlots : peer'[u].sckt \in U!Senders =>
          Carries(peer[u], conn[peer[u].sckt].up, peer[u].sckt)'
    BY LinesKept DEF SameLines
  <2>2. \A c \in Conns : c > snd'.c => conn'[c].st = "none" BY DEF UpInv, Sends, SameLines
  <2> QED BY <2>1, <2>2, <1>3 DEF UpInv, Sends, Hands, SameLines
<1> QED BY <1>1, <1>2, <1>4, LinesKept DEF UpInv

\* Where no connection is touched.
LEMMA Untouched ==
  ASSUME UpInv, conn' = conn, peer' = peer, ld' = ld
  PROVE  /\ Slots' /\ Loads' /\ conn' \in [Conns -> Connections]
         /\ \A c \in Conns : conn'[c].up = conn[c].up /\ conn'[c].st = conn[c].st
                             /\ conn'[c].rst = conn[c].rst
<1>1. Slots' BY DEF UpInv, Slots, CanSend, BlockLen, UpSlots
<1>2. Loads' BY LoadsKept DEF UpInv
<1>3. conn' \in [Conns -> Connections] BY DEF UpInv, UpTypes
<1> QED BY <1>1, <1>2, <1>3

\* The next game is taken from the queue.
LEMMA TakeKeeps == ASSUME UpInv, U!Take PROVE UpInv'
<1>0. snd \in Sender /\ snd.game < NRec /\ NRec \in Nat
  BY UploadAssumption DEF UpInv, UpTypes, U!Take
<1>1. conn' = conn /\ peer' = peer /\ wght' = wght /\ taken' = taken /\ via' = via /\ ld' = ld
  BY DEF U!Take, U!peerVars, U!records
<1>2. snd' \in Sender /\ snd'.pc = "connect" /\ snd'.game = snd.game + 1 /\ snd'.c = snd.c
  <2>1. snd.game + 1 \in 0 .. NRec BY <1>0 DEF Sender
  <2> QED BY <1>0, <2>1 DEF U!Take, Sender
<1>3. SameLines BY <1>1, Untouched DEF SameLines
<1>4. snd'.game \in U!Games BY <1>0, <1>2 DEF Sender, U!Games
<1>5. \A g \in U!Games : g > snd'.game \/ (g = snd'.game /\ snd'.pc = "connect") => via[g] = None_
  <2>1. \A g \in U!Games : g > snd.game => via[g] = None_ BY DEF UpInv, Sends
  <2>2. snd.game \in Nat BY <1>0 DEF Sender
  <2> QED BY <1>2, <2>1, <2>2, UpFacts
<1> QED BY <1>1, <1>2, <1>3, <1>4, <1>5, Rests, Untouched

\* The sender goes to another place, where it has no connection in hand.
LEMMA GoesKeeps ==
  ASSUME UpInv, conn' = conn, peer' = peer, wght' = wght, taken' = taken, via' = via, ld' = ld,
         NEW to \in {"take", "block", "asleep", "end"}, snd' = [snd EXCEPT !.pc = to]
  PROVE  UpInv'
<1>0. snd \in Sender BY DEF UpInv, UpTypes
<1>2. snd' \in Sender /\ snd'.pc = to /\ snd'.game = snd.game /\ snd'.c = snd.c
  BY <1>0 DEF Sender
<1>3. SameLines BY Untouched DEF SameLines
<1>5. \A g \in U!Games : g > snd'.game => via[g] = None_
  BY <1>0, <1>2, UpFacts DEF UpInv, Sends, Sender
<1> QED BY <1>2, <1>3, <1>5, Rests, Untouched

\* The sender comes back to pop(), blocks in it, wakes up in it, or ends.
LEMMA PopKeeps ==
  ASSUME UpInv, U!Leave \/ U!Block \/ U!Sleep \/ U!Wakeup \/ U!Drop
  PROVE  UpInv'
<1>1. PICK to \in {"take", "block", "asleep", "end"} : \E from : U!Goes(from, to)
  BY DEF U!Leave, U!Block, U!Sleep, U!Wakeup, U!Drop
<1>2. /\ conn' = conn /\ peer' = peer /\ wght' = wght /\ taken' = taken /\ via' = via
      /\ ld' = ld /\ snd' = [snd EXCEPT !.pc = to]
  BY <1>1 DEF U!Goes, U!peerVars, U!records
<1> QED BY <1>2, GoesKeeps

\* The destructor of the connection leaves what the server has not read.
LEMMA FinishKeeps ==
  ASSUME UpInv, NEW x \in U!Senders, conn' = [conn EXCEPT ![x] = U!Finish(@)],
         peer' = peer, wght' = wght, taken' = taken, via' = via, ld' = ld
  PROVE  SameLines /\ Slots' /\ Loads'
<1>1. x \in Conns /\ conn[x] \in Connections BY UpFacts DEF UpInv, UpTypes
<1> DEFINE k == U!Finish(conn[x])
<1>2. k \in Connections /\ k.st = conn[x].st /\ k.up = conn[x].up /\ k.rst = conn[x].rst /\ k.down = <<>>
  <2> DEFINE e == <<>>
  <2>1. e \in Seq(U!Units) OBVIOUS
  <2>2. k = [[conn[x] EXCEPT !.fin = TRUE] EXCEPT !.down = e] BY DEF U!Finish
  <2> HIDE DEF e, k
  <2>3. k \in Connections /\ k.st = conn[x].st /\ k.up = conn[x].up /\ k.rst = conn[x].rst /\ k.down = e
    BY <1>1, <2>1, <2>2 DEF Connections
  <2> QED BY <2>3 DEF e
<1>3. conn' = [conn EXCEPT ![x] = k] OBVIOUS
<1> HIDE DEF k
<1>4. SenderTouches(x, k)
  <2>1. k.st \in {"none", "backlog", "mute"} \/ k.rst => k.up = <<>>
    BY <1>1, <1>2 DEF UpInv, Slots
  <2> QED BY <1>2, <1>3, <2>1 DEF SenderTouches
<1>5. Slots' /\ Loads' /\ conn' \in [Conns -> Connections]
      /\ \A c \in Conns : conn'[c] = IF c = x THEN k ELSE conn[c]
  BY <1>2, <1>4, SenderKeeps
<1> QED BY <1>2, <1>5 DEF SameLines

\* The connection of a game that was sent is closed.
LEMMA DoneKeeps == ASSUME UpInv, U!Done PROVE UpInv'
<1>0. snd \in Sender /\ snd.c \in U!Senders BY DEF UpInv, UpTypes, Sends, U!Done
<1>1. conn' = [conn EXCEPT ![snd.c] = U!Finish(@)] /\ peer' = peer /\ wght' = wght
      /\ taken' = taken /\ via' = via /\ ld' = ld
  BY DEF U!records, U!Done
<1>2. snd' \in Sender /\ snd'.pc = "take" /\ snd'.game = snd.game /\ snd'.c = snd.c
  BY <1>0 DEF U!Done, Sender
<1>3. SameLines /\ Slots' /\ Loads' BY <1>0, <1>1, FinishKeeps
<1>5. \A g \in U!Games : g > snd'.game => via[g] = None_
  BY <1>0, <1>2, UpFacts DEF UpInv, Sends, Sender
<1> QED BY <1>2, <1>3, <1>5, Rests

\* The sender's connection breaks, and the game is tried again or given up.
LEMMA FailKeeps == ASSUME UpInv, U!Fail PROVE UpInv'
<1>0. snd \in Sender /\ snd.pc \in {"connect", "header", "send"}
  BY DEF UpInv, UpTypes, U!Fail, U!ThrowsAt
<1>1. peer' = peer /\ wght' = wght /\ taken' = taken /\ via' = via /\ ld' = ld
  BY DEF U!records, U!Fail
<1>2. snd' \in Sender /\ snd'.pc \in {"take", "connect"} /\ snd'.game = snd.game /\ snd'.c = snd.c
  <2>1. snd.retry + 1 \in Nat BY <1>0 DEF Sender
  <2>2. snd' = [snd EXCEPT !.retry = snd.retry + 1,
                           !.pc = IF U!GiveUp(snd.retry + 1) THEN "take" ELSE "connect"]
    BY DEF U!Fail, U!NextTry
  <2> QED BY <1>0, <2>1, <2>2 DEF Sender
<1>3. SameLines /\ Slots' /\ Loads'
  <2>1. CASE snd.pc = "connect"
    <3>1. conn' = conn BY <2>1 DEF U!Fail
    <3> QED BY <1>1, <3>1, Untouched DEF SameLines
  <2>2. CASE snd.pc # "connect"
    <3>1. conn' = [conn EXCEPT ![snd.c] = U!Finish(@)] BY <2>2 DEF U!Fail
    <3>2. snd.c \in U!Senders BY <1>0, <2>2 DEF UpInv, Sends
    <3> QED BY <1>1, <3>1, <3>2, FinishKeeps
  <2> QED BY <2>1, <2>2
<1>4. snd.game \in U!Games BY <1>0 DEF UpInv, Sends
<1>5. \A g \in U!Games : g > snd.game \/ g = snd.game => via[g] = None_
  BY <1>0 DEF UpInv, Sends
<1> QED BY <1>2, <1>3, <1>4, <1>5, Rests

\* The sender makes a new connection.
LEMMA ConnectKeeps == ASSUME UpInv, U!Connect PROVE UpInv'
<1> DEFINE x == snd.c + 1
           k == [conn[x] EXCEPT !.st = "backlog"]
<1>0. snd \in Sender /\ snd.c \in Nat /\ snd.pc = "connect" /\ snd.game \in U!Games
  BY UpFacts DEF UpInv, UpTypes, Sends, Sender, U!Connect
<1>1. x \in Conns /\ x \in U!Senders /\ x > snd.c
  BY <1>0, UpFacts DEF U!Connect, U!NextConn
<1>2. conn[x] \in Connections /\ conn[x].st = "none" BY <1>1 DEF UpInv, UpTypes, Sends
<1>3. k \in Connections /\ k.st = "backlog" /\ k.up = conn[x].up /\ k.down = conn[x].down
  BY <1>2 DEF Connections
<1>4. conn' = [conn EXCEPT ![x] = k] BY DEF U!Connect, U!NextConn
<1>5. peer' = peer /\ wght' = wght /\ taken' = taken /\ via' = via /\ ld' = ld
  BY DEF U!records, U!Connect
<1>6. /\ snd' \in Sender /\ snd'.pc = "header" /\ snd'.c = x /\ snd'.cut = 0
      /\ snd'.game = snd.game
  <2>1. snd' = [snd EXCEPT !.pc = "header", !.c = x, !.cut = 0] BY DEF U!Connect, U!NextConn
  <2> QED BY <1>0, <1>1, <2>1 DEF Sender
<1> HIDE DEF k
<1>7. SenderTouches(x, k)
  <2>1. k.up = <<>> /\ k.down = <<>> BY <1>1, <1>2, <1>3 DEF UpInv, Slots
  <2> QED BY <1>2, <1>3, <1>4, <1>5, <2>1 DEF SenderTouches
<1>8. Slots' /\ Loads' /\ conn' \in [Conns -> Connections]
      /\ \A c \in Conns : conn'[c] = IF c = x THEN k ELSE conn[c]
  <2> HIDE DEF x
  <2> QED BY <1>1, <1>3, <1>7, SenderKeeps
<1>9. ASSUME NEW u \in UpSlots, peer[u].sckt # None_
      PROVE  peer[u].sckt \in Conns /\ peer[u].sckt # x /\ conn'[peer[u].sckt] = conn[peer[u].sckt]
  <2>1. peer[u].sckt \in Conns BY <1>9 DEF UpInv, UpTypes, PeerSlots, UpSlots
  <2>2. conn[peer[u].sckt].st = "open" BY <1>9 DEF UpInv, Slots
  <2> HIDE DEF x
  <2> QED BY <2>1, <2>2, <1>2, <1>8
<1> HIDE DEF x
<1>10. UpSlots' = UpSlots /\ U!Senders' = U!Senders /\ U!Games' = U!Games
  BY DEF UpSlots, U!Senders, U!Games, U!Loader
<1>11. UpTypes' BY <1>5, <1>6, <1>8 DEF UpInv, UpTypes
<1>12. Sending'
  <2>1. x # None_ BY <1>1, UpFacts
  <2>2. \A u \in UpSlots : peer'[u].sckt # snd'.c BY <1>5, <1>6, <1>9, <2>1
  <2> QED BY <2>2, <1>10 DEF Sending
<1>13. Arrives'
  <2> SUFFICES ASSUME NEW g \in U!Games, via[g] # None_
               PROVE  /\ via[g] \in U!Senders /\ conn'[via[g]].st \in {"open", "shut"}
                      /\ \A u \in UpSlots : peer[u].sckt = via[g] /\ ~conn'[via[g]].rst =>
                           \/ OnItsWay(u)' = U!Stream(g) /\ Len(peer[u].buf) < 2 + LenRec[g]
                           \/ \E n \in DOMAIN taken : taken[n] = U!Body(g)
    BY <1>10, <1>5 DEF Arrives, U!Stream, U!Body
  <2>1. via[g] \in U!Senders /\ conn[via[g]].st \in {"open", "shut"} BY DEF UpInv, Arrives
  <2>2. via[g] \in Conns /\ via[g] # x BY <2>1, <1>2, UpFacts
  <2>3. conn'[via[g]] = conn[via[g]] BY <2>2, <1>8
  <2>4. \A u \in UpSlots : peer[u].sckt = via[g] => OnItsWay(u)' = OnItsWay(u)
    BY <2>3, <1>5 DEF OnItsWay
  <2> QED BY <2>1, <2>3, <2>4 DEF UpInv, Arrives
<1>14. Recorded' BY <1>5, <1>10 DEF UpInv, Recorded, U!Body
<1>15. Sends'
  <2>1. ASSUME NEW u \in UpSlots, peer[u].sckt \in U!Senders
        PROVE  Carries(peer[u], conn[peer[u].sckt].up, peer[u].sckt)'
    <3>1. Carries(peer[u], conn[peer[u].sckt].up, peer[u].sckt) BY <2>1 DEF UpInv, Sends
    <3>2. conn'[peer[u].sckt].up = conn[peer[u].sckt].up BY <1>9, <2>1, UpFacts
    <3> DEFINE up == conn[peer[u].sckt].up
               c  == peer[u].sckt
    <3>3. up' = up /\ c' = c BY <3>2, <1>5
    <3> HIDE DEF up, c
    <3>4. Carries(peer[u], up, c)' BY <3>1, <3>3, <1>5, <1>10 DEF Carries, up, c
    <3> QED BY <3>4 DEF up, c
  <2>2. ASSUME NEW c \in Conns, c > x PROVE conn'[c].st = "none"
    <3>1. c # x /\ c > snd.c
      <4>1. c \in Nat /\ x \in Nat BY <1>1, UpFacts
      <4> QED BY <4>1, <2>2, <1>0, <1>1
    <3> QED BY <3>1, <1>8 DEF UpInv, Sends
  <2>3. \A g \in U!Games : g > snd.game \/ g = snd.game => via[g] = None_ BY <1>0 DEF UpInv, Sends
  <2>4. 0 < 2 + LenRec[snd.game] BY <1>0, UpFacts
  <2> QED BY <1>0, <1>1, <1>5, <1>6, <1>10, <2>1, <2>2, <2>3, <2>4 DEF Sends, Hands
<1> QED BY <1>8, <1>11, <1>12, <1>13, <1>14, <1>15 DEF UpInv

\* The sender reads the header.
LEMMA HeaderKeeps == ASSUME UpInv, U!Header PROVE UpInv'
<1> DEFINE x == snd.c
           k == [conn[x] EXCEPT !.down = Tail(@)]
<1>0. snd \in Sender /\ snd.pc = "header" /\ snd.game \in U!Games /\ x \in U!Senders /\ x \in Conns
  BY UpFacts DEF UpInv, UpTypes, Sends, U!Header
<1>1. conn[x] \in Connections /\ conn[x].down # <<>> BY <1>0 DEF UpInv, UpTypes, U!Header
<1>2. conn[x].st \in {"open", "shut"} /\ ~conn[x].rst BY <1>0, <1>1 DEF UpInv, Slots, Connections
<1>3. k \in Connections /\ k.st = conn[x].st /\ k.up = conn[x].up /\ k.rst = conn[x].rst
  <2>1. Tail(conn[x].down) \in Seq(U!Units) BY <1>1 DEF Connections
  <2> QED BY <1>1, <2>1 DEF Connections
<1>4. conn' = [conn EXCEPT ![x] = k] BY DEF U!Header
<1>5. peer' = peer /\ wght' = wght /\ taken' = taken /\ via' = via /\ ld' = ld
  BY DEF U!records, U!Header
<1>6. /\ snd' \in Sender /\ snd'.pc = "send" /\ snd'.c = x /\ snd'.cut = snd.cut
      /\ snd'.game = snd.game
  BY <1>0 DEF Sender, U!Header
<1> HIDE DEF k, x
<1>7. SenderTouches(x, k) BY <1>2, <1>3, <1>4, <1>5 DEF SenderTouches
<1>8. Slots' /\ Loads' /\ conn' \in [Conns -> Connections]
      /\ \A c \in Conns : conn'[c] = IF c = x THEN k ELSE conn[c]
  BY <1>0, <1>3, <1>7, SenderKeeps
<1>9. SameLines BY <1>3, <1>5, <1>8 DEF SameLines
<1>10. UpSlots' = UpSlots /\ U!Senders' = U!Senders /\ U!Games' = U!Games
  BY DEF UpSlots, U!Senders, U!Games, U!Loader
<1>11. UpTypes' BY <1>5, <1>6, <1>8 DEF UpInv, UpTypes
<1>12. Sending'
  <2> SUFFICES ASSUME NEW u \in UpSlots, peer[u].sckt = x, ~conn'[x].rst
               PROVE  OnItsWay(u)' = SubSeq(U!Stream(snd.game), 1, snd.cut)
    BY <1>5, <1>6, <1>10 DEF Sending, U!Stream, U!Body
  <2>1. OnItsWay(u)' = OnItsWay(u)
    <3>1. peer[u].sckt # None_ BY <1>0, UpFacts
    <3> QED BY <3>1, <1>9, LinesKept
  <2>2. OnItsWay(u) = SubSeq(U!Stream(snd.game), 1, snd.cut)
    BY <1>0, <1>2 DEF UpInv, Sending, Hands, x
  <2> QED BY <2>1, <2>2
<1>13. Sends'
  <2>1. \A u \in UpSlots : peer'[u].sckt \in U!Senders =>
          Carries(peer[u], conn[peer[u].sckt].up, peer[u].sckt)'
    BY <1>9, LinesKept DEF SameLines
  <2>2. \A c \in Conns : c > snd'.c => conn'[c].st = "none"
    BY <1>6, <1>9 DEF UpInv, Sends, SameLines, x
  <2>3. conn'[x].st \in {"open", "shut"} BY <1>0, <1>2, <1>3, <1>8
  <2>4. /\ \A g \in U!Games : g > snd.game \/ g = snd.game => via[g] = None_
        /\ snd.cut < 2 + LenRec[snd.game]
    BY <1>0 DEF UpInv, Sends, Hands
  <2> QED BY <2>1, <2>2, <2>3, <2>4, <1>0, <1>5, <1>6, <1>10 DEF Sends, Hands
<1> QED BY <1>8, <1>9, <1>11, <1>12, <1>13, LinesKept DEF UpInv

\* What is written goes on where the last piece ended, and the game counts as sent with
\* its last unit.
LEMMA WriteKeeps == ASSUME UpInv, U!Write PROVE UpInv'
<1> DEFINE x == snd.c
           G == snd.game
           all == 2 + LenRec[G]
<1>0. snd \in Sender /\ snd.pc = "send" /\ G \in U!Games /\ x \in U!Senders /\ x \in Conns
      /\ ~conn[x].rst /\ conn[x] \in Connections
  BY UpFacts DEF UpInv, UpTypes, Sends, U!Write
<1>1. PICK n \in 1 .. Len(U!Stream(G)) - snd.cut :
        LET cut == snd.cut + n
            every == cut = Len(U!Stream(G))
        IN /\ conn' = U!Written(x, SubSeq(U!Stream(G), snd.cut + 1, cut))
           /\ snd' = [snd EXCEPT !.cut = cut, !.pc = IF every THEN "close" ELSE @]
           /\ nsend' = IF every THEN nsend + 1 ELSE nsend
           /\ has_conn' = (every \/ has_conn)
           /\ via' = IF every THEN [via EXCEPT ![G] = x] ELSE via
  BY DEF U!Write
<1> DEFINE cut == snd.cut + n
           more == SubSeq(U!Stream(G), snd.cut + 1, cut)
           k == IF conn[x].st = "shut" THEN conn[x] ELSE [conn[x] EXCEPT !.up = @ \o more]
<1>2. Len(U!Stream(G)) = all /\ all \in Nat /\ snd.cut \in Nat /\ snd.cut < all
  <2>1. snd.cut < all BY <1>0 DEF UpInv, Sends, Hands
  <2> QED BY <2>1, <1>0, StreamFacts, UpFacts DEF Sender
<1>3. cut \in snd.cut .. all /\ snd.cut \in 0 .. all /\ cut \in 1 .. all /\ cut \in Nat BY <1>2
<1>4. /\ conn' = U!Written(x, more)
      /\ snd' = [snd EXCEPT !.cut = cut, !.pc = IF cut = all THEN "close" ELSE @]
      /\ via' = IF cut = all THEN [via EXCEPT ![G] = x] ELSE via
  BY <1>1, <1>2
<1>5. peer' = peer /\ wght' = wght /\ taken' = taken /\ ld' = ld
  BY DEF U!records, U!Write
<1> HIDE DEF x, G, cut, all
<1>6. more \in Seq(U!Units)
  <2> DEFINE e == SubSeq(U!Stream(G), 1, snd.cut)
  <2>1. Begins(e, G, snd.cut) BY DEF Begins
  <2>2. e \in Seq(U!Units) BY <2>1, <1>0, <1>3, BeginFacts DEF all
  <2> HIDE DEF e
  <2>3. <<>> \o e = e
    <3>1. HasUnit(U!Units) BY ConcatenationLaws
    <3> QED BY <3>1, <2>2, Zenon DEF HasUnit
  <2>4. <<>> \in Seq(U!Units) OBVIOUS
  <2> DEFINE z == <<>>
  <2> HIDE DEF z
  <2>5. z \in Seq(U!Units) /\ Begins(z \o e, G, snd.cut) BY <2>1, <2>3, <2>4 DEF z
  <2> QED BY <2>2, <2>5, <1>0, <1>3, BeginGrows DEF all
<1> HIDE DEF more
<1>7. k \in Connections /\ k.st = conn[x].st /\ k.rst = conn[x].rst /\ k.down = conn[x].down
      /\ (k.st # "shut" => k.up = conn[x].up \o more) /\ (k.st = "shut" => k.up = conn[x].up)
  <2>1. conn[x].up \o more \in Seq(U!Units)
    <3>1. conn[x].up \in Seq(U!Units) BY <1>0 DEF Connections
    <3> QED BY <3>1, <1>6, ConcatProperties
  <2> QED BY <1>0, <2>1 DEF Connections
<1>8. conn' = [conn EXCEPT ![x] = k]
  <2>1. CASE conn[x].st = "shut"
    <3>1. conn' = conn BY <1>4, <2>1 DEF U!Written
    <3>2. conn = [conn EXCEPT ![x] = conn[x]] BY <1>0 DEF UpInv, UpTypes
    <3> QED BY <2>1, <3>1, <3>2
  <2>2. CASE conn[x].st # "shut" BY <1>0, <1>4, <2>2 DEF U!Written
  <2> QED BY <2>1, <2>2
<1> HIDE DEF k
<1>9. SenderTouches(x, k)
  <2>1. conn[x].st \in {"open", "shut"} BY <1>0 DEF UpInv, Sends, x
  <2> QED BY <2>1, <1>0, <1>5, <1>7, <1>8 DEF SenderTouches
<1>10. Slots' /\ Loads' /\ conn' \in [Conns -> Connections]
      /\ \A c \in Conns : conn'[c] = IF c = x THEN k ELSE conn[c]
  BY <1>0, <1>7, <1>9, SenderKeeps
<1>11. /\ snd' \in Sender /\ snd'.pc = IF cut = all THEN "close" ELSE "send"
       /\ snd'.cut = cut /\ snd'.c = x /\ snd'.game = G
  BY <1>0, <1>3, <1>4 DEF Sender, x, G
<1>12. UpSlots' = UpSlots /\ U!Senders' = U!Senders /\ U!Games' = U!Games
  BY DEF UpSlots, U!Senders, U!Games, U!Loader
<1>13. /\ via[G] = None_ /\ via' \in [U!Games -> Conns \union {None_}]
       /\ \A g \in U!Games : via'[g] = IF g = G /\ cut = all THEN x ELSE via[g]
  <2>1. via[G] = None_ BY <1>0 DEF UpInv, Sends, G
  <2>2. via \in [U!Games -> Conns \union {None_}] BY DEF UpInv, UpTypes
  <2> QED BY <2>1, <2>2, <1>0, <1>4
<1>14. UpTypes' BY <1>5, <1>10, <1>11, <1>12, <1>13 DEF UpInv, UpTypes
<1>15. None_ \notin Conns /\ x # None_ BY <1>0, UpFacts
<1>16. ASSUME NEW u \in UpSlots, peer[u].sckt = x
       PROVE  /\ Begins(OnItsWay(u)', G, cut) /\ OnItsWay(u)' = peer[u].buf \o conn'[x].up
              /\ Len(peer[u].buf) < all
  <2>1. peer[u] \in PeerSlots BY DEF UpInv, UpTypes, UpSlots
  <2>2. k.st # "shut" BY <1>7, <1>15, <1>16 DEF UpInv, Slots
  <2>3. OnItsWay(u)' = peer[u].buf \o conn'[x].up /\ conn'[x].up = conn[x].up \o more
    BY <2>2, <1>0, <1>5, <1>7, <1>10, <1>16 DEF OnItsWay
  <2>4. Begins(peer[u].buf \o conn[x].up, G, snd.cut)
    <3>1. OnItsWay(u) = SubSeq(U!Stream(G), 1, snd.cut)
      BY <1>0, <1>16 DEF UpInv, Sending, Hands, x, G
    <3>2. OnItsWay(u) = peer[u].buf \o conn[x].up BY <1>16 DEF OnItsWay
    <3> QED BY <3>1, <3>2 DEF Begins
  <2>5. peer[u].buf \in Seq(U!Units) /\ conn[x].up \in Seq(U!Units)
    BY <2>1, <1>0 DEF PeerSlots, Connections
  <2> DEFINE buf == peer[u].buf
             up  == conn[x].up
  <2> HIDE DEF buf, up
  <2>6. buf \in Seq(U!Units) /\ up \in Seq(U!Units) /\ Begins(buf \o up, G, snd.cut)
    BY <2>4, <2>5 DEF buf, up
  <2>7. Begins(buf \o (up \o more), G, cut)
    <3>1. snd.cut \in 0 .. 2 + LenRec[G] /\ cut \in snd.cut .. 2 + LenRec[G] BY <1>3 DEF all
    <3> QED BY <2>6, <3>1, <1>0, BeginGrows DEF more
  <2>8. Len(buf) < all
    <3>1. snd.cut \in 0 .. 2 + LenRec[G] BY <1>3 DEF all
    <3>2. Len(buf) + Len(up) = snd.cut BY <3>1, <2>6, <1>0, BeginCut
    <3>3. Len(buf) \in Nat /\ Len(up) \in Nat BY <2>6
    <3> QED BY <3>2, <3>3, <1>2
  <2> QED BY <2>3, <2>7, <2>8 DEF buf, up
<1>17. ASSUME NEW u \in UpSlots, peer[u].sckt # None_, peer[u].sckt # x
       PROVE  peer[u].sckt \in Conns /\ conn'[peer[u].sckt] = conn[peer[u].sckt] /\ OnItsWay(u)' = OnItsWay(u)
  <2>1. peer[u].sckt \in Conns BY <1>17 DEF UpInv, UpTypes, PeerSlots, UpSlots
  <2>2. conn'[peer[u].sckt] = conn[peer[u].sckt] BY <2>1, <1>10, <1>17
  <2> QED BY <2>1, <2>2, <1>5 DEF OnItsWay
<1>18. Sending'
  <2> SUFFICES ASSUME NEW u \in UpSlots, peer[u].sckt = x
               PROVE  OnItsWay(u)' = SubSeq(U!Stream(G), 1, cut)
    BY <1>5, <1>11, <1>12 DEF Sending, U!Stream, U!Body
  <2> QED BY <1>16 DEF Begins
<1>19. Arrives'
  <2> SUFFICES ASSUME NEW g \in U!Games, via'[g] # None_
               PROVE  /\ via'[g] \in U!Senders /\ conn'[via'[g]].st \in {"open", "shut"}
                      /\ \A u \in UpSlots : peer[u].sckt = via'[g] /\ ~conn'[via'[g]].rst =>
                           \/ OnItsWay(u)' = U!Stream(g) /\ Len(peer[u].buf) < 2 + LenRec[g]
                           \/ \E m \in DOMAIN taken : taken[m] = U!Body(g)
    BY <1>5, <1>12 DEF Arrives, U!Stream, U!Body
  <2>1. CASE g = G
    <3>1. cut = all /\ via'[g] = x BY <2>1, <1>13
    <3>2. conn[x].st \in {"open", "shut"} BY <1>0 DEF UpInv, Sends, x
    <3>3. conn'[x].st \in {"open", "shut"} BY <3>2, <1>0, <1>7, <1>10
    <3>4. ASSUME NEW u \in UpSlots, peer[u].sckt = x
          PROVE  OnItsWay(u)' = U!Stream(g) /\ Len(peer[u].buf) < 2 + LenRec[g]
      <4>1. Begins(OnItsWay(u)', G, all) /\ Len(peer[u].buf) < all BY <3>1, <3>4, <1>16
      <4> DEFINE s == U!Stream(G)
      <4>2. s \in Seq(U!Units) /\ Len(s) = all BY <1>0, <1>2, StreamFacts
      <4>3. SubSeq(s, 1, all) = s
        <5> HIDE DEF s
        <5> QED BY <4>2, SubSeqFull
      <4> QED BY <4>1, <4>3, <2>1 DEF Begins, all
    <3> QED BY <3>1, <3>3, <3>4, <1>0
  <2>2. CASE g # G
    <3>1. via'[g] = via[g] BY <2>2, <1>13
    <3>2. via[g] \in U!Senders /\ conn[via[g]].st \in {"open", "shut"} BY <3>1 DEF UpInv, Arrives
    <3>3. conn'[via[g]].st = conn[via[g]].st /\ conn'[via[g]].rst = conn[via[g]].rst
      BY <3>2, <1>7, <1>10, UpFacts
    <3>4. ASSUME NEW u \in UpSlots, peer[u].sckt = via[g], ~conn[via[g]].rst
          PROVE  \/ OnItsWay(u)' = U!Stream(g) /\ Len(peer[u].buf) < 2 + LenRec[g]
                 \/ \E m \in DOMAIN taken : taken[m] = U!Body(g)
      <4>1. \/ OnItsWay(u) = U!Stream(g) /\ Len(peer[u].buf) < 2 + LenRec[g]
            \/ \E m \in DOMAIN taken : taken[m] = U!Body(g)
        BY <3>1, <3>4 DEF UpInv, Arrives
      <4>2. CASE peer[u].sckt # x BY <4>1, <4>2, <1>17, <3>2, <3>4, UpFacts
      <4>3. CASE peer[u].sckt = x
        <5>1. OnItsWay(u) # U!Stream(g)
          <6> SUFFICES ASSUME OnItsWay(u) = U!Stream(g) PROVE FALSE OBVIOUS
          <6>1. Begins(OnItsWay(u), G, snd.cut)
            BY <4>3, <1>0 DEF UpInv, Sending, Hands, x, G, Begins
          <6>2. Len(OnItsWay(u)) = snd.cut /\ \A i \in 1 .. snd.cut : OnItsWay(u)[i] = U!Stream(G)[i]
            BY <6>1, <1>0, <1>3, BeginFacts DEF all
          <6>3. Len(U!Stream(g)) = 2 + LenRec[g] /\ U!Stream(g)[3].n = g /\ LenRec[g] \in Nat \ {0}
            BY StreamFacts, ThirdUnit, UpFacts
          <6>4. U!Stream(G)[3].n = G
            BY <1>0, ThirdUnit
          <6>5. 3 \in 1 .. snd.cut BY <6>2, <6>3, <1>2
          <6> QED BY <6>2, <6>3, <6>4, <6>5, <2>2
        <5> QED BY <4>1, <5>1
      <4> QED BY <4>2, <4>3
    <3> QED BY <3>1, <3>2, <3>3, <3>4
  <2> QED BY <2>1, <2>2
<1>20. Recorded'
  <2>1. \A g \in U!Games : via[g] # None_ => via'[g] # None_ BY <1>13, <1>15
  <2> QED BY <2>1, <1>5, <1>12 DEF UpInv, Recorded, U!Body
<1>21. Sends'
  <2>1. ASSUME NEW u \in UpSlots, peer[u].sckt \in U!Senders
        PROVE  Carries(peer[u], conn[peer[u].sckt].up, peer[u].sckt)'
    <3> DEFINE up == conn[peer[u].sckt].up
               c  == peer[u].sckt
    <3>0. Carries(peer[u], up, c) BY <2>1 DEF UpInv, Sends
    <3>1. CASE c = x
      <4>1. Begins(peer[u].buf \o up', G, cut) /\ Len(peer[u].buf) < all
        BY <3>1, <1>5, <1>16
      <4>2. \A m \in DOMAIN taken : taken[m] # U!Body(G)
        BY <1>0, <1>13, BodyOne DEF UpInv, Recorded
      <4>3. c' = c /\ peer'[u] = peer[u] BY <1>5
      <4>4. peer[u].stat \in {"header", "idle"} BY <3>0 DEF Carries
      <4> HIDE DEF up, c
      <4>5. cut = 2 + LenRec[G] => via'[G] = x BY <1>0, <1>13 DEF all
      <4>6. Carries(peer[u], up, c)'
        BY <4>1, <4>2, <4>3, <4>4, <4>5, <3>1, <1>0, <1>3, <1>5, <1>12 DEF Carries, Begins, all
      <4> QED BY <4>6 DEF up, c
    <3>2. CASE c # x
      <4>1. up' = up /\ c' = c /\ peer'[u] = peer[u] /\ c \in Conns /\ c # None_
        BY <1>5, <1>17, <2>1, <3>2, UpFacts
      <4> HIDE DEF up, c
      <4>2. \A g \in U!Games : via[g] = c => via'[g] = c BY <4>1, <1>13
      <4>3. Carries(peer[u], up, c)' BY <3>0, <4>1, <4>2, <1>5, <1>12 DEF Carries
      <4> QED BY <4>3 DEF up, c
    <3> QED BY <3>1, <3>2
  <2>2. ASSUME NEW c \in Conns, c > x PROVE conn'[c].st = "none"
    <3>1. c # x
      <4>1. c \in Nat /\ x \in Nat BY <1>0, UpFacts
      <4> QED BY <4>1, <2>2
    <3> QED BY <3>1, <2>2, <1>10 DEF UpInv, Sends, x
  <2>3. \A g \in U!Games : g > G => g # G /\ via[g] = None_
    BY <1>0, UpFacts DEF UpInv, Sends, G
  <2>4. cut # all => via' = via BY <1>4
  <2>5. conn'[x].st \in {"open", "shut"}
    <3>1. conn[x].st \in {"open", "shut"} BY <1>0 DEF UpInv, Sends, x
    <3> QED BY <3>1, <1>0, <1>7, <1>10
  <2>6. cut # all => cut < 2 + LenRec[G] BY <1>2, <1>3 DEF all
  <2>7. \A g \in U!Games : g > G => via'[g] = None_ BY <2>3, <1>13
  <2> QED BY <2>1, <2>2, <2>4, <2>5, <2>6, <2>7, <1>0, <1>5, <1>11, <1>12, <1>13 DEF Sends, Hands
<1> QED BY <1>10, <1>14, <1>18, <1>19, <1>20, <1>21 DEF UpInv

\* Client::end(): the sender is left alone or, if it sleeps, woken.
LEMMA EndKeeps == ASSUME UpInv, U!Quit \/ U!End PROVE UpInv'
<1>1. conn' = conn /\ peer' = peer /\ wght' = wght /\ taken' = taken /\ via' = via /\ ld' = ld
      /\ (snd' = snd \/ snd' = [snd EXCEPT !.pc = "take"])
  BY DEF U!Quit, U!End, U!SetEnd, U!Notify, U!Notified, U!peerVars, U!sndVars, U!records
<1>2. CASE snd' = [snd EXCEPT !.pc = "take"] BY <1>1, <1>2, GoesKeeps
<1>3. CASE snd' = snd
  <2>1. Slots' /\ Loads' /\ conn' \in [Conns -> Connections] BY <1>1, Untouched
  <2>2. Sending' /\ Arrives' /\ Recorded' /\ Sends' BY <1>1, <1>3, <2>1, SendsKept DEF UpInv
  <2>3. UpTypes' BY <1>1, <1>3 DEF UpInv, UpTypes
  <2> QED BY <2>1, <2>2, <2>3 DEF UpInv
<1> QED BY <1>1, <1>2, <1>3

----------------------------------------------------------------------------
(* The server.                                                               *)

\* A step at the slot u and its connection, which keeps its slot or loses it.
SlotStep(u, q, k) ==
  /\ u \in UpSlots /\ peer[u].sckt # None_
  /\ q \in PeerSlots /\ peer' = [peer EXCEPT ![u] = q] /\ CanSend(q)
  /\ k \in Connections /\ conn' = [conn EXCEPT ![peer[u].sckt] = k]
  /\ \/ q.sckt = peer[u].sckt /\ k.st = "open"
     \/ q.sckt = None_ /\ k.st = "shut"
  /\ k.rst => k.up = <<>> /\ k.down = <<>>
  /\ wght' = wght /\ snd' = snd /\ via' = via /\ ld' = ld

\* A step at one slot and its connection leaves the other slots alone.
LEMMA SlotStepKeeps ==
  ASSUME UpInv, NEW u, NEW q, NEW k, SlotStep(u, q, k), taken' \in Seq(Seq(U!Units))
  PROVE  /\ UpTypes' /\ Slots' /\ peer[u].sckt \in Conns
         /\ conn'[peer[u].sckt] = k /\ peer'[u] = q
         /\ \A c \in Conns : c # peer[u].sckt => conn'[c] = conn[c]
         /\ \A v \in UpSlots : v # u => peer'[v] = peer[v]
         /\ \A v \in UpSlots : v # u /\ peer[v].sckt # None_ =>
              /\ peer[v].sckt # peer[u].sckt /\ conn'[peer[v].sckt] = conn[peer[v].sckt]
              /\ OnItsWay(v)' = OnItsWay(v)
<1> DEFINE x == peer[u].sckt
<1>0. u \in UpSlots /\ x # None_ /\ UpSlots = 1 .. MaxAccept BY DEF SlotStep, UpSlots
<1>1. \A v \in UpSlots : peer[v].sckt # None_ => peer[v].sckt \in Conns
  BY DEF UpInv, UpTypes, PeerSlots, UpSlots
<1>2. x \in Conns /\ conn[x].st = "open" BY <1>0, <1>1 DEF UpInv, Slots
<1>3. /\ peer' \in [1 .. MaxAccept -> PeerSlots] /\ peer'[u] = q
      /\ \A v \in UpSlots : v # u => peer'[v] = peer[v]
  BY <1>0 DEF UpInv, UpTypes, SlotStep
<1>4. /\ conn' \in [Conns -> Connections] /\ conn'[x] = k
      /\ \A c \in Conns : c # x => conn'[c] = conn[c]
  BY <1>2 DEF UpInv, UpTypes, SlotStep
<1>5. UpTypes' BY <1>3, <1>4 DEF UpInv, UpTypes, SlotStep
<1>6. ASSUME NEW v \in UpSlots, v # u, peer[v].sckt # None_
      PROVE  /\ peer[v].sckt # x /\ conn'[peer[v].sckt] = conn[peer[v].sckt]
             /\ OnItsWay(v)' = OnItsWay(v)
  <2>1. peer[v].sckt # x BY <1>0, <1>6 DEF UpInv, Slots
  <2>2. conn'[peer[v].sckt] = conn[peer[v].sckt] BY <2>1, <1>1, <1>4, <1>6
  <2> QED BY <2>1, <2>2, <1>3, <1>6 DEF OnItsWay
<1> HIDE DEF x
<1>7. UpSlots' = UpSlots BY DEF UpSlots
<1>8. \A v \in UpSlots : peer'[v].sckt # None_ => conn'[peer'[v].sckt].st = "open"
  <2> SUFFICES ASSUME NEW v \in UpSlots, peer'[v].sckt # None_
               PROVE  conn'[peer'[v].sckt].st = "open"
    OBVIOUS
  <2>1. CASE v = u BY <2>1, <1>3, <1>4 DEF SlotStep, x
  <2>2. CASE v # u BY <2>2, <1>3, <1>6 DEF UpInv, Slots
  <2> QED BY <2>1, <2>2
<1>9. ASSUME NEW c \in Conns, conn'[c].st = "open" PROVE \E v \in UpSlots : peer'[v].sckt = c
  <2>1. CASE c = x BY <2>1, <1>0, <1>3, <1>4, <1>9 DEF SlotStep, x
  <2>2. CASE c # x
    <3>1. PICK v \in UpSlots : peer[v].sckt = c BY <2>2, <1>4, <1>9 DEF UpInv, Slots
    <3>2. v # u BY <3>1, <2>2 DEF x
    <3> QED BY <3>1, <3>2, <1>3
  <2> QED BY <2>1, <2>2
<1>10. \A v, w \in UpSlots : peer'[v].sckt # None_ /\ peer'[v].sckt = peer'[w].sckt => v = w
  <2> SUFFICES ASSUME NEW v \in UpSlots, NEW w \in UpSlots,
                      peer'[v].sckt # None_, peer'[v].sckt = peer'[w].sckt, v # w
               PROVE  FALSE
    OBVIOUS
  <2>1. \A z \in UpSlots : peer'[z].sckt # None_ => peer'[z].sckt = peer[z].sckt
    BY <1>3 DEF SlotStep, x
  <2>2. peer[v].sckt # None_ /\ peer[v].sckt = peer[w].sckt BY <2>1
  <2> QED BY <2>2 DEF UpInv, Slots
<1>11. \A c \in Conns : conn'[c].st \in {"none", "backlog", "mute"} \/ conn'[c].rst =>
         conn'[c].up = <<>> /\ conn'[c].down = <<>>
  <2> SUFFICES ASSUME NEW c \in Conns PROVE
         conn'[c].st \in {"none", "backlog", "mute"} \/ conn'[c].rst =>
         conn'[c].up = <<>> /\ conn'[c].down = <<>>
    OBVIOUS
  <2>1. CASE c = x BY <2>1, <1>4 DEF SlotStep
  <2>2. CASE c # x BY <2>2, <1>4 DEF UpInv, Slots
  <2> QED BY <2>1, <2>2
<1>12. \A v \in UpSlots : CanSend(peer[v])'
  <2> SUFFICES ASSUME NEW v \in UpSlots PROVE CanSend(peer[v])' OBVIOUS
  <2>1. CASE v = u BY <2>1, <1>3 DEF SlotStep, CanSend, BlockLen
  <2>2. CASE v # u BY <2>2, <1>3 DEF UpInv, Slots, CanSend, BlockLen
  <2> QED BY <2>1, <2>2
<1>13. Slots' BY <1>7, <1>8, <1>9, <1>10, <1>11, <1>12 DEF Slots
<1> QED BY <1>2, <1>3, <1>4, <1>5, <1>6, <1>13 DEF x

\* The other slots carry what they did, if the games that were recorded before still
\* are, and a game that is recorded now was sent over this connection.
LEMMA OthersCarry ==
  ASSUME UpInv, NEW u, NEW q, NEW k, SlotStep(u, q, k), taken' \in Seq(Seq(U!Units)),
         \A g \in U!Games : via[g] # peer[u].sckt =>
           ((\A n \in DOMAIN taken : taken[n] # U!Body(g))
              => (\A n \in DOMAIN taken' : taken'[n] # U!Body(g))),
         NEW v \in UpSlots, v # u, peer[v].sckt \in U!Senders
  PROVE  Carries(peer[v], conn[peer[v].sckt].up, peer[v].sckt)'
<1> DEFINE up == conn[peer[v].sckt].up
           c  == peer[v].sckt
<1>1. c # None_ BY UpFacts
<1>2. up' = up /\ c' = c /\ peer'[v] = peer[v] /\ c # peer[u].sckt BY <1>1, SlotStepKeeps
<1>3. Carries(peer[v], up, c) BY DEF UpInv, Sends
<1> HIDE DEF up, c
<1>4. via' = via BY DEF SlotStep
<1>5. Carries(peer[v], up, c)' BY <1>2, <1>3, <1>4 DEF Carries
<1> QED BY <1>5 DEF up, c

\* A game that counts as sent is on its way to another slot as before.
LEMMA OthersArrive ==
  ASSUME UpInv, NEW u, NEW q, NEW k, SlotStep(u, q, k), taken' \in Seq(Seq(U!Units)),
         \A g \in U!Games : (\E n \in DOMAIN taken : taken[n] = U!Body(g))
                              => (\E n \in DOMAIN taken' : taken'[n] = U!Body(g)),
         \A g \in U!Games : q.sckt = via[g] /\ ~k.rst /\ q.sckt # None_ =>
           \/ q.buf \o k.up = U!Stream(g) /\ Len(q.buf) < 2 + LenRec[g]
           \/ \E n \in DOMAIN taken' : taken'[n] = U!Body(g)
  PROVE  Arrives'
<1>1. /\ peer[u].sckt \in Conns /\ conn'[peer[u].sckt] = k /\ peer'[u] = q
      /\ \A c \in Conns : c # peer[u].sckt => conn'[c] = conn[c]
      /\ \A v \in UpSlots : v # u => peer'[v] = peer[v]
      /\ \A v \in UpSlots : v # u /\ peer[v].sckt # None_ =>
           /\ peer[v].sckt # peer[u].sckt /\ conn'[peer[v].sckt] = conn[peer[v].sckt]
           /\ OnItsWay(v)' = OnItsWay(v)
  BY SlotStepKeeps
<1>2. UpSlots' = UpSlots /\ U!Senders' = U!Senders /\ U!Games' = U!Games /\ via' = via
  BY DEF UpSlots, U!Senders, U!Games, U!Loader, SlotStep
<1> SUFFICES ASSUME NEW g \in U!Games, via[g] # None_
             PROVE  /\ via[g] \in U!Senders /\ conn'[via[g]].st \in {"open", "shut"}
                    /\ \A v \in UpSlots : peer'[v].sckt = via[g] /\ ~conn'[via[g]].rst =>
                         \/ OnItsWay(v)' = U!Stream(g) /\ Len(peer'[v].buf) < 2 + LenRec[g]
                         \/ \E n \in DOMAIN taken' : taken'[n] = U!Body(g)
  BY <1>2 DEF Arrives, U!Stream, U!Body
<1>3. via[g] \in U!Senders /\ via[g] \in Conns /\ conn[via[g]].st \in {"open", "shut"}
  BY UpFacts DEF UpInv, Arrives
<1>4. conn'[via[g]].st \in {"open", "shut"} BY <1>1, <1>3 DEF SlotStep
<1>5. ASSUME NEW v \in UpSlots, peer'[v].sckt = via[g], ~conn'[via[g]].rst
      PROVE  \/ OnItsWay(v)' = U!Stream(g) /\ Len(peer'[v].buf) < 2 + LenRec[g]
             \/ \E n \in DOMAIN taken' : taken'[n] = U!Body(g)
  <2>1. CASE v = u
    <3>1. q.sckt = via[g] /\ q.sckt # None_ /\ q.sckt = peer[u].sckt BY <2>1, <1>1, <1>5 DEF SlotStep
    <3>2. ~k.rst BY <3>1, <1>1, <1>5
    <3>3. OnItsWay(v)' = q.buf \o k.up BY <2>1, <3>1, <1>1 DEF OnItsWay
    <3> QED BY <2>1, <3>1, <3>2, <3>3, <1>1
  <2>2. CASE v # u
    <3>1. peer'[v] = peer[v] /\ peer[v].sckt = via[g] BY <2>2, <1>1, <1>5
    <3>2. OnItsWay(v)' = OnItsWay(v) /\ conn'[via[g]] = conn[via[g]] BY <2>2, <3>1, <1>1
    <3> QED BY <3>1, <3>2, <1>5 DEF UpInv, Arrives
  <2> QED BY <2>1, <2>2
<1> QED BY <1>3, <1>4, <1>5

\* The sender's connection carries what was written, if it is another one or carries
\* what it did.
LEMMA OthersSend ==
  ASSUME UpInv, NEW u, NEW q, NEW k, SlotStep(u, q, k), taken' \in Seq(Seq(U!Units)),
         q.sckt = None_ \/ snd.pc \notin Hands \/ snd.c # peer[u].sckt \/ k.rst
           \/ (q.buf \o k.up = OnItsWay(u) /\ k.rst = conn[peer[u].sckt].rst)
  PROVE  Sending'
<1>1. /\ peer[u].sckt \in Conns /\ conn'[peer[u].sckt] = k /\ peer'[u] = q
      /\ \A v \in UpSlots : v # u => peer'[v] = peer[v]
      /\ \A v \in UpSlots : v # u /\ peer[v].sckt # None_ =>
           /\ peer[v].sckt # peer[u].sckt /\ conn'[peer[v].sckt] = conn[peer[v].sckt]
           /\ OnItsWay(v)' = OnItsWay(v)
  BY SlotStepKeeps
<1>2. UpSlots' = UpSlots /\ snd' = snd BY DEF UpSlots, SlotStep
<1> SUFFICES ASSUME NEW v \in UpSlots, snd.pc \in Hands, peer'[v].sckt = snd.c, ~conn'[snd.c].rst
             PROVE  OnItsWay(v)' = SubSeq(U!Stream(snd.game), 1, snd.cut)
  BY <1>2 DEF Sending, Hands, U!Stream, U!Body
<1>3. snd.c \in U!Senders /\ snd.c # None_ BY UpFacts DEF UpInv, Sends, Hands
<1>4. CASE v = u
  <2>1. q.sckt = snd.c /\ q.sckt = peer[u].sckt BY <1>1, <1>3, <1>4 DEF SlotStep
  <2>2. ~k.rst /\ q.buf \o k.up = OnItsWay(u) /\ ~conn[snd.c].rst BY <2>1, <1>1, <1>3
  <2>3. OnItsWay(v)' = OnItsWay(u) BY <2>1, <2>2, <1>1, <1>4 DEF OnItsWay
  <2> QED BY <2>1, <2>2, <2>3 DEF UpInv, Sending, SlotStep
<1>5. CASE v # u
  <2>1. peer'[v] = peer[v] /\ peer[v].sckt = snd.c BY <1>1, <1>5
  <2>2. OnItsWay(v)' = OnItsWay(v) /\ conn'[snd.c] = conn[snd.c] BY <2>1, <1>1, <1>3, <1>5
  <2> QED BY <2>1, <2>2 DEF UpInv, Sending
<1> QED BY <1>4, <1>5

\* The rest of what is said of the sender.
LEMMA OthersRest ==
  ASSUME UpInv, NEW u, NEW q, NEW k, SlotStep(u, q, k), taken' \in Seq(Seq(U!Units)),
         \A v \in UpSlots : peer'[v].sckt \in U!Senders =>
           Carries(peer[v], conn[peer[v].sckt].up, peer[v].sckt)'
  PROVE  Sends'
<1>0. conn[peer[u].sckt].st = "open" BY DEF UpInv, Slots, SlotStep
<1>1. /\ peer[u].sckt \in Conns /\ conn'[peer[u].sckt] = k /\ conn[peer[u].sckt].st = "open"
      /\ \A c \in Conns : c # peer[u].sckt => conn'[c] = conn[c]
  BY <1>0, SlotStepKeeps
<1>2. UpSlots' = UpSlots /\ snd' = snd /\ via' = via /\ U!Senders' = U!Senders /\ U!Games' = U!Games
  BY DEF UpSlots, U!Senders, U!Games, U!Loader, SlotStep
<1>3. \A c \in Conns : c > snd.c => conn'[c].st = "none" BY <1>1 DEF UpInv, Sends
<1>4. snd.pc = "send" => conn'[snd.c].st \in {"open", "shut"}
  <2>1. snd.c \in Conns BY DEF UpInv, UpTypes, Sender
  <2> QED BY <2>1, <1>1 DEF UpInv, Sends, SlotStep
<1> QED BY <1>2, <1>3, <1>4 DEF UpInv, Sends, Hands

\* A slot that is cleared closes its connection.
LEMMA Closes ==
  ASSUME UpInv, NEW u, NEW q, NEW k, SlotStep(u, q, k), taken' = taken, q.sckt = None_,
         k = U!Shut(conn[peer[u].sckt])
  PROVE  UpInv'
<1>0. taken \in Seq(Seq(U!Units)) BY DEF UpInv, UpTypes
<1>1. /\ UpTypes' /\ Slots' /\ peer[u].sckt \in Conns
      /\ conn'[peer[u].sckt] = k /\ peer'[u] = q
      /\ \A c \in Conns : c # peer[u].sckt => conn'[c] = conn[c]
      /\ \A v \in UpSlots : v # u => peer'[v] = peer[v]
      /\ \A v \in UpSlots : v # u /\ peer[v].sckt # None_ =>
           /\ peer[v].sckt # peer[u].sckt /\ conn'[peer[v].sckt] = conn[peer[v].sckt]
           /\ OnItsWay(v)' = OnItsWay(v)
  BY <1>0, SlotStepKeeps
<1>2. Sending' BY <1>0, OthersSend
<1>3. Arrives' BY <1>0, OthersArrive
<1>4. Recorded'
  <2>1. U!Games' = U!Games /\ via' = via BY DEF U!Games, SlotStep
  <2> QED BY <2>1 DEF UpInv, Recorded, U!Body
<1>5. Sends'
  <2>1. ASSUME NEW v \in UpSlots, peer'[v].sckt \in U!Senders
        PROVE  Carries(peer[v], conn[peer[v].sckt].up, peer[v].sckt)'
    <3>1. v # u /\ peer[v].sckt \in U!Senders BY <2>1, <1>1, UpFacts
    <3> QED BY <3>1, <1>0, OthersCarry
  <2> QED BY <2>1, <1>0, OthersRest
<1>6. Loads'
  <2>0. UpSlots' = UpSlots /\ U!Loader' = U!Loader /\ Questions' = Questions /\ ld' = ld
    BY DEF UpSlots, U!Loader, Questions, SlotStep
  <2>1. U!Loader \in Conns /\ U!Loader # None_ BY UpFacts
  <2>2. conn'[U!Loader].down = conn[U!Loader].down
    /\ (conn'[U!Loader].st = conn[U!Loader].st
          \/ (conn[U!Loader].st = "open" /\ conn'[U!Loader].st = "shut"))
    /\ conn'[U!Loader].rst = conn[U!Loader].rst
    <3>1. conn[peer[u].sckt] \in Connections /\ conn[peer[u].sckt].st = "open"
      BY <1>1 DEF UpInv, UpTypes, Slots, SlotStep
    <3>2. k.down = conn[peer[u].sckt].down /\ k.st = "shut" /\ k.rst = conn[peer[u].sckt].rst
      BY <3>1 DEF U!Shut, Connections
    <3> QED BY <3>1, <3>2, <2>1, <1>1
  <2>3. Unread' BY <2>0, <2>2 DEF UpInv, Loads, Unread
  <2>4. HasRead' BY <2>0 DEF UpInv, Loads, HasRead
  <2>5. ASSUME NEW v \in UpSlots, peer'[v].sckt = U!Loader
        PROVE  /\ OnItsWay(v)' \in Questions
               /\ ~conn'[U!Loader].rst => Asks(peer[v], conn[U!Loader], OnItsWay(v))'
    <3>1. v # u /\ peer'[v] = peer[v] /\ peer[v].sckt = U!Loader BY <2>1, <2>5, <1>1
    <3>2. OnItsWay(v)' = OnItsWay(v) /\ conn'[U!Loader] = conn[U!Loader] BY <2>1, <3>1, <1>1
    <3>3. OnItsWay(v) \in Questions /\ (~conn[U!Loader].rst => Asks(peer[v], conn[U!Loader], OnItsWay(v)))
      BY <3>1 DEF UpInv, Loads
    <3>4. ~conn[U!Loader].rst => Asks(peer[v], conn[U!Loader], OnItsWay(v))'
      BY <3>1, <3>2, <3>3, <2>0 DEF Asks
    <3> QED BY <3>2, <3>3, <3>4
  <2> QED BY <2>0, <2>2, <2>3, <2>4, <2>5 DEF UpInv, Loads
<1> QED BY <1>1, <1>2, <1>3, <1>4, <1>5, <1>6 DEF UpInv

----------------------------------------------------------------------------
(* The slots of the sender's connections.                                    *)

\* Nothing of the download is touched there.
LEMMA LoadsElsewhere ==
  ASSUME UpInv, NEW u, NEW q, NEW k, SlotStep(u, q, k), taken' \in Seq(Seq(U!Units)),
         peer[u].sckt # U!Loader
  PROVE  Loads'
<1>1. U!Loader \in Conns /\ U!Loader # None_ BY UpFacts
<1>2. conn'[U!Loader] = conn[U!Loader] BY <1>1, SlotStepKeeps
<1>3. ld' = ld BY DEF SlotStep
<1>4. ASSUME NEW v \in UpSlots, peer'[v].sckt = U!Loader PROVE peer'[v] = peer[v]
  <2>1. v # u
    <3>1. peer'[u] = q BY SlotStepKeeps
    <3>2. q.sckt \in {peer[u].sckt, None_} BY DEF SlotStep
    <3> QED BY <3>1, <3>2, <1>1, <1>4
  <2> QED BY <2>1, SlotStepKeeps
<1> QED BY <1>2, <1>3, <1>4, LoadsKept DEF UpInv

\* Two games have the same beginning only if it shows neither of them.
LEMMA BeginsOne ==
  ASSUME NEW g \in U!Games, NEW h \in U!Games, NEW k \in 0 .. 2 + LenRec[g],
         NEW n \in 0 .. 2 + LenRec[h], NEW s, Begins(s, g, k), Begins(s, h, n)
  PROVE  k = n /\ (k <= 2 \/ g = h)
<1>1. Len(s) = k /\ \A i \in 1 .. k : s[i] = U!Stream(g)[i] BY BeginFacts
<1>2. Len(s) = n /\ \A i \in 1 .. n : s[i] = U!Stream(h)[i] BY BeginFacts
<1>3. LenRec[g] \in Nat BY UpFacts
<1>4. ASSUME ~(k <= 2) PROVE g = h
  <2>1. 3 \in 1 .. k BY <1>3, <1>4
  <2>2. s[3] = U!Stream(g)[3] BY <1>1, <2>1
  <2>3. s[3] = U!Stream(h)[3] BY <1>1, <1>2, <2>1
  <2> QED BY <2>2, <2>3, ThirdUnit
<1> QED BY <1>1, <1>2, <1>4

\* The stream of a game is its whole beginning.
LEMMA WholeBegins ==
  ASSUME NEW g \in U!Games
  PROVE  \A s : s = U!Stream(g) <=> Begins(s, g, 2 + LenRec[g])
<1> DEFINE t == U!Stream(g)
<1>1. t \in Seq(U!Units) /\ Len(t) = 2 + LenRec[g] BY StreamFacts
<1> HIDE DEF t
<1>2. SubSeq(t, 1, 2 + LenRec[g]) = t BY <1>1, SubSeqFull
<1> QED BY <1>2 DEF t, Begins

\* A slot that goes on with what is on its way.
LEMMA SenderStays ==
  ASSUME UpInv, NEW u, NEW q, NEW k, SlotStep(u, q, k), taken' = taken,
         peer[u].sckt \in U!Senders, q.sckt = peer[u].sckt,
         q.stat \in {"header", "idle"}, k.rst = conn[peer[u].sckt].rst,
         q.buf \o k.up = OnItsWay(u),
         \A g \in U!Games : \A n \in 1 .. 2 + LenRec[g] :
           Begins(OnItsWay(u), g, n) => Len(q.buf) < 2 + LenRec[g]
  PROVE  UpInv'
<1>0. taken \in Seq(Seq(U!Units)) /\ taken' \in Seq(Seq(U!Units)) BY DEF UpInv, UpTypes
<1>1. UpTypes' /\ Slots' /\ peer'[u] = q /\ conn'[peer[u].sckt] = k BY <1>0, SlotStepKeeps
<1>2. Sending' BY <1>0, OthersSend
<1>3. Arrives'
  <2>1. ASSUME NEW g \in U!Games, q.sckt = via[g], ~k.rst, q.sckt # None_
        PROVE  \/ q.buf \o k.up = U!Stream(g) /\ Len(q.buf) < 2 + LenRec[g]
               \/ \E n \in DOMAIN taken' : taken'[n] = U!Body(g)
    <3>1. u \in UpSlots /\ LenRec[g] \in Nat BY UpFacts DEF SlotStep
    <3>2. \/ OnItsWay(u) = U!Stream(g)
          \/ \E n \in DOMAIN taken : taken[n] = U!Body(g)
      BY <2>1, <3>1 DEF UpInv, Arrives
    <3>3. ASSUME OnItsWay(u) = U!Stream(g) PROVE Len(q.buf) < 2 + LenRec[g]
      <4>1. Begins(OnItsWay(u), g, 2 + LenRec[g]) BY <3>3, WholeBegins
      <4>2. 2 + LenRec[g] \in 1 .. 2 + LenRec[g] BY <3>1
      <4> QED BY <4>1, <4>2
    <3> QED BY <3>2, <3>3
  <2>2. \A g \in U!Games : (\E n \in DOMAIN taken : taken[n] = U!Body(g))
                            => \E n \in DOMAIN taken' : taken'[n] = U!Body(g)
    OBVIOUS
  <2>3. \A g \in U!Games : q.sckt = via[g] /\ ~k.rst /\ q.sckt # None_ =>
          \/ q.buf \o k.up = U!Stream(g) /\ Len(q.buf) < 2 + LenRec[g]
          \/ \E n \in DOMAIN taken' : taken'[n] = U!Body(g)
    BY <2>1
  <2>4. taken' \in Seq(Seq(U!Units)) BY <1>0
  <2> QED BY <2>2, <2>3, <2>4, OthersArrive
<1>4. Recorded'
  <2>1. U!Games' = U!Games /\ via' = via BY DEF U!Games, SlotStep
  <2> QED BY <2>1 DEF UpInv, Recorded, U!Body
<1>5. Sends'
  <2>1. ASSUME NEW v \in UpSlots, peer'[v].sckt \in U!Senders
        PROVE  Carries(peer[v], conn[peer[v].sckt].up, peer[v].sckt)'
    <3>1. CASE v = u
      <4> DEFINE up == conn[peer[v].sckt].up
                 c  == peer[v].sckt
      <4>1. Carries(peer[u], conn[peer[u].sckt].up, peer[u].sckt)
        BY <3>1 DEF UpInv, Sends
      <4>2. up' = k.up /\ c' = peer[u].sckt BY <3>1, <1>1
      <4>3. OnItsWay(u) = peer[u].buf \o conn[peer[u].sckt].up BY DEF OnItsWay
      <4>4. q \in PeerSlots /\ k \in Connections /\ via' = via BY DEF SlotStep
      <4>5. q.buf \in Seq(U!Units) /\ k.up \in Seq(U!Units) BY <4>4 DEF PeerSlots, Connections
      <4>6. CASE peer[u].buf = <<>> /\ conn[peer[u].sckt].up = <<>>
        <5>1. OnItsWay(u) = <<>> BY <4>3, <4>6
        <5>2. Len(q.buf) + Len(k.up) = 0
          <6>1. Len(q.buf \o k.up) = Len(q.buf) + Len(k.up) BY <4>5, ConcatProperties
          <6>2. Len(q.buf \o k.up) = 0
            <7>1. q.buf \o k.up = <<>> BY <5>1
            <7> QED BY <7>1
          <6> QED BY <6>1, <6>2
        <5>3. q.buf = <<>> /\ k.up = <<>>
          <6> DEFINE x == q.buf
                     y == k.up
          <6> HIDE DEF x, y
          <6>1. x \in Seq(U!Units) /\ y \in Seq(U!Units) /\ Len(x) + Len(y) = 0
            BY <5>2, <4>5 DEF x, y
          <6>2. Len(x) = 0 /\ Len(y) = 0 BY <6>1, LenProperties
          <6>3. x = <<>> /\ y = <<>> BY <6>1, <6>2, EmptySeq
          <6> QED BY <6>3 DEF x, y
        <5> HIDE DEF up, c
        <5>4. Carries(peer[v], up, c)' BY <5>3, <4>2, <1>1, <3>1 DEF Carries
        <5> QED BY <5>4 DEF up, c
      <4>7. CASE ~(peer[u].buf = <<>> /\ conn[peer[u].sckt].up = <<>>)
        <5>0. PICK g \in U!Games : \E n \in 1 .. 2 + LenRec[g] :
                /\ Begins(OnItsWay(u), g, n)
                /\ n = 2 + LenRec[g] => via[g] = peer[u].sckt
                                        /\ \A m \in DOMAIN taken : taken[m] # U!Body(g)
          BY <4>1, <4>3, <4>7 DEF Carries, Begins
        <5>1. PICK n \in 1 .. 2 + LenRec[g] :
                /\ Begins(OnItsWay(u), g, n)
                /\ n = 2 + LenRec[g] => via[g] = peer[u].sckt
                                        /\ \A m \in DOMAIN taken : taken[m] # U!Body(g)
          BY <5>0
        <5>2. Begins(q.buf \o k.up, g, n) /\ Len(q.buf) < 2 + LenRec[g] BY <5>1
        <5> HIDE DEF up, c
        <5>3. U!Games' = U!Games BY DEF U!Games
        <5>4. Carries(peer[v], up, c)'
          BY <5>1, <5>2, <5>3, <4>2, <4>4, <1>1, <3>1 DEF Carries, Begins
        <5> QED BY <5>4 DEF up, c
      <4> QED BY <4>6, <4>7
    <3>2. CASE v # u
      <4>1. peer[v].sckt \in U!Senders BY <3>2, <2>1, <1>0, SlotStepKeeps
      <4> QED BY <4>1, <3>2, <1>0, OthersCarry
    <3> QED BY <3>1, <3>2
  <2> QED BY <2>1, <1>0, OthersRest
<1>6. Loads'
  <2>1. peer[u].sckt # U!Loader BY UpFacts
  <2> QED BY <2>1, <1>0, LoadsElsewhere
<1> QED BY <1>1, <1>2, <1>3, <1>4, <1>5, <1>6 DEF UpInv

\* A slot that has read a whole record.
LEMMA SenderRecorded ==
  ASSUME UpInv, NEW u, NEW q, NEW k, SlotStep(u, q, k), NEW g \in U!Games,
         taken' = Append(taken, U!Body(g)), \A n \in DOMAIN taken : taken[n] # U!Body(g),
         peer[u].sckt \in U!Senders, via[g] = peer[u].sckt, OnItsWay(u) = U!Stream(g),
         q.sckt = peer[u].sckt, q.stat \in {"header", "idle"}, ~conn[peer[u].sckt].rst,
         q.buf = <<>>, k.up = <<>>
  PROVE  UpInv'
<1>0. /\ taken \in Seq(Seq(U!Units)) /\ U!Body(g) \in Seq(U!Units)
      /\ u \in UpSlots /\ via' = via /\ U!Games' = U!Games /\ via[g] # None_
  BY StreamFacts, UpFacts DEF UpInv, UpTypes, SlotStep, U!Games
<1>1. /\ taken' \in Seq(Seq(U!Units)) /\ DOMAIN taken' = 1 .. Len(taken) + 1
      /\ DOMAIN taken = 1 .. Len(taken) /\ Len(taken) \in Nat
      /\ \A n \in 1 .. Len(taken) : taken'[n] = taken[n]
      /\ taken'[Len(taken) + 1] = U!Body(g)
  <2> DEFINE b == U!Body(g)
  <2>1. b \in Seq(U!Units) BY <1>0
  <2> HIDE DEF b
  <2>2. /\ Append(taken, b) \in Seq(Seq(U!Units)) /\ Len(Append(taken, b)) = Len(taken) + 1
        /\ \A n \in 1 .. Len(taken) : Append(taken, b)[n] = taken[n]
        /\ Append(taken, b)[Len(taken) + 1] = b
    BY <2>1, <1>0, AppendProperties
  <2>3. taken' = Append(taken, b) BY DEF b
  <2> QED BY <2>2, <2>3, <1>0 DEF b
<1>2. \A h \in U!Games : (\E n \in DOMAIN taken : taken[n] = U!Body(h))
                           => \E n \in DOMAIN taken' : taken'[n] = U!Body(h)
  BY <1>1
<1>3. UpTypes' /\ Slots' /\ peer'[u] = q /\ conn'[peer[u].sckt] = k BY <1>1, SlotStepKeeps
<1>4. Sending'
  <2>1. ASSUME snd.pc \in Hands, snd.c = peer[u].sckt PROVE FALSE
    <3>1. Begins(OnItsWay(u), snd.game, snd.cut) BY <2>1, <1>0 DEF UpInv, Sending, Begins
    <3>2. Begins(OnItsWay(u), g, 2 + LenRec[g]) BY WholeBegins
    <3>3. snd.game \in U!Games /\ snd.cut < 2 + LenRec[snd.game] /\ snd.cut \in Nat
      BY <2>1 DEF UpInv, UpTypes, Sends, Sender, Hands
    <3>4. LenRec[g] \in Nat \ {0} /\ LenRec[snd.game] \in Nat BY <3>3, UpFacts
    <3>5. snd.cut \in 0 .. 2 + LenRec[snd.game] /\ 2 + LenRec[g] \in 0 .. 2 + LenRec[g]
      BY <3>3, <3>4
    <3>6. snd.cut = 2 + LenRec[g] /\ (snd.cut <= 2 \/ snd.game = g)
      BY <3>1, <3>2, <3>3, <3>5, BeginsOne
    <3>7. snd.game = g BY <3>4, <3>6
    <3> QED BY <3>3, <3>6, <3>7, <3>4
  <2> QED BY <2>1, <1>1, OthersSend
<1>5. Arrives'
  <2>1. ASSUME NEW h \in U!Games, q.sckt = via[h], ~k.rst, q.sckt # None_
        PROVE  \E n \in DOMAIN taken' : taken'[n] = U!Body(h)
    <3>1. \/ OnItsWay(u) = U!Stream(h)
          \/ \E n \in DOMAIN taken : taken[n] = U!Body(h)
      BY <2>1, <1>0 DEF UpInv, Arrives
    <3>2. OnItsWay(u) = U!Stream(h) => h = g BY ThirdUnit
    <3>3. CASE OnItsWay(u) = U!Stream(h)
      <4>1. Len(taken) + 1 \in DOMAIN taken' BY <1>1
      <4>2. taken'[Len(taken) + 1] = U!Body(h) BY <3>2, <3>3, <1>1
      <4> QED BY <4>1, <4>2
    <3> QED BY <3>1, <3>3, <1>2
  <2> QED BY <2>1, <1>1, <1>2, OthersArrive
<1>6. Recorded'
  <2>1. \A n \in DOMAIN taken' : \E h \in U!Games : taken'[n] = U!Body(h) /\ via[h] # None_
    <3> SUFFICES ASSUME NEW n \in DOMAIN taken'
                 PROVE  \E h \in U!Games : taken'[n] = U!Body(h) /\ via[h] # None_
      OBVIOUS
    <3>1. CASE n = Len(taken) + 1 BY <3>1, <1>0, <1>1
    <3>2. CASE n # Len(taken) + 1
      <4>1. n \in DOMAIN taken /\ taken'[n] = taken[n] BY <3>2, <1>1
      <4> QED BY <4>1 DEF UpInv, Recorded
    <3> QED BY <3>1, <3>2
  <2>2. \A m, n \in DOMAIN taken' : taken'[m] = taken'[n] => m = n
    <3> SUFFICES ASSUME NEW m \in DOMAIN taken', NEW n \in DOMAIN taken', taken'[m] = taken'[n]
                 PROVE  m = n
      OBVIOUS
    <3>1. \A i \in DOMAIN taken' : i = Len(taken) + 1 \/ (i \in DOMAIN taken /\ taken'[i] = taken[i])
      BY <1>1
    <3> QED BY <3>1, <1>1 DEF UpInv, Recorded
  <2> QED BY <2>1, <2>2, <1>0 DEF Recorded, U!Body
<1>7. \A h \in U!Games : via[h] # peer[u].sckt =>
        ((\A n \in DOMAIN taken : taken[n] # U!Body(h)) => \A n \in DOMAIN taken' : taken'[n] # U!Body(h))
  <2> SUFFICES ASSUME NEW h \in U!Games, via[h] # peer[u].sckt,
                      \A n \in DOMAIN taken : taken[n] # U!Body(h), NEW n \in DOMAIN taken'
               PROVE  taken'[n] # U!Body(h)
    OBVIOUS
  <2>1. U!Body(h) # U!Body(g) BY BodyOne
  <2>2. n = Len(taken) + 1 \/ (n \in DOMAIN taken /\ taken'[n] = taken[n]) BY <1>1
  <2> QED BY <2>1, <2>2, <1>1
<1>8. Sends'
  <2>1. ASSUME NEW v \in UpSlots, peer'[v].sckt \in U!Senders
        PROVE  Carries(peer[v], conn[peer[v].sckt].up, peer[v].sckt)'
    <3>1. CASE v = u
      <4> DEFINE up == conn[peer[v].sckt].up
                 c  == peer[v].sckt
      <4>1. up' = <<>> /\ peer'[v] = q BY <3>1, <1>3
      <4> HIDE DEF up, c
      <4>2. Carries(peer[v], up, c)' BY <4>1 DEF Carries
      <4> QED BY <4>2 DEF up, c
    <3>2. CASE v # u
      <4>1. peer[v].sckt \in U!Senders BY <3>2, <2>1, <1>1, SlotStepKeeps
      <4> QED BY <4>1, <3>2, <1>1, <1>7, OthersCarry
    <3> QED BY <3>1, <3>2
  <2> QED BY <2>1, <1>1, OthersRest
<1>9. Loads'
  <2>1. peer[u].sckt # U!Loader BY UpFacts
  <2> QED BY <2>1, <1>1, LoadsElsewhere
<1> QED BY <1>3, <1>4, <1>5, <1>6, <1>8, <1>9 DEF UpInv
\* A slot and its connection.
LEMMA AtSlot ==
  ASSUME UpInv, NEW u \in UpSlots, peer[u].sckt # None_
  PROVE  /\ peer[u] \in PeerSlots /\ peer[u].sckt \in Conns
         /\ conn[peer[u].sckt] \in Connections /\ conn[peer[u].sckt].st = "open"
         /\ CanSend(peer[u])
         /\ conn[peer[u].sckt].rst => conn[peer[u].sckt].up = <<>> /\ conn[peer[u].sckt].down = <<>>
<1>1. peer[u] \in PeerSlots BY DEF UpInv, UpTypes, UpSlots
<1>2. peer[u].sckt \in Conns BY <1>1 DEF PeerSlots
<1> QED BY <1>1, <1>2 DEF UpInv, UpTypes, Slots

\* The games are not touched by the server.
GamesAlone == wght' = wght /\ snd' = snd /\ via' = via /\ ld' = ld

\* A slot is cleared, whatever it has read before.
LEMMA ClearKeeps ==
  ASSUME UpInv, NEW u \in UpSlots, peer[u].sckt # None_, NEW p \in PeerSlots,
         peer' = [peer EXCEPT ![u] = U!Clear(p)],
         conn' = [conn EXCEPT ![peer[u].sckt] = U!Shut(@)],
         taken' = taken, GamesAlone
  PROVE  UpInv'
<1> DEFINE q == U!Clear(p)
           k == U!Shut(conn[peer[u].sckt])
<1>1. q \in PeerSlots /\ q.sckt = None_ BY DEF PeerSlots, U!Clear
<1>2. conn[peer[u].sckt] \in Connections /\ peer[u].sckt \in Conns
      /\ (conn[peer[u].sckt].rst => conn[peer[u].sckt].down = <<>>)
  BY AtSlot
<1>3. k \in Connections /\ k.st = "shut" /\ k.up = <<>> /\ (k.rst => k.down = <<>>)
  <2>1. <<>> \in Seq(U!Units) OBVIOUS
  <2> QED BY <1>2, <2>1 DEF Connections, U!Shut
<1>4. k = U!Shut(conn[peer[u].sckt]) OBVIOUS
<1>5. peer' = [peer EXCEPT ![u] = q] /\ conn' = [conn EXCEPT ![peer[u].sckt] = k] OBVIOUS
<1> HIDE DEF q, k
<1>6. SlotStep(u, q, k) BY <1>1, <1>3, <1>5 DEF SlotStep, CanSend, GamesAlone
<1> QED BY <1>1, <1>4, <1>6, Closes

\* A connection has lasted too long.
LEMMA ExpireKeeps == ASSUME UpInv, NEW u \in UpSlots, U!Expire(u), GamesAlone PROVE UpInv'
<1>1. /\ peer[u].sckt # None_ /\ peer' = [peer EXCEPT ![u] = U!Clear(@)] /\ taken' = taken
      /\ conn' = [conn EXCEPT ![peer[u].sckt] = U!Shut(@)]
  BY DEF U!records, U!Expire, U!Open, U!Close
<1>2. peer[u] \in PeerSlots BY <1>1, AtSlot
<1>3. peer' = [peer EXCEPT ![u] = U!Clear(peer[u])] BY <1>1
<1> QED BY <1>1, <1>2, <1>3, ClearKeeps

\* What handle_recv() does with what it has read.
Reads(u, n) ==
  LET p == peer[u]
      c == p.sckt
      r == U!Parse(p.buf \o SubSeq(conn[c].up, 1, n))
      q == U!Handled(p, r)
  IN /\ n <= MaxRecv - Len(p.buf)
     /\ peer' = [peer EXCEPT ![u] = q]
     /\ conn' = [conn EXCEPT ![c] = IF U!Open(q) THEN U!Read(@, n) ELSE U!Shut(@)]
     /\ taken' = taken \o r.recs

\* handle_recv() closes the slot or reads some bytes.
LEMMA RecvIs ==
  ASSUME UpInv, NEW u \in UpSlots, U!Recv(u), GamesAlone
  PROVE  \/ UpInv'
         \/ /\ peer[u].sckt # None_ /\ ~conn[peer[u].sckt].rst /\ conn[peer[u].sckt].up # <<>>
            /\ \E n \in 1 .. Len(conn[peer[u].sckt].up) : Reads(u, n)
<1>1. /\ peer[u].sckt # None_
      /\ \/ /\ ~conn[peer[u].sckt].rst /\ conn[peer[u].sckt].up # <<>>
            /\ \E n \in 1 .. Len(conn[peer[u].sckt].up) : Reads(u, n)
         \/ U!Close(u) /\ taken' = taken
  BY DEF U!records, U!Recv, U!Open, Reads
<1>2. CASE U!Close(u) /\ taken' = taken
  <2>1. peer' = [peer EXCEPT ![u] = U!Clear(peer[u])]
        /\ conn' = [conn EXCEPT ![peer[u].sckt] = U!Shut(@)]
    BY <1>2 DEF U!Close
  <2>2. peer[u] \in PeerSlots BY <1>1, AtSlot
  <2> QED BY <1>1, <1>2, <2>1, <2>2, ClearKeeps
<1> QED BY <1>1, <1>2

\* The slot reads on, and keeps or takes what is whole.
LEMMA RecvSender ==
  ASSUME UpInv, NEW u \in UpSlots, peer[u].sckt \in U!Senders, U!Recv(u), GamesAlone
  PROVE  UpInv'
<1> DEFINE p == peer[u]
           x == peer[u].sckt
           up == conn[x].up
<1>0. x # None_ BY UpFacts
<1>1. /\ p \in PeerSlots /\ x \in Conns /\ conn[x] \in Connections /\ conn[x].st = "open"
      /\ CanSend(p) /\ p.buf \in Seq(U!Units) /\ up \in Seq(U!Units)
  BY <1>0, AtSlot DEF PeerSlots, Connections
<1> SUFFICES ASSUME ~conn[x].rst, up # <<>>, NEW n \in 1 .. Len(up), Reads(u, n)
             PROVE  UpInv'
  BY RecvIs
<1>2. PICK g \in U!Games : \E m \in 1 .. 2 + LenRec[g] :
        /\ p.buf \o up = SubSeq(U!Stream(g), 1, m)
        /\ Len(p.buf) < 2 + LenRec[g]
        /\ m = 2 + LenRec[g] => via[g] = x /\ \A i \in DOMAIN taken : taken[i] # U!Body(g)
  <2>1. Carries(p, up, x) BY DEF UpInv, Sends
  <2> QED BY <2>1 DEF Carries
<1>3. PICK m \in 1 .. 2 + LenRec[g] :
        /\ p.buf \o up = SubSeq(U!Stream(g), 1, m)
        /\ Len(p.buf) < 2 + LenRec[g]
        /\ m = 2 + LenRec[g] => via[g] = x /\ \A i \in DOMAIN taken : taken[i] # U!Body(g)
  BY <1>2
<1>4. p.stat \in {"header", "idle"}
  <2>1. Carries(p, up, x) BY DEF UpInv, Sends
  <2> QED BY <2>1 DEF Carries
<1> DEFINE buf == p.buf
           a == buf \o SubSeq(up, 1, n)
           y == SubSeq(up, n + 1, Len(up))
           r == U!Parse(a)
           q == U!Handled(p, r)
<1>5. /\ peer' = [peer EXCEPT ![u] = q]
      /\ conn' = [conn EXCEPT ![x] = IF U!Open(q) THEN U!Read(@, n) ELSE U!Shut(@)]
      /\ taken' = taken \o r.recs
      /\ n <= MaxRecv - Len(buf)
  <2>1. peer' = [peer EXCEPT ![u] = q] BY DEF Reads
  <2>2. conn' = [conn EXCEPT ![x] = IF U!Open(q) THEN U!Read(@, n) ELSE U!Shut(@)]
    BY DEF Reads
  <2>3. taken' = taken \o r.recs BY DEF Reads
  <2>4. n <= MaxRecv - Len(buf) BY DEF Reads
  <2> QED BY <2>1, <2>2, <2>3, <2>4
<1>6. OnItsWay(u) = buf \o up BY DEF OnItsWay
<1>7. buf \in Seq(U!Units) /\ up \in Seq(U!Units) /\ buf = p.buf BY <1>1
<1>8. Begins(buf \o up, g, m) BY <1>3 DEF Begins
<1>9. taken \in Seq(Seq(U!Units)) BY DEF UpInv, UpTypes
<1>10. LenRec[g] \in Nat \ {0} /\ MaxRecv \in Nat BY UpFacts, UploadAssumption
<1> DEFINE k == U!Read(conn[x], n)
<1>30. k = [conn[x] EXCEPT !.up = y] BY DEF U!Read
<1> HIDE DEF k
<1> HIDE DEF p, x, up, buf
<1>11. /\ a \in Seq(U!Units) /\ Len(a) = Len(buf) + n /\ y \in Seq(U!Units)
       /\ Len(y) = Len(up) - n /\ a \o y = buf \o up
  <2>1. n \in 0 .. Len(up) BY <1>7, LenProperties
  <2> QED BY <2>1, <1>7, Reading
<1> HIDE DEF a, y
<1>12. Len(a) + Len(y) = m /\ Begins(a, g, Len(a))
  <2>1. Begins(a \o y, g, m) /\ m \in 0 .. 2 + LenRec[g] BY <1>8, <1>11
  <2> QED BY <2>1, <1>11, BeginCut
<1>13. Len(a) \in 1 .. m /\ Len(a) <= MaxRecv /\ Len(y) \in Nat
  <2>1. Len(buf) \in Nat /\ Len(y) \in Nat /\ Len(up) \in Nat BY <1>7, <1>11, LenProperties
  <2>2. Len(a) = Len(buf) + n /\ n \in 1 .. Len(up) BY <1>11 
  <2>3. n <= MaxRecv - Len(buf) BY <1>5
  <2> QED BY <2>1, <2>2, <2>3, <1>10, <1>12
<1>14. r \in Turns
  <2>1. a \in Seq(U!Units) BY <1>11
  <2> QED BY <2>1, ParseTypes
<1> DEFINE e == [p EXCEPT !.buf = r.rest]
<1>15. /\ e \in PeerSlots /\ e.sckt = x /\ e.buf = r.rest /\ e.stat = p.stat /\ CanSend(e)
  <2>1. r.rest \in Seq(U!Units) BY <1>14 DEF Turns
  <2> HIDE DEF r
  <2>2. e \in PeerSlots BY <2>1, <1>1 DEF PeerSlots
  <2>3. CanSend(e) BY <1>1 DEF CanSend, PeerSlots, BlockLen
  <2> QED BY <2>2, <2>3, <1>1 DEF PeerSlots, x, p
<1>16. /\ r.do = "wait" => q = e
       /\ r.do = "close" => q = U!Clear(e)
  BY DEF U!Handled
<1>17. k \in Connections /\ k.st = "open" /\ k.rst = conn[x].rst /\ k.up = y
  BY <1>1, <1>11, <1>30 DEF Connections
<1>18. peer[u] = p /\ peer[u].sckt = x BY DEF p, x
<1> HIDE DEF r, q, e, k
<1>19. ASSUME r.do = "wait" PROVE SlotStep(u, e, k)
  <2>1. q = e /\ q.sckt # None_ BY <1>0, <1>15, <1>16, <1>19
  <2>2. conn' = [conn EXCEPT ![x] = k] BY <1>5, <2>1 DEF k, U!Open
  <2> QED BY <2>1, <2>2, <1>0, <1>5, <1>15, <1>17, <1>18 DEF SlotStep, GamesAlone
<1>20. CASE Len(a) < 2 + LenRec[g]
  <2>1. r.do \in {"wait", "close"} /\ r.recs = <<>> /\ (r.do = "wait" => r.rest = a)
    <3>1. Len(a) \in 1 .. 2 + LenRec[g] BY <1>10, <1>13, <1>20
    <3> QED BY <3>1, <1>12, <1>20, ParsePart DEF r
  <2>2. taken' = taken
    <3>1. HasUnit(Seq(U!Units)) BY ConcatenationLaws
    <3>2. taken \o <<>> = taken BY <3>1, <1>9, Zenon DEF HasUnit
    <3> QED BY <3>2, <2>1, <1>5
  <2>3. CASE r.do = "close"
    <3>1. q = U!Clear(e) BY <2>3, <1>16
    <3>2. q.sckt = None_ BY <3>1, <1>15 DEF U!Clear, PeerSlots
    <3>3. conn' = [conn EXCEPT ![x] = U!Shut(@)] BY <1>5, <3>2 DEF U!Open
    <3> QED BY <3>1, <3>3, <2>2, <1>0, <1>5, <1>15, <1>18, ClearKeeps
  <2>4. CASE r.do = "wait"
    <3>1. SlotStep(u, e, k) BY <2>4, <1>19
    <3>2. e.buf = a /\ e.buf \o k.up = OnItsWay(u) BY <2>1, <2>4, <1>6, <1>11, <1>15, <1>17
    <3>3. \A h \in U!Games : \A i \in 1 .. 2 + LenRec[h] :
            Begins(OnItsWay(u), h, i) => Len(e.buf) < 2 + LenRec[h]
      <4> SUFFICES ASSUME NEW h \in U!Games, NEW i \in 1 .. 2 + LenRec[h], Begins(OnItsWay(u), h, i)
                   PROVE  Len(a) < 2 + LenRec[h]
        BY <3>2
      <4>1. i \in 0 .. 2 + LenRec[h] /\ m \in 0 .. 2 + LenRec[g] /\ LenRec[h] \in Nat \ {0}
        BY UpFacts
      <4>2. m = i /\ (m <= 2 \/ g = h) BY <4>1, <1>6, <1>8, BeginsOne
      <4> QED BY <4>1, <4>2, <1>13, <1>20
    <3> QED BY <3>1, <3>2, <3>3, <2>2, <1>4, <1>15, <1>17, <1>18, SenderStays
  <2> QED BY <2>1, <2>3, <2>4
<1>21. CASE ~(Len(a) < 2 + LenRec[g])
  <2>1. Len(a) = 2 + LenRec[g] /\ m = 2 + LenRec[g] /\ Len(y) = 0
    BY <1>10, <1>12, <1>13, <1>21
  <2>2. y = <<>> BY <2>1, <1>11, EmptySeq
  <2>3. r = [do |-> "wait", rest |-> <<>>, recs |-> <<U!Body(g)>>]
    BY <2>1, <1>12, <1>13, ParseWhole DEF r
  <2>4. SlotStep(u, e, k) /\ e.buf = <<>> /\ k.up = <<>> BY <2>2, <2>3, <1>15, <1>17, <1>19
  <2>5. taken' = Append(taken, U!Body(g))
    <3> DEFINE b == U!Body(g)
    <3>1. b \in Seq(U!Units) BY StreamFacts
    <3> HIDE DEF b
    <3>2. taken \o <<b>> = Append(taken, b) BY <3>1, <1>9, AppendIsConcat
    <3> QED BY <3>2, <2>3, <1>5 DEF b
  <2>6. OnItsWay(u) = U!Stream(g) BY <2>1, <1>6, <1>8, WholeBegins
  <2>7. via[g] = x /\ \A i \in DOMAIN taken : taken[i] # U!Body(g) BY <2>1, <1>3
  <2> QED BY <2>4, <2>5, <2>6, <2>7, <1>4, <1>15, <1>18, SenderRecorded DEF x
<1> QED BY <1>20, <1>21
----------------------------------------------------------------------------
(* The slot of the download.                                                 *)

\* The questions are sequences of units.
LEMMA AskedTypes ==
  /\ InfoAsked \in Seq(U!Units) /\ Len(InfoAsked) = 1 /\ InfoAsked[1].k = "info"
  /\ <<U!Cmd("wght")>> \in Seq(U!Units) /\ Len(<<U!Cmd("wght")>>) = 1
  /\ <<U!Cmd("wght")>>[1].k = "wght"
  /\ HelloSent \in Seq(U!Units) /\ Len(HelloSent) = 1
  /\ \A i \in Nat : /\ BlockAsked(i) \in Seq(U!Units) /\ Len(BlockAsked(i)) = 2
                    /\ BlockAsked(i)[1] = U!Cmd("wght") /\ BlockAsked(i)[2] = U!Num(i)
                    /\ BlockAsked(i)[2].n = i
BY UnitTypes DEF InfoAsked, BlockAsked, HelloSent

\* A question comes whole or in its two units.
LEMMA QuestionCut ==
  ASSUME NEW a \in Seq(U!Units), NEW b \in Seq(U!Units), a # <<>>, a \o b \in Questions
  PROVE  \/ a = InfoAsked /\ b = <<>>
         \/ a = <<U!Cmd("wght")>> /\ b = <<>>
         \/ \E i \in Nat : a = BlockAsked(i) /\ b = <<>>
         \/ \E i \in Nat : a = <<U!Cmd("wght")>> /\ b = <<U!Num(i)>>
<1> DEFINE t == a \o b
           w == <<U!Cmd("wght")>>
<1>1. /\ t \in Seq(U!Units) /\ Len(t) = Len(a) + Len(b)
      /\ \A i \in 1 .. Len(a) + Len(b) : t[i] = IF i <= Len(a) THEN a[i] ELSE b[i - Len(a)]
  BY ConcatProperties
<1>2. Len(a) \in Nat \ {0} /\ Len(b) \in Nat BY EmptySeq, LenProperties
<1>3. t = <<>> \/ t = InfoAsked \/ t = w \/ \E i \in Nat : t = BlockAsked(i) BY DEF Questions
<1>4. w \in Seq(U!Units) /\ Len(w) = 1 /\ w[1] = U!Cmd("wght") BY AskedTypes
<1> HIDE DEF t, w
<1>5. CASE b = <<>>
  <2>1. t = a
    <3>1. HasUnit(U!Units) BY ConcatenationLaws
    <3>2. a \o <<>> = a BY <3>1, Zenon DEF HasUnit
    <3> QED BY <3>2, <1>5 DEF t
  <2> QED BY <2>1, <1>3, <1>5 DEF w
<1>6. CASE b # <<>>
  <2>1. Len(b) \in Nat \ {0} BY <1>6, EmptySeq
  <2>2. PICK i \in Nat : t = BlockAsked(i)
    <3>1. Len(t) > 1 BY <2>1, <1>1, <1>2
    <3>2. t # <<>> /\ t # InfoAsked /\ t # w
      <4>1. t # <<>>
        <5>1. Len(t) # 0 BY <3>1
        <5> QED BY <5>1
      <4>2. Len(InfoAsked) = 1 /\ Len(t) # 1 BY <3>1, AskedTypes
      <4>3. t # InfoAsked /\ t # w BY <4>2, <1>4
      <4> QED BY <4>1, <4>3
    <3> QED BY <3>2, <1>3
  <2>3. Len(t) = 2 /\ t[1] = U!Cmd("wght") /\ t[2] = U!Num(i) BY <2>2, AskedTypes
  <2>4. Len(a) = 1 /\ Len(b) = 1
    <3> DEFINE m == Len(a)
               n == Len(b)
    <3>1. m + n = 2 /\ m \in Nat \ {0} /\ n \in Nat \ {0} BY <2>1, <2>3, <1>1, <1>2
    <3> HIDE DEF m, n
    <3>2. m = 1 /\ n = 1 BY <3>1
    <3> QED BY <3>2 DEF m, n
  <2>5. a[1] = U!Cmd("wght") /\ b[1] = U!Num(i) BY <2>3, <2>4, <1>1
  <2>6. a = w
    <3>1. \A j \in 1 .. Len(a) : a[j] = w[j] BY <2>4, <2>5, <1>4
    <3> QED BY <3>1, <2>4, <1>4, SeqEqual
  <2>7. b = <<U!Num(i)>>
    <3> DEFINE v == <<U!Num(i)>>
    <3>1. v \in Seq(U!Units) /\ Len(v) = 1 /\ v[1] = U!Num(i) BY UnitTypes
    <3> HIDE DEF v
    <3>2. \A j \in 1 .. Len(b) : b[j] = v[j] BY <3>1, <2>4, <2>5
    <3>3. b = v BY <3>1, <3>2, <2>4, SeqEqual
    <3> QED BY <3>3 DEF v
  <2> QED BY <2>6, <2>7 DEF w
<1> QED BY <1>5, <1>6

\* The block the download waits for is one of its weight's.
LEMMA InHand ==
  ASSUME UpInv, ld.pc \in {"len", "block"}
  PROVE  /\ ld.no \in DOMAIN LenWght /\ ld.i \in Nat /\ ld.i < U!Blocks(ld.no)
         /\ BlockLen(ld.no, ld.i) \in Nat \ {0}
<1>1. ld.no \in DOMAIN LenWght /\ ld.i \in Nat /\ ld.i < U!Blocks(ld.no)
  BY DEF UpInv, UpTypes, Download, Loads, HasRead
<1> QED BY <1>1, BlockFacts

\* What has not been read is what the slot knows of it.
LEMMA AsksUnread ==
  ASSUME UpInv, NEW q \in PeerSlots, NEW k \in Connections, NEW t, Asks(q, k, t), ld' = ld,
         conn'[U!Loader] = k
  PROVE  Unread'
<1>0. U!Loader' = U!Loader BY DEF U!Loader
<1>1. ld.pc = "hello" => k.down \in {<<>>, HelloSent} BY DEF Asks
<1>2. ld.pc = "info" => k.down = <<>> \/ \E w \in DOMAIN LenWght : k.down = InfoSent(w)
  BY DEF Asks, PeerSlots
<1>3. ASSUME ld.pc = "len"
      PROVE  \E s \in 0 .. BlockLen(ld.no, ld.i) : k.down = Answer(ld.no, ld.i, s)
  <2>1. BlockLen(ld.no, ld.i) \in Nat \ {0} BY <1>3, InHand
  <2>2. Answer(ld.no, ld.i, 0) = <<>> BY DEF Answer
  <2>3. q.sent \in Nat BY DEF PeerSlots
  <2>4. \/ k.down = <<>>
        \/ q.sent < BlockLen(ld.no, ld.i) /\ k.down = Answer(ld.no, ld.i, q.sent)
        \/ k.down = Answer(ld.no, ld.i, BlockLen(ld.no, ld.i))
    BY <1>3 DEF Asks
  <2> HIDE DEF Answer, BlockLen
  <2> QED BY <2>1, <2>2, <2>3, <2>4
<1>4. ASSUME ld.pc = "block"
      PROVE  \E s \in 0 .. BlockLen(ld.no, ld.i) : k.down = Parts(ld.no, LenBlock * ld.i, s)
  <2>1. BlockLen(ld.no, ld.i) \in Nat \ {0} BY <1>4, InHand
  <2>2. q.sent \in Nat BY DEF PeerSlots
  <2>3. \/ q.sent < BlockLen(ld.no, ld.i) /\ k.down = Parts(ld.no, LenBlock * ld.i, q.sent)
        \/ k.down = Parts(ld.no, LenBlock * ld.i, BlockLen(ld.no, ld.i))
    BY <1>4 DEF Asks
  <2> QED BY <2>1, <2>2, <2>3
<1> QED BY <1>0, <1>1, <1>2, <1>3, <1>4 DEF Unread

\* A slot that goes on with what the download has asked for.
LEMMA LoaderStays ==
  ASSUME UpInv, NEW u, NEW q, NEW k, SlotStep(u, q, k), taken' = taken,
         peer[u].sckt = U!Loader, q.sckt = U!Loader, ~k.rst,
         q.buf \o k.up \in Questions, Asks(q, k, q.buf \o k.up)
  PROVE  UpInv'
<1>0. /\ taken' \in Seq(Seq(U!Units)) /\ U!Loader \in Conns /\ U!Loader # None_
      /\ U!Loader \notin U!Senders /\ ld' = ld /\ q \in PeerSlots /\ k \in Connections
  BY UpFacts DEF UpInv, UpTypes, SlotStep
<1>1. /\ UpTypes' /\ Slots' /\ peer'[u] = q /\ conn'[U!Loader] = k
      /\ \A v \in UpSlots : v # u => peer'[v] = peer[v]
  BY <1>0, SlotStepKeeps
<1>2. Sending'
  <2>1. snd.pc \notin Hands \/ snd.c # peer[u].sckt BY <1>0 DEF UpInv, Sends, Hands
  <2> QED BY <2>1, <1>0, OthersSend
<1>3. Arrives'
  <2>1. \A g \in U!Games : q.sckt = via[g] /\ ~k.rst /\ q.sckt # None_ =>
          \/ q.buf \o k.up = U!Stream(g) /\ Len(q.buf) < 2 + LenRec[g]
          \/ \E n \in DOMAIN taken' : taken'[n] = U!Body(g)
    BY <1>0 DEF UpInv, Arrives
  <2>2. \A g \in U!Games : (\E n \in DOMAIN taken : taken[n] = U!Body(g))
                            => \E n \in DOMAIN taken' : taken'[n] = U!Body(g)
    OBVIOUS
  <2> QED BY <2>1, <2>2, <1>0, OthersArrive
<1>4. Recorded'
  <2>1. U!Games' = U!Games /\ via' = via BY DEF U!Games, SlotStep
  <2> QED BY <2>1 DEF UpInv, Recorded, U!Body
<1>5. Sends'
  <2>1. ASSUME NEW v \in UpSlots, peer'[v].sckt \in U!Senders
        PROVE  Carries(peer[v], conn[peer[v].sckt].up, peer[v].sckt)'
    <3>1. v # u /\ peer[v].sckt \in U!Senders BY <2>1, <1>0, <1>1
    <3> QED BY <3>1, <1>0, OthersCarry
  <2> QED BY <2>1, <1>0, OthersRest
<1>6. Loads'
  <2>0. UpSlots' = UpSlots /\ U!Loader' = U!Loader /\ Questions' = Questions
    BY DEF UpSlots, U!Loader, Questions
  <2>1. Unread' BY <1>0, <1>1, AsksUnread
  <2>2. HasRead' BY <1>0 DEF UpInv, Loads, HasRead
  <2>3. k.st = "open" BY <1>0 DEF SlotStep
  <2>4. ld.pc # "start" BY <2>3, <1>0 DEF UpInv, Loads, SlotStep, Slots
  <2>5. ASSUME NEW v \in UpSlots, peer'[v].sckt = U!Loader
        PROVE  OnItsWay(v)' \in Questions /\ Asks(peer[v], conn[U!Loader], OnItsWay(v))'
    <3>1. v = u
      <4>1. u \in UpSlots BY DEF SlotStep
      <4>2. peer'[u].sckt = U!Loader /\ UpSlots' = UpSlots BY <1>1, <2>0
      <4> QED BY <4>1, <4>2, <2>5, <1>0, <1>1 DEF Slots
    <3>2. OnItsWay(v)' = q.buf \o k.up BY <3>1, <2>5, <1>1 DEF OnItsWay
    <3>3. peer'[v] = q BY <3>1, <1>1
    <3> DEFINE t == q.buf \o k.up
    <3> HIDE DEF t
    <3>4. OnItsWay(v)' = t /\ Asks(q, k, t) /\ t \in Questions BY <3>2 DEF t
    <3>5. Asks(peer[v], conn[U!Loader], OnItsWay(v))'
      BY <3>3, <3>4, <2>0, <1>0, <1>1 DEF Asks
    <3> QED BY <3>4, <3>5
  <2> QED BY <2>0, <2>1, <2>2, <2>3, <2>4, <2>5, <1>0, <1>1 DEF Loads
<1> QED BY <1>1, <1>2, <1>3, <1>4, <1>5, <1>6 DEF UpInv
\* What an answer begins with.
LEMMA AskedOne ==
  /\ InfoAsked # <<>> /\ \A i \in Nat : BlockAsked(i) # <<>> /\ BlockAsked(i) # InfoAsked
  /\ \A i, j \in Nat : BlockAsked(i) = BlockAsked(j) => i = j
<1>1. \A i \in Nat : Len(BlockAsked(i)) = 2 /\ BlockAsked(i)[2].n = i BY AskedTypes
<1>2. Len(InfoAsked) = 1 BY AskedTypes
<1>3. InfoAsked # <<>> BY DEF InfoAsked
<1>4. \A i \in Nat : BlockAsked(i) # <<>> BY DEF BlockAsked
<1> QED BY <1>1, <1>2, <1>3, <1>4

\* The information was asked for, or nothing is known of the download.
LEMMA InfoTaken ==
  ASSUME NEW p \in PeerSlots, NEW q \in PeerSlots, NEW k, NEW l, Asks(p, k, InfoAsked),
         q.stat = "info", l.down = k.down
  PROVE  Asks(q, l, <<>>)
<1>1. ld.pc \notin {"hello", "len", "block", "close"}
  BY AskedOne, AskedTypes DEF Asks, BlockAsked
<1>2. ld.pc = "info" => k.down = <<>> BY AskedOne DEF Asks
<1> QED BY <1>1, <1>2 DEF Asks

\* A block was asked for.
LEMMA BlockTaken ==
  ASSUME UpInv, NEW p \in PeerSlots, NEW q \in PeerSlots, NEW k, NEW l, NEW i \in Nat,
         Asks(p, k, BlockAsked(i)),
         q.stat = "wght", q.iblock = i, q.sent = 0, q.wght = p.wght, l.down = k.down
  PROVE  Asks(q, l, <<>>)
<1>1. ld.pc \notin {"hello", "info", "block", "close"} BY AskedOne DEF Asks
<1>2. ASSUME ld.pc = "len"
      PROVE  p.wght = ld.no /\ i = ld.i /\ k.down = <<>> /\ 0 < BlockLen(ld.no, ld.i)
             /\ Answer(ld.no, ld.i, 0) = <<>>
  <2>1. p.wght = ld.no /\ BlockAsked(i) = BlockAsked(ld.i) /\ k.down = <<>>
    BY <1>2, AskedOne DEF Asks
  <2>2. ld.i \in Nat /\ BlockLen(ld.no, ld.i) \in Nat \ {0} BY <1>2, InHand
  <2>3. i = ld.i BY <2>1, <2>2, AskedOne
  <2> QED BY <2>1, <2>2, <2>3 DEF Answer
<1> QED BY <1>1, <1>2 DEF Asks

\* handle_recv() at the number of a block.
LEMMA HandledBlock ==
  ASSUME NEW p, NEW r, r.do = "wght"
  PROVE  U!Handled(p, r)
           = IF p.stat # "idle" \/ p.wght = None_ THEN U!Clear([p EXCEPT !.buf = r.rest])
             ELSE IF Len(r.rest) < 2 THEN [p EXCEPT !.buf = r.rest]
             ELSE IF LenWght[p.wght] < LenBlock * r.rest[2].n THEN U!Clear([p EXCEPT !.buf = r.rest])
             ELSE U!Asked([[p EXCEPT !.buf = r.rest] EXCEPT !.buf = SubSeq(@, 3, Len(@))], r.rest[2].n)
<1> DEFINE q == [p EXCEPT !.buf = r.rest]
           far == LenWght[p.wght] < LenBlock * r.rest[2].n
           asked == U!Asked([[p EXCEPT !.buf = r.rest] EXCEPT !.buf = SubSeq(@, 3, Len(@))], r.rest[2].n)
           told == [[p EXCEPT !.buf = r.rest] EXCEPT !.wght = wght, !.stat = "info"]
<1>1. U!Handled(p, r) =
        CASE r.do = "wait" -> q
          [] r.do = "close" -> U!Clear(q)
          [] r.do = "info" -> IF p.stat # "idle" THEN U!Clear(q) ELSE told
          [] r.do = "wght" -> IF p.stat # "idle" \/ p.wght = None_ THEN U!Clear(q)
                              ELSE IF Len(r.rest) < 2 THEN q
                              ELSE IF far THEN U!Clear(q) ELSE asked
  BY Zenon DEF U!Handled
<1> HIDE DEF q, far, asked, told
<1>2. U!Handled(p, r) = IF p.stat # "idle" \/ p.wght = None_ THEN U!Clear(q)
                        ELSE IF Len(r.rest) < 2 THEN q
                        ELSE IF far THEN U!Clear(q) ELSE asked
  BY <1>1
<1> QED BY <1>2, Zenon DEF q, far, asked

\* The slot reads on, takes a question or clears itself.
LEMMA RecvLoader ==
  ASSUME UpInv, NEW u \in UpSlots, peer[u].sckt = U!Loader, U!Recv(u), GamesAlone
  PROVE  UpInv'
<1> DEFINE p == peer[u]
           x == U!Loader
           up == conn[x].up
<1>0. x # None_ /\ x \in Conns BY UpFacts
<1>1. /\ p \in PeerSlots /\ conn[x] \in Connections /\ conn[x].st = "open"
      /\ CanSend(p) /\ p.buf \in Seq(U!Units) /\ up \in Seq(U!Units) /\ p.sckt = x
  BY <1>0, AtSlot DEF PeerSlots, Connections
<1> SUFFICES ASSUME ~conn[x].rst, up # <<>>, NEW n \in 1 .. Len(up), Reads(u, n)
             PROVE  UpInv'
  BY RecvIs
<1> DEFINE buf == p.buf
           a == buf \o SubSeq(up, 1, n)
           y == SubSeq(up, n + 1, Len(up))
           r == U!Parse(a)
           q == U!Handled(p, r)
<1>2. /\ peer' = [peer EXCEPT ![u] = q]
      /\ conn' = [conn EXCEPT ![x] = IF U!Open(q) THEN U!Read(@, n) ELSE U!Shut(@)]
      /\ taken' = taken \o r.recs
  <2>1. peer' = [peer EXCEPT ![u] = q] BY DEF Reads
  <2>2. conn' = [conn EXCEPT ![x] = IF U!Open(q) THEN U!Read(@, n) ELSE U!Shut(@)] BY DEF Reads
  <2>3. taken' = taken \o r.recs BY DEF Reads
  <2> QED BY <2>1, <2>2, <2>3
<1>3. buf \in Seq(U!Units) /\ up \in Seq(U!Units) /\ buf = p.buf BY <1>1
<1>4. buf \o up \in Questions /\ Asks(p, conn[x], buf \o up) BY DEF UpInv, Loads, OnItsWay
<1>5. taken \in Seq(Seq(U!Units)) BY DEF UpInv, UpTypes
<1> DEFINE k == U!Read(conn[x], n)
<1>6. k = [conn[x] EXCEPT !.up = y] BY DEF U!Read
<1>7. peer[u] = p /\ peer[u].sckt = x /\ x = U!Loader OBVIOUS
<1> HIDE DEF k, p, x, up, buf
<1>8. a \in Seq(U!Units) /\ Len(a) = Len(buf) + n /\ y \in Seq(U!Units) /\ a \o y = buf \o up
  <2>1. n \in 0 .. Len(up) BY <1>3, LenProperties
  <2> QED BY <2>1, <1>3, Reading
<1> HIDE DEF a, y
<1>9. a # <<>>
  <2>1. Len(buf) \in Nat /\ Len(up) \in Nat BY <1>3, LenProperties
  <2>2. Len(a) # 0 BY <2>1, <1>8
  <2> QED BY <2>2
<1>10. k \in Connections /\ k.st = "open" /\ ~k.rst /\ k.up = y /\ k.down = conn[x].down
  BY <1>1, <1>6, <1>8 DEF Connections
<1> HIDE DEF r, q
<1>11. ASSUME r.recs = <<>> PROVE taken' = taken
  <2>1. HasUnit(Seq(U!Units)) BY ConcatenationLaws
  <2>2. taken \o <<>> = taken BY <2>1, <1>5, Zenon DEF HasUnit
  <2> QED BY <2>2, <1>2, <1>11
\* The slot keeps its connection, or loses it.
<1>12. ASSUME NEW e \in PeerSlots, q = e, e.sckt = x, CanSend(e), r.recs = <<>>,
              e.buf \o y \in Questions, Asks(e, k, e.buf \o y)
       PROVE  UpInv'
  <2>1. conn' = [conn EXCEPT ![x] = k] BY <1>0, <1>2, <1>12 DEF k, U!Open
  <2>2. SlotStep(u, e, k) BY <2>1, <1>0, <1>2, <1>7, <1>10, <1>12 DEF SlotStep, GamesAlone
  <2>3. taken' = taken BY <1>11, <1>12
  <2>4. e.buf \o k.up = e.buf \o y BY <1>10
  <2> QED BY <2>2, <2>3, <2>4, <1>7, <1>10, <1>12, LoaderStays
<1>13. ASSUME NEW e \in PeerSlots, q = U!Clear(e), r.recs = <<>> PROVE UpInv'
  <2>1. q.sckt = None_ BY <1>13 DEF U!Clear, PeerSlots
  <2>2. conn' = [conn EXCEPT ![x] = U!Shut(@)] BY <2>1, <1>2 DEF U!Open
  <2>3. taken' = taken BY <1>11, <1>13
  <2> QED BY <2>2, <2>3, <1>0, <1>2, <1>7, <1>13, ClearKeeps
<1> DEFINE e(b) == [p EXCEPT !.buf = b]
<1>14. \A b \in Seq(U!Units) :
         e(b) \in PeerSlots /\ e(b).sckt = x /\ e(b).buf = b /\ CanSend(e(b))
         /\ e(b).stat = p.stat /\ e(b).wght = p.wght /\ e(b).iblock = p.iblock /\ e(b).sent = p.sent
  <2> SUFFICES ASSUME NEW b \in Seq(U!Units)
               PROVE  e(b) \in PeerSlots /\ e(b).sckt = x /\ e(b).buf = b /\ CanSend(e(b))
                      /\ e(b).stat = p.stat /\ e(b).wght = p.wght /\ e(b).iblock = p.iblock
                      /\ e(b).sent = p.sent
    OBVIOUS
  <2>1. e(b) \in PeerSlots BY <1>1 DEF PeerSlots
  <2>2. CanSend(e(b)) BY <1>1 DEF CanSend, PeerSlots, BlockLen
  <2> QED BY <2>1, <2>2, <1>1 DEF PeerSlots
<1>15. a \o <<>> = a /\ <<>> \in Seq(U!Units) /\ <<>> \in Questions
  <2>1. HasUnit(U!Units) BY ConcatenationLaws
  <2>2. a \o <<>> = a BY <2>1, <1>8, Zenon DEF HasUnit
  <2> QED BY <2>2 DEF Questions
<1>16. CASE a = InfoAsked /\ y = <<>>
  <2>1. r = [do |-> "info", rest |-> <<>>, recs |-> <<>>] BY <1>16, ParseQuestion DEF r
  <2> DEFINE z == <<>>
  <2>2. z \in Seq(U!Units) BY <1>15
  <2>3. q = IF p.stat # "idle" THEN U!Clear(e(z)) ELSE [e(z) EXCEPT !.wght = wght, !.stat = "info"]
    BY <2>1 DEF q, U!Handled
  <2>4. e(z) \in PeerSlots /\ e(z).sckt = x /\ e(z).buf = z BY <2>2, <1>14
  <2>5. CASE p.stat # "idle"
    <3>1. q = U!Clear(e(z)) BY <2>3, <2>5
    <3> HIDE DEF e
    <3> QED BY <3>1, <2>1, <2>4, <1>13
  <2>6. CASE p.stat = "idle"
    <3> HIDE DEF e
    <3> DEFINE f == [e(z) EXCEPT !.wght = wght, !.stat = "info"]
    <3>1. wght \in DOMAIN LenWght /\ wght # None_ BY UpFacts DEF UpInv, UpTypes
    <3>2. f \in PeerSlots /\ f.sckt = x /\ f.buf = z /\ f.stat = "info" /\ f.wght # None_
      BY <3>1, <2>4 DEF PeerSlots
    <3>3. q = f BY <2>3, <2>6
    <3> HIDE DEF f
    <3>4. CanSend(f) BY <3>2 DEF CanSend
    <3>5. f.buf \o y = <<>> BY <3>2, <1>16
    <3>6. Asks(p, conn[x], InfoAsked) BY <1>4, <1>8, <1>15, <1>16
    <3>7. Asks(f, k, <<>>) BY <3>2, <3>6, <1>1, <1>10, InfoTaken
    <3> QED BY <3>2, <3>3, <3>4, <3>5, <3>7, <2>1, <1>12, <1>15
  <2> QED BY <2>5, <2>6
\* Half a question waits for the rest, unless it is not expected at all.
<1>17. CASE a = <<U!Cmd("wght")>>
  <2>1. r = [do |-> "wght", rest |-> a, recs |-> <<>>] BY <1>17, ParseQuestion DEF r
  <2>2. Len(a) = 1 BY <1>17, AskedTypes
  <2>3. q = IF p.stat # "idle" \/ p.wght = None_ THEN U!Clear(e(a)) ELSE e(a)
    <3>1. r.do = "wght" /\ r.rest = a BY <2>1
    <3> HIDE DEF e
    <3>2. q = IF p.stat # "idle" \/ p.wght = None_ THEN U!Clear(e(a))
              ELSE IF Len(a) < 2 THEN e(a)
              ELSE IF LenWght[p.wght] < LenBlock * a[2].n THEN U!Clear(e(a))
              ELSE U!Asked([e(a) EXCEPT !.buf = SubSeq(@, 3, Len(@))], a[2].n)
      BY <3>1, HandledBlock, Zenon DEF q, e
    <3> QED BY <3>2, <2>2
  <2>4. e(a) \in PeerSlots /\ e(a).sckt = x /\ e(a).buf = a /\ CanSend(e(a)) BY <1>8, <1>14
  <2>5. Asks(e(a), k, a \o y)
    <3>1. Asks(p, conn[x], a \o y) BY <1>4, <1>8
    <3>2. e(a).stat = p.stat /\ e(a).wght = p.wght /\ e(a).iblock = p.iblock /\ e(a).sent = p.sent
      BY <1>8, <1>14
    <3> DEFINE t == a \o y
    <3>3. Asks(p, conn[x], t) BY <3>1
    <3> HIDE DEF e, t
    <3>4. Asks(e(a), k, t) BY <3>2, <3>3, <1>10 DEF Asks
    <3> QED BY <3>4 DEF t
  <2>6. a \o y \in Questions BY <1>4, <1>8
  <2> HIDE DEF e
  <2>7. CASE p.stat # "idle" \/ p.wght = None_ BY <2>1, <2>3, <2>4, <2>7, <1>13
  <2>8. CASE ~(p.stat # "idle" \/ p.wght = None_) BY <2>1, <2>3, <2>4, <2>5, <2>6, <2>8, <1>12
  <2> QED BY <2>7, <2>8
<1>18. CASE (\E i \in Nat : a = BlockAsked(i)) /\ y = <<>>
  <2>1. PICK i \in Nat : a = BlockAsked(i) BY <1>18
  <2>2. r = [do |-> "wght", rest |-> a, recs |-> <<>>] BY <2>1, ParseQuestion DEF r
  <2>3. Len(a) = 2 /\ a[2].n = i BY <2>1, AskedTypes
  <2> DEFINE f == [e(a) EXCEPT !.buf = SubSeq(@, 3, Len(@))]
             g == U!Asked(f, i)
  <2>4. q = IF p.stat # "idle" \/ p.wght = None_ THEN U!Clear(e(a))
            ELSE IF LenWght[p.wght] < LenBlock * i THEN U!Clear(e(a)) ELSE g
    <3>1. r.do = "wght" /\ r.rest = a BY <2>2
    <3> HIDE DEF e
    <3>2. q = IF p.stat # "idle" \/ p.wght = None_ THEN U!Clear(e(a))
              ELSE IF Len(a) < 2 THEN e(a)
              ELSE IF LenWght[p.wght] < LenBlock * a[2].n THEN U!Clear(e(a))
              ELSE U!Asked([e(a) EXCEPT !.buf = SubSeq(@, 3, Len(@))], a[2].n)
      BY <3>1, HandledBlock, Zenon DEF q, e
    <3>3. ~(Len(a) < 2) /\ a[2].n = i BY <2>3
    <3>4. q = IF p.stat # "idle" \/ p.wght = None_ THEN U!Clear(e(a))
              ELSE IF LenWght[p.wght] < LenBlock * a[2].n THEN U!Clear(e(a))
              ELSE U!Asked(f, a[2].n)
      BY <3>2, <3>3, Zenon DEF f
    <3> QED BY <3>3, <3>4, Zenon DEF g
  <2>5. e(a) \in PeerSlots /\ e(a).sckt = x /\ e(a).buf = a /\ e(a).wght = p.wght BY <1>8, <1>14
  <2>6. SubSeq(a, 3, Len(a)) = <<>> BY <2>3, <1>8, SubSeqProperties
  <2>7. f = [e(a) EXCEPT !.buf = <<>>] BY <2>5, <2>6 DEF PeerSlots
  <2> HIDE DEF f, e
  <2>8. f \in PeerSlots /\ f.sckt = x /\ f.buf = <<>> /\ f.wght = p.wght
    BY <2>5, <2>7, <1>15 DEF PeerSlots
  <2>9. /\ g \in PeerSlots /\ g.sckt = x /\ g.buf = <<>> /\ g.stat = "wght" /\ g.iblock = i
        /\ g.sent = 0 /\ g.wght = p.wght
    BY <2>8 DEF U!Asked, PeerSlots
  <2> HIDE DEF g
  <2>10. CASE p.stat # "idle" \/ p.wght = None_ BY <2>2, <2>4, <2>5, <2>10, <1>13
  <2>11. CASE p.stat = "idle" /\ p.wght # None_ /\ LenWght[p.wght] < LenBlock * i
    <3>1. q = U!Clear(e(a)) BY <2>4, <2>11
    <3> QED BY <3>1, <2>2, <2>5, <1>13
  <2>12. CASE p.stat = "idle" /\ p.wght # None_ /\ ~(LenWght[p.wght] < LenBlock * i)
    <3>1. q = g BY <2>4, <2>12
    <3>2. CanSend(g)
      <4>1. p.wght \in DOMAIN LenWght BY <2>12, <1>1 DEF PeerSlots
      <4>2. LenWght[p.wght] \in Nat /\ LenBlock \in Nat \ {0} /\ LenBlock * i \in Nat
        <5>1. LenWght[p.wght] \in Nat BY <4>1, UpFacts
        <5>2. LenBlock \in Nat \ {0} BY UploadAssumption
        <5> QED BY <5>1, <5>2
      <4>3. LenBlock * i <= LenWght[p.wght] BY <4>2, <2>12
      <4>4. 0 <= BlockLen(p.wght, i) BY <4>2, <4>3 DEF BlockLen
      <4> QED BY <4>3, <4>4, <2>9, <2>12 DEF CanSend
    <3>3. g.buf \o y = <<>> BY <2>9, <1>18
    <3>4. Asks(p, conn[x], BlockAsked(i)) BY <2>1, <1>4, <1>8, <1>15, <1>18
    <3>5. Asks(g, k, <<>>) BY <3>4, <2>9, <1>1, <1>10, BlockTaken
    <3> QED BY <3>1, <3>2, <3>3, <3>5, <2>2, <2>9, <1>12, <1>15
  <2> QED BY <2>10, <2>11, <2>12
<1>19. \/ a = InfoAsked /\ y = <<>>
       \/ a = <<U!Cmd("wght")>> /\ y = <<>>
       \/ \E i \in Nat : a = BlockAsked(i) /\ y = <<>>
       \/ \E i \in Nat : a = <<U!Cmd("wght")>> /\ y = <<U!Num(i)>>
  <2>1. a \o y \in Questions BY <1>4, <1>8
  <2> QED BY <2>1, <1>8, <1>9, QuestionCut
<1> QED BY <1>16, <1>17, <1>18, <1>19
----------------------------------------------------------------------------
(* What the server sends.                                                    *)

SentOut(p) == CASE p.stat = "header" -> HelloSent
                [] p.stat = "info"   -> InfoSent(p.wght)
                [] p.stat = "wght"   -> U!Piece(p).out
SentSlot(p) == IF p.stat = "wght" /\ ~U!Piece(p).done THEN [p EXCEPT !.sent = U!Piece(p).sent]
                                                       ELSE [p EXCEPT !.stat = "idle"]
SentOn(k, p) == [k EXCEPT !.down = @ \o SentOut(p)]

\* The information is two numbers: the weight and its blocks.
LEMMA InfoTypes == \A w \in DOMAIN LenWght : InfoSent(w) \in Seq(U!Units) /\ Len(InfoSent(w)) = 2
                     /\ InfoSent(w)[1].n = w /\ InfoSent(w)[2].n = U!Blocks(w)
<1> SUFFICES ASSUME NEW w \in DOMAIN LenWght
             PROVE  InfoSent(w) \in Seq(U!Units) /\ Len(InfoSent(w)) = 2
                    /\ InfoSent(w)[1].n = w /\ InfoSent(w)[2].n = U!Blocks(w)
  OBVIOUS
<1>1. w \in Nat /\ U!Blocks(w) \in Nat BY UpFacts, BlockFacts
<1>2. U!Num(w) \in U!Units /\ U!Num(U!Blocks(w)) \in U!Units /\ U!Num(w).n = w
      /\ U!Num(U!Blocks(w)).n = U!Blocks(w)
  BY <1>1, UnitTypes
<1> QED BY <1>2 DEF InfoSent

\* handle_send() closes the slot or sends what it is to send.
LEMMA SendIs ==
  ASSUME UpInv, NEW u \in UpSlots, U!Send(u), GamesAlone
  PROVE  \/ UpInv'
         \/ /\ peer[u].stat \in {"header", "info", "wght"} /\ ~conn[peer[u].sckt].rst
            /\ taken' = taken
            /\ SlotStep(u, SentSlot(peer[u]), SentOn(conn[peer[u].sckt], peer[u]))
            /\ SentOut(peer[u]) \in Seq(U!Units)
<1> DEFINE p == peer[u]
           x == p.sckt
           q == SentSlot(p)
           k == SentOn(conn[x], p)
<1>1. /\ x # None_ /\ p.stat # "idle" /\ taken' = taken
      /\ \/ conn[x].rst /\ U!Close(u)
         \/ ~conn[x].rst
  BY DEF U!records, U!Send, U!Open
<1>2. /\ p \in PeerSlots /\ x \in Conns /\ conn[x] \in Connections /\ conn[x].st = "open" /\ CanSend(p)
  BY <1>1, AtSlot
<1>3. CASE conn[x].rst /\ U!Close(u)
  <2>1. peer' = [peer EXCEPT ![u] = U!Clear(p)] /\ conn' = [conn EXCEPT ![x] = U!Shut(@)]
    BY <1>3 DEF U!Close
  <2> QED BY <2>1, <1>1, <1>2, ClearKeeps
<1>4. CASE ~conn[x].rst
  <2>0. p.stat \in {"header", "info", "wght"} BY <1>1, <1>2 DEF PeerSlots
  <2>1. conn' = [conn EXCEPT ![x].down = @ \o
                   (CASE p.stat = "header" -> <<U!Cmd("hello")>>
                      [] p.stat = "info"   -> <<U!Num(p.wght), U!Num(U!Blocks(p.wght))>>
                      [] p.stat = "wght"   -> U!Piece(p).out)]
        /\ peer' = IF p.stat = "wght" /\ ~U!Piece(p).done
                     THEN [peer EXCEPT ![u].sent = U!Piece(p).sent]
                     ELSE [peer EXCEPT ![u].stat = "idle"]
    BY <1>4 DEF U!Send
  <2>2. conn' = [conn EXCEPT ![x] = k]
    BY <2>1 DEF SentOn, SentOut, HelloSent, InfoSent
  <2>3. peer' = [peer EXCEPT ![u] = q] BY <2>1 DEF SentSlot
  <2>4. SentOut(p) \in Seq(U!Units) /\ q \in PeerSlots /\ CanSend(q)
    <3>1. CASE p.stat = "header"
      <4>1. SentOut(p) = HelloSent /\ q = [p EXCEPT !.stat = "idle"]
        BY <3>1 DEF SentOut, SentSlot
      <4>2. q \in PeerSlots /\ q.stat = "idle" BY <4>1, <1>2 DEF PeerSlots
      <4> QED BY <4>1, <4>2, AskedTypes DEF CanSend
    <3>2. CASE p.stat = "info"
      <4>1. SentOut(p) = InfoSent(p.wght) /\ q = [p EXCEPT !.stat = "idle"]
        BY <3>2 DEF SentOut, SentSlot
      <4>2. q \in PeerSlots /\ q.stat = "idle" BY <4>1, <1>2 DEF PeerSlots
      <4>3. p.wght \in DOMAIN LenWght BY <3>2, <1>1, <1>2 DEF CanSend, PeerSlots
      <4> QED BY <4>1, <4>2, <4>3, InfoTypes DEF CanSend
    <3>3. CASE p.stat = "wght"
      <4>1. /\ p.wght \in DOMAIN LenWght /\ LenBlock * p.iblock <= LenWght[p.wght]
            /\ p.sent <= BlockLen(p.wght, p.iblock)
        BY <3>3, <1>1, <1>2 DEF CanSend, PeerSlots
      <4>2. /\ BlockLen(p.wght, p.iblock) \in Nat /\ U!Piece(p).out \in Seq(U!Units)
            /\ U!Piece(p).sent \in p.sent .. BlockLen(p.wght, p.iblock)
        BY <4>1, <1>2, PieceFacts
      <4>3. SentOut(p) \in Seq(U!Units) BY <3>3, <4>2 DEF SentOut
      <4>4. CASE U!Piece(p).done
        <5>1. q = [p EXCEPT !.stat = "idle"] BY <4>4 DEF SentSlot
        <5>2. q \in PeerSlots /\ q.stat = "idle" BY <5>1, <1>2 DEF PeerSlots
        <5> QED BY <5>2, <4>3 DEF CanSend
      <4>5. CASE ~U!Piece(p).done
        <5>1. q = [p EXCEPT !.sent = U!Piece(p).sent] BY <3>3, <4>5 DEF SentSlot
        <5>2. U!Piece(p).sent \in Nat /\ U!Piece(p).sent <= BlockLen(p.wght, p.iblock)
          <6>1. p.sent \in Nat BY <1>2 DEF PeerSlots
          <6> QED BY <6>1, <4>2
        <5> HIDE DEF q
        <5>3. /\ q \in PeerSlots /\ q.stat = "wght" /\ q.wght = p.wght /\ q.iblock = p.iblock
              /\ q.sent = U!Piece(p).sent /\ q.sckt = p.sckt
          BY <5>1, <5>2, <3>3, <1>2 DEF PeerSlots
        <5>4. CanSend(q)
          <6>1. p.wght # None_ BY <4>1, UpFacts
          <6> QED BY <6>1, <5>2, <5>3, <4>1 DEF CanSend
        <5> QED BY <5>3, <5>4, <4>3
      <4> QED BY <4>4, <4>5
    <3> QED BY <2>0, <3>1, <3>2, <3>3
  <2>5. q.sckt = x
    <3>1. [p EXCEPT !.sent = U!Piece(p).sent].sckt = x /\ [p EXCEPT !.stat = "idle"].sckt = x
      BY <1>2 DEF PeerSlots
    <3> QED BY <3>1 DEF SentSlot
  <2>6. k \in Connections /\ k.st = "open" /\ ~k.rst
    <3>1. conn[x].down \o SentOut(p) \in Seq(U!Units)
      <4>1. conn[x].down \in Seq(U!Units) BY <1>2 DEF Connections
      <4> QED BY <4>1, <2>4, ConcatProperties
    <3> QED BY <3>1, <1>2, <1>4 DEF SentOn, Connections
  <2> HIDE DEF q, k
  <2>7. SlotStep(u, q, k) BY <2>2, <2>3, <2>4, <2>5, <2>6, <1>1 DEF SlotStep, GamesAlone
  <2> QED BY <2>0, <2>4, <2>7, <1>1, <1>4 DEF q, k
<1> QED BY <1>1, <1>3, <1>4

\* The sender's connection is greeted.
LEMMA SendSender ==
  ASSUME UpInv, NEW u \in UpSlots, peer[u].sckt \in U!Senders, U!Send(u), GamesAlone
  PROVE  UpInv'
<1> DEFINE p == peer[u]
           x == p.sckt
           q == SentSlot(p)
           k == SentOn(conn[x], p)
<1> SUFFICES ASSUME p.stat \in {"header", "info", "wght"}, ~conn[x].rst, taken' = taken,
                    SlotStep(u, q, k), SentOut(p) \in Seq(U!Units)
             PROVE  UpInv'
  BY SendIs
<1>1. x # None_ BY UpFacts
<1>2. p \in PeerSlots /\ conn[x] \in Connections BY <1>1, AtSlot
<1>3. Carries(p, conn[x].up, x) BY DEF UpInv, Sends
<1>4. q = [p EXCEPT !.stat = "idle"]
  <2>1. p.stat = "header" BY <1>3 DEF Carries
  <2> QED BY <2>1 DEF SentSlot
<1>5. q.sckt = x /\ q.stat = "idle" /\ q.buf = p.buf BY <1>2, <1>4 DEF PeerSlots
<1>6. k.up = conn[x].up /\ k.rst = conn[x].rst BY <1>2 DEF SentOn, Connections
<1>7. OnItsWay(u) = p.buf \o conn[x].up BY DEF OnItsWay
<1>8. \A g \in U!Games : \A n \in 1 .. 2 + LenRec[g] :
        Begins(OnItsWay(u), g, n) => Len(p.buf) < 2 + LenRec[g]
  <2> SUFFICES ASSUME NEW g \in U!Games, NEW n \in 1 .. 2 + LenRec[g], Begins(OnItsWay(u), g, n)
               PROVE  Len(p.buf) < 2 + LenRec[g]
    OBVIOUS
  <2>1. p.buf \in Seq(U!Units) /\ conn[x].up \in Seq(U!Units) BY <1>2 DEF PeerSlots, Connections
  <2>2. n \in 0 .. 2 + LenRec[g] /\ LenRec[g] \in Nat \ {0} BY UpFacts
  <2> DEFINE b == p.buf
             s == conn[x].up
  <2>3. b \in Seq(U!Units) /\ s \in Seq(U!Units) /\ Begins(b \o s, g, n) BY <2>1, <1>7
  <2>4. Carries(p, s, x) BY <1>3
  <2> HIDE DEF b, s
  <2>5. Len(b) + Len(s) = n BY <2>2, <2>3, BeginCut
  <2>6. Len(b) \in Nat /\ Len(s) \in Nat /\ Len(b) <= n BY <2>3, <2>5, LenProperties
  <2>7. CASE b = <<>> /\ s = <<>>
    <3>1. Len(b) = 0 BY <2>7
    <3> QED BY <3>1, <2>2 DEF b
  <2>8. CASE ~(b = <<>> /\ s = <<>>)
    <3>1. PICK h \in U!Games : \E m \in 1 .. 2 + LenRec[h] :
            Begins(b \o s, h, m) /\ Len(b) < 2 + LenRec[h]
      BY <2>4, <2>8 DEF Carries, Begins, b
    <3>2. PICK m \in 1 .. 2 + LenRec[h] : Begins(b \o s, h, m) /\ Len(b) < 2 + LenRec[h]
      BY <3>1
    <3>3. m \in 0 .. 2 + LenRec[h] OBVIOUS
    <3>4. n = m /\ (n <= 2 \/ g = h) BY <2>2, <2>3, <3>2, <3>3, BeginsOne
    <3>5. Len(b) < 2 + LenRec[g] BY <2>2, <2>6, <3>2, <3>4
    <3> QED BY <3>5 DEF b
  <2> QED BY <2>7, <2>8
<1>9. q.buf \o k.up = OnItsWay(u) BY <1>5, <1>6, <1>7
<1> HIDE DEF q, k
<1> QED BY <1>5, <1>6, <1>8, <1>9, SenderStays

\* The download is greeted, told of the weight and sent its blocks.
LEMMA SendLoader ==
  ASSUME UpInv, NEW u \in UpSlots, peer[u].sckt = U!Loader, U!Send(u), GamesAlone
  PROVE  UpInv'
<1> DEFINE p == peer[u]
           x == U!Loader
           q == SentSlot(p)
           k == SentOn(conn[x], p)
<1> SUFFICES ASSUME p.stat \in {"header", "info", "wght"}, ~conn[x].rst, taken' = taken,
                    SlotStep(u, q, k), SentOut(p) \in Seq(U!Units)
             PROVE  UpInv'
  BY SendIs
<1>1. x # None_ BY UpFacts
<1>2. p \in PeerSlots /\ conn[x] \in Connections /\ CanSend(p) BY <1>1, AtSlot
<1> DEFINE t == OnItsWay(u)
<1>3. t = p.buf \o conn[x].up BY DEF OnItsWay
<1>4. t \in Questions /\ Asks(p, conn[x], t) BY DEF UpInv, Loads
<1>5. q.sckt = x /\ q.buf = p.buf /\ q.wght = p.wght /\ q.iblock = p.iblock
  BY <1>2 DEF PeerSlots, SentSlot
<1>6. k.up = conn[x].up /\ k.rst = conn[x].rst /\ k.down = conn[x].down \o SentOut(p)
  BY <1>2 DEF SentOn, Connections
<1>30. ASSUME conn[x].down = <<>> PROVE k.down = SentOut(p)
  <2>1. HasUnit(U!Units) BY ConcatenationLaws
  <2>2. <<>> \o SentOut(p) = SentOut(p) BY <2>1, Zenon DEF HasUnit
  <2> QED BY <2>2, <1>30, <1>6
<1>7. q.stat = IF p.stat = "wght" /\ ~U!Piece(p).done THEN "wght" ELSE "idle"
  BY <1>2 DEF PeerSlots, SentSlot
<1>8. q.sent = IF p.stat = "wght" /\ ~U!Piece(p).done THEN U!Piece(p).sent ELSE p.sent
  BY <1>2 DEF PeerSlots, SentSlot
<1> HIDE DEF q, k, t
<1>9. Asks(q, k, t)
  <2>1. CASE ld.pc \notin {"hello", "info", "len", "block", "close"} BY <2>1 DEF Asks
  <2>2. CASE ld.pc = "hello"
    <3>1. t = <<>> /\ p.stat = "header" /\ conn[x].down = <<>> BY <2>2, <1>4 DEF Asks
    <3>2. k.down = HelloSent /\ q.stat = "idle" BY <3>1, <1>30, <1>7 DEF SentOut
    <3> QED BY <2>2, <3>1, <3>2 DEF Asks
  <2>3. CASE ld.pc = "info"
    <3>1. t = <<>> /\ p.stat = "info" /\ conn[x].down = <<>> BY <2>3, <1>4 DEF Asks
    <3>2. k.down = InfoSent(p.wght) /\ q.stat = "idle" BY <3>1, <1>30, <1>7 DEF SentOut
    <3>3. p.wght # None_ BY <3>1, <1>1, <1>2 DEF CanSend
    <3> QED BY <2>3, <3>1, <3>2, <3>3, <1>5 DEF Asks
  <2>4. CASE ld.pc = "len"
    <3>1. /\ p.wght = ld.no /\ t = <<>> /\ p.stat = "wght" /\ p.iblock = ld.i
          /\ p.sent < BlockLen(ld.no, ld.i) /\ conn[x].down = Answer(ld.no, ld.i, p.sent)
      BY <2>4, <1>4 DEF Asks
    <3>2. ld.no \in DOMAIN LenWght BY <2>4, InHand
    <3>3. LenBlock * p.iblock <= LenWght[ld.no] /\ p.sent <= BlockLen(ld.no, p.iblock)
      BY <3>1, <1>1, <1>2 DEF CanSend
    <3>4. /\ BlockLen(ld.no, ld.i) \in Nat
          /\ U!Piece(p).sent \in p.sent .. BlockLen(ld.no, ld.i)
          /\ U!Piece(p).done <=> U!Piece(p).sent = BlockLen(ld.no, ld.i)
          /\ Answer(ld.no, ld.i, p.sent) \o U!Piece(p).out = Answer(ld.no, ld.i, U!Piece(p).sent)
      <4> HIDE DEF p
      <4> QED BY <3>1, <3>2, <3>3, <1>2, PieceFacts
    <3>5. k.down = Answer(ld.no, ld.i, U!Piece(p).sent)
      <4>1. SentOut(p) = U!Piece(p).out BY <3>1 DEF SentOut
      <4> QED BY <4>1, <3>1, <3>4, <1>6
    <3>6. p.sent \in Nat BY <1>2 DEF PeerSlots
    <3> DEFINE B == BlockLen(ld.no, ld.i)
               S == U!Piece(p).sent
    <3>7. /\ U!Piece(p).done <=> S = B
          /\ k.down = Answer(ld.no, ld.i, S)
          /\ S # B => S < B
      BY <3>4, <3>5, <3>6
    <3> HIDE DEF B, S
    <3>8. CASE U!Piece(p).done
      <4>1. q.stat = "idle" /\ k.down = Answer(ld.no, ld.i, BlockLen(ld.no, ld.i))
        BY <3>7, <3>8, <1>7 DEF B
      <4> QED BY <4>1, <2>4, <3>1, <1>5 DEF Asks
    <3>9. CASE ~U!Piece(p).done
      <4>1. q.stat = "wght" /\ q.sent = S BY <3>1, <3>9, <1>7, <1>8 DEF S
      <4>2. q.sent < BlockLen(ld.no, ld.i) /\ k.down = Answer(ld.no, ld.i, q.sent)
        BY <4>1, <3>7, <3>9 DEF B
      <4> QED BY <4>1, <4>2, <2>4, <3>1, <1>5 DEF Asks
    <3> QED BY <3>8, <3>9
  <2>5. CASE ld.pc = "block"
    <3>1. /\ p.wght = ld.no /\ t = <<>> /\ p.stat = "wght" /\ p.iblock = ld.i /\ 0 < p.sent
          /\ p.sent < BlockLen(ld.no, ld.i) /\ conn[x].down = Parts(ld.no, LenBlock * ld.i, p.sent)
      BY <2>5, <1>4 DEF Asks
    <3>2. ld.no \in DOMAIN LenWght BY <2>5, InHand
    <3>3. LenBlock * p.iblock <= LenWght[ld.no] /\ p.sent <= BlockLen(ld.no, p.iblock)
      BY <3>1, <1>1, <1>2 DEF CanSend
    <3>4. /\ BlockLen(ld.no, ld.i) \in Nat
          /\ U!Piece(p).sent \in p.sent .. BlockLen(ld.no, ld.i) /\ U!Piece(p).sent > p.sent
          /\ U!Piece(p).done <=> U!Piece(p).sent = BlockLen(ld.no, ld.i)
          /\ Parts(ld.no, LenBlock * ld.i, p.sent) \o U!Piece(p).out
               = Parts(ld.no, LenBlock * ld.i, U!Piece(p).sent)
      <4>1. p.sent # 0 BY <3>1
      <4> HIDE DEF p
      <4> QED BY <4>1, <3>1, <3>2, <3>3, <1>2, PieceFacts
    <3>5. k.down = Parts(ld.no, LenBlock * ld.i, U!Piece(p).sent)
      <4>1. SentOut(p) = U!Piece(p).out BY <3>1 DEF SentOut
      <4> QED BY <4>1, <3>1, <3>4, <1>6
    <3>6. p.sent \in Nat BY <1>2 DEF PeerSlots
    <3> DEFINE B == BlockLen(ld.no, ld.i)
               S == U!Piece(p).sent
    <3>7. /\ U!Piece(p).done <=> S = B
          /\ k.down = Parts(ld.no, LenBlock * ld.i, S)
          /\ 0 < S /\ (S # B => S < B)
      BY <3>1, <3>4, <3>5, <3>6
    <3> HIDE DEF B, S
    <3>8. CASE U!Piece(p).done
      <4>1. q.stat = "idle" /\ k.down = Parts(ld.no, LenBlock * ld.i, BlockLen(ld.no, ld.i))
        BY <3>7, <3>8, <1>7 DEF B
      <4> QED BY <4>1, <2>5, <3>1, <1>5 DEF Asks
    <3>9. CASE ~U!Piece(p).done
      <4>1. q.stat = "wght" /\ q.sent = S BY <3>1, <3>9, <1>7, <1>8 DEF S
      <4>2. 0 < q.sent /\ q.sent < BlockLen(ld.no, ld.i)
            /\ k.down = Parts(ld.no, LenBlock * ld.i, q.sent)
        BY <4>1, <3>7, <3>9 DEF B
      <4> QED BY <4>1, <4>2, <2>5, <3>1, <1>5 DEF Asks
    <3> QED BY <3>8, <3>9
  <2>6. CASE ld.pc = "close"
    <3>1. p.stat = "idle" BY <2>6, <1>4 DEF Asks
    <3> QED BY <3>1
  <2> QED BY <2>1, <2>2, <2>3, <2>4, <2>5, <2>6
<1>10. q.buf \o k.up = t BY <1>3, <1>5, <1>6
<1> QED BY <1>4, <1>5, <1>6, <1>9, <1>10, LoaderStays
----------------------------------------------------------------------------
(* The server's and the network's other steps.                               *)

\* A connection that is taken from the backlog is new to the slots.
LEMMA Newcomer ==
  ASSUME UpInv, NEW c \in Conns, conn[c].st = "backlog", NEW st \in {"open", "shut", "mute"},
         conn' = [conn EXCEPT ![c].st = st], taken' = taken, GamesAlone,
         \/ st # "open" /\ peer' = peer
         \/ st = "open" /\ \E u \in UpSlots : /\ peer[u].sckt = None_
                                              /\ peer' = [peer EXCEPT ![u] = U!Fresh(@, c)]
  PROVE  UpInv'
<1> DEFINE k == [conn[c] EXCEPT !.st = st]
<1>1. conn[c] \in Connections /\ conn[c].up = <<>> /\ conn[c].down = <<>>
  BY DEF UpInv, UpTypes, Slots
<1>2. k \in Connections /\ k.st = st /\ k.up = <<>> /\ k.down = <<>> /\ k.rst = conn[c].rst
  BY <1>1 DEF Connections
<1> HIDE DEF k
<1>3. /\ conn' \in [Conns -> Connections]
      /\ \A d \in Conns : conn'[d] = IF d = c THEN k ELSE conn[d]
  BY <1>2 DEF UpInv, UpTypes, k
<1>4. \A d \in Conns : conn'[d].up = conn[d].up /\ conn'[d].down = conn[d].down
                       /\ conn'[d].rst = conn[d].rst
  BY <1>1, <1>2, <1>3
<1>5. /\ UpSlots' = UpSlots /\ U!Senders' = U!Senders /\ U!Games' = U!Games
      /\ U!Loader' = U!Loader /\ Questions' = Questions
  BY DEF UpSlots, U!Senders, U!Games, U!Loader, Questions
<1>6. c # None_ /\ U!Loader \in Conns /\ \A u \in UpSlots : peer[u] \in PeerSlots /\ peer[u].sckt # c
  BY UpFacts DEF UpInv, UpTypes, Slots, UpSlots
\* Its slot was free.
<1>7. /\ peer' \in [1 .. MaxAccept -> PeerSlots]
      /\ \A v \in UpSlots : \/ peer'[v] = peer[v]
                            \/ /\ st = "open" /\ peer[v].sckt = None_ /\ peer'[v].sckt = c
                               /\ peer'[v].buf = <<>> /\ peer'[v].stat = "header"
      /\ st = "open" => \E u \in UpSlots : peer'[u].sckt = c
      /\ \A u, v \in UpSlots : peer'[u].sckt = c /\ peer'[v].sckt = c => u = v
  <2>1. CASE st # "open" /\ peer' = peer BY <2>1, <1>6 DEF UpInv, UpTypes
  <2>2. CASE st = "open"
    <3>1. PICK u \in UpSlots : peer[u].sckt = None_ /\ peer' = [peer EXCEPT ![u] = U!Fresh(@, c)]
      BY <2>2
    <3> DEFINE q == U!Fresh(peer[u], c)
    <3>2. q \in PeerSlots /\ q.sckt = c /\ q.buf = <<>> /\ q.stat = "header"
      <4>1. <<>> \in Seq(U!Units) OBVIOUS
      <4> QED BY <4>1, <1>6 DEF U!Fresh, PeerSlots
    <3>3. peer' = [peer EXCEPT ![u] = q] BY <3>1
    <3> HIDE DEF q
    <3>4. peer' \in [1 .. MaxAccept -> PeerSlots] /\ peer'[u] = q
          /\ \A v \in UpSlots : v # u => peer'[v] = peer[v]
      BY <3>2, <3>3 DEF UpInv, UpTypes, UpSlots
    <3> QED BY <2>2, <3>1, <3>2, <3>4, <1>6
  <2> QED BY <2>1, <2>2
<1>8. UpTypes' BY <1>3, <1>7 DEF UpInv, UpTypes, GamesAlone
<1>9. ASSUME NEW v \in UpSlots, peer'[v] = peer[v], peer[v].sckt # None_
      PROVE  /\ peer[v].sckt \in Conns /\ peer[v].sckt # c
             /\ conn'[peer[v].sckt] = conn[peer[v].sckt] /\ OnItsWay(v)' = OnItsWay(v)
  <2>1. peer[v].sckt \in Conns /\ peer[v].sckt # c BY <1>6, <1>9 DEF PeerSlots
  <2>2. conn'[peer[v].sckt] = conn[peer[v].sckt] BY <2>1, <1>3
  <2> QED BY <2>1, <2>2, <1>9 DEF OnItsWay
<1>10. ASSUME NEW v \in UpSlots, peer'[v].sckt = c
       PROVE  /\ peer'[v].buf = <<>> /\ peer'[v].stat = "header" /\ conn'[c].up = <<>>
              /\ conn'[c].down = <<>> /\ OnItsWay(v)' = <<>>
  <2>1. peer'[v].buf = <<>> /\ peer'[v].stat = "header" BY <1>6, <1>7, <1>10
  <2>2. conn'[c].up = <<>> /\ conn'[c].down = <<>> BY <1>1, <1>4
  <2>3. OnItsWay(v)' = peer'[v].buf \o conn'[c].up BY <1>10 DEF OnItsWay
  <2> QED BY <2>1, <2>2, <2>3
<1>11. Slots'
  <2>1. \A v \in UpSlots : peer'[v].sckt # None_ => conn'[peer'[v].sckt].st = "open"
    <3> SUFFICES ASSUME NEW v \in UpSlots, peer'[v].sckt # None_
                 PROVE  conn'[peer'[v].sckt].st = "open"
      OBVIOUS
    <3>1. CASE peer'[v] = peer[v] BY <3>1, <1>9 DEF UpInv, Slots
    <3>2. CASE peer'[v] # peer[v] BY <3>2, <1>2, <1>3, <1>7
    <3> QED BY <3>1, <3>2
  <2>2. ASSUME NEW d \in Conns, conn'[d].st = "open" PROVE \E v \in UpSlots : peer'[v].sckt = d
    <3>1. CASE d = c BY <3>1, <2>2, <1>2, <1>3, <1>7
    <3>2. CASE d # c
      <4>1. PICK v \in UpSlots : peer[v].sckt = d BY <3>2, <2>2, <1>3 DEF UpInv, Slots
      <4>2. peer'[v] = peer[v] BY <4>1, <1>7, UpFacts
      <4> QED BY <4>1, <4>2
    <3> QED BY <3>1, <3>2
  <2>3. \A v, w \in UpSlots : peer'[v].sckt # None_ /\ peer'[v].sckt = peer'[w].sckt => v = w
    <3> SUFFICES ASSUME NEW v \in UpSlots, NEW w \in UpSlots, peer'[v].sckt # None_,
                        peer'[v].sckt = peer'[w].sckt
                 PROVE  v = w
      OBVIOUS
    <3>1. CASE peer'[v].sckt = c BY <3>1, <1>7
    <3>2. CASE peer'[v].sckt # c
      <4>1. peer'[v] = peer[v] /\ peer'[w] = peer[w] BY <3>2, <1>7
      <4> QED BY <4>1 DEF UpInv, Slots
    <3> QED BY <3>1, <3>2
  <2>4. \A d \in Conns : conn'[d].st \in {"none", "backlog", "mute"} \/ conn'[d].rst =>
          conn'[d].up = <<>> /\ conn'[d].down = <<>>
    <3> SUFFICES ASSUME NEW d \in Conns PROVE
          conn'[d].st \in {"none", "backlog", "mute"} \/ conn'[d].rst =>
          conn'[d].up = <<>> /\ conn'[d].down = <<>>
      OBVIOUS
    <3>1. CASE d = c BY <3>1, <1>2, <1>3
    <3>2. CASE d # c BY <3>2, <1>3 DEF UpInv, Slots
    <3> QED BY <3>1, <3>2
  <2>5. \A v \in UpSlots : CanSend(peer[v])'
    <3> SUFFICES ASSUME NEW v \in UpSlots PROVE CanSend(peer[v])' OBVIOUS
    <3>1. CASE peer'[v] = peer[v] BY <3>1 DEF UpInv, Slots, CanSend, BlockLen
    <3>2. CASE peer'[v].stat = "header" BY <3>2 DEF CanSend
    <3> QED BY <3>1, <3>2, <1>7
  <2> QED BY <2>1, <2>2, <2>3, <2>4, <2>5, <1>5 DEF Slots
<1>12. Sending'
  <2> SUFFICES ASSUME NEW v \in UpSlots, snd.pc \in Hands, peer'[v].sckt = snd.c, ~conn'[snd.c].rst
               PROVE  OnItsWay(v)' = SubSeq(U!Stream(snd.game), 1, snd.cut)
    BY <1>5 DEF Sending, Hands, U!Stream, U!Body, GamesAlone
  <2>1. snd.c \in U!Senders /\ snd.c # None_ /\ snd.game \in U!Games
    BY UpFacts DEF UpInv, Sends, Hands
  <2>2. CASE peer'[v] = peer[v]
    <3>1. OnItsWay(v)' = OnItsWay(v) /\ conn'[snd.c] = conn[snd.c] BY <2>1, <2>2, <1>9
    <3> QED BY <3>1, <2>2 DEF UpInv, Sending
  <2>3. CASE peer'[v] # peer[v]
    <3>1. snd.c = c BY <2>3, <1>7
    <3>2. snd.pc = "header" /\ snd.cut = 0 BY <3>1 DEF UpInv, Sends, Hands
    <3>3. OnItsWay(v)' = <<>> BY <3>1, <1>10
    <3> DEFINE e == <<>>
    <3>4. Begins(e, snd.game, 0)
      <4>1. e \in Seq(U!Units) /\ Len(e) = 0 OBVIOUS
      <4>2. 0 \in 0 .. 2 + LenRec[snd.game] BY <2>1, UpFacts
      <4>3. \A i \in 1 .. 0 : e[i] = U!Stream(snd.game)[i] OBVIOUS
      <4> HIDE DEF e
      <4> QED BY <4>1, <4>2, <4>3, <2>1, BeginIs
    <3> QED BY <3>2, <3>3, <3>4 DEF Begins
  <2> QED BY <2>2, <2>3
<1>13. Arrives'
  <2> SUFFICES ASSUME NEW g \in U!Games, via[g] # None_
               PROVE  /\ via[g] \in U!Senders /\ conn'[via[g]].st \in {"open", "shut"}
                      /\ \A v \in UpSlots : peer'[v].sckt = via[g] /\ ~conn'[via[g]].rst =>
                           \/ OnItsWay(v)' = U!Stream(g) /\ Len(peer'[v].buf) < 2 + LenRec[g]
                           \/ \E n \in DOMAIN taken : taken[n] = U!Body(g)
    BY <1>5 DEF Arrives, U!Stream, U!Body, GamesAlone
  <2>1. via[g] \in U!Senders /\ conn[via[g]].st \in {"open", "shut"} BY DEF UpInv, Arrives
  <2>2. via[g] \in Conns /\ via[g] # c BY <2>1, UpFacts
  <2>3. conn'[via[g]] = conn[via[g]] BY <2>2, <1>3
  <2>4. \A v \in UpSlots : peer'[v].sckt = via[g] =>
          peer'[v] = peer[v] /\ OnItsWay(v)' = OnItsWay(v)
    BY <2>2, <1>7, <1>9
  <2> QED BY <2>1, <2>3, <2>4 DEF UpInv, Arrives
<1>14. Recorded' BY <1>5 DEF UpInv, Recorded, U!Body, GamesAlone
<1>15. Sends'
  <2>1. ASSUME NEW v \in UpSlots, peer'[v].sckt \in U!Senders
        PROVE  Carries(peer[v], conn[peer[v].sckt].up, peer[v].sckt)'
    <3> DEFINE up == conn[peer[v].sckt].up
               d  == peer[v].sckt
    <3>1. CASE peer'[v] = peer[v]
      <4>1. Carries(peer[v], up, d) BY <2>1, <3>1 DEF UpInv, Sends
      <4>2. up' = up /\ d' = d BY <2>1, <3>1, <1>9, UpFacts
      <4> HIDE DEF up, d
      <4>3. via' = via BY DEF GamesAlone
      <4>4. Carries(peer[v], up, d)' BY <4>1, <4>2, <4>3, <3>1, <1>5 DEF Carries
      <4> QED BY <4>4 DEF up, d
    <3>2. CASE peer'[v] # peer[v]
      <4>1. peer'[v].sckt = c BY <3>2, <1>7
      <4>2. peer'[v].buf = <<>> /\ peer'[v].stat = "header" /\ up' = <<>> BY <4>1, <1>10
      <4> HIDE DEF up, d
      <4>3. Carries(peer[v], up, d)' BY <4>2 DEF Carries
      <4> QED BY <4>3 DEF up, d
    <3> QED BY <3>1, <3>2
  <2>2. \A d \in Conns : d > snd.c => conn'[d].st = "none"
    <3> SUFFICES ASSUME NEW d \in Conns, d > snd.c PROVE conn'[d].st = "none" OBVIOUS
    <3>1. conn[d].st = "none" BY DEF UpInv, Sends
    <3> QED BY <3>1, <1>3
  <2>3. snd.pc = "send" => conn'[snd.c].st \in {"open", "shut"}
    <3>1. snd.c \in Conns BY DEF UpInv, UpTypes, Sender
    <3> QED BY <3>1, <1>3 DEF UpInv, Sends
  <2> QED BY <2>1, <2>2, <2>3, <1>5 DEF UpInv, Sends, Hands, GamesAlone
<1>16. Loads'
  <2>1. ld' = ld /\ conn'[U!Loader].down = conn[U!Loader].down BY <1>4, <1>6 DEF GamesAlone
  <2>2. Unread' BY <2>1, <1>5 DEF UpInv, Loads, Unread
  <2>3. HasRead' BY <2>1 DEF UpInv, Loads, HasRead
  <2>4. ld.pc \in {"start", "info", "len", "block", "close"} => conn'[U!Loader] = conn[U!Loader]
    BY <1>3, <1>6 DEF UpInv, Loads
  <2>5. ASSUME NEW v \in UpSlots, peer'[v].sckt = U!Loader
        PROVE  /\ OnItsWay(v)' \in Questions
               /\ ~conn'[U!Loader].rst => Asks(peer[v], conn[U!Loader], OnItsWay(v))'
    <3>1. CASE peer'[v] = peer[v]
      <4>1. OnItsWay(v)' = OnItsWay(v) /\ conn'[U!Loader] = conn[U!Loader]
        BY <2>5, <3>1, <1>9, UpFacts
      <4>2. /\ OnItsWay(v) \in Questions
            /\ ~conn[U!Loader].rst => Asks(peer[v], conn[U!Loader], OnItsWay(v))
        BY <2>5, <3>1 DEF UpInv, Loads
      <4>3. ~conn[U!Loader].rst => Asks(peer[v], conn[U!Loader], OnItsWay(v))'
        BY <4>1, <4>2, <3>1, <2>1, <1>5 DEF Asks
      <4> QED BY <4>1, <4>2, <4>3
    <3>2. CASE peer'[v] # peer[v]
      <4>1. U!Loader = c BY <2>5, <3>2, <1>7
      <4>2. OnItsWay(v)' = <<>> /\ peer'[v].stat = "header" /\ conn'[U!Loader].down = <<>>
        BY <2>5, <4>1, <1>10
      <4>3. ld.pc \notin {"info", "len", "block", "close"} BY <4>1 DEF UpInv, Loads
      <4>4. Asks(peer[v], conn[U!Loader], OnItsWay(v))'
        BY <4>2, <4>3, <2>1, <1>5 DEF Asks
      <4>5. <<>> \in Questions BY DEF Questions
      <4> QED BY <4>2, <4>4, <4>5
    <3> QED BY <3>1, <3>2
  <2>6. /\ ld.pc = "start" => conn'[U!Loader].st = "none"
        /\ ld.pc \in {"info", "len", "block", "close"} => conn'[U!Loader].st \in {"open", "shut"}
    BY <2>4 DEF UpInv, Loads
  <2> QED BY <2>1, <2>2, <2>3, <2>5, <2>6, <1>5 DEF Loads
<1> QED BY <1>8, <1>11, <1>12, <1>13, <1>14, <1>15, <1>16 DEF UpInv

\* handle_connect() takes the connection into a slot, closes it or leaves it alone.
LEMMA AcceptKeeps == ASSUME UpInv, NEW c \in Conns, U!Accept(c), GamesAlone PROVE UpInv'
<1> DEFINE free == {u \in 1 .. MaxAccept : ~U!Open(peer[u])}
           slot == CHOOSE u \in free : \A v \in free : u <= v
<1>1. /\ conn[c].st = "backlog" /\ taken' = taken
      /\ \E st \in {"open", "shut", "mute"} :
           /\ st = "open" => free # {}
           /\ conn' = [conn EXCEPT ![c].st = st]
           /\ peer' = IF st = "open" THEN [peer EXCEPT ![slot] = U!Fresh(@, c)] ELSE peer
  BY DEF U!records, U!Accept
<1>2. PICK st \in {"open", "shut", "mute"} :
        /\ st = "open" => free # {}
        /\ conn' = [conn EXCEPT ![c].st = st]
        /\ peer' = IF st = "open" THEN [peer EXCEPT ![slot] = U!Fresh(@, c)] ELSE peer
  BY <1>1
<1>3. ASSUME st = "open" PROVE slot \in UpSlots /\ peer[slot].sckt = None_
  <2>1. free \subseteq Nat /\ free # {} BY <1>2, <1>3, UploadAssumption
  <2>2. \E u \in free : \A v \in free : u <= v
    <3> HIDE DEF free
    <3> QED BY <2>1, LeastMember
  <2>3. slot \in free
    <3> HIDE DEF free
    <3> QED BY <2>2
  <2> HIDE DEF slot
  <2> QED BY <2>3 DEF UpSlots, U!Open
<1> HIDE DEF free, slot
<1>4. st = "open" => \E u \in UpSlots : peer[u].sckt = None_ /\ peer' = [peer EXCEPT ![u] = U!Fresh(@, c)]
  BY <1>2, <1>3
<1>5. st # "open" => peer' = peer BY <1>2
<1> QED BY <1>1, <1>2, <1>4, <1>5, Newcomer
\* What a slot has read of a record before the rest of it is lost begins one.
LEMMA CarriesRest ==
  ASSUME UpInv, NEW p \in PeerSlots, NEW up \in Seq(U!Units), NEW c, Carries(p, up, c)
  PROVE  Carries(p, <<>>, c)
<1> DEFINE b == p.buf
<1>1. b \in Seq(U!Units) BY DEF PeerSlots
<1>2. b \o <<>> = b
  <2>1. HasUnit(U!Units) BY ConcatenationLaws
  <2> HIDE DEF b
  <2> QED BY <1>1, <2>1, Zenon DEF HasUnit
<1>3. p.stat \in {"header", "idle"} BY DEF Carries
<1>4. CASE b = <<>> BY <1>3, <1>4 DEF Carries
<1>5. CASE b # <<>>
  <2>1. PICK g \in U!Games : \E k \in 1 .. 2 + LenRec[g] :
          Begins(b \o up, g, k) /\ Len(b) < 2 + LenRec[g]
    BY <1>5 DEF Carries, Begins
  <2>2. PICK k \in 1 .. 2 + LenRec[g] : Begins(b \o up, g, k) /\ Len(b) < 2 + LenRec[g] BY <2>1
  <2>3. k \in 0 .. 2 + LenRec[g] /\ LenRec[g] \in Nat BY UpFacts
  <2>4. Len(b) \in Nat \ {0} BY <1>1, <1>5, EmptySeq
  <2> HIDE DEF b
  <2>5. Begins(b, g, Len(b)) BY <2>2, <2>3, <1>1, BeginCut
  <2>6. Len(b) \in 1 .. 2 + LenRec[g] /\ Len(b) # 2 + LenRec[g] BY <2>2, <2>3, <2>4
  <2>7. Begins(b \o <<>>, g, Len(b)) BY <2>5, <1>2
  <2> QED BY <2>2, <2>6, <2>7, <1>3 DEF Carries, Begins, b
<1> QED BY <1>4, <1>5

\* The network resets a connection, and what it carried is gone.
LEMMA ResetKeeps == ASSUME UpInv, NEW c \in Conns, U!Reset(c), GamesAlone PROVE UpInv'
<1> DEFINE k == [conn[c] EXCEPT !.rst = TRUE, !.up = <<>>, !.down = <<>>]
<1>1. conn[c] \in Connections /\ <<>> \in Seq(U!Units) BY DEF UpInv, UpTypes
<1>2. k \in Connections /\ k.st = conn[c].st /\ k.up = <<>> /\ k.down = <<>> /\ k.rst
  BY <1>1 DEF Connections
<1>3. conn' = [conn EXCEPT ![c] = k] BY DEF U!Reset
<1>4. peer' = peer /\ wght' = wght /\ taken' = taken /\ snd' = snd /\ via' = via /\ ld' = ld
  BY DEF U!records, U!Reset, GamesAlone
<1> HIDE DEF k
<1>5. conn' \in [Conns -> Connections] /\ \A d \in Conns : conn'[d] = IF d = c THEN k ELSE conn[d]
  BY <1>2, <1>3 DEF UpInv, UpTypes
<1>6. \A d \in Conns : conn'[d].st = conn[d].st BY <1>2, <1>5
<1>7. /\ UpSlots' = UpSlots /\ U!Senders' = U!Senders /\ U!Games' = U!Games
      /\ U!Loader' = U!Loader /\ Questions' = Questions
  BY DEF UpSlots, U!Senders, U!Games, U!Loader, Questions
<1>8. UpTypes' BY <1>4, <1>5 DEF UpInv, UpTypes
<1>9. Slots' BY <1>2, <1>3, <1>4, SlotsKept DEF UpInv
<1>10. ASSUME NEW v \in UpSlots, peer[v].sckt # None_, peer[v].sckt # c
       PROVE  conn'[peer[v].sckt] = conn[peer[v].sckt] /\ OnItsWay(v)' = OnItsWay(v)
  <2>1. peer[v].sckt \in Conns BY <1>10, AtSlot
  <2>2. conn'[peer[v].sckt] = conn[peer[v].sckt] BY <2>1, <1>5, <1>10
  <2> QED BY <2>2, <1>4 DEF OnItsWay
<1>11. Sending'
  <2> SUFFICES ASSUME NEW v \in UpSlots, snd.pc \in Hands, peer[v].sckt = snd.c, ~conn'[snd.c].rst
               PROVE  OnItsWay(v)' = SubSeq(U!Stream(snd.game), 1, snd.cut)
    BY <1>4, <1>7 DEF Sending, Hands, U!Stream, U!Body
  <2>1. snd.c \in Conns /\ snd.c # None_ BY UpFacts DEF UpInv, UpTypes, Sender
  <2>2. snd.c # c BY <2>1, <1>2, <1>5
  <2>3. conn'[snd.c] = conn[snd.c] /\ OnItsWay(v)' = OnItsWay(v) BY <2>1, <2>2, <1>10
  <2> QED BY <2>3 DEF UpInv, Sending
<1>12. Arrives'
  <2> SUFFICES ASSUME NEW g \in U!Games, via[g] # None_
               PROVE  /\ via[g] \in U!Senders /\ conn'[via[g]].st \in {"open", "shut"}
                      /\ \A v \in UpSlots : peer[v].sckt = via[g] /\ ~conn'[via[g]].rst =>
                           \/ OnItsWay(v)' = U!Stream(g) /\ Len(peer[v].buf) < 2 + LenRec[g]
                           \/ \E n \in DOMAIN taken : taken[n] = U!Body(g)
    BY <1>4, <1>7 DEF Arrives, U!Stream, U!Body
  <2>1. via[g] \in U!Senders /\ conn[via[g]].st \in {"open", "shut"} BY DEF UpInv, Arrives
  <2>2. via[g] \in Conns BY <2>1, UpFacts
  <2>3. conn'[via[g]].st \in {"open", "shut"} BY <2>1, <2>2, <1>6
  <2>4. ASSUME NEW v \in UpSlots, peer[v].sckt = via[g], ~conn'[via[g]].rst
        PROVE  \/ OnItsWay(v)' = U!Stream(g) /\ Len(peer[v].buf) < 2 + LenRec[g]
               \/ \E n \in DOMAIN taken : taken[n] = U!Body(g)
    <3>1. via[g] # c BY <2>2, <2>4, <1>2, <1>5
    <3>2. conn'[via[g]] = conn[via[g]] /\ OnItsWay(v)' = OnItsWay(v) BY <3>1, <2>4, <1>10
    <3> QED BY <3>2, <2>4 DEF UpInv, Arrives
  <2> QED BY <2>1, <2>3, <2>4
<1>13. Recorded' BY <1>4, <1>7 DEF UpInv, Recorded, U!Body
<1>14. Sends'
  <2>1. ASSUME NEW v \in UpSlots, peer[v].sckt \in U!Senders
        PROVE  Carries(peer[v], conn[peer[v].sckt].up, peer[v].sckt)'
    <3> DEFINE up == conn[peer[v].sckt].up
               d  == peer[v].sckt
    <3>0. d # None_ BY <2>1, UpFacts
    <3>1. Carries(peer[v], up, d) BY <2>1 DEF UpInv, Sends
    <3>2. up' = up \/ up' = <<>> BY <3>0, <1>2, <1>4, <1>5, <1>10, AtSlot
    <3>3. up \in Seq(U!Units) /\ peer[v] \in PeerSlots BY <3>0, AtSlot DEF Connections
    <3>4. d' = d /\ peer'[v] = peer[v] BY <1>4
    <3> HIDE DEF up, d
    <3>5. Carries(peer[v], <<>>, d) BY <3>1, <3>3, CarriesRest
    <3>6. CASE up' = up
      <4>1. Carries(peer[v], up, d)' BY <3>1, <3>4, <3>6, <1>4, <1>7 DEF Carries
      <4> QED BY <4>1 DEF up, d
    <3>7. CASE up' = <<>>
      <4>1. Carries(peer[v], up, d)' BY <3>4, <3>5, <3>7, <1>4, <1>7 DEF Carries
      <4> QED BY <4>1 DEF up, d
    <3> QED BY <3>2, <3>6, <3>7
  <2>2. snd.c \in Conns BY DEF UpInv, UpTypes, Sender
  <2> QED BY <2>1, <2>2, <1>4, <1>6, <1>7 DEF UpInv, Sends, Hands
<1>15. Loads'
  <2>0. U!Loader \in Conns /\ U!Loader # None_ BY UpFacts
  <2>1. CASE c # U!Loader
    <3>1. conn'[U!Loader] = conn[U!Loader] BY <2>0, <2>1, <1>5
    <3> QED BY <3>1, <1>4, LoadsKept DEF UpInv
  <2>2. CASE c = U!Loader
    <3>1. conn'[U!Loader].down = <<>> /\ conn'[U!Loader].rst /\ conn'[U!Loader].up = <<>>
          /\ conn'[U!Loader].st = conn[U!Loader].st
      BY <2>0, <2>2, <1>2, <1>5
    <3>2. Unread'
      <4>1. ASSUME ld.pc = "len"
            PROVE  \E s \in 0 .. BlockLen(ld.no, ld.i) : <<>> = Answer(ld.no, ld.i, s)
        <5>1. 0 \in 0 .. BlockLen(ld.no, ld.i)
          <6>1. BlockLen(ld.no, ld.i) \in Nat \ {0} BY <4>1, InHand
          <6> HIDE DEF BlockLen
          <6> QED BY <6>1
        <5>2. Answer(ld.no, ld.i, 0) = <<>> BY DEF Answer
        <5> QED BY <5>1, <5>2
      <4>2. ASSUME ld.pc = "block"
            PROVE  \E s \in 0 .. BlockLen(ld.no, ld.i) : <<>> = Parts(ld.no, LenBlock * ld.i, s)
        <5>1. 0 \in 0 .. BlockLen(ld.no, ld.i) /\ ld.no \in Nat /\ LenBlock * ld.i \in Nat
          <6>1. BlockLen(ld.no, ld.i) \in Nat \ {0} /\ ld.no \in DOMAIN LenWght /\ ld.i \in Nat
            BY <4>2, InHand
          <6>2. LenBlock * ld.i \in Nat BY <6>1, BlockFacts
          <6> HIDE DEF BlockLen
          <6> QED BY <6>1, <6>2, UpFacts
        <5> DEFINE s == Parts(ld.no, LenBlock * ld.i, 0)
        <5>2. s \in Seq(U!Units) /\ Len(s) = 0 BY <5>1, PartsFollow
        <5> HIDE DEF s
        <5>3. s = <<>> BY <5>2, EmptySeq
        <5> QED BY <5>1, <5>3 DEF s
      <4>3. ld' = ld /\ conn'[U!Loader'].down = <<>> BY <3>1, <1>4, <1>7
      <4> QED BY <4>1, <4>2, <4>3 DEF Unread
    <3>3. HasRead' BY <1>4 DEF UpInv, Loads, HasRead
    <3>4. ASSUME NEW v \in UpSlots, peer[v].sckt = U!Loader PROVE OnItsWay(v)' \in Questions
      <4> DEFINE b == peer[v].buf
                 up == conn[U!Loader].up
      <4>1. b \in Seq(U!Units) /\ up \in Seq(U!Units)
        BY <2>0, <3>4, AtSlot DEF PeerSlots, Connections
      <4>2. b \o up \in Questions BY <3>4 DEF UpInv, Loads, OnItsWay
      <4>3. OnItsWay(v)' = b \o <<>> BY <3>1, <3>4, <1>4 DEF OnItsWay
      <4> HIDE DEF b, up
      <4>4. b \o <<>> = b
        <5>1. HasUnit(U!Units) BY ConcatenationLaws
        <5> QED BY <4>1, <5>1, Zenon DEF HasUnit
      <4>5. b = <<>> => b \in Questions BY DEF Questions
      <4>6. b # <<>> => b \in Questions
        <5>1. b # <<>> => \/ b = InfoAsked
                          \/ b = <<U!Cmd("wght")>>
                          \/ \E i \in Nat : b = BlockAsked(i)
          BY <4>1, <4>2, QuestionCut
        <5> QED BY <5>1 DEF Questions
      <4> QED BY <4>3, <4>4, <4>5, <4>6
    <3> QED BY <3>1, <3>2, <3>3, <3>4, <1>4, <1>7 DEF UpInv, Loads
  <2> QED BY <2>1, <2>2
<1> QED BY <1>8, <1>9, <1>11, <1>12, <1>13, <1>14, <1>15 DEF UpInv

\* A newer weight is of no concern to a slot that sends an older one.
LEMMA PublishKeeps ==
  ASSUME UpInv, U!Publish, snd' = snd, via' = via, ld' = ld
  PROVE  UpInv'
<1>1. conn' = conn /\ peer' = peer /\ taken' = taken /\ wght' \in DOMAIN LenWght
  BY DEF U!records, U!Publish
<1>2. Slots' /\ Loads' /\ conn' \in [Conns -> Connections] BY <1>1, Untouched
<1>3. Sending' /\ Arrives' /\ Recorded' /\ Sends' BY <1>1, <1>2, SendsKept DEF UpInv
<1>4. UpTypes' BY <1>1 DEF UpInv, UpTypes
<1> QED BY <1>2, <1>3, <1>4 DEF UpInv
----------------------------------------------------------------------------
(* The download.                                                             *)

\* The download changes nothing but its connection, and not whether it is open.
LEMMA LoaderKeeps ==
  ASSUME UpInv, NEW k \in Connections, conn' = [conn EXCEPT ![U!Loader] = k],
         peer' = peer, wght' = wght, taken' = taken, snd' = snd, via' = via, ld' \in Download,
         k.st = "open" <=> conn[U!Loader].st = "open",
         k.st \in {"none", "backlog", "mute"} \/ k.rst => k.up = <<>> /\ k.down = <<>>,
         ld'.pc = "start" => k.st = "none",
         ld'.pc \in {"info", "len", "block", "close"} => k.st \in {"open", "shut"},
         Unread', HasRead',
         \A u \in UpSlots : peer[u].sckt = U!Loader =>
           /\ peer[u].buf \o k.up \in Questions
           /\ ~k.rst => Asks(peer[u], conn[U!Loader], OnItsWay(u))'
  PROVE  UpInv'
<1>0. U!Loader \in Conns /\ U!Loader \notin U!Senders BY UpFacts
<1>1. /\ conn' \in [Conns -> Connections] /\ conn'[U!Loader] = k
      /\ \A c \in U!Senders : conn'[c] = conn[c]
  BY <1>0, UpFacts DEF UpInv, UpTypes
<1>2. Slots' BY <1>0, SlotsKept DEF UpInv
<1>3. Sending' /\ Arrives' /\ Recorded' /\ Sends' BY <1>1, SendsKept DEF UpInv
<1>4. UpTypes' BY <1>1 DEF UpInv, UpTypes
<1>5. U!Loader' = U!Loader /\ UpSlots' = UpSlots /\ Questions' = Questions
  BY DEF U!Loader, UpSlots, Questions
<1>6. \A u \in UpSlots : peer[u].sckt = U!Loader => OnItsWay(u)' = peer[u].buf \o k.up
  BY <1>1 DEF OnItsWay
<1>7. Loads'
  <2>1. \A u \in UpSlots : peer'[u].sckt = U!Loader =>
          /\ OnItsWay(u)' \in Questions
          /\ ~conn'[U!Loader].rst => Asks(peer[u], conn[U!Loader], OnItsWay(u))'
    BY <1>1, <1>6
  <2> QED BY <2>1, <1>1, <1>5 DEF Loads
<1> QED BY <1>2, <1>3, <1>4, <1>7 DEF UpInv

\* The download connects.
LEMMA LoadConnectKeeps == ASSUME UpInv, U!LoadConnect PROVE UpInv'
<1> DEFINE x == U!Loader
           k == [conn[x] EXCEPT !.st = "backlog"]
<1>0. x \in Conns /\ x # None_ BY UpFacts
<1>1. ld.pc = "start" /\ ld \in Download /\ conn[x] \in Connections /\ conn[x].st = "none"
  BY <1>0 DEF U!LoadConnect, UpInv, UpTypes, Loads
<1>2. conn[x].up = <<>> /\ conn[x].down = <<>> BY <1>0, <1>1 DEF UpInv, Slots
<1>3. k \in Connections /\ k.st = "backlog" /\ k.up = <<>> /\ k.down = <<>>
  BY <1>1, <1>2 DEF Connections
<1>4. /\ conn' = [conn EXCEPT ![x] = k] /\ peer' = peer /\ wght' = wght /\ taken' = taken
      /\ snd' = snd /\ via' = via
  BY DEF U!records, U!LoadConnect, U!sndVars
<1>5. ld' = [ld EXCEPT !.pc = "hello"] BY DEF U!LoadConnect
<1>6. /\ ld' \in Download /\ ld'.pc = "hello" /\ ld'.no = ld.no /\ ld'.i = ld.i /\ ld'.got = ld.got
  BY <1>1, <1>5 DEF Download
<1> HIDE DEF k
<1>7. conn'[x] = k BY <1>0, <1>4 DEF UpInv, UpTypes
<1>8. Unread'
  <2>1. conn'[U!Loader'].down = <<>> BY <1>3, <1>7 DEF U!Loader
  <2> QED BY <2>1, <1>6 DEF Unread
<1>9. HasRead' BY <1>1, <1>6 DEF UpInv, Loads, HasRead, Parts
<1>10. \A u \in UpSlots : peer[u].sckt # x BY <1>0, <1>1 DEF UpInv, Slots
<1> QED BY <1>1, <1>3, <1>4, <1>6, <1>8, <1>9, <1>10, LoaderKeeps

\* The download ends or breaks off.
LEMMA LoadCloseKeeps == ASSUME UpInv, U!LoadClose PROVE UpInv'
<1> DEFINE x == U!Loader
           k == U!Finish(conn[x])
<1>0. x \in Conns /\ x # None_ BY UpFacts
<1>1. ld \in Download /\ conn[x] \in Connections /\ <<>> \in Seq(U!Units)
  BY <1>0 DEF UpInv, UpTypes
<1>2. k \in Connections /\ k.st = conn[x].st /\ k.up = conn[x].up /\ k.down = <<>> /\ k.rst = conn[x].rst
  BY <1>1 DEF Connections, U!Finish
<1>3. /\ conn' = [conn EXCEPT ![x] = k] /\ peer' = peer /\ wght' = wght /\ taken' = taken
      /\ snd' = snd /\ via' = via
  BY DEF U!records, U!LoadClose, U!sndVars
<1>4. ld' = [ld EXCEPT !.pc = IF ld.pc = "close" THEN "loaded" ELSE "failed"]
  BY DEF U!LoadClose
<1>5. /\ ld' \in Download /\ ld'.pc = IF ld.pc = "close" THEN "loaded" ELSE "failed"
      /\ ld'.no = ld.no /\ ld'.i = ld.i /\ ld'.got = ld.got
  BY <1>1, <1>4 DEF Download
<1> HIDE DEF k
<1>6. Unread' BY <1>5 DEF Unread
<1>7. HasRead' BY <1>5 DEF UpInv, Loads, HasRead, Parts
<1>8. ASSUME NEW u \in UpSlots, peer[u].sckt = x
      PROVE  peer[u].buf \o k.up \in Questions /\ Asks(peer[u], conn[U!Loader], OnItsWay(u))'
  <2>1. peer[u].buf \o k.up = OnItsWay(u) BY <1>2, <1>8 DEF OnItsWay
  <2>2. OnItsWay(u) \in Questions BY <1>8 DEF UpInv, Loads
  <2>3. Asks(peer[u], conn[U!Loader], OnItsWay(u))' BY <1>5 DEF Asks
  <2> QED BY <2>1, <2>2, <2>3
<1>9. k.st \in {"none", "backlog", "mute"} \/ k.rst => k.up = <<>> /\ k.down = <<>>
  BY <1>0, <1>2 DEF UpInv, Slots
<1> QED BY <1>2, <1>3, <1>5, <1>6, <1>7, <1>8, <1>9, LoaderKeeps

\* What the download reads of a block, and what is left when it has read its length.
LEMMA AnswerFacts ==
  ASSUME NEW w \in DOMAIN LenWght, NEW i \in Nat, BlockLen(w, i) \in Nat, NEW s \in Nat, s # 0
  PROVE  /\ Answer(w, i, s) # <<>> /\ Answer(w, i, s)[1] = U!Num(BlockLen(w, i))
         /\ SubSeq(Answer(w, i, s), 2, Len(Answer(w, i, s))) = Parts(w, LenBlock * i, s)
<1> DEFINE h == <<U!Num(BlockLen(w, i))>>
           y == Parts(w, LenBlock * i, s)
           a == h \o y
<1>1. Answer(w, i, s) = a BY DEF Answer
<1>2. w \in Nat /\ LenBlock * i \in Nat BY UpFacts, BlockFacts
<1>3. y \in Seq(U!Units) /\ Len(y) = s BY <1>2, PartsFollow
<1>4. h \in Seq(U!Units) /\ Len(h) = 1 /\ h[1] = U!Num(BlockLen(w, i)) BY UnitTypes
<1> HIDE DEF h, y
<1>5. /\ a \in Seq(U!Units) /\ Len(a) = 1 + s
      /\ \A j \in 1 .. 1 + s : a[j] = IF j <= 1 THEN h[j] ELSE y[j - 1]
  <2>1. /\ a \in Seq(U!Units) /\ Len(a) = Len(h) + Len(y)
        /\ \A j \in 1 .. Len(h) + Len(y) : a[j] = IF j <= Len(h) THEN h[j] ELSE y[j - Len(h)]
    BY <1>3, <1>4, ConcatProperties
  <2> HIDE DEF a
  <2> QED BY <2>1, <1>3, <1>4
<1> HIDE DEF a
<1>6. a # <<>> /\ a[1] = h[1]
  <2>1. Len(a) # 0 BY <1>5
  <2> QED BY <2>1, <1>5
<1>7. SubSeq(a, 2, Len(a)) = y
  <2> DEFINE z == SubSeq(a, 2, Len(a))
  <2>1. \A j \in 2 .. Len(a) : a[j] \in U!Units BY <1>5, ElementOfSeq
  <2>2. z \in Seq(U!Units) /\ Len(z) = s /\ \A j \in 1 .. s : z[j] = a[j + 1]
    BY <2>1, <1>5, SubSeqProperties
  <2> HIDE DEF z
  <2>3. ASSUME NEW j \in 1 .. s PROVE z[j] = y[j]
    <3>1. j + 1 \in 1 .. 1 + s /\ ~(j + 1 <= 1) /\ (j + 1) - 1 = j OBVIOUS
    <3>2. a[j + 1] = y[(j + 1) - 1] BY <3>1, <1>5
    <3> QED BY <3>1, <3>2, <2>2
  <2>4. z = y BY <2>2, <2>3, <1>3, SeqEqual
  <2> QED BY <2>4 DEF z
<1> QED BY <1>1, <1>4, <1>6, <1>7 DEF y

\* What is asked for next is put behind what is on its way.
LEMMA AskNext ==
  ASSUME UpInv, NEW u \in UpSlots, peer[u].sckt = U!Loader, OnItsWay(u) = <<>>,
         NEW s \in Seq(U!Units)
  PROVE  peer[u].buf \o (conn[U!Loader].up \o s) = s
<1> DEFINE b == peer[u].buf
           up == conn[U!Loader].up
<1>1. b \in Seq(U!Units) /\ up \in Seq(U!Units) BY AtSlot, UpFacts DEF PeerSlots, Connections
<1>2. b \o up = <<>> BY DEF OnItsWay
<1> HIDE DEF b, up
<1>3. b \o (up \o s) = (b \o up) \o s
  <2>1. Associates(U!Units) BY ConcatenationLaws
  <2> QED BY <1>1, <2>1, Zenon DEF Associates
<1>4. <<>> \o s = s
  <2>1. HasUnit(U!Units) BY ConcatenationLaws
  <2> QED BY <2>1, Zenon DEF HasUnit
<1>5. b \o (up \o s) = s BY <1>2, <1>3, <1>4
<1> QED BY <1>5 DEF b, up

\* A connection that is sent the next question.
LEMMA AskKeeps ==
  ASSUME UpInv, NEW s \in Seq(U!Units), s \in Questions, conn[U!Loader].down # <<>>,
         conn' = [conn EXCEPT ![U!Loader].down = <<>>, ![U!Loader].up = @ \o s],
         peer' = peer, wght' = wght, taken' = taken, snd' = snd, via' = via, ld' \in Download,
         ld'.pc \in {"info", "len"}, Unread', HasRead',
         \A u \in UpSlots : peer[u].sckt = U!Loader =>
           /\ OnItsWay(u) = <<>>
           /\ \A k, t : k.down = <<>> /\ t = s => Asks(peer[u], k, t)'
  PROVE  UpInv'
<1> DEFINE x == U!Loader
           k == [conn[x] EXCEPT !.down = <<>>, !.up = @ \o s]
<1>0. x \in Conns /\ x # None_ BY UpFacts
<1>1. conn[x] \in Connections /\ conn[x].st \in {"open", "shut"} /\ ~conn[x].rst
  BY <1>0 DEF UpInv, UpTypes, Slots, Connections
<1>2. k \in Connections /\ k.st = conn[x].st /\ ~k.rst /\ k.down = <<>> /\ k.up = conn[x].up \o s
  <2>1. conn[x].up \o s \in Seq(U!Units) /\ <<>> \in Seq(U!Units)
    <3>1. conn[x].up \in Seq(U!Units) BY <1>1 DEF Connections
    <3> QED BY <3>1, ConcatProperties
  <2> QED BY <2>1, <1>1 DEF Connections
<1>3. conn' = [conn EXCEPT ![x] = k] OBVIOUS
<1> HIDE DEF k
<1>4. conn'[x] = k BY <1>0, <1>3 DEF UpInv, UpTypes
<1>5. ASSUME NEW u \in UpSlots, peer[u].sckt = x
      PROVE  /\ peer[u].buf \o k.up \in Questions
             /\ Asks(peer[u], conn[U!Loader], OnItsWay(u))'
  <2>1. peer[u].buf \o k.up = s BY <1>2, <1>5, AskNext
  <2>2. OnItsWay(u)' = s BY <2>1, <1>4, <1>5 DEF OnItsWay
  <2>3. conn'[U!Loader'].down = <<>> BY <1>2, <1>4 DEF U!Loader
  <2> DEFINE kk == conn[U!Loader]
             tt == OnItsWay(u)
  <2>4. kk'.down = <<>> /\ tt' = s BY <2>2, <2>3
  <2>5. \A l, t : l.down = <<>> /\ t = s => Asks(peer[u], l, t)' BY <1>5
  <2> HIDE DEF kk, tt
  <2>6. Asks(peer[u], kk, tt)' BY <2>4, <2>5
  <2> QED BY <2>1, <2>6 DEF kk, tt
<1> QED BY <1>1, <1>2, <1>3, <1>5, LoaderKeeps
\* The question for block i.
LEMMA AskIs == U!Ask(None_) = InfoAsked /\ \A i \in Nat : U!Ask(i) = BlockAsked(i)
<1>1. \A i \in Nat : i # None_ BY UploadAssumption
<1> QED BY <1>1 DEF U!Ask, InfoAsked, BlockAsked

\* What is left of a sequence when it has been read.
LEMMA AllRead ==
  ASSUME NEW s \in Seq(U!Units), NEW n \in Nat, Len(s) = n
  PROVE  SubSeq(s, n + 1, Len(s)) = <<>> /\ SubSeq(s, 1, n) = s
<1>1. SubSeq(s, n + 1, Len(s)) = <<>> BY SubSeqProperties
<1>2. SubSeq(s, 1, n) = s BY SubSeqFull
<1> QED BY <1>1, <1>2

\* Of a weight that has no parts nothing is read.
LEMMA NoParts == ASSUME NEW w \in Nat PROVE \A a \in Nat : Parts(w, a, 0) = <<>>
<1> SUFFICES ASSUME NEW a \in Nat PROVE Parts(w, a, 0) = <<>> OBVIOUS
<1> DEFINE s == Parts(w, a, 0)
<1>1. s \in Seq(U!Units) /\ Len(s) = 0 BY PartsFollow
<1> HIDE DEF s
<1>2. s = <<>> BY <1>1, EmptySeq
<1> QED BY <1>2 DEF s

\* The download reads the header and asks for the information.
LEMMA ReadHello == ASSUME UpInv, U!LoadRead, ld.pc = "hello" PROVE UpInv'
<1> DEFINE x == U!Loader
           down == conn[x].down
<1>1. /\ Len(down) >= 1
      /\ conn' = [conn EXCEPT ![x].down = SubSeq(@, 1 + 1, Len(@)), ![x].up = @ \o U!Ask(None_)]
      /\ ld' = [ld EXCEPT !.pc = "info"]
      /\ peer' = peer /\ wght' = wght /\ taken' = taken /\ snd' = snd /\ via' = via
  BY DEF U!records, U!LoadRead, U!sndVars
<1>2. down = HelloSent
  <2>1. down \in {<<>>, HelloSent} BY DEF UpInv, Loads, Unread
  <2>2. down # <<>> BY <1>1
  <2> QED BY <2>1, <2>2
<1>3. SubSeq(down, 1 + 1, Len(down)) = <<>> BY <1>2, AskedTypes, AllRead
<1>4. conn' = [conn EXCEPT ![x].down = <<>>, ![x].up = @ \o InfoAsked]
  BY <1>1, <1>3, AskIs
<1>5. /\ ld' \in Download /\ ld'.pc = "info" /\ ld'.no = ld.no /\ ld'.i = ld.i /\ ld'.got = ld.got
  BY <1>1 DEF UpInv, UpTypes, Download
<1>6. conn'[x].down = <<>>
  <2>1. x \in Conns BY UpFacts
  <2>2. conn[x] \in Connections BY <2>1 DEF UpInv, UpTypes
  <2> QED BY <2>1, <2>2, <1>4 DEF UpInv, UpTypes, Connections
<1>7. Unread' BY <1>5, <1>6 DEF Unread, U!Loader
<1>8. HasRead' BY <1>5 DEF UpInv, Loads, HasRead, Parts
<1>9. ASSUME NEW u \in UpSlots, peer[u].sckt = x
      PROVE  /\ OnItsWay(u) = <<>>
             /\ \A k, t : k.down = <<>> /\ t = InfoAsked => Asks(peer[u], k, t)'
  <2>1. ~conn[x].rst BY <1>2, AskedOne, AskedTypes, UpFacts DEF UpInv, Slots
  <2>2. Asks(peer[u], conn[x], OnItsWay(u)) BY <2>1, <1>9 DEF UpInv, Loads
  <2>3. OnItsWay(u) = <<>> /\ peer[u].stat = "idle"
    BY <2>2, <1>2, AskedTypes DEF Asks, HelloSent
  <2>4. peer'[u] = peer[u] BY <1>1
  <2> QED BY <2>3, <2>4, <1>5 DEF Asks, InfoAsked
<1>10. InfoAsked \in Seq(U!Units) /\ InfoAsked \in Questions BY AskedTypes DEF Questions
<1>11. down # <<>> BY <1>1
<1> QED BY <1>1, <1>4, <1>5, <1>7, <1>8, <1>9, <1>10, <1>11, AskKeeps

\* It reads the information and asks for the first block.
LEMMA ReadInfo == ASSUME UpInv, U!LoadRead, ld.pc = "info" PROVE UpInv'
<1> DEFINE x == U!Loader
           down == conn[x].down
<1>1. /\ Len(down) >= 2
      /\ conn' = [conn EXCEPT ![x].down = SubSeq(@, 2 + 1, Len(@)), ![x].up = @ \o U!Ask(0)]
      /\ ld' = [ld EXCEPT !.pc = "len", !.no = down[1].n, !.nblock = down[2].n]
      /\ peer' = peer /\ wght' = wght /\ taken' = taken /\ snd' = snd /\ via' = via
  BY DEF U!records, U!LoadRead, U!sndVars
<1>2. PICK w \in DOMAIN LenWght : down = InfoSent(w)
  <2>1. down = <<>> \/ \E w \in DOMAIN LenWght : down = InfoSent(w) BY DEF UpInv, Loads, Unread
  <2>2. down # <<>> BY <1>1
  <2> QED BY <2>1, <2>2
<1>3. down[1].n = w /\ down[2].n = U!Blocks(w) /\ SubSeq(down, 2 + 1, Len(down)) = <<>>
  <2>1. /\ InfoSent(w) \in Seq(U!Units) /\ Len(InfoSent(w)) = 2
        /\ InfoSent(w)[1].n = w /\ InfoSent(w)[2].n = U!Blocks(w)
    BY InfoTypes
  <2>2. SubSeq(InfoSent(w), 2 + 1, Len(InfoSent(w))) = <<>> BY <2>1, AllRead
  <2> HIDE DEF down
  <2> QED BY <2>1, <2>2, <1>2, Zenon
<1>4. conn' = [conn EXCEPT ![x].down = <<>>, ![x].up = @ \o BlockAsked(0)]
  BY <1>1, <1>3, AskIs
<1>5. w \in Nat /\ w # None_ /\ U!Blocks(w) \in Nat /\ 0 < U!Blocks(w) /\ BlockLen(w, 0) \in Nat \ {0}
  BY UpFacts, BlockFacts
<1>6. /\ ld' \in Download /\ ld'.pc = "len" /\ ld'.no = w /\ ld'.nblock = U!Blocks(w)
      /\ ld'.i = 0 /\ ld'.got = <<>>
  <2>1. ld' = [ld EXCEPT !.pc = "len", !.no = w, !.nblock = U!Blocks(w)] BY <1>1, <1>3
  <2>2. ld.i = 0 /\ ld.got = <<>> /\ ld \in Download BY DEF UpInv, UpTypes, Loads, HasRead
  <2> QED BY <2>1, <2>2, <1>5 DEF Download
<1>7. conn'[x].down = <<>>
  <2>1. x \in Conns BY UpFacts
  <2>2. conn[x] \in Connections BY <2>1 DEF UpInv, UpTypes
  <2> QED BY <2>1, <2>2, <1>4 DEF UpInv, UpTypes, Connections
<1>8. Unread'
  <2>1. 0 \in 0 .. BlockLen(w, 0)
    <3> HIDE DEF BlockLen
    <3> QED BY <1>5
  <2>2. Answer(w, 0, 0) = <<>> BY DEF Answer
  <2>3. \E s \in 0 .. BlockLen(ld'.no, ld'.i) : conn'[U!Loader'].down = Answer(ld'.no, ld'.i, s)
    <3> HIDE DEF BlockLen, Answer
    <3>1. conn'[U!Loader'].down = <<>> BY <1>7 DEF U!Loader
    <3> QED BY <2>1, <2>2, <3>1, <1>6
  <2> QED BY <2>3, <1>6 DEF Unread, Answer, BlockLen, Parts
<1>9. HasRead'
  <2>1. Parts(w, 0, 0) = <<>> BY <1>5, NoParts
  <2>2. LenBlock * 0 = 0 BY UploadAssumption
  <2>3. ld'.got = Parts(ld'.no, 0, Len(ld'.got)) /\ Len(ld'.got) = LenBlock * ld'.i
    <3>1. Len(ld'.got) = 0 BY <1>6
    <3> HIDE DEF Parts
    <3> QED BY <3>1, <2>1, <2>2, <1>6
  <2>4. Parts(ld.no, 0, Len(ld.got))' = Parts(ld'.no, 0, Len(ld'.got)) BY DEF Parts
  <2>5. ld'.no # None_ /\ ld'.nblock = U!Blocks(ld'.no) /\ ld'.i < ld'.nblock BY <1>5, <1>6
  <2> QED BY <2>3, <2>4, <2>5, <1>6 DEF HasRead, U!Blocks
<1>10. ASSUME NEW u \in UpSlots, peer[u].sckt = x
       PROVE  /\ OnItsWay(u) = <<>>
              /\ \A k, t : k.down = <<>> /\ t = BlockAsked(0) => Asks(peer[u], k, t)'
  <2>0. down # <<>> BY <1>1
  <2>1. ~conn[x].rst BY <2>0, UpFacts DEF UpInv, Slots
  <2>2. Asks(peer[u], conn[x], OnItsWay(u)) BY <2>1, <1>10 DEF UpInv, Loads
  <2>3. /\ OnItsWay(u) = <<>> /\ peer[u].stat = "idle" /\ peer[u].wght # None_
        /\ down = InfoSent(peer[u].wght)
    BY <2>0, <2>2 DEF Asks
  <2>4. peer[u].wght = w
    <3>1. peer[u] \in PeerSlots BY DEF UpInv, UpTypes, UpSlots
    <3>2. peer[u].wght \in DOMAIN LenWght BY <2>3, <3>1 DEF PeerSlots
    <3>3. InfoSent(peer[u].wght)[1].n = peer[u].wght BY <3>2, InfoTypes
    <3> QED BY <3>3, <2>3, <1>3
  <2>5. peer'[u] = peer[u] BY <1>1
  <2>6. \A k, t : k.down = <<>> /\ t = BlockAsked(0) => Asks(peer[u], k, t)'
    <3> HIDE DEF down
    <3> QED BY <2>3, <2>4, <2>5, <1>6 DEF Asks, BlockAsked
  <2> QED BY <2>3, <2>6
<1>11. BlockAsked(0) \in Seq(U!Units) /\ BlockAsked(0) \in Questions BY AskedTypes DEF Questions
<1>12. down # <<>> BY <1>1
<1> QED BY <1>1, <1>4, <1>6, <1>8, <1>9, <1>10, <1>11, <1>12, AskKeeps
\* It reads the length of a block.
LEMMA ReadLen == ASSUME UpInv, U!LoadRead, ld.pc = "len" PROVE UpInv'
<1> DEFINE x == U!Loader
           down == conn[x].down
           w == ld.no
           B == BlockLen(w, ld.i)
           k == [conn[x] EXCEPT !.down = SubSeq(@, 1 + 1, Len(@))]
<1>0. x \in Conns /\ x # None_ BY UpFacts
<1>1. /\ Len(down) >= 1
      /\ conn' = [conn EXCEPT ![x].down = SubSeq(@, 1 + 1, Len(@))]
      /\ ld' = [ld EXCEPT !.pc = "block", !.need = down[1].n]
      /\ peer' = peer /\ wght' = wght /\ taken' = taken /\ snd' = snd /\ via' = via
  BY DEF U!records, U!LoadRead, U!sndVars
<1>2. w \in DOMAIN LenWght /\ w \in Nat /\ ld.i \in Nat /\ B \in Nat \ {0} BY InHand, UpFacts
<1>3. conn' = [conn EXCEPT ![x] = k] BY <1>1
<1>4. conn[x] \in Connections /\ down # <<>> BY <1>0, <1>1 DEF UpInv, UpTypes
<1>5. conn[x].st \in {"open", "shut"} /\ ~conn[x].rst BY <1>0, <1>4 DEF UpInv, Slots, Connections
<1>6. ASSUME NEW s \in Nat, down = Answer(w, ld.i, s)
      PROVE  /\ s # 0 /\ down[1].n = B /\ SubSeq(down, 1 + 1, Len(down)) = Parts(w, LenBlock * ld.i, s)
  <2>1. s # 0
    <3>1. Answer(w, ld.i, 0) = <<>> BY DEF Answer
    <3> QED BY <3>1, <1>4, <1>6
  <2>2. U!Num(B).n = B BY <1>2, UnitTypes
  <2> DEFINE a == Answer(w, ld.i, s)
  <2>3. a[1] = U!Num(B) /\ SubSeq(a, 2, Len(a)) = Parts(w, LenBlock * ld.i, s)
    BY <2>1, <1>2, AnswerFacts
  <2> HIDE DEF a, B
  <2>4. a[1].n = B /\ SubSeq(a, 1 + 1, Len(a)) = Parts(w, LenBlock * ld.i, s) BY <2>2, <2>3
  <2> QED BY <2>1, <2>4, <1>6 DEF a
<1>7. PICK s \in 0 .. B : down = Answer(w, ld.i, s) BY DEF UpInv, Loads, Unread
<1> HIDE DEF B
<1>8. s \in Nat /\ down[1].n = B /\ SubSeq(down, 1 + 1, Len(down)) = Parts(w, LenBlock * ld.i, s)
  <2>1. s \in Nat BY <1>2
  <2> QED BY <2>1, <1>6, <1>7
<1>9. /\ k \in Connections /\ k.st = conn[x].st /\ k.up = conn[x].up /\ ~k.rst
      /\ k.down = Parts(w, LenBlock * ld.i, s)
  <2>1. Parts(w, LenBlock * ld.i, s) \in Seq(U!Units)
    <3>1. LenBlock * ld.i \in Nat BY <1>2, BlockFacts
    <3> QED BY <3>1, <1>2, <1>8, PartsFollow
  <2>2. k = [conn[x] EXCEPT !.down = Parts(w, LenBlock * ld.i, s)] BY <1>8
  <2> HIDE DEF k
  <2> QED BY <2>1, <2>2, <1>4, <1>5 DEF Connections
<1>10. /\ ld' \in Download /\ ld'.pc = "block" /\ ld'.need = B /\ ld'.no = w /\ ld'.i = ld.i
       /\ ld'.got = ld.got /\ ld'.nblock = ld.nblock
  <2>1. ld' = [ld EXCEPT !.pc = "block", !.need = B] BY <1>1, <1>8
  <2>2. ld \in Download BY DEF UpInv, UpTypes
  <2> QED BY <2>1, <2>2, <1>2 DEF Download
<1> HIDE DEF k
<1>11. conn'[x] = k BY <1>0, <1>3 DEF UpInv, UpTypes
<1>12. Unread'
  <2>1. \E t \in 0 .. BlockLen(ld'.no, ld'.i) : conn'[U!Loader'].down = Parts(ld'.no, LenBlock * ld'.i, t)
    <3>1. conn'[U!Loader'].down = Parts(w, LenBlock * ld.i, s) BY <1>9, <1>11 DEF U!Loader
    <3> HIDE DEF Parts, BlockLen
    <3> QED BY <3>1, <1>7, <1>10 DEF B
  <2> QED BY <2>1, <1>10 DEF Unread, Answer, BlockLen, Parts
<1>13. HasRead' BY <1>10 DEF UpInv, Loads, HasRead, Parts, BlockLen, U!Blocks, B
<1>14. ASSUME NEW u \in UpSlots, peer[u].sckt = x
       PROVE  peer[u].buf \o k.up \in Questions /\ Asks(peer[u], conn[U!Loader], OnItsWay(u))'
  <2>1. peer[u].buf \o k.up = OnItsWay(u) BY <1>9, <1>14 DEF OnItsWay
  <2>2. OnItsWay(u) \in Questions /\ Asks(peer[u], conn[x], OnItsWay(u))
    BY <1>5, <1>14 DEF UpInv, Loads
  <2>3. OnItsWay(u)' = OnItsWay(u) BY <1>1, <1>9, <1>11, <1>14 DEF OnItsWay
  <2>4. /\ peer[u].wght = w /\ OnItsWay(u) = <<>>
        /\ \/ /\ peer[u].stat = "wght" /\ peer[u].iblock = ld.i /\ 0 < peer[u].sent /\ peer[u].sent < B
              /\ k.down = Parts(w, LenBlock * ld.i, peer[u].sent)
           \/ /\ peer[u].stat = "idle" /\ k.down = Parts(w, LenBlock * ld.i, B)
    <3>1. peer[u].sent \in Nat BY DEF UpInv, UpTypes, PeerSlots, UpSlots
    <3>2. /\ peer[u].wght = w /\ OnItsWay(u) = <<>>
          /\ \/ /\ peer[u].stat = "wght" /\ peer[u].iblock = ld.i /\ peer[u].sent < B
                /\ down = Answer(w, ld.i, peer[u].sent)
             \/ /\ peer[u].stat = "idle" /\ down = Answer(w, ld.i, B)
      BY <2>2, <1>4 DEF Asks, B
    <3>3. k.down = SubSeq(down, 1 + 1, Len(down)) BY <1>8, <1>9
    <3>4. CASE peer[u].stat = "wght" /\ down = Answer(w, ld.i, peer[u].sent)
      <4>1. /\ peer[u].sent # 0
            /\ SubSeq(down, 1 + 1, Len(down)) = Parts(w, LenBlock * ld.i, peer[u].sent)
        BY <3>1, <3>4, <1>6
      <4>2. 0 < peer[u].sent BY <4>1, <3>1
      <4> QED BY <4>1, <4>2, <3>2, <3>3, <3>4
    <3>5. CASE peer[u].stat = "idle" /\ down = Answer(w, ld.i, B)
      <4>1. B \in Nat BY <1>2
      <4>2. SubSeq(down, 1 + 1, Len(down)) = Parts(w, LenBlock * ld.i, B) BY <4>1, <3>5, <1>6
      <4> QED BY <4>2, <3>2, <3>3, <3>5
    <3> QED BY <3>2, <3>4, <3>5
  <2> DEFINE kk == conn[U!Loader]
             t == OnItsWay(u)
  <2>5. kk' = k /\ t' = <<>> /\ peer'[u] = peer[u] BY <2>3, <2>4, <1>1, <1>11 DEF U!Loader
  <2> HIDE DEF kk, t
  <2>6. Asks(peer[u], kk, t)'
    <3>1. B = BlockLen(ld'.no, ld'.i) BY <1>10 DEF B
    <3> HIDE DEF Parts
    <3>2. /\ ld'.pc = "block" /\ peer'[u].wght = ld'.no /\ t' = <<>>
          /\ \/ /\ peer'[u].stat = "wght" /\ peer'[u].iblock = ld'.i /\ 0 < peer'[u].sent
                /\ peer'[u].sent < BlockLen(ld'.no, ld'.i)
                /\ kk'.down = Parts(ld'.no, LenBlock * ld'.i, peer'[u].sent)
             \/ /\ peer'[u].stat = "idle"
                /\ kk'.down = Parts(ld'.no, LenBlock * ld'.i, BlockLen(ld'.no, ld'.i))
      BY <3>1, <2>4, <2>5, <1>10
    <3> QED BY <3>2 DEF Asks, BlockLen, Parts, Answer
  <2> QED BY <2>1, <2>2, <2>6 DEF kk, t
<1> QED BY <1>1, <1>3, <1>5, <1>9, <1>10, <1>12, <1>13, <1>14, LoaderKeeps

\* A block that is there whole is read behind those that were read before.
LEMMA BlockRead ==
  ASSUME UpInv, ld.pc = "block", Len(conn[U!Loader].down) >= ld.need
  PROVE  /\ ld.need = BlockLen(ld.no, ld.i)
         /\ conn[U!Loader].down = Parts(ld.no, LenBlock * ld.i, ld.need)
         /\ SubSeq(conn[U!Loader].down, ld.need + 1, Len(conn[U!Loader].down)) = <<>>
         /\ ld.got \o SubSeq(conn[U!Loader].down, 1, ld.need)
              = Parts(ld.no, 0, LenBlock * ld.i + ld.need)
<1> DEFINE down == conn[U!Loader].down
           B == ld.need
           a == LenBlock * ld.i
<1>1. B = BlockLen(ld.no, ld.i) BY DEF UpInv, Loads, HasRead
<1>2. ld.no \in Nat /\ a \in Nat /\ B \in Nat BY <1>1, InHand, BlockFacts, UpFacts
<1>3. PICK s \in 0 .. B : down = Parts(ld.no, a, s) BY <1>1 DEF UpInv, Loads, Unread
<1> HIDE DEF a
<1>4. s \in Nat /\ Parts(ld.no, a, s) \in Seq(U!Units) /\ Len(Parts(ld.no, a, s)) = s
  <2>1. s \in Nat BY <1>2
  <2> QED BY <2>1, <1>2, PartsFollow
<1>5. s = B
  <2>1. s >= B BY <1>3, <1>4
  <2> QED BY <2>1, <1>2
<1>6. down \in Seq(U!Units) /\ Len(down) = B BY <1>3, <1>4, <1>5
<1>7. SubSeq(down, B + 1, Len(down)) = <<>> /\ SubSeq(down, 1, B) = down BY <1>2, <1>6, AllRead
<1>8. ld.got = Parts(ld.no, 0, a)
  <2>1. ld.got = Parts(ld.no, 0, Len(ld.got)) /\ Len(ld.got) = a BY DEF UpInv, Loads, HasRead, a
  <2> HIDE DEF Parts
  <2> QED BY <2>1
<1>9. Parts(ld.no, 0, a) \o Parts(ld.no, a, B) = Parts(ld.no, 0, a + B)
  <2>1. 0 + a = a BY <1>2
  <2>2. Joins(Parts(ld.no, 0, a), Parts(ld.no, 0 + a, B), Parts(ld.no, 0, a + B)) BY <1>2, PartsFollow
  <2> HIDE DEF Parts
  <2> QED BY <2>1, <2>2 DEF Joins
<1>10. ld.got \o SubSeq(down, 1, B) = Parts(ld.no, 0, a + B)
  <2> HIDE DEF Parts, down
  <2> QED BY <1>3, <1>5, <1>7, <1>8, <1>9
<1> QED BY <1>1, <1>3, <1>5, <1>7, <1>10 DEF a

\* The slot has sent the block whole when it is there.
LEMMA BlockSent ==
  ASSUME UpInv, ld.pc = "block", Len(conn[U!Loader].down) >= ld.need,
         NEW u \in UpSlots, peer[u].sckt = U!Loader
  PROVE  ~conn[U!Loader].rst /\ OnItsWay(u) = <<>> /\ peer[u].stat = "idle" /\ peer[u].wght = ld.no
<1> DEFINE down == conn[U!Loader].down
           B == BlockLen(ld.no, ld.i)
           a == LenBlock * ld.i
<1>1. B \in Nat \ {0} /\ ld.no \in Nat /\ a \in Nat BY InHand, BlockFacts, UpFacts
<1> HIDE DEF a, B
<1>2. down = Parts(ld.no, a, B) BY BlockRead DEF a, B
<1>3. Len(Parts(ld.no, a, B)) = B BY <1>1, PartsFollow
<1>4. ~conn[U!Loader].rst
  <2>1. down # <<>>
    <3> HIDE DEF Parts, down
    <3> QED BY <1>1, <1>2, <1>3
  <2> QED BY <2>1, UpFacts DEF UpInv, Slots
<1>5. Asks(peer[u], conn[U!Loader], OnItsWay(u)) BY <1>4 DEF UpInv, Loads
<1>6. /\ peer[u].wght = ld.no /\ OnItsWay(u) = <<>>
      /\ \/ peer[u].sent < B /\ down = Parts(ld.no, a, peer[u].sent)
         \/ peer[u].stat = "idle"
  BY <1>5 DEF Asks, a, B
<1>7. ~(peer[u].sent < B /\ down = Parts(ld.no, a, peer[u].sent))
  <2>1. peer[u].sent \in Nat BY DEF UpInv, UpTypes, PeerSlots, UpSlots
  <2>2. \A n \in Nat : Len(Parts(ld.no, a, n)) = n BY <1>1, PartsFollow
  <2> HIDE DEF Parts, down
  <2> QED BY <2>1, <2>2, <1>1, <1>2, <1>3
<1> QED BY <1>4, <1>6, <1>7

\* A block is read and the next one is asked for.
LEMMA ReadBlock ==
  ASSUME UpInv, U!LoadRead, ld.pc = "block", ld.i + 1 < ld.nblock
  PROVE  UpInv'
<1> DEFINE x == U!Loader
           down == conn[x].down
           w == ld.no
           j == ld.i + 1
<1>1. /\ Len(down) >= ld.need
      /\ conn' = [conn EXCEPT ![x].down = SubSeq(@, ld.need + 1, Len(@)), ![x].up = @ \o U!Ask(ld.i + 1)]
      /\ ld' = [ld EXCEPT !.i = ld.i + 1, !.got = ld.got \o SubSeq(down, 1, ld.need), !.pc = "len"]
      /\ peer' = peer /\ wght' = wght /\ taken' = taken /\ snd' = snd /\ via' = via
  BY DEF U!records, U!LoadRead, U!sndVars
<1>2. w \in DOMAIN LenWght /\ w \in Nat /\ w # None_ /\ ld.i \in Nat /\ j \in Nat /\ LenBlock * j \in Nat
  <2>1. w \in DOMAIN LenWght /\ ld.i \in Nat BY InHand
  <2>2. w \in Nat /\ w # None_ BY <2>1, UpFacts
  <2>3. j \in Nat BY <2>1
  <2> HIDE DEF j
  <2>4. LenBlock * j \in Nat BY <2>1, <2>3, BlockFacts
  <2> QED BY <2>1, <2>2, <2>3, <2>4
<1>3. ld.nblock = U!Blocks(w) /\ ld \in Download BY DEF UpInv, UpTypes, Loads, HasRead
<1>4. /\ SubSeq(down, ld.need + 1, Len(down)) = <<>>
      /\ ld.got \o SubSeq(down, 1, ld.need) = Parts(w, 0, LenBlock * ld.i + ld.need)
      /\ ld.need = BlockLen(w, ld.i)
  BY <1>1, BlockRead
<1>5. LenBlock * ld.i + ld.need = LenBlock * j /\ BlockLen(w, j) \in Nat
  <2>1. BlockLen(w, j) \in Nat
    <3> HIDE DEF BlockLen, j
    <3>1. j < U!Blocks(w) BY <1>3 DEF j
    <3> QED BY <3>1, <1>2, BlockFacts
  <2>2. LenBlock * ld.i + BlockLen(w, ld.i) = LenBlock * (ld.i + 1)
    <3> HIDE DEF BlockLen
    <3>1. ld.i < U!Blocks(w) BY InHand
    <3>2. ld.i + 1 < U!Blocks(w) BY <1>3
    <3> QED BY <3>1, <3>2, <1>2, BlockFacts
  <2> HIDE DEF BlockLen
  <2> QED BY <2>1, <2>2, <1>4
<1>6. ld.got \o SubSeq(down, 1, ld.need) = Parts(w, 0, LenBlock * j)
  <2> HIDE DEF Parts
  <2> QED BY <1>4, <1>5
<1>7. Parts(w, 0, LenBlock * j) \in Seq(U!Units) /\ Len(Parts(w, 0, LenBlock * j)) = LenBlock * j
  BY <1>2, PartsFollow
<1>8. conn' = [conn EXCEPT ![x].down = <<>>, ![x].up = @ \o BlockAsked(j)]
  BY <1>1, <1>2, <1>4, AskIs
<1>9. /\ ld' \in Download /\ ld'.pc = "len" /\ ld'.no = w /\ ld'.nblock = ld.nblock
      /\ ld'.i = j /\ ld'.got = Parts(w, 0, LenBlock * j)
  <2>1. ld' = [ld EXCEPT !.i = j, !.got = Parts(w, 0, LenBlock * j), !.pc = "len"]
    BY <1>1, <1>6
  <2> HIDE DEF Parts
  <2> QED BY <2>1, <1>2, <1>3, <1>7 DEF Download
<1> HIDE DEF j
<1>10. conn'[x].down = <<>>
  <2>1. x \in Conns BY UpFacts
  <2>2. conn[x] \in Connections BY <2>1 DEF UpInv, UpTypes
  <2> QED BY <2>1, <2>2, <1>8 DEF UpInv, UpTypes, Connections
<1>11. Unread'
  <2>1. 0 \in 0 .. BlockLen(w, j)
    <3> HIDE DEF BlockLen
    <3> QED BY <1>5
  <2>2. Answer(w, j, 0) = <<>> BY DEF Answer
  <2>3. \E s \in 0 .. BlockLen(ld'.no, ld'.i) : conn'[U!Loader'].down = Answer(ld'.no, ld'.i, s)
    <3> HIDE DEF BlockLen, Answer
    <3>1. conn'[U!Loader'].down = <<>> BY <1>10 DEF U!Loader
    <3> QED BY <2>1, <2>2, <3>1, <1>9
  <2> QED BY <2>3, <1>9 DEF Unread, Answer, BlockLen, Parts
<1>12. HasRead'
  <2>1. ld'.got = Parts(ld'.no, 0, Len(ld'.got)) /\ Len(ld'.got) = LenBlock * ld'.i
    <3> HIDE DEF Parts
    <3> QED BY <1>7, <1>9
  <2>2. Parts(ld.no, 0, Len(ld.got))' = Parts(ld'.no, 0, Len(ld'.got)) BY DEF Parts
  <2>3. ld'.no # None_ /\ ld'.nblock = U!Blocks(ld'.no) /\ ld'.i < ld'.nblock
    BY <1>2, <1>3, <1>9 DEF j
  <2> QED BY <2>1, <2>2, <2>3, <1>9 DEF HasRead, U!Blocks
<1>13. ASSUME NEW u \in UpSlots, peer[u].sckt = x
       PROVE  /\ OnItsWay(u) = <<>>
              /\ \A k, t : k.down = <<>> /\ t = BlockAsked(j) => Asks(peer[u], k, t)'
  <2>1. OnItsWay(u) = <<>> /\ peer[u].stat = "idle" /\ peer[u].wght = w BY <1>1, <1>13, BlockSent
  <2>2. peer'[u] = peer[u] BY <1>1
  <2>3. \A k, t : k.down = <<>> /\ t = BlockAsked(j) => Asks(peer[u], k, t)'
    <3> HIDE DEF down
    <3> QED BY <2>1, <2>2, <1>9 DEF Asks, BlockAsked
  <2> QED BY <2>1, <2>3
<1>14. BlockAsked(j) \in Seq(U!Units) /\ BlockAsked(j) \in Questions BY <1>2, AskedTypes DEF Questions
<1>15. down # <<>>
  <2>1. conn[x] \in Connections BY UpFacts DEF UpInv, UpTypes
  <2>2. ld.need \in Nat \ {0} BY <1>4, InHand
  <2>3. down \in Seq(U!Units) BY <2>1 DEF Connections
  <2> HIDE DEF down
  <2> QED BY <2>2, <2>3, <1>1
<1> QED BY <1>1, <1>8, <1>9, <1>11, <1>12, <1>13, <1>14, <1>15, AskKeeps

\* The last block is read.
LEMMA ReadLast ==
  ASSUME UpInv, U!LoadRead, ld.pc = "block", ~(ld.i + 1 < ld.nblock)
  PROVE  UpInv'
<1> DEFINE x == U!Loader
           down == conn[x].down
           w == ld.no
           k == [conn[x] EXCEPT !.down = <<>>]
<1>1. /\ Len(down) >= ld.need
      /\ conn' = [conn EXCEPT ![x].down = SubSeq(@, ld.need + 1, Len(@))]
      /\ ld' = [ld EXCEPT !.i = ld.i + 1, !.got = ld.got \o SubSeq(down, 1, ld.need), !.pc = "close"]
      /\ peer' = peer /\ wght' = wght /\ taken' = taken /\ snd' = snd /\ via' = via
  BY DEF U!records, U!LoadRead, U!sndVars
<1>2. w \in DOMAIN LenWght /\ w \in Nat /\ ld.i \in Nat /\ LenWght[w] \in Nat
  <2>1. w \in DOMAIN LenWght /\ ld.i \in Nat BY InHand
  <2> QED BY <2>1, UpFacts
<1>3. ld.nblock = U!Blocks(w) /\ ld \in Download BY DEF UpInv, UpTypes, Loads, HasRead
<1>4. /\ SubSeq(down, ld.need + 1, Len(down)) = <<>>
      /\ ld.got \o SubSeq(down, 1, ld.need) = Parts(w, 0, LenBlock * ld.i + ld.need)
      /\ ld.need = BlockLen(w, ld.i)
  BY <1>1, BlockRead
<1>5. LenBlock * ld.i + ld.need = LenWght[w]
  <2> HIDE DEF BlockLen
  <2>1. ld.i < U!Blocks(w) BY InHand
  <2>2. ~(ld.i + 1 < U!Blocks(w)) BY <1>3
  <2>3. LenBlock * ld.i + BlockLen(w, ld.i) = LenWght[w] BY <2>1, <2>2, <1>2, BlockFacts
  <2> QED BY <2>3, <1>4
<1>6. ld.got \o SubSeq(down, 1, ld.need) = Parts(w, 0, LenWght[w])
  <2> HIDE DEF Parts
  <2> QED BY <1>4, <1>5
<1>7. Parts(w, 0, LenWght[w]) \in Seq(U!Units) /\ Len(Parts(w, 0, LenWght[w])) = LenWght[w]
  <2>1. \A n \in Nat : Parts(w, 0, n) \in Seq(U!Units) /\ Len(Parts(w, 0, n)) = n
    BY <1>2, PartsFollow
  <2> HIDE DEF Parts
  <2> QED BY <2>1, <1>2
<1>8. x \in Conns /\ conn[x] \in Connections /\ conn[x].st \in {"open", "shut"} /\ x # None_
  BY UpFacts DEF UpInv, UpTypes, Loads
<1>9. conn' = [conn EXCEPT ![x] = k] BY <1>1, <1>4
<1>10. /\ k \in Connections /\ k.st = conn[x].st /\ k.up = conn[x].up /\ k.rst = conn[x].rst /\ k.down = <<>>
  <2>1. <<>> \in Seq(U!Units) OBVIOUS
  <2> QED BY <2>1, <1>8 DEF Connections
<1>11. /\ ld' \in Download /\ ld'.pc = "close" /\ ld'.no = w /\ ld'.got = Parts(w, 0, LenWght[w])
  <2>1. ld' = [ld EXCEPT !.i = ld.i + 1, !.got = Parts(w, 0, LenWght[w]), !.pc = "close"]
    BY <1>1, <1>6
  <2> HIDE DEF Parts
  <2>2. ld.i + 1 \in Nat BY <1>2
  <2> QED BY <2>1, <2>2, <1>3, <1>7 DEF Download
<1> HIDE DEF k
<1>12. conn'[x] = k BY <1>8, <1>9 DEF UpInv, UpTypes
<1>13. Unread' BY <1>11 DEF Unread
<1>14. HasRead'
  <2>1. ld'.got = Parts(ld'.no, 0, Len(ld'.got)) /\ Len(ld'.got) = LenWght[ld'.no]
    <3> HIDE DEF Parts
    <3> QED BY <1>7, <1>11
  <2>2. Parts(ld.no, 0, Len(ld.got))' = Parts(ld'.no, 0, Len(ld'.got)) BY DEF Parts
  <2> QED BY <2>1, <2>2, <1>11 DEF HasRead
<1>15. ASSUME NEW u \in UpSlots, peer[u].sckt = x
       PROVE  peer[u].buf \o k.up \in Questions /\ Asks(peer[u], conn[U!Loader], OnItsWay(u))'
  <2>1. OnItsWay(u) = <<>> /\ peer[u].stat = "idle" /\ peer[u].wght = w BY <1>1, <1>15, BlockSent
  <2>2. peer[u].buf \o k.up = OnItsWay(u) BY <1>10, <1>15 DEF OnItsWay
  <2>3. OnItsWay(u)' = OnItsWay(u) BY <1>1, <1>10, <1>12, <1>15 DEF OnItsWay
  <2>4. peer'[u] = peer[u] BY <1>1
  <2> DEFINE kk == conn[U!Loader]
             t == OnItsWay(u)
  <2>5. t' = <<>> BY <2>1, <2>3
  <2> HIDE DEF kk, t
  <2>6. Asks(peer[u], kk, t)' BY <2>1, <2>4, <2>5, <1>11 DEF Asks
  <2> QED BY <2>1, <2>2, <2>6 DEF Questions, kk, t
<1>16. k.st \in {"none", "backlog", "mute"} \/ k.rst => k.up = <<>> /\ k.down = <<>>
  BY <1>8, <1>10 DEF UpInv, Slots
<1> QED BY <1>1, <1>8, <1>9, <1>10, <1>11, <1>13, <1>14, <1>15, <1>16, LoaderKeeps

\* The download reads what it has asked for.
LEMMA LoadReadKeeps == ASSUME UpInv, U!LoadRead PROVE UpInv'
<1>1. ld.pc \in {"hello", "info", "len", "block"} BY DEF U!LoadRead
<1> QED BY <1>1, ReadHello, ReadInfo, ReadLen, ReadBlock, ReadLast

----------------------------------------------------------------------------
(* The invariant holds, and with it what was promised.                       *)

\* At the start nothing is sent and nothing recorded.
LEMMA UpStart == U!Init => UpInv
<1> SUFFICES ASSUME U!Init PROVE UpInv OBVIOUS
<1>1. /\ conn = [c \in Conns |-> U!Unused] /\ taken = <<>> /\ wght \in DOMAIN LenWght
      /\ peer = [u \in UpSlots |-> [sckt |-> None_, buf |-> <<>>, stat |-> "idle",
                                    wght |-> None_, iblock |-> 0, sent |-> 0]]
      /\ via = [g \in U!Games |-> None_]
  <2>1. U!PeerInit BY DEF U!Init
  <2> QED BY <2>1 DEF U!Init, U!PeerInit, UpSlots
<1>2. PICK w \in Works :
        /\ snd = [pc |-> "take", game |-> NRec - w.games, retry |-> 0, c |-> 0, cut |-> 0]
        /\ ld = [pc |-> IF w.load THEN "start" ELSE "loaded", no |-> None_, nblock |-> 0,
                 i |-> 0, need |-> 0, got |-> <<>>]
  BY DEF U!Init
<1>3. NRec \in Nat /\ w.games \in 0 .. NRec /\ NRec - w.games \in 0 .. NRec
  <2>1. NRec \in Nat /\ w.games \in 0 .. NRec BY UploadAssumption
  <2> QED BY <2>1
<1>4. /\ U!Unused \in Connections /\ U!Unused.st = "none" /\ U!Unused.up = <<>>
      /\ U!Unused.down = <<>> /\ ~U!Unused.rst
  BY DEF U!Unused, Connections
<1>5. \A c \in Conns : conn[c] = U!Unused BY <1>1
<1>6. \A u \in UpSlots : peer[u].sckt = None_ /\ peer[u] \in PeerSlots
  BY <1>1, UpFacts DEF PeerSlots
<1>7. UpTypes
  <2>1. conn \in [Conns -> Connections] BY <1>1, <1>4
  <2>2. peer \in [1 .. MaxAccept -> PeerSlots] BY <1>1, <1>6 DEF UpSlots
  <2>3. snd \in Sender BY <1>2, <1>3, UploadAssumption DEF Sender
  <2>4. via \in [U!Games -> Conns \union {None_}] BY <1>1
  <2>5. ld \in Download BY <1>2 DEF Download
  <2>6. taken \in Seq(Seq(U!Units)) BY <1>1
  <2> QED BY <2>1, <2>2, <2>3, <2>4, <2>5, <2>6, <1>1 DEF UpTypes
<1>8. Slots
  <2>1. \A u \in UpSlots : CanSend(peer[u]) BY <1>6 DEF CanSend
  <2> QED BY <2>1, <1>4, <1>5, <1>6 DEF Slots
<1>9. Sending /\ Arrives /\ Recorded
  BY <1>1, <1>2 DEF Sending, Arrives, Recorded, Hands
<1>10. Sends
  <2>1. None_ \notin U!Senders BY UpFacts
  <2> QED BY <2>1, <1>1, <1>2, <1>4, <1>5, <1>6 DEF Sends, Hands
<1>11. Loads
  <2>1. U!Loader \in Conns /\ None_ # U!Loader BY UpFacts
  <2>2. conn[U!Loader].st = "none" BY <2>1, <1>4, <1>5
  <2>3. ld.pc \in {"start", "loaded"} /\ ld.no = None_ /\ ld.i = 0 /\ ld.got = <<>> BY <1>2
  <2>4. Unread BY <2>3 DEF Unread
  <2>5. HasRead
    <3>2. Parts(ld.no, 0, 0) = <<>> BY DEF Parts
    <3>3. ld.got = Parts(ld.no, 0, Len(ld.got))
      <4>1. Len(ld.got) = 0 BY <2>3
      <4> HIDE DEF Parts
      <4> QED BY <4>1, <3>2, <2>3
    <3> QED BY <3>3, <2>3 DEF HasRead
  <2> QED BY <2>1, <2>2, <2>3, <2>4, <2>5, <1>6 DEF Loads
<1> QED BY <1>7, <1>8, <1>9, <1>10, <1>11 DEF UpInv

\* A step of the server: the download and the sender are left alone.
LEMMA ServerKeeps == ASSUME UpInv, U!Server PROVE UpInv'
<1>1. snd' = snd /\ via' = via /\ ld' = ld BY DEF U!Server, U!sndVars
<1>2. ASSUME NEW c \in Conns, U!Accept(c) PROVE UpInv'
  <2>1. GamesAlone BY <1>1, <1>2 DEF U!Accept, GamesAlone
  <2> QED BY <2>1, <1>2, AcceptKeeps
<1>3. ASSUME NEW c \in Conns, U!Reset(c) PROVE UpInv'
  <2>1. GamesAlone BY <1>1, <1>3 DEF U!Reset, GamesAlone
  <2> QED BY <2>1, <1>3, ResetKeeps
<1>4. ASSUME NEW u \in UpSlots, U!Recv(u) PROVE UpInv'
  <2>1. GamesAlone BY <1>1, <1>4 DEF U!Recv, GamesAlone
  <2>2. peer[u].sckt # None_ BY <1>4 DEF U!Recv, U!Open
  <2>3. peer[u].sckt \in U!Senders \/ peer[u].sckt = U!Loader BY <2>2, AtSlot, UpFacts
  <2> QED BY <2>1, <2>3, <1>4, RecvSender, RecvLoader
<1>5. ASSUME NEW u \in UpSlots, U!Send(u) PROVE UpInv'
  <2>1. GamesAlone BY <1>1, <1>5 DEF U!Send, GamesAlone
  <2>2. peer[u].sckt # None_ BY <1>5 DEF U!Send, U!Open
  <2>3. peer[u].sckt \in U!Senders \/ peer[u].sckt = U!Loader BY <2>2, AtSlot, UpFacts
  <2> QED BY <2>1, <2>3, <1>5, SendSender, SendLoader
<1>6. ASSUME NEW u \in UpSlots, U!Expire(u) PROVE UpInv'
  <2>1. GamesAlone BY <1>1, <1>6 DEF U!Expire, GamesAlone
  <2> QED BY <2>1, <1>6, ExpireKeeps
<1>7. ASSUME U!Publish PROVE UpInv' BY <1>1, <1>7, PublishKeeps
<1>8. \/ \E c \in Conns : U!Accept(c) \/ U!Reset(c)
      \/ \E u \in UpSlots : U!Recv(u) \/ U!Send(u) \/ U!Expire(u)
      \/ U!Publish
  BY DEF U!Server, UpSlots
<1> QED BY <1>2, <1>3, <1>4, <1>5, <1>6, <1>7, <1>8

\* One step of the client, of the download or of the server.
LEMMA UpNext == UpInv /\ [U!Next]_upload => UpInv'
<1> SUFFICES ASSUME UpInv, [U!Next]_upload PROVE UpInv' OBVIOUS
<1>1. CASE U!Client
  BY <1>1, TakeKeeps, PopKeeps, ConnectKeeps, HeaderKeeps, WriteKeeps, DoneKeeps, FailKeeps
     DEF U!Client
<1>2. CASE U!Wakeup \/ U!Quit \/ U!End BY <1>2, PopKeeps, EndKeeps
<1>3. CASE U!LoadConnect BY <1>3, LoadConnectKeeps
<1>4. CASE U!LoadRead BY <1>4, LoadReadKeeps
<1>5. CASE U!LoadClose BY <1>5, LoadCloseKeeps
<1>6. CASE U!Server BY <1>6, ServerKeeps
<1>7. CASE UNCHANGED upload
  <2>1. /\ conn' = conn /\ peer' = peer /\ wght' = wght /\ taken' = taken /\ snd' = snd
        /\ via' = via /\ ld' = ld
    BY <1>7 DEF upload
  <2>2. UpTypes' BY <2>1 DEF UpInv, UpTypes, U!Games
  <2>3. Slots' BY <2>1 DEF UpInv, Slots, UpSlots, CanSend, BlockLen
  <2>4. UpSlots' = UpSlots /\ \A u \in UpSlots : OnItsWay(u)' = OnItsWay(u)
    BY <2>1 DEF OnItsWay, UpSlots
  <2>5. /\ conn' \in [Conns -> Connections] /\ \A c \in U!Senders : conn'[c] = conn[c]
        /\ \A u \in UpSlots : peer'[u].sckt \in U!Senders => peer'[u] = peer[u]
    BY <2>1 DEF UpInv, UpTypes
  <2>6. Sending' /\ Arrives' /\ Recorded' /\ Sends' BY <2>1, <2>5, SendsKept DEF UpInv
  <2>7. Loads' BY <2>1, <2>4, LoadsKept DEF UpInv
  <2> QED BY <2>2, <2>3, <2>6, <2>7 DEF UpInv
<1> QED BY <1>1, <1>2, <1>3, <1>4, <1>5, <1>6, <1>7 DEF U!Next

\* A record's game is one record, and it is recorded whole.
LEMMA UpRecorded == UpInv => RecordedOnceAndWhole
BY DEF UpInv, Recorded, RecordedOnceAndWhole, U!RecordedOnceAndWhole, U!IsInjective

\* What has arrived whole has been recorded.
LEMMA UpArrived == UpInv => SentArrives
<1> SUFFICES ASSUME UpInv, NEW g \in U!Games, via[g] # None_, conn[via[g]].st = "open",
                    conn[via[g]].up = <<>>, ~conn[via[g]].rst
             PROVE  U!Body(g) \in U!Added \union U!Ignored
  BY DEF SentArrives, U!SentArrives
<1>1. via[g] \in U!Senders /\ via[g] \in Conns BY UpFacts DEF UpInv, Arrives
<1>2. PICK u \in UpSlots : peer[u].sckt = via[g] BY <1>1 DEF UpInv, Slots
<1>3. peer[u].buf \in Seq(U!Units) BY <1>1, <1>2, AtSlot, UpFacts DEF PeerSlots
<1>4. ~(OnItsWay(u) = U!Stream(g) /\ Len(peer[u].buf) < 2 + LenRec[g])
  <2>1. peer[u].buf \o <<>> = peer[u].buf
    <3>1. HasUnit(U!Units) BY ConcatenationLaws
    <3> QED BY <3>1, <1>3, Zenon DEF HasUnit
  <2>2. OnItsWay(u) = peer[u].buf BY <2>1, <1>2 DEF OnItsWay
  <2>3. Len(U!Stream(g)) = 2 + LenRec[g] BY StreamFacts
  <2>4. LenRec[g] \in Nat BY UpFacts
  <2> QED BY <2>2, <2>3, <2>4
<1>5. \E n \in DOMAIN taken : taken[n] = U!Body(g) BY <1>2, <1>4 DEF UpInv, Arrives
<1> QED BY <1>5 DEF U!Added, U!Ignored

\* The download has read the parts of its weight, in their order, and what it reads next
\* for a length is one.
LEMMA UpAnswered == UpInv => AnswersAsAsked
<1> SUFFICES ASSUME UpInv PROVE AnswersAsAsked OBVIOUS
<1>1. ASSUME NEW j \in DOMAIN ld.got PROVE ld.got[j] = U!Unit("part", ld.no, j)
  <2>1. ld.got \in Seq(U!Units) /\ ld.got = Parts(ld.no, 0, Len(ld.got))
    BY DEF UpInv, UpTypes, Download, Loads, HasRead
  <2> DEFINE n == Len(ld.got)
  <2>2. n \in Nat /\ j \in 1 .. n BY <2>1, <1>1
  <2> HIDE DEF n
  <2>3. Parts(ld.no, 0, n)[j] = U!Unit("part", ld.no, 0 + j) BY <2>2 DEF Parts
  <2>4. 0 + j = j BY <2>2
  <2>5. Parts(ld.no, 0, n)[j] = U!Unit("part", ld.no, j) BY <2>3, <2>4
  <2> HIDE DEF Parts
  <2> QED BY <2>1, <2>5 DEF n
<1>2. ASSUME ld.pc = "len", conn[U!Loader].down # <<>> PROVE conn[U!Loader].down[1].k = "num"
  <2>1. ld.no \in DOMAIN LenWght /\ ld.i \in Nat /\ BlockLen(ld.no, ld.i) \in Nat \ {0}
    BY <1>2, InHand
  <2>2. PICK s \in 0 .. BlockLen(ld.no, ld.i) : conn[U!Loader].down = Answer(ld.no, ld.i, s)
    BY <1>2 DEF UpInv, Loads, Unread
  <2>3. s \in Nat /\ s # 0
    <3> HIDE DEF BlockLen
    <3>1. s \in Nat BY <2>1
    <3>2. Answer(ld.no, ld.i, 0) = <<>> BY DEF Answer
    <3> HIDE DEF Answer
    <3> QED BY <3>1, <3>2, <2>2, <1>2
  <2>4. Answer(ld.no, ld.i, s)[1] = U!Num(BlockLen(ld.no, ld.i)) BY <2>1, <2>3, AnswerFacts
  <2>5. \A n : U!Num(n).k = "num" BY DEF U!Num, U!Unit
  <2> HIDE DEF Answer, BlockLen
  <2> QED BY <2>2, <2>4, <2>5
<1>3. ld.pc = "loaded" /\ ld.no # None_ => Len(ld.got) = LenWght[ld.no]
  BY DEF UpInv, Loads, HasRead
<1> QED BY <1>1, <1>2, <1>3 DEF AnswersAsAsked, U!AnswersAsAsked

\* What is marked as ignored is a record that was read.
IgnoredAreTaken == taken \in Seq(Seq(U!Units)) /\ ignored \subseteq 1 .. Len(taken)

\* Only handle_recv() takes records, and it marks none but those it takes.
LEMMA IgnoredStep ==
  ASSUME IgnoredAreTaken, taken' \in Seq(Seq(U!Units)), [U!Next]_upload
  PROVE  IgnoredAreTaken'
<1>1. CASE taken' = taken /\ ignored' = ignored BY <1>1 DEF IgnoredAreTaken
<1>2. ASSUME NEW u \in 1 .. MaxAccept, U!Recv(u) PROVE IgnoredAreTaken'
  <2>1. CASE UNCHANGED U!records BY <2>1, <1>1 DEF U!records
  <2>2. CASE ~UNCHANGED U!records
    <3>1. PICK r : /\ taken' = taken \o r.recs
                   /\ \/ ignored' = ignored
                      \/ ignored' = ignored \union (Len(taken) + 1 .. Len(taken'))
      <4> HIDE DEF U!records
      <4> QED BY <1>2, <2>2, Zenon DEF U!Recv
    <3>2. Len(taken') >= Len(taken)
      BY <3>1
    <3>3. Len(taken) \in Nat /\ Len(taken') \in Nat BY DEF IgnoredAreTaken
    <3>4. ignored' \subseteq 1 .. Len(taken')
      <4> SUFFICES ASSUME NEW n \in ignored' PROVE n \in 1 .. Len(taken') OBVIOUS
      <4>1. n \in ignored \/ n \in Len(taken) + 1 .. Len(taken') BY <3>1
      <4>2. n \in 1 .. Len(taken) \/ n \in Len(taken) + 1 .. Len(taken')
        BY <4>1 DEF IgnoredAreTaken
      <4> QED BY <3>2, <3>3, <4>2
    <3> QED BY <3>4 DEF IgnoredAreTaken
  <2> QED BY <2>1, <2>2
<1>3. CASE U!Server
  <2>1. \/ \E c \in Conns : U!Accept(c) \/ U!Reset(c)
        \/ \E u \in 1 .. MaxAccept : U!Send(u) \/ U!Expire(u)
        \/ U!Publish
        => taken' = taken /\ ignored' = ignored
    BY DEF U!Accept, U!Reset, U!Send, U!Expire, U!Publish, U!records
  <2> QED BY <1>1, <1>2, <1>3, <2>1 DEF U!Server
<1>4. CASE ~U!Server
  <2>1. taken' = taken /\ ignored' = ignored
    BY <1>4 DEF U!Next, U!Client, U!Take, U!Leave, U!Block, U!Sleep, U!Drop, U!Wakeup, U!Goes,
       U!Connect, U!Header, U!Write, U!Done, U!Fail, U!Quit, U!End, U!SetEnd, U!Notify,
       U!LoadConnect, U!LoadRead, U!LoadClose, U!peerVars, U!records, upload
  <2> QED BY <2>1, <1>1
<1> QED BY <1>3, <1>4

\* The upload is itself or stands still.
LEMMA UploadInvariance == MCSpec => []UpInv
<1>1. MCInit => UpInv BY UpStart DEF MCInit
<1>2. UpInv /\ [MCNext]_<<vars, upload, side>> => UpInv'
  <2> SUFFICES ASSUME UpInv, [MCNext]_<<vars, upload, side>> PROVE UpInv' OBVIOUS
  <2>1. [U!Next]_upload BY DEF MCNext
  <2> QED BY <2>1, UpNext
<1> QED BY <1>1, <1>2, PTL DEF MCSpec

\* Upload is type-correct: connections, slots, the sender and the download are what the
\* declarations of listen.cpp and client.cpp say.
THEOREM UploadTypeCorrect == MCSpec => [](UpTypes /\ IgnoredAreTaken)
<1>1. UpInv => UpTypes BY DEF UpInv
<1>2. MCInit => IgnoredAreTaken
  BY DEF MCInit, U!Init, U!PeerInit, IgnoredAreTaken
<1>3. IgnoredAreTaken /\ UpInv' /\ [MCNext]_<<vars, upload, side>> => IgnoredAreTaken'
  <2> SUFFICES ASSUME IgnoredAreTaken, UpInv', [MCNext]_<<vars, upload, side>>
               PROVE  IgnoredAreTaken'
    OBVIOUS
  <2>1. [U!Next]_upload BY DEF MCNext
  <2>2. taken' \in Seq(Seq(U!Units)) BY DEF UpInv, UpTypes
  <2> QED BY <2>1, <2>2, IgnoredStep
<1> QED BY <1>1, <1>2, <1>3, UploadInvariance, PTL DEF MCSpec

\* Records are recorded as they were sent, whole and once.
THEOREM UploadsAreRecorded == MCSpec => []RecordedOnceAndWhole
BY UploadInvariance, UpRecorded, PTL

\* What counts as sent is recorded once the server has read it.
THEOREM UploadsArrive == MCSpec => []SentArrives
BY UploadInvariance, UpArrived, PTL

\* Answers come in the order of the questions.
THEOREM AnswersFit == MCSpec => []AnswersAsAsked
BY UploadInvariance, UpAnswered, PTL
=============================================================================
