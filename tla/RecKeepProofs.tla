--------------------------- MODULE RecKeepProofs ---------------------------
(***************************************************************************)
(* What RecKeep promises for every set of games, every size of a cluster   *)
(* and of the table of digests, and any number of crashes.                 *)
(*                                                                         *)
(* The argument: the pool is a run of numbers, every number before it is   *)
(* in a whole archive, and an archive that overlaps the pool holds the     *)
(* same records as the pool there.  So the record that is stored under a   *)
(* number is the same before and after a file is removed, an archive is    *)
(* created or rewritten, or the process ends.  Files that could not be     *)
(* removed lie before the run and hold what those archives hold, so that   *)
(* start() may take them back into the pool: the only step that changes    *)
(* what is stored is the rename of a new record's file, which adds the     *)
(* next number (StoreKept, StoreGrows).  The promises about the sequence   *)
(* of records, about the estimates and about duplicates are consequences.  *)
(***************************************************************************)
EXTENDS RecKeep, Induction

-----------------------------------------------------------------------------
(* The inductive invariant.                                                *)

\* The sequences are sequences.
SeqTypes ==
  /\ \A k \in DOMAIN arch : arch[k] \in Seq(Entries)
  /\ stream \in Seq(Entries)
  /\ jobs \in Seq(Records)
  /\ table \in Seq(Records \ Bad)

Types == TypeOK /\ SeqTypes

\* The pool has no hole.
PoolIsRun ==
  \/ PoolEmpty
  \/ /\ Begin \in Numbers /\ Last \in Numbers /\ Begin <= Last
     /\ DOMAIN pool = Begin .. Last

\* Archives are of clusters that are over: the record after them is in the pool or
\* was, and the pool is never emptied.
ArchiveIsPast == \A k \in DOMAIN arch : ~PoolEmpty /\ k + SizeCluster <= Last

GoneIsArchived ==
  ~PoolEmpty => \A i \in 0 .. Begin - 1 : \E k \in DOMAIN arch : Covers(k, i) /\ Whole(k)

ArchiveAgrees ==
  \A k \in DOMAIN arch : Whole(k) =>
    \A i \in DOMAIN pool : Covers(k, i) => arch[k][i - k + 1].rec = pool[i]

\* The files that could not be removed are before the pool, and of no use.
LeftIsArchived ==
  \A i \in DOMAIN left :
    /\ ~PoolEmpty /\ i < Begin
    /\ \A k \in DOMAIN arch : (Whole(k) /\ Covers(k, i)) => arch[k][i - k + 1].rec = left[i]

\* Where the pool stands with respect to the clusters, at each place of the process.
Removing == {"reminders", "archived", "remove"}
AtClusters == {"clusters", "encode", "tail"}
BeforeSave == {"idle", "examine", "save"}
AfterSave == {"ema", "archive", "append"}

PoolAtStart ==
  (pc \in BeforeSave \cup AfterSave \cup AtClusters \cup {"reopen"} /\ ~PoolEmpty)
    => Begin % SizeCluster = 0

\* The cluster whose files are removed is archived.
ClusterLeaves ==
  /\ upto - SizeCluster \in DOMAIN arch /\ Whole(upto - SizeCluster)
  /\ upto - SizeCluster <= Begin /\ Begin <= upto /\ upto <= Last

PoolHasPlace ==
  /\ pc \in Removing \cup AtClusters \cup AfterSave \cup {"reopen"} => ~PoolEmpty
  /\ (pc \in BeforeSave \cup {"append", "tail"} /\ ~PoolEmpty) => Last < Begin + SizeCluster
  /\ pc \in {"ema", "archive"} => Last <= Begin + SizeCluster
  /\ pc = "encode" => upto = Begin + SizeCluster /\ upto <= Last
  /\ pc \in Removing => ClusterLeaves
  /\ pc = "remove" => upto = Last
  /\ pc = "reopen" => Begin = Last

\* The job the worker is at, and where it is stored.
JobHasPlace ==
  /\ pc \in {"examine", "save"} => job \in Records /\ NextId <= MaxId
  /\ pc = "save" => job \notin Bad
  /\ pc \in AfterSave \cup {"remove", "reopen"} => job \in Records \ Bad /\ pool[Last] = job

\* The archive under way holds the pool, but for the record being saved.
StreamIsPool ==
  /\ pc \in {"loaded", "checked"} => stream = <<>> /\ bFirst
  /\ pc \in BeforeSave => stream = IF PoolEmpty THEN <<>> ELSE Encoded(Begin, Last)
  /\ pc \in AfterSave => stream = Encoded(Begin, Last - 1)
  /\ pc \in BeforeSave \cup AfterSave => (bFirst <=> stream = <<>>)

DiskInv ==
  PoolIsRun /\ ArchiveIsPast /\ ArchivesWhole /\ GoneIsArchived /\ ArchiveAgrees /\ LeftIsArchived
PlaceInv == PoolAtStart /\ PoolHasPlace /\ JobHasPlace /\ StreamIsPool

\* The estimates lack the records of crashes, and the one that is about to be fed.
Due == NoResignStored - ema - (IF pc = "ema" /\ FeedsEma THEN 1 ELSE 0)
EmaInv == Due \in 0 .. crashes

\* The table holds digests accepted since the start, and all of them while it has room.
Accepted == {Stored(n) : n \in born .. NextId - 1}
TableDiffers == \A n, m \in 1 .. Len(table) : table[n] = table[m] => n = m
TableInv ==
  /\ born <= NextId
  /\ pc # "down" =>
       /\ TableDiffers
       /\ \A n \in 1 .. Len(table) : table[n] \in Accepted \/ (pc = "save" /\ table[n] = job)
       /\ \A d \in Accepted : Known(d) \/ Len(table) = SizeTable
       /\ pc = "save" => /\ Known(job)
                         /\ job \in Accepted => Cardinality(Accepted \ {job}) >= SizeTable

IInv == Types /\ DiskInv /\ PlaceInv /\ EmaInv /\ TableInv /\ NoDuplicateInOneLife

-----------------------------------------------------------------------------
(* Clusters.                                                               *)

\* Each number is in one cluster, which starts at a multiple of the size.
LEMMA ClusterStart ==
  ASSUME NEW i \in Int
  PROVE  LET k == (i \div SizeCluster) * SizeCluster
         IN /\ k \in Int /\ k % SizeCluster = 0 /\ Covers(k, i)
            /\ ClusterEnd(i) = k + SizeCluster /\ (k + SizeCluster) % SizeCluster = 0
<1> DEFINE C == SizeCluster
<1>1. C \in Nat \ {0}
  BY RecKeepAssumption
<1> HIDE DEF C
<1>2. \A q \in Int : (q * C) % C = 0
  BY <1>1
<1>3. /\ i \div C \in Int /\ (i \div C) * C \in Int
      /\ (i \div C) * C <= i /\ i < (i \div C) * C + C
  BY <1>1
<1>4. (i \div C + 1) * C = (i \div C) * C + C
  BY <1>1, <1>3
<1>5. ((i \div C) * C) % C = 0 /\ ((i \div C + 1) * C) % C = 0
  BY <1>2, <1>3
<1> USE DEF C
<1>. QED  BY <1>3, <1>4, <1>5 DEF Covers, ClusterEnd

\* A number is in no cluster but its own.
LEMMA OneCluster ==
  ASSUME NEW i \in Int, NEW k \in Int, k % SizeCluster = 0, Covers(k, i)
  PROVE  (i \div SizeCluster) * SizeCluster = k
<1> DEFINE C == SizeCluster
           q == k \div C
           m == i \div C
<1>1. C \in Nat \ {0}
  BY RecKeepAssumption
<1>2. q \in Int /\ q * C = k
  <2> HIDE DEF C, m
  <2>1. k = C * (k \div C) + (k % C)
    BY <1>1
  <2>2. C * (k \div C) = (k \div C) * C
    BY <1>1
  <2>3. k % C = 0
    BY DEF C
  <2>. QED  BY <1>1, <2>1, <2>2, <2>3
<1>3. m \in Int /\ m * C <= i /\ i < m * C + C
  BY <1>1
<1>4. q * C <= i /\ i < q * C + C
  BY <1>2 DEF Covers
<1> HIDE DEF C, q, m
<1>5. (q + 1) * C = q * C + C /\ (m + 1) * C = m * C + C
  BY <1>1, <1>2, <1>3
<1>6. \A a, b \in Int : a + 1 <= b => (a + 1) * C <= b * C
  BY <1>1, SMTT(30)
<1>7. ~(q + 1 <= m) /\ ~(m + 1 <= q)
  <2>1. \A a \in Int : a * C \in Int
    BY <1>1
  <2>. QED  BY <1>1, <1>2, <1>3, <1>4, <1>5, <1>6, <2>1
<1>8. q = m
  BY <1>2, <1>3, <1>7
<1>9. m * C = k
  BY <1>2, <1>8
<1>. QED  BY <1>9 DEF m, C

\* Clusters that share a number are the same.
LEMMA SameCluster ==
  ASSUME NEW i \in Int, NEW k \in Int, k % SizeCluster = 0, Covers(k, i),
         NEW m \in Int, m % SizeCluster = 0, Covers(m, i)
  PROVE  k = m
BY OneCluster

\* The first and the last number of a run.
LEMMA RunEnds ==
  ASSUME NEW lo \in Int, NEW hi \in Int, lo <= hi, NEW f, DOMAIN f = lo .. hi
  PROVE  /\ (CHOOSE i \in DOMAIN f : \A k \in DOMAIN f : i <= k) = lo
         /\ (CHOOSE i \in DOMAIN f : \A k \in DOMAIN f : k <= i) = hi
<1>1. lo \in DOMAIN f /\ \A k \in DOMAIN f : lo <= k
  OBVIOUS
<1>2. hi \in DOMAIN f /\ \A k \in DOMAIN f : k <= hi
  OBVIOUS
<1>3. \A i \in DOMAIN f : (\A k \in DOMAIN f : i <= k) => i = lo
  BY <1>1
<1>4. \A i \in DOMAIN f : (\A k \in DOMAIN f : k <= i) => i = hi
  <2> SUFFICES ASSUME NEW i \in DOMAIN f, \A k \in DOMAIN f : k <= i PROVE i = hi
    OBVIOUS
  <2>1. hi <= i
    BY <1>2
  <2>. QED  BY <2>1
<1>. QED  BY <1>1, <1>2, <1>3, <1>4

-----------------------------------------------------------------------------
(* What the steps do to the pool and to the archives.                      *)

\* Numbers are numbers.
LEMMA NumbersAreInts ==
  /\ SizeCluster \in Nat \ {0} /\ MaxId \in Nat
  /\ \A i \in Numbers : i \in Int /\ 0 <= i /\ i <= MaxId
BY RecKeepAssumption DEF Numbers

\* What is known of a pool that is not empty.
LEMMA PoolRuns ==
  ASSUME DiskInv, ~PoolEmpty
  PROVE  /\ Begin \in Int /\ Last \in Int /\ 0 <= Begin /\ Begin <= Last /\ Last <= MaxId
         /\ DOMAIN pool = Begin .. Last
         /\ NextId = Last + 1
BY NumbersAreInts DEF DiskInv, PoolIsRun, NextId

\* The next number is not given yet, and it is a number.
LEMMA NextIsNew ==
  ASSUME DiskInv
  PROVE  /\ NextId \in Int /\ 0 <= NextId /\ NextId <= MaxId + 1
         /\ \A i \in DOMAIN pool : i \in Int /\ 0 <= i /\ i < NextId
<1>1. CASE PoolEmpty
  BY <1>1, NumbersAreInts DEF NextId, PoolEmpty
<1>2. CASE ~PoolEmpty
  BY <1>2, PoolRuns, NumbersAreInts
<1>. QED  BY <1>1, <1>2

\* Archives start at a multiple of the size and are over.
LEMMA ArchivesStart ==
  ASSUME Types, DiskInv, NEW k \in DOMAIN arch
  PROVE  /\ k \in Int /\ 0 <= k /\ k % SizeCluster = 0
         /\ ~PoolEmpty /\ k + SizeCluster <= Last /\ k < Last
         /\ Whole(k) \/ k .. k + SizeCluster - 1 \subseteq DOMAIN pool
<1>1. k \in Int /\ 0 <= k
  BY NumbersAreInts DEF Types, TypeOK
<1>2. ~PoolEmpty /\ k + SizeCluster <= Last
  BY DEF DiskInv, ArchiveIsPast
<1>3. k < Last
  BY <1>1, <1>2, PoolRuns, NumbersAreInts
<1>. QED  BY <1>1, <1>2, <1>3 DEF DiskInv, ArchivesWhole

\* The new record's file gets its name: its number is the pool's last.
LEMMA SaveAdds ==
  ASSUME Types, DiskInv, PlaceInv, Save
  PROVE  /\ DOMAIN pool' = DOMAIN pool \cup {NextId} /\ NextId \notin DOMAIN pool
         /\ pool'[NextId] = job
         /\ \A i \in DOMAIN pool : pool'[i] = pool[i]
         /\ ~PoolEmpty' /\ Last' = NextId /\ NextId' = NextId + 1
         /\ Begin' = IF PoolEmpty THEN 0 ELSE Begin
         /\ Begin' \in Numbers /\ Last' \in Numbers /\ Begin' <= Last'
         /\ DOMAIN pool' = Begin' .. Last'
         /\ arch' = arch
<1>1. pool' = With(pool, NextId, job) /\ arch' = arch /\ NextId <= MaxId
  BY DEF Save, PlaceInv, JobHasPlace
<1>2. NextId \in Int /\ 0 <= NextId /\ NextId \notin DOMAIN pool
  BY NextIsNew
<1>3. /\ DOMAIN pool' = DOMAIN pool \cup {NextId} /\ pool'[NextId] = job
      /\ \A i \in DOMAIN pool : pool'[i] = pool[i]
  <2> DEFINE p == With(pool, NextId, job)
  <2>1. /\ DOMAIN p = DOMAIN pool \cup {NextId} /\ p[NextId] = job
        /\ \A i \in DOMAIN pool : i # NextId => p[i] = pool[i]
    BY DEF With
  <2>2. pool' = p
    BY <1>1
  <2> HIDE DEF p
  <2>. QED  BY <1>2, <2>1, <2>2
<1> DEFINE lo == IF PoolEmpty THEN 0 ELSE Begin
<1>4. lo \in Int /\ 0 <= lo /\ lo <= NextId /\ DOMAIN pool' = lo .. NextId
  <2>1. CASE PoolEmpty
    BY <1>3, <2>1 DEF PoolEmpty, NextId
  <2>2. CASE ~PoolEmpty
    BY <1>3, <2>2, PoolRuns
  <2>. QED  BY <2>1, <2>2
<1>5. Begin' = lo /\ Last' = NextId
  <2> HIDE DEF lo
  <2>. QED  BY <1>2, <1>4, RunEnds DEF Begin, Last
<1>6. ~PoolEmpty' /\ NextId' = NextId + 1
  BY <1>3, <1>5 DEF PoolEmpty, NextId
<1>7. Begin' \in Numbers /\ Last' \in Numbers
  BY <1>1, <1>2, <1>4, <1>5, NumbersAreInts DEF Numbers
<1>. QED  BY <1>1, <1>2, <1>3, <1>4, <1>5, <1>6, <1>7

\* A removed file is the pool's first, and another one is left.
LEMMA RemoveTakesFirst ==
  ASSUME Types, DiskInv, PlaceInv, Remove \/ RemoveFails
  PROVE  /\ Begin < upto /\ upto <= Last
         /\ ~PoolEmpty /\ ~PoolEmpty'
         /\ DOMAIN pool' = Begin + 1 .. Last
         /\ \A i \in DOMAIN pool' : pool'[i] = pool[i]
         /\ Begin' = Begin + 1 /\ Last' = Last /\ NextId' = NextId
         /\ arch' = arch
<1>1. ~PoolEmpty /\ Begin < upto /\ pool' = Without(pool, Begin) /\ arch' = arch
  BY DEF Remove, RemoveFails, Removed
<1>2. pc \in Removing
  BY DEF Remove, RemoveFails, AfterRemoval, Removing
<1>3. upto \in Int /\ upto <= Last
  BY <1>2, NumbersAreInts DEF PlaceInv, PoolHasPlace, ClusterLeaves, Types, TypeOK
<1>4. DOMAIN pool' = DOMAIN pool \ {Begin} /\ \A i \in DOMAIN pool' : pool'[i] = pool[i]
  BY <1>1 DEF Without
<1>5. DOMAIN pool' = Begin + 1 .. Last /\ Begin + 1 <= Last /\ Begin \in Int /\ Last \in Int
  BY <1>1, <1>3, <1>4, PoolRuns
<1>6. Begin' = Begin + 1 /\ Last' = Last
  <2> DEFINE lo == Begin + 1
             hi == Last
  <2>1. DOMAIN pool' = lo .. hi /\ lo <= hi /\ lo \in Int /\ hi \in Int
    BY <1>5
  <2> HIDE DEF lo, hi
  <2>2. Begin' = lo /\ Last' = hi
    BY <2>1, RunEnds DEF Begin, Last
  <2>. QED  BY <2>2 DEF lo, hi
<1>7. ~PoolEmpty' /\ NextId' = NextId
  BY <1>1, <1>5, <1>6 DEF PoolEmpty, NextId
<1>. QED  BY <1>1, <1>3, <1>4, <1>5, <1>6, <1>7

\* What is known of the disk is not lost when it does not change.
LEMMA DiskKept ==
  ASSUME DiskInv, UNCHANGED <<pool, left, arch>>
  PROVE  DiskInv'
<1>1. Begin' = Begin /\ Last' = Last /\ PoolEmpty' = PoolEmpty BY DEF Begin, Last, PoolEmpty
<1>2. \A k : Whole(k)' = Whole(k) BY DEF Whole
<1>3. PoolIsRun' BY <1>1 DEF DiskInv, PoolIsRun
<1>4. ArchiveIsPast' BY <1>1 DEF DiskInv, ArchiveIsPast
<1>5. ArchivesWhole' BY <1>1, <1>2 DEF DiskInv, ArchivesWhole, Whole, Covers
<1>6. GoneIsArchived' BY <1>1, <1>2 DEF DiskInv, GoneIsArchived, Whole, Covers
<1>7. ArchiveAgrees' BY <1>2 DEF DiskInv, ArchiveAgrees, Whole, Covers
<1>8. LeftIsArchived' BY <1>1, <1>2 DEF DiskInv, LeftIsArchived, Whole, Covers
<1> QED BY <1>3, <1>4, <1>5, <1>6, <1>7, <1>8 DEF DiskInv

\* A record is added above all clusters that are archived.
LEMMA SaveKeepsDisk ==
  ASSUME Types, DiskInv, PlaceInv, Save
  PROVE  DiskInv'
<1>1. PoolIsRun'
  BY SaveAdds DEF PoolIsRun
<1>2. ArchiveIsPast'
  <2> SUFFICES ASSUME NEW k \in DOMAIN arch PROVE k + SizeCluster <= Last'
    BY SaveAdds DEF ArchiveIsPast
  <2>1. k + SizeCluster <= Last /\ ~PoolEmpty /\ k \in Int
    BY ArchivesStart
  <2>. QED  BY <2>1, SaveAdds, PoolRuns, NumbersAreInts
<1>3. ArchivesWhole'
  <2>1. DOMAIN pool \subseteq DOMAIN pool' /\ arch' = arch
    BY SaveAdds
  <2>. QED  BY <2>1 DEF DiskInv, ArchivesWhole, Whole
<1>4. GoneIsArchived'
  <2> SUFFICES ASSUME NEW i \in 0 .. Begin' - 1
               PROVE  \E k \in DOMAIN arch : Covers(k, i) /\ Whole(k)
    BY SaveAdds DEF GoneIsArchived, Whole, Covers
  <2>1. ~PoolEmpty /\ Begin' = Begin
    BY SaveAdds
  <2>. QED  BY <2>1 DEF DiskInv, GoneIsArchived
<1>5. ArchiveAgrees'
  <2> SUFFICES ASSUME NEW k \in DOMAIN arch, Whole(k), NEW i \in DOMAIN pool', Covers(k, i)
               PROVE  arch[k][i - k + 1].rec = pool'[i]
    BY SaveAdds DEF ArchiveAgrees, Whole, Covers
  <2>1. k \in Int /\ k + SizeCluster <= Last /\ ~PoolEmpty
    BY ArchivesStart
  <2>2. i # NextId
    BY <2>1, PoolRuns, NumbersAreInts DEF Covers
  <2>3. i \in DOMAIN pool /\ pool'[i] = pool[i]
    BY <2>2, SaveAdds
  <2>. QED  BY <2>3 DEF DiskInv, ArchiveAgrees
<1>6. LeftIsArchived'
  <2>1. left' = left /\ (~PoolEmpty => Begin' = Begin) /\ arch' = arch /\ ~PoolEmpty'
    BY SaveAdds DEF Save
  <2>. QED  BY <2>1 DEF DiskInv, LeftIsArchived, Whole, Covers
<1>. QED  BY <1>1, <1>2, <1>3, <1>4, <1>5, <1>6 DEF DiskInv

\* A file is removed when its record is in the whole archive of its cluster.
LEMMA RemoveKeepsDisk ==
  ASSUME Types, DiskInv, PlaceInv, Remove \/ RemoveFails
  PROVE  DiskInv'
<1> DEFINE m == upto - SizeCluster
<1>1. /\ m \in DOMAIN arch /\ Whole(m) /\ m <= Begin /\ upto \in Int
      /\ m \in Int /\ Covers(m, Begin) /\ m % SizeCluster = 0
  <2>1. pc \in Removing
    BY DEF Remove, RemoveFails, AfterRemoval, Removing
  <2>2. m \in DOMAIN arch /\ Whole(m) /\ m <= Begin
    BY <2>1 DEF PlaceInv, PoolHasPlace, ClusterLeaves
  <2>3. upto \in Int
    BY NumbersAreInts DEF Types, TypeOK
  <2>. QED  BY <2>2, <2>3, RemoveTakesFirst, PoolRuns, ArchivesStart, NumbersAreInts DEF Covers
<1>2. Begin \in Int /\ Last \in Int /\ 0 <= Begin /\ Last <= MaxId /\ DOMAIN pool = Begin .. Last
  BY RemoveTakesFirst, PoolRuns
<1> HIDE DEF m
<1>3. PoolIsRun'
  BY <1>1, <1>2, RemoveTakesFirst, NumbersAreInts DEF PoolIsRun, Numbers
<1>4. ArchiveIsPast'
  BY RemoveTakesFirst DEF DiskInv, ArchiveIsPast
<1>5. ArchivesWhole'
  <2> SUFFICES ASSUME NEW k \in DOMAIN arch, ~Whole(k)
               PROVE  k .. k + SizeCluster - 1 \subseteq DOMAIN pool'
    BY RemoveTakesFirst DEF DiskInv, ArchivesWhole, Whole
  <2>1. k \in Int /\ k % SizeCluster = 0 /\ k .. k + SizeCluster - 1 \subseteq DOMAIN pool
    BY ArchivesStart
  <2>2. ~Covers(k, Begin)
    BY <1>1, <1>2, <2>1, SameCluster
  <2>3. \A i \in k .. k + SizeCluster - 1 : i \in Begin .. Last /\ i # Begin
    BY <1>2, <2>1, <2>2, NumbersAreInts DEF Covers
  <2>4. \A i \in k .. k + SizeCluster - 1 : i \in Begin + 1 .. Last
    BY <1>2, <2>3
  <2>. QED  BY <2>4, RemoveTakesFirst
<1>6. GoneIsArchived'
  <2> SUFFICES ASSUME NEW i \in 0 .. Begin
               PROVE  \E k \in DOMAIN arch : Covers(k, i) /\ Whole(k)
    BY <1>2, RemoveTakesFirst DEF GoneIsArchived, Whole, Covers
  <2>1. CASE i = Begin
    BY <1>1, <2>1
  <2>2. CASE i # Begin
    BY <1>2, <2>2, RemoveTakesFirst DEF DiskInv, GoneIsArchived
  <2>. QED  BY <2>1, <2>2
<1>7. ArchiveAgrees'
  BY <1>2, RemoveTakesFirst DEF DiskInv, ArchiveAgrees, Whole, Covers
<1>8. LeftIsArchived'
  <2> SUFFICES ASSUME NEW i \in DOMAIN left'
               PROVE  /\ i < Begin + 1
                      /\ \A k \in DOMAIN arch : (Whole(k) /\ Covers(k, i)) => arch[k][i - k + 1].rec = left'[i]
    BY RemoveTakesFirst DEF LeftIsArchived, Whole, Covers
  <2>1. \/ i = Begin /\ left'[i] = pool[i]
        \/ i \in DOMAIN left /\ left'[i] = left[i]
    <3>1. CASE Remove
      BY <3>1 DEF Remove
    <3>2. CASE RemoveFails
      BY <3>2 DEF RemoveFails, With
    <3>. QED  BY <3>1, <3>2
  <2>2. CASE i = Begin /\ left'[i] = pool[i]
    <3>0. Begin <= Last
      BY RemoveTakesFirst, PoolRuns
    <3>1. i < Begin + 1 /\ i \in DOMAIN pool
      BY <1>2, <2>2, <3>0
    <3>. QED  BY <2>2, <3>1 DEF DiskInv, ArchiveAgrees
  <2>3. CASE i \in DOMAIN left /\ left'[i] = left[i]
    <3>1. i \in Int
      BY <2>3, NumbersAreInts DEF Types, TypeOK
    <3>. QED  BY <1>2, <2>3, <3>1 DEF DiskInv, LeftIsArchived
  <2>. QED  BY <2>1, <2>2, <2>3
<1>. QED  BY <1>3, <1>4, <1>5, <1>6, <1>7, <1>8 DEF DiskInv

\* The archive of the pool's first cluster gets new contents, when the whole cluster is
\* still in the pool: none, or just those records.
LEMMA RewriteKeepsDisk ==
  ASSUME Types, DiskInv, ~PoolEmpty, Begin % SizeCluster = 0, Begin + SizeCluster <= Last,
         pool' = pool, left' = left, NEW s, arch' = With(arch, Begin, s),
         \A n \in 1 .. SizeCluster :
           Len(s) = SizeCluster => s[n].rec = pool[Begin + n - 1]
  PROVE  DiskInv'
<1>1. /\ Begin \in Int /\ Last \in Int /\ 0 <= Begin /\ Last <= MaxId
      /\ DOMAIN pool = Begin .. Last
  BY PoolRuns
<1>2. Begin' = Begin /\ Last' = Last /\ PoolEmpty' = PoolEmpty
  BY DEF Begin, Last, PoolEmpty
<1> DEFINE b == Begin
<1>3. /\ DOMAIN arch' = DOMAIN arch \cup {b} /\ arch'[b] = s
      /\ \A k \in DOMAIN arch : k # b => arch'[k] = arch[k] /\ Whole(k)' = Whole(k)
  <2> HIDE DEF b
  <2>1. arch' = With(arch, b, s)
    BY DEF b
  <2>2. /\ DOMAIN arch' = DOMAIN arch \cup {b} /\ arch'[b] = s
        /\ \A k \in DOMAIN arch : k # b => arch'[k] = arch[k]
    BY <2>1 DEF With
  <2>3. ASSUME NEW k \in DOMAIN arch, k # b PROVE Whole(k)' = Whole(k)
    BY <2>2, <2>3 DEF Whole
  <2>. QED  BY <2>2, <2>3
<1> HIDE DEF b
<1>4. b = Begin
  BY DEF b
<1>5. PoolIsRun'
  BY <1>2 DEF DiskInv, PoolIsRun
<1>6. ArchiveIsPast'
  BY <1>2, <1>3, <1>4 DEF DiskInv, ArchiveIsPast
<1>7. ArchivesWhole'
  <2>1. b .. b + SizeCluster - 1 \subseteq DOMAIN pool
    BY <1>1, <1>4, NumbersAreInts
  <2>. QED  BY <1>3, <1>4, <2>1 DEF DiskInv, ArchivesWhole
<1>8. GoneIsArchived'
  <2> SUFFICES ASSUME NEW i \in 0 .. b - 1
               PROVE  \E k \in DOMAIN arch' : Covers(k, i) /\ Whole(k)'
    BY <1>2, <1>4 DEF GoneIsArchived, Covers
  <2>1. PICK k \in DOMAIN arch : Covers(k, i) /\ Whole(k)
    BY <1>4 DEF DiskInv, GoneIsArchived
  <2>2. k # b
    BY <1>1, <1>4, <2>1 DEF Covers
  <2>. QED  BY <1>3, <2>1, <2>2
<1>9. ArchiveAgrees'
  <2> SUFFICES ASSUME NEW k \in DOMAIN arch', Whole(k)', NEW i \in DOMAIN pool, Covers(k, i)
               PROVE  arch'[k][i - k + 1].rec = pool[i]
    BY DEF ArchiveAgrees, Covers
  <2>1. CASE k # b
    BY <1>3, <2>1 DEF DiskInv, ArchiveAgrees
  <2>2. CASE k = b
    <3>1. Len(s) = SizeCluster
      BY <1>3, <2>2 DEF Whole
    <3>2. i \in Int /\ i - b + 1 \in 1 .. SizeCluster /\ b + (i - b + 1) - 1 = i
      BY <1>1, <1>4, <2>2, NumbersAreInts DEF Covers
    <3>3. s[i - b + 1].rec = pool[b + (i - b + 1) - 1]
      BY <1>4, <3>1, <3>2
    <3>. QED  BY <1>3, <2>2, <3>2, <3>3
  <2>. QED  BY <2>1, <2>2
<1>10. LeftIsArchived'
  <2> SUFFICES ASSUME NEW i \in DOMAIN left
               PROVE  /\ i < b
                      /\ \A k \in DOMAIN arch' : (Whole(k)' /\ Covers(k, i)) => arch'[k][i - k + 1].rec = left[i]
    BY <1>2, <1>4 DEF LeftIsArchived, Covers
  <2>1. i \in Int /\ i < b
    BY <1>4, NumbersAreInts DEF Types, TypeOK, DiskInv, LeftIsArchived
  <2>2. ~Covers(b, i)
    BY <1>1, <1>4, <2>1 DEF Covers
  <2>. QED  BY <1>3, <2>1, <2>2 DEF DiskInv, LeftIsArchived
<1>. QED  BY <1>5, <1>6, <1>7, <1>8, <1>9, <1>10 DEF DiskInv

\* A pool without a hole is a run with the files that a removal left behind.
LEMMA FilesAreRun ==
  ASSUME Types, DiskInv, ~PoolEmpty, PoolContiguous
  PROVE  \E lo \in Int :
           /\ 0 <= lo /\ lo <= Begin /\ DOMAIN Files = lo .. Last
           /\ \A i \in DOMAIN pool : Files[i] = pool[i]
           /\ \A i \in lo .. Begin - 1 : i \in DOMAIN left /\ Files[i] = left[i]
<1>1. Begin \in Int /\ Last \in Int /\ 0 <= Begin /\ Begin <= Last /\ DOMAIN pool = Begin .. Last
  BY PoolRuns
<1>2. \A i \in DOMAIN left : i \in Int /\ 0 <= i /\ i < Begin
  BY NumbersAreInts DEF Types, TypeOK, DiskInv, LeftIsArchived
<1> DEFINE F == DOMAIN Files
<1>3. F = DOMAIN pool \cup DOMAIN left
  BY DEF Files
<1>4. /\ \A i \in DOMAIN pool : Files[i] = pool[i]
      /\ \A i \in F : i \notin DOMAIN pool => Files[i] = left[i]
  BY DEF Files
<1>5. \A i, k \in F : i .. k \subseteq F
  BY DEF PoolContiguous
<1> HIDE DEF F
<1>6. F \in SUBSET Nat /\ F # {} /\ Begin \in F /\ Last \in F /\ \A i \in F : i <= Last
  BY <1>1, <1>2, <1>3
<1>7. PICK lo \in F : \A i \in F : lo <= i
  BY <1>6, LeastMember
<1>8. lo \in Int /\ 0 <= lo /\ lo <= Begin /\ F = lo .. Last
  <2>1. lo \in Int /\ 0 <= lo /\ lo <= Begin
    BY <1>6, <1>7
  <2>2. lo .. Last \subseteq F
    BY <1>5, <1>6
  <2>3. \A i \in F : i \in Int /\ lo <= i /\ i <= Last
    BY <1>6, <1>7
  <2> DEFINE hi == Last
  <2>4. hi \in Int /\ lo .. hi \subseteq F /\ \A i \in F : i \in Int /\ lo <= i /\ i <= hi
    BY <1>1, <2>2, <2>3
  <2> HIDE DEF hi
  <2>5. F \subseteq lo .. hi
    BY <2>1, <2>4
  <2>6. F = lo .. hi
    BY <2>4, <2>5
  <2>. QED  BY <2>1, <2>6 DEF hi
<1>9. \A i \in lo .. Begin - 1 : i \in DOMAIN left /\ Files[i] = left[i]
  BY <1>1, <1>3, <1>4, <1>8
<1>. QED  BY <1>4, <1>8, <1>9 DEF F

\* start() takes such files back into the pool, or refuses it.
LEMMA StartCheckTakes ==
  ASSUME Types, DiskInv, StartCheck
  PROVE  /\ arch' = arch
         /\ \/ pool' = pool /\ left' = left
            \/ PoolEmpty /\ PoolEmpty' /\ DOMAIN left' = {}
            \/ /\ ~PoolEmpty /\ ~PoolEmpty' /\ DOMAIN left' = {}
               /\ Begin' \in Int /\ 0 <= Begin' /\ Begin' <= Begin /\ Last' = Last
               /\ DOMAIN pool' = Begin' .. Last
               /\ \A i \in DOMAIN pool : i \in DOMAIN pool' /\ pool'[i] = pool[i]
               /\ \A i \in Begin' .. Begin - 1 : i \in DOMAIN left /\ pool'[i] = left[i]
<1>1. arch' = arch
  BY DEF StartCheck
<1>2. CASE ~PoolContiguous
  BY <1>1, <1>2 DEF StartCheck
<1>3. CASE PoolContiguous /\ PoolEmpty
  <2>1. DOMAIN left = {} /\ DOMAIN pool = {}
    BY <1>3 DEF DiskInv, LeftIsArchived, PoolEmpty
  <2>2. DOMAIN Files = {}
    BY <2>1 DEF Files
  <2>3. pool' = Files /\ left' = <<>>
    BY <1>3 DEF StartCheck
  <2>. QED  BY <1>1, <1>3, <2>2, <2>3 DEF PoolEmpty
<1>4. CASE PoolContiguous /\ ~PoolEmpty
  <2>1. Begin \in Int /\ Last \in Int /\ Begin <= Last /\ DOMAIN pool = Begin .. Last
    BY <1>4, PoolRuns
  <2>2. PICK lo \in Int :
           /\ 0 <= lo /\ lo <= Begin /\ DOMAIN Files = lo .. Last
           /\ \A i \in DOMAIN pool : Files[i] = pool[i]
           /\ \A i \in lo .. Begin - 1 : i \in DOMAIN left /\ Files[i] = left[i]
    BY <1>4, FilesAreRun
  <2>3. pool' = Files /\ left' = <<>>
    BY <1>4 DEF StartCheck
  <2> DEFINE hi == Last
  <2>4. lo <= hi /\ hi \in Int /\ DOMAIN pool' = lo .. hi
    BY <2>1, <2>2, <2>3
  <2> HIDE DEF hi
  <2>5. Begin' = lo /\ Last' = hi /\ ~PoolEmpty'
    BY <2>4, RunEnds DEF Begin, Last, PoolEmpty
  <2>6. \A i \in DOMAIN pool : i \in DOMAIN pool' /\ pool'[i] = pool[i]
    BY <2>1, <2>2, <2>3
  <2>. QED  BY <1>1, <1>4, <2>2, <2>3, <2>4, <2>5, <2>6 DEF hi
<1>. QED  BY <1>2, <1>3, <1>4

\* The archives hold what comes back.
LEMMA StartCheckKeepsDisk ==
  ASSUME Types, DiskInv, StartCheck
  PROVE  DiskInv'
<1>1. CASE pool' = pool /\ left' = left
  BY <1>1, StartCheckTakes, DiskKept
<1>2. CASE PoolEmpty /\ PoolEmpty' /\ DOMAIN left' = {}
  <2>1. DOMAIN arch = {} /\ arch' = arch
    BY <1>2, StartCheckTakes DEF DiskInv, ArchiveIsPast
  <2>. QED  BY <1>2, <2>1
            DEF DiskInv, PoolIsRun, ArchiveIsPast, ArchivesWhole, GoneIsArchived, ArchiveAgrees,
                LeftIsArchived
<1>3. CASE /\ ~PoolEmpty /\ ~PoolEmpty' /\ DOMAIN left' = {}
           /\ Begin' \in Int /\ 0 <= Begin' /\ Begin' <= Begin /\ Last' = Last
           /\ DOMAIN pool' = Begin' .. Last
           /\ \A i \in DOMAIN pool : i \in DOMAIN pool' /\ pool'[i] = pool[i]
           /\ \A i \in Begin' .. Begin - 1 : i \in DOMAIN left /\ pool'[i] = left[i]
  <2>1. /\ Begin \in Int /\ Last \in Int /\ 0 <= Begin /\ Begin <= Last /\ Last <= MaxId
        /\ DOMAIN pool = Begin .. Last /\ arch' = arch
    BY <1>3, PoolRuns, StartCheckTakes
  <2>2. PoolIsRun'
    BY <1>3, <2>1, NumbersAreInts DEF PoolIsRun, Numbers
  <2>3. ArchiveIsPast'
    BY <1>3, <2>1 DEF DiskInv, ArchiveIsPast
  <2>4. ArchivesWhole'
    <3>1. DOMAIN pool \subseteq DOMAIN pool'
      BY <1>3
    <3>. QED  BY <2>1, <3>1 DEF DiskInv, ArchivesWhole, Whole
  <2>5. GoneIsArchived'
    <3> SUFFICES ASSUME NEW i \in 0 .. Begin' - 1
                 PROVE  \E k \in DOMAIN arch : Covers(k, i) /\ Whole(k)
      BY <2>1 DEF GoneIsArchived, Whole, Covers
    <3>1. \A lo, hi \in Int : lo <= hi => 0 .. lo - 1 \subseteq 0 .. hi - 1
      OBVIOUS
    <3>2. i \in 0 .. Begin - 1
      BY <1>3, <2>1, <3>1
    <3>. QED  BY <1>3, <3>2 DEF DiskInv, GoneIsArchived
  <2>6. ArchiveAgrees'
    <3> SUFFICES ASSUME NEW k \in DOMAIN arch, Whole(k), NEW i \in DOMAIN pool', Covers(k, i)
                 PROVE  arch[k][i - k + 1].rec = pool'[i]
      BY <2>1 DEF ArchiveAgrees, Whole, Covers
    <3>1. CASE i \in DOMAIN pool
      BY <1>3, <3>1 DEF DiskInv, ArchiveAgrees
    <3>2. CASE i \notin DOMAIN pool
      <4>1. i \in Begin' .. Begin - 1
        BY <1>3, <2>1, <3>2
      <4>. QED  BY <1>3, <4>1 DEF DiskInv, LeftIsArchived
    <3>. QED  BY <3>1, <3>2
  <2>7. LeftIsArchived'
    BY <1>3 DEF LeftIsArchived
  <2>. QED  BY <2>2, <2>3, <2>4, <2>5, <2>6, <2>7 DEF DiskInv
<1>. QED  BY <1>1, <1>2, <1>3, StartCheckTakes

\* The body of an archive of pool records: as many as there are numbers, in order.
LEMMA EncodedTells ==
  ASSUME NEW first \in Int, NEW last \in Int, first <= last + 1
  PROVE  LET s == Encoded(first, last)
         IN /\ DOMAIN s = 1 .. last - first + 1 /\ Len(s) = last - first + 1
            /\ s = [n \in 1 .. Len(s) |-> s[n]]
            /\ \A n \in 1 .. last - first + 1 :
                 /\ s[n] = Entry(first + n - 1, pool[first + n - 1], n > 1)
                 /\ s[n].id = first + n - 1 /\ s[n].rec = pool[first + n - 1]
                 /\ s[n].sep = (n > 1)
<1> DEFINE s == Encoded(first, last)
           len == last - first + 1
<1>1. len \in Nat /\ s = [n \in 1 .. len |-> Entry(first + n - 1, pool[first + n - 1], n > 1)]
  BY DEF Encoded
<1> HIDE DEF s, len
<1>2. DOMAIN s = 1 .. len /\ \A n \in 1 .. len : s[n] = Entry(first + n - 1, pool[first + n - 1], n > 1)
  BY <1>1
<1>3. Len(s) = len
  BY <1>1
<1>4. s = [n \in 1 .. Len(s) |-> s[n]]
  BY <1>1, <1>3
<1>. QED  BY <1>2, <1>3, <1>4 DEF Entry, s, len

\* The body of a cluster's archive.
LEMMA EncodedCluster ==
  ASSUME NEW first \in Int, NEW last \in Int, last = first + SizeCluster - 1
  PROVE  LET s == Encoded(first, last)
         IN /\ Len(s) = SizeCluster
            /\ \A n \in 1 .. SizeCluster :
                 s[n].id = first + n - 1 /\ s[n].sep = (n > 1) /\ s[n].rec = pool[first + n - 1]
<1>1. first <= last + 1 /\ last - first + 1 = SizeCluster
  BY NumbersAreInts
<1>. QED  BY <1>1, EncodedTells

\* Pool records are the entries of an archive.
LEMMA EncodedType ==
  ASSUME Types, NEW first \in Int, NEW last \in Int, first <= last + 1,
         first .. last \subseteq DOMAIN pool
  PROVE  Encoded(first, last) \in Seq(Entries)
<1> DEFINE s == Encoded(first, last)
<1>1. /\ Len(s) \in Nat /\ s = [n \in 1 .. Len(s) |-> s[n]]
      /\ \A n \in 1 .. Len(s) : s[n] = Entry(first + n - 1, pool[first + n - 1], n > 1)
      /\ Len(s) = last - first + 1
  <2> DEFINE len == last - first + 1
  <2>1. len \in Nat
    OBVIOUS
  <2> HIDE DEF len
  <2>2. /\ Len(s) = len /\ s = [n \in 1 .. Len(s) |-> s[n]]
        /\ \A n \in 1 .. len : s[n] = Entry(first + n - 1, pool[first + n - 1], n > 1)
    <3> HIDE DEF s
    <3>. QED  BY EncodedTells, Zenon DEF s, len
  <2> HIDE DEF s
  <2>. QED  BY <2>1, <2>2, Zenon DEF len
<1> HIDE DEF s
<1>2. \A n \in 1 .. Len(s) : s[n] \in Entries
  <2> SUFFICES ASSUME NEW n \in 1 .. Len(s) PROVE s[n] \in Entries
    OBVIOUS
  <2>1. first + n - 1 \in first .. last
    BY <1>1
  <2>2. first + n - 1 \in Numbers /\ pool[first + n - 1] \in Records
    BY <2>1 DEF Types, TypeOK
  <2>3. \A i \in Numbers, r \in Records, sep \in BOOLEAN : Entry(i, r, sep) \in Entries
    BY DEF Entry, Entries, Numbers
  <2>4. (n > 1) \in BOOLEAN
    OBVIOUS
  <2>5. s[n] = Entry(first + n - 1, pool[first + n - 1], n > 1)
    BY <1>1
  <2>. QED  BY <2>2, <2>3, <2>4, <2>5, Zenon
<1>3. s \in Seq(Entries)
  BY <1>1, <1>2
<1>. QED  BY <1>3 DEF s

-----------------------------------------------------------------------------
(* The disk, at every step.                                                *)

\* Whatever the step, what start() relies on holds after it.
LEMMA DiskStep ==
  ASSUME Types, DiskInv, PlaceInv, [Next]_vars
  PROVE  DiskInv'
<1>1. CASE UNCHANGED <<pool, left, arch>>
  BY <1>1, DiskKept
<1>2. CASE StartCluster
  <2>1. ~PoolEmpty /\ Begin % SizeCluster = 0 /\ Begin + SizeCluster <= Last
    BY <1>2 DEF StartCluster, PlaceInv, PoolHasPlace, PoolAtStart, AtClusters, ClusterDone
  <2>2. pool' = pool /\ left' = left /\ arch' = With(arch, Begin, <<>>)
    BY <1>2 DEF StartCluster
  <2>3. Len(<<>>) # SizeCluster
    BY NumbersAreInts
  <2>. QED  BY <2>1, <2>2, <2>3, RewriteKeepsDisk
<1>3. CASE StartEncode
  <2>1. ~PoolEmpty /\ Begin % SizeCluster = 0 /\ upto = Begin + SizeCluster /\ upto <= Last
    BY <1>3 DEF StartEncode, PlaceInv, PoolHasPlace, PoolAtStart, AtClusters
  <2> DEFINE s == Encoded(Begin, upto - 1)
  <2>2. pool' = pool /\ left' = left /\ arch' = With(arch, Begin, s)
    BY <1>3 DEF StartEncode
  <2>3. Begin \in Int /\ upto - 1 \in Int /\ upto - 1 = Begin + SizeCluster - 1
    BY <2>1, PoolRuns, NumbersAreInts
  <2>4. \A n \in 1 .. SizeCluster : s[n].rec = pool[Begin + n - 1]
    BY <2>3, EncodedCluster
  <2> HIDE DEF s
  <2>. QED  BY <2>1, <2>2, <2>4, RewriteKeepsDisk
<1>4. CASE Archive
  <2>1. /\ ~PoolEmpty /\ Begin % SizeCluster = 0 /\ Begin + SizeCluster <= Last
        /\ stream = Encoded(Begin, Last - 1) /\ Last <= Begin + SizeCluster
    BY <1>4 DEF Archive, PlaceInv, PoolHasPlace, PoolAtStart, StreamIsPool, AfterSave, ClusterDone
  <2>2. pool' = pool /\ left' = left /\ arch' = With(arch, Begin, stream)
    BY <1>4 DEF Archive
  <2>3. Begin \in Int /\ Last - 1 \in Int /\ Last - 1 = Begin + SizeCluster - 1
    BY <2>1, PoolRuns, NumbersAreInts
  <2>4. \A n \in 1 .. SizeCluster : stream[n].rec = pool[Begin + n - 1]
    BY <2>1, <2>3, EncodedCluster
  <2>. QED  BY <2>1, <2>2, <2>4, RewriteKeepsDisk
<1>5. CASE Save
  BY <1>5, SaveKeepsDisk
<1>6. CASE Remove \/ RemoveFails
  BY <1>6, RemoveKeepsDisk
<1>7. CASE StartCheck
  BY <1>7, StartCheckKeepsDisk
<1>. QED
  BY <1>1, <1>2, <1>3, <1>4, <1>5, <1>6, <1>7
     DEF Next, StartStep, TransactStep, vars, disk, Start, StartRepair, StartTail, StartAppend,
         StartAppendSpins, Pop, Reject, Duplicate, Admit, UpdateEma, NoArchive, Reopen,
         AppendRec, RemoveEnds, Add, End, Stop, Crash, Gone

-----------------------------------------------------------------------------
(* Where the pool stands, at every step.                                   *)

\* Numbers are those of the pool.
LEMMA PoolKept ==
  ASSUME pool' = pool
  PROVE  /\ Begin' = Begin /\ Last' = Last /\ PoolEmpty' = PoolEmpty /\ NextId' = NextId
         /\ Encoded(Begin, Last)' = Encoded(Begin, Last)
         /\ Encoded(Begin, Last - 1)' = Encoded(Begin, Last - 1)
<1>1. Begin' = Begin /\ Last' = Last /\ PoolEmpty' = PoolEmpty
  BY DEF Begin, Last, PoolEmpty
<1>. QED  BY <1>1 DEF NextId, Encoded

\* The first file of the pool is amid a cluster: the cluster is archived, and the record
\* after it is in the pool.
LEMMA BrokenCluster ==
  ASSUME Types, DiskInv, ~PoolEmpty, Begin % SizeCluster # 0
  PROVE  LET upto_ == ClusterEnd(Begin)
         IN /\ upto_ - SizeCluster \in DOMAIN arch /\ Whole(upto_ - SizeCluster)
            /\ upto_ - SizeCluster <= Begin /\ Begin <= upto_ /\ upto_ <= Last
<1> DEFINE i == Begin - 1
           b == (Begin \div SizeCluster) * SizeCluster
<1>1. Begin \in Int /\ Last \in Int /\ 0 <= Begin
  BY PoolRuns
<1>2. b \in Int /\ b % SizeCluster = 0 /\ Covers(b, Begin) /\ ClusterEnd(Begin) = b + SizeCluster
  BY <1>1, ClusterStart
<1> HIDE DEF b
<1>3. Begin # 0
  BY NumbersAreInts
<1>4. PICK k \in DOMAIN arch : Covers(k, i) /\ Whole(k)
  BY <1>1, <1>3 DEF DiskInv, GoneIsArchived
<1>5. k \in Int /\ k % SizeCluster = 0 /\ k + SizeCluster <= Last
  BY ArchivesStart
<1>6. (k + SizeCluster) % SizeCluster = 0
  <2>1. (k \div SizeCluster) * SizeCluster = k
    BY <1>5, OneCluster, NumbersAreInts DEF Covers
  <2>. QED  BY <1>5, <2>1, ClusterStart
<1>7. Covers(k, Begin)
  <2>1. k + SizeCluster # Begin
    BY <1>6
  <2>. QED  BY <1>1, <1>4, <1>5, <2>1, NumbersAreInts DEF Covers
<1>8. k = b
  BY <1>1, <1>2, <1>5, <1>7, SameCluster
<1>. QED  BY <1>1, <1>2, <1>4, <1>5, <1>8, NumbersAreInts DEF Covers

\* The end of a cluster is the start of the next.
LEMMA NextCluster ==
  ASSUME NEW k \in Int, k % SizeCluster = 0
  PROVE  (k + SizeCluster) % SizeCluster = 0
<1>1. (k \div SizeCluster) * SizeCluster = k
  BY OneCluster, NumbersAreInts DEF Covers
<1>. QED  BY <1>1, ClusterStart

\* start() before it writes anything: a pool without a hole is a pool, with or without
\* files of a cluster that was archived.
LEMMA StartRepairPlace ==
  ASSUME Types, DiskInv, PlaceInv, StartRepair
  PROVE  PlaceInv'
<1>1. /\ pc = "checked" /\ pool' = pool /\ arch' = arch /\ stream' = stream /\ bFirst' = bFirst
  BY DEF StartRepair, disk, encoder
<1>2. CASE PoolEmpty
  <2>1. pc' = "idle" /\ upto' = upto
    BY <1>2 DEF StartRepair, Goto
  <2>. QED  BY <1>1, <1>2, <2>1, PoolKept
            DEF PlaceInv, PoolAtStart, PoolHasPlace, JobHasPlace, StreamIsPool, Removing,
                AtClusters, BeforeSave, AfterSave
<1>3. CASE ~PoolEmpty
  <2>1. CASE HasReminders
    <3>1. pc' = "reminders" /\ upto' = ClusterEnd(Begin)
      BY <1>3, <2>1 DEF StartRepair, Goto
    <3> DEFINE u == ClusterEnd(Begin)
    <3>2. /\ u - SizeCluster \in DOMAIN arch /\ Whole(u - SizeCluster)
          /\ u - SizeCluster <= Begin /\ Begin <= u /\ u <= Last
      BY <1>3, <2>1, BrokenCluster DEF HasReminders
    <3> HIDE DEF u
    <3>3. ClusterLeaves'
      <4>1. upto' = u /\ Begin' = Begin /\ Last' = Last
        BY <1>1, <3>1, PoolKept DEF u
      <4>. QED  BY <1>1, <3>2, <4>1 DEF Whole, ClusterLeaves
    <3>. QED  BY <1>1, <1>3, <3>1, <3>3, PoolKept
              DEF PlaceInv, PoolAtStart, PoolHasPlace, JobHasPlace,
                  StreamIsPool, Removing, AtClusters, BeforeSave, AfterSave
  <2>2. CASE ~HasReminders
    <3>1. pc' = "clusters" /\ upto' = upto
      BY <1>3, <2>2 DEF StartRepair, Goto
    <3>2. Begin % SizeCluster = 0
      BY <1>3, <2>2, BrokenCluster DEF HasReminders
    <3>. QED  BY <1>1, <1>3, <3>1, <3>2, PoolKept
              DEF PlaceInv, PoolAtStart, PoolHasPlace, JobHasPlace,
                  StreamIsPool, Removing, AtClusters, BeforeSave, AfterSave
  <2>. QED  BY <2>1, <2>2
<1>. QED  BY <1>2, <1>3

\* start()'s other steps: the archive of a whole cluster of the pool, then the tail of
\* the pool into the archive under way.
LEMMA StartPlace ==
  ASSUME Types, DiskInv, PlaceInv,
         \/ Start \/ StartCheck \/ StartCluster \/ StartEncode
         \/ StartTail \/ StartAppend \/ StartAppendSpins
  PROVE  PlaceInv'
<1> USE DEF Removing, AtClusters, BeforeSave, AfterSave
<1>0. (Start \/ StartCluster \/ StartEncode \/ StartTail \/ StartAppend) => pool' = pool
  BY DEF Start, StartCluster, StartEncode, StartTail, StartAppend, disk
<1>1. CASE Start
  BY <1>1 DEF Start, Goto, PlaceInv, PoolAtStart, PoolHasPlace, JobHasPlace, StreamIsPool
<1>2. CASE StartCluster
  <2>1. ~PoolEmpty /\ Begin % SizeCluster = 0 /\ Begin + SizeCluster <= Last
    BY <1>2 DEF StartCluster, PlaceInv, PoolHasPlace, PoolAtStart, ClusterDone
  <2>2. pc' = "encode" /\ upto' = Begin + SizeCluster
    BY <1>2 DEF StartCluster, Goto
  <2>. QED  BY <1>0, <1>2, <2>1, <2>2, PoolKept
            DEF PlaceInv, PoolAtStart, PoolHasPlace, JobHasPlace, StreamIsPool
<1>3. CASE StartEncode
  <2>1. ~PoolEmpty /\ Begin % SizeCluster = 0 /\ upto = Begin + SizeCluster /\ upto <= Last
    BY <1>3 DEF StartEncode, PlaceInv, PoolHasPlace, PoolAtStart
  <2> DEFINE s == Encoded(Begin, upto - 1)
             b == Begin
  <2>2. pc' = "archived" /\ upto' = upto /\ arch' = With(arch, b, s)
    BY <1>3 DEF StartEncode, Goto
  <2>3. /\ b \in Int /\ upto - SizeCluster = b /\ b <= upto
        /\ upto - 1 \in Int /\ upto - 1 = b + SizeCluster - 1
    BY <2>1, PoolRuns, NumbersAreInts
  <2>4. /\ Len(s) = SizeCluster
        /\ \A n \in 1 .. SizeCluster : s[n].id = b + n - 1 /\ s[n].sep = (n > 1)
    BY <2>3, EncodedCluster
  <2>5. Begin' = b /\ Last' = Last /\ PoolEmpty' = PoolEmpty
    BY <1>0, <1>3, PoolKept
  <2> HIDE DEF s, b
  <2>6. ClusterLeaves'
    BY <2>1, <2>2, <2>3, <2>4, <2>5 DEF ClusterLeaves, Whole, With
  <2>. QED  BY <2>1, <2>2, <2>5, <2>6
            DEF PlaceInv, PoolAtStart, PoolHasPlace, JobHasPlace, StreamIsPool
<1>4. CASE StartTail
  <2>1. ~PoolEmpty /\ Begin % SizeCluster = 0 /\ ~(Begin + SizeCluster <= Last) /\ pc' = "tail"
    BY <1>4 DEF StartTail, Goto, PlaceInv, PoolHasPlace, PoolAtStart, ClusterDone
  <2>2. Last < Begin + SizeCluster
    BY <2>1, PoolRuns, NumbersAreInts
  <2>. QED  BY <1>0, <1>4, <2>1, <2>2, PoolKept
            DEF PlaceInv, PoolAtStart, PoolHasPlace, JobHasPlace, StreamIsPool
<1>5. CASE StartAppend
  <2>1. /\ ~PoolEmpty /\ Begin % SizeCluster = 0 /\ Last < Begin + SizeCluster
        /\ pc' = "idle" /\ stream' = Encoded(Begin, Last) /\ bFirst' = FALSE
    BY <1>5 DEF StartAppend, Goto, PlaceInv, PoolHasPlace, PoolAtStart
  <2>2. stream' # <<>>
    <3>1. Len(stream') > 0
      BY <2>1, PoolRuns, EncodedTells
    <3>. QED  BY <3>1
  <2>. QED  BY <1>0, <1>5, <2>1, <2>2, PoolKept
            DEF PlaceInv, PoolAtStart, PoolHasPlace, JobHasPlace, StreamIsPool
<1>6. CASE StartAppendSpins
  BY <1>6 DEF StartAppendSpins, Goto, PlaceInv, PoolAtStart, PoolHasPlace, JobHasPlace, StreamIsPool
<1>7. CASE StartCheck
  <2>1. pc = "loaded" /\ pc' \in {"checked", "refused"} /\ stream' = stream /\ bFirst' = bFirst
    BY <1>7 DEF StartCheck, Goto, encoder
  <2>. QED  BY <2>1 DEF PlaceInv, PoolAtStart, PoolHasPlace, JobHasPlace, StreamIsPool
<1>. QED  BY <1>1, <1>2, <1>3, <1>4, <1>5, <1>6, <1>7

\* A removal loop: it ends at the end of the cluster.
LEMMA RemovalPlace ==
  ASSUME Types, DiskInv, PlaceInv, Remove \/ RemoveFails \/ RemoveEnds
  PROVE  PlaceInv'
<1> USE DEF Removing, AtClusters, BeforeSave, AfterSave
<1>0. pc \in Removing /\ arch' = arch /\ upto' = upto /\ job' = job
  BY DEF Remove, RemoveFails, RemoveEnds, AfterRemoval, disk, queue
<1>1. ~PoolEmpty /\ ClusterLeaves
  BY <1>0 DEF PlaceInv, PoolHasPlace
<1>2. Begin \in Int /\ Last \in Int /\ upto \in Int /\ Begin <= Last
  BY <1>1, PoolRuns, NumbersAreInts DEF Types, TypeOK
<1>3. CASE Remove \/ RemoveFails
  <2>1. pc' = pc
    BY <1>3 DEF Remove, RemoveFails
  <2>2. ClusterLeaves'
    BY <1>0, <1>1, <1>2, <1>3, RemoveTakesFirst, NumbersAreInts DEF ClusterLeaves, Whole
  <2>3. Last \in DOMAIN pool'
    BY <1>2, <1>3, RemoveTakesFirst
  <2>. QED  BY <1>0, <1>3, <2>1, <2>2, <2>3, RemoveTakesFirst
            DEF PlaceInv, PoolAtStart, PoolHasPlace, JobHasPlace, StreamIsPool
<1>4. CASE RemoveEnds
  <2>1. pool' = pool /\ upto <= Begin
    BY <1>1, <1>4 DEF RemoveEnds, disk
  <2>2. Begin = upto
    BY <1>1, <1>2, <2>1 DEF ClusterLeaves
  <2>3. Begin % SizeCluster = 0
    <3>1. upto - SizeCluster \in Int /\ (upto - SizeCluster) % SizeCluster = 0
      BY <1>1, ArchivesStart DEF ClusterLeaves
    <3>2. (upto - SizeCluster) + SizeCluster = upto
      BY <1>2, NumbersAreInts
    <3>. QED  BY <2>2, <3>1, <3>2, NextCluster
  <2>4. pc' = IF pc = "remove" THEN "reopen" ELSE "clusters"
    BY <1>0, <1>1, <1>4 DEF RemoveEnds, Goto, AfterRemoval
  <2>. QED  BY <1>0, <1>1, <2>1, <2>2, <2>3, <2>4, PoolKept
            DEF PlaceInv, PoolAtStart, PoolHasPlace, JobHasPlace, StreamIsPool
<1>. QED  BY <1>3, <1>4

\* The archive under way gets the pool's last record.
LEMMA EncodedGrows ==
  ASSUME NEW first \in Int, NEW last \in Int, first <= last,
         NEW s \in Seq(Entries), s = Encoded(first, last - 1)
  PROVE  Append(s, Entry(last, pool[last], ~(s = <<>>))) = Encoded(first, last)
<1> DEFINE e == Entry(last, pool[last], ~(s = <<>>))
           g == Append(s, e)
           h == Encoded(first, last)
<1>1. /\ Len(s) = last - first
      /\ \A n \in 1 .. Len(s) : s[n] = Entry(first + n - 1, pool[first + n - 1], n > 1)
  BY EncodedTells
<1>2. /\ Len(h) = last - first + 1 /\ h = [n \in 1 .. Len(h) |-> h[n]]
      /\ \A n \in 1 .. Len(h) : h[n] = Entry(first + n - 1, pool[first + n - 1], n > 1)
  BY EncodedTells
<1> HIDE DEF h
<1>3. e = Entry(last, pool[last], Len(s) + 1 > 1)
  <2>1. CASE s = <<>>
    BY <2>1
  <2>2. CASE s # <<>>
    <3>1. Len(s) + 1 > 1
      BY <2>2
    <3>2. (Len(s) + 1 > 1) = TRUE /\ (~(s = <<>>)) = TRUE
      BY <2>2, <3>1
    <3>. QED  BY <3>2
  <2>. QED  BY <2>1, <2>2
<1> HIDE DEF e
<1>4. g = [n \in 1 .. Len(s) + 1 |-> IF n = Len(s) + 1 THEN e ELSE s[n]]
  BY DEF e
<1>5. \A n \in 1 .. Len(s) + 1 : (IF n = Len(s) + 1 THEN e ELSE s[n]) = h[n]
  <2> SUFFICES ASSUME NEW n \in 1 .. Len(s) + 1
               PROVE  (IF n = Len(s) + 1 THEN e ELSE s[n]) = h[n]
    OBVIOUS
  <2>1. n \in 1 .. Len(h) /\ h[n] = Entry(first + n - 1, pool[first + n - 1], n > 1)
    BY <1>1, <1>2
  <2>2. CASE n = Len(s) + 1
    <3>1. first + n - 1 = last
      BY <1>1, <2>2
    <3>. QED  BY <1>3, <2>1, <2>2, <3>1
  <2>3. CASE n # Len(s) + 1
    BY <1>1, <2>1, <2>3
  <2>. QED  BY <2>2, <2>3
<1>6. Len(h) = Len(s) + 1
  BY <1>1, <1>2
<1> HIDE DEF g
<1>7. g = h
  BY <1>2, <1>4, <1>5, <1>6
<1>. QED  BY <1>7 DEF g, h, e

\* transact(): a cluster is archived when the first record of the next one is saved, and
\* the archive under way holds just that cluster then.
LEMMA TransactPlace ==
  ASSUME Types, DiskInv, PlaceInv, TransactStep
  PROVE  PlaceInv'
<1> USE DEF Removing, AtClusters, BeforeSave, AfterSave
<1>1. CASE Pop
  <2>1. /\ pc = "idle" /\ pc' = "examine" /\ NextId <= MaxId /\ job' \in Records
        /\ UNCHANGED <<pool, arch, stream, bFirst, upto>>
    <3>1. jobs \in Seq(Records) /\ jobs # <<>> /\ job' = jobs[Len(jobs)]
      BY <1>1 DEF Pop, JQ!Take, Types, SeqTypes
    <3>2. job' \in Records
      BY <3>1
    <3>. QED  BY <1>1, <3>2 DEF Pop, Goto, disk, encoder
  <2>. QED  BY <2>1, PoolKept DEF PlaceInv, PoolAtStart, PoolHasPlace, JobHasPlace, StreamIsPool
<1>2. CASE Reject
  BY <1>2, PoolKept
     DEF Reject, Goto, disk, encoder, PlaceInv, PoolAtStart, PoolHasPlace, JobHasPlace, StreamIsPool
<1>3. CASE Duplicate
  BY <1>3, PoolKept
     DEF Duplicate, Goto, disk, encoder, PlaceInv, PoolAtStart, PoolHasPlace, JobHasPlace, StreamIsPool
<1>4. CASE Admit
  BY <1>4, PoolKept
     DEF Admit, Goto, disk, encoder, queue, PlaceInv, PoolAtStart, PoolHasPlace, JobHasPlace, StreamIsPool
<1>5. CASE Save
  <2>1. /\ pc = "save" /\ pc' = "ema" /\ UNCHANGED <<job, stream, bFirst>>
        /\ job \in Records \ Bad
    BY <1>5 DEF Save, Goto, encoder, queue, PlaceInv, JobHasPlace
  <2>2. Begin' % SizeCluster = 0 /\ Last' <= Begin' + SizeCluster
    <3>1. CASE PoolEmpty
      BY <1>5, <3>1, SaveAdds, NumbersAreInts DEF NextId
    <3>2. CASE ~PoolEmpty
      BY <1>5, <2>1, <3>2, SaveAdds, PoolRuns, NumbersAreInts DEF PlaceInv, PoolAtStart, PoolHasPlace
    <3>. QED  BY <3>1, <3>2
  <2>3. stream = Encoded(Begin, Last - 1)'
    <3>1. CASE PoolEmpty
      <4>1. stream = <<>> /\ Begin' = 0 /\ Last' = 0
        BY <1>5, <2>1, <3>1, SaveAdds DEF PlaceInv, StreamIsPool, NextId
      <4>2. Encoded(Begin, Last - 1)' = <<>>
        BY <4>1 DEF Encoded
      <4>. QED  BY <4>1, <4>2
    <3>2. CASE ~PoolEmpty
      <4>1. stream = Encoded(Begin, Last) /\ Begin' = Begin /\ Last' = Last + 1
        BY <1>5, <2>1, <3>2, SaveAdds, PoolRuns DEF PlaceInv, StreamIsPool
      <4> DEFINE b == Begin
                 l == Last
      <4>2. b \in Int /\ l \in Int /\ b' \in Int /\ l' \in Int /\ b' = b /\ l' - 1 = l /\ DOMAIN pool = b .. l
        BY <3>2, <4>1, PoolRuns
      <4>3. \A n \in 1 .. l - b + 1 : pool'[b + n - 1] = pool[b + n - 1]
        <5> HIDE DEF b, l
        <5>1. \A n \in 1 .. l - b + 1 : b + n - 1 \in DOMAIN pool
          BY <4>2
        <5>. QED  BY <1>5, <5>1, SaveAdds
      <4> HIDE DEF b, l
      <4>4. Encoded(b, l - 1)' = Encoded(b, l)
        BY <4>2, <4>3 DEF Encoded
      <4>. QED  BY <4>1, <4>4 DEF b, l
    <3>. QED  BY <3>1, <3>2
  <2>4. bFirst <=> stream = <<>>
    BY <2>1 DEF PlaceInv, StreamIsPool
  <2>. QED  BY <1>5, <2>1, <2>2, <2>3, <2>4, SaveAdds
            DEF PlaceInv, PoolAtStart, PoolHasPlace, JobHasPlace, StreamIsPool
<1>6. CASE UpdateEma
  BY <1>6, PoolKept
     DEF UpdateEma, Goto, encoder, queue, PlaceInv, PoolAtStart, PoolHasPlace, JobHasPlace, StreamIsPool
<1>7. CASE Archive
  <2>1. /\ ~PoolEmpty /\ Begin % SizeCluster = 0 /\ Begin + SizeCluster <= Last
        /\ stream = Encoded(Begin, Last - 1) /\ Last <= Begin + SizeCluster
        /\ job \in Records \ Bad /\ pool[Last] = job
    BY <1>7 DEF Archive, PlaceInv, PoolHasPlace, PoolAtStart, StreamIsPool, JobHasPlace, ClusterDone
  <2> DEFINE b == Begin
  <2>2. /\ pc' = "remove" /\ upto' = b + SizeCluster /\ arch' = With(arch, b, stream)
        /\ pool' = pool /\ job' = job
    BY <1>7 DEF Archive, Goto, queue
  <2>3. b \in Int /\ Last - 1 \in Int /\ Last - 1 = b + SizeCluster - 1 /\ Last = b + SizeCluster
    BY <2>1, PoolRuns, NumbersAreInts
  <2>4. /\ Len(stream) = SizeCluster
        /\ \A n \in 1 .. SizeCluster : stream[n].id = b + n - 1 /\ stream[n].sep = (n > 1)
    BY <2>1, <2>3, EncodedCluster
  <2>5. Begin' = b /\ Last' = Last /\ PoolEmpty' = PoolEmpty
    BY <2>2, PoolKept
  <2> HIDE DEF b
  <2>6. upto' - SizeCluster = b
    BY <2>2, <2>3, NumbersAreInts
  <2>7. ClusterLeaves'
    BY <2>2, <2>3, <2>4, <2>5, <2>6, NumbersAreInts DEF ClusterLeaves, Whole, With
  <2>. QED  BY <2>1, <2>2, <2>3, <2>5, <2>7
            DEF PlaceInv, PoolAtStart, PoolHasPlace, JobHasPlace, StreamIsPool
<1>8. CASE NoArchive
  <2>1. ~PoolEmpty /\ ~(Begin + SizeCluster <= Last)
    BY <1>8 DEF NoArchive, PlaceInv, PoolHasPlace, ClusterDone
  <2>2. Last < Begin + SizeCluster
    BY <2>1, PoolRuns, NumbersAreInts
  <2>. QED  BY <1>8, <2>1, <2>2, PoolKept
            DEF NoArchive, Goto, disk, encoder, queue, PlaceInv, PoolAtStart, PoolHasPlace,
                JobHasPlace, StreamIsPool
<1>9. CASE Reopen
  <2>1. /\ ~PoolEmpty /\ Begin = Last /\ Begin % SizeCluster = 0
        /\ job \in Records \ Bad /\ pool[Last] = job
        /\ pc' = "append" /\ stream' = <<>> /\ bFirst' = TRUE /\ pool' = pool /\ job' = job
    BY <1>9 DEF Reopen, Goto, disk, queue, PlaceInv, PoolHasPlace, PoolAtStart, JobHasPlace
  <2>2. Last < Begin + SizeCluster
    BY <2>1, PoolRuns, NumbersAreInts
  <2>3. Encoded(Begin, Last - 1) = <<>>
    <3>1. 1 .. Last - 1 - Begin + 1 = {}
      BY <2>1, PoolRuns
    <3>. QED  BY <3>1 DEF Encoded
  <2>. QED  BY <2>1, <2>2, <2>3, PoolKept
            DEF PlaceInv, PoolAtStart, PoolHasPlace, JobHasPlace, StreamIsPool
<1>10. CASE AppendRec
  <2>1. /\ ~PoolEmpty /\ Begin % SizeCluster = 0 /\ Last < Begin + SizeCluster
        /\ stream = Encoded(Begin, Last - 1) /\ (bFirst <=> stream = <<>>)
        /\ pool[Last] = job /\ stream \in Seq(Entries) /\ bFirst \in BOOLEAN
    BY <1>10 DEF AppendRec, PlaceInv, PoolHasPlace, PoolAtStart, JobHasPlace, StreamIsPool,
                 Types, TypeOK, SeqTypes
  <2>2. /\ pc' = "idle" /\ pool' = pool /\ bFirst' = FALSE
        /\ stream' = Append(stream, Entry(Last, pool[Last], ~(stream = <<>>)))
    BY <1>10, <2>1 DEF AppendRec, SavedId, Goto, disk
  <2>3. stream' = Encoded(Begin, Last)
    BY <2>1, <2>2, PoolRuns, EncodedGrows
  <2>4. stream' # <<>>
    BY <2>2
  <2>. QED  BY <2>1, <2>2, <2>3, <2>4, PoolKept
            DEF PlaceInv, PoolAtStart, PoolHasPlace, JobHasPlace, StreamIsPool
<1>. QED  BY <1>1, <1>2, <1>3, <1>4, <1>5, <1>6, <1>7, <1>8, <1>9, <1>10 DEF TransactStep

\* Whatever the step, the pool is where that place of the process says.
LEMMA PlaceStep ==
  ASSUME Types, DiskInv, PlaceInv, [Next]_vars
  PROVE  PlaceInv'
<1>1. CASE StartRepair
  BY <1>1, StartRepairPlace
<1>2. CASE StartStep /\ ~StartRepair
  BY <1>2, StartPlace DEF StartStep
<1>3. CASE TransactStep
  BY <1>3, TransactPlace
<1>4. CASE Remove \/ RemoveFails \/ RemoveEnds
  BY <1>4, RemovalPlace
<1>5. ASSUME NEW r \in Records, Add(r) PROVE PlaceInv'
  BY <1>5, PoolKept
     DEF Add, JQ!Push, disk, encoder, PlaceInv, PoolAtStart, PoolHasPlace, ClusterLeaves, Whole,
         JobHasPlace, StreamIsPool
<1>6. CASE End
  BY <1>6, PoolKept
     DEF End, JQ!End, disk, encoder, PlaceInv, PoolAtStart, PoolHasPlace, ClusterLeaves, Whole,
         JobHasPlace, StreamIsPool
<1>7. CASE Stop \/ Crash
  BY <1>7
     DEF Stop, Crash, Gone, PlaceInv, PoolAtStart, PoolHasPlace, JobHasPlace, StreamIsPool,
         Removing, AtClusters, BeforeSave, AfterSave
<1>8. CASE UNCHANGED vars
  BY <1>8, PoolKept
     DEF vars, PlaceInv, PoolAtStart, PoolHasPlace, ClusterLeaves, Whole, JobHasPlace, StreamIsPool
<1>. QED  BY <1>1, <1>2, <1>3, <1>4, <1>5, <1>6, <1>7, <1>8 DEF Next

-----------------------------------------------------------------------------
(* What is stored.                                                         *)

\* An accepted record is in the pool or in the archive of its cluster.
LEMMA StoredSomewhere ==
  ASSUME Types, DiskInv, NEW i \in 0 .. NextId - 1
  PROVE  Stored(i) \in Records
<1>1. i \in Int /\ NextId \in Int
  BY NextIsNew
<1>2. CASE i \in DOMAIN pool
  BY <1>2 DEF Stored, Types, TypeOK
<1>3. CASE i \notin DOMAIN pool
  <2>1. ~PoolEmpty
    BY <1>1 DEF NextId
  <2>2. i \in 0 .. Begin - 1
    BY <1>1, <1>3, <2>1, PoolRuns
  <2>3. PICK k \in DOMAIN arch : Covers(k, i) /\ Whole(k)
    BY <2>1, <2>2 DEF DiskInv, GoneIsArchived
  <2>4. k \in Int /\ k % SizeCluster = 0
    BY ArchivesStart
  <2>5. (i \div SizeCluster) * SizeCluster = k
    BY <1>1, <2>3, <2>4, OneCluster
  <2> DEFINE n == i - k + 1
  <2>6. n \in 1 .. SizeCluster /\ k + n - 1 = i
    BY <1>1, <2>3, <2>4, NumbersAreInts DEF Covers
  <2>7. arch[k] \in Seq(Entries) /\ Len(arch[k]) = SizeCluster
    BY <2>3 DEF Types, SeqTypes, Whole
  <2>8. n \in DOMAIN arch[k] /\ arch[k][n] \in Entries /\ arch[k][n].id = i
    BY <2>3, <2>6, <2>7 DEF Whole
  <2>9. Stored(i) = arch[k][n].rec
    BY <1>3, <2>5, <2>8 DEF Stored
  <2>. QED  BY <2>8, <2>9 DEF Entries
<1>. QED  BY <1>2, <1>3

\* The archive of a cluster whose numbers are all in the pool does not matter.
LEMMA RewriteKeepsStore ==
  ASSUME Types, DiskInv, ~PoolEmpty, pool' = pool, NEW s, arch' = With(arch, Begin, s),
         NEW i \in 0 .. NextId - 1
  PROVE  Stored(i)' = Stored(i)
<1>1. Begin \in Int /\ i \in Int /\ DOMAIN pool = Begin .. Last /\ NextId = Last + 1
  BY PoolRuns
<1>2. CASE i \in DOMAIN pool
  BY <1>2 DEF Stored
<1>3. CASE i \notin DOMAIN pool
  <2> DEFINE k == (i \div SizeCluster) * SizeCluster
             b == Begin
  <2>1. k \in Int /\ k <= i
    BY <1>1, ClusterStart DEF Covers
  <2>2. i < b
    BY <1>1, <1>3, PoolRuns
  <2>3. arch' = With(arch, b, s) /\ b \in Int
    BY <1>1
  <2> HIDE DEF k, b
  <2>4. k # b
    BY <1>1, <2>1, <2>2, <2>3
  <2>5. (k \in DOMAIN arch' <=> k \in DOMAIN arch) /\ (k \in DOMAIN arch => arch'[k] = arch[k])
    BY <2>3, <2>4 DEF With
  <2>. QED  BY <1>3, <2>5 DEF Stored, k
<1>. QED  BY <1>2, <1>3

\* A removed file's record is in the archive.
LEMMA RemoveKeepsStore ==
  ASSUME Types, DiskInv, PlaceInv, Remove \/ RemoveFails, NEW i \in 0 .. NextId - 1
  PROVE  Stored(i)' = Stored(i)
<1>1. /\ Begin \in Int /\ Last \in Int /\ i \in Int /\ DOMAIN pool = Begin .. Last
      /\ Begin <= Last
      /\ DOMAIN pool' = Begin + 1 .. Last
      /\ \A j \in DOMAIN pool' : pool'[j] = pool[j]
      /\ arch' = arch
  BY RemoveTakesFirst, PoolRuns
<1>2. CASE i # Begin
  <2>1. i \in DOMAIN pool <=> i \in DOMAIN pool'
    BY <1>1, <1>2
  <2>. QED  BY <1>1, <2>1 DEF Stored
<1>3. CASE i = Begin
  <2> DEFINE k == upto - SizeCluster
             n == i - k + 1
  <2>0. pc \in Removing
    BY DEF Remove, RemoveFails, AfterRemoval, Removing
  <2>1. k \in DOMAIN arch /\ Whole(k) /\ k <= i /\ i < upto /\ upto \in Int
    BY <1>3, <2>0, RemoveTakesFirst, NumbersAreInts
       DEF PlaceInv, PoolHasPlace, ClusterLeaves, Types, TypeOK
  <2>2. k \in Int /\ k % SizeCluster = 0
    BY <2>1, ArchivesStart
  <2>3. Covers(k, i)
    BY <1>1, <2>1, <2>2, NumbersAreInts DEF Covers
  <2> HIDE DEF k
  <2>4. (i \div SizeCluster) * SizeCluster = k
    BY <1>1, <2>2, <2>3, OneCluster
  <2>5. n \in 1 .. SizeCluster /\ k + n - 1 = i
    BY <1>1, <2>2, <2>3, NumbersAreInts DEF Covers
  <2>6. i \in DOMAIN pool /\ i \notin DOMAIN pool'
    BY <1>1, <1>3, RemoveTakesFirst
  <2>7. arch[k] \in Seq(Entries) /\ Len(arch[k]) = SizeCluster
    BY <2>1 DEF Types, SeqTypes, Whole
  <2>8. n \in DOMAIN arch[k] /\ arch[k][n].id = i /\ arch[k][n].rec = pool[i]
    BY <2>1, <2>3, <2>5, <2>6, <2>7 DEF Whole, DiskInv, ArchiveAgrees
  <2>. QED  BY <1>1, <2>1, <2>4, <2>6, <2>8 DEF Stored
<1>. QED  BY <1>2, <1>3

\* A file that comes back into the pool holds the record of the archive.
LEMMA StartCheckKeepsStore ==
  ASSUME Types, DiskInv, StartCheck
  PROVE  NextId' = NextId /\ \A i \in 0 .. NextId - 1 : Stored(i)' = Stored(i)
<1>1. CASE pool' = pool /\ left' = left
  <2>1. arch' = arch
    BY StartCheckTakes
  <2>. QED  BY <1>1, <2>1, PoolKept DEF Stored
<1>2. CASE PoolEmpty /\ PoolEmpty' /\ DOMAIN left' = {}
  BY <1>2 DEF NextId
<1>3. CASE /\ ~PoolEmpty /\ ~PoolEmpty' /\ DOMAIN left' = {}
           /\ Begin' \in Int /\ 0 <= Begin' /\ Begin' <= Begin /\ Last' = Last
           /\ DOMAIN pool' = Begin' .. Last
           /\ \A i \in DOMAIN pool : i \in DOMAIN pool' /\ pool'[i] = pool[i]
           /\ \A i \in Begin' .. Begin - 1 : i \in DOMAIN left /\ pool'[i] = left[i]
  <2>1. /\ Begin \in Int /\ Last \in Int /\ Begin <= Last /\ DOMAIN pool = Begin .. Last
        /\ arch' = arch
    BY <1>3, PoolRuns, StartCheckTakes
  <2>2. NextId' = NextId
    BY <1>3 DEF NextId
  <2>3. ASSUME NEW i \in 0 .. NextId - 1 PROVE Stored(i)' = Stored(i)
    <3>1. i \in Int
      BY NextIsNew
    <3>2. CASE i \in DOMAIN pool
      BY <1>3, <3>2 DEF Stored
    <3>3. CASE i \notin DOMAIN pool'
      BY <1>3, <2>1, <3>3 DEF Stored
    <3>4. CASE i \notin DOMAIN pool /\ i \in DOMAIN pool'
      <4>1. i \in Begin' .. Begin - 1 /\ i \in 0 .. Begin - 1
        BY <1>3, <2>1, <3>1, <3>4
      <4>2. PICK k \in DOMAIN arch : Covers(k, i) /\ Whole(k)
        BY <1>3, <4>1 DEF DiskInv, GoneIsArchived
      <4> DEFINE n == i - k + 1
      <4>3. k \in Int /\ k % SizeCluster = 0
        BY ArchivesStart
      <4>4. (i \div SizeCluster) * SizeCluster = k
        BY <3>1, <4>2, <4>3, OneCluster
      <4>5. n \in 1 .. SizeCluster /\ k + n - 1 = i
        BY <3>1, <4>2, <4>3, NumbersAreInts DEF Covers
      <4>6. arch[k] \in Seq(Entries) /\ Len(arch[k]) = SizeCluster
        BY <4>2 DEF Types, SeqTypes, Whole
      <4>7. n \in DOMAIN arch[k] /\ arch[k][n].id = i
        BY <4>2, <4>5, <4>6 DEF Whole
      <4>8. arch[k][n].rec = left[i] /\ left[i] = pool'[i]
        BY <1>3, <4>1, <4>2 DEF DiskInv, LeftIsArchived
      <4>. QED  BY <3>4, <4>4, <4>7, <4>8 DEF Stored
    <3>. QED  BY <3>2, <3>3, <3>4
  <2>. QED  BY <2>2, <2>3
<1>. QED  BY <1>1, <1>2, <1>3, StartCheckTakes

\* No step but that which names the new record's file changes what is stored.
LEMMA StoreKept ==
  ASSUME Types, DiskInv, PlaceInv, [Next]_vars, ~Save
  PROVE  NextId' = NextId /\ \A i \in 0 .. NextId - 1 : Stored(i)' = Stored(i)
<1>1. CASE UNCHANGED <<pool, left, arch>>
  <2>1. NextId' = NextId
    BY <1>1, PoolKept
  <2>2. \A i : Stored(i)' = Stored(i)
    BY <1>1 DEF Stored
  <2>. QED  BY <2>1, <2>2
<1>2. CASE StartCluster \/ StartEncode \/ Archive
  <2>1. ~PoolEmpty
    BY <1>2 DEF StartCluster, StartEncode, Archive, PlaceInv, PoolHasPlace, AtClusters, AfterSave
  <2>2. pool' = pool /\ \E s : arch' = With(arch, Begin, s)
    BY <1>2 DEF StartCluster, StartEncode, Archive
  <2>. QED  BY <2>1, <2>2, RewriteKeepsStore, PoolKept
<1>3. CASE Remove \/ RemoveFails
  BY <1>3, RemoveKeepsStore, RemoveTakesFirst
<1>4. CASE StartCheck
  BY <1>4, StartCheckKeepsStore
<1>. QED
  BY <1>1, <1>2, <1>3, <1>4
     DEF Next, StartStep, TransactStep, vars, disk, Start, StartRepair, StartTail, StartAppend,
         StartAppendSpins, Pop, Reject, Duplicate, Admit, UpdateEma, NoArchive, Reopen,
         AppendRec, RemoveEnds, Add, End, Stop, Crash, Gone

\* That step adds the job's record, with the next number.
LEMMA StoreGrows ==
  ASSUME Types, DiskInv, PlaceInv, Save
  PROVE  /\ NextId' = NextId + 1
         /\ \A i \in 0 .. NextId - 1 : Stored(i)' = Stored(i)
         /\ \A i : i = NextId => Stored(i)' = job
         /\ job \in Records \ Bad /\ job' = job
<1>1. \A i \in 0 .. NextId - 1 : Stored(i)' = Stored(i)
  <2> SUFFICES ASSUME NEW i \in 0 .. NextId - 1 PROVE Stored(i)' = Stored(i)
    OBVIOUS
  <2>1. i # NextId
    BY NextIsNew
  <2>2. /\ i \in DOMAIN pool' <=> i \in DOMAIN pool
        /\ i \in DOMAIN pool => pool'[i] = pool[i]
        /\ arch' = arch
    BY <2>1, SaveAdds
  <2>. QED  BY <2>2 DEF Stored
<1>2. \A i : i = NextId => Stored(i)' = job
  BY SaveAdds DEF Stored
<1>3. job \in Records \ Bad /\ job' = job
  BY DEF Save, PlaceInv, JobHasPlace, queue
<1>. QED  BY <1>1, <1>2, <1>3, SaveAdds

-----------------------------------------------------------------------------
(* The estimates.                                                          *)

\* The stored records that the estimates are fed with are counted.
LEMMA NoResignCounted ==
  ASSUME DiskInv
  PROVE  /\ IsFiniteSet({i \in 0 .. NextId - 1 : Stored(i) \in NoResign})
         /\ NoResignStored \in Nat /\ NoResignStored <= NextId
<1> DEFINE S == {i \in 0 .. NextId - 1 : Stored(i) \in NoResign}
           U == 0 .. NextId - 1
<1>1. NextId \in Int /\ 0 <= NextId
  BY NextIsNew
<1>2. IsFiniteSet(U) /\ Cardinality(U) = NextId
  BY <1>1, FS_Interval
<1>3. S \subseteq U
  OBVIOUS
<1> HIDE DEF S, U
<1>4. IsFiniteSet(S) /\ Cardinality(S) <= Cardinality(U) /\ Cardinality(S) \in Nat
  BY <1>2, <1>3, FS_Subset, FS_CardinalityType
<1>. QED  BY <1>2, <1>4 DEF NoResignStored, S

\* A saved record is counted once, if it is one of those.
LEMMA NoResignGrows ==
  ASSUME Types, DiskInv, PlaceInv, Save
  PROVE  NoResignStored' = NoResignStored + (IF FeedsEma THEN 1 ELSE 0)
<1> SUFFICES ASSUME NEW m, m = NextId
             PROVE  NoResignStored' = NoResignStored + (IF FeedsEma THEN 1 ELSE 0)
  OBVIOUS
<1> DEFINE S == {i \in 0 .. NextId - 1 : Stored(i) \in NoResign}
<1>1. m \in Int /\ 0 <= m
  BY NextIsNew
<1>2. NextId' = m + 1 /\ (\A i \in 0 .. m - 1 : Stored(i)' = Stored(i)) /\ Stored(m)' = job
  BY StoreGrows
<1>3. S' = S \cup (IF FeedsEma THEN {m} ELSE {})
  <2>1. S' = {i \in 0 .. m : Stored(i)' \in NoResign}
    BY <1>1, <1>2
  <2>2. S = {i \in 0 .. m - 1 : Stored(i)' \in NoResign}
    BY <1>2
  <2>3. \A i : i \in 0 .. m <=> (i \in 0 .. m - 1 \/ i = m)
    BY <1>1
  <2> HIDE DEF S
  <2>. QED  BY <1>2, <2>1, <2>2, <2>3 DEF FeedsEma
<1>4. m \notin S /\ IsFiniteSet(S) /\ Cardinality(S) \in Nat
  BY <1>1, NoResignCounted, FS_CardinalityType
<1>5. NoResignStored' = Cardinality(S') /\ NoResignStored = Cardinality(S)
  BY DEF NoResignStored
<1> HIDE DEF S
<1>6. CASE FeedsEma
  BY <1>3, <1>4, <1>5, <1>6, FS_AddElement
<1>7. CASE ~FeedsEma
  <2>1. S' = S
    BY <1>3, <1>7
  <2>. QED  BY <1>4, <1>5, <1>7, <2>1
<1>. QED  BY <1>6, <1>7

\* What is stored is the same in number.
LEMMA NoResignKept ==
  ASSUME Types, DiskInv, PlaceInv, [Next]_vars, ~Save
  PROVE  NoResignStored' = NoResignStored
<1> DEFINE S == {i \in 0 .. NextId - 1 : Stored(i) \in NoResign}
<1>1. S' = S
  <2>1. NextId' = NextId /\ \A i \in 0 .. NextId - 1 : Stored(i)' = Stored(i)
    BY StoreKept
  <2>. QED  BY <2>1
<1>. QED  BY <1>1 DEF NoResignStored

\* A crash between a save and its update of the estimates loses one update; nothing
\* feeds one record twice.
LEMMA EmaStep ==
  ASSUME Types, DiskInv, PlaceInv, EmaInv, [Next]_vars
  PROVE  EmaInv'
<1>0. /\ NoResignStored \in Nat /\ ema \in Int /\ crashes \in Nat
      /\ NoResignStored' = NoResignStored + (IF Save /\ FeedsEma THEN 1 ELSE 0)
  <2>1. NoResignStored \in Nat
    BY NoResignCounted
  <2>2. ema \in Int /\ crashes \in Nat
    BY RecKeepAssumption DEF Types, TypeOK
  <2>. QED  BY <2>1, <2>2, NoResignGrows, NoResignKept
<1>1. CASE Save
  <2>1. pc = "save" /\ pc' = "ema" /\ ema' = ema /\ crashes' = crashes /\ FeedsEma' = FeedsEma
    BY <1>1 DEF Save, Goto, queue, FeedsEma
  <2>. QED  BY <1>0, <1>1, <2>1 DEF EmaInv, Due
<1>2. CASE UpdateEma
  <2>1. /\ pc = "ema" /\ pc' = "archive" /\ crashes' = crashes /\ ~Save
        /\ ema' = ema + (IF FeedsEma THEN 1 ELSE 0)
    BY <1>0, <1>2 DEF UpdateEma, Goto, Save
  <2>. QED  BY <1>0, <2>1 DEF EmaInv, Due
<1>3. CASE ~Save /\ ~UpdateEma
  <2>1. /\ ema' = ema
        /\ \/ crashes' = crashes /\ (pc = "ema" <=> pc' = "ema") /\ (pc = "ema" => job' = job)
           \/ crashes' = crashes + 1 /\ pc' = "down"
    BY <1>3
       DEF Next, StartStep, TransactStep, Start, StartCheck, StartRepair, StartCluster, StartEncode, StartTail,
           StartAppend, StartAppendSpins, Pop, Reject, Duplicate, Admit, Archive, NoArchive, Reopen,
           AppendRec, Remove, RemoveFails, RemoveEnds, Add, JQ!Push, End, JQ!End, Stop, Crash, Gone, Goto, vars,
           disk, queue, AfterRemoval
  <2>2. pc = "ema" /\ job' = job => FeedsEma' = FeedsEma
    BY DEF FeedsEma
  <2>. QED  BY <1>0, <1>3, <2>1, <2>2 DEF EmaInv, Due
<1>. QED  BY <1>1, <1>2, <1>3

-----------------------------------------------------------------------------
(* The table of digests.                                                   *)

\* The digest that was looked up is in the table then, at its start; of the others one
\* leaves the table, and only if it is full and the digest is new.
LEMMA TouchTells ==
  ASSUME NEW D, table \in Seq(D), NEW d \in D, Len(table) <= SizeTable, TableDiffers
  PROVE  LET t == Touch(d)
         IN /\ t \in Seq(D) /\ Len(t) <= SizeTable /\ Len(table) <= Len(t)
            /\ \A n, m \in 1 .. Len(t) : t[n] = t[m] => n = m
            /\ \A n \in 1 .. Len(t) : t[n] = d \/ Known(t[n])
            /\ \E n \in 1 .. Len(t) : t[n] = d
            /\ \A e : Known(e) => \/ \E n \in 1 .. Len(t) : t[n] = e
                                  \/ ~Known(d) /\ Len(t) = SizeTable
<1> DEFINE p == Place(d)
           l == Len(table)
           len == IF Known(d) THEN l ELSE p
           t == Touch(d)
<1>1. l \in Nat /\ SizeTable \in Nat \ {0} /\ \A n \in 1 .. l : table[n] \in D
  BY RecKeepAssumption
<1>2. /\ p \in 1 .. len /\ len \in Nat /\ l <= len /\ len <= SizeTable
      /\ Known(d) => p \in 1 .. l /\ table[p] = d
      /\ ~Known(d) => (p = l + 1 \/ (p = l /\ l = SizeTable))
  <2>1. CASE Known(d)
    BY <1>1, <2>1 DEF Known, Place
  <2>2. CASE ~Known(d)
    BY <1>1, <2>2 DEF Place
  <2>. QED  BY <2>1, <2>2
<1>3. t = [n \in 1 .. len |-> IF n = 1 THEN d ELSE IF n <= p THEN table[n - 1] ELSE table[n]]
  BY DEF Touch
<1> HIDE DEF p, l, len, t
<1>4. \A n \in 1 .. len : n > p => n <= l
  BY <1>1, <1>2 DEF len
<1>5. /\ \A n \in 1 .. len : t[n] = IF n = 1 THEN d ELSE IF n <= p THEN table[n - 1] ELSE table[n]
      /\ Len(t) = len /\ DOMAIN t = 1 .. len
  BY <1>2, <1>3
<1>6. \A n \in 1 .. len : n # 1 =>
        \E m \in 1 .. l : t[n] = table[m] /\ (n <= p => m = n - 1) /\ (n > p => m = n)
  <2> SUFFICES ASSUME NEW n \in 1 .. len, n # 1
               PROVE  \E m \in 1 .. l : t[n] = table[m] /\ (n <= p => m = n - 1) /\ (n > p => m = n)
    OBVIOUS
  <2>1. CASE n <= p
    <3>1. n - 1 \in 1 .. l /\ t[n] = table[n - 1]
      BY <1>1, <1>2, <1>5, <2>1
    <3>. QED  BY <2>1, <3>1, <1>2
  <2>2. CASE n > p
    <3>1. n \in 1 .. l /\ t[n] = table[n]
      BY <1>1, <1>2, <1>4, <1>5, <2>2
    <3>. QED  BY <2>2, <3>1, <1>2
  <2>. QED  BY <1>2, <2>1, <2>2
<1>7. t \in Seq(D)
  <2>1. \A n \in 1 .. len : t[n] \in D
    BY <1>1, <1>2, <1>5, <1>6
  <2>. QED  BY <1>2, <1>3, <1>5, <2>1
<1>8. \A n, m \in 1 .. Len(t) : t[n] = t[m] => n = m
  <2>0. l = Len(table)
    BY DEF l
  <2>1. \A n \in 1 .. len : n # 1 => t[n] # d
    <3> SUFFICES ASSUME NEW n \in 1 .. len, n # 1, t[n] = d PROVE FALSE
      OBVIOUS
    <3>1. PICK m \in 1 .. l : t[n] = table[m] /\ (n <= p => m = n - 1) /\ (n > p => m = n)
      BY <1>6
    <3>2. Known(d)
      BY <2>0, <3>1 DEF Known
    <3>3. m = p
      BY <1>2, <2>0, <3>1, <3>2 DEF TableDiffers
    <3>. QED  BY <1>2, <3>1, <3>3
  <2>2. ASSUME NEW n \in 1 .. len, NEW m \in 1 .. len, n # 1, m # 1, t[n] = t[m] PROVE n = m
    <3>1. PICK a \in 1 .. l : t[n] = table[a] /\ (n <= p => a = n - 1) /\ (n > p => a = n)
      BY <1>6, <2>2
    <3>2. PICK b \in 1 .. l : t[m] = table[b] /\ (m <= p => b = m - 1) /\ (m > p => b = m)
      BY <1>6, <2>2
    <3>3. a = b
      BY <2>0, <2>2, <3>1, <3>2 DEF TableDiffers
    <3>4. CASE (n <= p /\ m <= p) \/ (n > p /\ m > p)
      BY <1>2, <3>1, <3>2, <3>3, <3>4
    <3>5. CASE ~(n <= p <=> m <= p)
      BY <1>1, <1>2, <3>1, <3>2, <3>3, <3>5
    <3>. QED  BY <1>2, <3>4, <3>5
  <2>3. 1 \in 1 .. len => t[1] = d
    BY <1>5
  <2>. QED  BY <1>5, <2>1, <2>2, <2>3
<1>9. \A n \in 1 .. Len(t) : t[n] = d \/ Known(t[n])
  BY <1>5, <1>6 DEF Known, l
<1>10. 1 \in 1 .. Len(t) /\ t[1] = d
  BY <1>2, <1>5
<1>11. ASSUME NEW e, Known(e)
       PROVE  (\E n \in 1 .. Len(t) : t[n] = e) \/ (~Known(d) /\ Len(t) = SizeTable)
  <2>1. PICK m \in 1 .. l : table[m] = e
    BY <1>11 DEF Known, l
  <2>2. CASE m < p
    <3>1. m + 1 \in 1 .. len /\ m + 1 # 1 /\ m + 1 <= p /\ (m + 1) - 1 = m
      BY <1>1, <1>2, <2>2
    <3>. QED  BY <1>5, <2>1, <3>1
  <2>3. CASE m > p
    <3>1. m \in 1 .. len /\ m # 1 /\ ~(m <= p)
      BY <1>1, <1>2, <2>3
    <3>. QED  BY <1>5, <2>1, <3>1
  <2>4. CASE m = p
    BY <1>1, <1>2, <1>5, <1>10, <2>1, <2>4 DEF len
  <2>. QED  BY <1>1, <1>2, <2>2, <2>3, <2>4
<1>. QED  BY <1>2, <1>5, <1>7, <1>8, <1>9, <1>10, <1>11 DEF t, l

\* The records accepted since the start, when none is saved and when one is.
LEMMA AcceptedKept ==
  ASSUME Types, DiskInv, PlaceInv, [Next]_vars, ~Save, born' = born
  PROVE  Accepted' = Accepted
<1>1. NextId' = NextId /\ \A i \in 0 .. NextId - 1 : Stored(i)' = Stored(i)
  BY StoreKept
<1>2. born \in Int /\ 0 <= born /\ NextId \in Int
  BY NextIsNew, RecKeepAssumption DEF Types, TypeOK
<1>3. \A i \in born .. NextId - 1 : i \in 0 .. NextId - 1
  BY <1>2
<1>. QED  BY <1>1, <1>3 DEF Accepted

\* The save of a record adds its game to those accepted, and nothing else.
LEMMA AcceptedGrows ==
  ASSUME Types, DiskInv, PlaceInv, Save, born <= NextId
  PROVE  Accepted' = Accepted \cup {job}
<1> SUFFICES ASSUME NEW m, m = NextId PROVE Accepted' = Accepted \cup {job}
  OBVIOUS
<1>1. NextId' = m + 1 /\ (\A i \in 0 .. m - 1 : Stored(i)' = Stored(i)) /\ Stored(m)' = job
  BY StoreGrows
<1>2. born \in Int /\ 0 <= born /\ m \in Int /\ born' = born
  BY NextIsNew, RecKeepAssumption DEF Types, TypeOK, Save
<1>3. \A i \in born .. m - 1 : i \in 0 .. m - 1
  BY <1>2
<1>4. \A i : i \in born .. m <=> (i \in born .. m - 1 \/ i = m)
  BY <1>2
<1>5. Accepted' = {Stored(i)' : i \in born .. m}
  BY <1>1, <1>2 DEF Accepted
<1>6. Accepted = {Stored(i)' : i \in born .. m - 1}
  BY <1>1, <1>3 DEF Accepted
<1>. QED  BY <1>1, <1>4, <1>5, <1>6

\* They are finite in number.
LEMMA AcceptedFinite ==
  ASSUME Types, DiskInv
  PROVE  IsFiniteSet(Accepted) /\ Accepted \subseteq Records
<1> DEFINE U == born .. NextId - 1
<1>1. born \in Int /\ 0 <= born /\ NextId \in Int
  BY NextIsNew, RecKeepAssumption DEF Types, TypeOK
<1>2. IsFiniteSet(U)
  BY <1>1, FS_Interval
<1> DEFINE f == [n \in U |-> Stored(n)]
<1>3. f \in Surjection(U, Accepted)
  BY DEF Accepted, Surjection
<1> HIDE DEF f
<1>4. IsFiniteSet(Accepted)
  BY <1>2, <1>3, FS_Surjection
<1>5. \A n \in U : n \in 0 .. NextId - 1
  BY <1>1
<1>. QED  BY <1>4, <1>5, StoredSomewhere DEF Accepted

\* A full table holds as many digests as it has entries.
LEMMA TableCounts ==
  ASSUME TableDiffers, Len(table) = SizeTable, table \in Seq(Records \ Bad),
         NEW S, IsFiniteSet(S), \A n \in 1 .. Len(table) : table[n] \in S
  PROVE  Cardinality(S) >= SizeTable
<1> DEFINE U == 1 .. SizeTable
<1>1. SizeTable \in Nat
  BY RecKeepAssumption
<1>2. table \in [U -> S]
  BY <1>1
<1>3. table \in Injection(U, S)
  BY <1>1, <1>2 DEF TableDiffers, Injection, IsInjective
<1>4. IsFiniteSet(U) /\ Cardinality(U) = SizeTable
  BY <1>1, FS_Interval
<1> HIDE DEF U
<1>5. Cardinality(U) <= Cardinality(S) /\ Cardinality(S) \in Nat
  BY <1>3, FS_Injection, FS_CardinalityType
<1>. QED  BY <1>1, <1>4, <1>5

\* The job's digest has been accepted since the start and has left the table: the table
\* was full of others.
LEMMA ForgottenInFullTable ==
  ASSUME Types, DiskInv, TableInv, pc # "down", pc # "save", job \in Accepted, ~Known(job)
  PROVE  Cardinality(Accepted \ {job}) >= SizeTable
<1> DEFINE S == Accepted \ {job}
<1>1. Len(table) = SizeTable /\ TableDiffers /\ \A n \in 1 .. Len(table) : table[n] \in Accepted
  BY DEF TableInv
<1>2. \A n \in 1 .. Len(table) : table[n] \in S
  BY <1>1 DEF Known
<1>3. IsFiniteSet(S)
  BY AcceptedFinite, FS_Subset
<1> HIDE DEF S
<1>4. Cardinality(S) >= SizeTable
  BY <1>1, <1>2, <1>3, TableCounts DEF Types, SeqTypes
<1>. QED  BY <1>4 DEF S

\* Whatever the step, the table tells the digests since the start.
LEMMA TableStep ==
  ASSUME Types, DiskInv, PlaceInv, TableInv, [Next]_vars
  PROVE  TableInv'
<1>0. born \in Int /\ NextId \in Int /\ Len(table) <= SizeTable /\ table \in Seq(Records \ Bad)
  BY NextIsNew, RecKeepAssumption DEF Types, TypeOK, SeqTypes
<1>1. CASE Start
  <2>1. ~Save /\ pool' = pool /\ born' = NextId /\ table' = <<>> /\ pc' = "loaded"
    BY <1>1 DEF Start, Save, disk, Goto
  <2>2. NextId' = NextId
    BY <2>1, PoolKept
  <2>3. Accepted' = {}
    BY <1>0, <2>1, <2>2 DEF Accepted
  <2>. QED  BY <1>0, <2>1, <2>2, <2>3 DEF TableInv, TableDiffers
<1>2. CASE Save
  <2>1. /\ pc = "save" /\ pc' = "ema" /\ table' = table /\ born' = born /\ job' = job
        /\ NextId' = NextId + 1
    BY <1>2, StoreGrows DEF Save, Goto, queue
  <2>2. Accepted' = Accepted \cup {job}
    BY <1>2, AcceptedGrows DEF TableInv
  <2>. QED  BY <1>0, <2>1, <2>2 DEF TableInv, TableDiffers, Known
<1>3. ASSUME Admit \/ Duplicate
      PROVE  TableInv'
  <2>1. /\ ~Save /\ pc = "examine" /\ table' = Touch(job) /\ born' = born /\ job \in Records \ Bad
    BY <1>3 DEF Admit, Duplicate, Save, PlaceInv, JobHasPlace
  <2>2. NextId' = NextId /\ Accepted' = Accepted
    BY <2>1, StoreKept, AcceptedKept
  <2>3. TableDiffers /\ (\A n \in 1 .. Len(table) : table[n] \in Accepted)
    BY <2>1 DEF TableInv
  <2> DEFINE t == Touch(job)
  <2>4. /\ Len(t) <= SizeTable /\ Len(table) <= Len(t) /\ Len(t) \in Nat /\ SizeTable \in Nat
        /\ \A n, m \in 1 .. Len(t) : t[n] = t[m] => n = m
        /\ \A n \in 1 .. Len(t) : t[n] = job \/ Known(t[n])
        /\ \E n \in 1 .. Len(t) : t[n] = job
        /\ \A e : Known(e) => \/ \E n \in 1 .. Len(t) : t[n] = e
                              \/ ~Known(job) /\ Len(t) = SizeTable
    <3>1. Len(t) \in Nat /\ SizeTable \in Nat
      BY <1>0, <2>1, <2>3, TouchTells, RecKeepAssumption
    <3>. QED  BY <1>0, <2>1, <2>3, <3>1, TouchTells, Zenon
  <2>5. table' = t
    BY <2>1
  <2> HIDE DEF t
  <2>6. TableDiffers'
    BY <2>4, <2>5 DEF TableDiffers
  <2>7. \A d \in Accepted : Known(d)' \/ Len(t) = SizeTable
    <3> SUFFICES ASSUME NEW d \in Accepted PROVE Known(d)' \/ Len(t) = SizeTable
      OBVIOUS
    <3>1. CASE Known(d)
      BY <2>4, <2>5, <3>1 DEF Known
    <3>2. CASE Len(table) = SizeTable
      BY <2>4, <3>2
    <3>. QED  BY <2>1, <3>1, <3>2 DEF TableInv
  <2>8. CASE Admit
    <3>1. pc' = "save" /\ job' = job /\ ~Known(job)
      BY <2>8 DEF Admit, Goto, queue
    <3>2. job \in Accepted => Cardinality(Accepted \ {job}) >= SizeTable
      BY <2>1, <3>1, ForgottenInFullTable
    <3>3. \A n \in 1 .. Len(t) : t[n] \in Accepted \/ t[n] = job
      BY <2>3, <2>4 DEF Known
    <3>4. Known(job)'
      BY <2>4, <2>5, <3>1 DEF Known
    <3>. QED  BY <2>2, <2>5, <2>6, <2>7, <3>1, <3>2, <3>3, <3>4, <2>1 DEF TableInv
  <2>9. CASE Duplicate
    <3>1. pc' = "idle" /\ Known(job)
      BY <2>9 DEF Duplicate, Goto
    <3>2. \A n \in 1 .. Len(t) : t[n] \in Accepted
      BY <2>3, <2>4, <3>1 DEF Known
    <3>. QED  BY <2>1, <2>2, <2>5, <2>6, <2>7, <3>1, <3>2 DEF TableInv
  <2>. QED  BY <1>3, <2>8, <2>9
<1>4. CASE ~Start /\ ~Save /\ ~Admit /\ ~Duplicate
  <2>1. /\ table' = table /\ born' = born
        /\ \/ pc' = "down"
           \/ /\ pc # "down"
              /\ (pc = "save" /\ pc' = "save" /\ job' = job) \/ (pc # "save" /\ pc' # "save")
           \/ pc = "down" /\ pc' = "down"
    BY <1>4
       DEF Next, StartStep, TransactStep, StartCheck, StartRepair, StartCluster, StartEncode, StartTail,
           StartAppend, StartAppendSpins, Pop, Reject, UpdateEma, Archive, NoArchive, Reopen,
           AppendRec, Remove, RemoveFails, RemoveEnds, Add, JQ!Push, End, JQ!End, Stop, Crash, Gone, Goto, vars,
           disk, queue, AfterRemoval, ServingAt
  <2>2. NextId' = NextId /\ Accepted' = Accepted
    BY <1>4, <2>1, StoreKept, AcceptedKept
  <2>. QED  BY <2>1, <2>2 DEF TableInv, TableDiffers, Known
<1>. QED  BY <1>1, <1>2, <1>3, <1>4

\* Whatever the step, a duplicate is accepted only for want of room in the table.
LEMMA DuplicateStep ==
  ASSUME Types, DiskInv, PlaceInv, TableInv, NoDuplicateInOneLife, [Next]_vars
  PROVE  NoDuplicateInOneLife'
<1>0. born \in Int /\ 0 <= born /\ NextId \in Int
  BY NextIsNew, RecKeepAssumption DEF Types, TypeOK
<1>1. CASE Start
  <2>1. born' = NextId /\ NextId' = NextId
    BY <1>1, PoolKept DEF Start, disk
  <2>. QED  BY <1>0, <2>1 DEF NoDuplicateInOneLife
<1>2. CASE ~Start
  <2>1. born' = born
    BY <1>2
       DEF Next, StartStep, TransactStep, StartCheck, StartRepair, StartCluster, StartEncode, StartTail,
           StartAppend, StartAppendSpins, Pop, Reject, Duplicate, Admit, Save, UpdateEma, Archive,
           NoArchive, Reopen, AppendRec, Remove, RemoveFails, RemoveEnds, Add, End, Stop, Crash, Gone, vars
  <2>2. \A i \in 0 .. NextId - 1 : Stored(i)' = Stored(i)
    BY StoreKept, StoreGrows
  <2>3. ASSUME NEW k \in born .. NextId - 1
        PROVE  /\ Stored(k)' = Stored(k)
               /\ {Stored(n) : n \in born .. k - 1}' = {Stored(n) : n \in born .. k - 1}
    <3>1. k \in 0 .. NextId - 1 /\ \A n \in born .. k - 1 : n \in 0 .. NextId - 1
      BY <1>0
    <3>. QED  BY <2>1, <2>2, <3>1
  <2>4. CASE ~Save
    <3>1. NextId' = NextId
      BY <2>4, StoreKept
    <3>. QED  BY <2>1, <2>3, <3>1 DEF NoDuplicateInOneLife
  <2>5. CASE Save
    <3> SUFFICES ASSUME NEW i \in born .. NextId, NEW k \in born .. NextId, i < k,
                        Stored(i)' = Stored(k)'
                 PROVE  Cardinality({Stored(n) : n \in born .. k - 1}' \ {Stored(k)'}) >= SizeTable
      <4>1. NextId' - 1 = NextId
        BY <1>0, <2>5, StoreGrows
      <4>. QED  BY <2>1, <4>1 DEF NoDuplicateInOneLife
    <3>1. i \in born .. NextId - 1
      BY <1>0
    <3>2. CASE k < NextId
      <4>1. k \in born .. NextId - 1
        BY <1>0, <3>2
      <4>. QED  BY <2>3, <3>1, <4>1 DEF NoDuplicateInOneLife
    <3>3. CASE k = NextId
      <4>1. Stored(k)' = job /\ Stored(i) = job
        BY <2>3, <2>5, <3>1, <3>3, StoreGrows
      <4>2. {Stored(n) : n \in born .. k - 1}' = Accepted
        <5>1. \A n \in born .. NextId - 1 : Stored(n)' = Stored(n)
          BY <2>3
        <5>. QED  BY <2>1, <3>3, <5>1 DEF Accepted
      <4>3. job \in Accepted
        BY <3>1, <4>1 DEF Accepted
      <4>4. pc = "save"
        BY <2>5 DEF Save
      <4>. QED  BY <4>1, <4>2, <4>3, <4>4 DEF TableInv
    <3>. QED  BY <1>0, <3>2, <3>3
  <2>. QED  BY <2>4, <2>5
<1>. QED  BY <1>1, <1>2

-----------------------------------------------------------------------------
(* Types.                                                                  *)

\* What the pool and the archives hold are records and entries.
LEMMA DiskTypes ==
  ASSUME Types, DiskInv, PlaceInv, [Next]_vars
  PROVE  /\ DOMAIN pool' \subseteq Numbers /\ \A i \in DOMAIN pool' : pool'[i] \in Records \ Bad
         /\ DOMAIN left' \subseteq Numbers /\ \A i \in DOMAIN left' : left'[i] \in Records \ Bad
         /\ DOMAIN arch' \subseteq Numbers
         /\ \A k \in DOMAIN arch' : arch'[k] \in Seq(Entries)
<1> DEFINE PoolOK == /\ DOMAIN pool \subseteq Numbers
                     /\ \A i \in DOMAIN pool : pool[i] \in Records \ Bad
                     /\ DOMAIN left \subseteq Numbers
                     /\ \A i \in DOMAIN left : left[i] \in Records \ Bad
           ArchOK == DOMAIN arch \subseteq Numbers /\ \A k \in DOMAIN arch : arch[k] \in Seq(Entries)
<1>0. PoolOK /\ ArchOK
  BY DEF Types, TypeOK, SeqTypes
<1>1. ASSUME ~PoolEmpty, NEW s \in Seq(Entries), arch' = With(arch, Begin, s) PROVE ArchOK'
  <2> DEFINE b == Begin
  <2>1. b \in Numbers /\ arch' = With(arch, b, s)
    BY <1>1, PoolRuns, NumbersAreInts DEF Numbers
  <2> HIDE DEF b
  <2>. QED  BY <1>0, <2>1 DEF With
<1>2. CASE StartCluster
  <2>1. ~PoolEmpty /\ arch' = With(arch, Begin, <<>>) /\ pool' = pool /\ left' = left
    BY <1>2 DEF StartCluster, PlaceInv, PoolHasPlace, AtClusters
  <2>2. <<>> \in Seq(Entries)
    OBVIOUS
  <2>. QED  BY <1>0, <1>1, <2>1, <2>2
<1>3. CASE StartEncode
  <2>1. /\ ~PoolEmpty /\ arch' = With(arch, Begin, Encoded(Begin, upto - 1)) /\ pool' = pool
        /\ left' = left /\ upto = Begin + SizeCluster /\ upto <= Last
    BY <1>3 DEF StartEncode, PlaceInv, PoolHasPlace, AtClusters
  <2>2. /\ Begin \in Int /\ upto - 1 \in Int /\ Begin <= upto - 1 + 1
        /\ Begin .. upto - 1 \subseteq DOMAIN pool
    BY <2>1, PoolRuns, NumbersAreInts
  <2>3. Encoded(Begin, upto - 1) \in Seq(Entries)
    BY <2>2, EncodedType
  <2>. QED  BY <1>0, <1>1, <2>1, <2>3
<1>4. CASE Archive
  <2>1. ~PoolEmpty /\ arch' = With(arch, Begin, stream) /\ pool' = pool /\ left' = left
    BY <1>4 DEF Archive, PlaceInv, PoolHasPlace, AfterSave
  <2>2. stream \in Seq(Entries)
    BY DEF Types, SeqTypes
  <2>. QED  BY <1>0, <1>1, <2>1, <2>2
<1>5. CASE Save
  <2>1. NextId \in Numbers /\ left' = left
    BY <1>5, SaveAdds DEF Save
  <2>. QED  BY <1>0, <1>5, <2>1, SaveAdds, StoreGrows
<1>6. CASE Remove \/ RemoveFails
  <2>1. DOMAIN pool' \subseteq DOMAIN pool /\ (\A i \in DOMAIN pool' : pool'[i] = pool[i]) /\ arch' = arch
    BY <1>6 DEF Remove, RemoveFails, Without
  <2>2. PoolOK'
    <3>1. CASE Remove
      BY <1>0, <2>1, <3>1 DEF Remove
    <3>2. CASE RemoveFails
      <4> DEFINE b == Begin
      <4>1. left' = With(left, b, pool[b]) /\ b \in DOMAIN pool
        BY <3>2, PoolRuns DEF RemoveFails
      <4> HIDE DEF b
      <4>. QED  BY <1>0, <2>1, <4>1 DEF With
    <3>. QED  BY <1>6, <3>1, <3>2
  <2>. QED  BY <1>0, <2>1, <2>2
<1>7. CASE StartCheck
  <2>1. /\ arch' = arch
        /\ (pool' = pool /\ left' = left) \/ (pool' = Files /\ left' = <<>>)
    BY <1>7 DEF StartCheck
  <2>2. CASE pool' = Files /\ left' = <<>>
    <3>1. /\ DOMAIN Files \subseteq Numbers /\ \A i \in DOMAIN Files : Files[i] \in Records \ Bad
          /\ DOMAIN <<>> = {}
      BY <1>0 DEF Files
    <3>. QED  BY <1>0, <2>1, <2>2, <3>1
  <2>. QED  BY <1>0, <2>1, <2>2
<1>8. CASE UNCHANGED <<pool, left, arch>>
  BY <1>0, <1>8
<1>. QED
  BY <1>2, <1>3, <1>4, <1>5, <1>6, <1>7, <1>8
     DEF Next, StartStep, TransactStep, vars, disk, Start, StartRepair, StartTail, StartAppend,
         StartAppendSpins, Pop, Reject, Duplicate, Admit, UpdateEma, NoArchive, Reopen,
         AppendRec, RemoveEnds, Add, End, Stop, Crash, Gone

\* What memory holds of the archive under way.
LEMMA StreamTypes ==
  ASSUME Types, DiskInv, PlaceInv, [Next]_vars
  PROVE  stream' \in Seq(Entries) /\ bFirst' \in BOOLEAN /\ xze' \in {"open", "ended"}
<1>0. stream \in Seq(Entries) /\ bFirst \in BOOLEAN /\ xze \in {"open", "ended"}
  BY DEF Types, TypeOK, SeqTypes
<1>1. CASE StartAppend
  <2>1. ~PoolEmpty /\ stream' = Encoded(Begin, Last) /\ bFirst' = FALSE /\ xze' = xze
    BY <1>1 DEF StartAppend, PlaceInv, PoolHasPlace, AtClusters
  <2>2. Begin \in Int /\ Last \in Int /\ Begin <= Last + 1 /\ Begin .. Last \subseteq DOMAIN pool
    BY <2>1, PoolRuns
  <2>. QED  BY <1>0, <2>1, <2>2, EncodedType
<1>2. CASE AppendRec
  <2> DEFINE e == Entry(Last, job, ~bFirst)
  <2>1. ~PoolEmpty /\ job \in Records
    BY <1>2 DEF AppendRec, PlaceInv, PoolHasPlace, JobHasPlace, AfterSave
  <2>2. e \in Entries
    <3>1. Last \in 0 .. MaxId
      BY <2>1, PoolRuns, NumbersAreInts
    <3>2. (~bFirst) \in BOOLEAN
      OBVIOUS
    <3>. QED  BY <2>1, <3>1, <3>2, Zenon DEF Entry, Entries
  <2>3. stream' = Append(stream, e) /\ bFirst' = FALSE /\ xze' = xze
    BY <1>2 DEF AppendRec, SavedId
  <2> HIDE DEF e
  <2>4. Append(stream, e) \in Seq(Entries)
    BY <1>0, <2>2
  <2>5. FALSE \in BOOLEAN
    OBVIOUS
  <2>. QED  BY <1>0, <2>3, <2>4, <2>5, Zenon
<1>3. CASE Start \/ Reopen
  <2>1. stream' = <<>> /\ bFirst' = TRUE /\ xze' = "open"
    BY <1>3 DEF Start, Reopen
  <2>2. <<>> \in Seq(Entries)
    OBVIOUS
  <2>. QED  BY <2>1, <2>2, Zenon
<1>4. CASE StartEncode \/ Archive
  BY <1>0, <1>4 DEF StartEncode, Archive
<1>5. CASE UNCHANGED encoder
  BY <1>0, <1>5 DEF encoder
<1>. QED
  BY <1>1, <1>2, <1>3, <1>4, <1>5
     DEF Next, StartStep, TransactStep, vars, encoder, StartCheck, StartRepair, StartCluster, StartTail,
         StartAppendSpins, Pop, Reject, Duplicate, Admit, Save, UpdateEma, NoArchive,
         Remove, RemoveFails, RemoveEnds, Add, End, Stop, Crash, Gone

\* A sequence without its last element, and that element.
LEMMA FrontOf ==
  ASSUME NEW S, NEW s \in Seq(S), Len(s) > 0
  PROVE  /\ SubSeq(s, 1, Len(s) - 1) \in Seq(S)
         /\ Len(SubSeq(s, 1, Len(s) - 1)) = Len(s) - 1
         /\ s[Len(s)] \in S
<1> DEFINE n == Len(s) - 1
           t == SubSeq(s, 1, n)
<1>1. n \in Nat /\ 1 \in Int /\ n \in Int /\ n < Len(s) /\ n + 1 = Len(s)
  OBVIOUS
<1>2. (\A i \in 1 .. n : s[i] \in S) /\ s[Len(s)] \in S
  OBVIOUS
<1>3. t \in Seq(S) /\ Len(t) = IF 1 <= n THEN n - 1 + 1 ELSE 0
  <2> HIDE DEF n
  <2>. QED  BY <1>1, <1>2, SubSeqProperties
<1> HIDE DEF t, n
<1>4. Len(t) = n
  BY <1>1, <1>3
<1>. QED  BY <1>2, <1>3, <1>4, Zenon DEF t, n

\* The queue and the table.
LEMMA QueueTypes ==
  ASSUME Types, DiskInv, PlaceInv, TableInv, [Next]_vars
  PROVE  /\ jobs' \in Seq(Records) /\ Len(jobs') <= MaxlenJob
         /\ job' \in Records \cup {NoRec} /\ ended' \in BOOLEAN
         /\ table' \in Seq(Records \ Bad) /\ Len(table') <= SizeTable
<1> DEFINE JobsOK == /\ jobs \in Seq(Records) /\ Len(jobs) <= MaxlenJob
                     /\ job \in Records \cup {NoRec} /\ ended \in BOOLEAN
           TableOK == table \in Seq(Records \ Bad) /\ Len(table) <= SizeTable
<1>0. JobsOK /\ TableOK /\ MaxlenJob \in Nat /\ SizeTable \in Nat
  BY RecKeepAssumption DEF Types, TypeOK, SeqTypes
<1>1. CASE Start
  <2>1. jobs' = <<>> /\ table' = <<>> /\ job' = NoRec /\ ended' = FALSE
    BY <1>1 DEF Start
  <2>2. <<>> \in Seq(Records) /\ <<>> \in Seq(Records \ Bad) /\ Len(<<>>) = 0
    OBVIOUS
  <2>3. 0 <= MaxlenJob /\ 0 <= SizeTable
    BY <1>0
  <2>. QED  BY <2>1, <2>2, <2>3, Zenon
<1>2. CASE Admit \/ Duplicate
  <2>1. job \in Records \ Bad /\ table' = Touch(job) /\ TableDiffers
    BY <1>2 DEF Admit, Duplicate, PlaceInv, JobHasPlace, TableInv
  <2>2. TableOK'
    BY <1>0, <2>1, TouchTells
  <2>3. JobsOK'
    BY <1>0, <1>2 DEF Admit, Duplicate, queue, JQ!Finish
  <2>. QED  BY <2>2, <2>3
<1>3. CASE Pop
  <2>1. jobs # <<>> /\ job' = jobs[Len(jobs)] /\ jobs' = SubSeq(jobs, 1, Len(jobs) - 1)
        /\ ended' = ended /\ table' = table
    BY <1>3 DEF Pop, JQ!Take
  <2>2. job' \in Records /\ jobs' \in Seq(Records) /\ Len(jobs') = Len(jobs) - 1
    <3>1. Len(jobs) > 0
      BY <1>0, <2>1
    <3>. QED  BY <1>0, <2>1, <3>1, FrontOf
  <2>. QED  BY <1>0, <2>1, <2>2
<1>4. ASSUME NEW r \in Records, Add(r) PROVE JobsOK' /\ TableOK'
  BY <1>0, <1>4 DEF Add, JQ!Push
<1>5. CASE UNCHANGED <<jobs, table>> /\ job' \in {job, NoRec} /\ ended' \in {ended, TRUE}
  BY <1>0, <1>5
<1>. QED
  BY <1>1, <1>2, <1>3, <1>4, <1>5
     DEF Next, StartStep, TransactStep, vars, queue, StartCheck, StartRepair, StartCluster, StartEncode, StartTail,
         StartAppend, StartAppendSpins, Reject, JQ!Finish, Save, UpdateEma, Archive, NoArchive,
         Reopen, AppendRec, Remove, RemoveFails, RemoveEnds, End, JQ!End, Stop, Crash, Gone

\* The numbers and the place of the process.
LEMMA NumberTypes ==
  ASSUME Types, DiskInv, PlaceInv, EmaInv', [Next]_vars
  PROVE  /\ ema' \in 0 .. MaxId + 1 /\ upto' \in 0 .. MaxId + 1 /\ born' \in 0 .. MaxId + 1
         /\ crashes' \in 0 .. MaxCrash
         /\ pc' \in ServingAt \cup {"down", "loaded", "refused", "checked", "reminders", "clusters", "encode",
                                    "archived", "tail", "spinning"}
<1>0. /\ ema \in 0 .. MaxId + 1 /\ upto \in 0 .. MaxId + 1 /\ born \in 0 .. MaxId + 1
      /\ crashes \in 0 .. MaxCrash /\ MaxCrash \in Nat /\ MaxId \in Nat
      /\ pc \in ServingAt \cup {"down", "loaded", "refused", "checked", "reminders", "clusters", "encode",
                                "archived", "tail", "spinning"}
  BY RecKeepAssumption DEF Types, TypeOK
<1>1. crashes' \in 0 .. MaxCrash
  <2>1. crashes' = crashes \/ (crashes < MaxCrash /\ crashes' = crashes + 1)
    BY DEF Next, StartStep, TransactStep, Start, StartCheck, StartRepair, StartCluster, StartEncode, StartTail,
           StartAppend, StartAppendSpins, Pop, Reject, Duplicate, Admit, Save, UpdateEma, Archive,
           NoArchive, Reopen, AppendRec, Remove, RemoveFails, RemoveEnds, Add, End, Stop, Crash, Gone, vars
  <2>. QED  BY <1>0, <2>1
<1>2. ema' \in 0 .. MaxId + 1
  <2>1. ema' = ema \/ ema' = ema + 1
    BY DEF Next, StartStep, TransactStep, Start, StartCheck, StartRepair, StartCluster, StartEncode, StartTail,
           StartAppend, StartAppendSpins, Pop, Reject, Duplicate, Admit, Save, UpdateEma, Archive,
           NoArchive, Reopen, AppendRec, Remove, RemoveFails, RemoveEnds, Add, End, Stop, Crash, Gone, vars, disk
  <2>2. NoResignStored' \in Nat /\ NoResignStored' <= MaxId + 1
    <3>1. NoResignStored \in Nat /\ NoResignStored <= NextId /\ NextId \in Int /\ NextId <= MaxId + 1
      BY NoResignCounted, NextIsNew
    <3>2. CASE Save
      <4>1. NextId <= MaxId
        BY <3>2 DEF Save, PlaceInv, JobHasPlace
      <4>2. NoResignStored' = NoResignStored \/ NoResignStored' = NoResignStored + 1
        BY <3>1, <3>2, NoResignGrows
      <4>. QED  BY <1>0, <3>1, <4>1, <4>2
    <3>3. CASE ~Save
      BY <1>0, <3>1, <3>3, NoResignKept
    <3>. QED  BY <3>2, <3>3
  <2>3. ema' <= NoResignStored'
    BY <1>0, <1>1, <2>1, <2>2 DEF EmaInv, Due
  <2>. QED  BY <1>0, <2>1, <2>2, <2>3
<1>3. born' \in 0 .. MaxId + 1
  <2>1. born' = born \/ born' = NextId
    BY DEF Next, StartStep, TransactStep, Start, StartCheck, StartRepair, StartCluster, StartEncode, StartTail,
           StartAppend, StartAppendSpins, Pop, Reject, Duplicate, Admit, Save, UpdateEma, Archive,
           NoArchive, Reopen, AppendRec, Remove, RemoveFails, RemoveEnds, Add, End, Stop, Crash, Gone, vars
  <2>. QED  BY <1>0, <2>1, NextIsNew
<1>4. upto' \in 0 .. MaxId + 1
  <2>1. CASE StartCluster \/ Archive
    <3>1. ~PoolEmpty /\ upto' = Begin + SizeCluster /\ Begin + SizeCluster <= Last
      BY <2>1 DEF StartCluster, Archive, PlaceInv, PoolHasPlace, AtClusters, AfterSave, ClusterDone
    <3>. QED  BY <1>0, <3>1, PoolRuns, NumbersAreInts
  <2>2. CASE StartRepair /\ upto' # upto
    <3>1. ~PoolEmpty /\ Begin % SizeCluster # 0 /\ upto' = ClusterEnd(Begin) /\ ClusterEnd(Begin) <= Last
      BY <2>2 DEF StartRepair, HasReminders
    <3>2. Begin <= ClusterEnd(Begin) /\ ClusterEnd(Begin) \in Int
      <4> SUFFICES ASSUME NEW b \in Int, b = Begin
                   PROVE  b <= ClusterEnd(b) /\ ClusterEnd(b) \in Int
        BY <3>1, PoolRuns
      <4> DEFINE k == (b \div SizeCluster) * SizeCluster
      <4>1. k \in Int /\ b < k + SizeCluster /\ ClusterEnd(b) = k + SizeCluster
        BY ClusterStart DEF Covers
      <4> HIDE DEF k
      <4>. QED  BY <4>1, NumbersAreInts
    <3>. QED  BY <1>0, <3>1, <3>2, PoolRuns
  <2>3. CASE upto' = upto
    BY <1>0, <2>3
  <2>. QED  BY <2>1, <2>2, <2>3
     DEF Next, StartStep, TransactStep, Start, StartCheck, StartEncode, StartTail,
         StartAppend, StartAppendSpins, Pop, Reject, Duplicate, Admit, Save, UpdateEma,
         NoArchive, Reopen, AppendRec, Remove, RemoveFails, RemoveEnds, Add, End, Stop, Crash, Gone, vars
<1>5. pc' \in ServingAt \cup {"down", "loaded", "refused", "checked", "reminders", "clusters", "encode",
                              "archived", "tail", "spinning"}
  BY <1>0
     DEF Next, StartStep, TransactStep, Start, StartCheck, StartRepair, StartCluster, StartEncode, StartTail,
         StartAppend, StartAppendSpins, Pop, Reject, Duplicate, Admit, Save, UpdateEma, Archive,
         NoArchive, Reopen, AppendRec, Remove, RemoveFails, RemoveEnds, Add, End, Stop, Crash, Gone, Goto, vars,
         AfterRemoval, ServingAt
<1>. QED  BY <1>1, <1>2, <1>3, <1>4, <1>5

-----------------------------------------------------------------------------
(* The theorems.                                                           *)

\* Before the first start there is no record, no archive, no estimate.
LEMMA InitInv ==
  ASSUME Init
  PROVE  IInv
<1>1. /\ pool = <<>> /\ left = <<>> /\ arch = <<>> /\ ema = 0 /\ stream = <<>> /\ bFirst = TRUE /\ xze = "ended"
      /\ table = <<>> /\ jobs = <<>> /\ job = NoRec /\ ended = FALSE
      /\ upto = 0 /\ pc = "down" /\ born = 0 /\ crashes = 0
  BY DEF Init, JQ!Init
<1>2. DOMAIN pool = {} /\ DOMAIN left = {} /\ DOMAIN arch = {} /\ PoolEmpty /\ NextId = 0
  BY <1>1 DEF PoolEmpty, NextId
<1>3. SeqTypes
  <2>1. <<>> \in Seq(Entries) /\ <<>> \in Seq(Records) /\ <<>> \in Seq(Records \ Bad)
    OBVIOUS
  <2>. QED  BY <1>1, <1>2, <2>1, Zenon DEF SeqTypes
<1>4. TypeOK
  <2>1. /\ 0 \in 0 .. MaxId + 1 /\ 0 \in 0 .. MaxCrash /\ Len(<<>>) = 0
        /\ 0 <= SizeTable /\ 0 <= MaxlenJob /\ DOMAIN <<>> = {}
    BY RecKeepAssumption
  <2>2. TRUE \in BOOLEAN /\ FALSE \in BOOLEAN
    OBVIOUS
  <2>. QED  BY <1>1, <1>2, <2>1, <2>2, Zenon DEF TypeOK
<1>5. DiskInv
  BY <1>2 DEF DiskInv, PoolIsRun, ArchiveIsPast, ArchivesWhole, GoneIsArchived, ArchiveAgrees,
         LeftIsArchived
<1>6. PlaceInv
  BY <1>1
     DEF PlaceInv, PoolAtStart, PoolHasPlace, JobHasPlace, StreamIsPool, Removing, AtClusters,
         BeforeSave, AfterSave
<1>7. EmaInv
  <2>1. {i \in 0 .. NextId - 1 : Stored(i) \in NoResign} = {}
    BY <1>2
  <2>2. NoResignStored = 0
    BY <2>1, FS_EmptySet DEF NoResignStored
  <2>. QED  BY <1>1, <2>2 DEF EmaInv, Due
<1>8. TableInv
  BY <1>1, <1>2 DEF TableInv
<1>9. NoDuplicateInOneLife
  BY <1>1, <1>2 DEF NoDuplicateInOneLife
<1>. QED  BY <1>3, <1>4, <1>5, <1>6, <1>7, <1>8, <1>9 DEF IInv, Types

\* Every step keeps the invariant.
LEMMA NextInv ==
  ASSUME IInv, [Next]_vars
  PROVE  IInv'
<1>0. Types /\ DiskInv /\ PlaceInv /\ EmaInv /\ TableInv /\ NoDuplicateInOneLife
  BY DEF IInv
<1>1. DiskInv' /\ PlaceInv' /\ EmaInv' /\ TableInv' /\ NoDuplicateInOneLife'
  BY <1>0, DiskStep, PlaceStep, EmaStep, TableStep, DuplicateStep
<1>2. SeqTypes'
  BY <1>0, DiskTypes, StreamTypes, QueueTypes DEF SeqTypes
<1>3. TypeOK'
  <2>1. /\ (\A k \in DOMAIN arch : \A n \in DOMAIN arch[k] : arch[k][n] \in Entries)'
        /\ (\A n \in DOMAIN stream : stream[n] \in Entries)'
        /\ (\A n \in DOMAIN table : table[n] \in Records \ Bad)'
        /\ (\A n \in DOMAIN jobs : jobs[n] \in Records)'
    BY <1>2 DEF SeqTypes
  <2>. QED  BY <1>0, <1>1, <2>1, DiskTypes, StreamTypes, QueueTypes, NumberTypes, Zenon DEF TypeOK
<1>. QED  BY <1>1, <1>2, <1>3 DEF IInv, Types

\* The whole invariant holds in every state the server can be in.
THEOREM Invariance == Spec => []IInv
<1>1. Init => IInv
  BY InitInv
<1>2. IInv /\ [Next]_vars => IInv'
  BY NextInv
<1>. QED  BY <1>1, <1>2, PTL DEF Spec

\* Variables keep their types, and the queue and the table their capacities, in
\* start() and transact() (datakeep.cpp:487-748).
THEOREM TypeCorrect == Spec => []TypeOK
<1>1. IInv => TypeOK
  BY DEF IInv, Types
<1>. QED  BY <1>1, Invariance, PTL

\* Whenever the process may be killed, a number whose pool file is gone is in the
\* whole archive of its cluster: transact() renames the archive before it removes a
\* file (datakeep.cpp:722-735), start() archives before it removes (540-575).
THEOREM ArchivesAreWhole == Spec => []ArchivesWhole
<1>1. IInv => ArchivesWhole
  BY DEF IInv, DiskInv
<1>. QED  BY <1>1, Invariance, PTL

\* start() refuses the pool that a crash left only where its own remove() failed
\* (datakeep.cpp:575) on a file whose record is in a whole archive: such a file stands
\* before each hole.  The archive under way is rewritten from a cluster's first number,
\* as datakeep.cpp:580 asserts.
THEOREM RestartIsSafe == Spec => []RestartFindsItsPool
<1>1. IInv => RestartFindsItsPool
  <2> SUFFICES ASSUME IInv PROVE RestartFindsItsPool
    OBVIOUS
  <2>0. Types /\ DiskInv /\ PlaceInv
    BY DEF IInv
  <2>1. pc = "tail" => Begin % SizeCluster = 0
    BY <2>0 DEF PlaceInv, PoolAtStart, PoolHasPlace, AtClusters
  <2>2. ASSUME NEW i \in DOMAIN Files, HoleAfter(i)
        PROVE  i \in DOMAIN left /\ \E k \in DOMAIN arch : Covers(k, i) /\ Whole(k)
    <3>1. DOMAIN Files = DOMAIN pool \cup DOMAIN left
      BY DEF Files
    <3>2. ~PoolEmpty
      BY <2>0, <2>2, <3>1 DEF DiskInv, LeftIsArchived, PoolEmpty
    <3>3. Begin \in Int /\ Last \in Int /\ 0 <= Begin /\ Begin <= Last /\ DOMAIN pool = Begin .. Last
      BY <2>0, <3>2, PoolRuns
    <3>4. \A j \in DOMAIN left : j \in Int /\ 0 <= j /\ j < Begin
      BY <2>0, NumbersAreInts DEF Types, TypeOK, DiskInv, LeftIsArchived
    <3>5. i \in DOMAIN left
      <4>1. PICK j \in DOMAIN Files : i < j
        BY <2>2 DEF HoleAfter
      <4>2. i + 1 \notin DOMAIN pool
        BY <2>2, <3>1 DEF HoleAfter
      <4>. QED  BY <3>1, <3>3, <3>4, <4>1, <4>2
    <3>6. i \in 0 .. Begin - 1
      BY <3>3, <3>4, <3>5
    <3>. QED  BY <2>0, <3>2, <3>5, <3>6 DEF DiskInv, GoneIsArchived
  <2>. QED  BY <2>1, <2>2 DEF RestartFindsItsPool
<1>. QED  BY <1>1, Invariance, PTL

\* transact() accepts a digest twice in one life of the server only after the table
\* had to forget it (datakeep.cpp:685-692).
THEOREM NoDuplicates == Spec => []NoDuplicateInOneLife
<1>1. IInv => NoDuplicateInOneLife
  BY DEF IInv
<1>. QED  BY <1>1, Invariance, PTL

\* EMAKeep::update() (datakeep.cpp:350-369) is fed with each stored record played
\* without resignation at most once, and misses at most one for each crash.
THEOREM EmaIsFedOnce == Spec => []EmaFollowsStore
<1>1. IInv => EmaFollowsStore
  <2> SUFFICES ASSUME IInv PROVE EmaFollowsStore
    OBVIOUS
  <2>1. NoResignStored \in Nat /\ ema \in Int /\ crashes \in Nat /\ Due \in 0 .. crashes
    BY NoResignCounted, RecKeepAssumption DEF IInv, Types, TypeOK, EmaInv
  <2>. QED  BY <2>1 DEF EmaFollowsStore, Due
<1>. QED  BY <1>1, Invariance, PTL

\* The store of the abstract specification is empty before the first record.
LEMMA RefinesInit ==
  ASSUME Init
  PROVE  Abstract!Init
<1>1. NextId = 0
  BY DEF Init, NextId, PoolEmpty
<1>2. StoreOf = [n \in {} |-> Stored(n - 1)]
  BY <1>1 DEF StoreOf
<1>. QED  BY <1>2 DEF Abstract!Init

\* A save is an acceptance; every other step leaves the store alone.
LEMMA RefinesNext ==
  ASSUME Types, DiskInv, PlaceInv, [Next]_vars
  PROVE  [Abstract!Next]_StoreOf
<1> SUFFICES ASSUME NEW m, m = NextId PROVE [Abstract!Next]_StoreOf
  OBVIOUS
<1>1. m \in Int /\ 0 <= m
  BY NextIsNew
<1>2. CASE Save
  <2>1. /\ NextId' = m + 1 /\ (\A i \in 0 .. m - 1 : Stored(i)' = Stored(i))
        /\ Stored(m)' = job /\ job \in Records
    BY <1>2, StoreGrows
  <2>2. StoreOf = [n \in 1 .. m |-> Stored(n - 1)]
    BY DEF StoreOf
  <2>3. StoreOf' = [n \in 1 .. m + 1 |-> Stored(n - 1)']
    BY <2>1 DEF StoreOf
  <2>4. \A n \in 1 .. m : Stored(n - 1)' = Stored(n - 1)
    BY <1>1, <2>1
  <2>5. Append(StoreOf, job) = [n \in 1 .. m + 1 |-> IF n = m + 1 THEN job ELSE StoreOf[n]]
    BY <1>1, <2>2
  <2>6. \A n \in 1 .. m + 1 : Stored(n - 1)' = IF n = m + 1 THEN job ELSE StoreOf[n]
    <3> SUFFICES ASSUME NEW n \in 1 .. m + 1
                 PROVE  Stored(n - 1)' = IF n = m + 1 THEN job ELSE StoreOf[n]
      OBVIOUS
    <3>1. CASE n = m + 1
      <4>1. n - 1 = m
        BY <1>1, <3>1
      <4>. QED  BY <2>1, <3>1, <4>1
    <3>2. CASE n # m + 1
      BY <1>1, <2>2, <2>4, <3>2
    <3>. QED  BY <3>1, <3>2
  <2>7. StoreOf' = Append(StoreOf, job)
    BY <2>3, <2>5, <2>6
  <2>. QED  BY <2>1, <2>7 DEF Abstract!Next, Abstract!Accept
<1>3. CASE ~Save
  <2>1. NextId' = m /\ \A i \in 0 .. m - 1 : Stored(i)' = Stored(i)
    BY <1>3, StoreKept
  <2>2. \A n \in 1 .. m : Stored(n - 1)' = Stored(n - 1)
    BY <1>1, <2>1
  <2>. QED  BY <2>1, <2>2 DEF StoreOf
<1>. QED  BY <1>2, <1>3

\* Whatever crashes, the accepted records are a sequence that only grows at its end:
\* transact()'s numbers (datakeep.cpp:662-677) are given once, and neither a removal
\* nor an archive of start() or transact() loses or alters a record.
THEOREM Refinement == Spec => ImplementsRecStore
<1>1. Init => Abstract!Init
  BY RefinesInit
<1>2. IInv /\ [Next]_vars => [Abstract!Next]_StoreOf
  BY RefinesNext DEF IInv
<1>. QED  BY <1>1, <1>2, Invariance, PTL DEF Spec, ImplementsRecStore, Abstract!Spec
=============================================================================
