----------------------------- MODULE ServerProofs -----------------------------
(***************************************************************************)
(* What the smaller parts of the server promise, each by its own            *)
(* specification: for any set of addresses, any length of the log and any   *)
(* number of lives, any set of weights.                                     *)
(*                                                                          *)
(* An address list: a list that reload() would leave alone was read, or     *)
(* extended by insert(), from the file as it is.  The log: what is in the   *)
(* log file is in the encoder too but for the line being written, and an    *)
(* archive of this life has a number below the next one, so that a rename   *)
(* takes the place of an earlier life's only.  The weights: what was ever   *)
(* given out was in the map and so in the list, which only grows.  The      *)
(* limits on connections come last.                                         *)
(***************************************************************************)
EXTENDS MCServer, TLAPS, FiniteSetTheorems, SequenceTheorems, WellFoundedInduction

-----------------------------------------------------------------------------
(* Sequences and their elements.                                           *)

\* A sequence with one more element.
LEMMA AppendTo ==
  ASSUME NEW S, NEW s \in Seq(S), NEW e \in S
  PROVE  LET t == Append(s, e)
         IN /\ t \in Seq(S) /\ Len(t) = Len(s) + 1 /\ t # <<>>
            /\ t[Len(t)] = e
            /\ \A i \in 1 .. Len(s) : t[i] = s[i]
            /\ {t[i] : i \in DOMAIN t} = {s[i] : i \in DOMAIN s} \cup {e}
<1> DEFINE t == Append(s, e)
<1>1. /\ t \in Seq(S) /\ Len(t) = Len(s) + 1 /\ t[Len(t)] = e
      /\ \A i \in 1 .. Len(s) : t[i] = s[i]
  OBVIOUS
<1>2. DOMAIN t = 1 .. Len(s) + 1 /\ DOMAIN s = 1 .. Len(s) /\ Len(s) \in Nat
  BY <1>1
<1> HIDE DEF t
<1>3. {t[i] : i \in DOMAIN t} = {s[i] : i \in DOMAIN s} \cup {e}
  <2>1. \A i : i \in DOMAIN t <=> (i \in DOMAIN s \/ i = Len(t))
    BY <1>1, <1>2
  <2>. QED  BY <1>1, <1>2, <2>1
<1>4. t # <<>>
  BY <1>1, <1>2
<1>. QED  BY <1>1, <1>3, <1>4 DEF t

\* The elements of an appended sequence, by the operator of each part.
LEMMA Elements ==
  ASSUME NEW S, NEW s \in Seq(S), NEW e \in S
  PROVE  /\ List!ToSet(Append(s, e)) = List!ToSet(s) \cup {e}
         /\ Log!ToSet(Append(s, e)) = Log!ToSet(s) \cup {e}
         /\ Wghts!ToSet(Append(s, e)) = Wghts!ToSet(s) \cup {e}
BY AppendTo DEF List!ToSet, Log!ToSet, Wghts!ToSet

\* A file that the operator changes by a line stays a sequence of addresses.
LEMMA EditedType ==
  ASSUME lines \in Seq(Addrs), NEW l \in List!Edited
  PROVE  l \in Seq(Addrs)
<1>1. CASE l \in {Append(lines, a) : a \in Addrs}
  BY <1>1
<1>2. CASE l \in {List!RemoveAt(lines, i) : i \in DOMAIN lines}
  <2> PICK i \in DOMAIN lines : l = List!RemoveAt(lines, i)
    BY <1>2
  <2>1. /\ \A k \in 1 .. Len(lines) : lines[k] \in Addrs
        /\ i \in 1 .. Len(lines) /\ Len(lines) \in Nat
    OBVIOUS
  <2>2. SubSeq(lines, 1, i - 1) \in Seq(Addrs)
    <3>1. \A k \in 1 .. i - 1 : lines[k] \in Addrs
      BY <2>1
    <3>2. 1 \in Int /\ i - 1 \in Int
      BY <2>1
    <3>. QED  BY <3>1, <3>2, SubSeqProperties
  <2>3. SubSeq(lines, i + 1, Len(lines)) \in Seq(Addrs)
    <3>1. \A k \in i + 1 .. Len(lines) : lines[k] \in Addrs
      BY <2>1
    <3>2. i + 1 \in Int /\ Len(lines) \in Int
      BY <2>1
    <3>. QED  BY <3>1, <3>2, SubSeqProperties
  <2>4. l = SubSeq(lines, 1, i - 1) \o SubSeq(lines, i + 1, Len(lines))
    BY DEF List!RemoveAt
  <2> DEFINE u == SubSeq(lines, 1, i - 1)
             v == SubSeq(lines, i + 1, Len(lines))
  <2>5. u \in Seq(Addrs) /\ v \in Seq(Addrs) /\ l = u \o v
    BY <2>2, <2>3, <2>4
  <2> HIDE DEF u, v
  <2>. QED  BY <2>5, ConcatProperties
<1>3. CASE l \in {[lines EXCEPT ![i] = a] : i \in DOMAIN lines, a \in Addrs}
  <2> PICK i \in DOMAIN lines, a \in Addrs : l = [lines EXCEPT ![i] = a]
    BY <1>3
  <2>. QED  BY ExceptSeq
<1>. QED  BY <1>1, <1>2, <1>3 DEF List!Edited

-----------------------------------------------------------------------------
(* The address list.                                                       *)

\* When an insert is between its write and its look at the file, the set is the
\* file's already.
ListInv ==
  /\ lines \in Seq(Addrs)
  /\ ~there => lines = <<>>
  /\ List!StaleOnlyIfMissed
  /\ al_pc = "insert" /\ ~missed => set = List!ToSet(lines)

\* The file is not there and nothing is noted.
LEMMA ListInit ==
  ASSUME List!Init
  PROVE  ListInv
<1>1. <<>> \in Seq(Addrs)
  OBVIOUS
<1>. QED  BY <1>1 DEF List!Init, ListInv, List!StaleOnlyIfMissed

\* Every step of the server, of the operator and of the clock keeps it.
LEMMA ListNext ==
  ASSUME ListInv, [List!Next]_(List!vars)
  PROVE  ListInv'
<1> USE DEF ListInv, List!StaleOnlyIfMissed, List!Differs, List!Stat
<1>1. CASE List!Reload
  BY <1>1 DEF List!Reload
<1>2. CASE List!Read
  BY <1>2 DEF List!Read
<1>3. CASE List!Insert
  <2>1. PICK a \in Addrs : set' = set \cup {a} /\ lines' = Append(lines, a)
    BY <1>3 DEF List!Insert
  <2>2. lines' \in Seq(Addrs) /\ List!ToSet(lines') = List!ToSet(lines) \cup {a}
    BY <2>1, AppendTo, Elements
  <2>3. there' /\ al_pc = "free" /\ al_pc' = "insert"
        /\ missed' = (missed \/ (there /\ List!Differs) \/ (~there /\ set # {}))
    BY <1>3 DEF List!Insert
  <2>4. ~missed' => set = List!ToSet(lines)
    <3>1. List!ToSet(<<>>) = {}
      BY DEF List!ToSet
    <3>. QED  BY <2>3, <3>1
  <2>. QED  BY <2>1, <2>2, <2>3, <2>4
<1>4. CASE List!InsertStat
  BY <1>4 DEF List!InsertStat
<1>5. CASE List!Edit
  <2>1. lines' \in Seq(Addrs) /\ (~there' => lines' = <<>>)
    <3>1. <<>> \in Seq(Addrs)
      OBVIOUS
    <3>. QED  BY <1>5, <3>1, EditedType DEF List!Edit
  <2>. QED  BY <1>5, <2>1 DEF List!Edit
<1>6. CASE List!Tick
  BY <1>6 DEF List!Tick
<1>7. CASE UNCHANGED List!vars
  BY <1>7 DEF List!vars
<1>. QED  BY <1>1, <1>2, <1>3, <1>4, <1>5, <1>6, <1>7 DEF List!Next

\* A list that reload() (listen.cpp:148-181) would leave alone is the file's, unless
\* an edit came at one of the moments in which stat() cannot tell it, for any number
\* of edits, inserts (:187-198) and ticks of the file system's clock.
THEOREM ListIsFresh == List!Spec => []StaleOnlyIfMissed
<1>1. List!Init => ListInv
  BY ListInit
<1>2. ListInv /\ [List!Next]_(List!vars) => ListInv'
  BY ListNext
<1>3. ListInv => StaleOnlyIfMissed
  BY DEF ListInv, StaleOnlyIfMissed
<1>. QED  BY <1>1, <1>2, <1>3, PTL DEF List!Spec

-----------------------------------------------------------------------------
(* The log.                                                                *)

Lines == Seq(0 .. LogLines)
Archived == [lines : Lines, life : Nat]

\* What the files and the counters are.
LogTypes ==
  /\ log = NoFile \/ log \in Lines
  /\ arch \in [Log!Nos -> Archived \cup {NoFile}]
  /\ xze \in Lines
  /\ no_arch \in Nat /\ next \in Nat \ {0} /\ life \in Nat
  /\ next <= LogLines + 1

Running == lg_pc # "down"
Rotating == {"close", "ended", "rotate", "rotate_log"}

\* The encoder has the log's lines, but for the one that was just written.
EncoderHasLog ==
  /\ lg_pc \in {"ready"} \cup Rotating => log \in Lines /\ xze = log
  /\ lg_pc = "wrote" => log \in Lines /\ log # <<>> /\ log = Append(xze, log[Len(log)])
  /\ lg_pc \in Rotating => log # <<>>
  /\ lg_pc = "ended" => tmp.lines = log
  /\ lg_pc = "open_log" => log = NoFile
  /\ lg_pc = "open" => log = NoFile
  /\ lg_pc \in {"rotate", "rotate_log"} =>
       arch[no_arch] # NoFile /\ arch[no_arch].lines = log

\* The name that the archive under way gets is free in this life, and is a name.
NameIsFree ==
  /\ Running => no_arch < next
  /\ lg_pc \in {"wrote"} \cup Rotating => no_arch + 1 < next
  /\ \A n \in Log!Nos : arch[n] # NoFile =>
       /\ arch[n].life <= life
       /\ Running /\ no_arch <= n /\ lg_pc \notin {"rotate", "rotate_log"} => arch[n].life < life
       /\ Running /\ no_arch < n => arch[n].life < life

LogInv == LogTypes /\ EncoderHasLog /\ NameIsFree /\ LinesKept

\* There is neither log nor archive.
LEMMA LogInit ==
  ASSUME Log!Init
  PROVE  LogInv
<1>1. <<>> \in Lines
  BY DEF Lines
<1>2. LogTypes
  BY <1>1, ServerAssumption DEF Log!Init, LogTypes
<1>3. EncoderHasLog
  BY DEF Log!Init, EncoderHasLog, Rotating
<1>4. NameIsFree
  BY DEF Log!Init, NameIsFree, Running, Rotating, Log!Nos
<1>5. LinesKept
  BY DEF Log!Init, LinesKept, Log!LinesKept
<1>. QED  BY <1>2, <1>3, <1>4, <1>5 DEF LogInv

\* A file is not the absence of one.
LEMMA FilesAreFiles ==
  /\ NoFile \notin Lines /\ NoFile \notin Archived
  /\ <<>> \in Lines /\ LogLines \in Nat
BY ServerAssumption DEF Lines, Archived

\* Types.
LEMMA LogTypesStep ==
  ASSUME LogInv, [Log!Next]_(Log!vars)
  PROVE  LogTypes'
<1>0. LogTypes /\ EncoderHasLog /\ NameIsFree
  BY DEF LogInv
<1> USE FilesAreFiles DEF LogTypes
<1>1. CASE Log!Start
  BY <1>0, <1>1 DEF Log!Start, Log!FirstNo
<1>2. CASE Log!Write
  <2>1. log \in Lines /\ next \in 0 .. LogLines
    BY <1>0, <1>2 DEF Log!Write, EncoderHasLog
  <2>2. Append(log, next) \in Lines
    BY <2>1, AppendTo DEF Lines
  <2>. QED  BY <1>0, <1>2, <2>1, <2>2 DEF Log!Write
<1>3. CASE Log!Encode
  <2>1. log \in Lines /\ log # <<>>
    BY <1>0, <1>3 DEF Log!Encode, EncoderHasLog
  <2>2. log[Len(log)] \in 0 .. LogLines
    BY <2>1 DEF Lines
  <2>3. Append(xze, Log!Last(log)) \in Lines
    BY <1>0, <2>2, AppendTo DEF Lines, Log!Last
  <2>. QED  BY <1>0, <1>3, <2>3 DEF Log!Encode, Log!files
<1>4. CASE Log!Rename
  <2>1. tmp.lines \in Lines
    BY <1>0, <1>4 DEF Log!Rename, EncoderHasLog, Rotating
  <2>2. [lines |-> tmp.lines, life |-> life] \in Archived
    BY <1>0, <2>1 DEF Archived
  <2>. QED  BY <1>0, <1>4, <2>2 DEF Log!Rename
<1>5. CASE Log!OpenLog
  BY <1>0, <1>5 DEF Log!OpenLog, Log!NextNo
<1>6. CASE Log!EndStream \/ Log!OpenTmp \/ Log!Crash \/ UNCHANGED Log!vars
  BY <1>0, <1>6 DEF Log!EndStream, Log!OpenTmp, Log!Crash, Log!vars, Log!files
<1>. QED  BY <1>1, <1>2, <1>3, <1>4, <1>5, <1>6 DEF Log!Next

\* What was just written is the last line of the log.
LEMMA EncoderStep ==
  ASSUME LogInv, [Log!Next]_(Log!vars)
  PROVE  EncoderHasLog'
<1>0. LogTypes /\ EncoderHasLog /\ NameIsFree
  BY DEF LogInv
<1> USE FilesAreFiles DEF EncoderHasLog, Rotating
<1>1. CASE Log!Start
  BY <1>0, <1>1 DEF Log!Start, LogTypes
<1>2. CASE Log!Write
  <2>1. log \in Lines /\ xze = log /\ next \in 0 .. LogLines
    BY <1>0, <1>2 DEF Log!Write, LogTypes
  <2>2. /\ Append(log, next) \in Lines /\ Append(log, next) # <<>>
        /\ Append(log, next)[Len(Append(log, next))] = next
    BY <2>1, AppendTo DEF Lines
  <2>3. log' = Append(log, next) /\ xze' = log /\ lg_pc' = "wrote"
    BY <1>2, <2>1 DEF Log!Write
  <2>. QED  BY <2>2, <2>3
<1>3. CASE Log!Encode
  BY <1>0, <1>3 DEF Log!Encode, Log!files, Log!Last
<1>4. CASE Log!EndStream
  BY <1>0, <1>4 DEF Log!EndStream
<1>5. CASE Log!Rename
  <2>1. no_arch \in Log!Nos /\ arch \in [Log!Nos -> Archived \cup {NoFile}]
    BY <1>0, <1>5 DEF Log!Rename, LogTypes, NameIsFree, Log!Nos
  <2>2. arch' = [arch EXCEPT ![no_arch] = [lines |-> log, life |-> life]]
    BY <1>0, <1>5 DEF Log!Rename
  <2>3. arch'[no_arch] = [lines |-> log, life |-> life]
    BY <2>1, <2>2
  <2>4. arch'[no_arch] \in Archived /\ arch'[no_arch].lines = log
    BY <1>0, <1>5, <2>3 DEF Log!Rename, LogTypes, Archived
  <2>. QED  BY <1>0, <1>5, <2>4 DEF Log!Rename
<1>6. CASE Log!OpenTmp
  BY <1>0, <1>6 DEF Log!OpenTmp
<1>7. CASE Log!OpenLog
  BY <1>7 DEF Log!OpenLog
<1>8. CASE Log!Crash \/ UNCHANGED Log!vars
  BY <1>0, <1>8 DEF Log!Crash, Log!vars, Log!files
<1>. QED  BY <1>1, <1>2, <1>3, <1>4, <1>5, <1>6, <1>7, <1>8 DEF Log!Next

\* Names are given in order; each takes at least one line.
LEMMA NameStep ==
  ASSUME LogInv, [Log!Next]_(Log!vars)
  PROVE  NameIsFree'
<1>0. LogTypes /\ EncoderHasLog /\ NameIsFree
  BY DEF LogInv
<1> USE FilesAreFiles DEF NameIsFree, Running, Rotating
<1>1. \A n \in Log!Nos : n \in Nat /\ (arch[n] # NoFile => arch[n].life \in Nat)
  BY <1>0 DEF LogTypes, Archived, Log!Nos
<1>2. CASE Log!Start
  BY <1>0, <1>1, <1>2 DEF Log!Start, Log!FirstNo, LogTypes
<1>3. CASE Log!Write
  BY <1>0, <1>1, <1>3 DEF Log!Write, LogTypes
<1>4. CASE Log!Rename
  <2>1. /\ arch' = [arch EXCEPT ![no_arch] = [lines |-> tmp.lines, life |-> life]]
        /\ lg_pc = "ended" /\ lg_pc' = "rotate" /\ UNCHANGED <<no_arch, life, next>>
    BY <1>4 DEF Log!Rename
  <2>2. \A n \in Log!Nos : n # no_arch => arch'[n] = arch[n]
    BY <1>0, <2>1 DEF LogTypes
  <2>3. no_arch \in Log!Nos => arch'[no_arch].life = life
    BY <1>0, <2>1 DEF LogTypes
  <2>. QED  BY <1>0, <1>1, <2>1, <2>2, <2>3 DEF LogTypes
<1>5. CASE Log!OpenLog
  BY <1>0, <1>1, <1>5 DEF Log!OpenLog, Log!NextNo, LogTypes
<1>6. CASE Log!Encode \/ Log!EndStream \/ Log!OpenTmp \/ Log!Crash \/ UNCHANGED Log!vars
  BY <1>0, <1>1, <1>6
     DEF Log!Encode, Log!EndStream, Log!OpenTmp, Log!Crash, Log!vars, Log!files, LogTypes
<1>. QED  BY <1>2, <1>3, <1>4, <1>5, <1>6 DEF Log!Next

\* A line is lost neither by a rename nor by a new log.
LEMMA LinesStep ==
  ASSUME LogInv, [Log!Next]_(Log!vars)
  PROVE  LinesKept'
<1>0. LogTypes /\ EncoderHasLog /\ NameIsFree /\ told \subseteq Log!InLog \cup Log!InArchives \cup replaced
  BY DEF LogInv, LinesKept, Log!LinesKept
<1> SUFFICES told' \subseteq (Log!InLog \cup Log!InArchives \cup replaced)'
  BY DEF LinesKept, Log!LinesKept
<1>1. \A n \in Log!Nos : arch[n] # NoFile => Log!ToSet(arch[n].lines) \subseteq Log!InArchives
  BY DEF Log!InArchives
<1>2. CASE Log!Write
  <2>1. log \in Lines /\ next \in 0 .. LogLines /\ log' = Append(log, next)
    BY <1>0, <1>2 DEF Log!Write, LogTypes, EncoderHasLog
  <2>2. Log!ToSet(log') = Log!ToSet(log) \cup {next} /\ log' \in Lines
    <3> DEFINE S == 0 .. LogLines
    <3>1. log \in Seq(S) /\ next \in S
      BY <2>1 DEF Lines
    <3> HIDE DEF S
    <3>2. Append(log, next) \in Seq(S)
      BY <3>1
    <3>3. Log!ToSet(Append(log, next)) = Log!ToSet(log) \cup {next}
      BY <3>1, Elements
    <3>. QED  BY <2>1, <3>2, <3>3 DEF Lines, S
  <2>3. Log!InLog \subseteq Log!InLog'
    BY <2>1, <2>2, FilesAreFiles DEF Log!InLog
  <2>4. Log!InArchives' = Log!InArchives /\ told' = told /\ replaced' = replaced
    BY <1>2 DEF Log!Write, Log!InArchives
  <2>. QED  BY <1>0, <2>3, <2>4
<1>3. CASE Log!Encode
  <2>1. log \in Lines /\ log # <<>>
    BY <1>0, <1>3 DEF Log!Encode, EncoderHasLog
  <2>2. Log!Last(log) \in Log!InLog
    <3>1. Len(log) \in DOMAIN log
      BY <2>1 DEF Lines
    <3>. QED  BY <2>1, <3>1, FilesAreFiles DEF Log!Last, Log!InLog, Log!ToSet
  <2>3. /\ told' \subseteq told \cup {Log!Last(log)} /\ replaced' = replaced
        /\ Log!InArchives' = Log!InArchives /\ Log!InLog' = Log!InLog
    BY <1>3 DEF Log!Encode, Log!files, Log!InArchives, Log!InLog
  <2>. QED  BY <1>0, <2>2, <2>3
<1>4. CASE Log!Rename
  <2>1. /\ arch' = [arch EXCEPT ![no_arch] = [lines |-> tmp.lines, life |-> life]]
        /\ Log!InLog' = Log!InLog /\ told' = told /\ lg_pc = "ended"
        /\ replaced' = IF arch[no_arch] # NoFile /\ arch[no_arch].life < life
                         THEN replaced \cup Log!ToSet(arch[no_arch].lines) ELSE replaced
    BY <1>4 DEF Log!Rename, Log!InLog
  <2>2. no_arch \in Log!Nos /\ (arch[no_arch] # NoFile => arch[no_arch].life < life)
    BY <1>0, <2>1, FilesAreFiles DEF LogTypes, NameIsFree, Running, Rotating, Log!Nos
  <2>3. Log!InArchives \subseteq (Log!InArchives \cup replaced)'
    <3> SUFFICES ASSUME NEW n \in Log!Nos, arch[n] # NoFile
                 PROVE  Log!ToSet(arch[n].lines) \subseteq (Log!InArchives \cup replaced)'
      BY DEF Log!InArchives
    <3>1. CASE n = no_arch
      BY <2>1, <2>2, <3>1
    <3>2. CASE n # no_arch
      <4>1. arch'[n] = arch[n]
        BY <1>0, <2>1, <3>2 DEF LogTypes
      <4>. QED  BY <4>1 DEF Log!InArchives
    <3>. QED  BY <3>1, <3>2
  <2>4. replaced \subseteq replaced'
    BY <2>1
  <2>. QED  BY <1>0, <2>1, <2>3, <2>4
<1>5. CASE Log!OpenLog
  <2>1. Log!InArchives' = Log!InArchives /\ replaced' = replaced
    BY <1>5 DEF Log!OpenLog, Log!InArchives
  <2>2. CASE lg_pc = "open_log"
    <3>1. Log!InLog = {} /\ told' = told
      BY <1>0, <1>5, <2>2 DEF Log!OpenLog, EncoderHasLog, Log!InLog
    <3>. QED  BY <1>0, <2>1, <3>1
  <2>3. CASE lg_pc = "rotate_log"
    <3>1. log \in Lines /\ log # <<>> /\ arch[no_arch] # NoFile /\ arch[no_arch].lines = log
      BY <1>0, <2>3 DEF EncoderHasLog, Rotating
    <3>2. no_arch \in Log!Nos
      BY <1>0, <2>3, FilesAreFiles DEF LogTypes, NameIsFree, Rotating, Log!Nos
    <3>3. Log!ToSet(log) \subseteq Log!InArchives
      BY <1>1, <3>1, <3>2
    <3>4. Log!InLog = Log!ToSet(log)
      BY <3>1, FilesAreFiles DEF Log!InLog
    <3>5. Log!Last(log) \in Log!ToSet(log)
      <4>1. Len(log) \in DOMAIN log
        BY <3>1 DEF Lines
      <4>. QED  BY <4>1 DEF Log!Last, Log!ToSet
    <3>6. told' = told \cup {Log!Last(log)}
      BY <1>5, <2>3 DEF Log!OpenLog
    <3>. QED  BY <1>0, <2>1, <3>3, <3>4, <3>5, <3>6
  <2>. QED  BY <1>5, <2>2, <2>3 DEF Log!OpenLog
<1>6. CASE Log!Start \/ Log!EndStream \/ Log!OpenTmp \/ Log!Crash \/ UNCHANGED Log!vars
  <2>1. log' = log /\ arch' = arch /\ told' = told /\ replaced' = replaced
    BY <1>6 DEF Log!Start, Log!EndStream, Log!OpenTmp, Log!Crash, Log!vars, Log!files
  <2>. QED  BY <1>0, <2>1 DEF Log!InLog, Log!InArchives
<1>. QED  BY <1>2, <1>3, <1>4, <1>5, <1>6 DEF Log!Next

\* Whenever the process ends and is started again, the lines that out()
\* (logging.cpp:80-92) has returned for are in the log or in an archive, but for those
\* of an archive whose name a later life gave again, having started from 0 (:36).
THEOREM LinesAreKept == Log!Spec => []LinesKept
<1>1. Log!Init => LogInv
  BY LogInit
<1>2. LogInv /\ [Log!Next]_(Log!vars) => LogInv'
  BY LogTypesStep, EncoderStep, NameStep, LinesStep DEF LogInv
<1>3. LogInv => LinesKept
  BY DEF LogInv
<1>. QED  BY <1>1, <1>2, <1>3, PTL DEF Log!Spec

-----------------------------------------------------------------------------
(* The weights.                                                            *)

\* The newest of some weight numbers is one of them.
LEMMA NewestIsOne ==
  ASSUME NEW T \in SUBSET Wghts!Nos, T # {}
  PROVE  Wghts!Max(T) \in T
<1> DEFINE below(n) == MaxNo - n
           S == {below(n) : n \in T}
<1>1. MaxNo \in Nat /\ \A n \in T : n \in Int /\ below(n) \in Nat
  BY ServerAssumption DEF Wghts!Nos
<1>2. IsWellFoundedOn(OpToRel(<, Nat), Nat)
  BY NatLessThanWellFounded
<1>3. S \subseteq Nat /\ S # {}
  BY <1>1
<1>4. \E x \in S : \A y \in S : ~(<<y, x>> \in OpToRel(<, Nat))
  <2> HIDE DEF S
  <2>. QED  BY <1>2, <1>3, WFMin
<1>5. PICK x \in S : \A y \in S : ~(y < x)
  BY <1>3, <1>4 DEF OpToRel
<1>6. PICK m \in T : x = below(m)
  BY <1>5
<1>7. \A n \in T : m >= n
  <2> SUFFICES ASSUME NEW n \in T PROVE m >= n
    OBVIOUS
  <2>1. below(n) \in S
    OBVIOUS
  <2>2. ~(below(n) < below(m))
    BY <1>5, <1>6, <2>1
  <2>. QED  BY <1>1, <2>2
<1>. QED  BY <1>6, <1>7 DEF Wghts!Max

\* What the server has given out it knows in memory, and what it knows in memory is
\* in the list but for the weight that is being added.
WghtsInv ==
  /\ dir \in [Wghts!Nos -> {"absent", "torn", "whole"}]
  /\ wk_list \in Seq(Wghts!Nos) /\ todo \subseteq Wghts!Nos
  /\ Wghts!IsInjective(wk_list)
  /\ served \subseteq Wghts!ToSet(wk_list)
  /\ wk_pc # "down" =>
       /\ served \subseteq map_wght
       /\ pwght # NoPw => pwght \in map_wght
       /\ Wghts!ToSet(wk_list) = map_wght \cup (IF wk_pc = "map" THEN {i64_now} ELSE {})
  /\ wk_pc = "append" => i64_now \in Wghts!Nos \ map_wght
  /\ wk_pc = "publish" => i64_now \in map_wght

\* Nothing is in the list.
LEMMA WghtsInit ==
  ASSUME Wghts!Init
  PROVE  WghtsInv
<1>1. <<>> \in Seq(Wghts!Nos) /\ DOMAIN <<>> = {}
  OBVIOUS
<1>2. wk_list = <<>> /\ todo = {} /\ served = {} /\ wk_pc = "down"
  BY DEF Wghts!Init
<1>3. dir \in [Wghts!Nos -> {"absent", "torn", "whole"}]
  BY DEF Wghts!Init
<1>. QED  BY <1>1, <1>2, <1>3, Zenon DEF WghtsInv, Wghts!IsInjective

\* A list that has each number once gets one that it has not.
LEMMA ListedOnce ==
  ASSUME NEW S, NEW s \in Seq(S), NEW e \in S, Wghts!IsInjective(s), e \notin Wghts!ToSet(s)
  PROVE  Wghts!IsInjective(Append(s, e))
<1> DEFINE t == Append(s, e)
<1>1. /\ Len(s) \in Nat /\ DOMAIN s = 1 .. Len(s) /\ DOMAIN t = 1 .. Len(s) + 1
      /\ t[Len(s) + 1] = e /\ \A i \in 1 .. Len(s) : t[i] = s[i]
  OBVIOUS
<1>2. \A i, k \in 1 .. Len(s) : s[i] = s[k] => i = k
  BY <1>1 DEF Wghts!IsInjective
<1>3. \A i \in 1 .. Len(s) : s[i] # e
  BY <1>1 DEF Wghts!ToSet
<1> HIDE DEF t
<1>4. \A i, k \in DOMAIN t : t[i] = t[k] => i = k
  <2>1. \A i \in DOMAIN t : i \in 1 .. Len(s) \/ i = Len(s) + 1
    BY <1>1
  <2>. QED  BY <1>1, <1>2, <1>3, <2>1
<1>. QED  BY <1>4 DEF Wghts!IsInjective, t

\* Every step keeps it.
LEMMA WghtsNext ==
  ASSUME WghtsInv, [Wghts!Next]_(Wghts!vars)
  PROVE  WghtsInv'
<1> USE DEF WghtsInv
<1>1. CASE Wghts!Start
  BY <1>1 DEF Wghts!Start
<1>2. CASE Wghts!Grab
  BY <1>2 DEF Wghts!Grab
<1>3. CASE Wghts!Look
  <2>1. todo # {} /\ wk_pc = "look"
    BY <1>3 DEF Wghts!Look
  <2>2. Wghts!Max(todo) \in Wghts!Nos
    BY <2>1, NewestIsOne
  <2> DEFINE n == Wghts!Max(todo)
  <2>3. /\ UNCHANGED <<dir, wk_list, map_wght, pwght, served>>
        /\ \/ wk_pc' = "down" /\ todo' = todo
           \/ wk_pc' = "look" /\ todo' = todo \ {n}
           \/ /\ todo' = {} /\ i64_now' = n
              /\ wk_pc' = IF n \in map_wght THEN "publish" ELSE "append"
    <3>1. dir[n] \in {"absent", "torn", "whole"}
      BY <2>2
    <3>2. CASE dir[n] = "absent"
      BY <1>3, <3>2 DEF Wghts!Look
    <3>3. CASE dir[n] = "torn"
      BY <1>3, <2>1, <3>3 DEF Wghts!Look
    <3>4. CASE dir[n] = "whole"
      BY <1>3, <3>4 DEF Wghts!Look, Wghts!Order
    <3>. QED  BY <3>1, <3>2, <3>3, <3>4
  <2> HIDE DEF n
  <2>. QED  BY <2>1, <2>2, <2>3 DEF n
<1>4. CASE Wghts!NoMore
  BY <1>4 DEF Wghts!NoMore
<1>5. CASE Wghts!AppendList
  <2>1. /\ wk_pc = "append" /\ wk_pc' = "map" /\ wk_list' = Append(wk_list, i64_now)
        /\ UNCHANGED <<dir, map_wght, i64_now, pwght, todo, served>>
    BY <1>5 DEF Wghts!AppendList, Wghts!Order
  <2>2. i64_now \in Wghts!Nos /\ i64_now \notin Wghts!ToSet(wk_list)
    BY <2>1
  <2>3. wk_list' \in Seq(Wghts!Nos) /\ Wghts!ToSet(wk_list') = Wghts!ToSet(wk_list) \cup {i64_now}
    BY <2>1, <2>2, Elements, AppendTo
  <2>4. Wghts!IsInjective(wk_list')
    BY <2>1, <2>2, ListedOnce
  <2>. QED  BY <2>1, <2>3, <2>4
<1>6. CASE Wghts!Map
  BY <1>6 DEF Wghts!Map, Wghts!Order
<1>7. CASE Wghts!Publish
  BY <1>7 DEF Wghts!Publish, Wghts!Order
<1>8. CASE Wghts!GetPw
  BY <1>8 DEF Wghts!GetPw
<1>9. CASE Wghts!Operator
  <2>1. UNCHANGED <<wk_list, map_wght, i64_now, pwght, wk_pc, todo, served>>
    BY <1>9 DEF Wghts!Operator
  <2>2. dir' \in [Wghts!Nos -> {"absent", "torn", "whole"}]
    BY <1>9 DEF Wghts!Operator, Wghts!Copies
  <2>. QED  BY <2>1, <2>2
<1>10. CASE Wghts!Crash \/ UNCHANGED Wghts!vars
  BY <1>10 DEF Wghts!Crash, Wghts!vars
<1>. QED  BY <1>1, <1>2, <1>3, <1>4, <1>5, <1>6, <1>7, <1>8, <1>9, <1>10 DEF Wghts!Next

\* A record by a weight that get_pw() (datakeep.cpp:412-414) ever gave to a connection
\* is not refused for its weight: start() reads the list (:430-461) that get_new_wght()
\* (:399-408) completes before it gives the weight out, wherever the server ended.
THEOREM ServedAreKnown == Wghts!Spec => []ServedIsKnown
<1>1. Wghts!Init => WghtsInv
  BY WghtsInit
<1>2. WghtsInv /\ [Wghts!Next]_(Wghts!vars) => WghtsInv'
  BY WghtsNext
<1>3. WghtsInv => ServedIsKnown
  BY DEF WghtsInv, ServedIsKnown, Wghts!ServedIsKnown
<1>. QED  BY <1>1, <1>2, <1>3, PTL DEF Wghts!Spec

-----------------------------------------------------------------------------
(***************************************************************************)
(* The limits on connections.                                              *)
(*                                                                         *)
(* The argument has two parts.  RingTells says that the ring, which is     *)
(* read and written modulo its length, tells the times of the counted      *)
(* connections; two places of the history that are less than a length      *)
(* apart never share a slot (ModDiffer).  With that the limits are about   *)
(* the history (ReadsHistory): a connection that is counted keeps the      *)
(* distance of RateLimited to the one maxconn places before it, and those  *)
(* distances leave no room for cutconn_min connections in a minute.        *)
(***************************************************************************)


-----------------------------------------------------------------------------
(* Remainders.                                                             *)

\* Division with remainder.
LEMMA ModRange ==
  ASSUME NEW a \in Int, NEW N \in Nat \ {0}
  PROVE  /\ (a % N) \in 0 .. N - 1
         /\ a = N * (a \div N) + (a % N)
         /\ a \div N \in Int
OBVIOUS

\* No multiple of N lies strictly between 0 and N.
LEMMA NoMultiple ==
  ASSUME NEW N \in Nat \ {0}, NEW q \in Int
  PROVE  ~(0 < N * q /\ N * q < N)
<1>1. CASE q <= 0
  BY <1>1, SMTT(30)
<1>2. CASE q >= 1
  BY <1>2, SMTT(30)
<1>. QED  BY <1>1, <1>2

\* Numbers less than N apart have different remainders: slots of a ring of length N
\* that stand for connections so close to each other are different slots.
LEMMA ModDiffer ==
  ASSUME NEW a \in Int, NEW b \in Int, NEW N \in Nat \ {0}, 0 < a - b, a - b < N
  PROVE  (a % N) # (b % N)
<1> DEFINE p == a \div N
           q == b \div N
           x == N * p
           y == N * q
<1>1. p \in Int /\ (a % N) \in Int /\ a = x + (a % N)
  BY ModRange
<1>2. q \in Int /\ (b % N) \in Int /\ b = y + (b % N)
  BY ModRange
<1>3. x \in Int /\ y \in Int
  BY <1>1, <1>2
<1>4. x - y = N * (p - q)
  <2> HIDE DEF p, q
  <2>. QED  BY <1>1, <1>2
<1>5. ~(0 < N * (p - q) /\ N * (p - q) < N)
  <2> HIDE DEF p, q
  <2>. QED  BY <1>1, <1>2, NoMultiple
<1> HIDE DEF p, q, x, y
<1>. QED  BY <1>1, <1>2, <1>3, <1>4, <1>5

-----------------------------------------------------------------------------
(* The ring.                                                               *)

\* The ring is longer than each limit.
LEMMA RingIsLonger ==
  /\ RingLen \in Nat \ {0}
  /\ maxconn_sec < RingLen /\ maxconn_min < RingLen /\ cutconn_min < RingLen
BY ConnLimitAssumption DEF RingLen, MaxOf

\* A place of the history has a slot.
LEMMA HasSlot ==
  ASSUME NEW a \in Int
  PROVE  (a % RingLen) \in RingAt
BY RingIsLonger, ModRange DEF RingAt

\* A limit is reached if the n-th last counted connection is within the window.
LEMMA ReadsHistory ==
  ASSUME TypeOK, RingTells, NEW n \in Nat \ {0}, n < RingLen, NEW window
  PROVE  Reached(n, window) <=> n <= len /\ now < counted[len - n + 1] + window
<1>1. ASSUME n <= len PROVE Ring[(len - n) % RingLen] = counted[len - n + 1]
  <2>1. known /\ Ring = ring
    BY <1>1 DEF TypeOK, RingTells, Ring
  <2>2. n \in 1 .. RingLen
    BY RingIsLonger
  <2>. QED  BY <1>1, <2>1, <2>2 DEF RingTells
<1>. QED  BY <1>1 DEF Reached

\* The ring that a connection reads has the type of one.
LEMMA RingType ==
  ASSUME TypeOK
  PROVE  Ring \in [RingAt -> Int]
BY ConnLimitAssumption DEF TypeOK, Ring, Hour

\* Times are numbers.
LEMMA TimesAreInts ==
  ASSUME TypeOK
  PROVE  /\ now \in Int /\ len \in Nat
         /\ \A i \in 1 .. Len(counted) : counted[i] \in Int
<1>1. 0 .. MaxNow \subseteq Int
  BY ConnLimitAssumption
<1> DEFINE S == 0 .. MaxNow
<1>2. counted \in Seq(S)
  BY DEF TypeOK
<1>3. \A i \in 1 .. Len(counted) : counted[i] \in S
  <2> HIDE DEF S
  <2>. QED  BY <1>2
<1>. QED  BY <1>1, <1>3 DEF TypeOK

\* Slots of connections that are less than the ring's length apart.
LEMMA SlotsDiffer ==
  ASSUME NEW a \in Int, NEW b \in Int, 0 < a - b, a - b < RingLen
  PROVE  (a % RingLen) # (b % RingLen)
BY RingIsLonger, ModDiffer, Zenon

\* A limit of the code is a number of connections the ring can tell.
LEMMA LimitsFit ==
  /\ maxconn_sec \in Nat \ {0} /\ maxconn_min \in Nat \ {0} /\ cutconn_min \in Nat \ {0}
  /\ Second \in Nat /\ Minute \in Nat
BY ConnLimitAssumption

-----------------------------------------------------------------------------
(* The inductive invariant.                                                *)

\* The invariant holds at the start.
LEMMA LimitsInit == Init => IInv
<1>. SUFFICES ASSUME Init PROVE IInv
  OBVIOUS
<1>1. TypeOK
  <2>1. counted \in Seq(0 .. MaxNow)
    BY DEF Init
  <2>2. ring \in [RingAt -> Int]
    BY DEF Init
  <2>3. 0 \in 0 .. MaxNow /\ 0 \in 0 .. max_accept /\ 0 \in 0 .. MaxRefused
    BY ConnLimitAssumption
  <2>. QED  BY <2>1, <2>2, <2>3 DEF Init, TypeOK
<1>. QED  BY <1>1 DEF Init, IInv, RingTells, RateLimited, InOrder, NeverDenied

\* A counted connection.
LEMMA CountInv ==
  ASSUME IInv, Count
  PROVE  IInv'
<1>. USE LimitsFit
<1>1. TypeOK /\ RingTells /\ RateLimited /\ InOrder /\ NeverDenied
  BY DEF IInv
<1>2. now \in 0 .. MaxNow /\ len \in Nat /\ counted \in Seq(0 .. MaxNow) /\ len = Len(counted)
  BY <1>1 DEF TypeOK, RingTells
<1>3. /\ now' = now /\ len' = len + 1 /\ known' = TRUE /\ denied' = denied
      /\ counted' = Append(counted, now)
      /\ ring' = [Ring EXCEPT ![len % RingLen] = now]
  BY DEF Count, PeersTaken, Recorded, OverRate
<1>4. /\ Len(counted') = len + 1
      /\ \A i \in 1 .. len : counted'[i] = counted[i]
      /\ counted'[len + 1] = now
  BY <1>2, <1>3
<1>5. TypeOK'
  <2>1. ring' \in [RingAt -> Int]
    <3> DEFINE slot == len % RingLen
    <3>1. slot \in RingAt
      BY <1>2, HasSlot
    <3>2. now \in Int /\ Ring \in [RingAt -> Int] /\ ring' = [Ring EXCEPT ![slot] = now]
      BY <1>1, <1>3, RingType, TimesAreInts
    <3> HIDE DEF slot
    <3>. QED  BY <3>1, <3>2
  <2>2. counted' \in Seq(0 .. MaxNow)
    BY <1>2, <1>3
  <2>3. peers' \in 0 .. max_accept
    BY <1>1, ConnLimitAssumption DEF Count, PeersTaken, Recorded, OverRate, TypeOK
  <2>. QED  BY <1>1, <1>2, <1>3, <2>1, <2>2, <2>3 DEF Count, PeersTaken, Recorded, OverRate, TypeOK
<1>6. RingTells'
  <2>1. ASSUME NEW n \in 1 .. RingLen, n <= len'
        PROVE  ring'[(len' - n) % RingLen] = counted'[len' - n + 1]
    <3>1. CASE n = 1
      <4>1. ring'[len % RingLen] = now
        BY <1>1, <1>2, <1>3, HasSlot, RingType
      <4>2. len' - n = len
        BY <1>2, <1>3, <3>1
      <4>. QED  BY <1>2, <1>4, <4>1, <4>2
    <3>2. CASE n # 1
      <4> DEFINE m == n - 1
      <4>1. /\ m \in 1 .. RingLen - 1 /\ m \in 1 .. RingLen /\ m <= len
            /\ len - m \in 1 .. len - 1 \cup {0} /\ len' - n = len - m
        BY <1>2, <1>3, <2>1, <3>2, RingIsLonger
      <4>2. (len % RingLen) # ((len - m) % RingLen)
        <5> HIDE DEF m
        <5>1. m \in Int /\ 0 < len - (len - m) /\ len - (len - m) < RingLen /\ len - m \in Int
          BY <1>2, <4>1, RingIsLonger
        <5>2. len \in Int
          BY <1>2
        <5>. QED  BY <5>1, <5>2, SlotsDiffer, Zenon
      <4>3. ring'[(len - m) % RingLen] = Ring[(len - m) % RingLen]
        <5> HIDE DEF m
        <5>. QED  BY <1>1, <1>2, <1>3, <4>1, <4>2, HasSlot, RingType
      <4>4. known /\ Ring = ring
        BY <1>1, <1>2, <4>1 DEF TypeOK, RingTells, Ring
      <4>5. ring[(len - m) % RingLen] = counted[len - m + 1]
        <5> HIDE DEF m
        <5>. QED  BY <1>1, <4>1 DEF RingTells
      <4>6. counted'[len - m + 1] = counted[len - m + 1]
        BY <1>2, <1>4, <4>1
      <4>. QED  BY <4>1, <4>3, <4>4, <4>5, <4>6
    <3>. QED  BY <3>1, <3>2
  <2>2. len' = Len(counted') /\ known'
    BY <1>3, <1>4
  <2>. QED  BY <2>1, <2>2 DEF RingTells, RingLen
<1>7. RateLimited'
  <2>1. ASSUME NEW m \in Nat \ {0}, NEW w \in Nat, m < RingLen, ~Reached(m, w),
               \A i, k \in 1 .. Len(counted) : k = i + m => counted[k] >= counted[i] + w,
               NEW i \in 1 .. Len(counted'), NEW k \in 1 .. Len(counted'), k = i + m
        PROVE  counted'[k] >= counted'[i] + w
    <3>1. CASE k <= len
      BY <1>2, <1>4, <2>1, <3>1
    <3>2. CASE k = len + 1
      <4>1. m <= len /\ i = len - m + 1 /\ i \in 1 .. len
        BY <1>2, <1>4, <2>1, <3>2
      <4>2. ~(now < counted[i] + w)
        BY <1>1, <2>1, <4>1, ReadsHistory
      <4>3. counted'[i] = counted[i] /\ counted[i] \in Int /\ counted'[k] = now /\ now \in Int
        BY <1>1, <1>2, <1>4, <3>2, <4>1, TimesAreInts
      <4>. QED  BY <4>2, <4>3
    <3>. QED  BY <1>2, <1>4, <3>1, <3>2
  <2>2. ~Reached(maxconn_sec, Second) /\ ~Reached(maxconn_min, Minute)
    BY DEF Count, PeersTaken, Recorded, OverRate
  <2>3. \A i, k \in 1 .. Len(counted') : k = i + maxconn_sec => counted'[k] >= counted'[i] + Second
    BY <1>1, <2>1, <2>2, RingIsLonger DEF RateLimited
  <2>4. \A i, k \in 1 .. Len(counted') : k = i + maxconn_min => counted'[k] >= counted'[i] + Minute
    BY <1>1, <2>1, <2>2, RingIsLonger DEF RateLimited
  <2>. QED  BY <2>3, <2>4 DEF RateLimited
<1>8. InOrder'
  <2>. SUFFICES ASSUME ~ClockStepsBack
                PROVE  /\ \A i, k \in 1 .. Len(counted') : i <= k => counted'[i] <= counted'[k]
                       /\ \A i \in 1 .. Len(counted') : counted'[i] <= now'
    BY DEF InOrder
  <2>1. \A i \in 1 .. len + 1 : counted'[i] <= now
    BY <1>1, <1>2, <1>4 DEF InOrder
  <2>2. ASSUME NEW i \in 1 .. len + 1, NEW k \in 1 .. len + 1, i <= k
        PROVE  counted'[i] <= counted'[k]
    <3>1. CASE k <= len
      BY <1>1, <1>2, <1>4, <2>2, <3>1 DEF InOrder
    <3>2. CASE k = len + 1
      BY <1>4, <2>1, <3>2
    <3>. QED  BY <1>2, <3>1, <3>2
  <2>. QED  BY <1>3, <1>4, <2>1, <2>2
<1>9. NeverDenied'
  BY <1>1, <1>3 DEF NeverDenied
<1>. QED  BY <1>5, <1>6, <1>7, <1>8, <1>9 DEF IInv

\* With a clock that is not set back and a higher limit for the deny list than the one
\* above which connections are not counted, the limit of the deny list is not reached.
LEMMA CutNotReached ==
  ASSUME TypeOK, RingTells, RateLimited, InOrder, ~ClockStepsBack, maxconn_min < cutconn_min
  PROVE  ~Reached(cutconn_min, Minute)
<1>. SUFFICES ASSUME Reached(cutconn_min, Minute) PROVE FALSE
  OBVIOUS
<1>. USE LimitsFit
<1> DEFINE i == len - cutconn_min + 1
           k == i + maxconn_min
<1>1. now \in Int /\ len \in Nat /\ counted \in Seq(0 .. MaxNow) /\ len = Len(counted)
  BY DEF TypeOK, RingTells
<1>2. cutconn_min <= len /\ now < counted[i] + Minute
  BY ReadsHistory, RingIsLonger
<1>3. i \in 1 .. Len(counted) /\ k \in 1 .. Len(counted)
  BY <1>1, <1>2
<1>4. counted[k] >= counted[i] + Minute
  BY <1>3 DEF RateLimited
<1>5. counted[k] <= now
  BY <1>3 DEF InOrder
<1>6. counted[i] \in Int /\ counted[k] \in Int
  BY <1>3, TimesAreInts
<1> HIDE DEF i, k
<1>. QED  BY <1>1, <1>2, <1>4, <1>5, <1>6

\* Every step keeps the invariant.
LEMMA LimitsNext == IInv /\ [Next]_vars => IInv'
<1>. SUFFICES ASSUME IInv, [Next]_vars PROVE IInv'
  OBVIOUS
<1>0. TypeOK /\ RingTells /\ RateLimited /\ InOrder /\ NeverDenied
  BY DEF IInv
<1>1. CASE Count
  BY <1>1, CountInv
<1>2. CASE Deny
  <2>1. ~(~ClockStepsBack /\ maxconn_min < cutconn_min)
    BY <1>0, <1>2, CutNotReached DEF Deny
  <2>2. TypeOK'
    BY <1>0, <1>2, RingType DEF TypeOK, Deny, Entered
  <2>3. RingTells'
    BY <1>0, <1>2, RingIsLonger DEF RingTells, Deny, Entered, Ring, TypeOK, RingLen
  <2>4. RateLimited' /\ InOrder'
    BY <1>0, <1>2 DEF Deny, RateLimited, InOrder
  <2>. QED  BY <2>1, <2>2, <2>3, <2>4 DEF IInv, NeverDenied
<1>3. CASE Refuse
  <2>1. TypeOK'
    BY <1>0, <1>3, RingType, ConnLimitAssumption DEF TypeOK, Refuse, OverRate, Entered
  <2>2. RingTells'
    BY <1>0, <1>3, RingIsLonger DEF RingTells, Refuse, OverRate, Entered, Ring, TypeOK, RingLen
  <2>3. RateLimited' /\ InOrder' /\ NeverDenied'
    BY <1>0, <1>3 DEF Refuse, OverRate, RateLimited, InOrder, NeverDenied
  <2>. QED  BY <2>1, <2>2, <2>3 DEF IInv
<1>4. CASE Remade
  <2>1. TypeOK'
    BY <1>0, <1>4, RingType DEF TypeOK, Remade, Entered
  <2>2. RingTells'
    BY <1>0, <1>4, RingIsLonger DEF RingTells, Remade, Entered, Ring, TypeOK, RingLen
  <2>3. RateLimited' /\ InOrder' /\ NeverDenied'
    BY <1>0, <1>4 DEF Remade, RateLimited, InOrder, NeverDenied
  <2>. QED  BY <2>1, <2>2, <2>3 DEF IInv
<1>5. CASE Tick
  <2>1. TypeOK' /\ RingTells' /\ RateLimited' /\ NeverDenied'
    BY <1>0, <1>5 DEF Tick, TypeOK, RingTells, RateLimited, NeverDenied, RingLen
  <2>2. InOrder'
    <3>1. ~ClockStepsBack => now <= now'
      BY <1>5 DEF Tick
    <3>2. now \in Int /\ now' \in Int /\ \A i \in 1 .. Len(counted) : counted[i] \in Int
      <4>1. now' \in Int
        BY <1>5, ConnLimitAssumption DEF Tick
      <4>. QED  BY <1>0, <4>1, TimesAreInts
    <3>3. counted' = counted
      BY <1>5 DEF Tick
    <3>. QED  BY <1>0, <3>1, <3>2, <3>3 DEF InOrder
  <2>. QED  BY <2>1, <2>2 DEF IInv
<1>6. CASE Evict
  <2>1. TypeOK'
    <3>1. counted' \in Seq(0 .. MaxNow)'
      BY <1>6 DEF Evict
    <3>2. ring' \in [RingAt -> Int]' /\ len' \in Nat
      BY <1>6 DEF Evict, RingAt, RingLen
    <3>. QED  BY <1>0, <1>6, <3>1, <3>2 DEF Evict, TypeOK
  <2>2. RingTells' /\ RateLimited' /\ InOrder' /\ NeverDenied'
    BY <1>0, <1>6 DEF Evict, RingTells, RateLimited, InOrder, NeverDenied
  <2>. QED  BY <2>1, <2>2 DEF IInv
<1>7. CASE OtherPeer \/ PeerCleared \/ Pardoned
  <2>1. TypeOK'
    <3>1. peers' \in 0 .. max_accept /\ denied' \in BOOLEAN
      <4>1. peers \in 0 .. max_accept /\ denied \in BOOLEAN
        BY <1>0 DEF TypeOK
      <4>2. CASE OtherPeer
        BY <4>1, <4>2, ConnLimitAssumption DEF OtherPeer
      <4>3. CASE PeerCleared
        BY <4>1, <4>3, ConnLimitAssumption DEF PeerCleared
      <4>4. CASE Pardoned
        BY <4>1, <4>4 DEF Pardoned
      <4>. QED  BY <1>7, <4>2, <4>3, <4>4
    <3>. QED  BY <1>0, <1>7, <3>1 DEF OtherPeer, PeerCleared, Pardoned, TypeOK, RingAt, RingLen
  <2>2. RingTells' /\ RateLimited' /\ InOrder' /\ NeverDenied'
    BY <1>0, <1>7
       DEF OtherPeer, PeerCleared, Pardoned, RingTells, RateLimited, InOrder, NeverDenied, RingLen
  <2>. QED  BY <2>1, <2>2 DEF IInv
<1>8. CASE UNCHANGED vars
  BY <1>0, <1>8 DEF vars, IInv, TypeOK, RingTells, RateLimited, InOrder, NeverDenied, RingLen
<1>. QED  BY <1>1, <1>2, <1>3, <1>4, <1>5, <1>6, <1>7, <1>8 DEF Next, Connect

\* The invariant holds in every state: the ring tells the history, for every length
\* of the ring and every number of connections (listen.cpp:315-333).
THEOREM LimitsInvariance == Spec => []IInv
BY LimitsInit, LimitsNext, PTL DEF Spec

-----------------------------------------------------------------------------
(* What it is for.                                                         *)

\* Every variable keeps its type (listen.cpp:46-85, 332-333).
THEOREM LimitsTypeCorrect == Spec => []TypeOK
<1>1. IInv => TypeOK
  BY DEF IInv
<1>. QED  BY <1>1, LimitsInvariance, PTL

\* No window of a second or of a minute holds more counted connections than its
\* limit allows, whatever the clock does (listen.cpp:322-333).
THEOREM RatesHold == Spec => []RateLimited
<1>1. IInv => RateLimited
  BY DEF IInv
<1>. QED  BY <1>1, LimitsInvariance, PTL

\* No address gets into the deny list by connecting too often when its limit is above
\* the limit per minute, as it is with the defaults (listen.cpp:315-320).
THEOREM DenyListUnreachable == Spec => []NeverDenied
<1>1. IInv => NeverDenied
  BY DEF IInv
<1>. QED  BY <1>1, LimitsInvariance, PTL

\* Whoever is put into the deny list made cutconn_min connections within a minute
\* (listen.cpp:315-320).
THEOREM DeniedForCause == Spec => DeniedOverLimit
<1> DEFINE Step == denied' => denied \/
       /\ cutconn_min <= Len(counted)
       /\ now < counted[Len(counted) - cutconn_min + 1] + Minute
<1>1. ASSUME IInv, [Next]_vars PROVE [Step]_vars
  <2>1. TypeOK /\ RingTells
    BY <1>1 DEF IInv
  <2>2. CASE Deny
    <3>1. Reached(cutconn_min, Minute)
      BY <2>2 DEF Deny
    <3>2. cutconn_min <= len /\ now < counted[len - cutconn_min + 1] + Minute
      BY <2>1, <3>1, ReadsHistory, RingIsLonger, LimitsFit
    <3>. QED  BY <2>1, <3>2 DEF RingTells
  <2>3. CASE Next /\ ~Deny
    BY <2>3 DEF Next, Connect, Refuse, Count, PeersTaken, Recorded, OverRate, Tick, OtherPeer, PeerCleared, Evict, Remade, Pardoned
  <2>. QED  BY <1>1, <2>2, <2>3
<1>. QED  BY <1>1, LimitsInvariance, PTL DEF Spec, DeniedOverLimit
=============================================================================
