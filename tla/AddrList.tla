------------------------------ MODULE AddrList ------------------------------
(* An address list of the server (src/server/listen.cpp): a set in memory and a *)
(* file that the operator edits. reload() reads the file when its size or its   *)
(* time of modification differ from what was noted; insert() adds an address to *)
(* both and notes the file as it then is. The mutex _m keeps the two apart, but *)
(* not the operator.                                                            *)
EXTENDS Integers, SequencesExt

CONSTANTS Addrs,
          MaxLines,   \* bound on the file
          Ticks       \* bound on the clock; changes within a tick have one time

VARIABLES there,   \* the file exists
          lines,   \* its lines, an address each, all of one length
          mtime,   \* its time of modification
          set,     \* _set
          noted,   \* <<_size, _mtim>>
          pc,      \* who holds _m: "free", "insert" and "reload" before and after stat()
          now,
          missed   \* history: an edit that stat() will not tell from what was noted
vars == <<there, lines, mtime, set, noted, pc, now, missed>>

Stat(l, t) == <<Len(l), t>>

\* Mutation: the time of modification is not compared.
DiffersInSize == noted[1] # Len(lines)

Differs == noted # Stat(lines, mtime)

\* reload() looks at the file first. A file that has gone empties the set, if it
\* was not empty when it was seen last.
Reload ==
  /\ pc = "free" /\ missed' = missed
  /\ \/ /\ ~there
        /\ set' = IF noted[1] > 0 THEN {} ELSE set
        /\ noted' = [noted EXCEPT ![1] = 0]
        /\ UNCHANGED pc
     \/ /\ there /\ Differs
        /\ noted' = Stat(lines, mtime)
        /\ set' = {}
        /\ pc' = "reload"
  /\ UNCHANGED <<there, lines, mtime, now>>
Read ==
  /\ pc = "reload"
  /\ set' = IF there THEN ToSet(lines) ELSE {}
  /\ pc' = "free" /\ missed' = FALSE
  /\ UNCHANGED <<there, lines, mtime, noted, now>>

\* insert() appends the address and looks at the file then. An edit that was not
\* read yet is taken for known.
Insert ==
  /\ pc = "free" /\ Len(lines) < MaxLines
  /\ \E a \in Addrs : set' = set \union {a} /\ lines' = Append(lines, a)
  /\ there' = TRUE /\ mtime' = now
  /\ pc' = "insert"
  /\ missed' = (missed \/ (there /\ Differs) \/ (~there /\ set # {}))
  /\ UNCHANGED <<noted, now>>
InsertStat ==
  /\ pc = "insert"
  /\ noted' = Stat(lines, mtime)
  /\ pc' = IF there THEN "free" ELSE "dead"
  /\ UNCHANGED <<there, lines, mtime, set, now, missed>>

\* The operator adds, drops or changes a line, or removes the file.
Edited == {Append(lines, a) : a \in Addrs}
          \union {RemoveAt(lines, i) : i \in DOMAIN lines}
          \union {[lines EXCEPT ![i] = a] : i \in DOMAIN lines, a \in Addrs}
Edit ==
  /\ \/ \E l \in Edited : Len(l) <= MaxLines /\ lines' = l /\ there' = TRUE
     \/ there /\ there' = FALSE /\ lines' = <<>>
  /\ mtime' = now
  /\ missed' = (missed \/ pc = "insert"
                \/ (pc = "free" /\ there' /\ Stat(lines', mtime') = noted))
  /\ UNCHANGED <<set, noted, pc, now>>
Tick == now < Ticks /\ now' = now + 1 /\ UNCHANGED <<there, lines, mtime, set, noted, pc, missed>>

Init == /\ there = FALSE /\ lines = <<>> /\ mtime = 0
        /\ set = {} /\ noted = <<0, 0>> /\ pc = "free"
        /\ now = 1 /\ missed = FALSE
Next == Reload \/ Read \/ Insert \/ InsertStat \/ Edit \/ Tick
Spec == Init /\ [][Next]_vars

----------------------------------------------------------------------------
\* A list that reload() would leave alone is the file's, unless an edit came
\* within the same tick, between an insert's write and its look at the file, or
\* between the last reload and an insert.
StaleOnlyIfMissed == pc = "free" /\ there /\ ~Differs /\ ~missed => set = ToSet(lines)
=============================================================================
