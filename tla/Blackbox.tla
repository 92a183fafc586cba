------------------------------ MODULE Blackbox ------------------------------
(***************************************************************************)
(* The flight recorder of core/blackbox: a table of the database first, a  *)
(* file on disk when that fails.  The file is a path: current and rotated  *)
(* are the files the two paths name now, a file that has lost both is      *)
(* gone, and who has opened one goes on with it wherever its path has      *)
(* gone.  Each operator is one await of a recorder, or what an await       *)
(* reads.  A record is the moment of its capture.                          *)
(***************************************************************************)
EXTENDS Naturals, Sequences, FiniteSets

CONSTANT
    MaxSegment   \* MAX_FILE_BYTES, in records

ASSUME BlackboxAssumption == MaxSegment \in Nat \ {0}

VARIABLES
    primary,     \* blackbox_records
    files,       \* how many files there ever were: they are 1..files
    lines,       \* what was written to them, in that order
    current,     \* which of them is blackbox.jsonl, 0 for none
    rotated,     \* which is blackbox.jsonl.1, 0 for none
    pending      \* writes the runtime has accepted and not done

diskVars == <<files, lines, current, rotated, pending>>
blackboxVars == <<primary, diskVars>>

BlackboxInit ==
    /\ primary = {}
    /\ files = 0 /\ lines = <<>> /\ current = 0 /\ rotated = 0
    /\ pending = {}

In(f) == {i \in DOMAIN lines : lines[i].file = f}
Records(f) == {lines[i].record : i \in In(f)}
Reachable == Records(current) \cup Records(rotated)

Save(n) ==
    /\ primary' = primary \cup {n}
    /\ UNCHANGED diskVars

Oversized == current # 0 /\ Cardinality(In(current)) >= MaxSegment

\* Slip: the file that was rotated first is kept, and the next one removed.
RotateKeepingFirst ==
    \/ /\ current # 0
       /\ rotated' = IF rotated = 0 THEN current ELSE rotated
       /\ current' = 0
       /\ UNCHANGED <<primary, files, lines, pending>>
    \/ UNCHANGED blackboxVars

\* rename: what the second path named is gone.  Or it fails, as when there is
\* no file, and nobody asks.
Rotate ==
    \/ /\ current # 0
       /\ rotated' = current
       /\ current' = 0
       /\ UNCHANGED <<primary, files, lines, pending>>
    \/ UNCHANGED blackboxVars

\* open with create and append: the file to write to.
Opened == IF current = 0 THEN files + 1 ELSE current

Open ==
    /\ files' = IF current = 0 THEN files + 1 ELSE files
    /\ current' = Opened
    /\ UNCHANGED <<primary, lines, rotated, pending>>

\* write_all of a tokio file answers when the write is handed to a thread.
Write(f, n) ==
    /\ pending' = pending \cup {[file |-> f, record |-> n]}
    /\ UNCHANGED <<primary, files, lines, current, rotated>>

Flush(w) ==
    /\ w \in pending
    /\ lines' = Append(lines, w)
    /\ pending' = pending \ {w}
    /\ UNCHANGED <<primary, files, current, rotated>>

\* The disk is full, and nobody is told.
LoseWrite(w) ==
    /\ w \in pending
    /\ pending' = pending \ {w}
    /\ UNCHANGED <<primary, files, lines, current, rotated>>

-----------------------------------------------------------------------------
(* What tail reads.                                                        *)

Newest(S, limit) == {n \in S : Cardinality({m \in S : m > n}) < limit}

\* The last lines of a file, as far as it was read.
LastLines(f, limit, upto) ==
    {lines[i].record : i \in Newest({j \in In(f) : j <= upto}, limit)}

\* Slip: the backup counts only when the primary is empty.
FirstAnswer(rows, last, limit) == IF rows # {} THEN rows ELSE last

\* Each record once, newest first, cut to limit.
Merged(rows, last, limit) == Newest(rows \cup last, limit)
=============================================================================
