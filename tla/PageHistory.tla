----------------------------- MODULE PageHistory -----------------------------
(***************************************************************************)
(* What the page service of the wiki (examples/wiki/src/service.rs)        *)
(* promises: a page is a log to which every edit appends, and what it      *)
(* shows is the last entry.  An edit happens as a whole or not at all, one *)
(* at a time, and nothing else touches a log.  The handlers and the        *)
(* seeding, however they overlap, are shown to implement this module.      *)
(***************************************************************************)
EXTENDS Naturals, Sequences

CONSTANTS
    Slugs,
    Nothing       \* there is no page

VARIABLES
    shown,        \* what a reader of every page sees
    log,          \* the entries of every page, none where there is no page
    submitted     \* the edits that were submitted, which number their contents

Init ==
    /\ shown = [k \in Slugs |-> Nothing]
    /\ log = [k \in Slugs |-> <<>>]
    /\ submitted = 0

\* An edit arrives; it may come to nothing.
Submit ==
    /\ submitted' = submitted + 1
    /\ UNCHANGED <<shown, log>>

\* create: the page with its first entry.
Create(k) ==
    /\ shown[k] = Nothing
    /\ submitted' = submitted + 1
    /\ shown' = [shown EXCEPT ![k] = submitted']
    /\ log' = [log EXCEPT ![k] = <<submitted'>>]

\* The seeding has two transactions: the page, and its first entry.
Seed(k) ==
    /\ shown[k] = Nothing
    /\ submitted' = submitted + 1
    /\ shown' = [shown EXCEPT ![k] = submitted']
    /\ UNCHANGED log

Record(k) ==
    /\ shown[k] # Nothing /\ log[k] = <<>>
    /\ log' = [log EXCEPT ![k] = <<shown[k]>>]
    /\ UNCHANGED <<shown, submitted>>

\* update, and the restoration of an entry, which is an edit of its own.
Edit(k) ==
    /\ shown[k] # Nothing
    /\ \E c \in 1..submitted :
          /\ shown' = [shown EXCEPT ![k] = c]
          /\ log' = [log EXCEPT ![k] = Append(@, c)]
    /\ UNCHANGED submitted

\* delete: who creates the page again starts a new log.
Delete(k) ==
    /\ shown[k] # Nothing
    /\ shown' = [shown EXCEPT ![k] = Nothing]
    /\ log' = [log EXCEPT ![k] = <<>>]
    /\ UNCHANGED submitted

Next ==
    \/ Submit
    \/ \E k \in Slugs : Create(k) \/ Seed(k) \/ Record(k) \/ Edit(k) \/ Delete(k)

Spec == Init /\ [][Next]_<<shown, log, submitted>>
=============================================================================
