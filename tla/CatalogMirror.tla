--------------------------- MODULE CatalogMirror ---------------------------
(***************************************************************************)
(* What the pipeline promises, without its workflows: a catalog that       *)
(* follows the folder.  Each file goes through a sequence of states, and   *)
(* the catalog shows for each document one of the states its file has been *)
(* in, going forward in that sequence and never back.  It may skip states  *)
(* and be late.  A moment in which a file cannot be read counts as one in  *)
(* which it is not there.                                                  *)
(***************************************************************************)
EXTENDS Naturals, Sequences

CONSTANTS
    Doc,            \* the documents
    Version,        \* the versions a file may have
    NoVersion       \* the file is not there

VARIABLES
    folder,         \* the state of each file
    past,           \* the states it has been in, this one last
    catalog,        \* the state the catalog shows
    shown,          \* which of the past states that is
    disturbed       \* documents for which no order is promised any more
vars == <<folder, past, catalog, shown, disturbed>>

Init ==
    /\ folder = [d \in Doc |-> NoVersion]
    /\ past = [d \in Doc |-> <<NoVersion>>]
    /\ catalog = folder
    /\ shown = [d \in Doc |-> 1]
    /\ disturbed = {}

\* The user changes a file.
Edit(d, v) ==
    /\ v # folder[d]
    /\ folder' = [folder EXCEPT ![d] = v]
    /\ past' = [past EXCEPT ![d] = Append(@, v)]
    /\ UNCHANGED <<catalog, shown, disturbed>>

\* A file cannot be read for a moment.
Outage(d) ==
    /\ past' = [past EXCEPT ![d] = @ \o <<NoVersion, folder[d]>>]
    /\ UNCHANGED <<folder, catalog, shown, disturbed>>

\* The catalog moves on to a later state.
Show(d, i) ==
    /\ shown[d] <= i \/ d \in disturbed
    /\ catalog' = [catalog EXCEPT ![d] = past[d][i]]
    /\ shown' = [shown EXCEPT ![d] = i]
    /\ UNCHANGED <<folder, past, disturbed>>

Disturb(d) ==
    /\ disturbed' = disturbed \cup {d}
    /\ UNCHANGED <<folder, past, catalog, shown>>

Next ==
    \E d \in Doc :
        \/ \E v \in Version \cup {NoVersion} : Edit(d, v)
        \/ Outage(d)
        \/ \E i \in 1 .. Len(past[d]) : Show(d, i)
        \/ Disturb(d)

Spec == Init /\ [][Next]_vars
=============================================================================
