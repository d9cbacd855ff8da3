---------------------------- MODULE LedgerStore ----------------------------
(***************************************************************************)
(* The Postgres ledger, table ingested_files, as Store changes it          *)
(* (backend/internal/ingest/store.go): at most one row per document.  A    *)
(* document without a row has the row NoRow, whose version is what a Go    *)
(* map lookup of an absent key gives: the zero string, NoVersion.          *)
(***************************************************************************)
EXTENDS Naturals

CONSTANT NoVersion

NoRow == [version |-> NoVersion, count |-> 0, status |-> "absent"]

HasRow(ledger, d) == ledger[d].status # "absent"

\* Store.RecordIngestion: INSERT ... ON CONFLICT (doc_id) DO UPDATE.
RecordIngestion(ledger, d, v, n, s) ==
    [ledger EXCEPT ![d] = [version |-> v, count |-> n, status |-> s]]

\* Store.DeleteRecord.
DeleteRecord(ledger, d) == [ledger EXCEPT ![d] = NoRow]

\* Store.Versions: doc_id -> version for every row; no row, no version.
Versions(ledger) == [d \in DOMAIN ledger |-> ledger[d].version]
=============================================================================
