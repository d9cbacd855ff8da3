---------------------------- MODULE QdrantStore ----------------------------
(***************************************************************************)
(* The points of the Qdrant collection, as QdrantClient changes them       *)
(* (backend/internal/ingest/qdrant.go).  A collection is a set of points;  *)
(* a point carries the payload EmbedAndUpsert gives it: the document, the  *)
(* version token and the chunk index, which together are its identity, and *)
(* the text, here the file content the chunk was cut from.  The embedding  *)
(* vector is a function of the text and is left out.                       *)
(***************************************************************************)
EXTENDS Integers

\* Chunk.PointID: the UUIDv5 of "doc:version:index", taken as collision-free.
PointID(p) == <<p.doc, p.version, p.index>>

\* Mutant: the chunks are indexed from one too low.
ChunkPointsIndexedLow(d, v, content, n) ==
    {[doc |-> d, version |-> v, index |-> i - 1, text |-> content] : i \in 0 .. n - 1}

\* Mutant: the loop stops before the last chunk.
ChunkPointsButLast(d, v, content, n) ==
    {[doc |-> d, version |-> v, index |-> i, text |-> content] : i \in 0 .. n - 2}

\* The points of an n-chunk document: one per chunk, indexed from 0.
ChunkPoints(d, v, content, n) ==
    {[doc |-> d, version |-> v, index |-> i, text |-> content] : i \in 0 .. n - 1}

\* QdrantClient.Upsert: create, or replace the points that have these IDs.
Upsert(points, new) ==
    {p \in points : \A q \in new : PointID(p) # PointID(q)} \cup new

\* Mutant: the delete filter without its must_not clause.
DeleteStaleAllVersions(points, d, keep) == {p \in points : p.doc # d}

\* Mutant: the version clause in must instead of must_not.
DeleteKeptVersion(points, d, keep) ==
    {p \in points : p.doc # d \/ p.version # keep}

\* QdrantClient.DeleteStale: must match doc_id, must_not match version.
DeleteStale(points, d, keep) ==
    {p \in points : p.doc # d \/ p.version = keep}

\* QdrantClient.DeleteDocument: must match doc_id.
DeleteDocument(points, d) == {p \in points : p.doc # d}

PointsOf(points, d) == {p \in points : p.doc = d}

\* There is a point for each of the n chunks of a document's version.
HasChunks(points, d, v, n) ==
    \A i \in 0 .. n - 1 : \E p \in points : PointID(p) = <<d, v, i>>
=============================================================================
