---------------------------- MODULE MCIngestion ----------------------------
(***************************************************************************)
(* Instances of Ingestion for TLC: files of one chunk, of two, blank, of   *)
(* an unsupported format, and corrupt, each with a version token.          *)
(***************************************************************************)
EXTENDS Ingestion, TLC

CONSTANTS short, long, blank, image, broken, vShort, vLong, vBlank, vImage, vBroken

MCHash ==
    short :> vShort @@ long :> vLong @@ blank :> vBlank @@ image :> vImage @@ broken :> vBroken

Hashes == [c \in Content |-> MCHash[c]]
Chunks == [c \in Content |-> IF c = short THEN 1 ELSE IF c = long THEN 2 ELSE 0]
Images == Content \cap {image}
BrokenFiles == Content \cap {broken}
=============================================================================
