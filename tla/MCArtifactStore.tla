------------------------- MODULE MCArtifactStore -------------------------
(***************************************************************************)
(* Instances of ArtifactStore for TLC: the pages v1 and v2 of one source,  *)
(* a PDF and a named document, with two contents on two stripes.           *)
(***************************************************************************)
EXTENDS ArtifactStore

CONSTANTS c1, c2, x, y, n, p, v1, v2, s1

Doc(hash, revision) ==
  [pdf |-> FALSE, name |-> None, hash |-> hash, source |-> p, revision |-> revision, session |-> s1]
Named(hash) ==
  [pdf |-> FALSE, name |-> n, hash |-> hash, source |-> None, revision |-> None, session |-> None]
Pdf(hash) == [Doc(hash, v2) EXCEPT !.pdf = TRUE, !.session = None]

MCUnits ==
  c1 :> {<<Doc(x, v1)>>, <<Doc(x, v1), Doc(x, v1)>>, <<Doc(x, v1), Doc(y, v2)>>,
        <<Named(x), Doc(y, v1)>>} @@
  c2 :> {<<Doc(y, v2)>>, <<Doc(x, v1)>>, <<Named(y), Named(y)>>, <<Pdf(x)>>, <<Doc(y, v1)>>}
MCStripe == x :> 1 @@ y :> 2

MCReplayUnits == c1 :> {<<Named(x), Named(x)>>} @@ c2 :> {<<Doc(x, v1)>>}
=============================================================================
