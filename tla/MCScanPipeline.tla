--------------------------- MODULE MCScanPipeline ---------------------------
(* Small instances of ScanPipeline for TLC: two files, two directories, and  *)
(* the catalogs an earlier scan may have left.                              *)
EXTENDS ScanPipeline, TLC

CONSTANTS f1, f2, a, b, A, B, d1, d2, w1, w2

Parent == (a :> A) @@ (b :> B)
Known(r) == [i \in Ids |-> IF i \in DOMAIN r THEN r[i] ELSE None]
At(p, f, failed) == [path |-> p, file |-> f, failed |-> failed]
On(p, q) == (a :> p) @@ (b :> q)

\* A first scan; a file that moved; one that moved onto the path of a failed
\* row; one that moved while another took its place.
Begin == {<<Known(<<>>), On(f1, f2)>>,
          <<Known(<<At(a, f1, FALSE)>>), On(None, f1)>>,
          <<Known(<<At(a, f1, FALSE), At(b, f2, TRUE)>>), On(None, f1)>>,
          <<Known(<<At(a, f1, FALSE)>>), On(f2, f1)>>}
=============================================================================
