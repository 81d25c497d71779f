----------------------------- MODULE MCTrashLog -----------------------------
(* Small instances of TrashLog for TLC: one file with a file_ref and one    *)
(* the catalog knows by its hash only.                                      *)
EXTENDS TrashLog, TLC

CONSTANTS f1, f2
=============================================================================
