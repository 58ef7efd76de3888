----------------------------- MODULE MCComparor -----------------------------
(* All pairs of files of at most MaxLength bytes. *)
EXTENDS Comparor

CONSTANT MaxLength

ShortFiles == UNION {[1..n -> Bytes] : n \in 0..MaxLength}
=============================================================================
