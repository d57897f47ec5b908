----------------------------- MODULE MCUploader ------------------------------
(* A small instance of Uploader for TLC. *)
EXTENDS Uploader

CONSTANTS p1, c1

MCProblems == {p1}
MCCheckers == {c1}
=============================================================================
