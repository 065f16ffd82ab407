------------------------------ MODULE MCSocket ------------------------------
(***************************************************************************)
(* A small instance of Socket: two processes at a time and two inode       *)
(* numbers, so that a number is given out again while an old owner ends.   *)
(***************************************************************************)
EXTENDS Socket

=============================================================================
