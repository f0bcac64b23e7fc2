------------------------------ MODULE MCObserve ------------------------------
(* A worktree with two files.                                              *)
EXTENDS Observe
=============================================================================
