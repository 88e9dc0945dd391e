---------------------------- MODULE MCGenerations ----------------------------
(* Small instances of Generations for TLC. *)
EXTENDS Generations
=============================================================================
