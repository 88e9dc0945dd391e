---- MODULE MCJobControl ----
(* JobControl has no constants to choose. *)
EXTENDS JobControl
====
