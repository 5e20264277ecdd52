------------------------------- MODULE Program -------------------------------
(***************************************************************************)
(* The name of the program that runs, for the modules that model several   *)
(* versions of one program.  It never changes.                             *)
(***************************************************************************)
VARIABLE program
=============================================================================
