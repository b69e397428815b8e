----------------------------- MODULE MCStartup -----------------------------
(* Starts of the program with the scripts and models of the repository. *)
EXTENDS Startup, Schema
=============================================================================
