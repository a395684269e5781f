------------------------------- MODULE MCConsole -------------------------------
(* An instance of Console for TLC: two artifacts and a batch of one, two handlers
   of preferences, one stop. *)
EXTENDS Console

CONSTANTS a1, a2, h1, h2, v1, vFile, vForm, s1
=============================================================================
