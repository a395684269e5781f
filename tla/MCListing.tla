------------------------------- MODULE MCListing -------------------------------
(* An instance of Listing for TLC: four events, pages of two rows. *)
EXTENDS Listing
===============================================================================
