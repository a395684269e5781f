------------------------------ MODULE MCLiveFeed ------------------------------
(* An instance of LiveFeed for TLC: two publishers, channels of two entries, a
   feed of two items, a page that reconnects once. *)
EXTENDS LiveFeed

CONSTANTS p1, p2
===============================================================================
