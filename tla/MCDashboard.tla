------------------------------ MODULE MCDashboard ------------------------------
(* An instance of Dashboard for TLC: up to three events, of which a filter
   selects two; pages of one and two rows; two raw pages with one key. *)
EXTENDS Dashboard

MCMatching == [all |-> {1, 2, 3}, ssh |-> {1, 3}]
MCGroup    == <<1, 1, 2>>
MCPaths    == {<<"activity">>, <<"sessions">>, <<"raw", "events", "x">>,
               <<"raw", "sessions", "x">>, <<"nowhere">>}
===============================================================================
