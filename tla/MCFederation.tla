---------------------------- MODULE MCFederation ----------------------------
(***************************************************************************)
(* Federation as cmd/tekrood wires it: the context of a request carries no  *)
(* deadline.                                                                *)
(***************************************************************************)
EXTENDS Federation
TwoHomes == [a |-> "here", b |-> "there"]
OneThread == [t |-> "a"]
NoOffset == [s \in Sites |-> 0]
=============================================================================
