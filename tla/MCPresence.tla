----------------------------- MODULE MCPresence -----------------------------
(***************************************************************************)
(* A small instance of Presence: one user with two connections, so that a  *)
(* reconnection overlaps the tear-down of the connection before it.        *)
(***************************************************************************)
EXTENDS Presence

BothAnn == [c \in Conns |-> "ann"]
=============================================================================
