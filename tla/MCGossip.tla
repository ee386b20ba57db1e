------------------------------ MODULE MCGossip ------------------------------
(***************************************************************************)
(* A tree with an inner node: root -> {a, b}, b -> {c, d}.                 *)
(***************************************************************************)
EXTENDS GossipRegistration

CONSTANTS root, a, b, c, d

InnerNode == [n \in Node \ {root} |-> IF n \in {c, d} THEN b ELSE root]
=============================================================================
