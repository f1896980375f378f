-------------------------- MODULE MCCapabilityRetry --------------------------
(* Nodes without dependencies for TLC: a node fails on its own.            *)
EXTENDS CapabilityRetry

MCIndependent == [n \in Node |-> {}]
=============================================================================
