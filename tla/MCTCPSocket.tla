---------------------------- MODULE MCTCPSocket ----------------------------
(* A small instance of TCPSocket for TLC. *)
EXTENDS TCPSocket, TLC

MCMaxData  == [e \in Endpoints |-> IF e = "client" THEN 2 ELSE 1]
MCFirstSeq == [e \in Endpoints |-> IF e = "client" THEN 1 ELSE 3]
=============================================================================
