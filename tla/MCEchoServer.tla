---------------------------- MODULE MCEchoServer ----------------------------
(* Two clients for each server, but four for the one with drained accepts: *)
(* there the first client hears nothing before two more have connected, so *)
(* that only the first two of four can have got a response, and speak.     *)
EXTENDS EchoServer

CONSTANTS c1, c2, c3, c4

MCArrivals == [p \in Programs |-> IF p = "drain" THEN <<c1, c2, c3, c4>> ELSE <<c1, c2>>]

MCSays == [p \in Programs |-> [c \in Clients |->
             IF p # "drain" THEN MaxMessages ELSE IF c \in {c1, c2} THEN 1 ELSE 0]]
=============================================================================
