------------------------------ MODULE MCAgent ------------------------------
(* A small instance of Agent for TLC: two attempts of two answers, each of *)
(* at most two calls.                                                      *)
EXTENDS Agent

MCAttempt == 1..2
Call == TaskCalls \cup Builtins \cup {"other"}
MCAnswers == UNION {[1..n -> Call] : n \in 0..2}
=============================================================================
