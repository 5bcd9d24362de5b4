----------------------------- MODULE MCPyStream -----------------------------
(* A small instance of PyStream for TLC.                                   *)
EXTENDS PyStream

CONSTANTS p1, p2, p3
MCPiece == {p1, p2, p3}
=============================================================================
