-------------------------- MODULE MCStreamPositions --------------------------
(* Small instances of StreamPositions for TLC. *)
EXTENDS StreamPositions

CONSTANTS a, b, u, v, w, x

\* Writers u and v and the reader on instance a, writer w on instance b.
HomeMC == [c \in Writers \cup Readers |-> IF c = w THEN b ELSE a]
=============================================================================
