----------------------------- MODULE MCLegacySync -----------------------------
(* Small instances of LegacySync.                                          *)
EXTENDS LegacySync, TLC

CONSTANTS h1, h2, r1, r2, t1, t2, t3, tags, marker, room1, room2, alice

Symmetric == Permutations(Handlers) \cup Permutations(Requests) \cup Permutations(Rooms)
=============================================================================
