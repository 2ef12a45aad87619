----------------------------- MODULE MCDeviceKeys -----------------------------
(* Small instances of DeviceKeys.                                          *)
EXTENDS DeviceKeys, TLC

CONSTANTS h1, h2, v1, v2, f1, f2, m1, m2

Key(k, m) == [key |-> k, material |-> m]

\* The first upload of a device, one with other keys under one of the same
\* ids, and one that only replenishes.
MCUploads == {[device |-> v1, oneTime |-> {Key(1, m1)}, fallback |-> f1],
              [device |-> v2, oneTime |-> {Key(1, m2), Key(2, m1)}, fallback |-> None],
              [device |-> None, oneTime |-> {Key(2, m1), Key(3, m1)}, fallback |-> f2]}

Symmetric == Permutations(Handlers)
=============================================================================
