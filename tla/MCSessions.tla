------------------------------ MODULE MCSessions ------------------------------
(* Small instances of Sessions.                                            *)
EXTENDS Sessions

CONSTANTS d1, d2, h1, h2

Asked(o, ds, n) == [op |-> o, devices |-> ds, named |-> n]

\* Each request once, for one of the two devices where one will do.
MCRequests == {Asked("login", {d1}, FALSE), Asked("login", {d1}, TRUE), Asked("login", {d2}, FALSE),
               Asked("delete", {d1}, FALSE), Asked("delete", {d1, d2}, FALSE),
               Asked("all", {}, FALSE), Asked("deactivate", {}, FALSE),
               Asked("password", {d1}, FALSE)}
=============================================================================
