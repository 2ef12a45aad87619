------------------------------- MODULE KeyStore -------------------------------
(***************************************************************************)
(* What the keys of a device promise to those who upload and claim them,   *)
(* as if every upload and every claim were one step: an upload brings all  *)
(* of its new one-time keys or none, under ids that have no key, and never *)
(* more than the cap allows; a claim takes one key away and hands it out;  *)
(* and a fallback key counts as unused until it has been handed out, which *)
(* only another fallback key undoes.                                       *)
(***************************************************************************)
EXTENDS Naturals, Sequences, FiniteSets

CONSTANTS None,            \* no fallback key
          MaxOneTimeKeys   \* 0: no cap

VARIABLES oneTime,         \* the keys: [key, material, ordinal]
          ordinal,         \* the last ordinal of a key
          fallback,        \* [key, used]
          handed           \* the keys handed out, in order

vars == <<oneTime, ordinal, fallback, handed>>

Init == /\ oneTime = {} /\ ordinal = 0 /\ handed = <<>>
        /\ fallback = [key |-> None, used |-> FALSE]

\* The keys of an upload: under ids of their own, in an order of their own.
New(keys) ==
  /\ IsFiniteSet(keys)
  /\ \A r \in keys : r.ordinal \in ordinal + 1 .. ordinal + Cardinality(keys)
  /\ \A r \in keys, s \in oneTime : r.key # s.key
  /\ \A r, s \in keys : r.key = s.key \/ r.ordinal = s.ordinal => r = s

\* A fallback key that is not the present one is unused.
Replaced == fallback'.key # fallback.key /\ ~fallback'.used

Upload == LET keys == oneTime' \ oneTime IN
  /\ oneTime \subseteq oneTime' /\ New(keys)
  /\ keys # {} /\ MaxOneTimeKeys # 0 => Cardinality(oneTime') <= MaxOneTimeKeys
  /\ ordinal' = ordinal + Cardinality(keys)
  /\ fallback' = fallback \/ Replaced
  /\ UNCHANGED handed

Claim == /\ \E r \in oneTime : oneTime' = oneTime \ {r} /\ handed' = Append(handed, r)
         /\ UNCHANGED <<ordinal, fallback>>

ClaimFallback == /\ fallback.key # None
                 /\ fallback' = [fallback EXCEPT !.used = TRUE]
                 /\ UNCHANGED <<oneTime, ordinal, handed>>

Next == Upload \/ Claim \/ ClaimFallback

Spec == Init /\ [][Next]_vars
=============================================================================
