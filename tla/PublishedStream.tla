--------------------------- MODULE PublishedStream ---------------------------
(***************************************************************************)
(* What a stream of positions promises to the readers that keep a cursor   *)
(* into it, whatever the number of server instances behind it.             *)
(*                                                                         *)
(* Positions are issued in increasing order.  The transaction that writes  *)
(* at a position is open until it commits or is abandoned.  An answer is a *)
(* position below every open one and not beyond what has been issued: a    *)
(* reader that has consumed everything up to an answer may throw away      *)
(* whatever lies below it.                                                 *)
(***************************************************************************)
EXTENDS Integers

CONSTANT FirstSeq   \* positions issued before the system starts

VARIABLES issued,     \* the last position issued
          open,       \* positions whose transaction is undecided
          committed,  \* positions whose transaction has committed
          answered    \* the greatest answer given

vars == <<issued, open, committed, answered>>

TypeOK == /\ issued \in Nat
          /\ open \subseteq Nat
          /\ committed \subseteq Nat
          /\ answered \in Nat

Init == /\ issued = FirstSeq
        /\ open = {}
        /\ committed = {}
        /\ answered = 0

\* A position is issued, and perhaps lost at once (nobody will write at it).
Issue == /\ issued' = issued + 1
         /\ open' \in {open, open \cup {issued + 1}}
         /\ UNCHANGED <<committed, answered>>

\* A transaction is decided: it commits at all of its positions or at none.
Decide == \E S \in SUBSET open :
            /\ S # {}
            /\ open' = open \ S
            /\ committed' \in {committed, committed \cup S}
            /\ UNCHANGED <<issued, answered>>

\* An answer: nothing at or below it can change any more.
Answer == /\ answered' \in Nat
          /\ answered' > answered
          /\ answered' <= issued
          /\ \A p \in open : answered' < p
          /\ UNCHANGED <<issued, open, committed>>

Next == Issue \/ Decide \/ Answer

Spec == Init /\ [][Next]_vars
=============================================================================
