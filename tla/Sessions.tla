------------------------------- MODULE Sessions -------------------------------
(***************************************************************************)
(* The sessions of one user: Login, Refresh, Logout, LogoutAll,            *)
(* DeleteDevices, ChangePassword and Deactivate of internal/service/users, *)
(* over the devices and the access and refresh tokens of internal/         *)
(* repository.                                                             *)
(*                                                                         *)
(* Each of them is one transaction of several statements at the isolation  *)
(* level READ COMMITTED.  A statement sees what was committed when it      *)
(* began; it waits for the rows it would change while another transaction  *)
(* has changed them, and then looks at those rows again, but at no others. *)
(* What a transaction has changed stays locked until its end, and nobody   *)
(* else sees it before.  A cycle of waits ends with one of the             *)
(* transactions aborted.                                                   *)
(*                                                                         *)
(* A grant is what a login or a refresh hands out: an access token and a   *)
(* refresh token.  (A client that wants no refresh token never uses it.)   *)
(***************************************************************************)
EXTENDS Naturals, FiniteSets, Relation

CONSTANTS Devices,
          Handlers,
          Requests,     \* what clients ask for beside Refresh: [op, devices, named]
          MaxRequests,  \* bound: requests
          MaxFaults     \* bound: aborted requests

ASSUME SessionsAssumption ==
  /\ IsFiniteSet(Devices) /\ IsFiniteSet(Handlers)
  /\ Requests \subseteq [op : {"login", "delete", "all", "deactivate", "password"},
                         devices : SUBSET Devices, named : BOOLEAN]
  /\ \A r \in Requests : r.op = "login" => \E d \in Devices : r.devices = {d}
  /\ {MaxRequests, MaxFaults} \subseteq Nat

VARIABLES
  \* committed: the rows of devices, whether the user is active, the grants
  \* [id, device, from], and the ids of those whose access token is revoked,
  \* whose refresh token is revoked, and whose refresh token is used
  devices, active, grants, ended, withdrawn, spent,
  pc, sess,             \* the handlers
  closed, replaced,     \* history: see TheOldEnds
  asked, faults

store   == <<devices, active, grants, ended, withdrawn, spent>>
history == <<closed, replaced>>
vars    == <<store, pc, sess, history, asked, faults>>

-----------------------------------------------------------------------------
Ids == {g.id : g \in grants}
Of(scope) == {g.id : g \in {x \in grants : x.device \in scope}}

NoGrant == [id |-> 0, device |-> CHOOSE d \in Devices : TRUE, from |-> 0]

(* A handler's session: the request, the grant it presents, the devices of *)
(* the statements under way and those still to come; the rows a statement  *)
(* has found; what the transaction has changed so far (ending access       *)
(* tokens, withdrawing or spending refresh tokens, holding and dropping    *)
(* device rows, the user's credential); and, as history, the ids that were *)
(* committed, and those that were closed, when it was asked.               *)
NoSession == [op |-> "none", presented |-> NoGrant, named |-> FALSE, scope |-> {}, rest |-> {},
              found |-> {}, end |-> {}, withdraw |-> {}, spend |-> {}, hold |-> {}, drop |-> {},
              user |-> FALSE, covered |-> {}, had |-> {}, dead |-> {}]

Phases == {"idle", "user", "upsert", "mark", "list", "next", "access", "end",
           "refresh", "withdraw", "drop", "commit"}

TypeOK ==
  /\ devices \subseteq Devices /\ active \in BOOLEAN
  /\ \A g \in grants : DOMAIN g = DOMAIN NoGrant /\ g.device \in Devices
  /\ Ids = 1..Cardinality(grants)
  /\ ended \subseteq Ids /\ withdrawn \subseteq Ids /\ spent \subseteq Ids
  /\ pc \in [Handlers -> Phases]
  /\ \A h \in Handlers : DOMAIN sess[h] = DOMAIN NoSession
  /\ closed \subseteq Ids /\ replaced \subseteq Ids
  /\ asked \in 0..MaxRequests /\ faults \in 0..MaxFaults

Init ==
  /\ devices = {} /\ active = TRUE /\ grants = {}
  /\ ended = {} /\ withdrawn = {} /\ spent = {}
  /\ pc = [h \in Handlers |-> "idle"] /\ sess = [h \in Handlers |-> NoSession]
  /\ closed = {} /\ replaced = {} /\ asked = 0 /\ faults = 0

Goto(h, phase) == pc' = [pc EXCEPT ![h] = phase]

-----------------------------------------------------------------------------
(* Locks: the rows another transaction has changed and not yet committed.  *)

Others(h)       == Handlers \ {h}
EndedBy(o)      == sess[o].end
ChangedBy(o)    == sess[o].withdraw \cup sess[o].spend
HeldBy(o)       == sess[o].hold \cup sess[o].drop

\* The handlers a handler has to wait for before its next step.
Blockers(h) ==
  {o \in Others(h) :
     \/ pc[h] = "user" /\ sess[h].op # "login" /\ sess[o].user
     \/ pc[h] = "upsert" /\ sess[h].scope \cap HeldBy(o) # {}
     \/ pc[h] = "mark" /\ sess[h].presented.id \in ChangedBy(o)
     \/ pc[h] = "end" /\ sess[h].found \cap EndedBy(o) # {}
     \/ pc[h] = "withdraw" /\ sess[h].found \cap ChangedBy(o) # {}
     \/ pc[h] = "drop" /\ sess[h].scope \cap devices \cap HeldBy(o) # {}}

Free(h) == Blockers(h) = {}

\* Somebody it waits for waits for it.
Deadlocked(h) ==
  TransitiveClosure([a, b \in Handlers |-> b \in Blockers(a)], Handlers)[h, h]

-----------------------------------------------------------------------------
(* Requests.                                                               *)

Begin(h, session) ==
  /\ pc[h] = "idle" /\ asked < MaxRequests
  /\ asked' = asked + 1
  /\ sess' = [sess EXCEPT ![h] = [session EXCEPT !.had = Ids, !.dead = closed]]
  /\ UNCHANGED <<store, history, faults>>

\* Mutant: a refresh token counts as usable until it has been used.
UsableUntilSpent(g) == g.id \notin spent

\* RefreshToken.Usable, looked at before the transaction.
Usable(g) == g.id \notin withdrawn \cup spent

Refresh(h) ==
  \E g \in grants : /\ Usable(g)
                    /\ Begin(h, [NoSession EXCEPT !.op = "refresh", !.presented = g])
                    /\ Goto(h, "mark")

\* Login for one device, DeleteDevices and Logout for some, LogoutAll and
\* Deactivate for all, ChangePassword for all but the caller's.
Ask(h) ==
  \E r \in Requests :
    /\ Begin(h, [NoSession EXCEPT !.op = r.op, !.named = r.named,
                   !.scope = IF r.op \in {"all", "deactivate"} THEN Devices ELSE r.devices])
    /\ Goto(h, CASE r.op \in {"login", "deactivate", "password"} -> "user"
                 [] r.op = "all"                                 -> "access"
                 [] OTHER                                        -> "list")

\* Mutant: a request that is refused leaves its transaction open.
RefuseHalfway(h) == Goto(h, "idle") /\ UNCHANGED <<store, sess, history, asked, faults>>

\* A request that is refused rolls back.
Refuse(h) == /\ Goto(h, "idle")
             /\ sess' = [sess EXCEPT ![h] = NoSession]
             /\ UNCHANGED <<store, history, asked, faults>>

Continue(h, phase, session) == /\ sess' = [sess EXCEPT ![h] = session]
                               /\ Goto(h, phase)
                               /\ UNCHANGED <<store, history, asked, faults>>

-----------------------------------------------------------------------------
(* The statements.                                                         *)

\* users.Get and Active; users.Deactivate and credentials.Delete, for a user
\* who is active; credentials.Upsert, which does not ask.
User(h) ==
  /\ pc[h] = "user" /\ Free(h)
  /\ \/ sess[h].op # "password" /\ ~active /\ Refuse(h)
     \/ sess[h].op = "login" /\ active /\ Continue(h, "upsert", sess[h])
     \/ sess[h].op = "deactivate" /\ active /\ Continue(h, "access", [sess[h] EXCEPT !.user = TRUE])
     \/ sess[h].op = "password" /\ Continue(h, "list", [sess[h] EXCEPT !.user = TRUE])

\* devices.Upsert: a row that exists and gets no new name is not touched.
Upsert(h) ==
  /\ pc[h] = "upsert" /\ Free(h)
  /\ Continue(h, "access",
       [sess[h] EXCEPT !.hold = IF sess[h].named THEN @ \cup sess[h].scope
                                ELSE @ \cup (sess[h].scope \ devices)])

\* Mutant: the statement does not ask whether the token has been used.
MarkAgain(h) ==
  /\ pc[h] = "mark" /\ Free(h)
  /\ Continue(h, "access", [sess[h] EXCEPT !.spend = {sess[h].presented.id},
                                           !.scope = {sess[h].presented.device}])

\* refresh.MarkUsed: only a token that is still unused, revoked or not.
Mark(h) ==
  /\ pc[h] = "mark" /\ Free(h)
  /\ IF sess[h].presented.id \in spent THEN Refuse(h)
     ELSE Continue(h, "access", [sess[h] EXCEPT !.spend = {sess[h].presented.id},
                                                !.scope = {sess[h].presented.device}])

\* ChangePassword lists the devices; the deletions go through a list.
List(h) ==
  /\ pc[h] = "list"
  /\ Continue(h, "next",
       [sess[h] EXCEPT !.scope = {}, !.rest = IF sess[h].op = "password"
                                              THEN devices \ sess[h].scope ELSE sess[h].scope])

NextDevice(h) ==
  /\ pc[h] = "next"
  /\ IF sess[h].rest = {} THEN Continue(h, "commit", sess[h])
     ELSE \E d \in sess[h].rest :
            Continue(h, "access", [sess[h] EXCEPT !.scope = {d}, !.rest = @ \ {d}])

\* tokens.RevokeForDevice or RevokeForUser: the rows it finds, ...
FindAccess(h) ==
  /\ pc[h] = "access"
  /\ Continue(h, "end", [sess[h] EXCEPT !.found = Of(sess[h].scope) \ ended,
                                        !.covered = @ \cup sess[h].scope])

\* ... and changes, once nobody else has them.
EndAccess(h) ==
  /\ pc[h] = "end" /\ Free(h)
  /\ Continue(h, IF sess[h].op = "refresh" THEN "commit" ELSE "refresh",
       [sess[h] EXCEPT !.end = @ \cup (sess[h].found \ ended), !.found = {}])

\* refresh.RevokeForDevice or RevokeForUser: the rows it finds, ...
FindRefresh(h) ==
  /\ pc[h] = "refresh"
  /\ Continue(h, "withdraw", [sess[h] EXCEPT !.found = Of(sess[h].scope) \ withdrawn])

\* Mutant: no refresh token is revoked.
WithdrawNothing(h) ==
  /\ pc[h] = "withdraw" /\ Free(h)
  /\ Continue(h, IF sess[h].op = "login" THEN "commit" ELSE "drop", [sess[h] EXCEPT !.found = {}])

\* ... and changes.
Withdraw(h) ==
  /\ pc[h] = "withdraw" /\ Free(h)
  /\ Continue(h, IF sess[h].op = "login" THEN "commit" ELSE "drop",
       [sess[h] EXCEPT !.withdraw = @ \cup (sess[h].found \ withdrawn), !.found = {}])

\* devices.Delete or DeleteAllForUser, for the rows that are there.
Drop(h) ==
  /\ pc[h] = "drop" /\ Free(h)
  /\ Continue(h, IF sess[h].op \in {"all", "deactivate"} THEN "commit" ELSE "next",
       [sess[h] EXCEPT !.drop = @ \cup (sess[h].scope \cap devices)])

-----------------------------------------------------------------------------
Hands(h) == sess[h].op \in {"login", "refresh"}

\* Mutant: the hash of what is handed out is one that is taken.
MintedTwice(h) == [id |-> Cardinality(grants), device |-> CHOOSE d \in sess[h].scope : TRUE,
                   from |-> sess[h].presented.id]

\* What the request hands out.
Minted(h) == [id |-> Cardinality(grants) + 1,
              device |-> CHOOSE d \in sess[h].scope : TRUE,
              from |-> sess[h].presented.id]

\* mintRefresh and MintForDevice, and the end of the transaction.
Commit(h) ==
  /\ pc[h] = "commit"
  /\ grants'    = IF Hands(h) THEN grants \cup {Minted(h)} ELSE grants
  /\ ended'     = ended \cup sess[h].end
  /\ withdrawn' = withdrawn \cup sess[h].withdraw
  /\ spent'     = spent \cup sess[h].spend
  /\ devices'   = (devices \cup sess[h].hold) \ sess[h].drop
  /\ active'    = (active /\ sess[h].op # "deactivate")
  /\ LET old == sess[h].had \cap Of(sess[h].covered) IN
       /\ replaced' = IF Hands(h) THEN replaced \cup old ELSE replaced
       /\ closed'   = IF sess[h].op # "refresh" THEN closed \cup old ELSE closed
  /\ Goto(h, "idle")
  /\ sess' = [sess EXCEPT ![h] = NoSession]
  /\ UNCHANGED <<asked, faults>>

\* deadlock_timeout: one of a cycle of waiting transactions is rolled back.
BreakDeadlock(h) == pc[h] # "idle" /\ Deadlocked(h) /\ Refuse(h)

\* A cancelled request, a failed statement, a lost connection.
Abort(h) ==
  /\ pc[h] # "idle" /\ faults < MaxFaults
  /\ Goto(h, "idle")
  /\ sess' = [sess EXCEPT ![h] = NoSession]
  /\ faults' = faults + 1
  /\ UNCHANGED <<store, history, asked>>

-----------------------------------------------------------------------------
Step(h) == \/ User(h) \/ Upsert(h) \/ Mark(h) \/ List(h) \/ NextDevice(h)
           \/ FindAccess(h) \/ EndAccess(h) \/ FindRefresh(h) \/ Withdraw(h) \/ Drop(h)
           \/ Commit(h) \/ BreakDeadlock(h)

Next == \E h \in Handlers : Ask(h) \/ Refresh(h) \/ Step(h) \/ Abort(h)

Spec == Init /\ [][Next]_vars

(* Fairness.  A handler runs on; a statement that waits for rows gets them *)
(* or is chosen to break a deadlock.                                       *)
FairSpec == Spec /\ \A h \in Handlers : WF_vars(Step(h))

-----------------------------------------------------------------------------
(* Properties.                                                             *)

(* A refresh token is exchanged at most once, whoever presents it at the   *)
(* same time, although it is looked at before the transaction.             *)
SpentOnce == \A g, k \in grants : g.from = k.from /\ g.from # 0 => g = k

(* What was handed out before a login or a refresh of its device, or its   *)
(* deletion, was asked for has an access token that is revoked when the    *)
(* request is done; for a login and a deletion the refresh token as well.  *)
TheOldEnds == closed \cup replaced \subseteq ended /\ closed \subseteq withdrawn

(* A chain of refreshes does not cross a login or a deletion of its        *)
(* device: no refresh asked for after that hands anything out.             *)
NothingComesBack ==
  \A h \in Handlers : sess[h].op = "refresh" => sess[h].presented.id \notin sess[h].dead

(* Every request comes to an end, although refreshes lock the refresh      *)
(* token before the access tokens and all others after them.               *)
RequestsEnd == \A h \in Handlers : pc[h] # "idle" ~> pc[h] = "idle"
=============================================================================
