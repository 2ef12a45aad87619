------------------------------ MODULE RoomWrites ------------------------------
(***************************************************************************)
(* The writes of one room: Send and Redact of internal/service/events and  *)
(* the repositories below them, the checks internal/service/rooms makes    *)
(* before it calls them, and Forget beside them.                           *)
(*                                                                         *)
(* A write passes the gate of its instance, waits for the room's lease in  *)
(* Valkey, and takes the room's advisory lock in the transaction that does *)
(* the work.  The lease may be lost while it is held, and a writer that    *)
(* has waited for it long enough goes on without it.  In the transaction   *)
(* the writer looks for an earlier attempt of the client, builds an event  *)
(* upon the forward extremity, authorises it by the state before it, draws *)
(* a position, and stores the event, the extremity, the projections and    *)
(* the client's transaction; nobody sees any of it before the commit.      *)
(*                                                                         *)
(* Requests are retried at will: the client of a write may issue it again  *)
(* at any time, whether or not the first attempt is done or was answered.  *)
(***************************************************************************)
EXTENDS AuthRules, FiniteSets, FiniteSetsExt

CONSTANTS Start,       \* the room's state when its creation is complete
          Requests,    \* the writes clients ask for: [op, content, txn]
          Handlers, Instances,
          Home,        \* the instance each handler runs on
          MaxPos,      \* bound: stream positions drawn
          MaxSweeps,   \* bound: sweeps of spent transactions
          MaxFaults    \* bound: aborted writes and lost leases

ASSUME RoomAssumption == /\ Start \in States
                         /\ Nobody \notin Handlers
                         /\ \A r \in Requests :
                              /\ "type" \in DOMAIN r.content
                              /\ r.op = "join" => r.content.type = "member"
                              /\ r.content.type = "power_levels" => r.content.levels \in Levels
                         /\ Home \in [Handlers -> Instances]
                         /\ {MaxPos, MaxSweeps, MaxFaults} \subseteq Nat

VARIABLES
  \* committed: the events, the forward extremities, the membership rows,
  \* the room's last_stream, the clients' transactions, who redacted what
  events, extremities, rows, lastStream, recorded, redactedBy,
  seq,                  \* the last position drawn
  locked, lease, gate,  \* who holds the advisory lock, the lease, each gate
  pc, sess,             \* the handlers
  answers,              \* history: [txn, era, pos] answered to clients
  sweeps, faults

store == <<events, extremities, rows, lastStream, recorded, redactedBy>>
locks == <<locked, lease, gate>>
vars  == <<store, seq, locks, pc, sess, answers, sweeps, faults>>

-----------------------------------------------------------------------------
NoTxn == "none"

\* The last event of the room's creation.
Root == [pos |-> 0, prev |-> -1, depth |-> 0, content |-> [type |-> "create"],
         before |-> Start, txn |-> NoTxn, era |-> 0]

Event(p)      == CHOOSE e \in events : e.pos = p
Stored(p)     == \E e \in events : e.pos = p
StateAfter(e) == Apply(e.before, e.content)

\* parent: the room's only forward extremity, without which nothing works.
Linear  == Cardinality(extremities) = 1
Parent  == Event(CHOOSE p \in extremities : TRUE)
Current == StateAfter(Parent)

NoSession == [op |-> "none", content |-> Root.content, txn |-> NoTxn, leased |-> FALSE,
              event |-> Root, replaces |-> {}, answer |-> 0]

InTransaction == {"read", "write", "commit"}
Phases == {"idle", "gate", "lease", "lock", "forget", "leave"} \cup InTransaction

TypeOK ==
  /\ Root \in events /\ \A e \in events : DOMAIN e = DOMAIN Root /\ e.pos \in 0..seq
  /\ extremities \subseteq 0..seq
  /\ \A u \in Users : rows[u].membership \in Memberships /\ rows[u].forgotten \in BOOLEAN
  /\ lastStream \in 0..seq /\ seq \in 0..MaxPos
  /\ \A t \in DOMAIN recorded : recorded[t] \in 1..seq
  /\ \A p \in DOMAIN redactedBy : Stored(p) /\ Stored(redactedBy[p])
  /\ locked \in Handlers \cup {Nobody} /\ lease \in Handlers \cup {Nobody}
  /\ gate \in [Instances -> Handlers \cup {Nobody}]
  /\ pc \in [Handlers -> Phases]
  /\ \A h \in Handlers : DOMAIN sess[h] = DOMAIN NoSession
  /\ sweeps \in 0..MaxSweeps /\ faults \in 0..MaxFaults

Init ==
  /\ events = {Root} /\ extremities = {0}
  /\ rows = [u \in Users |-> [membership |-> Start.member[u], event |-> 0, forgotten |-> FALSE]]
  /\ lastStream = 0 /\ recorded = <<>> /\ redactedBy = <<>> /\ seq = 0
  /\ locked = Nobody /\ lease = Nobody /\ gate = [i \in Instances |-> Nobody]
  /\ pc = [h \in Handlers |-> "idle"] /\ sess = [h \in Handlers |-> NoSession]
  /\ answers = {} /\ sweeps = 0 /\ faults = 0

Goto(h, phase) == pc' = [pc EXCEPT ![h] = phase]

-----------------------------------------------------------------------------
(* The rooms service: what it checks and fills in before it calls Send, in *)
(* the state of that moment.                                               *)

\* The members in whose name a restricted join may be made.
Grantors(s) == {u \in Users : Joined(s, u) /\ Reaches(s, u, "invite")}

\* The contents it hands to Send for a request: none, if it refuses.
Prepared(r, s) ==
  CASE r.op = "kick"  -> {c \in {r.content} : s.member[c.target] \in {"join", "invite", "knock"}}
    [] r.op = "unban" -> {c \in {r.content} : s.member[c.target] = "ban"}
    [] r.op = "join" /\ s.rule \in {"restricted", "knock_restricted"}
                     /\ s.member[r.content.target] \notin {"invite", "join"}
                      -> {[r.content EXCEPT !.via = u] : u \in Grantors(s)}
    [] OTHER          -> {r.content}

Request(h, r) ==
  /\ pc[h] = "idle"
  /\ seq + Cardinality({g \in Handlers : pc[g] # "idle"}) < MaxPos
  /\ r.op \in {"kick", "unban", "join"} => Linear
  /\ \E c \in Prepared(r, Current) :
       sess' = [sess EXCEPT ![h] = [NoSession EXCEPT !.op = r.op, !.content = c, !.txn = r.txn]]
  /\ Goto(h, "gate")
  /\ UNCHANGED <<store, seq, locks, answers, sweeps, faults>>

\* Forget reads the row, and then sets the flag whatever the row says now.
Forget(h) ==
  \/ /\ pc[h] = "idle"
     /\ \E u \in Users :
          /\ rows[u].membership \in {"leave", "ban"}
          /\ sess' = [sess EXCEPT ![h].op = "forget", ![h].content = [target |-> u]]
     /\ Goto(h, "forget")
     /\ UNCHANGED <<store, seq, locks, answers, sweeps, faults>>
  \/ /\ pc[h] = "forget"
     /\ rows' = [rows EXCEPT ![sess[h].content.target].forgotten = TRUE]
     /\ Goto(h, "idle")
     /\ sess' = [sess EXCEPT ![h] = NoSession]
     /\ UNCHANGED <<events, extremities, lastStream, recorded, redactedBy, seq, locks,
                    answers, sweeps, faults>>

-----------------------------------------------------------------------------
(* The three locks.                                                        *)

EnterGate(h) ==
  /\ pc[h] = "gate" /\ gate[Home[h]] = Nobody
  /\ gate' = [gate EXCEPT ![Home[h]] = h]
  /\ Goto(h, "lease")
  /\ UNCHANGED <<store, seq, locked, lease, sess, answers, sweeps, faults>>

TakeLease(h) ==
  /\ pc[h] = "lease" /\ lease = Nobody
  /\ lease' = h
  /\ sess' = [sess EXCEPT ![h].leased = TRUE]
  /\ Goto(h, "lock")
  /\ UNCHANGED <<store, seq, locked, gate, answers, sweeps, faults>>

\* Mutant: a writer that does not get the lease keeps waiting for it.
LeaseWaits(h) == FALSE /\ UNCHANGED vars

\* LockWait has passed: fall through to the database lock.
LeaseTimesOut(h) ==
  /\ pc[h] = "lease"
  /\ Goto(h, "lock")
  /\ UNCHANGED <<store, seq, locks, sess, answers, sweeps, faults>>

\* Valkey drops the lease; its holder may not have noticed yet.
LeaseIsLost ==
  /\ lease # Nobody /\ faults < MaxFaults
  /\ lease' = Nobody /\ faults' = faults + 1
  /\ UNCHANGED <<store, seq, locked, gate, pc, sess, answers, sweeps>>

\* Mutant: the gate and the lease are trusted to keep writers apart.
LockNothing(h) ==
  /\ pc[h] = "lock"
  /\ Goto(h, "read")
  /\ UNCHANGED <<store, seq, locks, sess, answers, sweeps, faults>>

\* The transaction begins with pg_advisory_xact_lock.
Lock(h) ==
  /\ pc[h] = "lock" /\ locked = Nobody
  /\ locked' = h
  /\ Goto(h, "read")
  /\ UNCHANGED <<store, seq, lease, gate, sess, answers, sweeps, faults>>

\* The end of a transaction gives the advisory lock back.
Unlock(h) == locked' = IF locked = h THEN Nobody ELSE locked

-----------------------------------------------------------------------------
(* The transaction.                                                        *)

IsRedaction(h) == sess[h].content.type = "redaction"

\* What the room is encrypted with is never redacted.
Redactable(e) == e.content.type # "encryption"

\* redact: the target exists and is not protected, and the sender wrote it
\* or has the power.
MayRedact(h) ==
  LET c == sess[h].content IN
    /\ Stored(c.redacts) /\ Redactable(Event(c.redacts))
    /\ \/ Event(c.redacts).content.sender = c.sender
       \/ Linear /\ CanRedact(Current, c.sender)

Replayed(h) == sess[h].txn \in DOMAIN recorded

\* replay: an earlier attempt has been recorded, and its event is the answer.
Replay(h) ==
  /\ pc[h] = "read"
  /\ IsRedaction(h) => MayRedact(h)
  /\ Replayed(h)
  /\ sess' = [sess EXCEPT ![h].answer = recorded[sess[h].txn]]
  /\ Goto(h, "commit")
  /\ UNCHANGED <<store, seq, locks, answers, sweeps, faults>>

Acceptable(h) == /\ IsRedaction(h) => MayRedact(h)
                 /\ Linear /\ Authorise(sess[h].content, Current)

\* send: build upon the parent, and authorise by the state after it.
Build(h) ==
  /\ pc[h] = "read" /\ ~Replayed(h) /\ Acceptable(h)
  /\ sess' = [sess EXCEPT ![h].event =
       [Root EXCEPT !.prev = Parent.pos, !.depth = Parent.depth + 1, !.before = Current,
                    !.content = sess[h].content, !.txn = sess[h].txn, !.era = sweeps]]
  /\ Goto(h, "write")
  /\ UNCHANGED <<store, seq, locks, answers, sweeps, faults>>

\* Mutant: the position after the last one, but not drawn from the sequence.
WriteUndrawn(h) ==
  /\ pc[h] = "write"
  /\ sess' = [sess EXCEPT ![h].event.pos = seq + 1, ![h].answer = seq + 1,
                          ![h].replaces = extremities]
  /\ Goto(h, "commit")
  /\ UNCHANGED <<store, seq, locks, answers, sweeps, faults>>

\* persist and ReplaceExtremities, seen by this transaction only.
Write(h) ==
  /\ pc[h] = "write"
  /\ seq' = seq + 1
  /\ sess' = [sess EXCEPT ![h].event.pos = seq + 1, ![h].answer = seq + 1,
                          ![h].replaces = extremities]
  /\ Goto(h, "commit")
  /\ UNCHANGED <<store, locks, answers, sweeps, faults>>

\* Mutant: the membership row of the sender is written, not the target's.
ProjectTheSender(e) ==
  IF e.content.type = "member"
  THEN [rows EXCEPT ![e.content.sender] =
          [membership |-> e.content.membership, event |-> e.pos, forgotten |-> FALSE]]
  ELSE rows

\* projectMembership: the row of the event's target.
Project(e) ==
  IF e.content.type = "member"
  THEN [rows EXCEPT ![e.content.target] =
          [membership |-> e.content.membership, event |-> e.pos, forgotten |-> FALSE]]
  ELSE rows

\* Mutant: an attempt is recorded only once it has been answered.
RecordNothing(h) == recorded

\* recordTransaction: the key is new, or the statement fails.
Record(h) == IF sess[h].txn = NoTxn THEN recorded
             ELSE [t \in DOMAIN recorded \cup {sess[h].txn} |->
                     IF t = sess[h].txn THEN sess[h].answer ELSE recorded[t]]

\* apply: a redaction marks what it is asked to redact.
Mark(h) == IF ~IsRedaction(h) THEN redactedBy
           ELSE [p \in DOMAIN redactedBy \cup {sess[h].content.redacts} |->
                   IF p = sess[h].content.redacts THEN sess[h].answer ELSE redactedBy[p]]

IsNew(h) == sess[h].event # Root

Commit(h) ==
  /\ pc[h] = "commit"
  /\ IF IsNew(h)
     THEN /\ ~Replayed(h)
          /\ events' = events \cup {sess[h].event}
          /\ extremities' = (extremities \ sess[h].replaces) \cup {sess[h].answer}
          /\ rows' = Project(sess[h].event)
          /\ lastStream' = Max({lastStream, sess[h].answer})
          /\ recorded' = Record(h)
     ELSE UNCHANGED <<events, extremities, rows, lastStream, recorded>>
  /\ redactedBy' = Mark(h)
  /\ Unlock(h)
  /\ Goto(h, "leave")
  /\ UNCHANGED <<seq, lease, gate, sess, answers, sweeps, faults>>

\* The request is refused, or a key is taken: the transaction rolls back.
Rollback(h) ==
  /\ \/ pc[h] = "read" /\ IsRedaction(h) /\ ~MayRedact(h)
     \/ pc[h] = "read" /\ ~Replayed(h) /\ ~Acceptable(h)
     \/ pc[h] = "commit" /\ IsNew(h) /\ Replayed(h)
  /\ Unlock(h)
  /\ sess' = [sess EXCEPT ![h].answer = 0, ![h].event = Root]
  /\ Goto(h, "leave")
  /\ UNCHANGED <<store, seq, lease, gate, answers, sweeps, faults>>

-----------------------------------------------------------------------------
FreeGate(h) == gate' = [i \in Instances |-> IF gate[i] = h THEN Nobody ELSE gate[i]]

\* The lease and the gate are given back, and the client is answered.
Leave(h) ==
  /\ pc[h] = "leave"
  /\ lease' = IF sess[h].leased /\ lease = h THEN Nobody ELSE lease
  /\ FreeGate(h)
  /\ answers' = IF sess[h].answer = 0 \/ sess[h].txn = NoTxn THEN answers
                ELSE answers \cup {[txn |-> sess[h].txn, pos |-> sess[h].answer]}
  /\ Goto(h, "idle")
  /\ sess' = [sess EXCEPT ![h] = NoSession]
  /\ UNCHANGED <<store, seq, locked, sweeps, faults>>

\* A cancelled request, a lost connection or lease, a killed instance: the
\* database rolls back; the lease is given back, or left to nobody alive.
Abort(h) ==
  /\ pc[h] \notin {"idle", "forget"} /\ faults < MaxFaults
  /\ Unlock(h) /\ FreeGate(h)
  /\ lease' \in {lease, IF sess[h].leased /\ lease = h THEN Nobody ELSE lease}
  /\ Goto(h, "idle")
  /\ sess' = [sess EXCEPT ![h] = NoSession]
  /\ faults' = faults + 1
  /\ UNCHANGED <<store, seq, answers, sweeps>>

\* The sweep forgets transactions that are older than any retry.
SweepTransactions ==
  /\ sweeps < MaxSweeps
  /\ recorded # <<>>
  /\ \E kept \in SUBSET DOMAIN recorded :
       kept # DOMAIN recorded /\ recorded' = [t \in kept |-> recorded[t]]
  /\ sweeps' = sweeps + 1
  /\ UNCHANGED <<events, extremities, rows, lastStream, redactedBy, seq, locks, pc, sess,
                 answers, faults>>

-----------------------------------------------------------------------------
Serve(h) == \/ EnterGate(h) \/ TakeLease(h) \/ LeaseTimesOut(h) \/ Lock(h)
            \/ Replay(h) \/ Build(h) \/ Write(h) \/ Commit(h) \/ Rollback(h) \/ Leave(h)

Next == \/ \E h \in Handlers : \/ \E r \in Requests : Request(h, r)
                               \/ Forget(h) \/ Serve(h) \/ Abort(h)
        \/ LeaseIsLost \/ SweepTransactions

Spec == Init /\ [][Next]_vars

(* Fairness.  A handler runs on.  The gate is a channel and the advisory   *)
(* lock a queue: who waits for one gets it if it is given back again and   *)
(* again.  Nothing is assumed of the lease: a lost one may stay for ever.  *)
Fairness == \A h \in Handlers : /\ WF_vars(Serve(h)) /\ WF_vars(Forget(h) /\ pc[h] = "forget")
                                /\ SF_vars(EnterGate(h)) /\ SF_vars(Lock(h))

FairSpec == Spec /\ Fairness

-----------------------------------------------------------------------------
(* Properties.                                                             *)

(* The events of the room are one chain: every event names the one before  *)
(* it, carries the state that one leaves behind, and lies above it in both *)
(* orders, by depth and by stream position; and the forward extremity is   *)
(* the last of them.                                                       *)
LinearHistory ==
  /\ \A e \in events \ {Root} :
       /\ Stored(e.prev)
       /\ e.depth = Event(e.prev).depth + 1 /\ e.pos > e.prev
       /\ e.before = StateAfter(Event(e.prev))
  /\ \A e, f \in events : e.prev = f.prev => e = f
  /\ extremities = {Max({e.pos : e \in events})}

\* The membership events about a user below a position.
About(u, p) == {e \in events : e.pos < p /\ e.content.type = "member" /\ e.content.target = u}

\* What the last of them says, in the order of the stream.
MembershipBelow(u, p) ==
  IF About(u, p) = {} THEN Start.member[u]
  ELSE Event(Max({e.pos : e \in About(u, p)})).content.membership

(* A sync that reads up to any position sees no event from a user who is   *)
(* not joined at that position: nothing sent beside a kick, a ban or a     *)
(* leave lands after it.                                                   *)
NothingLandsAfterAKick ==
  \A e \in events : e.content.type \notin {"create", "member"} =>
    MembershipBelow(e.content.sender, e.pos) = "join"

(* The tables that sync and the lists read instead of the state say what   *)
(* the history says: each user's last membership with its event, and the   *)
(* room's last position.                                                   *)
ProjectionsAgree ==
  /\ lastStream = Max({e.pos : e \in events})
  /\ \A u \in Users :
       /\ rows[u].membership = MembershipBelow(u, lastStream + 1)
       /\ rows[u].event = Max({0} \cup {e.pos : e \in About(u, lastStream + 1)})

(* However often a write is retried, beside itself or after a lost answer, *)
(* it is stored once until the sweep forgets it, and what its client is    *)
(* told has been stored for it.                                            *)
RetriesAgree ==
  /\ \A e, f \in events : e.txn = f.txn /\ e.txn # NoTxn /\ e.era = f.era => e = f
  /\ \A a \in answers : Stored(a.pos) /\ Event(a.pos).txn = a.txn

(* No change of the power levels lifts anybody above the user who made it, *)
(* nor above what was everybody's level before.                            *)
NobodyRisesAboveTheGranter ==
  \A e \in events : e.content.type = "power_levels" => \A u \in Users :
    UserLevel(e.content.levels, u) <=
      Max({UserLevel(e.before.levels, u), UserLevel(e.before.levels, e.content.sender),
           e.before.levels.basic["users_default"]})

(* The room implements the history it promises.                            *)
History == INSTANCE RoomHistory
             WITH history <- [d \in 1..Parent.depth |->
                                (CHOOSE e \in events : e.depth = d).content],
                  state <- Current

ImplementsRoomHistory == History!Spec

(* A write that has begun comes to an end, also when the holder of the     *)
(* lease is gone and the lease is not.                                     *)
WritesEnd == \A h \in Handlers : pc[h] = "gate" ~> pc[h] = "idle"
=============================================================================
