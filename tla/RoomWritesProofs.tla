--------------------------- MODULE RoomWritesProofs ---------------------------
(***************************************************************************)
(* Proofs about RoomWrites, for any number of users, handlers, instances,  *)
(* requests and failures.                                                  *)
(*                                                                         *)
(* The argument rests on the advisory lock alone: whoever is between the   *)
(* begin and the end of a transaction holds it, so what a writer has read  *)
(* when it builds its event is still so when the event is committed.  The  *)
(* gate and the lease play no part, which is why a lost lease or a writer  *)
(* that went on without one does no harm.                                  *)
(***************************************************************************)
EXTENDS RoomWrites, SequenceTheorems, FiniteSetTheorems, TLAPS

(* The last event, in both orders.                                         *)
Tip(t) == /\ t \in events /\ extremities = {t.pos}
          /\ \A e \in events : e.pos <= t.pos /\ e.depth <= t.depth

Follows(e, p) == /\ e.prev = p.pos /\ e.depth = p.depth + 1 /\ e.pos > p.pos
                 /\ e.before = StateAfter(p) /\ Authorise(e.content, e.before)

HistoryInv ==
  /\ Root \in events /\ seq \in Nat
  /\ \A e \in events : e.pos \in 0..seq /\ e.depth \in Nat
  /\ \A e, f \in events : e.pos = f.pos \/ e.depth = f.depth \/ e.prev = f.prev => e = f
  /\ \E t : Tip(t)
  /\ \A e \in events : \A d \in 0..e.depth : \E f \in events : f.depth = d
  /\ \A e \in events \ {Root} : \E p \in events : Follows(e, p)

RetryInv ==
  /\ sweeps \in Nat
  /\ \A e \in events : e.era \in 0..sweeps
  /\ \A e \in events : e.txn # NoTxn /\ e.era = sweeps => e.txn \in DOMAIN recorded
  /\ \A e, f \in events : e.txn = f.txn /\ e.txn # NoTxn /\ e.era = f.era => e = f
  /\ \A t \in DOMAIN recorded : \E e \in events : e.pos = recorded[t] /\ e.txn = t
  /\ \A a \in answers : \E e \in events : e.pos = a.pos /\ e.txn = a.txn

LockInv == \A h \in Handlers : pc[h] \in InTransaction => locked = h

(* What a session has built upon the last event, and what it is to answer. *)
Built(s) ==
  /\ \E t : /\ Tip(t) /\ s.event.prev = t.pos /\ s.event.depth = t.depth + 1
            /\ s.event.before = StateAfter(t)
  /\ s.event.content = s.content /\ Authorise(s.content, s.event.before)
  /\ s.event.txn = s.txn /\ s.event.era \in 0..sweeps
  /\ s.txn # NoTxn => \A e \in events : e.txn = s.txn => e.era # s.event.era

Answers(s) == \E e \in events : e.pos = s.answer /\ e.txn = s.txn

HandlerInv(phase, s) ==
  /\ DOMAIN s = DOMAIN NoSession /\ DOMAIN s.event = DOMAIN Root
  /\ phase \in Phases \ {"write", "commit", "leave"} => s.event = Root /\ s.answer = 0
  /\ phase = "write" => Built(s)
  /\ phase = "commit" =>
       \/ s.event = Root /\ Answers(s)
       \/ /\ Built(s) /\ s.event.pos = s.answer /\ s.replaces = extremities
          /\ s.answer \in 1..seq /\ \A e \in events : e.pos < s.answer
  /\ phase = "leave" => s.answer = 0 \/ Answers(s)

HandlersInv == /\ sess = [h \in Handlers |-> sess[h]] /\ pc \in [Handlers -> Phases]
               /\ \A h \in Handlers : HandlerInv(pc[h], sess[h])

Inv == HistoryInv /\ RetryInv /\ LockInv /\ HandlersInv

-----------------------------------------------------------------------------
(* The greatest of a set of numbers is the one that is not below another.  *)
LEMMA MaxIs == ASSUME NEW S \in SUBSET Int, NEW x \in S, \A y \in S : y <= x
               PROVE  Max(S) = x
<1>1. \A y \in S : (\A z \in S : y >= z) => y = x
  OBVIOUS
<1>2. x \in S /\ \A z \in S : x >= z
  OBVIOUS
<1> QED
  BY <1>1, <1>2 DEF Max

(* A position names one event.                                             *)
LEMMA EventIs == ASSUME HistoryInv, NEW e \in events
                 PROVE  Stored(e.pos) /\ Event(e.pos) = e
BY DEF HistoryInv, Stored, Event

LEMMA ParentIs == ASSUME HistoryInv, NEW t, Tip(t) PROVE Parent = t /\ Current = StateAfter(t)
<1>1. (CHOOSE p \in extremities : TRUE) = t.pos
  BY DEF Tip
<1> QED
  BY <1>1, EventIs DEF Tip, Parent, Current

LEMMA InvInit == Init => Inv
<1> SUFFICES ASSUME Init PROVE Inv
  OBVIOUS
<1>1. HistoryInv
  <2>1. Tip(Root)
    BY DEF Init, Tip, Root
  <2> QED BY <2>1 DEF Init, HistoryInv, Root
<1>2. RetryInv
  BY DEF Init, RetryInv, Root
<1>3. LockInv
  BY DEF Init, LockInv, InTransaction
<1>4. HandlersInv
  <2>1. HandlerInv("idle", NoSession)
    BY DEF HandlerInv, NoSession
  <2> QED BY <2>1 DEF Init, HandlersInv, Phases
<1> QED
  BY <1>1, <1>2, <1>3, <1>4 DEF Inv

-----------------------------------------------------------------------------
(* A step of one handler that adds no event leaves the others' sessions as *)
(* good as they were.                                                      *)
LEMMA OthersFrame ==
  ASSUME Inv, NEW h \in Handlers, NEW phase \in Phases, NEW s,
         Goto(h, phase), sess' = [sess EXCEPT ![h] = s],
         UNCHANGED <<events, extremities>>,
         seq' \in Nat, sweeps' \in Nat, seq <= seq', sweeps <= sweeps'
  PROVE  /\ sess' = [o \in Handlers |-> sess'[o]] /\ pc' \in [Handlers -> Phases]
         /\ pc'[h] = phase /\ sess'[h] = s
         /\ \A o \in Handlers \ {h} : HandlerInv(pc[o], sess[o])'
<1>1. /\ sess' = [o \in Handlers |-> sess'[o]] /\ pc' \in [Handlers -> Phases]
      /\ pc'[h] = phase /\ sess'[h] = s
      /\ \A o \in Handlers \ {h} : pc'[o] = pc[o] /\ sess'[o] = sess[o]
  BY DEF Inv, HandlersInv, Goto
<1>2. ASSUME NEW o \in Handlers \ {h} PROVE HandlerInv(pc[o], sess[o])'
  <2> DEFINE t == sess[o]
  <2>1. HandlerInv(pc[o], t)
    BY DEF Inv, HandlersInv
  <2>2. 0..sweeps \subseteq 0..sweeps' /\ 1..seq \subseteq 1..seq'
    BY DEF Inv, HistoryInv, RetryInv
  <2>3. sess'[o] = t /\ pc'[o] = pc[o]
    BY <1>1
  <2> QED BY <2>1, <2>2, <2>3 DEF HandlerInv, Built, Answers, Tip, StateAfter
<1> QED
  BY <1>1, <1>2

(* Nothing a session depends on has changed but its own state.             *)
LEMMA HandlersFrame ==
  ASSUME Inv, NEW h \in Handlers, NEW phase \in Phases, NEW s,
         Goto(h, phase), sess' = [sess EXCEPT ![h] = s],
         UNCHANGED <<events, extremities, seq, sweeps>>,
         HandlerInv(phase, s)
  PROVE  HandlersInv'
<1>1. seq' \in Nat /\ sweeps' \in Nat /\ seq <= seq' /\ sweeps <= sweeps'
  BY DEF Inv, HistoryInv, RetryInv
<1>2. /\ sess' = [o \in Handlers |-> sess'[o]] /\ pc' \in [Handlers -> Phases]
      /\ pc'[h] = phase /\ sess'[h] = s
      /\ \A o \in Handlers \ {h} : HandlerInv(pc[o], sess[o])'
  BY <1>1, OthersFrame
<1>3. HandlerInv(pc[h], sess[h])'
  BY <1>2 DEF HandlerInv, Built, Answers, Tip, StateAfter
<1> QED
  BY <1>2, <1>3 DEF HandlersInv

(* The rest of the invariant does not look at the sessions.                *)
LEMMA StoreFrame ==
  ASSUME HistoryInv, RetryInv, UNCHANGED <<events, extremities, seq, recorded, answers, sweeps>>
  PROVE  HistoryInv' /\ RetryInv'
BY DEF HistoryInv, RetryInv, Tip, Follows, StateAfter

(* A step that neither takes nor gives the advisory lock.                  *)
LEMMA LocalStep ==
  ASSUME Inv, NEW h \in Handlers, NEW phase \in Phases, NEW s,
         Goto(h, phase), sess' = [sess EXCEPT ![h] = s],
         UNCHANGED <<events, extremities, seq, recorded, answers, sweeps, locked>>,
         phase \in InTransaction => pc[h] \in InTransaction,
         HandlerInv(phase, s)
  PROVE  Inv'
<1>1. HistoryInv' /\ RetryInv'
  BY StoreFrame DEF Inv
<1>2. HandlersInv'
  BY HandlersFrame
<1>3. LockInv'
  BY DEF Inv, LockInv, HandlersInv, Goto
<1> QED
  BY <1>1, <1>2, <1>3 DEF Inv

(* The end of a transaction that adds no event.                            *)
LEMMA UnlockStep ==
  ASSUME Inv, NEW h \in Handlers, NEW phase \in Phases \ InTransaction, NEW s,
         Goto(h, phase), sess' = [sess EXCEPT ![h] = s], Unlock(h),
         UNCHANGED <<events, extremities, seq, recorded, answers, sweeps>>,
         HandlerInv(phase, s)
  PROVE  Inv'
<1>1. HistoryInv' /\ RetryInv'
  BY StoreFrame DEF Inv
<1>2. HandlersInv'
  BY HandlersFrame
<1>3. LockInv'
  BY DEF Inv, LockInv, HandlersInv, Goto, Unlock
<1> QED
  BY <1>1, <1>2, <1>3 DEF Inv

LEMMA FreshSession == \A phase : phase # "write" /\ phase # "commit" => HandlerInv(phase, NoSession)
BY DEF HandlerInv, NoSession

(* A step before the transaction changes what a session asks for, or that  *)
(* it has the lease, but not what it has built.                            *)
LEMMA EarlyStep ==
  ASSUME Inv, NEW h \in Handlers, NEW phase \in Phases \ {"write", "commit", "leave"}, NEW s,
         Goto(h, phase), sess' = [sess EXCEPT ![h] = s],
         UNCHANGED <<events, extremities, seq, recorded, answers, sweeps, locked>>,
         phase # "read",
         DOMAIN s = DOMAIN NoSession, s.event = Root, s.answer = 0
  PROVE  Inv'
<1>1. HandlerInv(phase, s)
  BY DEF HandlerInv
<1>2. phase \notin InTransaction
  BY DEF InTransaction, Phases
<1> QED
  BY <1>1, <1>2, LocalStep

LEMMA SessionFacts ==
  ASSUME Inv, NEW h \in Handlers
  PROVE  /\ HandlerInv(pc[h], sess[h]) /\ pc[h] \in Phases
         /\ DOMAIN sess[h] = DOMAIN NoSession /\ DOMAIN sess[h].event = DOMAIN Root
         /\ pc[h] \in {"idle", "gate", "lease", "lock", "forget", "read"} =>
              sess[h].event = Root /\ sess[h].answer = 0
BY DEF Inv, HandlersInv, HandlerInv, Phases, InTransaction

-----------------------------------------------------------------------------
LEMMA RequestStep == ASSUME Inv, NEW h \in Handlers, NEW r \in Requests, Request(h, r) PROVE Inv'
<1>1. PICK c : sess' = [sess EXCEPT ![h] = [NoSession EXCEPT !.op = r.op, !.content = c,
                                                             !.txn = r.txn]]
  BY DEF Request
<1> DEFINE s == [NoSession EXCEPT !.op = r.op, !.content = c, !.txn = r.txn]
<1>2. DOMAIN s = DOMAIN NoSession /\ s.event = Root /\ s.answer = 0
  BY DEF NoSession
<1>3. "gate" \in Phases
  BY DEF Phases
<1>4. sess' = [sess EXCEPT ![h] = s] /\ Goto(h, "gate")
      /\ UNCHANGED <<events, extremities, seq, recorded, answers, sweeps, locked>>
  BY <1>1 DEF Request, store, locks
<1> HIDE DEF s
<1> QED
  BY <1>2, <1>3, <1>4, EarlyStep

LEMMA ForgetStep == ASSUME Inv, NEW h \in Handlers, Forget(h) PROVE Inv'
<1>1. CASE pc[h] = "idle"
  <2>1. PICK u \in Users : sess' = [sess EXCEPT ![h].op = "forget", ![h].content = [target |-> u]]
    BY <1>1 DEF Forget
  <2> DEFINE t == [sess[h] EXCEPT !.op = "forget"]
             s == [t EXCEPT !.content = [target |-> u]]
  <2>2. sess' = [sess EXCEPT ![h] = s]
    BY <2>1, SessionFacts DEF Inv, HandlersInv
  <2>3. DOMAIN s = DOMAIN NoSession /\ s.event = Root /\ s.answer = 0
    BY <1>1, SessionFacts DEF NoSession
  <2>4. "forget" \in Phases
    BY DEF Phases
  <2> HIDE DEF s
  <2> QED BY <1>1, <2>2, <2>3, <2>4, EarlyStep DEF Forget, store, locks
<1>2. CASE pc[h] = "forget"
  <2>1. DOMAIN NoSession = DOMAIN NoSession /\ NoSession.event = Root /\ NoSession.answer = 0
        /\ "idle" \in Phases
    BY DEF NoSession, Phases
  <2> QED BY <1>2, <2>1, EarlyStep DEF Forget, store, locks
<1> QED
  BY <1>1, <1>2 DEF Forget

LEMMA LockSteps ==
  ASSUME Inv, NEW h \in Handlers, EnterGate(h) \/ TakeLease(h) \/ LeaseTimesOut(h)
  PROVE  Inv'
<1>1. {"lease", "lock"} \subseteq Phases /\ "read" \notin {"lease", "lock"}
  BY DEF Phases
<1> DEFINE t == sess[h]
<1>5. sess = [sess EXCEPT ![h] = t] /\ DOMAIN t = DOMAIN NoSession
      /\ (pc[h] \in {"gate", "lease"} => t.event = Root /\ t.answer = 0)
  BY SessionFacts DEF Inv, HandlersInv
<1> HIDE DEF t
<1>2. CASE EnterGate(h)
  BY <1>1, <1>2, <1>5, EarlyStep DEF EnterGate, store
<1>3. CASE TakeLease(h)
  <2> DEFINE s == [sess[h] EXCEPT !.leased = TRUE]
  <2>1. DOMAIN s = DOMAIN NoSession /\ s.event = Root /\ s.answer = 0
    BY <1>3, SessionFacts DEF NoSession, TakeLease
  <2>2. sess' = [sess EXCEPT ![h] = s]
    BY <1>3 DEF TakeLease
  <2> HIDE DEF s
  <2> QED BY <1>1, <1>3, <2>1, <2>2, EarlyStep DEF TakeLease, store
<1>4. CASE LeaseTimesOut(h)
  BY <1>1, <1>4, <1>5, EarlyStep DEF LeaseTimesOut, store, locks
<1> QED
  BY <1>2, <1>3, <1>4

(* The advisory lock is free when a transaction gets it, and then no other *)
(* writer is in one.                                                       *)
LEMMA LockStep == ASSUME Inv, NEW h \in Handlers, Lock(h) PROVE Inv'
<1>1. HistoryInv' /\ RetryInv'
  BY StoreFrame DEF Inv, Lock, store
<1>2. LockInv'
  <2>1. \A o \in Handlers : pc[o] \notin InTransaction
    BY RoomAssumption DEF Inv, LockInv, Lock
  <2> QED BY <2>1 DEF Lock, Goto, LockInv, Inv, HandlersInv
<1>3. HandlersInv'
  <2>1. HandlerInv("read", sess[h])
    BY SessionFacts DEF HandlerInv, Lock
  <2>2. sess' = [sess EXCEPT ![h] = sess[h]]
    BY DEF Lock, Inv, HandlersInv
  <2>3. "read" \in Phases
    BY DEF Phases, InTransaction
  <2> QED BY <2>1, <2>2, <2>3, HandlersFrame DEF Lock, store
<1> QED
  BY <1>1, <1>2, <1>3 DEF Inv

-----------------------------------------------------------------------------
(* The transaction.                                                        *)

LEMMA ReplayStep == ASSUME Inv, NEW h \in Handlers, Replay(h) PROVE Inv'
<1> DEFINE s == [sess[h] EXCEPT !.answer = recorded[sess[h].txn]]
<1>1. /\ DOMAIN s = DOMAIN NoSession /\ s.event = Root /\ s.txn = sess[h].txn
      /\ s.answer = recorded[sess[h].txn]
  BY SessionFacts DEF Replay, NoSession
<1>2. sess' = [sess EXCEPT ![h] = s] /\ "commit" \in Phases
  BY DEF Replay, Phases, InTransaction
<1>3. Answers(s)
  BY <1>1 DEF Inv, RetryInv, Answers, Replay, Replayed
<1> HIDE DEF s
<1>4. HandlerInv("commit", s)
  BY <1>1, <1>3 DEF HandlerInv
<1> QED
  BY <1>2, <1>4, LocalStep DEF Replay, InTransaction, store, locks

LEMMA BuildStep == ASSUME Inv, NEW h \in Handlers, Build(h) PROVE Inv'
<1> DEFINE e == [Root EXCEPT !.prev = Parent.pos, !.depth = Parent.depth + 1, !.before = Current,
                    !.content = sess[h].content, !.txn = sess[h].txn, !.era = sweeps]
           s == [sess[h] EXCEPT !.event = e]
<1>1. /\ DOMAIN s = DOMAIN NoSession /\ s.event = e /\ s.txn = sess[h].txn
      /\ s.content = sess[h].content
  BY SessionFacts DEF NoSession
<1>2. /\ DOMAIN e = DOMAIN Root /\ e.prev = Parent.pos /\ e.depth = Parent.depth + 1
      /\ e.before = Current /\ e.content = sess[h].content /\ e.txn = sess[h].txn
      /\ e.era = sweeps
  BY DEF Root
<1>3. sess' = [sess EXCEPT ![h] = s] /\ "write" \in Phases
  BY DEF Build, Phases, InTransaction
<1> HIDE DEF s, e
<1>4. PICK t : Tip(t) /\ Parent = t /\ Current = StateAfter(t)
  BY ParentIs DEF Inv, HistoryInv
<1>5. Authorise(s.content, e.before)
  BY <1>1, <1>2 DEF Build, Acceptable
<1>6. e.era \in 0..sweeps
  BY <1>2 DEF Inv, RetryInv
<1>7. s.txn # NoTxn => \A f \in events : f.txn = s.txn => f.era # e.era
  BY <1>1, <1>2 DEF Inv, RetryInv, Build, Replayed
<1>8. Built(s)
  BY <1>1, <1>2, <1>4, <1>5, <1>6, <1>7 DEF Built
<1>9. HandlerInv("write", s)
  BY <1>1, <1>2, <1>8 DEF HandlerInv
<1> QED
  BY <1>3, <1>9, LocalStep DEF Build, InTransaction, store, locks

(* The position is drawn under the lock, and so lies above all others that *)
(* have been committed.                                                    *)
LEMMA WriteStep == ASSUME Inv, NEW h \in Handlers, Write(h) PROVE Inv'
<1> DEFINE e == [sess[h].event EXCEPT !.pos = seq + 1]
           u == [sess[h] EXCEPT !.event = e]
           v == [u EXCEPT !.answer = seq + 1]
           s == [v EXCEPT !.replaces = extremities]
<1>1. /\ DOMAIN s = DOMAIN NoSession /\ s.event = e /\ s.txn = sess[h].txn
      /\ s.content = sess[h].content /\ s.answer = seq + 1 /\ s.replaces = extremities
  BY SessionFacts DEF NoSession
<1>2. /\ DOMAIN e = DOMAIN Root /\ e.prev = sess[h].event.prev /\ e.depth = sess[h].event.depth
      /\ e.before = sess[h].event.before /\ e.content = sess[h].event.content
      /\ e.txn = sess[h].event.txn /\ e.era = sess[h].event.era /\ e.pos = seq + 1
  BY SessionFacts DEF Root
<1>3. sess' = [sess EXCEPT ![h] = s] /\ "commit" \in Phases
  <2>1. DOMAIN sess = Handlers
    BY DEF Inv, HandlersInv
  <2> QED BY <2>1, SessionFacts DEF Write, Phases, InTransaction, NoSession
<1> HIDE DEF s, e
<1>4. Built(sess[h]) /\ pc[h] = "write"
  BY SessionFacts DEF HandlerInv, Write
<1>5. seq \in Nat /\ seq' = seq + 1 /\ sweeps' = sweeps /\ sweeps \in Nat
      /\ UNCHANGED <<events, extremities, recorded, answers, locked>> /\ Goto(h, "commit")
  BY DEF Write, Inv, HistoryInv, RetryInv, store, locks
<1>6. Built(s)
  BY <1>1, <1>2, <1>4 DEF Built
<1>7. \A f \in events : f.pos < s.answer
  BY <1>1, <1>5 DEF Inv, HistoryInv
<1>8. /\ sess' = [o \in Handlers |-> sess'[o]] /\ pc' \in [Handlers -> Phases]
      /\ pc'[h] = "commit" /\ sess'[h] = s
      /\ \A o \in Handlers \ {h} : HandlerInv(pc[o], sess[o])'
  <2>1. seq' \in Nat /\ sweeps' \in Nat /\ seq <= seq' /\ sweeps <= sweeps'
    BY <1>5
  <2> QED BY <1>3, <1>5, <2>1, OthersFrame
<1>9. HandlersInv'
  <2>1. s.answer \in 1..seq'
    BY <1>1, <1>5
  <2>2. Built(sess[h])'
    BY <1>5, <1>6, <1>8 DEF Built, Tip, StateAfter
  <2>3. HandlerInv(pc[h], sess[h])'
    BY <1>1, <1>2, <1>5, <1>7, <1>8, <2>1, <2>2 DEF HandlerInv
  <2> QED BY <1>8, <2>3 DEF HandlersInv
<1>10. HistoryInv' /\ RetryInv'
  <2>1. 0..seq \subseteq 0..seq'
    BY <1>5
  <2> QED BY <1>5, <2>1 DEF Inv, HistoryInv, RetryInv, Tip, Follows, StateAfter
<1>11. LockInv'
  BY <1>4, <1>5 DEF Inv, LockInv, HandlersInv, Goto, InTransaction
<1> QED
  BY <1>9, <1>10, <1>11 DEF Inv

LEMMA RollbackStep == ASSUME Inv, NEW h \in Handlers, Rollback(h) PROVE Inv'
<1> DEFINE u == [sess[h] EXCEPT !.answer = 0]
           s == [u EXCEPT !.event = Root]
<1>1. DOMAIN s = DOMAIN NoSession /\ s.event = Root /\ s.answer = 0
  BY SessionFacts DEF NoSession
<1>2. sess' = [sess EXCEPT ![h] = s] /\ "leave" \in Phases \ InTransaction
  <2>1. DOMAIN sess = Handlers
    BY DEF Inv, HandlersInv
  <2> QED BY <2>1, SessionFacts DEF Rollback, Phases, InTransaction, NoSession
<1> HIDE DEF s
<1>3. HandlerInv("leave", s)
  BY <1>1 DEF HandlerInv
<1> QED
  BY <1>2, <1>3, UnlockStep DEF Rollback, store

LEMMA AbortStep == ASSUME Inv, NEW h \in Handlers, Abort(h) PROVE Inv'
<1>1. HandlerInv("idle", NoSession) /\ "idle" \in Phases \ InTransaction
  BY FreshSession DEF Phases, InTransaction
<1> QED
  BY <1>1, UnlockStep DEF Abort, store

(* A commit of something new: it was built upon the last event, which is   *)
(* still the last, and is now itself.                                      *)
LEMMA CommitNew ==
  ASSUME Inv, NEW h \in Handlers, Commit(h), IsNew(h)
  PROVE  Inv'
<1> DEFINE s == sess[h]
           n == sess[h].event
<1>1. /\ pc[h] = "commit" /\ events' = events \cup {n} /\ ~Replayed(h)
      /\ extremities' = (extremities \ s.replaces) \cup {s.answer} /\ recorded' = Record(h)
      /\ UNCHANGED <<seq, sess, answers, sweeps>> /\ Goto(h, "leave") /\ Unlock(h)
  BY DEF Commit
<1>2. /\ Built(s) /\ n.pos = s.answer /\ s.replaces = extremities
      /\ s.answer \in 1..seq /\ \A e \in events : e.pos < s.answer
  BY <1>1, SessionFacts DEF HandlerInv, IsNew
<1>3. PICK t : /\ Tip(t) /\ n.prev = t.pos /\ n.depth = t.depth + 1 /\ n.before = StateAfter(t)
               /\ Authorise(n.content, n.before) /\ n.txn = s.txn /\ n.era \in 0..sweeps
  BY <1>2 DEF Built
<1>4. /\ t \in events /\ t.pos \in Nat /\ t.depth \in Nat /\ seq \in Nat /\ n.pos \in Nat
      /\ \A e \in events : e.pos \in Nat /\ e.depth \in Nat /\ e.pos <= t.pos /\ e.depth <= t.depth
  BY <1>2, <1>3 DEF Tip, Inv, HistoryInv
<1>5. n # Root /\ n \notin events
  BY <1>2, <1>3, <1>4 DEF Root
<1>6. HistoryInv'
  <2>1. \A e \in events' : e.pos \in 0..seq' /\ e.depth \in Nat
    BY <1>1, <1>2, <1>3, <1>4 DEF Inv, HistoryInv
  <2>2. \A e \in events : e.prev # n.prev
    <3>1. \A e \in events \ {Root} : e.prev < t.pos
      <4> SUFFICES ASSUME NEW e \in events \ {Root} PROVE e.prev < t.pos
        OBVIOUS
      <4>1. PICK p \in events : Follows(e, p)
        BY DEF Inv, HistoryInv
      <4> QED BY <1>4, <4>1 DEF Follows
    <3>2. Root.prev < 0
      BY DEF Root
    <3> QED BY <1>3, <1>4, <3>1, <3>2
  <2>3. \A e \in events : e.pos # n.pos /\ e.depth # n.depth
    BY <1>2, <1>3, <1>4
  <2>4. \A e, f \in events' : e.pos = f.pos \/ e.depth = f.depth \/ e.prev = f.prev => e = f
    BY <1>1, <2>2, <2>3 DEF Inv, HistoryInv
  <2>5. Tip(n)'
    BY <1>1, <1>2, <1>3, <1>4 DEF Tip
  <2>6. Follows(n, t)
    BY <1>2, <1>3 DEF Follows, Tip
  <2>7. \A e \in events' \ {Root} : \E p \in events' : Follows(e, p)
    BY <1>1, <1>4, <2>6 DEF Inv, HistoryInv
  <2>10. \A e \in events' : \A d \in 0..e.depth : \E f \in events' : f.depth = d
    <3>1. \A d \in 0..n.depth : d \in 0..t.depth \/ d = n.depth
      BY <1>3, <1>4
    <3>2. n \in events' /\ events \subseteq events'
      BY <1>1
    <3>3. \A d \in 0..n.depth : \E f \in events' : f.depth = d
      BY <1>4, <3>1, <3>2 DEF Inv, HistoryInv
    <3> QED BY <1>1, <3>2, <3>3 DEF Inv, HistoryInv
  <2>8. Root \in events' /\ seq' \in Nat
    BY <1>1 DEF Inv, HistoryInv
  <2>9. \E e : Tip(e)'
    <3> DEFINE m == sess'[h].event
    <3>1. m = n
      BY <1>1
    <3>2. m \in events' /\ extremities' = {m.pos}
          /\ \A e \in events' : e.pos <= m.pos /\ e.depth <= m.depth
      BY <2>5, <3>1 DEF Tip
    <3> HIDE DEF m
    <3> QED BY <3>2 DEF Tip
  <2> QED BY <2>1, <2>4, <2>7, <2>8, <2>9, <2>10 DEF HistoryInv, Follows, StateAfter
<1>7. RetryInv'
  <2>1. n.txn # NoTxn => \A e \in events : e.txn = n.txn => e.era # n.era
    BY <1>2, <1>3 DEF Built
  <2>2. DOMAIN recorded' = IF s.txn = NoTxn THEN DOMAIN recorded ELSE DOMAIN recorded \cup {s.txn}
    BY <1>1 DEF Record
  <2>3. \A k \in DOMAIN recorded' : \/ recorded'[k] = s.answer /\ k = s.txn
                                    \/ k \in DOMAIN recorded /\ recorded'[k] = recorded[k]
    <3>1. CASE s.txn = NoTxn
      BY <1>1, <3>1 DEF Record
    <3>2. CASE s.txn # NoTxn
      <4>1. recorded' = [k \in DOMAIN recorded \cup {s.txn} |->
                           IF k = s.txn THEN s.answer ELSE recorded[k]]
        BY <1>1, <3>2 DEF Record
      <4> QED BY <4>1
    <3> QED BY <3>1, <3>2
  <2>4. \A k \in DOMAIN recorded' : \E e \in events' : e.pos = recorded'[k] /\ e.txn = k
    BY <1>1, <1>2, <1>3, <2>3 DEF Inv, RetryInv
  <2>5. \A e \in events' : e.txn # NoTxn /\ e.era = sweeps' => e.txn \in DOMAIN recorded'
    BY <1>1, <1>3, <2>2 DEF Inv, RetryInv
  <2>6. \A e, f \in events' : e.txn = f.txn /\ e.txn # NoTxn /\ e.era = f.era => e = f
    BY <1>1, <2>1 DEF Inv, RetryInv
  <2> QED BY <1>1, <1>3, <2>4, <2>5, <2>6 DEF Inv, RetryInv
<1>8. LockInv'
  BY <1>1 DEF Inv, LockInv, HandlersInv, Goto, Unlock, InTransaction
<1>9. HandlersInv'
  <2>1. pc' \in [Handlers -> Phases] /\ pc'[h] = "leave" /\ sess' = sess
        /\ \A o \in Handlers \ {h} : pc'[o] = pc[o]
    BY <1>1 DEF Inv, HandlersInv, Goto, Phases
  <2>2. \A o \in Handlers \ {h} : pc[o] \notin {"write", "commit"}
    BY <1>1 DEF Inv, LockInv, InTransaction
  <2>3. ASSUME NEW o \in Handlers \ {h} PROVE HandlerInv(pc[o], sess[o])'
    BY <1>1, <2>1, <2>2, SessionFacts DEF HandlerInv, Answers
  <2>4. HandlerInv(pc[h], sess[h])'
    <3>1. Answers(s)'
      BY <1>1, <1>2, <1>3 DEF Answers
    <3> QED BY <2>1, <3>1, SessionFacts DEF HandlerInv
  <2> QED BY <2>1, <2>3, <2>4 DEF Inv, HandlersInv
<1> QED
  BY <1>6, <1>7, <1>8, <1>9 DEF Inv

LEMMA CommitStep == ASSUME Inv, NEW h \in Handlers, Commit(h) PROVE Inv'
<1>1. CASE ~IsNew(h)
  <2> DEFINE s == sess[h]
  <2>1. pc[h] = "commit" /\ s.event = Root /\ HandlerInv("commit", s)
    BY <1>1, SessionFacts DEF Commit, IsNew
  <2>2. ~(Built(s) /\ s.answer \in 1..seq)
    BY <2>1 DEF Built, Tip, Inv, HistoryInv, Root
  <2>3. HandlerInv("leave", s)
    BY <2>1, <2>2 DEF HandlerInv
  <2>4. sess' = [sess EXCEPT ![h] = s] /\ "leave" \in Phases \ InTransaction
    BY DEF Commit, Inv, HandlersInv, Phases, InTransaction
  <2>5. Goto(h, "leave") /\ Unlock(h)
        /\ UNCHANGED <<events, extremities, seq, recorded, answers, sweeps>>
    BY <1>1 DEF Commit
  <2> HIDE DEF s
  <2> QED BY <2>3, <2>4, <2>5, UnlockStep
<1> QED
  BY <1>1, CommitNew

-----------------------------------------------------------------------------
LEMMA LeaveStep == ASSUME Inv, NEW h \in Handlers, Leave(h) PROVE Inv'
<1>1. HandlerInv("idle", NoSession) /\ "idle" \in Phases /\ "idle" \notin InTransaction
  BY FreshSession DEF Phases, InTransaction
<1>2. UNCHANGED <<events, extremities, seq, recorded, sweeps, locked>> /\ Goto(h, "idle")
      /\ sess' = [sess EXCEPT ![h] = NoSession] /\ pc[h] = "leave"
  BY DEF Leave, store
<1>3. HandlersInv'
  BY <1>1, <1>2, HandlersFrame
<1>4. HistoryInv' /\ LockInv'
  BY <1>1, <1>2 DEF Inv, HistoryInv, Tip, Follows, StateAfter, LockInv, HandlersInv, Goto
<1>5. RetryInv'
  <2>1. sess[h].answer = 0 \/ Answers(sess[h])
    BY <1>2, SessionFacts DEF HandlerInv
  <2>2. \A a \in answers' :
          \/ a \in answers
          \/ sess[h].answer # 0 /\ a.txn = sess[h].txn /\ a.pos = sess[h].answer
    <3>1. answers' = IF sess[h].answer = 0 \/ sess[h].txn = NoTxn THEN answers
                     ELSE answers \cup {[txn |-> sess[h].txn, pos |-> sess[h].answer]}
      BY DEF Leave
    <3> QED BY <3>1
  <2>3. \A a \in answers' : \E e \in events : e.pos = a.pos /\ e.txn = a.txn
    BY <2>1, <2>2 DEF Answers, Inv, RetryInv
  <2> QED BY <1>2, <2>3 DEF Inv, RetryInv
<1> QED
  BY <1>3, <1>4, <1>5 DEF Inv

LEMMA SweepStep == ASSUME Inv, SweepTransactions PROVE Inv'
<1>1. /\ UNCHANGED <<events, extremities, seq, locked, pc, sess, answers>>
      /\ sweeps' = sweeps + 1 /\ sweeps \in Nat
  BY DEF SweepTransactions, locks, Inv, RetryInv
<1>2. PICK kept \in SUBSET DOMAIN recorded : recorded' = [t \in kept |-> recorded[t]]
  BY DEF SweepTransactions
<1>3. HistoryInv' /\ LockInv'
  BY <1>1 DEF Inv, HistoryInv, Tip, Follows, StateAfter, LockInv
<1>4. RetryInv'
  <2>1. \A e \in events : e.era \in 0..sweeps' /\ e.era # sweeps'
    BY <1>1 DEF Inv, RetryInv
  <2> QED BY <1>1, <1>2, <2>1 DEF Inv, RetryInv
<1>5. HandlersInv'
  <2>1. ASSUME NEW h \in Handlers PROVE HandlerInv(pc[h], sess[h])'
    <3>1. 0..sweeps \subseteq 0..sweeps'
      BY <1>1
    <3> QED BY <1>1, <3>1, SessionFacts DEF HandlerInv, Built, Answers, Tip, StateAfter
  <2> QED BY <1>1, <2>1 DEF Inv, HandlersInv
<1> QED
  BY <1>3, <1>4, <1>5 DEF Inv

LEMMA UnchangedStep ==
  ASSUME Inv, UNCHANGED <<events, extremities, seq, recorded, answers, sweeps, locked, pc, sess>>
  PROVE  Inv'
<1>1. HistoryInv' /\ RetryInv' /\ LockInv'
  BY StoreFrame DEF Inv, LockInv
<1>2. ASSUME NEW h \in Handlers PROVE HandlerInv(pc[h], sess[h])'
  BY SessionFacts DEF HandlerInv, Built, Answers, Tip, StateAfter
<1> QED
  BY <1>1, <1>2 DEF Inv, HandlersInv

LEMMA InvNext == Inv /\ [Next]_vars => Inv'
<1> SUFFICES ASSUME Inv, [Next]_vars PROVE Inv'
  OBVIOUS
<1>1. CASE UNCHANGED vars \/ LeaseIsLost
  BY <1>1, UnchangedStep DEF vars, store, locks, LeaseIsLost
<1>2. CASE SweepTransactions
  BY <1>2, SweepStep
<1>3. ASSUME NEW h \in Handlers,
             (\E r \in Requests : Request(h, r)) \/ Forget(h) \/ Serve(h) \/ Abort(h)
      PROVE  Inv'
  <2>1. CASE \E r \in Requests : Request(h, r)
    BY <2>1, RequestStep
  <2>2. CASE Forget(h)
    BY <2>2, ForgetStep
  <2>3. CASE EnterGate(h) \/ TakeLease(h) \/ LeaseTimesOut(h)
    BY <2>3, LockSteps
  <2>4. CASE Lock(h)
    BY <2>4, LockStep
  <2>5. CASE Replay(h)
    BY <2>5, ReplayStep
  <2>6. CASE Build(h)
    BY <2>6, BuildStep
  <2>7. CASE Write(h)
    BY <2>7, WriteStep
  <2>8. CASE Commit(h)
    BY <2>8, CommitStep
  <2>9. CASE Rollback(h)
    BY <2>9, RollbackStep
  <2>10. CASE Leave(h)
    BY <2>10, LeaveStep
  <2>11. CASE Abort(h)
    BY <2>11, AbortStep
  <2> QED
    BY <1>3, <2>1, <2>2, <2>3, <2>4, <2>5, <2>6, <2>7, <2>8, <2>9, <2>10, <2>11 DEF Serve
<1> QED
  BY <1>1, <1>2, <1>3 DEF Next

LEMMA InvHolds == Spec => []Inv
BY InvInit, InvNext, PTL DEF Spec

-----------------------------------------------------------------------------
(* The room's events are one chain with one end, however many instances    *)
(* write to it, whatever leases are lost (events.Send and parent, with     *)
(* lockRoom).                                                              *)
THEOREM LinearHistoryHolds == Spec => []LinearHistory
<1>1. Inv => LinearHistory
  <2> SUFFICES ASSUME Inv PROVE LinearHistory
    OBVIOUS
  <2>1. ASSUME NEW e \in events \ {Root}
        PROVE  /\ Stored(e.prev) /\ e.depth = Event(e.prev).depth + 1 /\ e.pos > e.prev
               /\ e.before = StateAfter(Event(e.prev))
    <3>1. PICK p \in events : Follows(e, p)
      BY DEF Inv, HistoryInv
    <3> QED BY <3>1, EventIs DEF Follows, Inv
  <2>2. \A e, f \in events : e.prev = f.prev => e = f
    BY DEF Inv, HistoryInv
  <2>3. extremities = {Max({e.pos : e \in events})}
    <3>1. PICK t : Tip(t)
      BY DEF Inv, HistoryInv
    <3>2. /\ {e.pos : e \in events} \in SUBSET Int /\ t.pos \in {e.pos : e \in events}
          /\ \A y \in {e.pos : e \in events} : y <= t.pos
      BY <3>1 DEF Inv, HistoryInv, Tip
    <3>3. Max({e.pos : e \in events}) = t.pos
      BY <3>2, MaxIs
    <3> QED BY <3>1, <3>3 DEF Tip
  <2> QED BY <2>1, <2>2, <2>3 DEF LinearHistory
<1> QED
  BY <1>1, InvHolds, PTL

(* A write that is retried, beside itself or after its answer was lost, is *)
(* stored once until the sweep forgets it, and its client is told what was *)
(* stored for it (events.replay, recordTransaction, SweepTransactions).    *)
THEOREM RetriesAgreeHolds == Spec => []RetriesAgree
<1>1. Inv => RetriesAgree
  BY EventIs DEF Inv, RetryInv, RetriesAgree
<1> QED
  BY <1>1, InvHolds, PTL

-----------------------------------------------------------------------------
(* The locks.  A handler is past the gate of its instance from when it     *)
(* waits for the lease until it has left, and only then does it hold it;   *)
(* and the advisory lock is held by nobody outside a transaction.          *)

Inside == {"lease", "lock", "leave"} \cup InTransaction

LocksInv ==
  /\ locked \in Handlers \cup {Nobody} /\ lease \in Handlers \cup {Nobody}
  /\ gate \in [Instances -> Handlers \cup {Nobody}]
  /\ locked # Nobody => pc[locked] \in InTransaction
  /\ \A i \in Instances : gate[i] # Nobody => Home[gate[i]] = i /\ pc[gate[i]] \in Inside
  /\ \A h \in Handlers : pc[h] \in Inside => gate[Home[h]] = h

\* How far a handler still has to go.
Rank == [gate |-> 7, lease |-> 6, lock |-> 5, read |-> 4, write |-> 3, commit |-> 2,
         leave |-> 1, forget |-> 1, idle |-> 0]

\* A step of a handler leaves the others where they are.
LEMMA OneMoves ==
  ASSUME Inv, NEW h \in Handlers,
         (\E r \in Requests : Request(h, r)) \/ Forget(h) \/ Serve(h) \/ Abort(h)
  PROVE  /\ pc' \in [Handlers -> Phases]
         /\ pc[h] # "idle" => Rank[pc'[h]] < Rank[pc[h]]
         /\ pc[h] = "idle" => pc'[h] \in {"gate", "forget"}
         /\ \A o \in Handlers \ {h} : pc'[o] = pc[o] /\ sess'[o] = sess[o]
<1>1. pc \in [Handlers -> Phases] /\ sess = [o \in Handlers |-> sess[o]]
  BY DEF Inv, HandlersInv
<1>2. PICK phase \in Phases : /\ Goto(h, phase)
                              /\ pc[h] # "idle" => Rank[phase] < Rank[pc[h]]
                              /\ pc[h] = "idle" => phase \in {"gate", "forget"}
  <2>1. CASE \E r \in Requests : Request(h, r)
    BY <2>1 DEF Request, Phases
  <2>2. CASE Forget(h)
    BY <2>2 DEF Forget, Phases, Rank
  <2>3. CASE Serve(h)
    BY <2>3 DEF Serve, EnterGate, TakeLease, LeaseTimesOut, Lock, Replay, Build, Write, Commit,
                Rollback, Leave, Phases, InTransaction, Rank
  <2>4. CASE Abort(h)
    BY <1>1, <2>4 DEF Abort, Phases, InTransaction, Rank
  <2> QED BY <2>1, <2>2, <2>3, <2>4
<1>3. \A o \in Handlers \ {h} : sess'[o] = sess[o]
  <2>1. CASE (\E r \in Requests : Request(h, r)) \/ Forget(h)
    BY <1>1, <2>1 DEF Request, Forget
  <2>2. CASE Serve(h) \/ Abort(h)
    BY <1>1, <2>2 DEF Serve, EnterGate, TakeLease, LeaseTimesOut, Lock, Replay, Build, Write,
                      Commit, Rollback, Leave, Abort
  <2> QED BY <2>1, <2>2
<1> QED
  BY <1>1, <1>2, <1>3 DEF Goto

LEMMA LocksInit == Init => LocksInv
BY DEF Init, LocksInv, Inside, InTransaction

LEMMA LocksNext == Inv /\ LocksInv /\ [Next]_vars => LocksInv'
<1> SUFFICES ASSUME Inv, LocksInv, [Next]_vars PROVE LocksInv'
  OBVIOUS
<1> USE RoomAssumption DEF LocksInv, Inside, InTransaction
<1>1. CASE UNCHANGED vars \/ LeaseIsLost \/ SweepTransactions
  BY <1>1 DEF vars, locks, LeaseIsLost, SweepTransactions
<1>2. ASSUME NEW h \in Handlers,
             (\E r \in Requests : Request(h, r)) \/ Forget(h) \/ Serve(h) \/ Abort(h)
      PROVE  LocksInv'
  <2>1. pc \in [Handlers -> Phases] /\ pc' \in [Handlers -> Phases]
        /\ \A o \in Handlers \ {h} : pc'[o] = pc[o]
    BY <1>2, OneMoves DEF Inv, HandlersInv
  <2>2. CASE (\E r \in Requests : Request(h, r)) \/ Forget(h)
    <3>1. UNCHANGED locks /\ pc[h] \in {"idle", "forget"}
          /\ \E phase \in {"idle", "forget", "gate"} : Goto(h, phase)
      BY <2>2 DEF Request, Forget
    <3>2. pc'[h] \in {"idle", "forget", "gate"}
      BY <2>1, <3>1 DEF Goto
    <3> QED BY <2>1, <3>1, <3>2 DEF locks
  <2>3. CASE EnterGate(h)
    BY <2>1, <2>3 DEF EnterGate, Goto
  <2>4. CASE TakeLease(h) \/ LeaseTimesOut(h)
    BY <2>1, <2>4 DEF TakeLease, LeaseTimesOut, Goto, locks
  <2>5. CASE Lock(h)
    BY <2>1, <2>5 DEF Lock, Goto
  <2>6. CASE Replay(h) \/ Build(h) \/ Write(h)
    BY <2>1, <2>6 DEF Replay, Build, Write, Goto, locks
  <2>7. CASE Commit(h) \/ Rollback(h)
    <3>1. Goto(h, "leave") /\ Unlock(h) /\ UNCHANGED <<lease, gate>> /\ pc[h] \in InTransaction
      BY <2>7 DEF Commit, Rollback
    <3> QED BY <2>1, <3>1 DEF Goto, Unlock, Inv, LockInv
  <2>8. CASE Leave(h)
    BY <2>1, <2>8 DEF Leave, FreeGate, Goto, Inv, LockInv
  <2>9. CASE Abort(h)
    BY <2>1, <2>9 DEF Abort, FreeGate, Unlock, Goto, Inv, LockInv
  <2> QED BY <1>2, <2>2, <2>3, <2>4, <2>5, <2>6, <2>7, <2>8, <2>9 DEF Serve
<1> QED
  BY <1>1, <1>2 DEF Next

\* A handler waits for another: for the gate, or for the advisory lock.
Waits(h, o) == \/ pc[h] = "gate" /\ gate[Home[h]] = o
               \/ pc[h] = "lock" /\ locked = o

\* Who is waited for is nearer to its end than who waits.
WaitsInOrder == \A h, o \in Handlers : Waits(h, o) => Rank[pc[o]] < Rank[pc[h]]

\* A handler that has not begun, or is done, holds neither.
GivenBack == \A h \in Handlers : pc[h] \in {"idle", "forget", "gate"} =>
               locked # h /\ \A i \in Instances : gate[i] # h

\* Once it has begun, a handler only comes nearer to its end.
StepsForward == \A h \in Handlers : pc'[h] # pc[h] => \/ pc[h] = "idle"
                                                      \/ Rank[pc'[h]] < Rank[pc[h]]

(* No two writes ever wait for each other, across the instance's gate, the *)
(* lease and the advisory lock, and what is held is given back on every    *)
(* way out, a failed one as well: what WritesEnd rests on beside fairness  *)
(* (lockRoom, its release, and the transaction of Send).                   *)
THEOREM WaitsInOrderHolds == Spec => [](WaitsInOrder /\ GivenBack)
<1>1. Inv /\ LocksInv => WaitsInOrder /\ GivenBack
  BY RoomAssumption DEF LocksInv, Inside, InTransaction, Waits, WaitsInOrder, GivenBack, Rank
<1> QED
  BY <1>1, InvHolds, LocksInit, LocksNext, PTL DEF Spec

(* No step of anybody sets a write back that has begun: it waits for each  *)
(* lock once, and is not tried again by the server (events.Send).          *)
THEOREM StepsForwardHolds == Spec => [][StepsForward]_vars
<1>1. Inv /\ [Next]_vars => [StepsForward]_vars
  <2> SUFFICES ASSUME Inv, [Next]_vars PROVE StepsForward \/ UNCHANGED vars
    OBVIOUS
  <2>1. CASE LeaseIsLost \/ SweepTransactions
    BY <2>1 DEF LeaseIsLost, SweepTransactions, StepsForward
  <2>2. ASSUME NEW h \in Handlers,
               (\E r \in Requests : Request(h, r)) \/ Forget(h) \/ Serve(h) \/ Abort(h)
        PROVE  StepsForward
    BY <2>2, OneMoves DEF StepsForward
  <2> QED BY <2>1, <2>2 DEF Next
<1> QED
  BY <1>1, InvHolds, PTL DEF Spec

-----------------------------------------------------------------------------
(* Types.  No more positions are drawn than there are because whoever may  *)
(* still draw one was counted when it began; and what a redaction is to    *)
(* mark is stored from when it was looked at.                              *)

Active == {h \in Handlers : pc[h] # "idle"}
Drawing == {h \in Handlers : pc[h] \in {"gate", "lease", "lock", "read", "write"}}

BoundInv ==
  /\ IsFiniteSet(Active) /\ seq + Cardinality(Drawing) <= MaxPos
  /\ sweeps \in 0..MaxSweeps /\ faults \in 0..MaxFaults

Looked(phase, s) ==
  phase \in {"write", "commit"} /\ s.content.type = "redaction" => Stored(s.content.redacts)

StoreTyped ==
  /\ \A e \in events : DOMAIN e = DOMAIN Root
  /\ rows \in [Users -> [membership : Memberships, event : Nat, forgotten : BOOLEAN]]
  /\ lastStream \in 0..seq
  /\ NoTxn \notin DOMAIN recorded
  /\ \A p \in DOMAIN redactedBy : Stored(p) /\ Stored(redactedBy[p])
  /\ \A h \in Handlers : Looked(pc[h], sess[h])

LEMMA BoundInit == Init => BoundInv
<1> SUFFICES ASSUME Init PROVE BoundInv
  OBVIOUS
<1>1. Active = {} /\ Drawing = {}
  BY DEF Init, Active, Drawing
<1> QED
  BY <1>1, FS_EmptySet, RoomAssumption DEF Init, BoundInv

(* Who draws no position yet is counted, and who draws one no longer is.   *)
LEMMA BoundNext == Inv /\ BoundInv /\ [Next]_vars => BoundInv'
<1> SUFFICES ASSUME Inv, BoundInv, [Next]_vars PROVE BoundInv'
  OBVIOUS
<1>1. /\ {MaxPos, MaxSweeps, MaxFaults} \subseteq Nat /\ seq \in Nat
      /\ sweeps \in 0..MaxSweeps /\ faults \in 0..MaxFaults
  BY RoomAssumption DEF BoundInv, Inv, HistoryInv
<1>2. Drawing \subseteq Active /\ IsFiniteSet(Active)
  BY DEF Drawing, Active, BoundInv
<1>3. /\ IsFiniteSet(Drawing) /\ Cardinality(Drawing) \in Nat /\ Cardinality(Active) \in Nat
      /\ Cardinality(Drawing) <= Cardinality(Active) /\ seq + Cardinality(Drawing) <= MaxPos
  BY <1>2, FS_Subset, FS_CardinalityType DEF BoundInv
<1>4. ASSUME seq' = seq, Active' \subseteq Active, Drawing' \subseteq Drawing,
             sweeps' \in 0..MaxSweeps, faults' \in 0..MaxFaults
      PROVE  BoundInv'
  <2>1. IsFiniteSet(Active') /\ IsFiniteSet(Drawing') /\ Cardinality(Drawing') <= Cardinality(Drawing)
    BY <1>2, <1>3, <1>4, FS_Subset
  <2>2. Cardinality(Drawing') \in Nat
    BY <2>1, FS_CardinalityType
  <2> QED BY <1>1, <1>3, <1>4, <2>1, <2>2 DEF BoundInv
<1>5. CASE UNCHANGED vars \/ LeaseIsLost \/ SweepTransactions
  <2>1. seq' = seq /\ pc' = pc /\ sweeps' \in 0..MaxSweeps /\ faults' \in 0..MaxFaults
    BY <1>1, <1>5 DEF vars, LeaseIsLost, SweepTransactions
  <2> QED BY <1>4, <2>1 DEF Active, Drawing
<1>6. ASSUME NEW h \in Handlers,
             (\E r \in Requests : Request(h, r)) \/ Forget(h) \/ Serve(h) \/ Abort(h)
      PROVE  BoundInv'
  <2>1. pc' \in [Handlers -> Phases] /\ \A o \in Handlers \ {h} : pc'[o] = pc[o]
    BY <1>6, OneMoves
  <2>2. sweeps' \in 0..MaxSweeps /\ faults' \in 0..MaxFaults
    <3>1. CASE (\E r \in Requests : Request(h, r)) \/ Forget(h)
      BY <1>1, <3>1 DEF Request, Forget
    <3>2. CASE Serve(h)
      BY <1>1, <3>2 DEF Serve, EnterGate, TakeLease, LeaseTimesOut, Lock, Replay, Build, Write,
                        Commit, Rollback, Leave
    <3>3. CASE Abort(h)
      BY <1>1, <3>3 DEF Abort
    <3> QED BY <1>6, <3>1, <3>2, <3>3
  <2>3. IsFiniteSet(Active')
    <3>1. Active' \subseteq Active \cup {h}
      BY <2>1 DEF Active
    <3> QED BY <1>2, <3>1, FS_AddElement, FS_Subset
  <2>4. CASE \E r \in Requests : Request(h, r)
    <3>1. pc[h] = "idle" /\ seq + Cardinality(Active) < MaxPos /\ seq' = seq
      BY <2>4 DEF Request, Active
    <3>2. Drawing' \subseteq Drawing \cup {h}
      BY <2>1 DEF Drawing
    <3>3. Cardinality(Drawing \cup {h}) = Cardinality(Drawing) + 1 /\ IsFiniteSet(Drawing \cup {h})
      BY <1>3, <3>1, FS_AddElement DEF Drawing
    <3>4. Cardinality(Drawing') <= Cardinality(Drawing) + 1 /\ IsFiniteSet(Drawing')
      BY <3>2, <3>3, FS_Subset
    <3>5. Cardinality(Drawing') \in Nat
      BY <3>4, FS_CardinalityType
    <3> QED BY <1>1, <1>3, <2>2, <2>3, <3>1, <3>4, <3>5 DEF BoundInv
  <2>5. CASE Write(h)
    <3>1. pc[h] = "write" /\ pc'[h] = "commit" /\ seq' = seq + 1
      BY <2>5 DEF Write, Goto, Inv, HandlersInv
    <3>2. Drawing' = Drawing \ {h} /\ h \in Drawing
      BY <2>1, <3>1 DEF Drawing
    <3>3. Cardinality(Drawing') = Cardinality(Drawing) - 1 /\ IsFiniteSet(Drawing')
      BY <1>3, <3>2, FS_RemoveElement
    <3>4. Cardinality(Drawing') \in Nat
      BY <3>3, FS_CardinalityType
    <3> QED BY <1>1, <1>3, <2>2, <2>3, <3>1, <3>3, <3>4 DEF BoundInv
  <2>6. CASE Forget(h) \/ Abort(h) \/ (Serve(h) /\ ~Write(h))
    <3>1. seq' = seq
      BY <2>6 DEF Forget, Serve, EnterGate, TakeLease, LeaseTimesOut, Lock, Replay, Build,
                  Commit, Rollback, Leave, Abort
    <3>2. pc'[h] \in {"gate", "lease", "lock", "read", "write"} =>
            pc[h] \in {"gate", "lease", "lock", "read", "write"}
      <4>1. \E phase \in Phases : /\ Goto(h, phase)
                                 /\ \/ phase \in {"idle", "forget", "commit", "leave"}
                                    \/ pc[h] \in {"gate", "lease", "lock", "read", "write"}
        BY <2>6 DEF Forget, Serve, EnterGate, TakeLease, LeaseTimesOut, Lock, Replay, Build,
                    Commit, Rollback, Leave, Abort, Phases, InTransaction
      <4> QED BY <4>1 DEF Goto, Inv, HandlersInv
    <3>3. Drawing' \subseteq Drawing
      BY <2>1, <3>2 DEF Drawing
    <3>4. IsFiniteSet(Drawing') /\ Cardinality(Drawing') <= Cardinality(Drawing)
      BY <1>3, <3>3, FS_Subset
    <3>5. Cardinality(Drawing') \in Nat
      BY <3>4, FS_CardinalityType
    <3> QED BY <1>1, <1>3, <2>2, <2>3, <3>1, <3>4, <3>5 DEF BoundInv
  <2> QED BY <1>6, <2>4, <2>5, <2>6 DEF Serve
<1> QED
  BY <1>5, <1>6 DEF Next

LEMMA StoreInit == Init => StoreTyped
<1> SUFFICES ASSUME Init PROVE StoreTyped
  OBVIOUS
<1>1. \A u \in Users : Start.member[u] \in Memberships
  BY RoomAssumption DEF States
<1>2. DOMAIN recorded = {} /\ DOMAIN redactedBy = {} /\ seq = 0 /\ lastStream = 0
  BY DEF Init
<1> QED
  BY <1>1, <1>2 DEF Init, StoreTyped, Looked

(* What is authorised as a membership is one.                              *)
LEMMA MembershipsAllowed ==
  ASSUME NEW c, NEW s, Authorise(c, s), c.type = "member"
  PROVE  c.membership \in Memberships
BY DEF Authorise, AuthoriseMember, Memberships

LEMMA StoreNext == Inv /\ Inv' /\ StoreTyped /\ [Next]_vars => StoreTyped'
<1> SUFFICES ASSUME Inv, Inv', StoreTyped, [Next]_vars PROVE StoreTyped'
  OBVIOUS
<1>1. seq \in Nat /\ seq' \in Nat /\ seq <= seq' /\ lastStream \in 0..seq
  <2>1. seq' = seq \/ seq' = seq + 1
    BY DEF Next, Request, Forget, Serve, EnterGate, TakeLease, LeaseTimesOut, Lock, Replay, Build,
           Write, Commit, Rollback, Leave, Abort, LeaseIsLost, SweepTransactions, vars
  <2> QED BY <2>1 DEF Inv, HistoryInv, StoreTyped
<1>2. CASE UNCHANGED <<events, rows, lastStream, redactedBy, pc, sess>>
           /\ DOMAIN recorded' \subseteq DOMAIN recorded
  BY <1>1, <1>2 DEF StoreTyped, Looked, Stored
<1>3. CASE UNCHANGED vars \/ LeaseIsLost \/ SweepTransactions
  <2>1. CASE SweepTransactions
    BY <1>2, <2>1 DEF SweepTransactions
  <2> QED BY <1>2, <1>3, <2>1 DEF vars, store, LeaseIsLost
<1>4. ASSUME NEW h \in Handlers,
             (\E r \in Requests : Request(h, r)) \/ Forget(h) \/ Serve(h) \/ Abort(h)
      PROVE  StoreTyped'
  <2>1. \A o \in Handlers \ {h} : pc'[o] = pc[o] /\ sess'[o] = sess[o]
    BY <1>4, OneMoves
  <2>2. ASSUME UNCHANGED <<events, lastStream, recorded, redactedBy>>,
               rows' \in [Users -> [membership : Memberships, event : Nat, forgotten : BOOLEAN]],
               Looked(pc'[h], sess'[h])
        PROVE  StoreTyped'
    <3>1. \A o \in Handlers : Looked(pc'[o], sess'[o])
      BY <2>1, <2>2 DEF StoreTyped
    <3> QED BY <1>1, <2>2, <3>1 DEF StoreTyped, Looked, Stored
  <2>3. pc' \in [Handlers -> Phases] /\ pc \in [Handlers -> Phases] /\ DOMAIN sess = Handlers
    BY <1>4, OneMoves DEF Inv, HandlersInv
  <2>4. CASE Forget(h) /\ pc[h] = "forget"
    <3>1. Looked(pc'[h], sess'[h])
      BY <2>3, <2>4 DEF Forget, Goto, Looked
    <3>2. UNCHANGED <<events, lastStream, recorded, redactedBy>>
          /\ rows' = [rows EXCEPT ![sess[h].content.target].forgotten = TRUE]
      BY <2>4 DEF Forget
    <3>3. rows' \in [Users -> [membership : Memberships, event : Nat, forgotten : BOOLEAN]]
      BY <3>2 DEF StoreTyped
    <3> QED BY <2>2, <3>1, <3>2, <3>3
  <2>5. CASE (\E r \in Requests : Request(h, r)) \/ (Forget(h) /\ pc[h] = "idle")
    <3>1. UNCHANGED store /\ pc'[h] \notin {"write", "commit"}
      BY <2>3, <2>5 DEF Request, Forget, Goto
    <3> QED BY <2>2, <3>1 DEF store, Looked, StoreTyped
  <2>6. CASE EnterGate(h) \/ TakeLease(h) \/ LeaseTimesOut(h) \/ Lock(h) \/ Rollback(h) \/ Leave(h)
             \/ Abort(h)
    <3>1. UNCHANGED store /\ pc'[h] \notin {"write", "commit"}
      BY <2>3, <2>6 DEF EnterGate, TakeLease, LeaseTimesOut, Lock, Rollback, Leave, Abort, Goto
    <3> QED BY <2>2, <3>1 DEF store, Looked, StoreTyped
  <2>7. CASE Replay(h) \/ Build(h)
    <3>1. UNCHANGED store /\ sess'[h].content = sess[h].content
          /\ (IsRedaction(h) => Stored(sess[h].content.redacts))
      BY <2>3, <2>7, SessionFacts DEF Replay, Build, Acceptable, MayRedact, NoSession
    <3> QED BY <2>2, <3>1 DEF store, Looked, StoreTyped, IsRedaction
  <2>8. CASE Write(h)
    <3>1. UNCHANGED store /\ sess'[h].content = sess[h].content /\ pc[h] = "write"
      BY <2>3, <2>8, SessionFacts DEF Write, NoSession
    <3> QED BY <2>2, <3>1 DEF store, Looked, StoreTyped
  <2>9. CASE Commit(h)
    <3> DEFINE s == sess[h]
               n == sess[h].event
    <3>1. /\ pc[h] = "commit" /\ sess' = sess /\ redactedBy' = Mark(h) /\ seq' = seq
          /\ HandlerInv("commit", s) /\ Looked("commit", s)
      BY <2>9, SessionFacts DEF Commit, StoreTyped
    <3>2. CASE IsNew(h)
      <4>1. /\ events' = events \cup {n} /\ rows' = Project(n) /\ recorded' = Record(h)
            /\ lastStream' = Max({lastStream, s.answer})
        BY <2>9, <3>2 DEF Commit
      <4>2. /\ Built(s) /\ n.pos = s.answer /\ s.answer \in 1..seq /\ DOMAIN n = DOMAIN Root
            /\ n.content = s.content /\ Authorise(n.content, n.before)
        BY <3>1, <3>2 DEF HandlerInv, IsNew, Built
      <4>3. lastStream' \in 0..seq'
        <5>1. lastStream' \in {lastStream, s.answer}
          <6>1. lastStream <= s.answer \/ s.answer <= lastStream
            BY <1>1, <4>2
          <6>2. {lastStream, s.answer} \in SUBSET Int
            BY <1>1, <4>2
          <6> DEFINE two == {lastStream, s.answer}
          <6>3. ASSUME lastStream <= s.answer PROVE Max(two) = s.answer
            <7>1. s.answer \in two /\ \A y \in two : y <= s.answer
              BY <1>1, <4>2, <6>3
            <7> HIDE DEF two
            <7> QED BY <6>2, <7>1, MaxIs DEF two
          <6>4. ASSUME s.answer <= lastStream PROVE Max(two) = lastStream
            <7>1. lastStream \in two /\ \A y \in two : y <= lastStream
              BY <1>1, <4>2, <6>4
            <7> HIDE DEF two
            <7> QED BY <6>2, <7>1, MaxIs DEF two
          <6> QED BY <4>1, <6>1, <6>3, <6>4
        <5> QED BY <1>1, <3>1, <4>2, <5>1
      <4>4. rows' \in [Users -> [membership : Memberships, event : Nat, forgotten : BOOLEAN]]
        <5>1. n.content.type = "member" =>
                [membership |-> n.content.membership, event |-> n.pos, forgotten |-> FALSE]
                  \in [membership : Memberships, event : Nat, forgotten : BOOLEAN]
          BY <1>1, <4>2, MembershipsAllowed
        <5> QED BY <4>1, <5>1 DEF Project, StoreTyped
      <4>5. NoTxn \notin DOMAIN recorded'
        BY <4>1 DEF Record, StoreTyped
      <4> DEFINE StoredNow(p) == \E e \in events' : e.pos = p
      <4>6. \A p : Stored(p) => StoredNow(p)
        BY <4>1 DEF Stored
      <4>7. StoredNow(s.answer)
        BY <4>1, <4>2
      <4> HIDE DEF StoredNow
      <4>8. \A p \in DOMAIN redactedBy' : StoredNow(p) /\ StoredNow(redactedBy'[p])
        BY <3>1, <4>6, <4>7 DEF Mark, IsRedaction, Looked, StoreTyped
      <4>9. \A o \in Handlers : pc'[o] \in {"write", "commit"} /\ sess'[o].content.type = "redaction"
                                => StoredNow(sess'[o].content.redacts)
        <5>1. pc'[h] = "leave"
          BY <2>3, <2>9 DEF Commit, Goto
        <5> QED BY <2>1, <4>6, <5>1 DEF StoreTyped, Looked
      <4>10. \A e \in events' : DOMAIN e = DOMAIN Root
        BY <4>1, <4>2 DEF StoreTyped
      <4> QED BY <4>3, <4>4, <4>5, <4>8, <4>9, <4>10 DEF StoreTyped, Looked, Stored, StoredNow
    <3>3. CASE ~IsNew(h)
      <4>1. UNCHANGED <<events, extremities, rows, lastStream, recorded>>
        BY <2>9, <3>3 DEF Commit
      <4>2. Stored(s.answer)
        <5>1. ~Built(s)
          BY <3>3 DEF IsNew, Built, Tip, Inv, HistoryInv, Root
        <5> QED BY <3>1, <5>1 DEF HandlerInv, Answers, Stored
      <4>3. \A p \in DOMAIN redactedBy' : Stored(p) /\ Stored(redactedBy'[p])
        BY <3>1, <4>2 DEF Mark, IsRedaction, Looked, StoreTyped
      <4>4. \A o \in Handlers : Looked(pc'[o], sess'[o])
        <5>1. pc'[h] = "leave"
          BY <2>3, <2>9 DEF Commit, Goto
        <5> QED BY <2>1, <5>1 DEF StoreTyped, Looked
      <4> QED BY <1>1, <4>1, <4>3, <4>4 DEF StoreTyped, Looked, Stored
    <3> QED BY <3>2, <3>3
  <2> QED BY <1>4, <2>4, <2>5, <2>6, <2>7, <2>8, <2>9 DEF Serve, Forget
<1> QED
  BY <1>3, <1>4 DEF Next

(* The rows of the room's tables are what the queries of sync expect, a    *)
(* recorded transaction and a redaction name events that are stored, and   *)
(* no lock is held by anybody who is not there (internal/repository).      *)
THEOREM TypeOKHolds == Spec => []TypeOK
<1>1. Inv /\ LocksInv /\ BoundInv /\ StoreTyped => TypeOK
  <2> SUFFICES ASSUME Inv, LocksInv, BoundInv, StoreTyped PROVE TypeOK
    OBVIOUS
  <2>1. seq \in 0..MaxPos
    <3>1. Drawing \subseteq Active /\ IsFiniteSet(Active)
      BY DEF Drawing, Active, BoundInv
    <3>2. Cardinality(Drawing) \in Nat
      BY <3>1, FS_Subset, FS_CardinalityType
    <3> QED BY <3>2, RoomAssumption DEF BoundInv, Inv, HistoryInv
  <2>2. extremities \subseteq 0..seq
    BY DEF Inv, HistoryInv, Tip
  <2>3. \A t \in DOMAIN recorded : recorded[t] \in 1..seq
    <3> SUFFICES ASSUME NEW t \in DOMAIN recorded PROVE recorded[t] \in 1..seq
      OBVIOUS
    <3>1. PICK e \in events : e.pos = recorded[t] /\ e.txn = t
      BY DEF Inv, RetryInv
    <3>2. e.pos \in 0..seq /\ seq \in Nat /\ (e.pos = 0 => e = Root)
      BY DEF Inv, HistoryInv, Root
    <3>3. e # Root
      BY <3>1 DEF StoreTyped, Root
    <3> QED BY <3>1, <3>2, <3>3
  <2>4. \A u \in Users : rows[u].membership \in Memberships /\ rows[u].forgotten \in BOOLEAN
    BY DEF StoreTyped
  <2>5. /\ Root \in events /\ \A e \in events : DOMAIN e = DOMAIN Root /\ e.pos \in 0..seq
        /\ \A h \in Handlers : DOMAIN sess[h] = DOMAIN NoSession
        /\ pc \in [Handlers -> Phases]
    BY DEF Inv, HistoryInv, HandlersInv, HandlerInv, StoreTyped
  <2> QED BY <2>1, <2>2, <2>3, <2>4, <2>5 DEF TypeOK, LocksInv, BoundInv, StoreTyped
<1> QED
  BY <1>1, InvHolds, LocksInit, LocksNext, BoundInit, BoundNext, StoreInit, StoreNext, PTL DEF Spec

-----------------------------------------------------------------------------
(* The room implements RoomHistory.  Its rules are the same ones.          *)
LEMMA SameRules ==
  ASSUME NEW e, NEW s
  PROVE  History!Authorise(e, s) = Authorise(e, s) /\ History!Apply(s, e) = Apply(s, e)
<1> USE DEF History!Joined, Joined, History!UserLevel, UserLevel, History!StateTypes, StateTypes,
            History!Reaches, Reaches, History!Outranks, Outranks
<1>1. History!AuthoriseMember(e, s) = AuthoriseMember(e, s)
  BY DEF History!AuthoriseMember, AuthoriseMember, History!AuthoriseJoin, AuthoriseJoin,
         History!AuthoriseInvite, AuthoriseInvite, History!AuthoriseLeave, AuthoriseLeave,
         History!AuthoriseBan, AuthoriseBan, History!AuthoriseKnock, AuthoriseKnock
<1>2. \A a, b : History!Changed(a, b) = Changed(a, b) /\ \A k : History!Entry(a, k) = Entry(a, k)
  BY DEF History!Changed, Changed, History!Entry, Entry
<1>3. \A l, a, b : History!CheckLevelTable(l, a, b) = CheckLevelTable(l, a, b)
  BY <1>2 DEF History!CheckLevelTable, CheckLevelTable
<1>4. \A u, l, a, b : History!CheckUserTable(u, l, a, b) = CheckUserTable(u, l, a, b)
  BY <1>2 DEF History!CheckUserTable, CheckUserTable
<1>5. History!AuthorisePowerLevels(e, s) = AuthorisePowerLevels(e, s)
  BY <1>3, <1>4 DEF History!AuthorisePowerLevels, AuthorisePowerLevels, History!Basics, Basics
<1>6. History!EventLevel(s.levels, e.type) = EventLevel(s.levels, e.type)
  BY DEF History!EventLevel, EventLevel
<1>7. History!Authorise(e, s) = Authorise(e, s)
  BY <1>1, <1>5, <1>6 DEF History!Authorise, Authorise
<1>8. History!Apply(s, e) = Apply(s, e)
  BY DEF History!Apply, Apply
<1> QED
  BY <1>7, <1>8

\* The history the room has, see History in RoomWrites.
Past == [d \in 1..Parent.depth |-> (CHOOSE e \in events : e.depth = d).content]

LEMMA PastInit == Init => History!Init
<1> SUFFICES ASSUME Init PROVE History!Init
  OBVIOUS
<1>1. HistoryInv /\ Tip(Root)
  BY InvInit DEF Init, Tip, Root, Inv
<1>2. Parent = Root /\ Current = StateAfter(Root)
  BY <1>1, ParentIs
<1>3. Current = Start
  BY <1>2 DEF Root, StateAfter, Apply
<1>4. Root.depth = 0 /\ 1..0 = {}
  BY DEF Root
<1>5. Past = <<>>
  BY <1>2, <1>4 DEF Past
<1> QED
  BY <1>3, <1>5 DEF History!Init, Past

(* An event that is added is the last one of the history, and authorised   *)
(* by the state the others leave behind.                                   *)
LEMMA PastNew ==
  ASSUME Inv, Inv', NEW h \in Handlers, Commit(h), IsNew(h)
  PROVE  History!Accept
<1> DEFINE s == sess[h]
           n == sess[h].event
<1>1. /\ pc[h] = "commit" /\ events' = events \cup {n}
      /\ extremities' = (extremities \ s.replaces) \cup {s.answer}
  BY DEF Commit
<1>2. /\ Built(s) /\ n.pos = s.answer /\ s.replaces = extremities /\ n.content = s.content
      /\ \A e \in events : e.pos < s.answer
  BY <1>1, SessionFacts DEF HandlerInv, IsNew, Built
<1>3. PICK t : /\ Tip(t) /\ n.prev = t.pos /\ n.depth = t.depth + 1 /\ n.before = StateAfter(t)
               /\ Authorise(n.content, n.before)
  BY <1>2 DEF Built
<1>4. Parent = t /\ Current = StateAfter(t)
  BY <1>3, ParentIs DEF Inv
<1>5. Parent' = n
  <2>1. extremities' = {n.pos}
    BY <1>1, <1>2
  <2>2. \A e \in events' : e.pos = n.pos => e = n
    BY <1>1 DEF Inv, HistoryInv
  <2>3. (CHOOSE e \in events' : e.pos = n.pos) = n
    BY <1>1, <2>2
  <2> QED BY <2>1, <2>3 DEF Parent, Event
<1>6. Current' = Apply(Current, n.content)
  <2>1. Current' = Apply(n.before, n.content)
    BY <1>5 DEF Current, StateAfter
  <2> QED BY <1>3, <1>4, <2>1
<1>7. t.depth \in Nat /\ \A e \in events : e.depth \in Nat /\ e.depth <= t.depth
  BY <1>3 DEF Inv, HistoryInv, Tip
<1> DEFINE was(d) == (CHOOSE e \in events : e.depth = d).content
           is(d)  == (CHOOSE e \in events' : e.depth = d).content
<1>8. \A d \in 1..t.depth : is(d) = was(d) /\ is(d) \in {e.content : e \in events'}
  <2> SUFFICES ASSUME NEW d \in 1..t.depth
               PROVE  is(d) = was(d) /\ is(d) \in {e.content : e \in events'}
    OBVIOUS
  <2>1. PICK f \in events : f.depth = d
    BY <1>3, <1>7 DEF Inv, HistoryInv, Tip
  <2>2. (CHOOSE e \in events : e.depth = d) = f
    BY <2>1 DEF Inv, HistoryInv
  <2>3. (CHOOSE e \in events' : e.depth = d) = f
    BY <1>1, <2>1 DEF Inv, HistoryInv
  <2> QED BY <1>1, <2>2, <2>3
<1>9. is(t.depth + 1) = n.content
  <2>1. (CHOOSE e \in events' : e.depth = t.depth + 1) = n
    BY <1>1, <1>3, <1>7
  <2> QED BY <2>1
<1> DEFINE k == t.depth
           S == {e.content : e \in events'}
           before == [d \in 1..k |-> was(d)]
           after  == [d \in 1..(k + 1) |-> is(d)]
<1>10. Past = before /\ Past' = after
  BY <1>3, <1>4, <1>5 DEF Past
<1> HIDE DEF was, is, n, s
<1>11. k \in Nat /\ n.content \in S /\ (k + 1) \in 1..(k + 1)
  BY <1>1, <1>7 DEF n
<1>12. before \in Seq(S) /\ Len(before) = k
  BY <1>8, <1>11
<1>13. after \in Seq(S) /\ Len(after) = k + 1 /\ after[Len(after)] = n.content
  <2>1. \A d \in 1..(k + 1) : d \in 1..k \/ d = k + 1
    BY <1>11
  <2>2. \A d \in 1..(k + 1) : is(d) \in S
    BY <1>8, <1>9, <1>11, <2>1
  <2> QED BY <1>9, <1>11, <2>2
<1>14. after = Append(before, n.content)
  <2> DEFINE appended == Append(before, n.content)
  <2>1. appended \in Seq(S) /\ Len(appended) = k + 1
    BY <1>11, <1>12
  <2>2. \A d \in 1..(k + 1) : appended[d] = after[d]
    BY <1>8, <1>9, <1>11, <1>12
  <2> HIDE DEF appended, after, S
  <2>3. Len(appended) = Len(after) /\ \A d \in 1..Len(appended) : appended[d] = after[d]
    BY <1>13, <2>1, <2>2
  <2>4. appended = after
    BY <1>13, <2>1, <2>3, SeqEqual
  <2> QED BY <2>4 DEF appended
<1>15. History!Last(after) = n.content
  BY <1>13 DEF History!Last
<1> HIDE DEF before, after, k, S
<1>16. /\ Len(after) = Len(before) + 1 /\ after = Append(before, History!Last(after))
  BY <1>12, <1>13, <1>14, <1>15
<1>17. History!Authorise(History!Last(after), Current)
       /\ Current' = History!Apply(Current, History!Last(after))
  BY <1>3, <1>4, <1>6, <1>15, SameRules DEF n
<1> QED
  BY <1>10, <1>16, <1>17 DEF History!Accept, Past

LEMMA PastStutter ==
  ASSUME UNCHANGED <<events, extremities>>
  PROVE  UNCHANGED <<Past, Current>>
BY DEF Past, Current, Parent, Event, StateAfter

LEMMA PastNext == Inv /\ Inv' /\ [Next]_vars => [History!Accept]_<<Past, Current>>
<1> SUFFICES ASSUME Inv, Inv', [Next]_vars PROVE [History!Accept]_<<Past, Current>>
  OBVIOUS
<1>1. CASE \E h \in Handlers : Commit(h) /\ IsNew(h)
  BY <1>1, PastNew
<1>2. CASE ~\E h \in Handlers : Commit(h) /\ IsNew(h)
  <2>1. UNCHANGED <<events, extremities>>
    BY <1>2 DEF Next, Request, Forget, Serve, EnterGate, TakeLease, LeaseTimesOut, Lock, Replay,
                Build, Write, Commit, Rollback, Leave, Abort, LeaseIsLost, SweepTransactions,
                store, vars
  <2> QED BY <2>1, PastStutter
<1> QED
  BY <1>1, <1>2

(* Whatever writers do, the room's history only grows at its end, by       *)
(* events that the state before them allows.                               *)
THEOREM ImplementsRoomHistoryHolds == Spec => ImplementsRoomHistory
<1>1. Inv /\ Inv' /\ [Next]_vars => [History!Accept]_<<Past, Current>>
  BY PastNext
<1>2. Init => History!Init
  BY PastInit
<1> QED
  BY <1>1, <1>2, InvHolds, PTL DEF Spec, ImplementsRoomHistory, History!Spec, Past
=============================================================================
