-------------------------- MODULE SlidingSyncProofs --------------------------
(***************************************************************************)
(* Proofs about SlidingSync, for any number of handlers, rooms, events and *)
(* failures: the types and what is on offer for any number of instances,   *)
(* the rest for the handlers of one instance, whose gate orders them.      *)
(***************************************************************************)
EXTENDS SlidingSync, FiniteSetTheorems, WellFoundedInduction, TLAPS

Replies  == [gen : Nat, events : SUBSET Nat, data : SUBSET Nat, rooms : SUBSET Rooms,
             ceiling : Nat, dataTo : Nat]
Sessions == [pos : Positions, rooms : SUBSET Rooms, widen : BOOLEAN, wants : BOOLEAN, nid : Nat,
             confirmed : Nat, cursor : Nat, initial : BOOLEAN, reply : Replies]

Connections ==
  [nid : 0..MaxNid, confirmed : Nat, cursor : Nat, pending : Nat, offered : Nat]

(* The greatest position that any answer has reached.                      *)
Reached == IF published >= receded THEN published ELSE receded

TypeStore ==
  /\ issued \in 0..MaxPos /\ open \subseteq 1..issued /\ committed \subseteq 1..issued
  /\ published \in 0..issued /\ receded \in 0..issued /\ dataAt \in 0..MaxData
  /\ roomOf \in [1..MaxPos -> Rooms]
  /\ \A p \in open : Reached < p

TypeRow ==
  /\ conn \in Connections
  /\ sentTo \in [Rooms -> {Unsent} \cup Nat] /\ staged \in [Rooms -> {Unsent} \cup Nat]
  /\ nids \in 0..MaxNid /\ faults \in 0..MaxFaults
  /\ \A r \in Rooms : sentTo[r] <= Reached /\ staged[r] <= Reached

TypeHandlers ==
  /\ pc \in [Handlers -> Phases] /\ sess \in [Handlers -> Sessions]
  /\ ahead \in [Handlers -> SUBSET Handlers]
  /\ \A h \in Handlers :
       LET reply == sess[h].reply IN
       /\ reply.events \subseteq committed /\ \A p \in reply.events : p <= Reached
       /\ reply.data \subseteq 1..dataAt /\ reply.ceiling <= Reached

TypeClient ==
  /\ client \in [pos : Positions, asked : Handlers \cup {Nobody}, have : SUBSET Nat,
                 data : SUBSET Nat]
  /\ client.have \subseteq committed /\ client.data \subseteq 1..dataAt
  /\ \A p \in client.have : p <= Reached

(* The types, and that nothing goes beyond what has ever been published.   *)
TypeInv == TypeStore /\ TypeRow /\ TypeHandlers /\ TypeClient

LEMMA NoSessionType == NoSession \in Sessions /\ NoReply \in Replies /\ Fresh \in Positions
BY DEF NoSession, Sessions, NoReply, Replies, Fresh, Positions

LEMMA ReachedNat ==
  ASSUME TypeInv
  PROVE  Reached \in Nat /\ published \in Nat /\ receded \in Nat
         /\ published <= Reached /\ receded <= Reached
BY SyncAssumption DEF TypeInv, TypeStore, Reached

LEMMA TypeInit == Init => TypeInv
<1> SUFFICES ASSUME Init PROVE TypeInv
  OBVIOUS
<1> USE SyncAssumption DEF Init
<1>1. TypeStore
  BY DEF TypeStore, Reached
<1>2. TypeRow
  BY DEF TypeRow, NoRow, Unsent, Connections, Reached
<1>3. TypeHandlers
  <2>1. pc \in [Handlers -> Phases] /\ sess \in [Handlers -> Sessions]
        /\ ahead \in [Handlers -> SUBSET Handlers]
    BY NoSessionType DEF Phases
  <2>2. \A h \in Handlers : sess[h].reply = NoReply
    BY DEF NoSession
  <2> QED BY <2>1, <2>2 DEF TypeHandlers, NoReply, Reached
<1>4. TypeClient
  BY NoSessionType DEF TypeClient, Reached
<1> QED BY <1>1, <1>2, <1>3, <1>4 DEF TypeInv

-----------------------------------------------------------------------------
(* What a handler's move does to the handlers.                             *)

LEMMA GotoEffect ==
  ASSUME TypeInv, NEW h \in Handlers, NEW phase \in Phases, Goto(h, phase)
  PROVE  /\ pc' \in [Handlers -> Phases] /\ pc'[h] = phase
         /\ \A g \in Handlers \ {h} : pc'[g] = pc[g]
BY DEF Goto, TypeInv, TypeHandlers

LEMMA LeaveEffect ==
  ASSUME TypeInv, NEW h \in Handlers, Leave(h)
  PROVE  /\ pc' \in [Handlers -> Phases] /\ pc'[h] = "idle"
         /\ sess' \in [Handlers -> Sessions] /\ sess'[h] = NoSession
         /\ ahead' \in [Handlers -> SUBSET Handlers] /\ ahead'[h] = {}
         /\ \A g \in Handlers \ {h} :
              pc'[g] = pc[g] /\ sess'[g] = sess[g] /\ ahead'[g] = ahead[g] \ {h}
BY NoSessionType DEF Leave, Goto, TypeInv, TypeHandlers, Phases

(* What may be changed of a session while its answer stays as it is.       *)
LEMMA TypeFrames ==
  ASSUME TypeInv
  PROVE  /\ UNCHANGED store => TypeStore'
         /\ UNCHANGED <<store, row, nids, faults>> => TypeRow'
         /\ UNCHANGED <<store, handlers>> => TypeHandlers'
         /\ UNCHANGED <<store, client>> => TypeClient'
<1>1. UNCHANGED store => TypeStore'
  BY DEF TypeInv, TypeStore, store, Reached
<1>2. UNCHANGED <<store, row, nids, faults>> => TypeRow'
  BY DEF TypeInv, TypeRow, store, row, Reached
<1>3. UNCHANGED <<store, handlers>> => TypeHandlers'
  BY DEF TypeInv, TypeHandlers, store, handlers, Reached
<1>4. UNCHANGED <<store, client>> => TypeClient'
  BY DEF TypeInv, TypeClient, store, Reached
<1> QED BY <1>1, <1>2, <1>3, <1>4

(* A session that keeps its reply, or gets a new one of these bounds.      *)
LEMMA SessionStep ==
  ASSUME TypeInv, UNCHANGED <<store, ahead>>, NEW h \in Handlers, NEW s \in Sessions,
         sess' = [sess EXCEPT ![h] = s], pc' \in [Handlers -> Phases],
         /\ s.reply.events \subseteq committed /\ \A p \in s.reply.events : p <= Reached
         /\ s.reply.data \subseteq 1..dataAt /\ s.reply.ceiling <= Reached
  PROVE  TypeHandlers'
<1>1. sess' \in [Handlers -> Sessions] /\ ahead' \in [Handlers -> SUBSET Handlers]
  BY DEF TypeInv, TypeHandlers
<1>2. ASSUME NEW g \in Handlers PROVE sess'[g] = IF g = h THEN s ELSE sess[g]
  BY DEF TypeInv, TypeHandlers
<1> QED BY <1>1, <1>2 DEF TypeInv, TypeHandlers, store, Reached

LEMMA LeaveStep ==
  ASSUME TypeInv, UNCHANGED store, NEW h \in Handlers, Leave(h) PROVE TypeHandlers'
<1>1. \A g \in Handlers : sess'[g] = NoSession \/ sess'[g] = sess[g]
  BY LeaveEffect
<1>2. /\ NoSession.reply.events = {} /\ NoSession.reply.data = {}
      /\ NoSession.reply.ceiling = 0 /\ Reached \in Nat /\ UNCHANGED Reached
  BY ReachedNat DEF NoSession, NoReply, Reached, store
<1> QED BY <1>1, <1>2, LeaveEffect DEF TypeInv, TypeHandlers, store

(* A handler's step that leaves the sessions as they are.                  *)
LEMMA PhaseStep ==
  ASSUME TypeInv, UNCHANGED <<store, sess, ahead>>, pc' \in [Handlers -> Phases]
  PROVE  TypeHandlers'
BY DEF TypeInv, TypeHandlers, store, Reached

-----------------------------------------------------------------------------
LEMMA TypeSend == ASSUME TypeInv, Send PROVE TypeInv'
<1>1. TypeStore'
  BY SyncAssumption DEF TypeInv, TypeStore, Send, Reached
<1>2. TypeRow'
  BY DEF TypeInv, TypeRow, Send, row, Reached
<1>3. TypeHandlers'
  BY DEF TypeInv, TypeHandlers, Send, handlers, Reached
<1>4. TypeClient'
  BY DEF TypeInv, TypeClient, Send, Reached
<1> QED BY <1>1, <1>2, <1>3, <1>4 DEF TypeInv

LEMMA TypeSettle == ASSUME TypeInv, NEW S \in SUBSET open, Settle(S) PROVE TypeInv'
<1>1. TypeStore'
  BY DEF TypeInv, TypeStore, Settle, Reached
<1>2. TypeRow'
  BY DEF TypeInv, TypeRow, Settle, row, Reached
<1>3. TypeHandlers'
  BY DEF TypeInv, TypeHandlers, Settle, handlers, Reached
<1>4. TypeClient'
  BY DEF TypeInv, TypeClient, Settle, Reached
<1> QED BY <1>1, <1>2, <1>3, <1>4 DEF TypeInv

(* What has been reached once stays so.                                    *)
LEMMA TypeReach ==
  ASSUME TypeInv, TypeStore', Reached <= Reached', UNCHANGED <<committed, dataAt, row, nids>>,
         faults' \in 0..MaxFaults, UNCHANGED <<handlers, client>>
  PROVE  TypeInv'
<1>1. Reached \in Nat /\ Reached' \in Nat
  BY ReachedNat DEF TypeStore, Reached
<1>2. TypeRow'
  <2>1. \A r \in Rooms : sentTo[r] \in Int /\ staged[r] \in Int
    BY DEF TypeInv, TypeRow, Unsent
  <2> QED BY <1>1, <2>1 DEF TypeInv, TypeRow, row
<1>3. TypeHandlers'
  <2>1. \A h \in Handlers : sess[h].reply.ceiling \in Nat
    BY DEF TypeInv, TypeHandlers, Sessions, Replies
  <2>2. \A h \in Handlers : \A p \in sess[h].reply.events : p \in Nat
    BY DEF TypeInv, TypeHandlers, Sessions, Replies
  <2> QED BY <1>1, <2>1, <2>2 DEF TypeInv, TypeHandlers, handlers
<1>4. TypeClient'
  BY <1>1 DEF TypeInv, TypeClient
<1> QED BY <1>2, <1>3, <1>4 DEF TypeInv

LEMMA TypePublish == ASSUME TypeInv, Publish PROVE TypeInv'
<1>1. /\ published' \in published + 1 .. issued /\ \A p \in open : published' < p
      /\ UNCHANGED <<issued, open, committed, receded, roomOf, dataAt, row, nids, faults,
                     handlers, client>>
  BY DEF Publish
<1>2. TypeStore'
  BY <1>1, SyncAssumption DEF TypeInv, TypeStore, Reached
<1>3. Reached <= Reached'
  BY <1>1, ReachedNat, SyncAssumption DEF TypeInv, TypeStore, Reached
<1> QED BY <1>1, <1>2, <1>3, TypeReach DEF TypeInv, TypeRow

LEMMA RecedeEffect ==
  ASSUME TypeInv, Recede
  PROVE  /\ published' \in Nat /\ published' < published
         /\ receded' = IF published > receded THEN published ELSE receded
         /\ UNCHANGED Reached
<1>1. published \in Nat /\ receded \in Nat
  BY ReachedNat
<1>2. receded' = IF published > receded THEN published ELSE receded
  BY <1>1 DEF Recede, Max
<1> QED BY <1>1, <1>2 DEF Recede, Reached

LEMMA TypeRecede == ASSUME TypeInv, Recede PROVE TypeInv'
<1>1. /\ faults' \in 0..MaxFaults
      /\ UNCHANGED <<issued, open, committed, roomOf, dataAt, row, nids, handlers, client>>
  BY SyncAssumption DEF Recede, TypeInv, TypeRow
<1>2. TypeStore'
  BY <1>1, RecedeEffect, SyncAssumption DEF TypeInv, TypeStore
<1> QED BY <1>1, <1>2, RecedeEffect, ReachedNat, TypeReach

LEMMA TypeSetAccountData == ASSUME TypeInv, SetAccountData PROVE TypeInv'
<1>1. TypeStore' /\ dataAt \in Nat /\ dataAt' = dataAt + 1
  BY SyncAssumption DEF TypeInv, TypeStore, SetAccountData, Reached
<1>2. TypeRow'
  BY DEF TypeInv, TypeRow, SetAccountData, row, Reached
<1>3. TypeHandlers'
  BY <1>1 DEF TypeInv, TypeHandlers, SetAccountData, handlers, Reached
<1>4. TypeClient'
  BY <1>1 DEF TypeInv, TypeClient, SetAccountData, Reached
<1> QED BY <1>1, <1>2, <1>3, <1>4 DEF TypeInv

LEMMA TypeRequest == ASSUME TypeInv, NEW h \in Handlers, Request(h) PROVE TypeInv'
<1>1. TypeStore' /\ TypeRow'
  BY TypeFrames DEF Request, store
<1>2. TypeClient'
  BY DEF Request, TypeInv, TypeClient, store, Reached
<1>3. TypeHandlers'
  <2>1. PICK rooms \in SUBSET Rooms \ {{}}, widen \in Widens, wants \in Wants :
          sess' = [sess EXCEPT ![h] = [NoSession EXCEPT !.pos = client.pos, !.rooms = rooms,
                                                        !.widen = widen, !.wants = wants]]
    BY DEF Request
  <2> DEFINE s == [NoSession EXCEPT !.pos = client.pos, !.rooms = rooms,
                                    !.widen = widen, !.wants = wants]
  <2>2. s \in Sessions /\ s.reply = NoReply
    BY NoSessionType, SyncAssumption DEF TypeInv, TypeClient, Sessions, NoSession
  <2>3. /\ NoReply.events = {} /\ NoReply.data = {}
        /\ NoReply.ceiling = 0 /\ Reached \in Nat
    BY ReachedNat DEF NoReply
  <2>4. pc' \in [Handlers -> Phases] /\ ahead' \in [Handlers -> SUBSET Handlers]
    BY DEF Request, TypeInv, TypeHandlers, Phases
  <2>5. sess' \in [Handlers -> Sessions] /\ sess'[h] = s
        /\ \A g \in Handlers \ {h} : sess'[g] = sess[g]
    BY <2>1, <2>2 DEF TypeInv, TypeHandlers
  <2>6. UNCHANGED store
    BY DEF Request
  <2>7. ASSUME NEW g \in Handlers
        PROVE  LET reply == sess'[g].reply IN
               /\ reply.events \subseteq committed /\ \A p \in reply.events : p <= Reached
               /\ reply.data \subseteq 1..dataAt /\ reply.ceiling <= Reached
    <3>1. CASE g = h
      BY <3>1, <2>2, <2>3, <2>5
    <3>2. CASE g # h
      BY <3>2, <2>5 DEF TypeInv, TypeHandlers
    <3> QED BY <3>1, <3>2
  <2> QED BY <2>4, <2>5, <2>6, <2>7 DEF TypeHandlers, store, Reached
<1> QED BY <1>1, <1>2, <1>3 DEF TypeInv

LEMMA TypeGiveUp == ASSUME TypeInv, GiveUp PROVE TypeInv'
<1>1. TypeStore' /\ TypeHandlers'
  BY TypeFrames DEF GiveUp
<1>2. TypeRow'
  BY SyncAssumption DEF GiveUp, TypeInv, TypeRow, row, store, Reached
<1>3. TypeClient'
  BY DEF GiveUp, TypeInv, TypeClient, store, Reached
<1> QED BY <1>1, <1>2, <1>3 DEF TypeInv

LEMMA TypeForget == ASSUME TypeInv, Forget PROVE TypeInv'
<1>1. TypeStore' /\ TypeHandlers'
  BY TypeFrames DEF Forget
<1>2. TypeRow'
  BY SyncAssumption DEF Forget, TypeInv, TypeRow, row, store, Reached
<1>3. TypeClient'
  BY NoSessionType DEF Forget, TypeInv, TypeClient, store, Reached
<1> QED BY <1>1, <1>2, <1>3 DEF TypeInv

LEMMA TypeRefuse ==
  ASSUME TypeInv, NEW h \in Handlers, Refuse(h), UNCHANGED store
  PROVE  TypeHandlers' /\ TypeClient'
<1>1. TypeHandlers'
  BY LeaveStep DEF Refuse
<1>2. TypeClient'
  BY DEF Refuse, TypeInv, TypeClient, store, Reached
<1> QED BY <1>1, <1>2

LEMMA TypeOpen == ASSUME TypeInv, NEW h \in Handlers, Open(h) PROVE TypeInv'
<1>1. TypeStore' /\ TypeClient'
  BY TypeFrames DEF Open
<1>2. TypeRow'
  BY SyncAssumption DEF Open, TypeInv, TypeRow, store, NoRow, Connections, Reached
<1>3. TypeHandlers'
  <2> DEFINE s == [sess[h] EXCEPT !.nid = conn'.nid, !.initial = TRUE]
  <2>1. sess[h] \in Sessions /\ conn'.nid \in Nat
    BY <1>2, SyncAssumption DEF TypeInv, TypeHandlers, TypeRow, Connections
  <2>2. s \in Sessions /\ s.reply = sess[h].reply
    BY <2>1 DEF Sessions
  <2>3. sess' = [sess EXCEPT ![h] = s]
    BY DEF Open
  <2>4. pc' \in [Handlers -> Phases]
    BY GotoEffect DEF Open, Phases, Statements
  <2> QED BY <2>2, <2>3, <2>4, SessionStep DEF Open, TypeInv, TypeHandlers
<1> QED BY <1>1, <1>2, <1>3 DEF TypeInv

LEMMA TypeResolve == ASSUME TypeInv, NEW h \in Handlers, Resolve(h) PROVE TypeInv'
<1>1. TypeStore' /\ TypeClient' /\ TypeRow'
  BY TypeFrames DEF Resolve
<1>2. TypeHandlers'
  <2>1. PICK cursor \in {conn.offered, conn.cursor} :
          sess' = [sess EXCEPT ![h].nid = conn.nid, ![h].confirmed = sess[h].pos.gen,
                               ![h].cursor = cursor]
    BY DEF Resolve
  <2> DEFINE s == [sess[h] EXCEPT !.nid = conn.nid, !.confirmed = sess[h].pos.gen,
                                  !.cursor = cursor]
  <2>2. sess[h] \in Sessions /\ conn.nid \in Nat /\ cursor \in Nat /\ sess[h].pos.gen \in Nat
    BY SyncAssumption DEF TypeInv, TypeHandlers, TypeRow, Sessions, Positions, Connections
  <2>3. s \in Sessions /\ s.reply = sess[h].reply
    BY <2>2 DEF Sessions
  <2>4. sess' = [sess EXCEPT ![h] = s]
    BY <2>1
  <2>5. pc' \in [Handlers -> Phases]
    BY GotoEffect DEF Resolve, Phases, Statements
  <2> QED BY <2>3, <2>4, <2>5, SessionStep DEF Resolve, TypeInv, TypeHandlers
<1> QED BY <1>1, <1>2 DEF TypeInv

LEMMA TypeUnknownPos == ASSUME TypeInv, NEW h \in Handlers, UnknownPos(h) PROVE TypeInv'
<1>1. TypeStore' /\ TypeRow'
  BY TypeFrames DEF UnknownPos
<1>2. TypeHandlers'
  BY LeaveStep DEF UnknownPos
<1>3. TypeClient'
  BY NoSessionType DEF UnknownPos, TypeInv, TypeClient, store, Reached
<1> QED BY <1>1, <1>2, <1>3 DEF TypeInv

LEMMA RowChange ==
  ASSUME NEW row_ \in Connections, NEW confirmed \in Nat, NEW cursor \in Nat,
         NEW pending \in Nat, NEW offered \in Nat
  PROVE  /\ [row_ EXCEPT !.pending = pending, !.offered = offered] \in Connections
         /\ [row_ EXCEPT !.confirmed = confirmed, !.cursor = cursor,
                         !.pending = pending, !.offered = offered] \in Connections
         /\ [NoRow EXCEPT !.nid = row_.nid] \in Connections
BY DEF Connections, NoRow

(* The statements change the row and go on.                                *)
LEMMA TypeRowSteps ==
  ASSUME TypeInv, NEW h \in Handlers, Reset(h) \/ Discard(h) \/ Acknowledge(h) \/ Stage(h)
  PROVE  TypeInv'
<1>1. UNCHANGED <<store, sess, ahead, client, nids, faults>>
  BY DEF Reset, Discard, Acknowledge, Stage
<1>2. \E phase \in Phases : Goto(h, phase)
  BY DEF Reset, Discard, Acknowledge, Stage, Phases, Statements
<1>3. TypeStore' /\ TypeClient'
  BY <1>1, TypeFrames
<1>4. TypeHandlers'
  BY <1>1, <1>2, PhaseStep, GotoEffect
<1>5. TypeRow'
  <2>1. /\ sess[h] \in Sessions /\ sess[h].reply \in Replies
        /\ sess[h].reply.ceiling <= Reached /\ Reached \in Nat
    BY ReachedNat DEF TypeInv, TypeHandlers, Sessions
  <2>2. Unstaged \in [Rooms -> {Unsent} \cup Nat] /\ \A r \in Rooms : Unstaged[r] <= Reached
    BY <2>1 DEF Unstaged, Unsent
  <2>3. conn' \in Connections
    <3>1. /\ conn \in Connections /\ sess[h].confirmed \in Nat /\ sess[h].cursor \in Nat
          /\ sess[h].reply.gen \in Nat /\ sess[h].reply.dataTo \in Nat /\ 0 \in Nat
      BY <2>1 DEF TypeInv, TypeRow, Sessions, Replies
    <3>2. \/ conn' = conn
          \/ conn' = [NoRow EXCEPT !.nid = conn.nid]
          \/ conn' = [conn EXCEPT !.pending = 0, !.offered = 0]
          \/ conn' = [conn EXCEPT !.confirmed = sess[h].confirmed, !.cursor = sess[h].cursor,
                                  !.pending = 0, !.offered = 0]
          \/ conn' = [conn EXCEPT !.pending = sess[h].reply.gen, !.offered = sess[h].reply.dataTo]
      BY DEF Reset, Discard, Acknowledge, Stage
    <3>3. [NoRow EXCEPT !.nid = conn.nid] \in Connections
      BY <3>1, RowChange
    <3>4. [conn EXCEPT !.pending = 0, !.offered = 0] \in Connections
      BY <3>1, RowChange
    <3>5. [conn EXCEPT !.confirmed = sess[h].confirmed, !.cursor = sess[h].cursor,
                       !.pending = 0, !.offered = 0] \in Connections
      BY <3>1, RowChange
    <3>6. [conn EXCEPT !.pending = sess[h].reply.gen, !.offered = sess[h].reply.dataTo]
            \in Connections
      BY <3>1, RowChange
    <3> QED BY <3>1, <3>2, <3>3, <3>4, <3>5, <3>6
  <2>4. /\ sentTo' \in [Rooms -> {Unsent} \cup Nat] /\ staged' \in [Rooms -> {Unsent} \cup Nat]
        /\ \A r \in Rooms : sentTo'[r] <= Reached /\ staged'[r] <= Reached
    <3>1. CASE Reset(h)
      BY <3>1, <2>2 DEF Reset, TypeInv, TypeRow
    <3>2. CASE Discard(h)
      BY <3>2, <2>2 DEF Discard, TypeInv, TypeRow
    <3>3. CASE Acknowledge(h)
      BY <3>3, <2>1, <2>2 DEF Acknowledge, TypeInv, TypeRow, Unsent
    <3>4. CASE Stage(h)
      BY <3>4, <2>1 DEF Stage, TypeInv, TypeRow, Replies
    <3> QED BY <3>1, <3>2, <3>3, <3>4
  <2> QED BY <1>1, <2>3, <2>4 DEF TypeInv, TypeRow, store, Reached
<1> QED BY <1>3, <1>4, <1>5 DEF TypeInv

LEMMA TypeStatementFails == ASSUME TypeInv, NEW h \in Handlers, StatementFails(h) PROVE TypeInv'
<1>1. TypeStore' /\ TypeRow'
  BY TypeFrames DEF StatementFails
<1>2. TypeHandlers' /\ TypeClient'
  BY TypeRefuse DEF StatementFails
<1> QED BY <1>1, <1>2 DEF TypeInv

(* What an attempt reads has been committed and published.                 *)
LEMMA OfferType ==
  ASSUME TypeInv, NEW h \in Handlers
  PROVE  /\ Offer(h) \in Replies
         /\ Offer(h).events \subseteq committed /\ \A p \in Offer(h).events : p <= published
         /\ Offer(h).data \subseteq 1..dataAt /\ Offer(h).ceiling = published
<1>1. sess[h] \in Sessions /\ published \in Nat /\ dataAt \in Nat /\ committed \subseteq Nat
  BY SyncAssumption DEF TypeInv, TypeHandlers, TypeStore
<1>2. Due(h) \subseteq Rooms
  BY <1>1 DEF Due, Sessions
<1>3. \A r \in Rooms : Window(h, r) \subseteq committed /\ \A p \in Window(h, r) : p <= published
  BY DEF Window, Events
<1>4. Data(h) \subseteq 1..dataAt
  BY <1>1 DEF Data, Sessions
<1>5. Offer(h).events \subseteq committed /\ \A p \in Offer(h).events : p <= published
  BY <1>2, <1>3 DEF Offer
<1>6. Offer(h) \in Replies
  <2>1. Offer(h).events \in SUBSET Nat
    BY <1>1, <1>5
  <2>2. Data(h) \in SUBSET Nat
    BY <1>1, <1>4
  <2>3. sess[h].confirmed + 1 \in Nat
    BY <1>1 DEF Sessions
  <2> QED BY <1>1, <1>2, <2>1, <2>2, <2>3 DEF Offer, Replies
<1> QED BY <1>4, <1>5, <1>6 DEF Offer

LEMMA TypeAttempt ==
  ASSUME TypeInv, NEW h \in Handlers, Attempt(h) \/ Expire(h) PROVE TypeInv'
<1>1. TypeStore' /\ TypeRow' /\ TypeClient'
  BY TypeFrames DEF Attempt, Expire
<1>2. PICK reply \in {Offer(h), [NoReply EXCEPT !.gen = sess[h].confirmed]} :
        sess' = [sess EXCEPT ![h] = [sess[h] EXCEPT !.reply = reply]]
  BY DEF Attempt, Expire
<1>3. /\ reply \in Replies
      /\ reply.events \subseteq committed /\ \A p \in reply.events : p <= Reached
      /\ reply.data \subseteq 1..dataAt /\ reply.ceiling <= Reached
  <2>1. /\ sess[h].confirmed \in Nat /\ published \in Nat /\ Reached \in Nat
        /\ published <= Reached /\ committed \subseteq Nat
    BY ReachedNat DEF TypeInv, TypeHandlers, TypeStore, Sessions
  <2>2. CASE reply = Offer(h)
    BY <2>1, <2>2, OfferType
  <2>3. CASE reply = [NoReply EXCEPT !.gen = sess[h].confirmed]
    BY <2>1, <2>3 DEF NoReply, Replies
  <2> QED BY <2>2, <2>3
<1> DEFINE s == [sess[h] EXCEPT !.reply = reply]
<1>4. s \in Sessions /\ s.reply = reply
  BY <1>3 DEF TypeInv, TypeHandlers, Sessions
<1>5. pc' \in [Handlers -> Phases]
  BY GotoEffect DEF Attempt, Expire, Phases, Statements
<1>6. UNCHANGED <<store, ahead>>
  BY DEF Attempt, Expire
<1>7. TypeHandlers'
  BY <1>2, <1>3, <1>4, <1>5, <1>6, SessionStep
<1> QED BY <1>1, <1>7 DEF TypeInv

LEMMA TypePark == ASSUME TypeInv, NEW h \in Handlers, Park(h) \/ Wake(h) PROVE TypeInv'
<1>1. UNCHANGED <<store, row, sess, ahead, client, nids, faults>>
  BY DEF Park, Wake
<1>2. \E phase \in Phases : Goto(h, phase)
  BY DEF Park, Wake, Phases, Statements
<1> QED BY <1>1, <1>2, TypeFrames, PhaseStep, GotoEffect DEF TypeInv

LEMMA TypeReply == ASSUME TypeInv, NEW h \in Handlers, Reply(h) PROVE TypeInv'
<1>1. TypeStore' /\ TypeRow'
  BY TypeFrames DEF Reply
<1>2. TypeHandlers'
  BY LeaveStep DEF Reply
<1>3. TypeClient'
  <2>1. sess[h] \in Sessions /\ sess[h].reply \in Replies
    BY DEF TypeInv, TypeHandlers, Sessions
  <2>2. [nid |-> sess[h].nid, gen |-> sess[h].reply.gen] \in Positions
    BY <2>1 DEF Sessions, Replies, Positions
  <2>3. client' \in [pos : Positions, asked : Handlers \cup {Nobody}, have : SUBSET Nat,
                     data : SUBSET Nat]
    BY <2>1, <2>2 DEF Reply, TypeInv, TypeClient, Replies
  <2>4. /\ client'.have \subseteq client.have \cup sess[h].reply.events
        /\ client'.data \subseteq client.data \cup sess[h].reply.data
    BY DEF Reply, TypeInv, TypeClient
  <2> QED BY <2>3, <2>4 DEF Reply, TypeInv, TypeClient, TypeHandlers, store, Reached
<1> QED BY <1>1, <1>2, <1>3 DEF TypeInv

LEMMA TypeCancel == ASSUME TypeInv, NEW h \in Handlers, Cancel(h) PROVE TypeInv'
<1>1. TypeStore'
  BY TypeFrames DEF Cancel
<1>2. TypeHandlers' /\ TypeClient'
  BY TypeRefuse DEF Cancel
<1>3. TypeRow'
  BY SyncAssumption DEF Cancel, TypeInv, TypeRow, row, store, Reached
<1> QED BY <1>1, <1>2, <1>3 DEF TypeInv

LEMMA TypeSweep == ASSUME TypeInv, Sweep PROVE TypeInv'
<1>1. TypeStore' /\ TypeHandlers' /\ TypeClient'
  BY TypeFrames DEF Sweep
<1>2. TypeRow'
  <2>1. Reached \in Nat /\ UNCHANGED Reached
    BY ReachedNat DEF Sweep, store, Reached
  <2> QED BY <2>1, SyncAssumption DEF Sweep, TypeInv, TypeRow, Unstaged, NoRow, Unsent, Connections
<1> QED BY <1>1, <1>2 DEF TypeInv

LEMMA TypeNext == TypeInv /\ [Next]_vars => TypeInv'
<1> SUFFICES ASSUME TypeInv, [Next]_vars PROVE TypeInv'
  OBVIOUS
<1>1. CASE \E h \in Handlers : Serve(h)
  BY <1>1, TypeOpen, TypeResolve, TypeUnknownPos, TypeRowSteps, TypeStatementFails, TypeAttempt,
     TypePark, TypeReply DEF Serve
<1>2. CASE UNCHANGED vars
  BY <1>2, TypeFrames DEF vars, TypeInv
<1> QED
  BY <1>1, <1>2, TypeSend, TypeSettle, TypePublish, TypeRecede, TypeSetAccountData, TypeRequest, TypeGiveUp,
     TypeForget, TypeCancel, TypeSweep DEF Next

LEMMA TypeHolds == Spec => []TypeInv
BY TypeInit, TypeNext, PTL DEF Spec

-----------------------------------------------------------------------------
(* The gate of the one instance: those inside or waiting are in a line, at *)
(* whose head is whoever is inside and at whose end is whoever the client  *)
(* waits for.                                                              *)

OneInstance == \A g, h \in Handlers : Home[g] = Home[h]

Active(h) == pc[h] \in Statements

GateInv ==
  /\ \A h \in Handlers : pc[h] = "idle" => ahead[h] = {} /\ \A g \in Handlers : h \notin ahead[g]
  /\ \A h \in Handlers : Active(h) => ahead[h] = {}
  /\ \A g, h \in Handlers :
       g # h /\ pc[g] # "idle" /\ pc[h] # "idle" => g \in ahead[h] \/ h \in ahead[g]
  /\ \A h \in Handlers : client.asked = h => pc[h] # "idle" /\ \A g \in Handlers : h \notin ahead[g]

(* Nobody else is inside, and nobody at all is behind whom the client      *)
(* waits for.                                                              *)
LEMMA Alone ==
  ASSUME GateInv, NEW h \in Handlers, Active(h) \/ Turn(h)
  PROVE  /\ \A g \in Handlers \ {h} : ~Active(g) /\ ~Turn(g)
         /\ client.asked = h => \A g \in Handlers \ {h} : pc[g] = "idle"
BY DEF GateInv, Active, Turn, Statements

LEMMA GateInit == Init => GateInv
BY SyncAssumption DEF Init, GateInv, Active, Statements

(* The steps as the gate sees them.                                        *)
Rests == /\ UNCHANGED <<pc, ahead>>
         /\ client'.asked \in {client.asked, Nobody}

Moves(h) == /\ Active(h) \/ Turn(h)
            /\ \E phase \in Statements : Goto(h, phase)
            /\ UNCHANGED <<ahead, client>>

Leaves(h) == /\ Leave(h)
             /\ client'.asked = IF client.asked = h THEN Nobody ELSE client.asked

LEMMA LeavesKind ==
  ASSUME TypeInv, NEW h \in Handlers,
         Cancel(h) \/ StatementFails(h) \/ UnknownPos(h) \/ Reply(h)
  PROVE  Leaves(h)
<1>1. client = [client EXCEPT !.asked = client.asked]
  BY DEF TypeInv, TypeClient
<1>2. CASE Cancel(h) \/ StatementFails(h)
  <2>1. Refuse(h)
    BY <1>2 DEF Cancel, StatementFails
  <2>2. client'.asked = IF client.asked = h THEN Nobody ELSE client.asked
    BY <2>1 DEF Refuse, TypeInv, TypeClient
  <2> QED BY <2>1, <2>2 DEF Refuse, Leaves
<1>3. CASE UnknownPos(h)
  BY <1>1, <1>3 DEF UnknownPos, Leaves
<1>4. CASE Reply(h)
  BY <1>4 DEF Reply, Leaves
<1> QED BY <1>2, <1>3, <1>4

LEMMA MovesKind ==
  ASSUME NEW h \in Handlers,
         \/ Open(h) \/ Resolve(h) \/ Reset(h) \/ Discard(h) \/ Acknowledge(h)
         \/ Attempt(h) \/ Park(h) \/ Wake(h) \/ Expire(h) \/ Stage(h)
  PROVE  Moves(h)
<1>1. CASE Open(h) \/ Resolve(h)
  BY <1>1 DEF Open, Resolve, Moves, Statements
<1>2. CASE Reset(h) \/ Discard(h) \/ Acknowledge(h) \/ Stage(h)
  BY <1>2 DEF Reset, Discard, Acknowledge, Stage, Moves, Active, Statements
<1>3. CASE Attempt(h) \/ Park(h) \/ Wake(h) \/ Expire(h)
  BY <1>3 DEF Attempt, Park, Wake, Expire, Moves, Active, Statements
<1> QED BY <1>1, <1>2, <1>3

LEMMA Kinds ==
  ASSUME TypeInv, [Next]_vars
  PROVE  \/ Rests
         \/ \E h \in Handlers : Request(h) \/ Moves(h) \/ Leaves(h)
<1>1. CASE \/ Send \/ Publish \/ Recede \/ SetAccountData \/ (\E S \in SUBSET open : Settle(S)) \/ UNCHANGED vars
  BY <1>1 DEF Send, Publish, Recede, SetAccountData, Settle, vars, handlers, Rests
<1>2. CASE GiveUp \/ Forget \/ Sweep
  BY <1>2 DEF GiveUp, Forget, Sweep, handlers, Rests, TypeInv, TypeClient
<1>3. CASE \E h \in Handlers : Serve(h)
  <2>1. PICK h \in Handlers : Serve(h)
    BY <1>3
  <2> QED BY <2>1, LeavesKind, MovesKind DEF Serve
<1> QED BY <1>1, <1>2, <1>3, LeavesKind DEF Next

LEMMA GateNext ==
  ASSUME OneInstance, TypeInv, GateInv, [Next]_vars PROVE GateInv'
<1>1. CASE Rests
  BY <1>1, SyncAssumption DEF Rests, GateInv, Active
<1>2. ASSUME NEW h \in Handlers, Moves(h) PROVE GateInv'
  <2>1. /\ pc' \in [Handlers -> Phases] /\ Active(h)' /\ ahead[h] = {} /\ pc[h] # "idle"
        /\ \A g \in Handlers \ {h} : pc'[g] = pc[g]
    BY <1>2, GotoEffect DEF Moves, Turn, Phases, GateInv, Active, Statements
  <2>2. UNCHANGED <<ahead, client>> /\ pc'[h] # "idle"
    BY <1>2, <2>1 DEF Moves, Active, Statements
  <2> QED BY <2>1, <2>2 DEF GateInv, Active
<1>3. ASSUME NEW h \in Handlers, Leaves(h) PROVE GateInv'
  <2>1. /\ pc'[h] = "idle" /\ ahead'[h] = {}
        /\ \A g \in Handlers \ {h} : pc'[g] = pc[g] /\ ahead'[g] = ahead[g] \ {h}
    BY <1>3, LeaveEffect DEF Leaves
  <2>2. client'.asked # h /\ \A g \in Handlers : client'.asked = g => client.asked = g
    BY <1>3, SyncAssumption DEF Leaves
  <2> QED BY <2>1, <2>2 DEF GateInv, Active, Statements
<1>4. ASSUME NEW h \in Handlers, Request(h) PROVE GateInv'
  <2>1. /\ pc[h] = "idle" /\ pc'[h] = "gate"
        /\ ahead'[h] = {g \in Handlers : pc[g] # "idle"}
        /\ \A g \in Handlers \ {h} : pc'[g] = pc[g] /\ ahead'[g] = ahead[g]
        /\ client'.asked = h
    BY <1>4, OneInstance DEF Request, TypeInv, TypeHandlers, TypeClient, OneInstance
  <2> QED BY <2>1 DEF GateInv, Active, Statements
<1> QED BY <1>1, <1>2, <1>3, <1>4, Kinds

-----------------------------------------------------------------------------
(* The row of the connection while a handler is inside: what the next      *)
(* statement may count on, since nobody else touches the row meanwhile.    *)

StagedBy(reply) == [r \in Rooms |-> IF r \in reply.rooms THEN reply.ceiling ELSE Unsent]

Served(h) ==
  LET s == sess[h]
      phase == pc[h] IN
  /\ s.nid = conn.nid /\ conn.nid # 0
  /\ s.initial <=> s.pos = Fresh
  /\ ~s.initial => s.pos.nid = conn.nid
  /\ s.confirmed = s.pos.gen
  /\ phase \in {"reset1", "reset2"} => s.initial /\ s.cursor = 0
  /\ phase \in {"ack1", "ack2", "ack3"} =>
       ~s.initial /\ conn.pending = s.confirmed /\ conn.offered = s.cursor
  /\ phase \in {"discard1", "discard2"} =>
       /\ ~s.initial /\ conn.confirmed = s.confirmed /\ conn.cursor = s.cursor
       /\ conn.pending # s.confirmed
  /\ phase = "reset2" => sentTo = Unstaged
  /\ phase \in {"attempt", "parked", "stage1", "stage2", "reply"} =>
       /\ conn.confirmed = s.confirmed /\ conn.cursor = s.cursor
       /\ s.initial => sentTo = Unstaged /\ s.cursor = 0
  /\ phase \in {"reset2", "ack3", "discard2", "attempt", "parked", "stage1", "stage2"} =>
       staged = Unstaged
  /\ phase \in {"attempt", "parked", "stage1"} => conn.pending = 0
  /\ phase \in {"stage1", "stage2"} => s.reply.gen = s.confirmed + 1
  /\ phase = "stage2" => conn.pending = s.reply.gen /\ conn.offered = s.reply.dataTo
  /\ phase = "reply" =>
       \/ /\ s.reply = [NoReply EXCEPT !.gen = s.confirmed]
          /\ ~s.initial /\ conn.pending = 0
       \/ /\ s.reply.gen = s.confirmed + 1 /\ conn.pending = s.reply.gen
          /\ conn.offered = s.reply.dataTo /\ staged = StagedBy(s.reply)

Untouched(h) == ~sess[h].initial /\ sess[h].confirmed = 0 /\ sess[h].cursor = 0

RowInv == \A h \in Handlers : IF Active(h) THEN Served(h) ELSE Untouched(h)

(* The client and its requests: whoever serves it shows the position that  *)
(* it holds, unless it has given that up.                                  *)
ClientInv ==
  /\ client.pos # Fresh => /\ client.pos.nid # 0 /\ client.pos.gen # 0
                           /\ conn.nid \in {0, client.pos.nid}
                           /\ \A h \in Handlers : pc[h] # "idle" => sess[h].pos = client.pos
  /\ \A h \in Handlers : /\ client.asked = h => sess[h].pos = client.pos
                         /\ sess[h].pos # Fresh => sess[h].pos.nid # 0

MainInv == TypeInv /\ GateInv /\ RowInv /\ ClientInv

LEMMA MainInit == Init => MainInv
<1>1. Init => RowInv
  BY DEF Init, RowInv, Active, Statements, Untouched, NoSession
<1>2. Init => ClientInv
  BY SyncAssumption DEF Init, ClientInv, NoSession
<1> QED BY <1>1, <1>2, TypeInit, GateInit DEF MainInv

(* The others are outside, and stay as they are.                           *)
LEMMA RowStep ==
  ASSUME TypeInv, GateInv, RowInv, NEW h \in Handlers, Active(h) \/ Turn(h),
         \A g \in Handlers \ {h} : pc'[g] = pc[g] /\ sess'[g] = sess[g],
         IF Active(h)' THEN Served(h)' ELSE Untouched(h)'
  PROVE  RowInv'
<1>1. ASSUME NEW g \in Handlers, g # h PROVE ~Active(g)' /\ Untouched(g)'
  BY <1>1, Alone DEF RowInv, Active, Untouched
<1> QED BY <1>1 DEF RowInv

LEMMA RowFrame == ASSUME RowInv, UNCHANGED <<row, pc, sess>> PROVE RowInv'
BY DEF RowInv, row, Active, Served, Untouched

LEMMA ServedTypes ==
  ASSUME TypeInv, NEW h \in Handlers
  PROVE  sess[h] \in Sessions /\ conn \in Connections /\ pc[h] \in Phases
BY DEF TypeInv, TypeHandlers, TypeRow

LEMMA OpenServed ==
  ASSUME MainInv, NEW h \in Handlers, Open(h) PROVE Served(h)'
<1>1. /\ pc'[h] = "reset1" /\ sess[h].pos = Fresh /\ conn'.nid # 0 /\ Untouched(h)
  <2>1. pc'[h] = "reset1"
    BY GotoEffect DEF Open, Phases, Statements, MainInv
  <2>2. conn'.nid # 0
    BY SyncAssumption DEF Open, NoRow, MainInv, TypeInv, TypeRow
  <2> QED BY <2>1, <2>2 DEF Open, RowInv, Turn, Active, Statements, MainInv
<1>2. sess'[h] = [sess[h] EXCEPT !.nid = conn'.nid, !.initial = TRUE]
  BY DEF Open, MainInv, TypeInv, TypeHandlers
<1>3. sess[h] \in Sessions
  BY ServedTypes DEF MainInv
<1>4. /\ sess'[h].nid = conn'.nid /\ sess'[h].initial /\ sess'[h].pos = Fresh
      /\ sess'[h].confirmed = 0 /\ sess'[h].cursor = 0
  BY <1>1, <1>2, <1>3 DEF Sessions, Untouched
<1> QED BY <1>1, <1>4 DEF Served, Fresh

LEMMA ResolveServed ==
  ASSUME MainInv, NEW h \in Handlers, Resolve(h) PROVE Served(h)'
<1>1. sess[h] \in Sessions /\ conn \in Connections /\ Untouched(h)
  BY ServedTypes DEF Resolve, RowInv, Turn, Active, Statements, MainInv
<1>2. /\ sess[h].pos # Fresh /\ sess[h].pos.nid = conn.nid /\ conn.nid # 0
      /\ conn' = conn /\ staged' = staged /\ sentTo' = sentTo
  BY DEF Resolve, MainInv, ClientInv, row
<1>3. CASE conn.pending = sess[h].pos.gen
  <2>1. /\ pc'[h] = "ack1"
        /\ sess'[h] = [sess[h] EXCEPT !.nid = conn.nid, !.confirmed = sess[h].pos.gen,
                                      !.cursor = conn.offered]
    BY <1>3, GotoEffect DEF Resolve, MainInv, TypeInv, TypeHandlers, Phases, Statements
  <2> QED BY <1>1, <1>2, <1>3, <2>1 DEF Served, Sessions, Untouched
<1>4. CASE conn.pending # sess[h].pos.gen
  <2>1. /\ pc'[h] = "discard1" /\ conn.confirmed = sess[h].pos.gen
        /\ sess'[h] = [sess[h] EXCEPT !.nid = conn.nid, !.confirmed = sess[h].pos.gen,
                                      !.cursor = conn.cursor]
    BY <1>4, GotoEffect DEF Resolve, MainInv, TypeInv, TypeHandlers, Phases, Statements
  <2> QED BY <1>1, <1>2, <1>4, <2>1 DEF Served, Sessions, Untouched
<1> QED BY <1>3, <1>4

(* The statements, by a handler that knows its row to be there.            *)
LEMMA Inside ==
  ASSUME MainInv, NEW h \in Handlers, Active(h)
  PROVE  Served(h) /\ Mine(h) /\ sess[h] \in Sessions /\ sess[h].reply \in Replies
BY ServedTypes DEF MainInv, RowInv, Served, Mine, Sessions

LEMMA ResetEffect ==
  ASSUME MainInv, NEW h \in Handlers, Reset(h)
  PROVE  \/ /\ pc[h] = "reset1" /\ pc'[h] = "reset2"
            /\ sentTo' = Unstaged /\ staged' = Unstaged /\ conn' = conn
         \/ /\ pc[h] = "reset2" /\ pc'[h] = "attempt"
            /\ sentTo' = sentTo /\ staged' = staged /\ conn' = [NoRow EXCEPT !.nid = conn.nid]
<1>1. Mine(h)
  BY Inside DEF Reset, Active, Statements
<1> QED BY <1>1, GotoEffect DEF Reset, Phases, Statements, MainInv

LEMMA DiscardEffect ==
  ASSUME MainInv, NEW h \in Handlers, Discard(h)
  PROVE  \/ /\ pc[h] = "discard1" /\ pc'[h] = "discard2"
            /\ sentTo' = sentTo /\ staged' = Unstaged /\ conn' = conn
         \/ /\ pc[h] = "discard2" /\ pc'[h] = "attempt"
            /\ sentTo' = sentTo /\ staged' = staged
            /\ conn' = [conn EXCEPT !.pending = 0, !.offered = 0]
<1>1. Mine(h)
  BY Inside DEF Discard, Active, Statements
<1> QED BY <1>1, GotoEffect DEF Discard, Phases, Statements, MainInv

LEMMA AcknowledgeEffect ==
  ASSUME MainInv, NEW h \in Handlers, Acknowledge(h)
  PROVE  \/ /\ pc[h] = "ack1" /\ pc'[h] = "ack2" /\ conn' = conn /\ staged' = staged
            /\ sentTo' = [r \in Rooms |-> IF r \in Offered THEN Unsent ELSE sentTo[r]]
         \/ /\ pc[h] = "ack2" /\ pc'[h] = "ack3" /\ conn' = conn /\ staged' = Unstaged
            /\ sentTo' = [r \in Rooms |-> IF r \in Offered THEN staged[r] ELSE sentTo[r]]
         \/ /\ pc[h] = "ack3" /\ pc'[h] = "attempt" /\ sentTo' = sentTo /\ staged' = staged
            /\ conn' = [conn EXCEPT !.confirmed = sess[h].confirmed, !.cursor = sess[h].cursor,
                                    !.pending = 0, !.offered = 0]
<1>1. Mine(h)
  BY Inside DEF Acknowledge, Active, Statements
<1> QED BY <1>1, GotoEffect DEF Acknowledge, Phases, Statements, MainInv

LEMMA StageEffect ==
  ASSUME MainInv, NEW h \in Handlers, Stage(h)
  PROVE  \/ /\ pc[h] = "stage1" /\ pc'[h] = "stage2" /\ sentTo' = sentTo /\ staged' = staged
            /\ conn' = [conn EXCEPT !.pending = sess[h].reply.gen,
                                    !.offered = sess[h].reply.dataTo]
         \/ /\ pc[h] = "stage2" /\ pc'[h] = "reply" /\ sentTo' = sentTo /\ conn' = conn
            /\ staged' = StagedBy(sess[h].reply)
<1>1. Mine(h) /\ Served(h)
  BY Inside DEF Stage, Active, Statements
<1>2. CASE pc[h] = "stage1"
  BY <1>1, <1>2, GotoEffect DEF Stage, Phases, Statements, MainInv
<1>3. CASE pc[h] = "stage2"
  BY <1>1, <1>3, GotoEffect DEF Stage, Phases, Statements, MainInv, Served, StagedBy, Unstaged
<1> QED BY <1>2, <1>3 DEF Stage

LEMMA StatementServed ==
  ASSUME MainInv, NEW h \in Handlers, Reset(h) \/ Discard(h) \/ Acknowledge(h) \/ Stage(h)
  PROVE  Served(h)' /\ Active(h) /\ Active(h)' /\ UNCHANGED <<store, sess, ahead, client>>
<1>1. Active(h) /\ UNCHANGED <<store, sess, ahead, client>>
  BY DEF Reset, Discard, Acknowledge, Stage, Active, Statements
<1>2. sess[h] \in Sessions /\ sess[h].reply \in Replies /\ conn \in Connections /\ Served(h)
  BY <1>1, Inside, ServedTypes DEF MainInv
<1>3. CASE Reset(h)
  BY <1>1, <1>2, <1>3, ResetEffect DEF Served, Active, Statements, NoRow, Fresh
<1>4. CASE Discard(h)
  BY <1>1, <1>2, <1>4, DiscardEffect DEF Served, Active, Statements, Connections
<1>5. CASE Acknowledge(h)
  BY <1>1, <1>2, <1>5, AcknowledgeEffect DEF Served, Active, Statements, Connections
<1>6. CASE Stage(h)
  BY <1>1, <1>2, <1>6, StageEffect DEF Served, Active, Statements, Connections
<1> QED BY <1>1, <1>3, <1>4, <1>5, <1>6

LEMMA AttemptServed ==
  ASSUME MainInv, NEW h \in Handlers, Attempt(h) \/ Expire(h) \/ Park(h) \/ Wake(h)
  PROVE  /\ Served(h)' /\ Active(h) /\ Active(h)' /\ UNCHANGED <<store, row, ahead, client>>
         /\ \A g \in Handlers \ {h} : sess'[g] = sess[g]
         /\ sess'[h].pos = sess[h].pos
<1>1. Active(h) /\ UNCHANGED <<store, row, ahead, client>>
  BY DEF Attempt, Expire, Park, Wake, Active, Statements
<1>2. sess[h] \in Sessions /\ Served(h)
  BY <1>1, ServedTypes DEF MainInv, RowInv
<1>3. CASE Attempt(h)
  <2>1. pc'[h] = "stage1" /\ sess' = [sess EXCEPT ![h].reply = Offer(h)] /\ pc[h] = "attempt"
    BY <1>3, GotoEffect DEF Attempt, Phases, Statements, MainInv
  <2>2. /\ sess'[h] = [sess[h] EXCEPT !.reply = Offer(h)]
        /\ \A g \in Handlers \ {h} : sess'[g] = sess[g]
    BY <2>1 DEF MainInv, TypeInv, TypeHandlers
  <2>3. Offer(h).gen = sess[h].confirmed + 1
    BY DEF Offer
  <2> QED BY <1>1, <1>2, <2>1, <2>2, <2>3 DEF Served, Active, Statements, Sessions, row
<1>4. CASE Expire(h)
  <2>1. /\ pc'[h] = "reply" /\ pc[h] = "attempt" /\ ~sess[h].initial
        /\ sess' = [sess EXCEPT ![h].reply = [NoReply EXCEPT !.gen = sess[h].confirmed]]
    BY <1>4, GotoEffect DEF Expire, Worthwhile, Phases, Statements, MainInv
  <2>2. /\ sess'[h] = [sess[h] EXCEPT !.reply = [NoReply EXCEPT !.gen = sess[h].confirmed]]
        /\ \A g \in Handlers \ {h} : sess'[g] = sess[g]
    BY <2>1 DEF MainInv, TypeInv, TypeHandlers
  <2> QED BY <1>1, <1>2, <2>1, <2>2 DEF Served, Active, Statements, Sessions, row
<1>5. CASE Park(h) \/ Wake(h)
  <2>1. /\ pc[h] \in {"attempt", "parked"} /\ pc'[h] \in {"attempt", "parked"}
        /\ sess' = sess
    BY <1>5, GotoEffect DEF Park, Wake, Phases, Statements, MainInv
  <2> QED BY <1>1, <1>2, <2>1 DEF Served, Active, Statements, row
<1> QED BY <1>3, <1>4, <1>5

-----------------------------------------------------------------------------
LEMMA RowNext ==
  ASSUME OneInstance, MainInv, [Next]_vars PROVE RowInv'
<1> USE DEF MainInv
<1>1. CASE \/ Send \/ Publish \/ Recede \/ SetAccountData \/ (\E S \in SUBSET open : Settle(S)) \/ UNCHANGED vars
           \/ GiveUp \/ Forget
  BY <1>1, RowFrame DEF Send, Publish, Recede, SetAccountData, Settle, GiveUp, Forget, vars, handlers
<1>2. CASE Sweep
  BY <1>2 DEF Sweep, handlers, RowInv, Active, Statements, Untouched
<1>3. ASSUME NEW h \in Handlers, Leaves(h), UNCHANGED row PROVE RowInv'
  <2>1. ASSUME NEW g \in Handlers \ {h}, Active(g) PROVE Served(g)'
    BY <1>3, <2>1, LeaveEffect DEF Leaves, RowInv, Served, row, Active
  <2>2. ASSUME NEW g \in Handlers \ {h}, ~Active(g) PROVE Untouched(g)'
    BY <1>3, <2>2, LeaveEffect DEF Leaves, RowInv, Untouched, Active
  <2>3. ~Active(h)' /\ Untouched(h)'
    BY <1>3, LeaveEffect DEF Leaves, Untouched, Active, Statements, NoSession
  <2> QED BY <1>3, <2>1, <2>2, <2>3, LeaveEffect DEF RowInv, Leaves, Active
<1>4. ASSUME NEW h \in Handlers, Request(h) PROVE RowInv'
  <2>1. /\ pc'[h] = "gate" /\ Untouched(h)' /\ UNCHANGED row
        /\ \A g \in Handlers \ {h} : pc'[g] = pc[g] /\ sess'[g] = sess[g]
    <3>1. PICK rooms \in SUBSET Rooms \ {{}}, widen \in Widens, wants \in Wants :
            sess' = [sess EXCEPT ![h] = [NoSession EXCEPT !.pos = client.pos, !.rooms = rooms,
                                                          !.widen = widen, !.wants = wants]]
      BY <1>4 DEF Request
    <3>2. pc'[h] = "gate" /\ UNCHANGED row /\ \A g \in Handlers \ {h} : pc'[g] = pc[g]
      BY <1>4 DEF Request, TypeInv, TypeHandlers
    <3> QED BY <3>1, <3>2 DEF Untouched, NoSession, TypeInv, TypeHandlers
  <2>2. ASSUME NEW g \in Handlers \ {h}, Active(g) PROVE Served(g)'
    BY <2>1, <2>2 DEF RowInv, Served, row, Active
  <2>3. ASSUME NEW g \in Handlers \ {h}, ~Active(g) PROVE Untouched(g)'
    BY <2>1, <2>3 DEF RowInv, Untouched, Active
  <2> QED BY <2>1, <2>2, <2>3 DEF RowInv, Active, Statements
<1>5. ASSUME NEW h \in Handlers,
             Cancel(h) \/ StatementFails(h) \/ UnknownPos(h) \/ Reply(h)
      PROVE  RowInv'
  <2>1. UNCHANGED row
    BY <1>5 DEF Cancel, StatementFails, UnknownPos, Reply
  <2> QED BY <1>3, <1>5, <2>1, LeavesKind
<1>6. ASSUME NEW h \in Handlers, Open(h) \/ Resolve(h) PROVE RowInv'
  <2>1. Turn(h) /\ Active(h)'
    BY <1>6, GotoEffect DEF Open, Resolve, Phases, Statements, Active
  <2>2. \A g \in Handlers \ {h} : pc'[g] = pc[g] /\ sess'[g] = sess[g]
    BY <1>6, GotoEffect DEF Open, Resolve, Phases, Statements, TypeInv, TypeHandlers
  <2> QED BY <1>6, <2>1, <2>2, RowStep, OpenServed, ResolveServed
<1>7. ASSUME NEW h \in Handlers, Reset(h) \/ Discard(h) \/ Acknowledge(h) \/ Stage(h)
      PROVE  RowInv'
  <2>1. \A g \in Handlers \ {h} : pc'[g] = pc[g]
    BY <1>7, GotoEffect DEF Reset, Discard, Acknowledge, Stage, Phases, Statements
  <2> QED BY <1>7, <2>1, RowStep, StatementServed
<1>8. ASSUME NEW h \in Handlers, Attempt(h) \/ Expire(h) \/ Park(h) \/ Wake(h)
      PROVE  RowInv'
  <2>1. \A g \in Handlers \ {h} : pc'[g] = pc[g]
    BY <1>8, GotoEffect DEF Attempt, Expire, Park, Wake, Phases, Statements
  <2> QED BY <1>8, <2>1, RowStep, AttemptServed
<1>9. CASE \E h \in Handlers : Serve(h)
  <2>1. PICK h \in Handlers : Serve(h)
    BY <1>9
  <2> QED BY <2>1, <1>5, <1>6, <1>7, <1>8 DEF Serve
<1> QED BY <1>1, <1>2, <1>4, <1>5, <1>9 DEF Next

(* The client takes in the answer it waits for.                            *)
LEMMA ReplyEffect ==
  ASSUME MainInv, NEW h \in Handlers, Reply(h), client.asked = h
  PROVE  /\ client'.pos = [nid |-> conn.nid, gen |-> sess[h].reply.gen]
         /\ client'.asked = Nobody
         /\ client'.have = client.have \cup sess[h].reply.events
         /\ client'.data = client.data \cup sess[h].reply.data
         /\ conn.nid # 0 /\ sess[h].reply.gen # 0 /\ sess[h].pos = client.pos
         /\ client'.pos # Fresh
         /\ \A g \in Handlers : pc'[g] = "idle"
         /\ UNCHANGED <<store, row>>
<1>1. Active(h) /\ pc[h] = "reply"
  BY DEF Reply, Active, Statements
<1>2. Served(h) /\ sess[h] \in Sessions
  BY <1>1, Inside
<1>3. sess[h].reply.gen # 0 /\ sess[h].pos = client.pos
  <2>1. sess[h].pos = client.pos
    BY DEF MainInv, ClientInv
  <2>2. ~sess[h].initial => sess[h].confirmed # 0
    BY <1>2, <2>1 DEF Served, MainInv, ClientInv
  <2>3. sess[h].confirmed \in Nat
    BY <1>2 DEF Sessions
  <2> QED BY <1>1, <1>2, <2>1, <2>2, <2>3 DEF Served, NoReply
<1>4. \A g \in Handlers : pc'[g] = "idle"
  BY <1>1, Alone, LeaveEffect DEF Reply, MainInv
<1> QED BY <1>2, <1>3, <1>4 DEF Reply, Served, Fresh

(* Any other end of a request brings the client nothing.                   *)
LEMMA ClientLeft ==
  ASSUME TypeInv, NEW h \in Handlers,
         \/ Cancel(h) \/ StatementFails(h) \/ UnknownPos(h)
         \/ Reply(h) /\ client.asked # h
  PROVE  /\ client'.pos = client.pos \/ (client'.pos = Fresh /\ client'.asked = Nobody)
         /\ client'.have = client.have /\ client'.data = client.data
<1> DEFINE Bare == [client EXCEPT !.asked = Nobody]
           Over == [client EXCEPT !.asked = Nobody, !.pos = Fresh]
<1>1. /\ Bare.pos = client.pos /\ Bare.have = client.have /\ Bare.data = client.data
      /\ Over.pos = Fresh /\ Over.asked = Nobody
      /\ Over.have = client.have /\ Over.data = client.data
  BY DEF TypeInv, TypeClient
<1>2. client' \in {client, Bare, Over}
  BY DEF Cancel, StatementFails, UnknownPos, Reply, Refuse
<1> HIDE DEF Bare, Over
<1>3. CASE client' = client
  BY <1>3
<1>4. CASE client' = Bare
  BY <1>1, <1>4
<1>5. CASE client' = Over
  BY <1>1, <1>5
<1> QED BY <1>2, <1>3, <1>4, <1>5

LEMMA ClientNext ==
  ASSUME OneInstance, MainInv, [Next]_vars PROVE ClientInv'
<1> USE DEF MainInv
<1>1. CASE \/ Send \/ Publish \/ Recede \/ SetAccountData \/ (\E S \in SUBSET open : Settle(S)) \/ UNCHANGED vars
  BY <1>1 DEF Send, Publish, Recede, SetAccountData, Settle, vars, handlers, row, ClientInv
<1>2. CASE GiveUp \/ Forget \/ Sweep
  <2>1. UNCHANGED handlers
    BY <1>2 DEF GiveUp, Forget, Sweep
  <2>2. conn' = conn \/ conn'.nid = 0
    BY <1>2 DEF GiveUp, Forget, Sweep, row, NoRow
  <2>3. /\ client'.pos \in {client.pos, Fresh}
        /\ client'.asked = Nobody \/ client' = client
    BY <1>2 DEF GiveUp, Forget, Sweep, TypeInv, TypeClient
  <2> QED BY <2>1, <2>2, <2>3, SyncAssumption DEF handlers, ClientInv
<1>3. ASSUME NEW h \in Handlers, Request(h) PROVE ClientInv'
  <2>1. PICK rooms \in SUBSET Rooms \ {{}}, widen \in Widens, wants \in Wants :
          sess' = [sess EXCEPT ![h] = [NoSession EXCEPT !.pos = client.pos, !.rooms = rooms,
                                                        !.widen = widen, !.wants = wants]]
    BY <1>3 DEF Request
  <2>2. /\ sess'[h].pos = client.pos /\ pc'[h] = "gate" /\ conn' = conn
        /\ client'.pos = client.pos /\ client'.asked = h
        /\ \A g \in Handlers \ {h} : pc'[g] = pc[g] /\ sess'[g] = sess[g]
    BY <1>3, <2>1 DEF Request, TypeInv, TypeHandlers, TypeClient, NoSession, row
  <2> QED BY <2>2 DEF ClientInv
<1>4. ASSUME NEW h \in Handlers, Cancel(h) \/ StatementFails(h) \/ UnknownPos(h) \/ Reply(h)
      PROVE  ClientInv'
  <2>1. /\ Leaves(h) /\ conn' = conn
        /\ sess'[h].pos = Fresh /\ pc'[h] = "idle"
        /\ \A g \in Handlers \ {h} : pc'[g] = pc[g] /\ sess'[g] = sess[g]
    BY <1>4, LeavesKind, LeaveEffect DEF Leaves, NoSession, Cancel, StatementFails, UnknownPos,
                                         Reply, row
  <2>2. \A g \in Handlers : client'.asked = g => client.asked = g /\ g # h
    BY <2>1, SyncAssumption DEF Leaves
  <2>3. CASE client'.pos = client.pos \/ (client'.pos = Fresh /\ client'.asked = Nobody)
    BY <2>1, <2>2, <2>3, SyncAssumption DEF ClientInv
  <2>4. CASE Reply(h) /\ client.asked = h
    <3>1. /\ client'.pos.nid = conn.nid /\ client'.pos.gen = sess[h].reply.gen
          /\ conn.nid # 0 /\ sess[h].reply.gen # 0 /\ client'.asked = Nobody
      <4>1. /\ client'.pos = [nid |-> conn.nid, gen |-> sess[h].reply.gen]
            /\ conn.nid # 0 /\ sess[h].reply.gen # 0 /\ client'.asked = Nobody
        BY <2>4, ReplyEffect, Zenon
      <4> QED BY <4>1
    <3>2. \A g \in Handlers : pc'[g] = "idle"
      BY <2>4, ReplyEffect, Zenon
    <3> QED BY <2>1, <3>1, <3>2, SyncAssumption DEF ClientInv
  <2>5. CASE ~(Reply(h) /\ client.asked = h)
    BY <1>4, <2>3, <2>5, ClientLeft
  <2> QED BY <2>3, <2>4, <2>5
<1>5. ASSUME NEW h \in Handlers,
             \/ Open(h) \/ Resolve(h) \/ Reset(h) \/ Discard(h) \/ Acknowledge(h)
             \/ Attempt(h) \/ Park(h) \/ Wake(h) \/ Expire(h) \/ Stage(h)
      PROVE  ClientInv'
  <2>1. /\ client' = client /\ sess'[h].pos = sess[h].pos
        /\ \A g \in Handlers \ {h} : sess'[g] = sess[g]
    <3>1. CASE Open(h) \/ Resolve(h)
      BY <3>1, ServedTypes DEF Open, Resolve, TypeInv, TypeHandlers, Sessions
    <3>2. CASE Reset(h) \/ Discard(h) \/ Acknowledge(h) \/ Stage(h)
      BY <3>2, StatementServed
    <3>3. CASE Attempt(h) \/ Park(h) \/ Wake(h) \/ Expire(h)
      BY <3>3, AttemptServed
    <3> QED BY <1>5, <3>1, <3>2, <3>3
  <2>2. /\ pc[h] # "idle" /\ \A g \in Handlers \ {h} : pc'[g] = pc[g]
    BY <1>5, MovesKind, GotoEffect DEF Moves, Active, Turn, Phases, Statements
  <2>3. CASE Open(h)
    BY <2>1, <2>2, <2>3 DEF Open, ClientInv
  <2>4. ~Open(h) => conn'.nid = conn.nid
    <3>1. CASE Resolve(h)
      BY <3>1 DEF Resolve, row
    <3>2. CASE Reset(h) \/ Discard(h) \/ Acknowledge(h) \/ Stage(h)
      BY <3>2, ResetEffect, DiscardEffect, AcknowledgeEffect, StageEffect, ServedTypes
      DEF NoRow, Connections
    <3>3. CASE Attempt(h) \/ Park(h) \/ Wake(h) \/ Expire(h)
      BY <3>3, AttemptServed DEF row
    <3> QED BY <1>5, <3>1, <3>2, <3>3
  <2> QED BY <2>1, <2>2, <2>3, <2>4 DEF ClientInv
<1>6. CASE \E h \in Handlers : Serve(h)
  <2>1. PICK h \in Handlers : Serve(h)
    BY <1>6
  <2> QED BY <2>1, <1>4, <1>5 DEF Serve
<1> QED BY <1>1, <1>2, <1>3, <1>4, <1>6 DEF Next

LEMMA MainNext == ASSUME OneInstance, MainInv, [Next]_vars PROVE MainInv'
BY TypeNext, GateNext, RowNext, ClientNext DEF MainInv

-----------------------------------------------------------------------------
(* Why the client holds on to what it has been sent.  Known: the server    *)
(* still has the connection that the client's position is about.           *)

Known == client.pos # Fresh /\ conn.nid = client.pos.nid

Answering(h) == client.asked = h /\ pc[h] \in {"stage1", "stage2", "reply"}

NamesTheRow == Known => client.pos.gen \in {conn.confirmed, conn.pending}

(* The client has all events up to where the server takes it to be, and    *)
(* the answer under way completes them up to where the server will.        *)
HeldEvents ==
  Known => \A r \in Rooms : /\ Holds(r, sentTo[r])
                            /\ client.pos.gen = conn.pending => Holds(r, staged[r])

AnswersComplete(h) ==
  \A r \in sess[h].reply.rooms : \A p \in Events(r) :
    p <= sess[h].reply.ceiling => p \in client.have \cup sess[h].reply.events

EventsInv == HeldEvents /\ \A h \in Handlers : Answering(h) => AnswersComplete(h)

(* The same of the account data, whose cursor lies in the row.             *)
HeldData ==
  Known => IF client.pos.gen = conn.pending THEN 1..conn.offered \subseteq client.data
                                            ELSE 1..conn.cursor \subseteq client.data

DataInv ==
  /\ \A h \in Handlers : sess[h].wants
  /\ HeldData
  /\ \A h \in Handlers :
       Answering(h) => 1..sess[h].reply.dataTo \subseteq client.data \cup sess[h].reply.data

(* The client has nothing beyond where the server takes it to be, nor      *)
(* beyond what an answer has gone back from.                               *)
NoneAbove(r, x) ==
  x # Unsent => \A p \in client.have : roomOf[p] = r => p <= x \/ p <= receded

SentUpTo(r) ==
  NoneAbove(r, IF client.pos.gen = conn.pending /\ staged[r] # Unsent THEN staged[r]
                                                                      ELSE sentTo[r])

AnswersNew(h) ==
  LET reply == sess[h].reply IN
  /\ \A p \in client.have : roomOf[p] \in reply.rooms => p <= reply.ceiling \/ p <= receded
  /\ \A p \in reply.events : /\ roomOf[p] \in reply.rooms /\ p <= reply.ceiling
                             /\ ~sess[h].widen /\ sentTo[roomOf[p]] # Unsent /\ p > receded
                                  => p \notin client.have

TwiceInv == /\ Known => \A r \in Rooms : SentUpTo(r)
            /\ \A h \in Handlers : Answering(h) => AnswersNew(h)

LEMMA StoreStep ==
  ASSUME TypeInv, [Next]_vars
  PROVE  /\ roomOf' = roomOf
         /\ \A p \in committed' : p \in committed \/ Reached < p
         /\ receded <= receded'
<1>0. published \in Nat /\ receded \in Nat
  BY ReachedNat
<1>1. CASE UNCHANGED store
  BY <1>0, <1>1 DEF store
<1>2. CASE Send \/ Publish \/ SetAccountData
  BY <1>0, <1>2 DEF Send, Publish, SetAccountData
<1>6. ASSUME NEW S \in SUBSET open, Settle(S)
      PROVE  /\ UNCHANGED <<roomOf, receded>>
             /\ \A p \in committed' : p \in committed \/ Reached < p
  BY <1>6 DEF Settle, TypeInv, TypeStore
<1>5. CASE Recede
  <2>1. roomOf' = roomOf /\ committed' = committed
    BY <1>5 DEF Recede
  <2> QED BY <1>0, <1>5, <2>1, RecedeEffect
<1>3. CASE GiveUp \/ Forget \/ Sweep \/ \E h \in Handlers : Request(h) \/ Cancel(h)
  BY <1>1, <1>3 DEF GiveUp, Forget, Sweep, Request, Cancel, store
<1>4. ASSUME NEW h \in Handlers, Serve(h) PROVE UNCHANGED store
  BY <1>4 DEF Serve, Open, Resolve, UnknownPos, Reset, Discard, Acknowledge, StatementFails,
              Attempt, Park, Wake, Expire, Stage, Reply
<1> QED BY <1>0, <1>1, <1>2, <1>3, <1>4, <1>5, <1>6 DEF Next, vars, store

LEMMA Settled ==
  ASSUME TypeInv, [Next]_vars PROVE \A p \in committed' : p \in Nat /\ p > 0
<1>1. TypeInv'
  BY TypeNext
<1>2. TypeStore'
  BY <1>1 DEF TypeInv
<1> QED BY <1>2 DEF TypeStore

(* Events settled later lie beyond what has been published until now.      *)
LEMMA HoldsOn ==
  ASSUME TypeInv, [Next]_vars, client.have \subseteq client'.have,
         NEW r \in Rooms, NEW x \in {Unsent} \cup Nat, x <= Reached, Holds(r, x)
  PROVE  Holds(r, x)'
<1>1. \A p \in committed' : p \in Nat
  BY Settled
<1>2. ASSUME NEW p \in Events(r)', p <= x PROVE p \in client'.have
  <2>1. p \in Nat /\ p \in Events(r)
    <3>1. p \in committed' /\ roomOf'[p] = r /\ p \in Nat
      BY <1>1, <1>2 DEF Events
    <3>2. ~(Reached < p)
      BY <1>2, <3>1, ReachedNat DEF Unsent
    <3> QED BY <3>1, <3>2, StoreStep DEF Events
  <2> QED BY <1>2, <2>1 DEF Holds
<1> QED BY <1>2 DEF Holds

(* What a handler inside shows of the client's position.                   *)
LEMMA Shows ==
  ASSUME MainInv, NEW h \in Handlers, Active(h), client.pos # Fresh
  PROVE  /\ sess[h].pos = client.pos /\ ~sess[h].initial /\ Known
         /\ sess[h].confirmed = client.pos.gen /\ client.pos.gen # 0
         /\ pc[h] \notin {"reset1", "reset2"}
<1>1. Served(h) /\ sess[h].pos = client.pos
  BY Inside DEF MainInv, ClientInv, Active, Statements
<1> QED BY <1>1 DEF Served, MainInv, ClientInv, Known

(* How the answer under way comes to be what it is.                        *)
LEMMA AnsweringNext ==
  ASSUME OneInstance, MainInv, [Next]_vars, NEW h \in Handlers, Answering(h)'
  PROVE  /\ client' = client /\ sentTo' = sentTo
         /\ \/ Answering(h) /\ sess'[h] = sess[h]
            \/ Attempt(h) \/ Expire(h)
<1> USE DEF MainInv
<1>0. client'.asked = h /\ pc'[h] \in {"stage1", "stage2", "reply"}
  BY DEF Answering
<1>1. CASE \/ Send \/ Publish \/ Recede \/ SetAccountData \/ (\E S \in SUBSET open : Settle(S)) \/ UNCHANGED vars
  BY <1>0, <1>1 DEF Send, Publish, Recede, SetAccountData, Settle, vars, handlers, row, Answering
<1>2. CASE GiveUp \/ Forget \/ Sweep
  <2>1. CASE GiveUp \/ Forget
    BY <1>0, <2>1, SyncAssumption DEF GiveUp, Forget, TypeInv, TypeClient
  <2>2. CASE Sweep
    BY <1>0, <2>2 DEF Sweep, handlers
  <2> QED BY <1>2, <2>1, <2>2
<1>3. ASSUME NEW g \in Handlers, Request(g) PROVE FALSE
  <2>1. client'.asked = g /\ pc'[g] = "gate"
    BY <1>3 DEF Request, TypeInv, TypeClient, TypeHandlers
  <2> QED BY <1>0, <2>1
<1>4. ASSUME NEW g \in Handlers,
             Cancel(g) \/ StatementFails(g) \/ UnknownPos(g) \/ Reply(g)
      PROVE  /\ client' = client /\ sentTo' = sentTo
             /\ Answering(h) /\ sess'[h] = sess[h]
  <2>1. Leaves(g) /\ sentTo' = sentTo
    BY <1>4, LeavesKind DEF Cancel, StatementFails, UnknownPos, Reply, row
  <2>2. h # g /\ client.asked = h
    BY <1>0, <2>1, SyncAssumption, LeaveEffect DEF Leaves
  <2>3. client' = client
    BY <1>4, <2>2 DEF Cancel, StatementFails, UnknownPos, Reply, Refuse
  <2> QED BY <1>0, <2>1, <2>2, <2>3, LeaveEffect DEF Leaves, Answering
<1>5. ASSUME NEW g \in Handlers,
             \/ Open(g) \/ Resolve(g) \/ Reset(g) \/ Discard(g) \/ Acknowledge(g)
             \/ Attempt(g) \/ Park(g) \/ Wake(g) \/ Expire(g) \/ Stage(g)
      PROVE  /\ client' = client /\ sentTo' = sentTo
             /\ \/ Answering(h) /\ sess'[h] = sess[h]
                \/ Attempt(h) \/ Expire(h)
  <2>1. Moves(g) /\ client' = client
    BY <1>5, MovesKind DEF Moves
  <2>2. g = h
    <3>1. pc[g] # "idle" /\ \A f \in Handlers \ {g} : pc'[f] = pc[f]
      BY <2>1, GotoEffect DEF Moves, Active, Turn, Phases, Statements
    <3>2. SUFFICES ASSUME g # h PROVE FALSE
      OBVIOUS
    <3>3. client.asked = h /\ Active(h)
      BY <1>0, <2>1, <3>1, <3>2 DEF Active, Statements
    <3> QED BY <2>1, <3>1, <3>2, <3>3, Alone
  <2>3. CASE Open(h) \/ Resolve(h) \/ Reset(h) \/ Discard(h) \/ Acknowledge(h)
    <3>1. pc'[h] \notin {"stage1", "stage2", "reply"}
      <4>1. CASE Open(h) \/ Resolve(h)
        BY <4>1, GotoEffect DEF Open, Resolve, Phases, Statements
      <4>2. CASE Reset(h) \/ Discard(h) \/ Acknowledge(h)
        BY <4>2, ResetEffect, DiscardEffect, AcknowledgeEffect
      <4> QED BY <2>3, <4>1, <4>2
    <3> QED BY <1>0, <3>1
  <2>4. CASE Park(h) \/ Wake(h)
    BY <1>0, <2>4, GotoEffect DEF Park, Wake, Phases, Statements
  <2>5. CASE Stage(h)
    BY <1>0, <2>1, <2>5, StageEffect, StatementServed DEF Stage, Answering
  <2>6. CASE Attempt(h) \/ Expire(h)
    BY <2>1, <2>6 DEF Attempt, Expire, row
  <2> QED BY <1>5, <2>2, <2>1, <2>3, <2>4, <2>5, <2>6
<1>6. CASE \E g \in Handlers : Serve(g)
  <2>1. PICK g \in Handlers : Serve(g)
    BY <1>6
  <2> QED BY <2>1, <1>4, <1>5 DEF Serve
<1> QED BY <1>1, <1>2, <1>3, <1>4, <1>6 DEF Next

(* How the row comes to be what it is for a client that it still knows.    *)
LEMMA KnownNext ==
  ASSUME OneInstance, MainInv, [Next]_vars, Known'
  PROVE  \/ /\ Known /\ client'.pos = client.pos
            /\ client'.have = client.have /\ client'.data = client.data
            /\ UNCHANGED row \/ \E h \in Handlers : Discard(h) \/ Acknowledge(h) \/ Stage(h)
         \/ \E h \in Handlers : Reply(h) /\ client.asked = h
<1> USE DEF MainInv
<1>0. client'.pos # Fresh /\ conn'.nid = client'.pos.nid
  BY DEF Known
<1>1. CASE \/ Send \/ Publish \/ Recede \/ SetAccountData \/ (\E S \in SUBSET open : Settle(S)) \/ UNCHANGED vars
  BY <1>0, <1>1 DEF Send, Publish, Recede, SetAccountData, Settle, vars, row, Known
<1>2. CASE GiveUp \/ Forget \/ Sweep
  <2>1. CASE GiveUp
    BY <1>0, <2>1 DEF GiveUp, TypeInv, TypeClient, row, Known
  <2>2. CASE Forget
    BY <1>0, <2>2 DEF Forget
  <2>3. CASE Sweep
    BY <1>0, <2>3 DEF Sweep, NoRow, ClientInv
  <2> QED BY <1>2, <2>1, <2>2, <2>3
<1>3. ASSUME NEW h \in Handlers, Request(h)
      PROVE  /\ Known /\ client'.pos = client.pos /\ UNCHANGED row
             /\ client'.have = client.have /\ client'.data = client.data
  BY <1>0, <1>3 DEF Request, TypeInv, TypeClient, row, Known
<1>4. ASSUME NEW h \in Handlers,
             \/ Cancel(h) \/ StatementFails(h) \/ UnknownPos(h)
             \/ Reply(h) /\ client.asked # h
      PROVE  /\ Known /\ client'.pos = client.pos /\ UNCHANGED row
             /\ client'.have = client.have /\ client'.data = client.data
  <2>1. UNCHANGED row
    BY <1>4 DEF Cancel, StatementFails, UnknownPos, Reply
  <2> QED BY <1>0, <1>4, <2>1, ClientLeft DEF row, Known
<1>5. ASSUME NEW h \in Handlers,
             \/ Open(h) \/ Resolve(h) \/ Reset(h) \/ Discard(h) \/ Acknowledge(h)
             \/ Attempt(h) \/ Park(h) \/ Wake(h) \/ Expire(h) \/ Stage(h)
      PROVE  /\ Known /\ client' = client
             /\ UNCHANGED row \/ Discard(h) \/ Acknowledge(h) \/ Stage(h)
  <2>1. client' = client /\ (Active(h) \/ Turn(h))
    BY <1>5, MovesKind DEF Moves
  <2>2. CASE Open(h) \/ Resolve(h)
    <3>1. sess[h].pos = client.pos
      BY <1>0, <2>1 DEF ClientInv, Active, Turn, Statements
    <3>2. ~Open(h)
      BY <1>0, <2>1, <3>1 DEF Open
    <3> QED BY <1>0, <2>1, <2>2, <3>2 DEF Resolve, row, Known
  <2>3. CASE Reset(h)
    <3>1. Active(h) /\ pc[h] \in {"reset1", "reset2"}
      BY <2>3 DEF Reset, Active, Statements
    <3> QED BY <1>0, <2>1, <3>1, Shows
  <2>4. CASE Discard(h) \/ Acknowledge(h) \/ Stage(h)
    <3>1. Active(h)
      BY <2>4 DEF Discard, Acknowledge, Stage, Active, Statements
    <3> QED BY <1>0, <2>1, <2>4, <3>1, Shows
  <2>5. CASE Attempt(h) \/ Park(h) \/ Wake(h) \/ Expire(h)
    BY <1>0, <2>1, <2>5, AttemptServed DEF row, Known
  <2> QED BY <1>5, <2>2, <2>3, <2>4, <2>5
<1>6. CASE \E h \in Handlers : Serve(h)
  <2>1. PICK h \in Handlers : Serve(h)
    BY <1>6
  <2> QED BY <2>1, <1>4, <1>5 DEF Serve
<1> QED BY <1>1, <1>2, <1>3, <1>4, <1>6 DEF Next

-----------------------------------------------------------------------------
LEMMA NamesNext ==
  ASSUME OneInstance, MainInv, NamesTheRow, [Next]_vars PROVE NamesTheRow'
<1> SUFFICES ASSUME Known' PROVE (client.pos.gen \in {conn.confirmed, conn.pending})'
  BY DEF NamesTheRow
<1>1. CASE \E h \in Handlers : Reply(h) /\ client.asked = h
  <2>1. PICK h \in Handlers : Reply(h) /\ client.asked = h
    BY <1>1
  <2>2. Served(h) /\ pc[h] = "reply" /\ conn' = conn
    BY <2>1, Inside DEF Reply, Active, Statements, row
  <2>3. client'.pos = [nid |-> conn.nid, gen |-> sess[h].reply.gen]
    BY <2>1, ReplyEffect, Zenon
  <2> QED BY <2>2, <2>3 DEF Served, NoReply
<1>2. CASE Known /\ client'.pos = client.pos /\ UNCHANGED row
  BY <1>2 DEF NamesTheRow, row
<1>3. ASSUME NEW h \in Handlers, Discard(h) \/ Acknowledge(h) \/ Stage(h),
             Known, client'.pos = client.pos
      PROVE  (client.pos.gen \in {conn.confirmed, conn.pending})'
  <2>1. Active(h)
    BY <1>3 DEF Discard, Acknowledge, Stage, Active, Statements
  <2>2. /\ sess[h].confirmed = client.pos.gen /\ Served(h) /\ conn \in Connections
        /\ client.pos.gen # 0
    BY <1>3, <2>1, Shows, Inside, ServedTypes DEF Known, MainInv
  <2> QED BY <1>3, <2>2, DiscardEffect, AcknowledgeEffect, StageEffect
          DEF Served, NamesTheRow, Connections
<1> QED BY <1>1, <1>2, <1>3, KnownNext

LEMMA HeldEventsNext ==
  ASSUME OneInstance, MainInv, NamesTheRow, EventsInv, [Next]_vars PROVE HeldEvents'
<1> SUFFICES ASSUME Known', NEW r \in Rooms
             PROVE  /\ Holds(r, sentTo[r])'
                    /\ (client.pos.gen = conn.pending)' => Holds(r, staged[r])'
  BY DEF HeldEvents
<1>0. /\ sentTo[r] \in {Unsent} \cup Nat /\ staged[r] \in {Unsent} \cup Nat
      /\ sentTo[r] <= Reached /\ staged[r] <= Reached /\ TypeInv
  BY DEF MainInv, TypeInv, TypeRow
<1>1. Holds(r, Unsent)'
  BY Settled DEF Holds, Events, Unsent, MainInv
<1>2. CASE \E h \in Handlers : Reply(h) /\ client.asked = h
  <2>1. PICK h \in Handlers : Reply(h) /\ client.asked = h
    BY <1>2
  <2>2. Served(h) /\ pc[h] = "reply" /\ Active(h) /\ sess[h].reply \in Replies
    BY <2>1, Inside DEF Reply, Active, Statements
  <2>3. /\ client'.pos = [nid |-> conn.nid, gen |-> sess[h].reply.gen]
        /\ client'.have = client.have \cup sess[h].reply.events
        /\ conn' = conn /\ sentTo' = sentTo /\ staged' = staged /\ UNCHANGED store
        /\ sess[h].pos = client.pos /\ sess[h].reply.gen # 0
    BY <2>1, ReplyEffect, Zenon DEF row
  <2>4. Holds(r, sentTo[r])'
    <3>1. CASE sess[h].initial
      BY <2>2, <2>3, <3>1, <1>1 DEF Served, Unstaged
    <3>2. CASE ~sess[h].initial
      <4>1. Known
        BY <2>2, <2>3, <3>2 DEF Served, Known
      <4>2. Holds(r, sentTo[r])
        BY <4>1 DEF EventsInv, HeldEvents
      <4> QED BY <1>0, <2>3, <4>2, HoldsOn
    <3> QED BY <3>1, <3>2
  <2>5. ASSUME conn.pending = sess[h].reply.gen PROVE Holds(r, staged[r])'
    <3>1. staged = StagedBy(sess[h].reply)
      BY <2>2, <2>3, <2>5 DEF Served
    <3>2. CASE r \in sess[h].reply.rooms
      <4>1. AnswersComplete(h)
        BY <2>1, <2>2 DEF EventsInv, Answering
      <4> QED BY <2>3, <3>1, <3>2, <4>1 DEF AnswersComplete, StagedBy, Holds, Events, store
    <3>3. CASE r \notin sess[h].reply.rooms
      BY <1>1, <2>3, <3>1, <3>3 DEF StagedBy
    <3> QED BY <3>2, <3>3
  <2> QED BY <2>3, <2>4, <2>5
<1>3. ASSUME Known, client'.pos = client.pos, client'.have = client.have,
             UNCHANGED row \/ \E h \in Handlers : Discard(h) \/ Acknowledge(h) \/ Stage(h)
      PROVE  /\ Holds(r, sentTo[r])'
             /\ (client.pos.gen = conn.pending)' => Holds(r, staged[r])'
  <2>0. /\ Holds(r, sentTo[r])
        /\ client.pos.gen = conn.pending => Holds(r, staged[r])
    BY <1>3 DEF EventsInv, HeldEvents
  <2>1. \A x \in {Unsent} \cup Nat : x <= Reached /\ Holds(r, x) => Holds(r, x)'
    BY <1>0, <1>3, HoldsOn
  <2>2. CASE UNCHANGED row
    BY <1>0, <1>3, <2>0, <2>1, <2>2 DEF row, Holds
  <2>3. ASSUME NEW h \in Handlers, Discard(h) \/ Acknowledge(h) \/ Stage(h)
        PROVE  /\ Holds(r, sentTo[r])'
               /\ (client.pos.gen = conn.pending)' => Holds(r, staged[r])'
    <3>1. Active(h)
      BY <2>3 DEF Discard, Acknowledge, Stage, Active, Statements
    <3>2. /\ sess[h].confirmed = client.pos.gen /\ Served(h) /\ conn \in Connections
          /\ client.pos.gen # 0 /\ client.pos.gen \in Nat
      BY <1>3, <3>1, Shows, Inside, ServedTypes DEF Known, MainInv, Sessions
    <3>3. CASE Discard(h)
      BY <1>0, <1>1, <1>3, <2>0, <2>1, <3>2, <3>3, DiscardEffect
      DEF Served, Unstaged, Connections, Holds
    <3>4. CASE Acknowledge(h)
      BY <1>0, <1>1, <1>3, <2>0, <2>1, <3>2, <3>4, AcknowledgeEffect
      DEF Served, Unstaged, Connections, Offered, Holds
    <3>5. CASE Stage(h)
      <4>1. sentTo' = sentTo
        BY <3>5, StageEffect DEF MainInv
      <4>2. conn'.pending = sess[h].reply.gen /\ sess[h].reply.gen = sess[h].confirmed + 1
        BY <3>2, <3>5, StageEffect DEF Served, Connections
      <4>3. client'.pos.gen # conn'.pending
        BY <1>3, <3>2, <4>2
      <4> QED BY <1>0, <2>0, <2>1, <4>1, <4>3 DEF Holds
    <3> QED BY <2>3, <3>3, <3>4, <3>5
  <2> QED BY <1>3, <2>2, <2>3
<1> QED BY <1>2, <1>3, KnownNext

(* What a handler that has found its row knows of the client's events.     *)
LEMMA AttemptKnows ==
  ASSUME MainInv, NEW h \in Handlers, pc[h] = "attempt", client.asked = h
  PROVE  /\ Mine(h) /\ conn.pending = 0 /\ conn.cursor = sess[h].cursor
         /\ \/ sentTo = Unstaged /\ sess[h].cursor = 0
            \/ Known /\ client.pos.gen # 0
<1>1. Active(h) /\ Served(h) /\ Mine(h) /\ sess[h].pos = client.pos
  BY Inside DEF Active, Statements, MainInv, ClientInv
<1> QED BY <1>1, Shows DEF Served

LEMMA AnswersCompleteNext ==
  ASSUME OneInstance, MainInv, EventsInv, [Next]_vars, NEW h \in Handlers, Answering(h)'
  PROVE  AnswersComplete(h)'
<1> USE DEF MainInv
<1>0. client' = client /\ \A r \in Rooms : \A p \in Events(r)' : p \in Events(r) \/ Reached < p
  BY AnsweringNext, StoreStep DEF Events
<1>1. CASE Answering(h) /\ sess'[h] = sess[h]
  <2>1. /\ AnswersComplete(h) /\ sess[h].reply \in Replies
        /\ sess[h].reply.ceiling <= Reached /\ Reached \in Nat
    BY <1>1, ReachedNat DEF EventsInv, TypeInv, TypeHandlers, Sessions
  <2>2. \A p \in committed' : p \in Nat
    BY Settled
  <2>3. ASSUME NEW r \in sess[h].reply.rooms, NEW p \in Events(r)', p <= sess[h].reply.ceiling
        PROVE  p \in client.have \cup sess[h].reply.events
    <3>1. p \in Nat /\ sess[h].reply.ceiling \in Nat /\ r \in Rooms
      BY <2>1, <2>2 DEF Events, Replies
    <3>2. p \in Events(r)
      BY <1>0, <2>1, <2>3, <3>1
    <3> QED BY <2>1, <2>3, <3>2 DEF AnswersComplete
  <2> QED BY <1>0, <1>1, <2>3 DEF AnswersComplete
<1>2. CASE Attempt(h)
  <2>1. /\ pc[h] = "attempt" /\ client.asked = h /\ sess'[h].reply = Offer(h)
        /\ UNCHANGED store
    BY <1>0, <1>2 DEF Attempt, Answering, TypeInv, TypeHandlers, Sessions
  <2>2. /\ Offer(h).rooms = Due(h) /\ Offer(h).ceiling = published
        /\ Offer(h).events = UNION {Window(h, r) : r \in Due(h)}
    BY DEF Offer
  <2>3. ASSUME NEW r \in Due(h), NEW p \in Events(r), p <= published
        PROVE  p \in client.have \cup Offer(h).events
    <3>1. p \in Nat /\ p > 0 /\ r \in Rooms
      BY ServedTypes DEF Events, TypeInv, TypeStore, Due, Sessions
    <3>2. CASE Since(h, r) < p
      BY <2>2, <2>3, <3>2 DEF Window
    <3>3. CASE ~(Since(h, r) < p)
      <4>1. Since(h, r) = sentTo[r] /\ sentTo[r] # Unsent /\ sentTo[r] \in Nat
        BY <3>1, <3>3 DEF Since, KnownTo, TypeInv, TypeRow
      <4>2. Known
        BY <2>1, <3>1, <4>1, AttemptKnows DEF Unstaged
      <4> QED BY <3>1, <3>3, <4>1, <4>2 DEF EventsInv, HeldEvents, Holds
    <3> QED BY <3>2, <3>3
  <2> QED BY <1>0, <2>1, <2>2, <2>3 DEF AnswersComplete, Events, store
<1>3. CASE Expire(h)
  <2>1. sess'[h].reply = [NoReply EXCEPT !.gen = sess[h].confirmed]
    BY <1>3 DEF Expire, TypeInv, TypeHandlers, Sessions
  <2> QED BY <2>1 DEF AnswersComplete, NoReply
<1> QED BY <1>1, <1>2, <1>3, AnsweringNext

LEMMA EventsNext ==
  ASSUME OneInstance, MainInv, NamesTheRow, EventsInv, [Next]_vars PROVE EventsInv'
BY HeldEventsNext, AnswersCompleteNext DEF EventsInv

-----------------------------------------------------------------------------
AllWant == FALSE \notin Wants

LEMMA WantsNext ==
  ASSUME AllWant, MainInv, \A h \in Handlers : sess[h].wants, [Next]_vars
  PROVE  (\A h \in Handlers : sess[h].wants)'
<1> USE DEF MainInv
<1>1. CASE sess' = sess
  BY <1>1
<1>2. ASSUME NEW h \in Handlers, Leave(h) PROVE (\A g \in Handlers : sess[g].wants)'
  BY <1>2, LeaveEffect DEF NoSession
<1>3. ASSUME NEW h \in Handlers, Request(h) PROVE (\A g \in Handlers : sess[g].wants)'
  <2>1. PICK rooms \in SUBSET Rooms \ {{}}, widen \in Widens, wants \in Wants :
          sess' = [sess EXCEPT ![h] = [NoSession EXCEPT !.pos = client.pos, !.rooms = rooms,
                                                        !.widen = widen, !.wants = wants]]
    BY <1>3 DEF Request
  <2>2. wants = TRUE
    BY SyncAssumption DEF AllWant
  <2> QED BY <2>1, <2>2 DEF TypeInv, TypeHandlers, NoSession
<1>4. ASSUME NEW h \in Handlers, NEW s \in Sessions, s.wants = sess[h].wants,
             sess' = [sess EXCEPT ![h] = s]
      PROVE  (\A g \in Handlers : sess[g].wants)'
  BY <1>4 DEF TypeInv, TypeHandlers
<1>5. ASSUME NEW h \in Handlers, Open(h) \/ Resolve(h) \/ Attempt(h) \/ Expire(h)
      PROVE  (\A g \in Handlers : sess[g].wants)'
  <2>1. sess[h] \in Sessions
    BY ServedTypes
  <2> QED BY <1>5, <2>1 DEF Open, Resolve, Attempt, Expire, TypeInv, TypeHandlers, Sessions
<1>6. ASSUME NEW h \in Handlers, Serve(h) PROVE (\A g \in Handlers : sess[g].wants)'
  BY <1>1, <1>2, <1>5, <1>6 DEF Serve, UnknownPos, Reset, Discard, Acknowledge, StatementFails,
                                Refuse, Park, Wake, Stage, Reply
<1> QED BY <1>1, <1>2, <1>3, <1>6 DEF Next, vars, handlers, Send, Publish, Recede, SetAccountData,
                                      Settle, GiveUp, Forget, Sweep, Cancel, Refuse

LEMMA HeldDataNext ==
  ASSUME OneInstance, MainInv, NamesTheRow, DataInv, [Next]_vars PROVE HeldData'
<1> SUFFICES ASSUME Known'
             PROVE  (IF client.pos.gen = conn.pending THEN 1..conn.offered \subseteq client.data
                                                      ELSE 1..conn.cursor \subseteq client.data)'
  BY DEF HeldData
<1>1. CASE \E h \in Handlers : Reply(h) /\ client.asked = h
  <2>1. PICK h \in Handlers : Reply(h) /\ client.asked = h
    BY <1>1
  <2>2. Served(h) /\ pc[h] = "reply" /\ Active(h) /\ sess[h] \in Sessions
    BY <2>1, Inside DEF Reply, Active, Statements
  <2>3. /\ client'.pos = [nid |-> conn.nid, gen |-> sess[h].reply.gen]
        /\ client'.data = client.data \cup sess[h].reply.data
        /\ conn' = conn
        /\ sess[h].pos = client.pos /\ sess[h].reply.gen # 0
    BY <2>1, ReplyEffect, Zenon DEF row
  <2>4. CASE conn.pending = sess[h].reply.gen
    <3>1. conn.offered = sess[h].reply.dataTo
      BY <2>2, <2>3, <2>4 DEF Served
    <3>2. 1..sess[h].reply.dataTo \subseteq client.data \cup sess[h].reply.data
      BY <2>1, <2>2 DEF DataInv, Answering
    <3> QED BY <2>3, <2>4, <3>1, <3>2
  <2>5. CASE conn.pending # sess[h].reply.gen
    <3>1. /\ ~sess[h].initial /\ conn.pending = 0
          /\ sess[h].reply.gen = sess[h].confirmed
      BY <2>2, <2>5 DEF Served, NoReply
    <3>2. Known /\ client.pos.gen = sess[h].confirmed
      BY <2>2, <2>3, <3>1 DEF Served, Known
    <3>3. 1..conn.cursor \subseteq client.data
      BY <2>5, <3>1, <3>2 DEF DataInv, HeldData
    <3> QED BY <2>3, <2>5, <3>3
  <2> QED BY <2>4, <2>5
<1>2. ASSUME Known, client'.pos = client.pos, client'.data = client.data,
             UNCHANGED row \/ \E h \in Handlers : Discard(h) \/ Acknowledge(h) \/ Stage(h)
      PROVE  (IF client.pos.gen = conn.pending THEN 1..conn.offered \subseteq client.data
                                               ELSE 1..conn.cursor \subseteq client.data)'
  <2>1. IF client.pos.gen = conn.pending THEN 1..conn.offered \subseteq client.data
                                         ELSE 1..conn.cursor \subseteq client.data
    BY <1>2 DEF DataInv, HeldData
  <2>2. CASE UNCHANGED row
    BY <1>2, <2>1, <2>2 DEF row
  <2>3. ASSUME NEW h \in Handlers, Discard(h) \/ Acknowledge(h) \/ Stage(h)
        PROVE  (IF client.pos.gen = conn.pending THEN 1..conn.offered \subseteq client.data
                                                 ELSE 1..conn.cursor \subseteq client.data)'
    <3>1. Active(h)
      BY <2>3 DEF Discard, Acknowledge, Stage, Active, Statements
    <3>2. /\ sess[h].confirmed = client.pos.gen /\ Served(h) /\ conn \in Connections
          /\ client.pos.gen # 0 /\ client.pos.gen \in Nat
      BY <1>2, <3>1, Shows, Inside, ServedTypes DEF Known, MainInv, Sessions
    <3>3. CASE Discard(h)
      BY <1>2, <2>1, <3>2, <3>3, DiscardEffect DEF Served, Connections
    <3>4. CASE Acknowledge(h)
      BY <1>2, <2>1, <3>2, <3>4, AcknowledgeEffect DEF Served, Connections
    <3>5. CASE Stage(h)
      <4>1. conn'.pending = sess[h].reply.gen /\ conn'.cursor = conn.cursor
        BY <3>2, <3>5, StageEffect DEF Served, Connections
      <4>2. /\ sess[h].reply.gen = sess[h].confirmed + 1
            /\ conn.pending \in {0, sess[h].reply.gen}
        BY <3>2, <3>5 DEF Served, Stage
      <4>3. client.pos.gen \notin {conn.pending, conn'.pending}
        BY <3>2, <4>1, <4>2
      <4> QED BY <1>2, <2>1, <4>1, <4>3
    <3> QED BY <2>3, <3>3, <3>4, <3>5
  <2> QED BY <1>2, <2>2, <2>3
<1> QED BY <1>1, <1>2, KnownNext

LEMMA DataNext ==
  ASSUME OneInstance, AllWant, MainInv, NamesTheRow, DataInv, [Next]_vars PROVE DataInv'
<1>1. ASSUME NEW h \in Handlers, Answering(h)'
      PROVE  (1..sess[h].reply.dataTo \subseteq client.data \cup sess[h].reply.data)'
  <2>0. client' = client
    BY <1>1, AnsweringNext
  <2>1. CASE Answering(h) /\ sess'[h] = sess[h]
    BY <2>0, <2>1 DEF DataInv
  <2>2. CASE Attempt(h)
    <3>1. pc[h] = "attempt" /\ client.asked = h /\ sess'[h].reply = Offer(h)
      BY <1>1, <2>0, <2>2 DEF Attempt, Answering, MainInv, TypeInv, TypeHandlers, Sessions
    <3>2. /\ Offer(h).data = sess[h].cursor + 1 .. dataAt /\ Offer(h).dataTo = dataAt
          /\ dataAt \in Nat /\ sess[h].cursor \in Nat
      <4>1. dataAt \in Nat /\ sess[h].cursor \in Nat /\ sess[h].wants
        BY ServedTypes, SyncAssumption DEF DataInv, MainInv, TypeInv, TypeStore, Sessions
      <4> QED BY <4>1 DEF Offer, Data
    <3>3. 1..sess[h].cursor \subseteq client.data
      BY <3>1, <3>2, AttemptKnows DEF DataInv, HeldData
    <3> QED BY <2>0, <3>1, <3>2, <3>3
  <2>3. CASE Expire(h)
    <3>1. sess'[h].reply = [NoReply EXCEPT !.gen = sess[h].confirmed]
      BY <2>3 DEF Expire, MainInv, TypeInv, TypeHandlers, Sessions
    <3>2. sess'[h].reply.dataTo = 0
      BY <3>1 DEF NoReply
    <3> QED BY <3>2
  <2> QED BY <1>1, <2>1, <2>2, <2>3, AnsweringNext
<1>2. (\A h \in Handlers : sess[h].wants)'
  BY WantsNext DEF DataInv
<1> QED BY <1>1, <1>2, HeldDataNext DEF DataInv

-----------------------------------------------------------------------------
(* What has gone back only ever reaches further.                           *)
LEMMA RecededGrows ==
  ASSUME TypeInv, [Next]_vars
  PROVE  /\ roomOf' = roomOf
         /\ client.have \subseteq Nat
         /\ \A h \in Handlers : sess[h].reply.events \subseteq Nat
         /\ receded \in Nat /\ receded' \in Nat
         /\ \A p \in Nat : p <= receded => p <= receded'
<1>1. receded \in Nat /\ receded' \in Nat
  BY TypeNext, SyncAssumption DEF TypeInv, TypeStore
<1>2. \A h \in Handlers : sess[h].reply.events \subseteq Nat
  BY DEF TypeInv, TypeHandlers, Sessions, Replies
<1> QED BY <1>1, <1>2, StoreStep DEF TypeInv, TypeClient

LEMMA NoneAboveStep ==
  ASSUME TypeInv, [Next]_vars, client'.have = client.have, NEW r, NEW x, NoneAbove(r, x)
  PROVE  NoneAbove(r, x)'
BY RecededGrows DEF NoneAbove

LEMMA SentUpToNext ==
  ASSUME OneInstance, MainInv, NamesTheRow, TwiceInv, [Next]_vars, Known', NEW r \in Rooms
  PROVE  SentUpTo(r)'
<1>0. TypeInv /\ roomOf' = roomOf /\ receded \in Nat /\ receded' \in Nat
      /\ client.have \subseteq Nat /\ (\A h \in Handlers : sess[h].reply.events \subseteq Nat)
      /\ \A p \in Nat : p <= receded => p <= receded'
  BY RecededGrows DEF MainInv
<1>1. CASE \E h \in Handlers : Reply(h) /\ client.asked = h
  <2>1. PICK h \in Handlers : Reply(h) /\ client.asked = h
    BY <1>1
  <2>2. Served(h) /\ pc[h] = "reply" /\ Active(h) /\ sess[h] \in Sessions
    BY <2>1, Inside DEF Reply, Active, Statements
  <2>3. /\ client'.pos = [nid |-> conn.nid, gen |-> sess[h].reply.gen]
        /\ client'.have = client.have \cup sess[h].reply.events
        /\ conn' = conn /\ sentTo' = sentTo /\ staged' = staged
        /\ sess[h].pos = client.pos /\ sess[h].reply.gen # 0
    BY <2>1, ReplyEffect, Zenon DEF row
  <2>4. AnswersNew(h)
    BY <2>1, <2>2 DEF TwiceInv, Answering
  <2>5. \/ sentTo = Unstaged
        \/ Known /\ SentUpTo(r) /\ client.pos.gen = sess[h].confirmed
    BY <2>2, <2>3 DEF Served, Known, TwiceInv
  <2>6. ASSUME r \notin sess[h].reply.rooms, client.pos.gen # conn.pending \/ sentTo = Unstaged
        PROVE  \A p \in client'.have : roomOf[p] = r /\ sentTo[r] # Unsent
                                        => p <= sentTo[r] \/ p <= receded
    BY <2>3, <2>4, <2>5, <2>6 DEF AnswersNew, SentUpTo, NoneAbove, Unstaged
  <2>7. CASE conn.pending = sess[h].reply.gen
    <3>1. staged = StagedBy(sess[h].reply) /\ sess[h].reply.gen = sess[h].confirmed + 1
      BY <2>2, <2>3, <2>7 DEF Served
    <3>2. client'.pos.gen = conn'.pending
      BY <2>3, <2>7
    <3>3. CASE r \in sess[h].reply.rooms
      <4>1. \A p \in client'.have : roomOf[p] = r
                                    => p <= sess[h].reply.ceiling \/ p <= receded
        BY <2>3, <2>4, <3>3 DEF AnswersNew
      <4>2. staged[r] = sess[h].reply.ceiling /\ staged[r] # Unsent
        BY <2>2, <3>1, <3>3 DEF StagedBy, Sessions, Replies, Unsent
      <4>3. NoneAbove(r, staged[r])'
          BY <1>0, <2>1, <2>3, <4>1, <4>2 DEF NoneAbove
      <4> QED BY <2>3, <3>2, <4>2, <4>3 DEF SentUpTo
    <3>4. CASE r \notin sess[h].reply.rooms
      <4>1. staged[r] = Unsent
        BY <3>1, <3>4 DEF StagedBy
      <4>2. client.pos.gen # conn.pending \/ sentTo = Unstaged
        BY <2>2, <2>5, <2>7, <3>1 DEF Sessions
      <4> QED BY <1>0, <2>3, <2>6, <3>4, <4>1, <4>2 DEF SentUpTo, NoneAbove
    <3> QED BY <3>3, <3>4
  <2>8. CASE conn.pending # sess[h].reply.gen
    <3>1. /\ ~sess[h].initial /\ conn.pending = 0
          /\ sess[h].reply = [NoReply EXCEPT !.gen = sess[h].confirmed]
      BY <2>2, <2>8 DEF Served
    <3>2. sess[h].reply.gen = sess[h].confirmed /\ sess[h].reply.rooms = {}
      BY <3>1 DEF NoReply
    <3>3. client.pos.gen # conn.pending \/ sentTo = Unstaged
      BY <2>3, <2>5, <3>1, <3>2
    <3> QED BY <1>0, <2>3, <2>6, <2>8, <3>2, <3>3 DEF SentUpTo, NoneAbove
  <2> QED BY <2>7, <2>8
<1>2. ASSUME Known, client'.pos = client.pos, client'.have = client.have,
             UNCHANGED row \/ \E h \in Handlers : Discard(h) \/ Acknowledge(h) \/ Stage(h)
      PROVE  SentUpTo(r)'
  <2>1. SentUpTo(r)
    BY <1>2 DEF TwiceInv
  <2>2. CASE UNCHANGED row
    BY <1>0, <1>2, <2>1, <2>2 DEF row, SentUpTo, NoneAbove
  <2>3. ASSUME NEW h \in Handlers, Discard(h) \/ Acknowledge(h) \/ Stage(h)
        PROVE  SentUpTo(r)'
    <3>1. Active(h)
      BY <2>3 DEF Discard, Acknowledge, Stage, Active, Statements
    <3>2. /\ sess[h].confirmed = client.pos.gen /\ Served(h) /\ conn \in Connections
          /\ client.pos.gen # 0 /\ client.pos.gen \in Nat
      BY <1>2, <3>1, Shows, Inside, ServedTypes DEF Known, MainInv, Sessions
    <3>3. CASE Discard(h)
      <4>1. client.pos.gen \notin {conn.pending, conn'.pending} /\ sentTo' = sentTo
        BY <3>2, <3>3, DiscardEffect DEF Served, Connections, Discard
      <4> QED BY <1>0, <1>2, <2>1, <4>1 DEF SentUpTo, NoneAbove
    <3>4. CASE Acknowledge(h)
      <4>1. pc[h] \in {"ack1", "ack2", "ack3"} /\ client.pos.gen = conn.pending
        BY <3>2, <3>4 DEF Served, Acknowledge
      <4>2. (IF client'.pos.gen = conn'.pending /\ staged'[r] # Unsent
             THEN staged'[r] ELSE sentTo'[r])
            = IF client.pos.gen = conn.pending /\ staged[r] # Unsent
              THEN staged[r] ELSE sentTo[r]
        BY <1>2, <3>2, <3>4, <4>1, AcknowledgeEffect DEF Served, Connections, Offered, Unstaged
      <4> QED BY <1>0, <1>2, <2>1, <4>2 DEF SentUpTo, NoneAbove
    <3>5. CASE Stage(h)
      <4>1. conn'.pending = sess[h].reply.gen /\ sentTo' = sentTo
        BY <3>2, <3>5, StageEffect DEF Served, Connections
      <4>2. /\ sess[h].reply.gen = sess[h].confirmed + 1
            /\ conn.pending \in {0, sess[h].reply.gen}
        BY <3>2, <3>5 DEF Served, Stage
      <4>3. client.pos.gen \notin {conn.pending, conn'.pending}
        BY <3>2, <4>1, <4>2
      <4> QED BY <1>0, <1>2, <2>1, <4>1, <4>3 DEF SentUpTo, NoneAbove
    <3> QED BY <2>3, <3>3, <3>4, <3>5
  <2> QED BY <1>2, <2>2, <2>3
<1> QED BY <1>1, <1>2, KnownNext

LEMMA AnswersNewNext ==
  ASSUME OneInstance, MainInv, TwiceInv, [Next]_vars, NEW h \in Handlers, Answering(h)'
  PROVE  AnswersNew(h)'
<1> USE DEF MainInv
<1>0. client' = client /\ sentTo' = sentTo /\ roomOf' = roomOf
  BY AnsweringNext, StoreStep
<1>r. /\ client.have \subseteq Nat /\ sess[h].reply.events \subseteq Nat
      /\ receded \in Nat /\ receded' \in Nat
      /\ \A p \in Nat : p <= receded => p <= receded'
  BY RecededGrows
<1>1. CASE Answering(h) /\ sess'[h] = sess[h]
  <2>1. AnswersNew(h)
    BY <1>1 DEF TwiceInv
  <2>2. \A p \in Nat : p > receded' => p > receded
    BY <1>r
  <2> QED BY <1>0, <1>r, <1>1, <2>1, <2>2 DEF AnswersNew
<1>2. CASE Attempt(h)
  <2>1. /\ pc[h] = "attempt" /\ client.asked = h /\ sess'[h].reply = Offer(h)
        /\ sess'[h].widen = sess[h].widen
    BY <1>0, <1>2 DEF Attempt, Answering, TypeInv, TypeHandlers, Sessions
  <2>2. /\ Offer(h).rooms = Due(h) /\ Offer(h).ceiling = published
        /\ Offer(h).events = UNION {Window(h, r) : r \in Due(h)}
    BY DEF Offer
  <2>3. \A p \in client.have : p <= published \/ p <= receded
    BY DEF TypeInv, TypeClient, Reached
  <2>4. ASSUME NEW p \in Offer(h).events
        PROVE  /\ roomOf[p] \in Due(h) /\ p <= published
               /\ ~sess[h].widen /\ sentTo[roomOf[p]] # Unsent /\ p > receded
                    => p \notin client.have
    <3>1. PICK r \in Due(h) : p \in Window(h, r)
      BY <2>2, <2>4
    <3>2. roomOf[p] = r /\ p <= published /\ Since(h, r) < p /\ p \in Nat
      BY <3>1 DEF Window, Events, TypeInv, TypeStore
    <3>3. ASSUME ~sess[h].widen, sentTo[r] # Unsent, p > receded PROVE p \notin client.have
      <4>1. /\ KnownTo(h, r) = sentTo[r] /\ Known /\ client.pos.gen # conn.pending
            /\ r \in Rooms
        BY <2>1, <3>3, AttemptKnows, ServedTypes DEF KnownTo, Unstaged, Due, Sessions
      <4>2. Since(h, r) = sentTo[r]
        BY <3>1, <3>3, <4>1 DEF Due, Since
      <4>3. \A q \in client.have : roomOf[q] = r => q <= sentTo[r] \/ q <= receded
        BY <3>3, <4>1 DEF TwiceInv, SentUpTo, NoneAbove
      <4>4. sentTo[r] \in Nat
        BY <3>3, <4>1 DEF TypeInv, TypeRow
      <4> QED BY <1>r, <3>2, <3>3, <4>2, <4>3, <4>4
    <3> QED BY <3>1, <3>2, <3>3
  <2>5. receded' = receded
    BY <1>2 DEF Attempt, store
  <2> QED BY <1>0, <2>1, <2>2, <2>3, <2>4, <2>5 DEF AnswersNew
<1>3. CASE Expire(h)
  <2>1. sess'[h].reply = [NoReply EXCEPT !.gen = sess[h].confirmed]
    BY <1>3 DEF Expire, TypeInv, TypeHandlers, Sessions
  <2>2. sess'[h].reply.rooms = {} /\ sess'[h].reply.events = {}
    BY <2>1 DEF NoReply
  <2> QED BY <2>2 DEF AnswersNew
<1> QED BY <1>1, <1>2, <1>3, AnsweringNext

LEMMA TwiceNext ==
  ASSUME OneInstance, MainInv, NamesTheRow, TwiceInv, [Next]_vars PROVE TwiceInv'
BY SentUpToNext, AnswersNewNext DEF TwiceInv

-----------------------------------------------------------------------------
(* The theorems.                                                           *)

(* The types, and that no room is held to have been sent beyond what has   *)
(* been published (sentTo, staged, reply.ceiling): for any number of       *)
(* instances.                                                              *)
THEOREM TypesHold == Spec => []TypeOK
<1>1. \A s \in Sessions : DOMAIN s = DOMAIN NoSession
  BY DEF Sessions, NoSession
<1>2. TypeInv => TypeOK
  <2> SUFFICES ASSUME TypeInv PROVE TypeOK
    OBVIOUS
  <2>1. \A h \in Handlers : DOMAIN sess[h] = DOMAIN NoSession
    BY <1>1 DEF TypeInv, TypeHandlers
  <2>2. client.pos \in Positions /\ client.asked \in Handlers \cup {Nobody}
    BY DEF TypeInv, TypeClient
  <2> QED BY <2>1, <2>2 DEF TypeInv, TypeStore, TypeRow, TypeHandlers, TypeClient, TypeOK,
                            Connections
<1> QED BY <1>2, TypeHolds, PTL

(* Stage and Acknowledge compare generations in the statement itself, so a *)
(* late one changes nothing: what is on offer is ahead of what is          *)
(* confirmed, on whichever instances the handlers of the connection run.   *)
THEOREM OffersHold == Spec => []OffersAreAhead
<1>1. Init => OffersAreAhead
  BY DEF Init, OffersAreAhead, NoRow
<1>2. ASSUME TypeInv, OffersAreAhead, [Next]_vars PROVE OffersAreAhead'
  <2>0. conn \in Connections
    BY <1>2 DEF TypeInv, TypeRow
  <2>1. CASE conn' = conn
    BY <1>2, <2>1 DEF OffersAreAhead
  <2>2. CASE conn'.pending = 0
    BY <2>2 DEF OffersAreAhead
  <2>3. CASE Sweep
    BY <2>3, <2>2 DEF Sweep, NoRow
  <2>4. ASSUME NEW h \in Handlers,
               Open(h) \/ Reset(h) \/ Discard(h) \/ Acknowledge(h) \/ Stage(h)
        PROVE  OffersAreAhead'
    <3>1. CASE Open(h)
      BY <1>2, <2>1, <2>2, <3>1, SyncAssumption DEF Open, NoRow, TypeInv, TypeRow
    <3>2. CASE Reset(h) \/ Discard(h) \/ Acknowledge(h)
      BY <2>0, <2>1, <2>2, <3>2 DEF Reset, Discard, Acknowledge, NoRow, Connections
    <3>3. CASE Stage(h)
      BY <1>2, <2>0, <2>1, <3>3 DEF Stage, OffersAreAhead, Connections
    <3> QED BY <2>4, <3>1, <3>2, <3>3
  <2>5. ASSUME NEW h \in Handlers, Serve(h) PROVE OffersAreAhead'
    BY <2>1, <2>4, <2>5 DEF Serve, Resolve, UnknownPos, StatementFails, Attempt, Park, Wake,
                            Expire, Reply, row
  <2> QED BY <1>2, <2>1, <2>3, <2>5 DEF Next, vars, row, Send, Publish, Recede, SetAccountData, Settle,
                                   Request, Cancel, GiveUp, Forget
<1> QED BY <1>1, <1>2, TypeInit, TypeNext, PTL DEF Spec

LEMMA MainHolds == ASSUME OneInstance PROVE Spec => [](MainInv /\ NamesTheRow)
<1>1. Init => NamesTheRow
  BY DEF Init, NamesTheRow, Known
<1>2. MainInv /\ NamesTheRow /\ [Next]_vars => (MainInv /\ NamesTheRow)'
  BY OneInstance, MainNext, NamesNext
<1> QED BY <1>1, <1>2, MainInit, PTL DEF Spec

(* Lost responses, abandoned handlers and handlers that end between two    *)
(* statements lose no event: while one instance serves a connection, the   *)
(* client has every event that the server will not send it again.          *)
THEOREM TrustedHolds == ASSUME OneInstance PROVE Spec => []NothingTrustedIsMissing
<1>1. Init => EventsInv
  BY SyncAssumption DEF Init, EventsInv, HeldEvents, Known, Answering
<1>2. MainInv /\ NamesTheRow /\ EventsInv /\ [Next]_vars => EventsInv'
  BY OneInstance, EventsNext
<1>3. MainInv /\ EventsInv => NothingTrustedIsMissing
  BY DEF MainInv, ClientInv, EventsInv, HeldEvents, Known, Fresh, NothingTrustedIsMissing, Trusted
<1> QED BY <1>1, <1>2, <1>3, MainHolds, OneInstance, PTL DEF Spec

(* The same of the account data, whose cursor is the connection's, while   *)
(* every request has the extension on.                                     *)
THEOREM DataHolds == ASSUME OneInstance, AllWant PROVE Spec => []NoDataIsMissing
<1>1. Init => DataInv
  BY SyncAssumption DEF Init, DataInv, HeldData, Known, Answering, NoSession
<1>2. MainInv /\ NamesTheRow /\ DataInv /\ [Next]_vars => DataInv'
  BY OneInstance, AllWant, DataNext
<1>3. MainInv /\ DataInv => NoDataIsMissing
  BY DEF MainInv, ClientInv, DataInv, HeldData, Known, Fresh, NoDataIsMissing
<1> QED BY <1>1, <1>2, <1>3, MainHolds, OneInstance, PTL DEF Spec

(* The client has nothing of a room beyond where the server takes it to    *)
(* be, so that what comes next of a room that is known is new to it.       *)
THEOREM TwiceHolds == ASSUME OneInstance PROVE Spec => []NothingComesTwice
<1>1. Init => TwiceInv
  BY SyncAssumption DEF Init, TwiceInv, Known, Answering
<1>2. MainInv /\ NamesTheRow /\ TwiceInv /\ [Next]_vars => TwiceInv'
  BY OneInstance, TwiceNext
<1>3. TwiceInv => NothingComesTwice
  BY DEF TwiceInv, Answering, AnswersNew, NothingComesTwice
<1> QED BY <1>1, <1>2, <1>3, MainHolds, OneInstance, PTL DEF Spec

-----------------------------------------------------------------------------
(* The stream a connection reads: what its handlers have ever been         *)
(* answered, though a later answer may be less, is what PublishedStream    *)
(* promises, below every undecided position.                               *)
Stream == INSTANCE PublishedStream WITH FirstSeq <- 0, answered <- Reached

ReadsAPublishedStream == Stream!Spec

LEMMA StreamSteps ==
  ASSUME TypeInv, [Next]_vars PROVE [Stream!Next]_(Stream!vars)
<1> USE DEF Stream!Next, Stream!vars
<1>1. CASE UNCHANGED <<issued, open, committed, published, receded>>
  BY <1>1 DEF Reached
<1>2. CASE Send
  <2>1. Stream!Issue
    BY <1>2 DEF Send, Reached, Stream!Issue
  <2> QED BY <2>1
<1>3. CASE \E S \in SUBSET open : Settle(S)
  <2>1. Stream!Decide
    BY <1>3 DEF Settle, Reached, Stream!Decide
  <2> QED BY <2>1
<1>4. CASE Publish
  <2>1. /\ published' \in Nat /\ published' <= issued /\ \A p \in open : published' < p
        /\ UNCHANGED <<issued, open, committed, receded>>
    BY <1>4, ReachedNat DEF Publish, TypeInv, TypeStore
  <2>2. published < published' /\ published \in Nat /\ receded \in Nat
    BY <1>4, ReachedNat DEF Publish, TypeInv, TypeStore
  <2>3. Reached' = Reached \/ (Reached' = published' /\ Reached < Reached')
    BY <2>1, <2>2 DEF Reached
  <2> QED BY <2>1, <2>3 DEF Stream!Answer
<1>5. CASE Recede
  BY <1>5, RecedeEffect DEF Recede
<1>6. CASE \/ SetAccountData \/ GiveUp \/ Forget \/ Sweep
           \/ \E h \in Handlers : Request(h) \/ Cancel(h)
  BY <1>1, <1>6 DEF SetAccountData, GiveUp, Forget, Sweep, Request, Cancel, store
<1>7. ASSUME NEW h \in Handlers, Serve(h)
      PROVE  UNCHANGED <<issued, open, committed, published, receded>>
  BY <1>7 DEF Serve, Open, Resolve, UnknownPos, Reset, Discard, Acknowledge, StatementFails,
              Attempt, Park, Wake, Expire, Stage, Reply, store
<1> QED BY <1>1, <1>2, <1>3, <1>4, <1>5, <1>6, <1>7 DEF Next, vars, store

(* However the published position goes back, the events of a connection    *)
(* come from a stream as PublishedStream describes it: no event is settled *)
(* at or below a position that a handler has read up to (Reached).         *)
THEOREM ReadsAPublishedStreamHolds == Spec => ReadsAPublishedStream
<1>1. Init => Stream!Init
  BY DEF Init, Stream!Init, Reached
<1> QED BY <1>1, StreamSteps, TypeHolds, PTL DEF Spec, ReadsAPublishedStream, Stream!Spec

(* And the other way round: within the bound on positions, a connection's  *)
(* environment leaves out nothing that such a stream may do, transactions  *)
(* of several positions and positions drawn in vain among it, so that what *)
(* is shown of the connection is shown for every published stream.         *)
THEOREM EveryStreamStepIsThere ==
  ASSUME TypeInv, Stream!Next, issued' <= MaxPos, Stream!Answer \/ UNCHANGED published,
         UNCHANGED <<receded, roomOf, dataAt, row, handlers, client, nids, faults>>
  PROVE  Next
<1>1. CASE Stream!Issue /\ UNCHANGED published
  <2>1. issued < MaxPos
    BY <1>1, SyncAssumption DEF Stream!Issue, TypeInv, TypeStore
  <2>2. Send
    BY <1>1, <2>1 DEF Stream!Issue, Send
  <2> QED BY <2>2 DEF Next
<1>2. CASE Stream!Decide /\ UNCHANGED published
  BY <1>2 DEF Stream!Decide, Settle, Next
<1>3. CASE Stream!Answer
  <2>1. /\ Reached' \in Nat /\ Reached < Reached' /\ Reached' <= issued
        /\ \A p \in open : Reached' < p
        /\ UNCHANGED <<issued, open, committed>>
    BY <1>3 DEF Stream!Answer
  <2>2. published' = Reached' /\ published < published'
    BY <2>1, ReachedNat DEF Reached
  <2>3. published' \in published + 1 .. issued
    BY <2>1, <2>2, ReachedNat DEF TypeInv, TypeStore
  <2>4. Publish
    BY <2>1, <2>2, <2>3 DEF Publish
  <2> QED BY <2>4 DEF Next
<1> QED BY <1>1, <1>2, <1>3 DEF Stream!Next
-----------------------------------------------------------------------------
(* The gate, for any number of instances: those who are not idle on one    *)
(* instance stand in a line.                                               *)
Busy == {h \in Handlers : pc[h] # "idle"}

(* Whoever is before h in line has arrived, on the same instance, with     *)
(* nobody before it who is not before h as well.                           *)
LineBefore(h) ==
  /\ Active(h) \/ pc[h] = "idle" => ahead[h] = {}
  /\ h \notin ahead[h]
  /\ \A g \in ahead[h] : g \in Busy /\ Home[g] = Home[h] /\ ahead[g] \subseteq ahead[h]

LineInv ==
  /\ IsFiniteSet(Busy)
  /\ \A h \in Handlers : LineBefore(h)
  /\ \A g, h \in Busy : Home[g] = Home[h] => g = h \/ g \in ahead[h] \/ h \in ahead[g]

LEMMA LineInit == Init => LineInv
<1> SUFFICES ASSUME Init PROVE LineInv
  OBVIOUS
<1>1. Busy = {}
  BY DEF Init, Busy
<1> QED BY <1>1, FS_EmptySet DEF Init, LineInv, LineBefore

LEMMA LineNext == ASSUME TypeInv, LineInv, [Next]_vars PROVE LineInv'
<1>1. CASE Rests
  <2>1. Busy' = Busy
    BY <1>1 DEF Rests, Busy
  <2> QED BY <1>1, <2>1 DEF Rests, LineInv, LineBefore, Active
<1>2. ASSUME NEW h \in Handlers, Moves(h) PROVE LineInv'
  <2>1. /\ Active(h)' /\ ahead' = ahead /\ ahead[h] = {} /\ h \in Busy
        /\ \A g \in Handlers \ {h} : pc'[g] = pc[g]
    BY <1>2, GotoEffect DEF Moves, Turn, Phases, LineInv, LineBefore, Active, Statements, Busy
  <2>2. Busy' = Busy
    BY <2>1 DEF Busy, Active, Statements
  <2>3. ASSUME NEW g \in Handlers PROVE LineBefore(g)'
    <3>1. CASE g = h
      BY <2>1, <3>1 DEF LineBefore
    <3>2. CASE g # h
      BY <2>1, <2>2, <3>2 DEF LineInv, LineBefore, Active
    <3> QED BY <3>1, <3>2
  <2> QED BY <2>1, <2>2, <2>3 DEF LineInv
<1>3. ASSUME NEW h \in Handlers, Leaves(h) PROVE LineInv'
  <2>1. /\ pc'[h] = "idle" /\ ahead'[h] = {}
        /\ \A g \in Handlers \ {h} : pc'[g] = pc[g] /\ ahead'[g] = ahead[g] \ {h}
    BY <1>3, LeaveEffect DEF Leaves
  <2>2. Busy' = Busy \ {h}
    BY <1>3, LeaveEffect DEF Leaves, Busy
  <2>3. IsFiniteSet(Busy')
    BY <2>2, FS_Subset DEF LineInv
  <2>4. \A g \in Handlers : ahead'[g] \subseteq ahead[g] \ {h}
    BY <1>3, LeaveEffect DEF Leaves
  <2>5. ASSUME NEW g \in Handlers PROVE LineBefore(g)'
    <3>1. CASE g = h
      BY <1>3, LeaveEffect, <3>1 DEF Leaves, LineBefore
    <3>2. CASE g # h
      <4>1. pc'[g] = pc[g] /\ ahead'[g] = ahead[g] \ {h}
        BY <1>3, LeaveEffect, <3>2 DEF Leaves
      <4>2. LineBefore(g) /\ ahead[g] \subseteq Handlers
        BY DEF LineInv, TypeInv, TypeHandlers
      <4> QED BY <2>2, <2>4, <4>1, <4>2 DEF LineBefore, Active
    <3> QED BY <3>1, <3>2
  <2>6. ASSUME NEW f \in Busy', NEW g \in Busy', Home[f] = Home[g]
        PROVE  f = g \/ f \in ahead'[g] \/ g \in ahead'[f]
    <3>1. f \in Busy /\ g \in Busy /\ f # h /\ g # h
      BY <2>2
    <3>2. ahead'[f] = ahead[f] \ {h} /\ ahead'[g] = ahead[g] \ {h}
      BY <1>3, LeaveEffect, <3>1 DEF Leaves, Busy
    <3> QED BY <2>6, <3>1, <3>2 DEF LineInv
  <2> QED BY <2>3, <2>5, <2>6 DEF LineInv
<1>4. ASSUME NEW h \in Handlers, Request(h) PROVE LineInv'
  <2> DEFINE before == {g \in Handlers : pc[g] # "idle" /\ Home[g] = Home[h]}
  <2>1. /\ pc[h] = "idle" /\ pc'[h] = "gate" /\ ahead'[h] = before
        /\ \A g \in Handlers \ {h} : pc'[g] = pc[g] /\ ahead'[g] = ahead[g]
    BY <1>4 DEF Request, TypeInv, TypeHandlers
  <2>2. Busy' = Busy \cup {h} /\ h \notin Busy
    BY <2>1 DEF Busy
  <2>3. IsFiniteSet(Busy')
    BY <2>2, FS_AddElement DEF LineInv
  <2>4. \A g \in Handlers : h \notin ahead[g]
    BY <2>2 DEF LineInv, LineBefore
  <2>5. ASSUME NEW g \in Handlers PROVE LineBefore(g)'
    <3>1. CASE g = h
      <4>1. ASSUME NEW f \in before
            PROVE  f \in Busy' /\ Home[f] = Home[h] /\ ahead'[f] \subseteq before
        <5>1. f \in Busy /\ f # h /\ ahead'[f] = ahead[f] /\ LineBefore(f)
          BY <2>1, <4>1 DEF Busy, LineInv
        <5>2. ahead[f] \subseteq Handlers
          BY DEF TypeInv, TypeHandlers
        <5> QED BY <2>2, <5>1, <5>2, <4>1 DEF LineBefore, Busy
      <4>2. h \notin before
        BY <2>1
      <4> QED BY <2>1, <3>1, <4>1, <4>2 DEF LineBefore, Active, Statements
    <3>2. CASE g # h
      <4>1. pc'[g] = pc[g] /\ ahead'[g] = ahead[g] /\ LineBefore(g) /\ ahead[g] \subseteq Handlers
        BY <2>1, <3>2 DEF LineInv, TypeInv, TypeHandlers
      <4>2. \A f \in ahead[g] : ahead'[f] = ahead[f] /\ f \in Busy'
        BY <2>1, <2>2, <2>4, <4>1 DEF LineBefore
      <4> QED BY <4>1, <4>2 DEF LineBefore, Active
    <3> QED BY <3>1, <3>2
  <2>6. ASSUME NEW f \in Busy', NEW g \in Busy', Home[f] = Home[g]
        PROVE  f = g \/ f \in ahead'[g] \/ g \in ahead'[f]
    <3>1. CASE f # h /\ g # h
      <4>1. f \in Busy /\ g \in Busy /\ ahead'[f] = ahead[f] /\ ahead'[g] = ahead[g]
        BY <2>1, <2>2, <3>1 DEF Busy
      <4> QED BY <2>6, <4>1 DEF LineInv
    <3>2. CASE f = h /\ g # h
      BY <2>1, <2>2, <2>6, <3>2 DEF Busy
    <3>3. CASE f # h /\ g = h
      BY <2>1, <2>2, <2>6, <3>3 DEF Busy
    <3> QED BY <3>1, <3>2, <3>3
  <2> QED BY <2>3, <2>5, <2>6 DEF LineInv
<1> QED BY <1>1, <1>2, <1>3, <1>4, Kinds

LEMMA LineHolds == Spec => [](TypeInv /\ LineInv)
<1>1. Spec => []LineInv
  BY LineInit, LineNext, TypeInit, TypeNext, TypeHolds, PTL DEF Spec
<1> QED BY <1>1, TypeHolds, PTL

(* In a line there is one whom nobody is before.                           *)
LEMMA SomebodyIsFirst ==
  ASSUME TypeInv, LineInv, NEW h \in Busy
  PROVE  \E g \in Busy : Home[g] = Home[h] /\ ahead[g] = {}
<1> DEFINE Line == ahead[h] \cup {h}
           Length(g) == Cardinality(ahead[g])
           Lengths == {Length(g) : g \in Line}
           R == OpToRel(<, Nat)
<1>1. /\ h \in Handlers /\ Line \subseteq Busy /\ Line \subseteq Handlers
      /\ \A g \in Line : Home[g] = Home[h] /\ ahead[g] \subseteq Line
  BY DEF LineInv, LineBefore, Busy, TypeInv, TypeHandlers
<1>2. \A g \in Line : IsFiniteSet(ahead[g]) /\ Length(g) \in Nat
  BY <1>1, FS_Subset, FS_CardinalityType DEF LineInv
<1>3. Lengths \subseteq Nat /\ Lengths # {}
  BY <1>2
<1>4. PICK least \in Lengths : \A n \in Lengths : ~(<<n, least>> \in R)
  <2> HIDE DEF Lengths, R
  <2>1. IsWellFoundedOn(R, Nat)
    BY NatLessThanWellFounded DEF R
  <2> QED BY <1>3, <2>1, WFMin
<1>5. \A n \in Lengths : ~(n < least)
  BY <1>3, <1>4 DEF OpToRel
<1>6. PICK g \in Line : least = Length(g)
  BY <1>4
<1>7. ahead[g] = {}
  <2>1. SUFFICES ASSUME NEW f \in ahead[g] PROVE FALSE
    OBVIOUS
  <2>2. f \in Line /\ ahead[f] \subseteq ahead[g] /\ f \notin ahead[f]
    BY <1>1, <2>1 DEF LineInv, LineBefore
  <2>3. Length(f) < Length(g)
    <3>1. ahead[f] # ahead[g]
      BY <2>1, <2>2
    <3> QED BY <1>2, <2>2, <3>1, FS_Subset
  <2> QED BY <1>5, <1>6, <2>2, <2>3
<1> QED BY <1>1, <1>6, <1>7

(* The serialiser lets one handler of an instance in at a time, and while  *)
(* any waits at a gate, one of its instance is inside or has its turn: the *)
(* one that ends, however it ends, leaves nobody stranded behind it.       *)
OneInside == \A g, h \in Handlers : Home[g] = Home[h] /\ Active(g) /\ Active(h) => g = h

NobodyIsStranded ==
  \A h \in Handlers :
    pc[h] = "gate" => \E g \in Handlers : Home[g] = Home[h] /\ (Active(g) \/ Turn(g))

THEOREM GateHolds == Spec => [](OneInside /\ NobodyIsStranded)
<1>1. LineInv => OneInside
  BY DEF LineInv, LineBefore, OneInside, Busy, Active, Statements
<1>2. ASSUME TypeInv, LineInv PROVE NobodyIsStranded
  <2>1. SUFFICES ASSUME NEW h \in Handlers, pc[h] = "gate"
                 PROVE  \E g \in Handlers : Home[g] = Home[h] /\ (Active(g) \/ Turn(g))
    BY DEF NobodyIsStranded
  <2>2. PICK g \in Busy : Home[g] = Home[h] /\ ahead[g] = {}
    BY <1>2, <2>1, SomebodyIsFirst DEF Busy
  <2>3. g \in Handlers /\ pc[g] \in Phases /\ pc[g] # "idle"
    BY <1>2, <2>2 DEF TypeInv, TypeHandlers, Busy
  <2> QED BY <2>2, <2>3 DEF Phases, Active, Turn
<1> QED BY <1>1, <1>2, LineHolds, PTL

(* Nobody overtakes: those before a handler that waits only become fewer.  *)
NobodyOvertakes ==
  \A h \in Handlers : pc[h] = "gate" /\ pc'[h] = "gate" => ahead'[h] \subseteq ahead[h]

THEOREM NobodyOvertakesHolds == Spec => [][NobodyOvertakes]_vars
<1>1. ASSUME TypeInv, [Next]_vars PROVE NobodyOvertakes
  <2>1. ASSUME NEW h \in Handlers, pc[h] = "gate", NEW g \in Handlers,
               Request(g) \/ Moves(g) \/ Leaves(g)
        PROVE  ahead'[h] \subseteq ahead[h]
    <3>1. CASE Request(g)
      BY <1>1, <2>1, <3>1 DEF Request, TypeInv, TypeHandlers
    <3>2. CASE Moves(g)
      BY <3>2 DEF Moves
    <3>3. CASE Leaves(g)
      BY <1>1, <3>3, LeaveEffect DEF Leaves
    <3> QED BY <2>1, <3>1, <3>2, <3>3
  <2> QED BY <1>1, <2>1, Kinds DEF Rests, NobodyOvertakes
<1> QED BY <1>1, TypeHolds, PTL DEF Spec
=============================================================================
