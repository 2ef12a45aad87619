-------------------------- MODULE PowerLevelsProofs --------------------------
(***************************************************************************)
(* Nobody is lifted above the user who changes the power levels            *)
(* (NobodyRisesAboveTheGranter of RoomWrites): first of the rules alone,   *)
(* then of every event in the room, on the invariant of RoomWritesProofs.  *)
(***************************************************************************)
EXTENDS RoomWritesProofs

(* The rules look at one change; they compare what is given with the       *)
(* sender's own level, and what was given before with it as well.          *)
LEMMA LevelsFacts ==
  ASSUME NEW l \in Levels
  PROVE  /\ l.basic["users_default"] \in Int
         /\ \A u \in DOMAIN l.users : l.users[u] \in Int
         /\ \A u : UserLevel(l, u) \in Int
<1>1. MaxLevel \in Nat
  BY AuthAssumption
<1>2. l.basic \in [Basics -> 0..MaxLevel] /\ "users_default" \in Basics
  BY DEF Levels, Basics
<1>3. PICK T \in SUBSET Users : l.users \in [T -> 0..MaxLevel]
  BY DEF Levels, Tables
<1>4. l.basic["users_default"] \in Int
  BY <1>1, <1>2
<1>5. \A u \in DOMAIN l.users : l.users[u] \in Int
  BY <1>1, <1>3
<1> QED
  BY <1>1, <1>4, <1>5 DEF UserLevel

LEMMA MaxOfThree ==
  ASSUME NEW a \in Int, NEW b \in Int, NEW c \in Int
  PROVE  /\ Max({a, b, c}) \in Int
         /\ a <= Max({a, b, c}) /\ b <= Max({a, b, c}) /\ c <= Max({a, b, c})
<1>1. PICK x \in {a, b, c} : a <= x /\ b <= x /\ c <= x
  OBVIOUS
<1>2. {a, b, c} \in SUBSET Int /\ \A y \in {a, b, c} : y <= x
  BY <1>1
<1>3. Max({a, b, c}) = x
  BY <1>2, MaxIs
<1> QED
  BY <1>1, <1>3

LEMMA RulesBoundTheGrant ==
  ASSUME NEW e, NEW s, e.levels \in Levels, s.levels \in Levels, AuthorisePowerLevels(e, s), NEW u
  PROVE  \/ UserLevel(e.levels, u) <= UserLevel(s.levels, u)
         \/ UserLevel(e.levels, u) <= UserLevel(s.levels, e.sender)
         \/ UserLevel(e.levels, u) <= s.levels.basic["users_default"]
<1> DEFINE before == s.levels
           after  == e.levels
           level  == UserLevel(before, e.sender)
<1>1. /\ \A b \in Basics : before.basic[b] # after.basic[b] => level >= after.basic[b]
      /\ CheckUserTable(e.sender, level, before.users, after.users)
  BY DEF AuthorisePowerLevels
<1>2. /\ level \in Int /\ UserLevel(before, u) \in Int /\ before.basic["users_default"] \in Int
      /\ after.basic["users_default"] \in Int /\ \A v \in DOMAIN after.users : after.users[v] \in Int
      /\ UserLevel(after, u) \in Int
  BY LevelsFacts
<1>3. CASE u \in Creators
  BY <1>2, <1>3 DEF UserLevel
<1>4. CASE u \notin Creators /\ u \in DOMAIN after.users
  <2>1. UserLevel(after, u) = after.users[u]
    BY <1>4 DEF UserLevel
  <2>2. CASE Entry(before.users, u) = Entry(after.users, u)
    <3>1. CASE u \in DOMAIN before.users
      BY <1>2, <1>4, <2>1, <2>2, <3>1 DEF Entry, UserLevel
    <3>2. CASE u \notin DOMAIN before.users
      <4>1. after.users[u] = -1
        BY <1>4, <2>2, <3>2 DEF Entry
      <4>2. after.users[u] \in 0..MaxLevel
        BY <1>4 DEF Levels, Tables
      <4> QED BY <4>1, <4>2, AuthAssumption
    <3> QED BY <3>1, <3>2
  <2>3. CASE Entry(before.users, u) # Entry(after.users, u)
    <3>1. level >= Entry(after.users, u)
      BY <1>1, <1>4, <2>3 DEF CheckUserTable, Changed
    <3> QED BY <1>2, <1>4, <2>1, <3>1 DEF Entry
  <2> QED BY <2>2, <2>3
<1>5. CASE u \notin Creators /\ u \notin DOMAIN after.users
  <2>1. UserLevel(after, u) = after.basic["users_default"] /\ "users_default" \in Basics
    BY <1>5 DEF UserLevel, Basics
  <2> QED BY <1>1, <1>2, <2>1
<1> QED
  BY <1>3, <1>4, <1>5

-----------------------------------------------------------------------------
(* The power levels there are, in requests, events and states, are levels. *)
HasLevels(c) == c.type = "power_levels" => c.levels \in Levels

LevelsInv ==
  /\ \A e \in events : HasLevels(e.content)
  /\ \A e \in events : DOMAIN StateAfter(e) = {"member", "rule", "visibility", "levels"}
                       /\ StateAfter(e).levels \in Levels
  /\ \A h \in Handlers : pc[h] \notin {"idle", "forget"} => HasLevels(sess[h].content)

LEMMA LevelsInit == Init => LevelsInv
<1> SUFFICES ASSUME Init PROVE LevelsInv
  OBVIOUS
<1>1. events = {Root} /\ \A h \in Handlers : pc[h] = "idle"
  BY DEF Init
<1>2. Root.content.type = "create" /\ StateAfter(Root) = Start
  BY DEF Root, StateAfter, Apply
<1>3. DOMAIN Start = {"member", "rule", "visibility", "levels"} /\ Start.levels \in Levels
  BY RoomAssumption DEF States
<1> QED
  BY <1>1, <1>2, <1>3 DEF LevelsInv, HasLevels

(* What the rooms service fills in does not touch power levels.            *)
LEMMA LevelsRequest ==
  ASSUME Inv, LevelsInv, NEW h \in Handlers, NEW r \in Requests, Request(h, r)
  PROVE  LevelsInv'
<1>1. PICK c \in Prepared(r, Current) :
        sess' = [sess EXCEPT ![h] = [NoSession EXCEPT !.op = r.op, !.content = c, !.txn = r.txn]]
  BY DEF Request
<1>2. HasLevels(c)
  <2>1. CASE c = r.content
    BY <2>1, RoomAssumption DEF HasLevels
  <2>2. CASE r.op = "join" /\ \E u \in Users : c = [r.content EXCEPT !.via = u]
    BY <2>2, RoomAssumption DEF HasLevels
  <2>3. \/ c = r.content
        \/ r.op = "join" /\ \E u \in Users : c = [r.content EXCEPT !.via = u]
    BY <1>1 DEF Prepared, Grantors
  <2> QED BY <2>1, <2>2, <2>3
<1>3. /\ UNCHANGED events /\ sess'[h].content = c
      /\ \A o \in Handlers \ {h} : pc'[o] = pc[o] /\ sess'[o] = sess[o]
  BY <1>1 DEF Request, store, Goto, NoSession, Inv, HandlersInv
<1> QED
  BY <1>2, <1>3 DEF LevelsInv, HasLevels, StateAfter

LEMMA LevelsNew ==
  ASSUME Inv, LevelsInv, NEW h \in Handlers, Commit(h), IsNew(h)
  PROVE  LevelsInv'
<1> DEFINE n == sess[h].event
<1>1. /\ pc[h] = "commit" /\ events' = events \cup {n} /\ UNCHANGED sess /\ Goto(h, "leave")
  BY DEF Commit
<1>2. Built(sess[h]) /\ HasLevels(n.content)
  BY <1>1, SessionFacts DEF HandlerInv, IsNew, Built, LevelsInv
<1>3. PICK t \in events : n.before = StateAfter(t)
  BY <1>2 DEF Built, Tip
<1>4. DOMAIN n.before = {"member", "rule", "visibility", "levels"} /\ n.before.levels \in Levels
  BY <1>3 DEF LevelsInv
<1>5. DOMAIN StateAfter(n) = {"member", "rule", "visibility", "levels"}
     /\ StateAfter(n).levels \in Levels
  BY <1>2, <1>4 DEF StateAfter, Apply, HasLevels
<1>6. \A o \in Handlers : pc'[o] \notin {"idle", "forget"} => HasLevels(sess'[o].content)
  BY <1>1 DEF Inv, HandlersInv, LevelsInv, Goto
<1> QED
  BY <1>1, <1>2, <1>5, <1>6 DEF LevelsInv, StateAfter, HasLevels

(* Every other step leaves the events as they are, and gives no handler    *)
(* other contents.                                                         *)
LEMMA LevelsFrame ==
  ASSUME LevelsInv, UNCHANGED events,
         \A h \in Handlers : pc'[h] \notin {"idle", "forget"} =>
           pc[h] \notin {"idle", "forget"} /\ sess'[h].content = sess[h].content
  PROVE  LevelsInv'
BY DEF LevelsInv, HasLevels, StateAfter

LEMMA LevelsServe ==
  ASSUME Inv, LevelsInv, NEW h \in Handlers, Serve(h) \/ Forget(h) \/ Abort(h),
         ~(Commit(h) /\ IsNew(h))
  PROVE  LevelsInv'
<1>1. /\ UNCHANGED events
      /\ \E phase : Goto(h, phase)
      /\ \A o \in Handlers \ {h} : pc'[o] = pc[o] /\ sess'[o] = sess[o]
  BY DEF Serve, Forget, EnterGate, TakeLease, LeaseTimesOut, Lock, Replay, Build, Write, Commit,
         Rollback, Leave, Abort, store, Goto, Inv, HandlersInv
<1>2. pc'[h] \notin {"idle", "forget"} =>
        pc[h] \notin {"idle", "forget"} /\ sess'[h].content = sess[h].content
  <2>1. CASE Forget(h) \/ Abort(h) \/ Leave(h)
    BY <2>1 DEF Forget, Abort, Leave, Goto, Inv, HandlersInv
  <2>2. CASE EnterGate(h) \/ LeaseTimesOut(h) \/ Lock(h) \/ Commit(h)
    BY <2>2 DEF EnterGate, LeaseTimesOut, Lock, Commit
  <2>3. CASE TakeLease(h) \/ Replay(h) \/ Build(h) \/ Write(h) \/ Rollback(h)
    <3>1. DOMAIN sess[h] = DOMAIN NoSession /\ sess = [o \in Handlers |-> sess[o]]
      BY SessionFacts DEF Inv, HandlersInv
    <3>2. pc[h] \notin {"idle", "forget"}
      BY <2>3 DEF TakeLease, Replay, Build, Write, Rollback
    <3>3. sess'[h].content = sess[h].content
      BY <2>3, <3>1 DEF TakeLease, Replay, Build, Write, Rollback, NoSession
    <3> QED BY <3>2, <3>3
  <2> QED BY <2>1, <2>2, <2>3 DEF Serve
<1> QED
  BY <1>1, <1>2, LevelsFrame

LEMMA LevelsNext == Inv /\ LevelsInv /\ [Next]_vars => LevelsInv'
<1> SUFFICES ASSUME Inv, LevelsInv, [Next]_vars PROVE LevelsInv'
  OBVIOUS
<1>1. CASE UNCHANGED vars \/ LeaseIsLost \/ SweepTransactions
  BY <1>1, LevelsFrame DEF vars, store, LeaseIsLost, SweepTransactions
<1>2. ASSUME NEW h \in Handlers,
             (\E r \in Requests : Request(h, r)) \/ Forget(h) \/ Serve(h) \/ Abort(h)
      PROVE  LevelsInv'
  <2>1. CASE \E r \in Requests : Request(h, r)
    BY <2>1, LevelsRequest
  <2>2. CASE Commit(h) /\ IsNew(h)
    BY <2>2, LevelsNew
  <2>3. CASE (Serve(h) \/ Forget(h) \/ Abort(h)) /\ ~(Commit(h) /\ IsNew(h))
    BY <2>3, LevelsServe
  <2> QED BY <1>2, <2>1, <2>2, <2>3
<1> QED
  BY <1>1, <1>2 DEF Next

LEMMA LevelsHold == Spec => [](Inv /\ LevelsInv)
BY LevelsInit, LevelsNext, InvHolds, PTL DEF Spec

(* No change of the power levels in the room lifts anybody above the user  *)
(* who made it, nor above what was everybody's level before                *)
(* (entity.authorisePowerLevels and checkUserLevels).                      *)
THEOREM NobodyRisesHolds == Spec => []NobodyRisesAboveTheGranter
<1>1. Inv /\ LevelsInv => NobodyRisesAboveTheGranter
  <2> SUFFICES ASSUME Inv, LevelsInv, NEW e \in events, e.content.type = "power_levels",
                      NEW u \in Users
               PROVE  UserLevel(e.content.levels, u) <=
                        Max({UserLevel(e.before.levels, u),
                             UserLevel(e.before.levels, e.content.sender),
                             e.before.levels.basic["users_default"]})
    BY DEF NobodyRisesAboveTheGranter
  <2>1. PICK p \in events : Follows(e, p)
    BY DEF Inv, HistoryInv, Root
  <2>2. e.content.levels \in Levels /\ e.before.levels \in Levels
    BY <2>1 DEF LevelsInv, HasLevels, Follows
  <2>3. AuthorisePowerLevels(e.content, e.before)
    BY <2>1 DEF Follows, Authorise
  <2> DEFINE a == UserLevel(e.before.levels, u)
             b == UserLevel(e.before.levels, e.content.sender)
             c == e.before.levels.basic["users_default"]
             x == UserLevel(e.content.levels, u)
  <2>4. x <= a \/ x <= b \/ x <= c
    BY <2>2, <2>3, RulesBoundTheGrant
  <2>5. a \in Int /\ b \in Int /\ c \in Int /\ x \in Int
    BY <2>2, LevelsFacts
  <2> HIDE DEF a, b, c, x
  <2>6. /\ Max({a, b, c}) \in Int
        /\ a <= Max({a, b, c}) /\ b <= Max({a, b, c}) /\ c <= Max({a, b, c})
    BY <2>5, MaxOfThree
  <2>7. x <= Max({a, b, c})
    BY <2>4, <2>5, <2>6
  <2> QED BY <2>7 DEF a, b, c, x
<1> QED
  BY <1>1, LevelsHold, PTL
=============================================================================
