-------------------------- MODULE RoomMembersProofs --------------------------
(***************************************************************************)
(* More about RoomWrites, on the invariant of RoomWritesProofs: the tables *)
(* that stand for the room's state agree with the state and the history    *)
(* (ProjectionsAgree), and since events are authorised by that state,      *)
(* nothing lands after a kick (NothingLandsAfterAKick).  And about         *)
(* RoomReads: what a filter finds in its lists is what the states say, so  *)
(* that readers see the history they are entitled to                       *)
(* (ReadersSeeTheirHistory).                                               *)
(***************************************************************************)
EXTENDS RoomWritesProofs, RoomReads

(* The membership events about a user.                                     *)
AllAbout(u) == {e \in events : e.content.type = "member" /\ e.content.target = u}

(* What the last of a set of them says, and its position.                  *)
Latest(A, u, m, q) ==
  \/ A = {} /\ m = Start.member[u] /\ q = 0
  \/ \E g \in A : m = g.content.membership /\ q = g.pos /\ \A f \in A : f.pos <= g.pos

IsState(s) == DOMAIN s = {"member", "rule", "visibility", "levels"} /\ DOMAIN s.member = Users

RowsInv ==
  /\ DOMAIN rows = Users
  /\ \A u \in Users : DOMAIN rows[u] = {"membership", "event", "forgotten"}
  /\ \A u \in Users : Latest(AllAbout(u), u, rows[u].membership, rows[u].event)

StateInv ==
  /\ \A e \in events : IsState(StateAfter(e))
  /\ \A t : Tip(t) => /\ lastStream = t.pos
                      /\ \A u \in Users : rows[u].membership = StateAfter(t).member[u]

SendersInv ==
  \A e \in events : e.content.type \notin {"create", "member"} =>
    /\ e.content.sender \in Users
    /\ \E q : Latest(About(e.content.sender, e.pos), e.content.sender, "join", q)

MembersInv == RowsInv /\ StateInv /\ SendersInv

-----------------------------------------------------------------------------
LEMMA LatestIs ==
  ASSUME HistoryInv, NEW A \in SUBSET events, NEW u, NEW m, NEW q, Latest(A, u, m, q)
  PROVE  /\ Max({0} \cup {e.pos : e \in A}) = q
         /\ A # {} => Event(Max({e.pos : e \in A})).content.membership = m
         /\ A = {} => m = Start.member[u]
<1>1. CASE A = {}
  <2>1. {0} \cup {e.pos : e \in A} = {0} /\ q = 0 /\ m = Start.member[u]
    BY <1>1 DEF Latest
  <2>2. Max({0}) = 0
    BY MaxIs
  <2> QED BY <1>1, <2>1, <2>2
<1>2. CASE A # {}
  <2>1. PICK g \in A : m = g.content.membership /\ q = g.pos /\ \A f \in A : f.pos <= g.pos
    BY <1>2 DEF Latest
  <2>2. \A e \in A : e.pos \in Nat
    BY DEF HistoryInv
  <2>3. Max({0} \cup {e.pos : e \in A}) = g.pos
    <3>1. {0} \cup {e.pos : e \in A} \in SUBSET Int /\ g.pos \in {0} \cup {e.pos : e \in A}
          /\ \A y \in {0} \cup {e.pos : e \in A} : y <= g.pos
      BY <2>1, <2>2
    <3> QED BY <3>1, MaxIs
  <2>4. Max({e.pos : e \in A}) = g.pos
    <3>1. {e.pos : e \in A} \in SUBSET Int /\ g.pos \in {e.pos : e \in A}
          /\ \A y \in {e.pos : e \in A} : y <= g.pos
      BY <2>1, <2>2
    <3> QED BY <3>1, MaxIs
  <2>5. Event(g.pos) = g
    BY EventIs
  <2> QED BY <1>2, <2>1, <2>3, <2>4, <2>5
<1> QED
  BY <1>1, <1>2

LEMMA MembersInit == Init => MembersInv
<1> SUFFICES ASSUME Init PROVE MembersInv
  OBVIOUS
<1>1. /\ events = {Root} /\ extremities = {0} /\ lastStream = 0
      /\ Root.content = [type |-> "create"] /\ Root.pos = 0 /\ StateAfter(Root) = Start
  BY DEF Init, Root, StateAfter, Apply
<1>2. IsState(Start)
  BY RoomAssumption DEF IsState, States
<1>3. \A u : AllAbout(u) = {}
  BY <1>1 DEF AllAbout
<1>4. RowsInv
  BY <1>3 DEF Init, RowsInv, Latest
<1>5. \A t : Tip(t) => t = Root
  BY <1>1 DEF Tip
<1>6. StateInv
  BY <1>1, <1>2, <1>5 DEF Init, StateInv
<1>7. SendersInv
  BY <1>1 DEF SendersInv
<1> QED
  BY <1>4, <1>6, <1>7 DEF MembersInv

LEMMA SendersFrame == ASSUME SendersInv, UNCHANGED events PROVE SendersInv'
<1>1. ASSUME NEW e \in events, e.content.type \notin {"create", "member"}
      PROVE  /\ e.content.sender \in Users
             /\ \E q : Latest(About(e.content.sender, e.pos), e.content.sender, "join", q)
  BY <1>1 DEF SendersInv
<1>2. \A u, p : About(u, p)' = About(u, p)
  BY DEF About
<1> QED
  BY <1>1, <1>2 DEF SendersInv, Latest, About

LEMMA MembersFrame ==
  ASSUME MembersInv, UNCHANGED <<events, extremities, rows, lastStream>>
  PROVE  MembersInv'
<1>1. RowsInv'
  BY DEF MembersInv, RowsInv, Latest, AllAbout
<1>2. StateInv'
  BY DEF MembersInv, StateInv, Tip, StateAfter, IsState
<1>3. SendersInv'
  BY SendersFrame DEF MembersInv
<1> QED
  BY <1>1, <1>2, <1>3 DEF MembersInv

(* Forget changes a row, but not the membership it says.                   *)
LEMMA MembersForget ==
  ASSUME MembersInv, NEW h \in Handlers, Forget(h)
  PROVE  MembersInv'
<1>1. CASE pc[h] = "idle"
  BY <1>1, MembersFrame DEF Forget, store
<1>2. CASE pc[h] = "forget"
  <2>1. /\ rows' = [rows EXCEPT ![sess[h].content.target].forgotten = TRUE]
        /\ UNCHANGED <<events, extremities, lastStream>>
    BY <1>2 DEF Forget
  <2>2. DOMAIN rows' = Users /\ \A u \in Users :
          /\ DOMAIN rows'[u] = {"membership", "event", "forgotten"}
          /\ rows'[u].membership = rows[u].membership /\ rows'[u].event = rows[u].event
    BY <2>1 DEF MembersInv, RowsInv
  <2>3. RowsInv'
    BY <2>1, <2>2 DEF MembersInv, RowsInv, Latest, AllAbout
  <2>4. StateInv'
    BY <2>1, <2>2 DEF MembersInv, StateInv, Tip, StateAfter, IsState
  <2>5. SendersInv'
    BY <2>1, SendersFrame DEF MembersInv
  <2> QED BY <2>3, <2>4, <2>5 DEF MembersInv
<1> QED
  BY <1>1, <1>2 DEF Forget

(* A new event lies above all others: it is the last about its target, and *)
(* changes nothing about what lies below the others.                       *)
LEMMA MembersNew ==
  ASSUME Inv, Inv', MembersInv, NEW h \in Handlers, Commit(h), IsNew(h)
  PROVE  MembersInv'
<1> DEFINE s == sess[h]
           n == sess[h].event
<1>1. /\ pc[h] = "commit" /\ events' = events \cup {n}
      /\ extremities' = (extremities \ s.replaces) \cup {s.answer}
      /\ rows' = Project(n) /\ lastStream' = Max({lastStream, s.answer})
  BY DEF Commit
<1>2. /\ Built(s) /\ n.pos = s.answer /\ s.replaces = extremities /\ n.content = s.content
      /\ \A e \in events : e.pos < s.answer
  BY <1>1, SessionFacts DEF HandlerInv, IsNew, Built
<1>3. PICK t : /\ Tip(t) /\ n.before = StateAfter(t) /\ Authorise(n.content, n.before)
  BY <1>2 DEF Built
<1>4. t \in events /\ \A e \in events : e.pos \in Nat /\ e.pos < n.pos
  BY <1>2, <1>3 DEF Inv, HistoryInv, Tip
<1>5. n.pos \in Nat
  BY <1>1 DEF Inv, HistoryInv
<1>6. /\ IsState(n.before) /\ lastStream = t.pos
      /\ \A u \in Users : rows[u].membership = n.before.member[u]
  BY <1>3, <1>4 DEF MembersInv, StateInv
<1>7. \A u : AllAbout(u)' = IF n.content.type = "member" /\ n.content.target = u
                            THEN AllAbout(u) \cup {n} ELSE AllAbout(u)
  BY <1>1 DEF AllAbout
<1>8. RowsInv'
  <2>1. CASE n.content.type # "member"
    <3>1. rows' = rows /\ \A u : AllAbout(u)' = AllAbout(u)
      BY <1>1, <1>7, <2>1 DEF Project
    <3> QED BY <3>1 DEF MembersInv, RowsInv, Latest
  <2>2. CASE n.content.type = "member"
    <3> DEFINE row == [membership |-> n.content.membership, event |-> n.pos, forgotten |-> FALSE]
    <3>1. rows' = [rows EXCEPT ![n.content.target] = row]
      BY <1>1, <2>2 DEF Project
    <3>2. DOMAIN rows' = Users
          /\ \A u \in Users : rows'[u] = IF u = n.content.target THEN row ELSE rows[u]
      BY <3>1 DEF MembersInv, RowsInv
    <3>3. ASSUME NEW u \in Users
          PROVE  /\ DOMAIN rows'[u] = {"membership", "event", "forgotten"}
                 /\ Latest(AllAbout(u), u, rows[u].membership, rows[u].event)'
      <4>1. CASE u = n.content.target
        <5>1. AllAbout(u)' = AllAbout(u) \cup {n} /\ n \in AllAbout(u)'
          BY <1>7, <2>2, <4>1
        <5>2. \A f \in AllAbout(u)' : f.pos <= n.pos
          BY <1>4, <1>5, <5>1 DEF AllAbout
        <5>3. rows'[u] = row
          BY <3>2, <4>1
        <5> QED BY <5>1, <5>2, <5>3 DEF Latest
      <4>2. CASE u # n.content.target
        <5>1. AllAbout(u)' = AllAbout(u) /\ rows'[u] = rows[u]
          BY <1>7, <3>2, <4>2
        <5> QED BY <5>1 DEF MembersInv, RowsInv, Latest
      <4> QED BY <4>1, <4>2
    <3> QED BY <3>2, <3>3 DEF RowsInv
  <2> QED BY <2>1, <2>2
<1>9. StateInv'
  <2>1. StateAfter(n) = Apply(n.before, n.content)
    BY DEF StateAfter
  <2>2. IsState(Apply(n.before, n.content))
    BY <1>6 DEF IsState, Apply
  <2>3. \A u \in Users : rows'[u].membership = Apply(n.before, n.content).member[u]
    <3>1. CASE n.content.type # "member"
      <4>1. rows' = rows /\ Apply(n.before, n.content).member = n.before.member
        BY <1>1, <1>6, <3>1 DEF Project, Apply, IsState
      <4> QED BY <1>6, <4>1
    <3>2. CASE n.content.type = "member"
      <4>1. Apply(n.before, n.content) =
              [n.before EXCEPT !.member[n.content.target] = n.content.membership]
        BY <3>2 DEF Apply
      <4>2. rows' = [rows EXCEPT ![n.content.target] =
              [membership |-> n.content.membership, event |-> n.pos, forgotten |-> FALSE]]
        BY <1>1, <3>2 DEF Project
      <4> QED BY <1>6, <4>1, <4>2 DEF IsState, MembersInv, RowsInv
    <3> QED BY <3>1, <3>2
  <2>4. \A e : Tip(e)' => e = n
    BY <1>1, <1>2 DEF Tip, Inv, HistoryInv
  <2>5. lastStream' = n.pos
    <3>1. {lastStream, n.pos} \in SUBSET Int /\ n.pos \in {lastStream, n.pos}
          /\ \A y \in {lastStream, n.pos} : y <= n.pos
      BY <1>4, <1>5, <1>6
    <3>2. Max({lastStream, n.pos}) = n.pos
      BY <3>1, MaxIs
    <3> QED BY <1>1, <1>2, <3>2
  <2>6. \A e \in events' : IsState(StateAfter(e))
    BY <1>1, <2>1, <2>2 DEF MembersInv, StateInv
  <2> QED BY <2>1, <2>3, <2>4, <2>5, <2>6 DEF StateInv, StateAfter, IsState
<1>10. SendersInv'
  <2> DEFINE Below(u, p) == {e \in events' : e.pos < p /\ e.content.type = "member"
                                                      /\ e.content.target = u}
  <2>1. \A u : \A e \in events : Below(u, e.pos) = About(u, e.pos)
    BY <1>1, <1>4, <1>5 DEF About
  <2>2. \A e \in events : e.content.type \notin {"create", "member"} =>
          /\ e.content.sender \in Users
          /\ \E q : Latest(Below(e.content.sender, e.pos), e.content.sender, "join", q)
    BY <2>1 DEF MembersInv, SendersInv
  <2>3. ASSUME n.content.type \notin {"create", "member"}
        PROVE  /\ n.content.sender \in Users
               /\ \E q : Latest(Below(n.content.sender, n.pos), n.content.sender, "join", q)
    <3> DEFINE u == n.content.sender
    <3>1. u \in Users /\ rows[u].membership = "join"
      BY <1>3, <1>6, <2>3 DEF Authorise, Joined
    <3>2. Below(u, n.pos) = AllAbout(u)
      BY <1>1, <1>4, <1>5 DEF AllAbout
    <3> QED BY <3>1, <3>2 DEF MembersInv, RowsInv
  <2>4. \A e \in events' : e.content.type \notin {"create", "member"} =>
          /\ e.content.sender \in Users
          /\ \E q : Latest(Below(e.content.sender, e.pos), e.content.sender, "join", q)
    BY <1>1, <2>2, <2>3
  <2> QED BY <2>4 DEF SendersInv, About, Latest
<1> QED
  BY <1>8, <1>9, <1>10 DEF MembersInv

LEMMA MembersNext == Inv /\ Inv' /\ MembersInv /\ [Next]_vars => MembersInv'
<1> SUFFICES ASSUME Inv, Inv', MembersInv, [Next]_vars PROVE MembersInv'
  OBVIOUS
<1>1. CASE \E h \in Handlers : Commit(h) /\ IsNew(h)
  BY <1>1, MembersNew
<1>2. CASE \E h \in Handlers : Forget(h)
  BY <1>2, MembersForget
<1>3. CASE ~\E h \in Handlers : Forget(h) \/ (Commit(h) /\ IsNew(h))
  <2>1. UNCHANGED <<events, extremities, rows, lastStream>>
    BY <1>3 DEF Next, Request, Serve, EnterGate, TakeLease, LeaseTimesOut, Lock, Replay,
                Build, Write, Commit, Rollback, Leave, Abort, LeaseIsLost, SweepTransactions,
                store, vars
  <2> QED BY <2>1, MembersFrame
<1> QED
  BY <1>1, <1>2, <1>3

LEMMA MembersHold == Spec => [](Inv /\ MembersInv)
<1>1. Init => MembersInv
  BY MembersInit
<1>2. Inv /\ Inv' /\ MembersInv /\ [Next]_vars => MembersInv'
  BY MembersNext
<1> QED
  BY <1>1, <1>2, InvHolds, PTL DEF Spec

-----------------------------------------------------------------------------
(* The membership rows and the room's last position, which sync and the    *)
(* lists read, say what the history says (projectMembership, persist).     *)
THEOREM ProjectionsAgreeHolds == Spec => []ProjectionsAgree
<1>1. Inv /\ MembersInv => ProjectionsAgree
  <2> SUFFICES ASSUME Inv, MembersInv PROVE ProjectionsAgree
    OBVIOUS
  <2>1. PICK t : Tip(t)
    BY DEF Inv, HistoryInv
  <2>2. lastStream = t.pos /\ t \in events /\ \A e \in events : e.pos \in Nat /\ e.pos <= t.pos
    BY <2>1 DEF MembersInv, StateInv, Tip, Inv, HistoryInv
  <2>3. lastStream = Max({e.pos : e \in events})
    <3>1. /\ {e.pos : e \in events} \in SUBSET Int /\ t.pos \in {e.pos : e \in events}
          /\ \A y \in {e.pos : e \in events} : y <= t.pos
      BY <2>2
    <3> QED BY <2>2, <3>1, MaxIs
  <2>4. ASSUME NEW u \in Users
        PROVE  /\ rows[u].membership = MembershipBelow(u, lastStream + 1)
               /\ rows[u].event = Max({0} \cup {e.pos : e \in About(u, lastStream + 1)})
    <3>1. About(u, lastStream + 1) = AllAbout(u)
      BY <2>2 DEF About, AllAbout
    <3>2. Latest(AllAbout(u), u, rows[u].membership, rows[u].event)
      BY DEF MembersInv, RowsInv
    <3>3. AllAbout(u) \in SUBSET events
      BY DEF AllAbout
    <3>4. /\ Max({0} \cup {e.pos : e \in AllAbout(u)}) = rows[u].event
          /\ AllAbout(u) # {} =>
               Event(Max({e.pos : e \in AllAbout(u)})).content.membership = rows[u].membership
          /\ AllAbout(u) = {} => rows[u].membership = Start.member[u]
      BY <3>2, <3>3, LatestIs DEF Inv
    <3> QED BY <3>1, <3>4 DEF MembershipBelow
  <2> QED BY <2>3, <2>4 DEF ProjectionsAgree
<1> QED
  BY <1>1, MembersHold, PTL

(* Nothing that is sent beside a kick, a ban or a leave lands after it: a  *)
(* reader of the stream sees no event of a user who has left by then       *)
(* (entity.Authorise, under the room's lock).                              *)
THEOREM NothingLandsAfterAKickHolds == Spec => []NothingLandsAfterAKick
<1>1. Inv /\ MembersInv => NothingLandsAfterAKick
  <2> SUFFICES ASSUME Inv, MembersInv,
                      NEW e \in events, e.content.type \notin {"create", "member"}
               PROVE  MembershipBelow(e.content.sender, e.pos) = "join"
    BY DEF NothingLandsAfterAKick
  <2> DEFINE u == e.content.sender
             A == About(u, e.pos)
  <2>1. PICK q : Latest(A, u, "join", q)
    BY DEF MembersInv, SendersInv
  <2>2. A \in SUBSET events
    BY DEF About
  <2>3. /\ A # {} => Event(Max({f.pos : f \in A})).content.membership = "join"
        /\ A = {} => Start.member[u] = "join"
    BY <2>1, <2>2, LatestIs DEF Inv
  <2> QED BY <2>3 DEF MembershipBelow
<1> QED
  BY <1>1, MembersHold, PTL

-----------------------------------------------------------------------------
(* What readers see.                                                       *)

SettingsBelow(p) == {e \in events : e.pos < p /\ e.content.type = "history_visibility"}
AllSettings      == {e \in events : e.content.type = "history_visibility"}

(* What the last of some changes of the history visibility says.           *)
Sets(A, v) == \/ A = {} /\ v = Start.visibility
              \/ \E g \in A : v = g.content.visibility /\ \A f \in A : f.pos <= g.pos

(* Both orders are one, and the state before an event says what the last   *)
(* changes below it say.                                                   *)
ReadsInv ==
  /\ \A e, f \in events : e.pos < f.pos <=> e.depth < f.depth
  /\ \A e \in events \ {Root} :
       /\ \A u \in Users : \E q : Latest(About(u, e.pos), u, e.before.member[u], q)
       /\ Sets(SettingsBelow(e.pos), e.before.visibility)
  /\ \A t : Tip(t) => Sets(AllSettings, StateAfter(t).visibility)

LEMMA ReadsInit == Init => ReadsInv
<1> SUFFICES ASSUME Init PROVE ReadsInv
  OBVIOUS
<1>1. /\ events = {Root} /\ Root.content = [type |-> "create"] /\ StateAfter(Root) = Start
      /\ Root.pos = 0 /\ Root.depth = 0
  BY DEF Init, Root, StateAfter, Apply
<1>2. \A t : Tip(t) => t = Root
  BY <1>1 DEF Tip
<1>3. AllSettings = {}
  BY <1>1 DEF AllSettings
<1> QED
  BY <1>1, <1>2, <1>3 DEF ReadsInv, Sets

LEMMA ReadsFrame == ASSUME ReadsInv, UNCHANGED <<events, extremities>> PROVE ReadsInv'
<1>1. /\ \A u, p : About(u, p)' = About(u, p)
      /\ \A p : SettingsBelow(p)' = SettingsBelow(p)
      /\ AllSettings' = AllSettings /\ \A t : Tip(t)' = Tip(t)
  BY DEF About, SettingsBelow, AllSettings, Tip
<1>2. \A e \in events \ {Root} :
        /\ \A u \in Users : \E q : Latest(About(u, e.pos)', u, e.before.member[u], q)
        /\ Sets(SettingsBelow(e.pos)', e.before.visibility)
  BY <1>1 DEF ReadsInv
<1>3. \A t : Tip(t)' => Sets(AllSettings', StateAfter(t).visibility)
  BY <1>1 DEF ReadsInv
<1> QED
  BY <1>2, <1>3 DEF ReadsInv, Latest, Sets, StateAfter, About, SettingsBelow, AllSettings

(* The new event comes after all others, and carries the state of the last *)
(* of them.                                                                *)
LEMMA ReadsNew ==
  ASSUME Inv, Inv', MembersInv, ReadsInv, NEW h \in Handlers, Commit(h), IsNew(h)
  PROVE  ReadsInv'
<1> DEFINE s == sess[h]
           n == sess[h].event
<1>1. /\ pc[h] = "commit" /\ events' = events \cup {n}
      /\ extremities' = (extremities \ s.replaces) \cup {s.answer}
  BY DEF Commit
<1>2. /\ Built(s) /\ n.pos = s.answer /\ s.replaces = extremities
      /\ \A e \in events : e.pos < s.answer
  BY <1>1, SessionFacts DEF HandlerInv, IsNew, Built
<1>3. PICK t : Tip(t) /\ n.before = StateAfter(t) /\ n.depth = t.depth + 1
  BY <1>2 DEF Built
<1>4. /\ t \in events
      /\ \A e \in events : e.pos \in Nat /\ e.pos < n.pos /\ e.depth \in Nat /\ e.depth < n.depth
  BY <1>2, <1>3 DEF Inv, HistoryInv, Tip
<1>5. n.pos \in Nat /\ n.depth \in Nat
  BY <1>1 DEF Inv, HistoryInv
<1>6. /\ IsState(n.before)
      /\ \A u \in Users : rows[u].membership = n.before.member[u]
  BY <1>3, <1>4 DEF MembersInv, StateInv
<1>7. \A e, f \in events' : e.pos < f.pos <=> e.depth < f.depth
  BY <1>1, <1>4, <1>5 DEF ReadsInv
<1> DEFINE Members(u, p) == {e \in events' : e.pos < p /\ e.content.type = "member"
                                                      /\ e.content.target = u}
           Settings_(p) == {e \in events' : e.pos < p /\ e.content.type = "history_visibility"}
<1>8. /\ \A u : \A e \in events : Members(u, e.pos) = About(u, e.pos)
      /\ \A e \in events : Settings_(e.pos) = SettingsBelow(e.pos)
  BY <1>1, <1>4, <1>5 DEF About, SettingsBelow
<1>9. /\ \A u : Members(u, n.pos) = AllAbout(u)
      /\ Settings_(n.pos) = AllSettings
  BY <1>1, <1>4, <1>5 DEF AllAbout, AllSettings
<1>10. /\ \A u \in Users : \E q : Latest(AllAbout(u), u, n.before.member[u], q)
       /\ Sets(AllSettings, n.before.visibility)
  BY <1>3, <1>6 DEF MembersInv, RowsInv, ReadsInv
<1> HIDE DEF n, Members, Settings_
<1>11. \A e \in events' \ {Root} :
         /\ \A u \in Users : \E q : Latest(Members(u, e.pos), u, e.before.member[u], q)
         /\ Sets(Settings_(e.pos), e.before.visibility)
  <2>1. ASSUME NEW e \in events \ {Root}
        PROVE  /\ \A u \in Users : \E q : Latest(Members(u, e.pos), u, e.before.member[u], q)
               /\ Sets(Settings_(e.pos), e.before.visibility)
    BY <1>8 DEF ReadsInv
  <2>2. /\ \A u \in Users : \E q : Latest(Members(u, n.pos), u, n.before.member[u], q)
        /\ Sets(Settings_(n.pos), n.before.visibility)
    BY <1>9, <1>10
  <2> QED BY <1>1, <2>1, <2>2
<1>12. Sets(AllSettings', Apply(n.before, n.content).visibility)
  <2>1. CASE n.content.type # "history_visibility"
    <3>1. AllSettings' = AllSettings
      BY <1>1, <2>1 DEF AllSettings
    <3>2. Apply(n.before, n.content).visibility = n.before.visibility
      BY <1>6, <2>1 DEF Apply, IsState
    <3> QED BY <1>10, <3>1, <3>2
  <2>2. CASE n.content.type = "history_visibility"
    <3>1. n \in AllSettings' /\ \A f \in AllSettings' : f.pos <= n.pos
      BY <1>1, <1>4, <1>5, <2>2 DEF AllSettings
    <3>2. Apply(n.before, n.content).visibility = n.content.visibility
      BY <1>6, <2>2 DEF Apply, IsState
    <3> QED BY <3>1, <3>2 DEF Sets
  <2> QED BY <2>1, <2>2
<1>13. \A e : Tip(e)' => e = n
  BY <1>1, <1>2 DEF Tip, Inv, HistoryInv
<1>14. \A e : Tip(e)' => Sets(AllSettings', StateAfter(e).visibility)
  BY <1>12, <1>13 DEF StateAfter
<1> QED
  BY <1>7, <1>11, <1>14 DEF ReadsInv, Latest, About, Sets, SettingsBelow, AllSettings, StateAfter,
                            Members, Settings_

LEMMA ReadsNext == Inv /\ Inv' /\ MembersInv /\ ReadsInv /\ [Next]_vars => ReadsInv'
<1> SUFFICES ASSUME Inv, Inv', MembersInv, ReadsInv, [Next]_vars PROVE ReadsInv'
  OBVIOUS
<1>1. CASE \E h \in Handlers : Commit(h) /\ IsNew(h)
  BY <1>1, ReadsNew
<1>2. CASE ~\E h \in Handlers : Commit(h) /\ IsNew(h)
  <2>1. UNCHANGED <<events, extremities>>
    BY <1>2 DEF Next, Request, Forget, Serve, EnterGate, TakeLease, LeaseTimesOut, Lock,
                Replay, Build, Write, Commit, Rollback, Leave, Abort, LeaseIsLost,
                SweepTransactions, store, vars
  <2> QED BY <2>1, ReadsFrame
<1> QED
  BY <1>1, <1>2

LEMMA ReadsHold == Spec => [](Inv /\ MembersInv /\ ReadsInv)
BY ReadsInit, ReadsNext, MembersHold, PTL DEF Spec

(* What a filter finds in its lists.  The second statement sees all member *)
(* events of its caller.                                                   *)
LEMMA FilterFinds ==
  ASSUME Inv, MembersInv, ReadsInv, NEW u \in Users, NEW e \in events \ {Root}, NEW v \in Int,
         e.pos <= v
  PROVE  /\ MembershipBefore(u, lastStream, e) = e.before.member[u]
         /\ VisibilityBefore(v, e) = e.before.visibility
         /\ MembershipChanges(u, lastStream) = AllAbout(u)
<1>1. /\ \A f \in events : f.pos \in Nat /\ f.depth \in Nat
      /\ \A f, g \in events : (f.pos < g.pos <=> f.depth < g.depth) /\ (f.pos = g.pos => f = g)
  BY DEF Inv, HistoryInv, ReadsInv
<1>2. \A f, g \in events : Before(f, g) <=> f.pos < g.pos
  BY <1>1 DEF Before
<1>3. \A f \in events : f.pos <= lastStream
  BY DEF Inv, HistoryInv, MembersInv, StateInv, Tip
<1>4. MembershipChanges(u, lastStream) = AllAbout(u)
  BY <1>3 DEF MembershipChanges, Upto, AllAbout
<1>5. MembershipBefore(u, lastStream, e) = e.before.member[u]
  <2> DEFINE A == About(u, e.pos)
  <2>1. {f \in MembershipChanges(u, lastStream) : Before(f, e)} = A
    BY <1>2, <1>4 DEF About, AllAbout
  <2>2. PICK q : Latest(A, u, e.before.member[u], q)
    BY DEF ReadsInv
  <2>3. ASSUME A # {} PROVE Newest(A).content.membership = e.before.member[u]
    <3>1. PICK g \in A : e.before.member[u] = g.content.membership /\ \A f \in A : f.pos <= g.pos
      BY <2>2, <2>3 DEF Latest
    <3>2. A \subseteq events
      BY DEF About
    <3>3. \A f \in A : (\A k \in A : ~Before(f, k)) <=> f = g
      BY <1>1, <1>2, <3>1, <3>2
    <3>4. Newest(A) = g
      BY <3>1, <3>3 DEF Newest
    <3> QED BY <3>1, <3>4
  <2>4. A = {} => Start.member[u] = e.before.member[u]
    BY <2>2 DEF Latest
  <2> QED BY <2>1, <2>3, <2>4 DEF MembershipBefore
<1>6. VisibilityBefore(v, e) = e.before.visibility
  <2> DEFINE A == SettingsBelow(e.pos)
  <2>1. {f \in VisibilityChanges(v) : Before(f, e)} = A
    BY <1>1, <1>2 DEF SettingsBelow, VisibilityChanges, Upto
  <2>2. Sets(A, e.before.visibility)
    BY DEF ReadsInv
  <2>3. ASSUME A # {} PROVE Newest(A).content.visibility = e.before.visibility
    <3>1. PICK g \in A : e.before.visibility = g.content.visibility /\ \A f \in A : f.pos <= g.pos
      BY <2>2, <2>3 DEF Sets
    <3>2. A \subseteq events
      BY DEF SettingsBelow
    <3>3. \A f \in A : (\A k \in A : ~Before(f, k)) <=> f = g
      BY <1>1, <1>2, <3>1, <3>2
    <3>4. Newest(A) = g
      BY <3>1, <3>3 DEF Newest
    <3> QED BY <3>1, <3>4
  <2>4. A = {} => Start.visibility = e.before.visibility
    BY <2>2 DEF Sets
  <2> QED BY <2>1, <2>3, <2>4 DEF VisibilityBefore
<1> QED
  BY <1>4, <1>5, <1>6

(* What an event makes of the state before it.                             *)
LEMMA AfterIs ==
  ASSUME Inv, MembersInv, NEW e \in events \ {Root}, NEW u \in Users
  PROVE  /\ StateAfter(e).member[u] = IF e \in AllAbout(u) THEN e.content.membership
                                      ELSE e.before.member[u]
         /\ StateAfter(e).visibility = IF e \in AllSettings THEN e.content.visibility
                                       ELSE e.before.visibility
<1>1. PICK p \in events : e.before = StateAfter(p)
  BY DEF Inv, HistoryInv, Follows
<1>2. IsState(e.before)
  BY <1>1 DEF MembersInv, StateInv
<1>3. CASE e.content.type = "member"
  <2>1. StateAfter(e) = [e.before EXCEPT !.member[e.content.target] = e.content.membership]
    BY <1>3 DEF StateAfter, Apply
  <2> QED BY <1>2, <1>3, <2>1 DEF IsState, AllAbout, AllSettings
<1>4. CASE e.content.type = "history_visibility"
  <2>1. StateAfter(e) = [e.before EXCEPT !.visibility = e.content.visibility]
    BY <1>4 DEF StateAfter, Apply
  <2> QED BY <1>2, <1>4, <2>1 DEF IsState, AllAbout, AllSettings
<1>5. CASE e.content.type \notin {"member", "history_visibility"}
  <2>1. StateAfter(e).member = e.before.member /\ StateAfter(e).visibility = e.before.visibility
    BY <1>2, <1>5 DEF StateAfter, Apply, IsState
  <2> QED BY <1>5, <2>1 DEF AllAbout, AllSettings
<1> QED
  BY <1>3, <1>4, <1>5

JoinedSince(u, e) == \E f \in events : f.pos >= e.pos /\ StateAfter(f).member[u] = "join"

(* A state in which u is joined comes from a member event since e, or from *)
(* the membership u had before e.                                          *)
LEMMA JoinedSinceIs ==
  ASSUME Inv, MembersInv, ReadsInv, NEW u \in Users, NEW e \in events \ {Root}
  PROVE  /\ JoinedAtOrAfter(u, lastStream, e) => JoinedSince(u, e)
         /\ JoinedSince(u, e) => \/ JoinedAtOrAfter(u, lastStream, e)
                                 \/ e.before.member[u] = "join"
<1>1. /\ \A f \in events : f.pos \in Nat /\ f.depth \in Nat
      /\ \A f, g \in events : (f.pos < g.pos <=> f.depth < g.depth) /\ (f.pos = g.pos => f = g)
  BY DEF Inv, HistoryInv, ReadsInv
<1>2. \A f, g \in events : Before(f, g) <=> f.pos < g.pos
  BY <1>1 DEF Before
<1>3. JoinedAtOrAfter(u, lastStream, e) <=>
        \E f \in AllAbout(u) : f.content.membership = "join" /\ f.pos >= e.pos
  <2>1. MembershipChanges(u, lastStream) = AllAbout(u)
    BY <1>1, FilterFinds
  <2>2. \A f \in AllAbout(u) : ~Before(f, e) <=> f.pos >= e.pos
    BY <1>1, <1>2 DEF AllAbout
  <2> QED BY <2>1, <2>2 DEF JoinedAtOrAfter
<1>4. Root \in events /\ Root.pos = 0 /\ e.pos > 0
  BY <1>1 DEF Inv, HistoryInv, Root
<1>5. ASSUME NEW f \in AllAbout(u), f.content.membership = "join", f.pos >= e.pos
      PROVE  JoinedSince(u, e)
  <2>1. f \in events \ {Root}
    BY <1>1, <1>4, <1>5 DEF AllAbout
  <2> QED BY <1>5, <2>1, AfterIs DEF JoinedSince
<1>6. ASSUME NEW f \in events, f.pos >= e.pos, StateAfter(f).member[u] = "join",
             \A g \in AllAbout(u) : g.content.membership = "join" => g.pos < e.pos
      PROVE  e.before.member[u] = "join"
  <2>1. f # Root
    BY <1>1, <1>4, <1>6
  <2>2. f.before.member[u] = "join"
    BY <1>1, <1>6, <2>1, AfterIs
  <2>3. PICK q : Latest(About(u, f.pos), u, "join", q)
    BY <2>1, <2>2 DEF ReadsInv
  <2>4. PICK r : Latest(About(u, e.pos), u, e.before.member[u], r)
    BY DEF ReadsInv
  <2>5. About(u, e.pos) \subseteq About(u, f.pos) /\ About(u, f.pos) \subseteq AllAbout(u)
        /\ AllAbout(u) \subseteq events
    BY <1>1, <1>6 DEF About, AllAbout
  <2>6. CASE About(u, f.pos) = {}
    BY <2>3, <2>4, <2>5, <2>6 DEF Latest
  <2>7. CASE About(u, f.pos) # {}
    <3>1. PICK g \in About(u, f.pos) : /\ g.content.membership = "join"
                                       /\ \A k \in About(u, f.pos) : k.pos <= g.pos
      BY <2>3, <2>7 DEF Latest
    <3>2. g \in About(u, e.pos)
      BY <1>6, <2>5, <3>1 DEF About
    <3>3. PICK k \in About(u, e.pos) : /\ e.before.member[u] = k.content.membership
                                       /\ \A l \in About(u, e.pos) : l.pos <= k.pos
      BY <2>4, <3>2 DEF Latest
    <3>4. k.pos <= g.pos /\ g.pos <= k.pos /\ k \in events /\ g \in events
      BY <2>5, <3>1, <3>2, <3>3
    <3>5. k = g
      BY <1>1, <3>4
    <3> QED BY <3>1, <3>3, <3>5
  <2> QED BY <2>6, <2>7
<1>7. ASSUME JoinedSince(u, e), ~JoinedAtOrAfter(u, lastStream, e)
      PROVE  e.before.member[u] = "join"
  <2>1. PICK f \in events : f.pos >= e.pos /\ StateAfter(f).member[u] = "join"
    BY <1>7 DEF JoinedSince
  <2>2. \A g \in AllAbout(u) : g.content.membership = "join" => g.pos < e.pos
    BY <1>1, <1>3, <1>7 DEF AllAbout
  <2> QED BY <1>6, <2>1, <2>2
<1> QED
  BY <1>3, <1>5, <1>7

(* Whoever is entitled to an event can see that the room is there.         *)
LEMMA EntitledFindTheRoom ==
  ASSUME Inv, MembersInv, ReadsInv, NEW u \in Users, NEW e \in events \ {Root}, NEW v \in Int,
         e.pos <= v, Entitled(u, e)
  PROVE  EverEntitled(u, v, lastStream)
<1> SUFFICES ASSUME ~EverEntitled(u, v, lastStream) PROVE FALSE
  OBVIOUS
<1>1. \A f \in events : f.pos \in Nat
  BY DEF Inv, HistoryInv
<1>2. Start.member[u] = "none" /\ AllAbout(u) = {}
  BY FilterFinds DEF EverEntitled
<1>3. \A f \in events \ {Root} : StateAfter(f).member[u] = "none" /\ f.before.member[u] = "none"
  <2> TAKE f \in events \ {Root}
  <2>1. PICK q : Latest(About(u, f.pos), u, f.before.member[u], q)
    BY DEF ReadsInv
  <2>2. About(u, f.pos) = {}
    BY <1>2 DEF About, AllAbout
  <2> QED BY <1>2, <2>1, <2>2, AfterIs DEF Latest
<1>4. e.before.visibility # "world_readable" /\ StateAfter(e).visibility # "world_readable"
  <2>1. Start.visibility # "world_readable"
        /\ \A g \in AllSettings : g.pos <= v => g.content.visibility # "world_readable"
    BY DEF EverEntitled, VisibilityChanges, Upto, AllSettings
  <2>2. Sets(SettingsBelow(e.pos), e.before.visibility)
    BY DEF ReadsInv
  <2>3. \A g \in SettingsBelow(e.pos) : g \in AllSettings /\ g.pos <= v
    BY <1>1 DEF SettingsBelow, AllSettings
  <2>4. e.before.visibility # "world_readable"
    BY <2>1, <2>2, <2>3 DEF Sets
  <2> QED BY <2>1, <2>4, AfterIs
<1>5. ~JoinedSince(u, e)
  <2>1. ~JoinedAtOrAfter(u, lastStream, e)
    BY <1>2, FilterFinds DEF JoinedAtOrAfter
  <2> QED BY <1>3, <2>1, JoinedSinceIs
<1> QED
  BY <1>3, <1>4, <1>5 DEF Entitled, JoinedSince

(* A filter whose two lists were read at different moments shows its       *)
(* caller exactly the events that the room's states entitle him to, and    *)
(* tells him what he was when each was sent (entity.HistoryFilter, as      *)
(* VisibilityFor and the sync services load it).                           *)
THEOREM ReadersSeeTheirHistoryHolds == Spec => []ReadersSeeTheirHistory
<1>1. Inv /\ MembersInv /\ ReadsInv => ReadersSeeTheirHistory
  <2> SUFFICES ASSUME Inv, MembersInv, ReadsInv, NEW u \in Users, NEW e \in events \ {Root},
                      NEW last \in events \ {Root}, e.pos <= last.pos
               PROVE  /\ (EverEntitled(u, last.pos, lastStream)
                          /\ Visible(u, last.pos, lastStream, e)) <=> Entitled(u, e)
                      /\ MembershipAt(u, lastStream, e) =
                           IF StateAfter(e).member[u] = "none" THEN "leave"
                           ELSE StateAfter(e).member[u]
    BY DEF ReadersSeeTheirHistory
  <2> DEFINE v == last.pos
             m == lastStream
             J == JoinedAtOrAfter(u, m, e)
  <2>1. v \in Int
    BY DEF Inv, HistoryInv
  <2>2. /\ MembershipBefore(u, m, e) = e.before.member[u]
        /\ VisibilityBefore(v, e) = e.before.visibility
        /\ MembershipChanges(u, m) = AllAbout(u)
    BY <2>1, FilterFinds
  <2>3. /\ StateAfter(e).member[u] = IF e \in AllAbout(u) THEN e.content.membership
                                     ELSE e.before.member[u]
        /\ StateAfter(e).visibility = IF e \in AllSettings THEN e.content.visibility
                                      ELSE e.before.visibility
        /\ ~(e \in AllAbout(u) /\ e \in AllSettings)
    BY AfterIs DEF AllAbout, AllSettings
  <2>4. Visible(u, v, m, e) <=>
          \E s \in {e.before, StateAfter(e)} : Allows(u, m, s.visibility, s.member[u], e)
    BY <2>2, <2>3 DEF Visible, AllAbout, AllSettings
  <2>5. Entitled(u, e) <=>
          \E s \in {e.before, StateAfter(e)} : Allows(u, m, s.visibility, s.member[u], e)
    <3>1. /\ J => JoinedSince(u, e)
          /\ JoinedSince(u, e) => J \/ e.before.member[u] = "join"
      BY JoinedSinceIs
    <3>2. Entitled(u, e) <=> \E s \in {e.before, StateAfter(e)} :
            \/ s.visibility = "world_readable" \/ s.member[u] = "join"
            \/ s.visibility = "shared" /\ JoinedSince(u, e)
            \/ s.visibility = "invited" /\ s.member[u] = "invite"
      BY DEF Entitled, JoinedSince
    <3> QED BY <3>1, <3>2 DEF Allows
  <2>6. Entitled(u, e) => EverEntitled(u, v, m)
    BY <2>1, EntitledFindTheRoom
  <2>7. MembershipAt(u, m, e) = IF StateAfter(e).member[u] = "none" THEN "leave"
                                ELSE StateAfter(e).member[u]
    <3> DEFINE A == {f \in MembershipChanges(u, m) : ~Before(e, f)}
               value == IF A = {} THEN Start.member[u] ELSE Newest(A).content.membership
    <3>1. /\ \A f \in events : f.pos \in Nat /\ f.depth \in Nat
          /\ \A f, g \in events : (f.pos < g.pos <=> f.depth < g.depth)
                                  /\ (f.pos = g.pos => f = g)
      BY DEF Inv, HistoryInv, ReadsInv
    <3>2. \A f, g \in events : Before(f, g) <=> f.pos < g.pos
      BY <3>1 DEF Before
    <3>3. A \subseteq events /\ \A f \in A : f.pos <= e.pos
      BY <2>2, <3>1, <3>2 DEF AllAbout
    <3>4. CASE e \in AllAbout(u)
      <4>1. e \in A
        BY <2>2, <3>1, <3>2, <3>4
      <4>2. \A f \in A : (\A k \in A : ~Before(f, k)) <=> f = e
        BY <3>1, <3>2, <3>3, <4>1
      <4>3. Newest(A) = e
        BY <4>1, <4>2 DEF Newest
      <4> QED BY <2>3, <3>4, <4>1, <4>3 DEF MembershipAt
    <3>5. CASE e \notin AllAbout(u)
      <4>1. A = {f \in MembershipChanges(u, m) : Before(f, e)}
        BY <2>2, <3>1, <3>2, <3>5 DEF AllAbout
      <4>2. value = MembershipBefore(u, m, e)
        BY <4>1 DEF MembershipBefore
      <4> QED BY <2>2, <2>3, <3>5, <4>2 DEF MembershipAt
    <3> QED BY <3>4, <3>5
  <2> QED BY <2>4, <2>5, <2>6, <2>7
<1> QED
  BY <1>1, ReadsHold, PTL
=============================================================================
