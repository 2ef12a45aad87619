---------------------------- MODULE SessionsProofs ----------------------------
(***************************************************************************)
(* Proofs about Sessions, for any number of handlers, any requests and any *)
(* bounds: a refresh token is exchanged once (SpentOnce), what a login or  *)
(* a deletion found of older grants is at an end when it is done           *)
(* (TheOldEnds), and no refresh asked for later brings it back             *)
(* (NothingComesBack).                                                     *)
(*                                                                         *)
(* The argument goes by handler.  What a transaction has changed is locked *)
(* against the others, so no two of them spend the same token; and at each *)
(* of its statements, what was there when the request was asked for and    *)
(* belongs to a device the transaction has dealt with is revoked already,  *)
(* by somebody's commit, or will be by its own.                            *)
(***************************************************************************)
EXTENDS Sessions, FiniteSetTheorems, TLAPS

(* What holds of a handler in a phase.                                     *)
HandlerInv(phase, s) ==
  /\ DOMAIN s = DOMAIN NoSession
  /\ s.had \subseteq Ids
  /\ s.spend \cap spent = {}
  /\ s.op = "refresh" => /\ phase = "mark" \/ s.presented.id \in s.spend
                         /\ s.presented.id \notin s.dead
  /\ s.op # "refresh" => s.presented.id = 0
  /\ s.had \cap Of(s.covered) \subseteq ended \cup s.end \cup (IF phase = "end" THEN s.found ELSE {})
  /\ s.op # "refresh" =>
       s.had \cap Of(IF phase \in {"end", "refresh"} THEN s.covered \ s.scope ELSE s.covered)
         \subseteq withdrawn \cup s.withdraw \cup (IF phase = "withdraw" THEN s.found ELSE {})

Inv ==
  /\ DOMAIN sess = Handlers /\ pc \in [Handlers -> Phases]
  /\ IsFiniteSet(grants) /\ Ids = 1..Cardinality(grants)
  /\ \A g \in grants : g.from # 0 => g.from \in spent
  /\ SpentOnce
  /\ TheOldEnds
  /\ \A h \in Handlers : HandlerInv(pc[h], sess[h])
  /\ \A h \in Handlers : \A o \in Others(h) : sess[h].spend \cap sess[o].spend = {}

LEMMA OfFacts == /\ Of({}) = {}
                 /\ \A A, B : Of(A) \subseteq Of(A \ B) \cup Of(B)
                 /\ \A A, B : Of((A \cup B) \ B) \subseteq Of(A)
                 /\ \A A, B : Of(A \cup B) \subseteq Of(A) \cup Of(B)
BY DEF Of

LEMMA FreshSession == \A phase : HandlerInv(phase, NoSession)
BY OfFacts DEF HandlerInv, NoSession, NoGrant

LEMMA InvInit == Init => Inv
<1> SUFFICES ASSUME Init PROVE Inv
  OBVIOUS
<1>1. IsFiniteSet({}) /\ Cardinality({}) = 0
  BY FS_EmptySet
<1>2. Ids = {} /\ 1..0 = {}
  BY DEF Init, Ids
<1>3. \A h \in Handlers : HandlerInv(pc[h], sess[h])
  BY FreshSession DEF Init
<1>4. \A h \in Handlers : sess[h].spend = {}
  BY DEF Init, NoSession
<1>5. SpentOnce /\ TheOldEnds
  BY DEF Init, SpentOnce, TheOldEnds
<1> QED
  BY <1>1, <1>2, <1>3, <1>4, <1>5 DEF Init, Inv, Phases, Others

-----------------------------------------------------------------------------
(* A step of one handler that changes nothing committed keeps the          *)
(* invariant if it keeps the handler's part of it.                         *)
LEMMA LocalStep ==
  ASSUME Inv, NEW h \in Handlers, NEW phase \in Phases, NEW s,
         Goto(h, phase), sess' = [sess EXCEPT ![h] = s], UNCHANGED <<store, history>>,
         HandlerInv(phase, s),
         \A o \in Others(h) : s.spend \cap sess[o].spend = {}
  PROVE  Inv'
<1> USE DEF store, history
<1>1. /\ DOMAIN sess' = Handlers /\ pc' \in [Handlers -> Phases]
      /\ pc'[h] = phase /\ sess'[h] = s
      /\ \A o \in Others(h) : pc'[o] = pc[o] /\ sess'[o] = sess[o]
  BY DEF Inv, Goto, Others
<1>2. Ids' = Ids /\ SpentOnce' = SpentOnce /\ TheOldEnds' = TheOldEnds
  BY DEF Ids, SpentOnce, TheOldEnds
<1>3. \A A : Of(A)' = Of(A)
  BY DEF Of
<1>4. ASSUME NEW o \in Handlers PROVE HandlerInv(pc[o], sess[o])'
  <2>1. HandlerInv(pc'[o], sess'[o])
    BY <1>1 DEF Inv, Others
  <2> QED BY <1>2, <1>3, <2>1 DEF HandlerInv, Of
<1>5. \A o \in Handlers : \A p \in Others(o)' : sess'[o].spend \cap sess'[p].spend = {}
  BY <1>1 DEF Inv, Others
<1> QED
  BY <1>1, <1>2, <1>4, <1>5 DEF Inv

LEMMA RefuseStep ==
  ASSUME Inv, NEW h \in Handlers, Goto(h, "idle"), sess' = [sess EXCEPT ![h] = NoSession],
         UNCHANGED <<store, history>>
  PROVE  Inv'
<1>1. NoSession.spend = {} /\ "idle" \in Phases
  BY DEF NoSession, Phases
<1> QED
  BY <1>1, FreshSession, LocalStep

(* Continue, with what the statement changes of the session.               *)
LEMMA ContinueStep ==
  ASSUME Inv, NEW h \in Handlers, NEW phase \in Phases, NEW s,
         Continue(h, phase, s), HandlerInv(phase, s),
         s.spend = sess[h].spend
  PROVE  Inv'
<1>1. \A o \in Others(h) : s.spend \cap sess[o].spend = {}
  BY DEF Inv
<1> QED
  BY <1>1, LocalStep DEF Continue
-----------------------------------------------------------------------------
(* A request starts with everything committed so far to account for, and   *)
(* nothing accounted for.                                                  *)
LEMMA BeginStep ==
  ASSUME Inv, NEW h \in Handlers, NEW phase \in Phases, NEW s,
         DOMAIN s = DOMAIN NoSession, s.covered = {}, s.spend = {},
         s.op = "refresh" => phase = "mark" /\ s.presented.id \notin closed,
         s.op # "refresh" => s.presented.id = 0,
         s.had = Ids, s.dead = closed,
         Goto(h, phase), sess' = [sess EXCEPT ![h] = s], UNCHANGED <<store, history>>
  PROVE  Inv'
<1>1. Of(s.covered) = {} /\ Of(s.covered \ s.scope) = {}
  BY DEF Of
<1>2. HandlerInv(phase, s)
  BY <1>1 DEF HandlerInv
<1> QED
  BY <1>2, LocalStep

LEMMA AskStep == ASSUME Inv, NEW h \in Handlers, Ask(h) PROVE Inv'
<1>1. PICK r \in Requests :
        /\ Begin(h, [NoSession EXCEPT !.op = r.op, !.named = r.named,
                   !.scope = IF r.op \in {"all", "deactivate"} THEN Devices ELSE r.devices])
        /\ Goto(h, CASE r.op \in {"login", "deactivate", "password"} -> "user"
                     [] r.op = "all"                                 -> "access"
                     [] OTHER                                        -> "list")
  BY DEF Ask
<1> DEFINE phase == CASE r.op \in {"login", "deactivate", "password"} -> "user"
                      [] r.op = "all"                                 -> "access"
                      [] OTHER                                        -> "list"
           base  == [NoSession EXCEPT !.op = r.op, !.named = r.named,
                      !.scope = IF r.op \in {"all", "deactivate"} THEN Devices ELSE r.devices]
           s     == [base EXCEPT !.had = Ids, !.dead = closed]
<1>2. r.op # "refresh"
  BY SessionsAssumption
<1>3. phase \in Phases
  BY DEF Phases
<1>4. /\ DOMAIN s = DOMAIN NoSession /\ s.covered = {} /\ s.spend = {}
      /\ s.op = r.op /\ s.presented.id = 0 /\ s.had = Ids /\ s.dead = closed
  BY DEF NoSession, NoGrant
<1>5. Goto(h, phase) /\ sess' = [sess EXCEPT ![h] = s] /\ UNCHANGED <<store, history>>
  BY <1>1 DEF Begin
<1> HIDE DEF phase, s
<1> QED
  BY <1>2, <1>3, <1>4, <1>5, BeginStep

LEMMA RefreshStep == ASSUME Inv, NEW h \in Handlers, Refresh(h) PROVE Inv'
<1>1. PICK g \in grants : /\ Usable(g)
                          /\ Begin(h, [NoSession EXCEPT !.op = "refresh", !.presented = g])
                          /\ Goto(h, "mark")
  BY DEF Refresh
<1> DEFINE base == [NoSession EXCEPT !.op = "refresh", !.presented = g]
           s    == [base EXCEPT !.had = Ids, !.dead = closed]
<1>2. g.id \notin closed
  BY <1>1 DEF Usable, Inv, TheOldEnds
<1>3. /\ DOMAIN s = DOMAIN NoSession /\ s.covered = {} /\ s.spend = {}
      /\ s.op = "refresh" /\ s.presented = g /\ s.had = Ids /\ s.dead = closed
  BY DEF NoSession
<1>4. sess' = [sess EXCEPT ![h] = s] /\ UNCHANGED <<store, history>> /\ "mark" \in Phases
  BY <1>1 DEF Begin, Phases
<1> HIDE DEF s
<1> QED
  BY <1>1, <1>2, <1>3, <1>4, BeginStep

-----------------------------------------------------------------------------
(* The statements of a transaction.                                        *)

(* A statement that takes rows without looking for grants.                 *)
LEMMA QuietStep ==
  ASSUME Inv, NEW h \in Handlers, NEW phase \in Phases, NEW s,
         Continue(h, phase, s),
         pc[h] \in {"user", "upsert", "list", "next", "drop"},
         phase \in {"upsert", "list", "access", "next", "commit"},
         DOMAIN s = DOMAIN NoSession,
         s.spend = sess[h].spend, s.op = sess[h].op, s.presented = sess[h].presented,
         s.had = sess[h].had, s.dead = sess[h].dead, s.covered = sess[h].covered,
         s.end = sess[h].end, s.withdraw = sess[h].withdraw
  PROVE  Inv'
<1>1. HandlerInv(pc[h], sess[h])
  BY DEF Inv
<1>2. HandlerInv(phase, s)
  BY <1>1 DEF HandlerInv
<1> QED
  BY <1>2, ContinueStep

LEMMA StatementSteps ==
  ASSUME Inv, NEW h \in Handlers,
         User(h) \/ Upsert(h) \/ List(h) \/ NextDevice(h) \/ Drop(h)
  PROVE  Inv'
<1>1. DOMAIN sess[h] = DOMAIN NoSession
  BY DEF Inv, HandlerInv
<1>2. CASE User(h)
  <2>1. CASE sess[h].op # "password" /\ ~active /\ Refuse(h)
    BY <2>1, RefuseStep DEF Refuse
  <2>2. CASE Continue(h, "upsert", sess[h])
    BY <1>1, <1>2, <2>2, QuietStep DEF User, Phases
  <2>3. CASE \E phase \in {"access", "list"} : Continue(h, phase, [sess[h] EXCEPT !.user = TRUE])
    BY <1>1, <1>2, <2>3, QuietStep DEF User, Phases, NoSession
  <2> QED BY <1>2, <2>1, <2>2, <2>3 DEF User
<1>3. CASE Upsert(h)
  BY <1>1, <1>3, QuietStep DEF Upsert, Phases, NoSession
<1>4. CASE List(h)
  BY <1>1, <1>4, QuietStep DEF List, Phases, NoSession
<1>5. CASE NextDevice(h)
  <2>1. CASE sess[h].rest = {}
    BY <1>1, <1>5, <2>1, QuietStep DEF NextDevice, Phases
  <2>2. CASE sess[h].rest # {}
    <3>1. PICK d \in sess[h].rest :
            Continue(h, "access", [sess[h] EXCEPT !.scope = {d}, !.rest = @ \ {d}])
      BY <1>5, <2>2 DEF NextDevice
    <3> QED BY <1>1, <1>5, <3>1, QuietStep DEF NextDevice, Phases, NoSession
  <2> QED BY <2>1, <2>2
<1>6. CASE Drop(h)
  <2>1. PICK phase \in {"commit", "next"} :
          Continue(h, phase, [sess[h] EXCEPT !.drop = @ \cup (sess[h].scope \cap devices)])
    BY <1>6 DEF Drop
  <2> QED BY <1>1, <1>6, <2>1, QuietStep DEF Drop, Phases, NoSession
<1> QED
  BY <1>2, <1>3, <1>4, <1>5, <1>6

(* The token is marked under its lock: nobody else has marked it, and it   *)
(* was not marked before.                                                  *)
LEMMA MarkStep == ASSUME Inv, NEW h \in Handlers, Mark(h) PROVE Inv'
<1>1. CASE sess[h].presented.id \in spent
  BY <1>1, RefuseStep DEF Mark, Refuse
<1>2. CASE sess[h].presented.id \notin spent
  <2> DEFINE s == [sess[h] EXCEPT !.spend = {sess[h].presented.id},
                                  !.scope = {sess[h].presented.device}]
  <2>1. pc[h] = "mark" /\ Continue(h, "access", s) /\ HandlerInv(pc[h], sess[h])
    BY <1>2 DEF Mark, Inv
  <2>2. /\ DOMAIN s = DOMAIN sess[h] /\ s.spend = {sess[h].presented.id}
        /\ s.op = sess[h].op /\ s.presented = sess[h].presented
        /\ s.had = sess[h].had /\ s.dead = sess[h].dead /\ s.covered = sess[h].covered
        /\ s.end = sess[h].end /\ s.withdraw = sess[h].withdraw
    BY <2>1 DEF HandlerInv, NoSession
  <2> HIDE DEF s
  <2>3. HandlerInv("access", s)
    BY <1>2, <2>1, <2>2 DEF HandlerInv
  <2>4. \A o \in Others(h) : sess[h].presented.id \notin sess[o].spend
    BY <2>1 DEF Mark, Free, Blockers, ChangedBy
  <2>5. \A o \in Others(h) : s.spend \cap sess[o].spend = {}
    BY <2>2, <2>4
  <2> QED BY <2>1, <2>3, <2>5, LocalStep DEF Continue, Phases
<1> QED
  BY <1>1, <1>2

(* The two revocations: what is found is everything of the device that is  *)
(* not revoked yet.                                                        *)
LEMMA FindAccessStep == ASSUME Inv, NEW h \in Handlers, FindAccess(h) PROVE Inv'
<1> DEFINE s == [sess[h] EXCEPT !.found = Of(sess[h].scope) \ ended,
                                !.covered = @ \cup sess[h].scope]
<1>1. pc[h] = "access" /\ Continue(h, "end", s) /\ HandlerInv(pc[h], sess[h])
  BY DEF FindAccess, Inv
<1>2. /\ DOMAIN s = DOMAIN sess[h] /\ s.spend = sess[h].spend
      /\ s.op = sess[h].op /\ s.presented = sess[h].presented
      /\ s.had = sess[h].had /\ s.dead = sess[h].dead
      /\ s.covered = sess[h].covered \cup sess[h].scope /\ s.scope = sess[h].scope
      /\ s.found = Of(sess[h].scope) \ ended
      /\ s.end = sess[h].end /\ s.withdraw = sess[h].withdraw
  BY <1>1 DEF HandlerInv, NoSession
<1> HIDE DEF s
<1>3. Of(s.covered) \subseteq Of(sess[h].covered) \cup Of(sess[h].scope)
  BY <1>2, OfFacts
<1>4. Of(s.covered \ s.scope) \subseteq Of(sess[h].covered)
  BY <1>2, OfFacts
<1>5. s.had \cap Of(s.covered) \subseteq ended \cup s.end \cup s.found
  BY <1>1, <1>2, <1>3 DEF HandlerInv
<1>6. s.op # "refresh" => s.had \cap Of(s.covered \ s.scope) \subseteq withdrawn \cup s.withdraw
  BY <1>1, <1>2, <1>4 DEF HandlerInv
<1>7. HandlerInv("end", s)
  BY <1>1, <1>2, <1>5, <1>6 DEF HandlerInv
<1> QED
  BY <1>1, <1>2, <1>7, ContinueStep DEF Phases

LEMMA EndAccessStep == ASSUME Inv, NEW h \in Handlers, EndAccess(h) PROVE Inv'
<1> DEFINE s == [sess[h] EXCEPT !.end = @ \cup (sess[h].found \ ended), !.found = {}]
           phase == IF sess[h].op = "refresh" THEN "commit" ELSE "refresh"
<1>1. pc[h] = "end" /\ Continue(h, phase, s) /\ HandlerInv(pc[h], sess[h])
  BY DEF EndAccess, Inv
<1>2. /\ DOMAIN s = DOMAIN sess[h] /\ s.spend = sess[h].spend
      /\ s.op = sess[h].op /\ s.presented = sess[h].presented
      /\ s.had = sess[h].had /\ s.dead = sess[h].dead
      /\ s.covered = sess[h].covered /\ s.scope = sess[h].scope
      /\ s.end = sess[h].end \cup (sess[h].found \ ended) /\ s.withdraw = sess[h].withdraw
  BY <1>1 DEF HandlerInv, NoSession
<1>3. phase \in Phases /\ phase # "end" /\ phase # "withdraw"
      /\ (sess[h].op # "refresh" => phase = "refresh")
  BY DEF Phases
<1> HIDE DEF s, phase
<1>4. HandlerInv(phase, s)
  BY <1>1, <1>2, <1>3 DEF HandlerInv
<1> QED
  BY <1>1, <1>2, <1>3, <1>4, ContinueStep

LEMMA FindRefreshStep == ASSUME Inv, NEW h \in Handlers, FindRefresh(h) PROVE Inv'
<1> DEFINE s == [sess[h] EXCEPT !.found = Of(sess[h].scope) \ withdrawn]
<1>1. pc[h] = "refresh" /\ Continue(h, "withdraw", s) /\ HandlerInv(pc[h], sess[h])
  BY DEF FindRefresh, Inv
<1>2. /\ DOMAIN s = DOMAIN sess[h] /\ s.spend = sess[h].spend
      /\ s.op = sess[h].op /\ s.presented = sess[h].presented
      /\ s.had = sess[h].had /\ s.dead = sess[h].dead
      /\ s.covered = sess[h].covered /\ s.scope = sess[h].scope
      /\ s.found = Of(sess[h].scope) \ withdrawn
      /\ s.end = sess[h].end /\ s.withdraw = sess[h].withdraw
  BY <1>1 DEF HandlerInv, NoSession
<1> HIDE DEF s
<1>3. Of(s.covered) \subseteq Of(s.covered \ s.scope) \cup Of(s.scope)
  BY OfFacts
<1>4. s.op # "refresh" => s.had \cap Of(s.covered) \subseteq withdrawn \cup s.withdraw \cup s.found
  BY <1>1, <1>2, <1>3 DEF HandlerInv
<1>5. HandlerInv("withdraw", s)
  BY <1>1, <1>2, <1>4 DEF HandlerInv
<1> QED
  BY <1>1, <1>2, <1>5, ContinueStep DEF Phases

LEMMA WithdrawStep == ASSUME Inv, NEW h \in Handlers, Withdraw(h) PROVE Inv'
<1> DEFINE s == [sess[h] EXCEPT !.withdraw = @ \cup (sess[h].found \ withdrawn), !.found = {}]
           phase == IF sess[h].op = "login" THEN "commit" ELSE "drop"
<1>1. pc[h] = "withdraw" /\ Continue(h, phase, s) /\ HandlerInv(pc[h], sess[h])
  BY DEF Withdraw, Inv
<1>2. /\ DOMAIN s = DOMAIN sess[h] /\ s.spend = sess[h].spend
      /\ s.op = sess[h].op /\ s.presented = sess[h].presented
      /\ s.had = sess[h].had /\ s.dead = sess[h].dead
      /\ s.covered = sess[h].covered /\ s.scope = sess[h].scope
      /\ s.end = sess[h].end /\ s.withdraw = sess[h].withdraw \cup (sess[h].found \ withdrawn)
  BY <1>1 DEF HandlerInv, NoSession
<1>3. phase \in {"commit", "drop"}
  OBVIOUS
<1> HIDE DEF s, phase
<1>4. HandlerInv(phase, s)
  BY <1>1, <1>2, <1>3 DEF HandlerInv
<1> QED
  BY <1>1, <1>2, <1>3, <1>4, ContinueStep DEF Phases

-----------------------------------------------------------------------------
(* A commit: what it mints is new to everybody, and what it has changed is *)
(* added to what is committed.                                             *)
LEMMA CommitStep == ASSUME Inv, NEW h \in Handlers, Commit(h) PROVE Inv'
<1> DEFINE s == sess[h]
           g == Minted(h)
           OfNew(A) == {k.id : k \in {x \in grants' : x.device \in A}}
<1>1. /\ pc[h] = "commit" /\ HandlerInv("commit", s)
      /\ grants' = IF Hands(h) THEN grants \cup {g} ELSE grants
      /\ ended' = ended \cup s.end /\ withdrawn' = withdrawn \cup s.withdraw
      /\ spent' = spent \cup s.spend
      /\ replaced' \subseteq replaced \cup (s.had \cap Of(s.covered))
      /\ closed' \subseteq closed \cup (IF s.op # "refresh" THEN s.had \cap Of(s.covered) ELSE {})
  BY DEF Commit, Inv
<1>2. /\ DOMAIN sess' = Handlers /\ pc' \in [Handlers -> Phases]
      /\ pc'[h] = "idle" /\ sess'[h] = NoSession
      /\ \A o \in Others(h) : pc'[o] = pc[o] /\ sess'[o] = sess[o]
  BY DEF Commit, Inv, Goto, Others, Phases
<1>3. g.id = Cardinality(grants) + 1 /\ g.from = s.presented.id
  BY DEF Minted
<1>4. Cardinality(grants) \in Nat /\ g.id \notin Ids /\ g \notin grants
  <2>1. Cardinality(grants) \in Nat
    BY FS_CardinalityType DEF Inv
  <2>2. g.id \notin Ids
    BY <1>3, <2>1 DEF Inv
  <2> QED BY <2>1, <2>2 DEF Ids
<1>5. IsFiniteSet(grants)' /\ Ids' = 1..Cardinality(grants')
  <2>1. CASE ~Hands(h)
    BY <1>1, <2>1 DEF Inv, Ids
  <2>2. CASE Hands(h)
    <3>1. IsFiniteSet(grants') /\ Cardinality(grants') = Cardinality(grants) + 1
      BY <1>1, <1>4, <2>2, FS_AddElement DEF Inv
    <3>2. Ids' = Ids \cup {Cardinality(grants) + 1}
      BY <1>1, <1>3, <2>2 DEF Ids
    <3> QED BY <1>4, <3>1, <3>2 DEF Inv
  <2> QED BY <2>1, <2>2
<1>6. Ids \subseteq Ids'
  BY <1>1 DEF Ids
<1>7. \A A : OfNew(A) \subseteq Of(A) \cup {g.id}
  BY <1>1 DEF Of
<1>8. \A k \in grants' : k.from # 0 => k.from \in spent'
  BY <1>1, <1>3 DEF Inv, HandlerInv
<1>9. SpentOnce'
  <2>1. Hands(h) /\ g.from # 0 => \A k \in grants : k.from # g.from
    BY <1>1, <1>3 DEF Inv, HandlerInv
  <2> QED BY <1>1, <2>1 DEF Inv, SpentOnce
<1>10. TheOldEnds'
  <2>1. s.had \cap Of(s.covered) \subseteq ended \cup s.end
    BY <1>1 DEF HandlerInv
  <2>2. s.op # "refresh" => s.had \cap Of(s.covered) \subseteq withdrawn \cup s.withdraw
    BY <1>1 DEF HandlerInv
  <2> QED BY <1>1, <2>1, <2>2 DEF Inv, TheOldEnds
<1>11. \A o \in Handlers : HandlerInv(pc[o], sess[o])'
  <2>1. HandlerInv(pc[h], sess[h])'
    <3>1. Of(NoSession.covered)' = {} /\ Of(NoSession.covered \ NoSession.scope)' = {}
      BY DEF Of, NoSession
    <3>2. NoSession.spend = {} /\ NoSession.had = {} /\ NoSession.op = "none"
          /\ NoSession.presented.id = 0
      BY DEF NoSession, NoGrant
    <3> QED BY <1>2, <3>1, <3>2 DEF HandlerInv
  <2>2. ASSUME NEW o \in Others(h) PROVE HandlerInv(pc[o], sess[o])'
    <3> DEFINE t == sess[o]
    <3>1. HandlerInv(pc[o], t) /\ s.spend \cap t.spend = {}
      BY DEF Inv, Others
    <3>2. t.spend \cap spent' = {}
      BY <1>1, <3>1 DEF HandlerInv
    <3>3. g.id \notin t.had /\ t.had \subseteq Ids'
      BY <1>4, <1>6, <3>1 DEF HandlerInv
    <3>4. \A A : t.had \cap OfNew(A) \subseteq t.had \cap Of(A)
      BY <1>7, <3>3
    <3>5. ended \subseteq ended' /\ withdrawn \subseteq withdrawn'
      BY <1>1
    <3>6. t.had \cap OfNew(t.covered) \subseteq
            ended' \cup t.end \cup (IF pc[o] = "end" THEN t.found ELSE {})
      BY <3>1, <3>4, <3>5 DEF HandlerInv
    <3>7. t.op # "refresh" =>
            t.had \cap OfNew(IF pc[o] \in {"end", "refresh"} THEN t.covered \ t.scope ELSE t.covered)
              \subseteq withdrawn' \cup t.withdraw \cup (IF pc[o] = "withdraw" THEN t.found ELSE {})
      BY <3>1, <3>4, <3>5 DEF HandlerInv
    <3>8. pc'[o] = pc[o] /\ sess'[o] = sess[o]
      BY <1>2
    <3> QED BY <3>1, <3>2, <3>3, <3>6, <3>7, <3>8 DEF HandlerInv, Of
  <2> QED BY <2>1, <2>2 DEF Others
<1>12. \A o \in Handlers : \A p \in Others(o)' : sess'[o].spend \cap sess'[p].spend = {}
  <2>1. NoSession.spend = {}
    BY DEF NoSession
  <2> QED BY <1>2, <2>1 DEF Inv, Others
<1> QED
  BY <1>2, <1>5, <1>8, <1>9, <1>10, <1>11, <1>12 DEF Inv

LEMMA InvNext == Inv /\ [Next]_vars => Inv'
<1> SUFFICES ASSUME Inv, [Next]_vars PROVE Inv'
  OBVIOUS
<1>1. CASE UNCHANGED vars
  <2>1. SpentOnce' = SpentOnce /\ TheOldEnds' = TheOldEnds /\ Ids' = Ids
    BY <1>1 DEF vars, store, history, SpentOnce, TheOldEnds, Ids
  <2>2. ASSUME NEW h \in Handlers PROVE HandlerInv(pc[h], sess[h])'
    <3>1. HandlerInv(pc[h], sess[h])
      BY DEF Inv
    <3>2. /\ grants' = grants /\ ended' = ended /\ withdrawn' = withdrawn /\ spent' = spent
          /\ pc' = pc /\ sess' = sess
      BY <1>1 DEF vars, store
    <3> QED BY <2>1, <3>1, <3>2 DEF HandlerInv, Of
  <2> QED BY <1>1, <2>1, <2>2 DEF vars, store, history, Inv, Others
<1>2. ASSUME NEW h \in Handlers, Ask(h) \/ Refresh(h) \/ Step(h) \/ Abort(h) PROVE Inv'
  <2>1. CASE Ask(h)
    BY <2>1, AskStep
  <2>2. CASE Refresh(h)
    BY <2>2, RefreshStep
  <2>3. CASE User(h) \/ Upsert(h) \/ List(h) \/ NextDevice(h) \/ Drop(h)
    BY <2>3, StatementSteps
  <2>4. CASE Mark(h)
    BY <2>4, MarkStep
  <2>5. CASE FindAccess(h)
    BY <2>5, FindAccessStep
  <2>6. CASE EndAccess(h)
    BY <2>6, EndAccessStep
  <2>7. CASE FindRefresh(h)
    BY <2>7, FindRefreshStep
  <2>8. CASE Withdraw(h)
    BY <2>8, WithdrawStep
  <2>9. CASE Commit(h)
    BY <2>9, CommitStep
  <2>10. CASE BreakDeadlock(h)
    BY <2>10, RefuseStep DEF BreakDeadlock, Refuse
  <2>11. CASE Abort(h)
    BY <2>11, RefuseStep DEF Abort
  <2> QED
    BY <1>2, <2>1, <2>2, <2>3, <2>4, <2>5, <2>6, <2>7, <2>8, <2>9, <2>10, <2>11 DEF Step
<1> QED
  BY <1>1, <1>2 DEF Next

LEMMA InvHolds == Spec => []Inv
BY InvInit, InvNext, PTL DEF Spec

-----------------------------------------------------------------------------
(* Types.  A login and a refresh have their device from when they need it, *)
(* and go through no list of devices: what a commit mints has a device.    *)

Typed(phase, s) ==
  /\ s.scope \subseteq Devices /\ s.rest \subseteq Devices
  /\ s.hold \subseteq Devices /\ s.drop \subseteq Devices
  /\ s.found \subseteq Ids /\ s.end \subseteq Ids /\ s.withdraw \subseteq Ids /\ s.spend \subseteq Ids
  /\ phase = "mark" => s.op = "refresh"
  /\ s.op = "login" => s.scope # {} /\ phase \notin {"list", "next", "drop"}
  /\ s.op = "refresh" => /\ s.presented \in grants
                         /\ phase \in {"mark", "access", "end", "commit"}
                         /\ phase = "mark" \/ s.scope = {s.presented.device}

TypeInv == TypeOK /\ \A h \in Handlers : Typed(pc[h], sess[h])

LEMMA NoSessionTyped == Typed("idle", NoSession)
BY DEF Typed, NoSession

LEMMA TypeInit == Init => TypeInv
<1> SUFFICES ASSUME Init PROVE TypeInv
  OBVIOUS
<1>1. Cardinality({}) = 0 /\ 1..0 = {}
  BY FS_EmptySet
<1>2. TypeOK
  BY <1>1, SessionsAssumption DEF Init, TypeOK, Ids, Phases
<1> QED
  BY <1>2, NoSessionTyped DEF Init, TypeInv

(* A step that commits nothing.                                            *)
LEMMA TypeLocal ==
  ASSUME Inv, TypeInv, NEW h \in Handlers, NEW phase \in Phases, NEW s,
         Goto(h, phase), sess' = [sess EXCEPT ![h] = s], UNCHANGED <<store, history>>,
         asked' \in 0..MaxRequests, faults' \in 0..MaxFaults,
         DOMAIN s = DOMAIN NoSession, Typed(phase, s)
  PROVE  TypeInv'
<1> USE DEF store, history
<1>1. /\ pc' \in [Handlers -> Phases]
      /\ \A o \in Handlers : /\ pc'[o] = IF o = h THEN phase ELSE pc[o]
                             /\ sess'[o] = IF o = h THEN s ELSE sess[o]
  BY DEF Inv, Goto
<1>2. Ids' = Ids
  BY DEF Ids
<1>3. TypeOK'
  BY <1>1, <1>2 DEF TypeInv, TypeOK
<1>4. \A o \in Handlers : Typed(pc'[o], sess'[o])
  BY <1>1 DEF TypeInv
<1> QED
  BY <1>2, <1>3, <1>4 DEF TypeInv, Typed

LEMMA TypeRefuse ==
  ASSUME Inv, TypeInv, NEW h \in Handlers, Goto(h, "idle"),
         sess' = [sess EXCEPT ![h] = NoSession], UNCHANGED <<store, history>>,
         asked' = asked, faults' = faults \/ (faults < MaxFaults /\ faults' = faults + 1)
  PROVE  TypeInv'
<1>1. asked' \in 0..MaxRequests /\ faults' \in 0..MaxFaults
  BY SessionsAssumption DEF TypeInv, TypeOK
<1> QED
  BY <1>1, NoSessionTyped, TypeLocal DEF Phases

LEMMA TypeContinue ==
  ASSUME Inv, TypeInv, NEW h \in Handlers, NEW phase \in Phases, NEW s,
         Continue(h, phase, s), DOMAIN s = DOMAIN NoSession, Typed(phase, s)
  PROVE  TypeInv'
<1>1. asked' \in 0..MaxRequests /\ faults' \in 0..MaxFaults
  BY DEF Continue, TypeInv, TypeOK
<1> QED
  BY <1>1, TypeLocal DEF Continue

LEMMA TypeBegin ==
  ASSUME Inv, TypeInv, NEW h \in Handlers, Ask(h) \/ Refresh(h)
  PROVE  TypeInv'
<1>1. asked' \in 0..MaxRequests /\ faults' \in 0..MaxFaults /\ UNCHANGED <<store, history>>
  <2>1. \/ \E s : Begin(h, s)
        \/ \E r \in Requests : \E s : Begin(h, s)
    BY DEF Ask, Refresh
  <2>2. asked < MaxRequests /\ asked' = asked + 1 /\ faults' = faults /\ UNCHANGED <<store, history>>
    BY <2>1 DEF Begin
  <2>3. MaxRequests \in Nat /\ asked \in 0..MaxRequests /\ faults \in 0..MaxFaults
    BY SessionsAssumption DEF TypeInv, TypeOK
  <2> QED BY <2>2, <2>3
<1>2. CASE Ask(h)
  <2>1. PICK r \in Requests :
          /\ Begin(h, [NoSession EXCEPT !.op = r.op, !.named = r.named,
                   !.scope = IF r.op \in {"all", "deactivate"} THEN Devices ELSE r.devices])
          /\ Goto(h, CASE r.op \in {"login", "deactivate", "password"} -> "user"
                       [] r.op = "all"                                 -> "access"
                       [] OTHER                                        -> "list")
    BY <1>2 DEF Ask
  <2> DEFINE phase == CASE r.op \in {"login", "deactivate", "password"} -> "user"
                        [] r.op = "all"                                 -> "access"
                        [] OTHER                                        -> "list"
             base  == [NoSession EXCEPT !.op = r.op, !.named = r.named,
                        !.scope = IF r.op \in {"all", "deactivate"} THEN Devices ELSE r.devices]
             s     == [base EXCEPT !.had = Ids, !.dead = closed]
  <2>2. /\ r.op \in {"login", "delete", "all", "deactivate", "password"} /\ r.devices \subseteq Devices
        /\ r.op = "login" => r.devices # {}
    BY SessionsAssumption
  <2>3. /\ DOMAIN s = DOMAIN NoSession /\ s.op = r.op
        /\ s.scope = IF r.op \in {"all", "deactivate"} THEN Devices ELSE r.devices
        /\ s.rest = {} /\ s.hold = {} /\ s.drop = {} /\ s.found = {} /\ s.end = {}
        /\ s.withdraw = {} /\ s.spend = {}
    BY DEF NoSession
  <2>4. phase \in Phases /\ phase # "mark" /\ (r.op = "login" => phase = "user")
    BY DEF Phases
  <2>5. Goto(h, phase) /\ sess' = [sess EXCEPT ![h] = s]
    BY <2>1 DEF Begin
  <2> HIDE DEF phase, s
  <2>6. Typed(phase, s)
    BY <2>2, <2>3, <2>4 DEF Typed
  <2> QED BY <1>1, <2>3, <2>4, <2>5, <2>6, TypeLocal
<1>3. CASE Refresh(h)
  <2>1. PICK g \in grants : /\ Begin(h, [NoSession EXCEPT !.op = "refresh", !.presented = g])
                            /\ Goto(h, "mark")
    BY <1>3 DEF Refresh
  <2> DEFINE base == [NoSession EXCEPT !.op = "refresh", !.presented = g]
             s    == [base EXCEPT !.had = Ids, !.dead = closed]
  <2>2. /\ DOMAIN s = DOMAIN NoSession /\ s.op = "refresh" /\ s.presented = g
        /\ s.scope = {} /\ s.rest = {} /\ s.hold = {} /\ s.drop = {} /\ s.found = {} /\ s.end = {}
        /\ s.withdraw = {} /\ s.spend = {}
    BY DEF NoSession
  <2>3. sess' = [sess EXCEPT ![h] = s] /\ "mark" \in Phases
    BY <2>1 DEF Begin, Phases
  <2> HIDE DEF s
  <2>4. Typed("mark", s)
    BY <2>2 DEF Typed
  <2> QED BY <1>1, <2>1, <2>2, <2>3, <2>4, TypeLocal
<1> QED
  BY <1>2, <1>3

(* The statements up to the first revocation, and those of a list.         *)
LEMMA TypeStatements ==
  ASSUME Inv, TypeInv, NEW h \in Handlers,
         User(h) \/ Upsert(h) \/ Mark(h) \/ List(h) \/ NextDevice(h) \/ Drop(h)
  PROVE  TypeInv'
<1>1. DOMAIN sess[h] = DOMAIN NoSession /\ Typed(pc[h], sess[h]) /\ devices \subseteq Devices
  BY DEF Inv, HandlerInv, TypeInv, TypeOK
<1>2. ASSUME Refuse(h) PROVE TypeInv'
  BY <1>2, TypeRefuse DEF Refuse
<1>3. CASE User(h)
  <2>1. CASE Continue(h, "upsert", sess[h]) /\ sess[h].op = "login"
    BY <1>1, <1>3, <2>1, TypeContinue DEF User, Phases, Typed
  <2>2. CASE \E phase \in {"access", "list"} : /\ sess[h].op \in {"deactivate", "password"}
                                              /\ Continue(h, phase, [sess[h] EXCEPT !.user = TRUE])
    <3>1. PICK phase \in {"access", "list"} : /\ sess[h].op \in {"deactivate", "password"}
                                              /\ Continue(h, phase, [sess[h] EXCEPT !.user = TRUE])
      BY <2>2
    <3>2. Typed(phase, [sess[h] EXCEPT !.user = TRUE])
      BY <1>1, <3>1 DEF NoSession, Typed
    <3> QED BY <1>1, <3>1, <3>2, TypeContinue DEF Phases
  <2> QED BY <1>2, <1>3, <2>1, <2>2 DEF User
<1>4. CASE Upsert(h)
  <2> DEFINE s == [sess[h] EXCEPT !.hold = IF sess[h].named THEN @ \cup sess[h].scope
                                           ELSE @ \cup (sess[h].scope \ devices)]
  <2>1. Typed("access", s)
    BY <1>1, <1>4 DEF Upsert, NoSession, Typed
  <2> QED BY <1>1, <1>4, <2>1, TypeContinue DEF Upsert, Phases
<1>5. CASE Mark(h)
  <2>1. CASE sess[h].presented.id \notin spent
    <3> DEFINE s == [sess[h] EXCEPT !.spend = {sess[h].presented.id},
                                    !.scope = {sess[h].presented.device}]
    <3>1. sess[h].op = "refresh" /\ sess[h].presented \in grants
      BY <1>1, <1>5 DEF Mark, Typed
    <3>2. sess[h].presented.id \in Ids /\ sess[h].presented.device \in Devices
      BY <3>1 DEF Ids, TypeInv, TypeOK
    <3>3. Typed("access", s)
      BY <1>1, <3>1, <3>2 DEF NoSession, Typed
    <3> QED BY <1>1, <1>5, <2>1, <3>3, TypeContinue DEF Mark, Phases
  <2> QED BY <1>2, <1>5, <2>1 DEF Mark
<1>6. CASE List(h)
  <2> DEFINE s == [sess[h] EXCEPT !.scope = {}, !.rest = IF sess[h].op = "password"
                                    THEN devices \ sess[h].scope ELSE sess[h].scope]
  <2>1. Typed("next", s)
    BY <1>1, <1>6 DEF List, NoSession, Typed
  <2> QED BY <1>1, <1>6, <2>1, TypeContinue DEF List, Phases
<1>7. CASE NextDevice(h)
  <2>1. CASE sess[h].rest = {}
    <3>1. Typed("commit", sess[h])
      BY <1>1, <1>7 DEF NextDevice, Typed
    <3> QED BY <1>1, <1>7, <2>1, <3>1, TypeContinue DEF NextDevice, Phases
  <2>2. CASE sess[h].rest # {}
    <3>1. PICK d \in sess[h].rest :
            Continue(h, "access", [sess[h] EXCEPT !.scope = {d}, !.rest = @ \ {d}])
      BY <1>7, <2>2 DEF NextDevice
    <3>2. Typed("access", [sess[h] EXCEPT !.scope = {d}, !.rest = @ \ {d}])
      BY <1>1, <1>7 DEF NextDevice, NoSession, Typed
    <3> QED BY <1>1, <3>1, <3>2, TypeContinue DEF Phases
  <2> QED BY <2>1, <2>2
<1>8. CASE Drop(h)
  <2> DEFINE s == [sess[h] EXCEPT !.drop = @ \cup (sess[h].scope \cap devices)]
  <2>1. Typed("commit", s) /\ Typed("next", s)
    BY <1>1, <1>8 DEF Drop, NoSession, Typed
  <2> QED BY <1>1, <1>8, <2>1, TypeContinue DEF Drop, Phases
<1> QED
  BY <1>3, <1>4, <1>5, <1>6, <1>7, <1>8

LEMMA TypeRevocations ==
  ASSUME Inv, TypeInv, NEW h \in Handlers,
         FindAccess(h) \/ EndAccess(h) \/ FindRefresh(h) \/ Withdraw(h)
  PROVE  TypeInv'
<1>1. DOMAIN sess[h] = DOMAIN NoSession /\ Typed(pc[h], sess[h]) /\ Of(sess[h].scope) \subseteq Ids
  BY DEF Inv, HandlerInv, TypeInv, Of, Ids
<1>2. CASE FindAccess(h)
  <2> DEFINE s == [sess[h] EXCEPT !.found = Of(sess[h].scope) \ ended,
                                  !.covered = @ \cup sess[h].scope]
  <2>1. Typed("end", s)
    BY <1>1, <1>2 DEF FindAccess, NoSession, Typed
  <2> QED BY <1>1, <1>2, <2>1, TypeContinue DEF FindAccess, Phases
<1>3. CASE EndAccess(h)
  <2> DEFINE s == [sess[h] EXCEPT !.end = @ \cup (sess[h].found \ ended), !.found = {}]
             phase == IF sess[h].op = "refresh" THEN "commit" ELSE "refresh"
  <2>1. Typed(phase, s)
    BY <1>1, <1>3 DEF EndAccess, NoSession, Typed
  <2> QED BY <1>1, <1>3, <2>1, TypeContinue DEF EndAccess, Phases
<1>4. CASE FindRefresh(h)
  <2> DEFINE s == [sess[h] EXCEPT !.found = Of(sess[h].scope) \ withdrawn]
  <2>1. Typed("withdraw", s)
    BY <1>1, <1>4 DEF FindRefresh, NoSession, Typed
  <2> QED BY <1>1, <1>4, <2>1, TypeContinue DEF FindRefresh, Phases
<1>5. CASE Withdraw(h)
  <2> DEFINE s == [sess[h] EXCEPT !.withdraw = @ \cup (sess[h].found \ withdrawn), !.found = {}]
             phase == IF sess[h].op = "login" THEN "commit" ELSE "drop"
  <2>1. Typed(phase, s)
    BY <1>1, <1>5 DEF Withdraw, NoSession, Typed
  <2> QED BY <1>1, <1>5, <2>1, TypeContinue DEF Withdraw, Phases
<1> QED
  BY <1>2, <1>3, <1>4, <1>5

LEMMA TypeCommit == ASSUME Inv, TypeInv, Inv', NEW h \in Handlers, Commit(h) PROVE TypeInv'
<1> DEFINE s == sess[h]
<1>1. DOMAIN s = DOMAIN NoSession /\ Typed("commit", s)
  <2>1. pc[h] = "commit" /\ HandlerInv(pc[h], s) /\ Typed(pc[h], s)
    BY DEF Inv, TypeInv, Commit
  <2> QED BY <2>1 DEF HandlerInv
<1>2. /\ pc' \in [Handlers -> Phases]
      /\ \A o \in Handlers : /\ pc'[o] = IF o = h THEN "idle" ELSE pc[o]
                             /\ sess'[o] = IF o = h THEN NoSession ELSE sess[o]
  BY DEF Commit, Inv, Goto, Phases
<1>3. grants \subseteq grants' /\ Ids \subseteq Ids' /\ Of(s.covered) \subseteq Ids
  BY DEF Commit, Ids, Of
<1>4. Hands(h) => Minted(h).device \in Devices /\ DOMAIN Minted(h) = DOMAIN NoGrant
  <2>1. Hands(h) => s.scope # {} /\ s.scope \subseteq Devices
    BY <1>1 DEF Hands, Typed
  <2>2. Hands(h) => (CHOOSE d \in s.scope : TRUE) \in s.scope
    BY <2>1
  <2> QED BY <2>1, <2>2 DEF Minted, NoGrant
<1>5. \A g \in grants' : DOMAIN g = DOMAIN NoGrant /\ g.device \in Devices
  BY <1>4 DEF Commit, TypeInv, TypeOK
<1>6. /\ devices' \subseteq Devices /\ active' \in BOOLEAN
      /\ ended' \subseteq Ids' /\ withdrawn' \subseteq Ids' /\ spent' \subseteq Ids'
      /\ closed' \subseteq Ids' /\ replaced' \subseteq Ids'
      /\ asked' \in 0..MaxRequests /\ faults' \in 0..MaxFaults
  BY <1>1, <1>3 DEF Commit, Typed, TypeInv, TypeOK
<1>7. TypeOK'
  <2>1. Ids' = 1..Cardinality(grants')
    BY DEF Inv
  <2>2. \A o \in Handlers : DOMAIN sess'[o] = DOMAIN NoSession
    BY <1>2 DEF TypeInv, TypeOK
  <2> QED BY <1>2, <1>5, <1>6, <2>1, <2>2 DEF TypeOK
<1>8. ASSUME NEW o \in Handlers PROVE Typed(pc[o], sess[o])'
  <2>1. CASE o = h
    BY <1>2, <2>1 DEF Typed, NoSession
  <2>2. CASE o # h
    <3>1. Typed(pc[o], sess[o]) /\ pc'[o] = pc[o] /\ sess'[o] = sess[o]
      BY <1>2, <2>2 DEF TypeInv
    <3> QED BY <1>3, <3>1 DEF Typed
  <2> QED BY <2>1, <2>2
<1> QED
  BY <1>7, <1>8 DEF TypeInv

LEMMA TypeNext == Inv /\ Inv' /\ TypeInv /\ [Next]_vars => TypeInv'
<1> SUFFICES ASSUME Inv, Inv', TypeInv, [Next]_vars PROVE TypeInv'
  OBVIOUS
<1>1. CASE UNCHANGED vars
  <2>1. Ids' = Ids
    BY <1>1 DEF vars, store, Ids
  <2>2. TypeOK'
    BY <1>1, <2>1 DEF vars, store, history, TypeInv, TypeOK
  <2> QED BY <1>1, <2>1, <2>2 DEF vars, store, TypeInv, Typed
<1>2. ASSUME NEW h \in Handlers, Ask(h) \/ Refresh(h) \/ Step(h) \/ Abort(h) PROVE TypeInv'
  <2>1. CASE Ask(h) \/ Refresh(h)
    BY <2>1, TypeBegin
  <2>2. CASE User(h) \/ Upsert(h) \/ Mark(h) \/ List(h) \/ NextDevice(h) \/ Drop(h)
    BY <2>2, TypeStatements
  <2>3. CASE FindAccess(h) \/ EndAccess(h) \/ FindRefresh(h) \/ Withdraw(h)
    BY <2>3, TypeRevocations
  <2>4. CASE Commit(h)
    BY <2>4, TypeCommit
  <2>5. CASE BreakDeadlock(h) \/ Abort(h)
    BY <2>5, TypeRefuse DEF BreakDeadlock, Refuse, Abort
  <2> QED BY <1>2, <2>1, <2>2, <2>3, <2>4, <2>5 DEF Step
<1> QED
  BY <1>1, <1>2 DEF Next

-----------------------------------------------------------------------------
(* Every row has a device of the user, ids are given out without gaps, and *)
(* what is revoked or used was handed out (the rows of internal/repository *)
(* and the sessions of internal/service/users).                            *)
THEOREM TypeOKHolds == Spec => []TypeOK
<1>1. TypeInv => TypeOK
  BY DEF TypeInv
<1> QED
  BY <1>1, InvHolds, TypeInit, TypeNext, PTL DEF Spec

-----------------------------------------------------------------------------
(* Two requests that present one refresh token, at whatever time, are not  *)
(* both answered (refresh.MarkUsed, users.Refresh).                        *)
THEOREM SpentOnceHolds == Spec => []SpentOnce
<1>1. Inv => SpentOnce
  BY DEF Inv
<1> QED
  BY <1>1, InvHolds, PTL

(* What a login, a refresh or a deletion found of older grants is revoked  *)
(* when it is done, whatever ran beside it (users.issue, issueRefreshed,   *)
(* DeleteDevices, LogoutAll, Deactivate, ChangePassword).                  *)
THEOREM TheOldEndsHolds == Spec => []TheOldEnds
<1>1. Inv => TheOldEnds
  BY DEF Inv
<1> QED
  BY <1>1, InvHolds, PTL

(* No refresh asked for after a login or a deletion of the device was done *)
(* presents a token from before it (RefreshToken.Usable).                  *)
THEOREM NothingComesBackHolds == Spec => []NothingComesBack
<1>1. Inv => NothingComesBack
  BY DEF Inv, HandlerInv, NothingComesBack
<1> QED
  BY <1>1, InvHolds, PTL
=============================================================================
