--------------------------- MODULE DeviceKeysProofs ---------------------------
(***************************************************************************)
(* Proofs about DeviceKeys, for any number of handlers, any uploads and    *)
(* any bounds.                                                             *)
(***************************************************************************)
EXTENDS DeviceKeys, FiniteSetTheorems, TLAPS

-----------------------------------------------------------------------------
(* Types.                                                                  *)

AllKeys  == UNION {u.oneTime : u \in Uploads}
FewKeys  == {F \in SUBSET AllKeys : IsFiniteSet(F) /\ \A k, l \in F : k.key = l.key => k = l}

Row == [key : {k.key : k \in AllKeys} \cup {None},
        material : {k.material : k \in AllKeys} \cup {None}, ordinal : Nat]

Request == [upload : Uploads \cup {NoUpload}, fresh : FewKeys, row : Row,
            edit : Nat, position : Nat]

Peer == [cursor : Nat, copy : Versions, outdated : BOOLEAN]

TypeInv ==
  /\ deviceKeys \in Versions /\ oneTime \in SUBSET Row
  /\ ordinal \in Nat /\ edits \in Nat /\ confirmed \in Nat
  /\ issued \in Nat /\ open \in SUBSET Nat /\ changes \in SUBSET Nat
  /\ peer \in Peer
  /\ handed \in Seq(Row)
  /\ pc \in [Handlers -> Phases] /\ req \in [Handlers -> Request]

LEMMA NoRequestType == NoRequest \in Request
<1>1. {} \in FewKeys
  BY FS_EmptySet DEF FewKeys
<1>2. NoRow \in Row
  BY DEF NoRow, Row
<1> QED
  BY <1>1, <1>2 DEF NoRequest, Request

(* What an upload carries is a finite set of known keys.                   *)
LEMMA UploadType ==
  ASSUME NEW u \in Uploads \cup {NoUpload}
  PROVE  u.oneTime \in FewKeys /\ u.device \in Versions
<1>1. CASE u \in Uploads
  BY <1>1, DeviceKeysAssumption DEF FewKeys, AllKeys, Versions
<1>2. CASE u = NoUpload
  BY <1>2, FS_EmptySet DEF FewKeys, NoUpload, Versions
<1> QED
  BY <1>1, <1>2

(* The new rows are rows, finitely many, with ordinals above the last and  *)
(* none beyond the one that becomes the last.                              *)
LEMMA AddedRows ==
  ASSUME ordinal \in Nat, NEW F \in FewKeys
  PROVE  /\ Added(F) \in SUBSET Row /\ IsFiniteSet(Added(F))
         /\ Cardinality(Added(F)) <= Cardinality(F)
         /\ Cardinality(Added(F)) \in Nat /\ Cardinality(F) \in Nat
         /\ \A r \in Added(F) : ordinal < r.ordinal /\ r.ordinal <= ordinal + Cardinality(Added(F))
<1> DEFINE new == {k \in F : \A r \in oneTime : r.key # k.key}
           at(k) == ordinal + Cardinality({l \in new : l.key <= k.key})
           row(k) == [key |-> k.key, material |-> k.material, ordinal |-> at(k)]
<1>1. IsFiniteSet(F) /\ F \subseteq AllKeys /\ \A k, l \in F : k.key = l.key => k = l
  BY DEF FewKeys
<1>2. IsFiniteSet(new) /\ Cardinality(new) <= Cardinality(F)
  BY <1>1, FS_Subset
<1> DEFINE T == {row(k) : k \in new}
           f == [k \in new |-> row(k)]
<1>3. Added(F) = T
  BY DEF Added
<1>4. f \in Surjection(new, T) /\ f \in Injection(new, T)
  <2>1. ASSUME NEW k \in new, NEW l \in new, f[k] = f[l]
        PROVE  k = l
    <3>1. row(k).key = row(l).key
      BY <2>1
    <3> QED BY <3>1, <1>1
  <2>2. f \in [new -> T] /\ \A t \in T : \E k \in new : f[k] = t
    <3> HIDE DEF row
    <3> QED OBVIOUS
  <2> QED
    <3> HIDE DEF new, T, f
    <3> QED BY <2>1, <2>2 DEF Surjection, Injection, IsInjective
<1>5. IsFiniteSet(T) /\ Cardinality(T) = Cardinality(new)
  <2> HIDE DEF new, row, T, f
  <2> QED BY <1>2, <1>4, FS_Surjection
<1>6. ASSUME NEW k \in new
      PROVE  row(k) \in Row /\ ordinal < at(k) /\ at(k) <= ordinal + Cardinality(new)
  <2> DEFINE below == {l \in new : l.key <= k.key}
  <2>1. k \in AllKeys /\ k.key \in Nat
    BY <1>1, DeviceKeysAssumption DEF AllKeys
  <2>2. below \in SUBSET new /\ k \in below
    BY <2>1
  <2>3. Cardinality(below) \in Nat /\ Cardinality(below) # 0
        /\ Cardinality(below) <= Cardinality(new) /\ Cardinality(new) \in Nat
    <3> HIDE DEF new, below
    <3> QED BY <2>2, <1>2, FS_Subset, FS_CardinalityType, FS_EmptySet
  <2> QED
    BY <2>1, <2>3 DEF Row
<1>7. T \in SUBSET Row
  <2> HIDE DEF new, row
  <2> QED BY <1>6
<1>8. Cardinality(T) \in Nat /\ Cardinality(new) \in Nat /\ Cardinality(F) \in Nat
  <2> HIDE DEF new, T
  <2> QED BY <1>1, <1>2, <1>5, FS_CardinalityType
<1>9. \A r \in T : ordinal < r.ordinal /\ r.ordinal <= ordinal + Cardinality(new)
  <2> SUFFICES ASSUME NEW k \in new
               PROVE  ordinal < row(k).ordinal /\ row(k).ordinal <= ordinal + Cardinality(new)
    OBVIOUS
  <2> QED BY <1>6
<1> QED
  <2> HIDE DEF new, T
  <2> QED BY <1>2, <1>3, <1>5, <1>7, <1>8, <1>9

-----------------------------------------------------------------------------
LEMMA TypeInit == Init => TypeInv
<1> SUFFICES ASSUME Init PROVE TypeInv
  OBVIOUS
<1>1. None \in Versions
  BY DEF Versions
<1>2. peer \in Peer
  BY <1>1 DEF Init, Peer
<1>3. pc \in [Handlers -> Phases] /\ req \in [Handlers -> Request]
  BY NoRequestType DEF Init, Phases
<1> QED
  BY <1>1, <1>2, <1>3 DEF Init, TypeInv

(* What Goto and Return do to a handler.                                   *)
LEMMA Moves ==
  ASSUME TypeInv, NEW h \in Handlers, NEW phase \in Phases
  PROVE  /\ Goto(h, phase) => /\ pc' \in [Handlers -> Phases]
                              /\ pc'[h] = phase
                              /\ \A o \in Handlers : o # h => pc'[o] = pc[o]
         /\ Return(h) => /\ pc' \in [Handlers -> Phases]
                         /\ pc'[h] = "idle"
                         /\ \A o \in Handlers : o # h => pc'[o] = pc[o]
                         /\ req' \in [Handlers -> Request]
                         /\ req'[h] = NoRequest
                         /\ \A o \in Handlers : o # h => req'[o] = req[o]
BY NoRequestType DEF TypeInv, Goto, Return, Phases

LEMMA TypeNext == TypeInv /\ [Next]_vars => TypeInv'
<1> SUFFICES ASSUME TypeInv, [Next]_vars PROVE TypeInv'
  OBVIOUS
<1> USE DEF rows, stream, history, bounds
<1>1. ASSUME NEW h \in Handlers, Upload(h) PROVE TypeInv'
  <2>1. PICK u \in Uploads : req' = [req EXCEPT ![h].upload = u]
    BY <1>1 DEF Upload
  <2>2. req' \in [Handlers -> Request]
    BY <2>1 DEF TypeInv, Request
  <2>3. pc' \in [Handlers -> Phases]
    BY <1>1, Moves DEF Upload, Phases
  <2> QED BY <1>1, <2>2, <2>3 DEF Upload, TypeInv
<1>2. ASSUME NEW h \in Handlers, Lock(h) PROVE TypeInv'
  <2>1. pc' \in [Handlers -> Phases]
    BY <1>2, Moves DEF Lock, Phases
  <2> QED BY <1>2, <2>1 DEF Lock, TypeInv
<1>3. ASSUME NEW h \in Handlers, Existing(h) PROVE TypeInv'
  <2> DEFINE fresh == {k \in req[h].upload.oneTime : \A r \in oneTime : r.key # k.key}
  <2>1. req[h].upload \in Uploads \cup {NoUpload}
    BY DEF TypeInv, Request
  <2>2. req[h].upload.oneTime \in FewKeys
    BY <2>1, UploadType
  <2>3. fresh \in FewKeys
    BY <2>2, FS_Subset DEF FewKeys
  <2>4. \/ Goto(h, "count") /\ req' = [req EXCEPT ![h].fresh = fresh]
        \/ Return(h)
    BY <1>3 DEF Existing
  <2>5. req' \in [Handlers -> Request]
    <3> HIDE DEF fresh
    <3> QED BY <2>3, <2>4, Moves DEF TypeInv, Request, Phases
  <2>6. pc' \in [Handlers -> Phases]
    BY <2>4, Moves DEF Phases
  <2> QED BY <1>3, <2>5, <2>6 DEF Existing, TypeInv
<1>4. ASSUME NEW h \in Handlers, Count(h) PROVE TypeInv'
  <2>1. pc' \in [Handlers -> Phases] /\ req' \in [Handlers -> Request]
    BY <1>4, Moves DEF Count, Phases, TypeInv
  <2> QED BY <1>4, <2>1 DEF Count, TypeInv
<1>5. ASSUME NEW h \in Handlers, Commit(h) PROVE TypeInv'
  <2>1. req[h] \in Request /\ ordinal \in Nat
    BY DEF TypeInv
  <2>2. req[h].fresh \in FewKeys /\ req[h].upload.device \in Versions
    BY <2>1, UploadType DEF Request
  <2>3. Added(req[h].fresh) \in SUBSET Row /\ Cardinality(Added(req[h].fresh)) \in Nat
    BY <2>1, <2>2, AddedRows
  <2>4. oneTime' \in SUBSET Row /\ ordinal' \in Nat
    BY <1>5, <2>3 DEF Commit, TypeInv
  <2>5. deviceKeys' \in Versions /\ edits' \in Nat
    BY <1>5, <2>2 DEF Commit, TypeInv
  <2>6. req' \in [Handlers -> Request]
    BY <1>5, <2>5 DEF Commit, TypeInv, Request
  <2>7. pc' \in [Handlers -> Phases]
    BY <1>5, Moves DEF Commit, Phases
  <2> QED BY <1>5, <2>4, <2>5, <2>6, <2>7 DEF Commit, TypeInv
<1>6. ASSUME NEW h \in Handlers, NextPosition(h) PROVE TypeInv'
  <2>1. issued' \in Nat /\ open' \in SUBSET Nat
    BY <1>6 DEF NextPosition, TypeInv
  <2>2. req' \in [Handlers -> Request]
    BY <1>6, <2>1 DEF NextPosition, TypeInv, Request
  <2>3. pc' \in [Handlers -> Phases]
    BY <1>6, Moves DEF NextPosition, Phases
  <2> QED BY <1>6, <2>1, <2>2, <2>3 DEF NextPosition, TypeInv
<1>7. ASSUME NEW h \in Handlers, Record(h) PROVE TypeInv'
  <2>1. req[h].position \in Nat
    BY DEF TypeInv, Request
  <2>2. pc' \in [Handlers -> Phases]
    BY <1>7, Moves DEF Record, Phases
  <2> QED BY <1>7, <2>1, <2>2 DEF Record, TypeInv
<1>8. ASSUME NEW h \in Handlers, Answer(h) PROVE TypeInv'
  <2>1. req[h].edit \in Nat
    BY DEF TypeInv, Request
  <2>2. pc' \in [Handlers -> Phases] /\ req' \in [Handlers -> Request]
    BY <1>8, Moves DEF Answer, Phases
  <2> QED BY <1>8, <2>1, <2>2 DEF Answer, TypeInv
<1>9. ASSUME NEW h \in Handlers, Claim(h) PROVE TypeInv'
  <2>1. Claimable \subseteq Row
    BY DEF Claimable, TypeInv
  <2>2. \/ Goto(h, "fallback") /\ UNCHANGED req
        \/ \E r \in Claimable : req' = [req EXCEPT ![h].row = r] /\ Goto(h, "take")
    BY <1>9 DEF Claim
  <2>3. req' \in [Handlers -> Request]
    BY <2>1, <2>2 DEF TypeInv, Request
  <2>4. pc' \in [Handlers -> Phases]
    BY <2>2, Moves DEF Phases
  <2> QED BY <1>9, <2>3, <2>4 DEF Claim, TypeInv
<1>10. ASSUME NEW h \in Handlers, Take(h) PROVE TypeInv'
  <2>1. handed' \in Seq(Row)
    BY <1>10 DEF Take, TypeInv, Request
  <2>2. pc' \in [Handlers -> Phases] /\ req' \in [Handlers -> Request]
    BY <1>10, Moves DEF Take, Phases
  <2> QED BY <1>10, <2>1, <2>2 DEF Take, TypeInv
<1>11. ASSUME NEW h \in Handlers, ClaimFallback(h) PROVE TypeInv'
  <2>1. pc' \in [Handlers -> Phases] /\ req' \in [Handlers -> Request]
    BY <1>11, Moves DEF ClaimFallback, Phases
  <2> QED BY <1>11, <2>1 DEF ClaimFallback, TypeInv
<1>12. ASSUME NEW h \in Handlers, Fail(h) PROVE TypeInv'
  <2>1. pc' \in [Handlers -> Phases] /\ req' \in [Handlers -> Request]
    BY <1>12, Moves DEF Fail, Phases
  <2> QED BY <1>12, <2>1 DEF Fail, TypeInv
<1>13. ASSUME Follow PROVE TypeInv'
  <2>1. PICK upTo \in Published :
          peer' = [peer EXCEPT !.cursor = upTo,
                               !.outdated = @ \/ \E c \in changes : peer.cursor < c /\ c <= upTo]
    BY <1>13 DEF Follow
  <2>2. upTo \in Nat
    BY DEF Published, TypeInv
  <2>3. peer' \in Peer
    BY <2>1, <2>2 DEF TypeInv, Peer
  <2> QED BY <1>13, <2>3 DEF Follow, TypeInv
<1>14. ASSUME Query PROVE TypeInv'
  <2>1. peer' \in Peer
    BY <1>14 DEF Query, TypeInv, Peer
  <2> QED BY <1>14, <2>1 DEF Query, TypeInv
<1>15. CASE UNCHANGED vars
  BY <1>15 DEF vars, TypeInv
<1> QED
  BY <1>1, <1>2, <1>3, <1>4, <1>5, <1>6, <1>7, <1>8, <1>9, <1>10, <1>11, <1>12, <1>13, <1>14,
     <1>15 DEF Next, Step

-----------------------------------------------------------------------------
(* Stale means news.  A handler that records a change holds a position     *)
(* that lies above the follower's cursor as long as it is undecided; so    *)
(* when it commits there is news, and there stays news until the follower  *)
(* knows that its copy is outdated, which it knows until it has copied the *)
(* keys of then.                                                           *)

\* The follower's copy is current, or it will hear of a change.
Informed == \/ peer.copy = deviceKeys
            \/ peer.outdated
            \/ \E c \in changes : c > peer.cursor

NewsInv ==
  /\ peer.cursor <= issued
  /\ \A p \in open : peer.cursor < p /\ p <= issued
  /\ \A h \in Handlers :
       /\ req[h].position <= issued /\ req[h].edit <= edits
       /\ pc[h] = "record" => req[h].position \in open
       /\ \A g \in Handlers \ {h} : req[g].position = req[h].position => req[g].position = 0
       /\ pc[h] = "answer" /\ req[h].upload.device # None /\ req[h].edit = edits => Informed
  /\ confirmed <= edits
  /\ confirmed = edits => Informed

LEMMA NewsInit == Init => NewsInv
BY DEF Init, NewsInv, Informed, NoRequest

(* Steps that leave the stream, the keys and the follower as they are, and *)
(* put no handler into one of the two last phases of an upload.            *)
LEMMA NewsFrame ==
  ASSUME TypeInv, NewsInv, NEW h \in Handlers, NEW phase \in Phases \ {"record", "answer"},
         UNCHANGED <<deviceKeys, edits, changes, issued, open, peer, confirmed>>,
         pc'[h] = phase, \A o \in Handlers : o # h => pc'[o] = pc[o] /\ req'[o] = req[o],
         \/ req'[h].position = req[h].position /\ req'[h].edit = req[h].edit
         \/ req'[h] = NoRequest
  PROVE  NewsInv'
<1>1. req[h].position \in Nat /\ req[h].edit \in Nat /\ issued \in Nat /\ edits \in Nat
  BY DEF TypeInv, Request
<1>2. req'[h].position \in {req[h].position, 0} /\ req'[h].edit \in {req[h].edit, 0}
  BY DEF NoRequest
<1>3. Informed' = Informed
  BY DEF Informed
<1> QED
  BY <1>1, <1>2, <1>3 DEF NewsInv

LEMMA NewsNext == TypeInv /\ NewsInv /\ [Next]_vars => NewsInv'
<1> SUFFICES ASSUME TypeInv, NewsInv, [Next]_vars PROVE NewsInv'
  OBVIOUS
<1> USE DEF rows, stream, history, bounds
<1>1. ASSUME NEW h \in Handlers, Upload(h) PROVE NewsInv'
  <2>1. /\ pc'[h] = "lock"
        /\ \A o \in Handlers : o # h => pc'[o] = pc[o] /\ req'[o] = req[o]
        /\ req'[h].position = req[h].position /\ req'[h].edit = req[h].edit
    BY <1>1, Moves DEF Upload, Phases, TypeInv, Request
  <2> QED BY <1>1, <2>1, NewsFrame DEF Upload, Phases
<1>2. ASSUME NEW h \in Handlers, Lock(h) PROVE NewsInv'
  <2>1. pc'[h] = "existing" /\ \A o \in Handlers : o # h => pc'[o] = pc[o]
    BY <1>2, Moves DEF Lock, Phases
  <2> QED BY <1>2, <2>1, NewsFrame DEF Lock, Phases
<1>3. ASSUME NEW h \in Handlers, Existing(h) PROVE NewsInv'
  <2>1. PICK F : \/ Goto(h, "count") /\ req' = [req EXCEPT ![h].fresh = F]
                 \/ Return(h)
    BY <1>3 DEF Existing
  <2>2. \A o \in Handlers : o # h => pc'[o] = pc[o] /\ req'[o] = req[o]
    BY <2>1, Moves DEF Phases, TypeInv
  <2>3. /\ pc'[h] \in {"count", "idle"}
        /\ \/ req'[h].position = req[h].position /\ req'[h].edit = req[h].edit
           \/ req'[h] = NoRequest
    BY <2>1, Moves DEF Phases, TypeInv, Request
  <2> QED BY <1>3, <2>2, <2>3, NewsFrame DEF Existing, Phases
<1>4. ASSUME NEW h \in Handlers, Count(h) PROVE NewsInv'
  <2>1. /\ pc'[h] \in {"commit", "idle"}
        /\ \A o \in Handlers : o # h => pc'[o] = pc[o] /\ req'[o] = req[o]
        /\ \/ req'[h] = req[h]
           \/ req'[h] = NoRequest
    BY <1>4, Moves DEF Count, Phases
  <2> QED BY <1>4, <2>1, NewsFrame DEF Count, Phases
<1>5. ASSUME NEW h \in Handlers, Commit(h) PROVE NewsInv'
  <2> DEFINE in == req[h].upload
             changed == in.device \notin {None, deviceKeys}
  <2>1. /\ deviceKeys' = IF changed THEN in.device ELSE deviceKeys
        /\ edits' = IF changed THEN edits + 1 ELSE edits
        /\ UNCHANGED <<changes, issued, open, peer, confirmed>>
    BY <1>5 DEF Commit
  <2>2. /\ \A o \in Handlers : o # h => pc'[o] = pc[o] /\ req'[o] = req[o]
        /\ req'[h].position = req[h].position /\ req'[h].edit = edits'
        /\ req'[h].upload = in
        /\ pc'[h] = IF in.device # None THEN "next" ELSE "answer"
    BY <1>5, Moves DEF Commit, Phases, TypeInv, Request, Announces
  <2>3. edits \in Nat /\ confirmed \in Nat /\ \A o \in Handlers : req[o].edit \in Nat
    BY DEF TypeInv, Request
  <2>4. CASE changed
    <3>1. edits' = edits + 1
      BY <2>1, <2>4
    <3>2. \A o \in Handlers : pc'[o] = "answer" /\ req'[o].upload.device # None => req'[o].edit # edits'
      BY <2>2, <2>3, <3>1 DEF NewsInv
    <3> QED BY <2>1, <2>2, <2>3, <3>1, <3>2 DEF NewsInv
  <2>5. CASE ~changed
    <3>1. edits' = edits /\ Informed' = Informed
      BY <2>1, <2>5 DEF Informed
    <3> QED BY <2>1, <2>2, <2>3, <3>1 DEF NewsInv
  <2> QED BY <2>4, <2>5
<1>6. ASSUME NEW h \in Handlers, NextPosition(h) PROVE NewsInv'
  <2>1. /\ issued' = issued + 1 /\ open' = open \cup {issued + 1}
        /\ UNCHANGED <<deviceKeys, edits, changes, peer, confirmed>>
    BY <1>6 DEF NextPosition
  <2>2. /\ \A o \in Handlers : o # h => pc'[o] = pc[o] /\ req'[o] = req[o]
        /\ req'[h].position = issued + 1 /\ req'[h].edit = req[h].edit
        /\ pc'[h] = "record"
    BY <1>6, Moves DEF NextPosition, Phases, TypeInv, Request
  <2>3. /\ issued \in Nat /\ open \subseteq Nat /\ peer.cursor \in Nat
        /\ \A o \in Handlers : req[o].position \in Nat
    BY DEF TypeInv, Peer, Request
  <2>4. Informed' = Informed
    BY <2>1 DEF Informed
  <2> QED BY <2>1, <2>2, <2>3, <2>4 DEF NewsInv
<1>7. ASSUME NEW h \in Handlers, Record(h) PROVE NewsInv'
  <2>1. /\ changes' = changes \cup {req[h].position} /\ open' = open \ {req[h].position}
        /\ UNCHANGED <<deviceKeys, edits, issued, peer, confirmed, req>>
        /\ pc[h] = "record"
    BY <1>7 DEF Record
  <2>2. pc'[h] = "answer" /\ \A o \in Handlers : o # h => pc'[o] = pc[o]
    BY <1>7, Moves DEF Record, Phases
  <2>3. req[h].position \in open /\ peer.cursor < req[h].position /\ peer.cursor \in Nat
    BY <2>1 DEF NewsInv, TypeInv, Peer
  <2>4. Informed'
    BY <2>1, <2>3 DEF Informed, TypeInv
  <2>5. \A o \in Handlers \ {h} : pc[o] = "record" => req[o].position # req[h].position
    BY <2>3 DEF NewsInv, TypeInv
  <2> QED BY <2>1, <2>2, <2>4, <2>5 DEF NewsInv
<1>8. ASSUME NEW h \in Handlers, Answer(h) PROVE NewsInv'
  <2>1. /\ UNCHANGED <<deviceKeys, edits, changes, issued, open, peer>>
        /\ confirmed' \in {confirmed, req[h].edit}
        /\ confirmed' = edits => Informed
    BY <1>8 DEF Answer, NewsInv
  <2>2. /\ pc'[h] = "idle" /\ req'[h] = NoRequest
        /\ \A o \in Handlers : o # h => pc'[o] = pc[o] /\ req'[o] = req[o]
    BY <1>8, Moves DEF Answer, Phases
  <2>3. Informed' = Informed
    BY <2>1 DEF Informed
  <2>4. issued \in Nat /\ edits \in Nat
    BY DEF TypeInv
  <2> QED BY <2>1, <2>2, <2>3, <2>4 DEF NewsInv, NoRequest
<1>9. ASSUME NEW h \in Handlers, Claim(h) PROVE NewsInv'
  <2>1. \/ Goto(h, "fallback") /\ UNCHANGED req
        \/ \E r : req' = [req EXCEPT ![h].row = r] /\ Goto(h, "take")
    BY <1>9 DEF Claim
  <2>2. /\ pc'[h] \in {"fallback", "take"}
        /\ \A o \in Handlers : o # h => pc'[o] = pc[o] /\ req'[o] = req[o]
        /\ req'[h].position = req[h].position /\ req'[h].edit = req[h].edit
    BY <2>1, Moves DEF Phases, TypeInv, Request
  <2> QED BY <1>9, <2>2, NewsFrame DEF Claim, Phases
<1>10. ASSUME NEW h \in Handlers, Take(h) \/ ClaimFallback(h) PROVE NewsInv'
  <2>1. /\ pc'[h] = "idle" /\ req'[h] = NoRequest
        /\ \A o \in Handlers : o # h => pc'[o] = pc[o] /\ req'[o] = req[o]
    BY <1>10, Moves DEF Take, ClaimFallback, Phases
  <2> QED BY <1>10, <2>1, NewsFrame DEF Take, ClaimFallback, Phases
<1>11. ASSUME NEW h \in Handlers, Fail(h) PROVE NewsInv'
  <2>1. /\ open' = open \ {req[h].position}
        /\ UNCHANGED <<deviceKeys, edits, changes, issued, peer, confirmed>>
    BY <1>11 DEF Fail
  <2>2. /\ pc'[h] = "idle" /\ req'[h] = NoRequest
        /\ \A o \in Handlers : o # h => pc'[o] = pc[o] /\ req'[o] = req[o]
    BY <1>11, Moves DEF Fail, Phases
  <2>3. \A o \in Handlers \ {h} : pc[o] = "record" => req[o].position # req[h].position
    <3>1. \A p \in open : p # 0
      BY DEF NewsInv, TypeInv, Peer
    <3> QED BY <3>1 DEF NewsInv
  <2>4. Informed' = Informed
    BY <2>1 DEF Informed
  <2>5. issued \in Nat /\ edits \in Nat
    BY DEF TypeInv
  <2> QED BY <2>1, <2>2, <2>3, <2>4, <2>5 DEF NewsInv, NoRequest
<1>12. ASSUME Follow PROVE NewsInv'
  <2>1. PICK upTo \in Published :
          peer' = [peer EXCEPT !.cursor = upTo,
                               !.outdated = @ \/ \E c \in changes : peer.cursor < c /\ c <= upTo]
    BY <1>12 DEF Follow
  <2>2. upTo \in Nat /\ upTo <= issued /\ \A p \in open : upTo < p
    BY <2>1 DEF Published, TypeInv
  <2>3. /\ peer'.cursor = upTo /\ peer'.copy = peer.copy
        /\ peer'.outdated <=> (peer.outdated \/ \E c \in changes : peer.cursor < c /\ c <= upTo)
    BY <2>1 DEF TypeInv, Peer
  <2>4. Informed => Informed'
    <3>1. peer.cursor \in Nat /\ changes \subseteq Nat
      BY DEF TypeInv, Peer
    <3>2. UNCHANGED <<deviceKeys, changes>>
      BY <1>12 DEF Follow
    <3> QED BY <2>2, <2>3, <3>1, <3>2 DEF Informed
  <2> QED BY <1>12, <2>2, <2>3, <2>4 DEF Follow, NewsInv
<1>13. ASSUME Query PROVE NewsInv'
  <2>1. peer'.copy = deviceKeys /\ peer'.cursor = peer.cursor
    BY <1>13 DEF Query, TypeInv, Peer
  <2>2. Informed'
    BY <1>13, <2>1 DEF Query, Informed
  <2> QED BY <1>13, <2>1, <2>2 DEF Query, NewsInv
<1>14. CASE UNCHANGED vars
  BY <1>14 DEF vars, NewsInv, Informed
<1> QED
  BY <1>1, <1>2, <1>3, <1>4, <1>5, <1>6, <1>7, <1>8, <1>9, <1>10, <1>11, <1>12, <1>13, <1>14
     DEF Next, Step

(* Once the upload of the present device keys has been answered, a client  *)
(* whose copy is another hears of a change (deviceLists.Record after       *)
(* Upload's transaction).                                                  *)
THEOREM StaleMeansNewsHolds == Spec => []StaleMeansNews
<1>1. TypeInv /\ NewsInv => StaleMeansNews
  BY DEF NewsInv, StaleMeansNews, Informed
<1> QED
  BY <1>1, TypeInit, TypeNext, NewsInit, NewsNext, PTL DEF Spec

-----------------------------------------------------------------------------
(* The one-time keys.  Only the holder of the advisory lock adds keys, and *)
(* what it has counted can only have shrunk since; a key that a claim has  *)
(* locked stays until that claim deletes it, and gets no second ordinal.   *)

KeysInv ==
  /\ IsFiniteSet(oneTime)
  /\ \A r \in oneTime : r.ordinal <= ordinal
  /\ \A i \in DOMAIN handed : handed[i] \notin oneTime /\ handed[i].ordinal <= ordinal
  /\ IsInjective(handed)
  /\ \A h \in Handlers :
       /\ pc[h] = "take" => req[h].row \in oneTime
       /\ \A g \in Handlers \ {h} :
            /\ pc[h] = "take" /\ pc[g] = "take" => req[h].row # req[g].row
            /\ pc[h] \in Locked => pc[g] \notin Locked
       /\ pc[h] = "commit" => Fits(req[h].fresh)
  /\ OneTimeKeysWithinTheCap

LEMMA KeysInit == Init => KeysInv
<1> SUFFICES ASSUME Init PROVE KeysInv
  OBVIOUS
<1>1. IsFiniteSet({}) /\ Cardinality({}) = 0
  BY FS_EmptySet
<1> QED
  BY <1>1, DeviceKeysAssumption
     DEF Init, KeysInv, IsInjective, OneTimeKeysWithinTheCap, Locked

(* Steps of a handler that leave the one-time keys as they are.            *)
LEMMA KeysFrame ==
  ASSUME KeysInv, NEW h \in Handlers, UNCHANGED <<oneTime, ordinal, handed>>,
         \A o \in Handlers : o # h => pc'[o] = pc[o] /\ req'[o] = req[o],
         pc'[h] = "take" => /\ req'[h].row \in oneTime
                            /\ \A g \in Handlers \ {h} : pc[g] = "take" => req'[h].row # req[g].row,
         pc'[h] \in Locked => \A g \in Handlers \ {h} : pc[g] \notin Locked,
         pc'[h] = "commit" => Fits(req'[h].fresh)
  PROVE  KeysInv'
BY DEF KeysInv, OneTimeKeysWithinTheCap, Fits

LEMMA KeysNext == TypeInv /\ KeysInv /\ [Next]_vars => KeysInv'
<1> SUFFICES ASSUME TypeInv, KeysInv, [Next]_vars PROVE KeysInv'
  OBVIOUS
<1> USE DEF rows, stream, history, bounds
<1>1. ASSUME NEW h \in Handlers, Upload(h) PROVE KeysInv'
  <2>1. /\ pc'[h] = "lock"
        /\ \A o \in Handlers : o # h => pc'[o] = pc[o] /\ req'[o] = req[o]
    BY <1>1, Moves DEF Upload, Phases, TypeInv
  <2> QED BY <1>1, <2>1, KeysFrame DEF Upload, Locked
<1>2. ASSUME NEW h \in Handlers, Lock(h) PROVE KeysInv'
  <2>1. pc'[h] = "existing" /\ \A o \in Handlers : o # h => pc'[o] = pc[o]
    BY <1>2, Moves DEF Lock, Phases
  <2> QED BY <1>2, <2>1, KeysFrame DEF Lock, Locked
<1>3. ASSUME NEW h \in Handlers, Existing(h) PROVE KeysInv'
  <2>1. PICK F : \/ Goto(h, "count") /\ req' = [req EXCEPT ![h].fresh = F]
                 \/ Return(h)
    BY <1>3 DEF Existing
  <2>2. /\ pc'[h] \in {"count", "idle"}
        /\ \A o \in Handlers : o # h => pc'[o] = pc[o] /\ req'[o] = req[o]
    BY <2>1, Moves DEF Phases, TypeInv
  <2>3. pc[h] \in Locked
    BY <1>3 DEF Existing, Locked
  <2> QED BY <1>3, <2>2, <2>3, KeysFrame DEF Existing, Locked, KeysInv
<1>4. ASSUME NEW h \in Handlers, Count(h) PROVE KeysInv'
  <2>1. /\ \A o \in Handlers : o # h => pc'[o] = pc[o] /\ req'[o] = req[o]
        /\ \/ pc'[h] = "commit" /\ req'[h] = req[h] /\ Fits(req[h].fresh)
           \/ pc'[h] = "idle"
    BY <1>4, Moves DEF Count, Phases
  <2>2. pc[h] \in Locked
    BY <1>4 DEF Count, Locked
  <2> QED BY <1>4, <2>1, <2>2, KeysFrame DEF Count, Locked, KeysInv
<1>5. ASSUME NEW h \in Handlers, Commit(h) PROVE KeysInv'
  <2> DEFINE new == Added(req[h].fresh)
  <2>1. /\ oneTime' = oneTime \cup new /\ ordinal' = ordinal + Cardinality(new)
        /\ handed' = handed /\ pc[h] = "commit"
    BY <1>5 DEF Commit
  <2>2. /\ pc'[h] \in {"next", "answer"}
        /\ \A o \in Handlers : o # h => pc'[o] = pc[o] /\ req'[o] = req[o]
    BY <1>5, Moves DEF Commit, Phases, TypeInv
  <2>3. req[h].fresh \in FewKeys /\ ordinal \in Nat
    BY DEF TypeInv, Request
  <2>4. /\ new \in SUBSET Row /\ IsFiniteSet(new)
        /\ Cardinality(new) <= Cardinality(req[h].fresh)
        /\ Cardinality(new) \in Nat /\ Cardinality(req[h].fresh) \in Nat
        /\ \A r \in new : ordinal < r.ordinal /\ r.ordinal <= ordinal + Cardinality(new)
    BY <2>3, AddedRows
  <2>5. IsFiniteSet(oneTime) /\ Cardinality(oneTime) \in Nat
    BY FS_CardinalityType DEF KeysInv
  <2>6. /\ IsFiniteSet(oneTime')
        /\ Cardinality(oneTime') <= Cardinality(oneTime) + Cardinality(new)
    <3> HIDE DEF new
    <3>1. IsFiniteSet(oneTime \cap new)
      BY <2>5, FS_Intersection
    <3>2. Cardinality(oneTime \cap new) \in Nat
      BY <3>1, FS_CardinalityType
    <3>3. /\ IsFiniteSet(oneTime \cup new)
          /\ Cardinality(oneTime \cup new)
               = Cardinality(oneTime) + Cardinality(new) - Cardinality(oneTime \cap new)
      BY <2>4, <2>5, FS_Union
    <3> QED BY <2>1, <2>4, <2>5, <3>2, <3>3
  <2>7. Cardinality(oneTime') \in Nat
    BY <2>6, FS_CardinalityType
  <2>8. OneTimeKeysWithinTheCap'
    <3> HIDE DEF new
    <3>1. MaxOneTimeKeys \in Nat
      BY DeviceKeysAssumption
    <3>2. Fits(req[h].fresh) /\ OneTimeKeysWithinTheCap
      BY <2>1 DEF KeysInv
    <3>3. CASE req[h].fresh = {}
      <4>1. Cardinality(req[h].fresh) = 0
        BY <3>3, FS_EmptySet
      <4> QED BY <2>4, <2>5, <2>6, <2>7, <3>1, <3>2, <4>1 DEF OneTimeKeysWithinTheCap
    <3>4. CASE req[h].fresh # {}
      BY <2>4, <2>5, <2>6, <2>7, <3>1, <3>2, <3>4 DEF OneTimeKeysWithinTheCap, Fits
    <3> QED BY <3>3, <3>4
  <2>9. \A i \in DOMAIN handed : handed[i] \in Row
    BY DEF TypeInv
  <2>10. \A r \in oneTime' : r.ordinal <= ordinal'
    <3> HIDE DEF new
    <3> QED BY <2>1, <2>3, <2>4 DEF KeysInv, TypeInv, Row
  <2>11. \A i \in DOMAIN handed' : handed'[i] \notin oneTime' /\ handed'[i].ordinal <= ordinal'
    <3> HIDE DEF new
    <3> QED BY <2>1, <2>3, <2>4, <2>9 DEF KeysInv, Row
  <2>12. \A o \in Handlers \ {h} : pc[o] \notin Locked
    BY <2>1 DEF KeysInv, Locked
  <2> QED
    <3> HIDE DEF new
    <3> QED BY <2>1, <2>2, <2>6, <2>8, <2>10, <2>11, <2>12 DEF KeysInv, Locked
<1>6. ASSUME NEW h \in Handlers, NextPosition(h) PROVE KeysInv'
  <2>1. /\ pc'[h] = "record"
        /\ \A o \in Handlers : o # h => pc'[o] = pc[o] /\ req'[o] = req[o]
    BY <1>6, Moves DEF NextPosition, Phases, TypeInv
  <2> QED BY <1>6, <2>1, KeysFrame DEF NextPosition, Locked
<1>7. ASSUME NEW h \in Handlers, Record(h) PROVE KeysInv'
  <2>1. pc'[h] = "answer" /\ \A o \in Handlers : o # h => pc'[o] = pc[o]
    BY <1>7, Moves DEF Record, Phases
  <2> QED BY <1>7, <2>1, KeysFrame DEF Record, Locked
<1>8. ASSUME NEW h \in Handlers, Answer(h) \/ ClaimFallback(h) \/ Fail(h) PROVE KeysInv'
  <2>1. /\ pc'[h] = "idle"
        /\ \A o \in Handlers : o # h => pc'[o] = pc[o] /\ req'[o] = req[o]
    BY <1>8, Moves DEF Answer, ClaimFallback, Fail, Phases
  <2>2. UNCHANGED <<oneTime, ordinal, handed>>
    BY <1>8 DEF Answer, ClaimFallback, Fail
  <2> QED BY <2>1, <2>2, KeysFrame DEF Locked
<1>9. ASSUME NEW h \in Handlers, Claim(h) PROVE KeysInv'
  <2>1. CASE Goto(h, "fallback") /\ UNCHANGED req
    <3>1. pc'[h] = "fallback" /\ \A o \in Handlers : o # h => pc'[o] = pc[o]
      BY <2>1, Moves DEF Phases
    <3> QED BY <1>9, <2>1, <3>1, KeysFrame DEF Claim, Locked
  <2>2. ASSUME NEW r \in Claimable, req' = [req EXCEPT ![h].row = r], Goto(h, "take") PROVE KeysInv'
    <3>1. /\ pc'[h] = "take" /\ req'[h].row = r
          /\ \A o \in Handlers : o # h => pc'[o] = pc[o] /\ req'[o] = req[o]
      BY <2>2, Moves DEF Phases, TypeInv, Request
    <3>2. r \in oneTime /\ \A g \in Handlers : pc[g] = "take" => r # req[g].row
      BY DEF Claimable, Taking
    <3> QED BY <1>9, <3>1, <3>2, KeysFrame DEF Claim, Locked
  <2> QED BY <1>9, <2>1, <2>2 DEF Claim
<1>10. ASSUME NEW h \in Handlers, Take(h) PROVE KeysInv'
  <2>1. /\ oneTime' = oneTime \ {req[h].row} /\ handed' = Append(handed, req[h].row)
        /\ ordinal' = ordinal /\ pc[h] = "take"
    BY <1>10 DEF Take
  <2>2. /\ pc'[h] = "idle"
        /\ \A o \in Handlers : o # h => pc'[o] = pc[o] /\ req'[o] = req[o]
    BY <1>10, Moves DEF Take, Phases
  <2>3. req[h].row \in oneTime
    BY <2>1 DEF KeysInv
  <2>4. /\ handed \in Seq(Row) /\ req[h].row \in Row
        /\ DOMAIN handed' = 1..Len(handed) + 1
        /\ \A i \in DOMAIN handed : handed'[i] = handed[i]
        /\ handed'[Len(handed) + 1] = req[h].row
    BY <2>1 DEF TypeInv, Request
  <2>5. /\ IsInjective(handed')
        /\ \A i \in DOMAIN handed' : handed'[i] \notin oneTime' /\ handed'[i].ordinal <= ordinal'
    BY <2>1, <2>3, <2>4 DEF KeysInv, IsInjective
  <2>6. IsFiniteSet(oneTime) /\ IsFiniteSet(oneTime') /\ Cardinality(oneTime') <= Cardinality(oneTime)
    BY <2>1, FS_Subset DEF KeysInv
  <2>7. Cardinality(oneTime) \in Nat /\ Cardinality(oneTime') \in Nat /\ MaxOneTimeKeys \in Nat
    BY <2>6, FS_CardinalityType, DeviceKeysAssumption
  <2>8. OneTimeKeysWithinTheCap'
    BY <2>6, <2>7 DEF KeysInv, OneTimeKeysWithinTheCap
  <2>9. ASSUME NEW o \in Handlers \ {h}, pc[o] = "commit" PROVE Fits(req[o].fresh)'
    <3>1. Fits(req[o].fresh) /\ req[o].fresh \in FewKeys
      BY <2>9 DEF KeysInv, TypeInv, Request
    <3>2. Cardinality(req[o].fresh) \in Nat
      BY <3>1, FS_CardinalityType DEF FewKeys
    <3> QED BY <2>2, <2>6, <2>7, <3>1, <3>2 DEF Fits
  <2> QED BY <2>1, <2>2, <2>5, <2>6, <2>8, <2>9 DEF KeysInv, Locked
<1>11. CASE Follow \/ Query
  BY <1>11 DEF Follow, Query, KeysInv, OneTimeKeysWithinTheCap, Fits
<1>12. CASE UNCHANGED vars
  BY <1>12 DEF vars, KeysInv, OneTimeKeysWithinTheCap, Fits
<1> QED
  BY <1>1, <1>2, <1>3, <1>4, <1>5, <1>6, <1>7, <1>8, <1>9, <1>10, <1>11, <1>12 DEF Next, Step

LEMMA KeysInvariant == Spec => []KeysInv
BY TypeInit, TypeNext, KeysInit, KeysNext, PTL DEF Spec

(* claimOneTimeSQL hands no key to two claims, whatever claims and uploads *)
(* run beside each other.                                                  *)
THEOREM HandedOutOnceHolds == Spec => []HandedOutOnce
<1>1. KeysInv => HandedOutOnce
  BY DEF KeysInv, HandedOutOnce
<1> QED
  BY <1>1, KeysInvariant, PTL

(* Upload never leaves more one-time keys than the cap, claims and other   *)
(* uploads notwithstanding.                                                *)
THEOREM OneTimeKeysWithinTheCapHolds == Spec => []OneTimeKeysWithinTheCap
<1>1. KeysInv => OneTimeKeysWithinTheCap
  BY DEF KeysInv
<1> QED
  BY <1>1, KeysInvariant, PTL

-----------------------------------------------------------------------------
(* Nothing accepted is lost.  A key that was accounted for once is so for  *)
(* good; what the holder of the lock found to be new still has no row when *)
(* it commits, since nobody else adds keys.                                *)

Stays(k) == \E r \in oneTime \cup Range(handed) : r.key = k.key /\ r.material = k.material

FateInv ==
  /\ \A k \in held : Stays(k)
  /\ \A h \in Handlers :
       /\ pc[h] \in {"next", "record", "answer"} => \A k \in req[h].upload.oneTime : Stays(k)
       /\ pc[h] \in {"count", "commit"} =>
            /\ \A k \in req[h].upload.oneTime : k \in req[h].fresh \/ Stays(k)
            /\ \A k \in req[h].fresh, r \in oneTime : r.key # k.key

LEMMA FateInit == Init => FateInv
BY DEF Init, FateInv

(* A key without a row gets one, with its material.                        *)
LEMMA AddedRow ==
  ASSUME NEW fresh, NEW k \in fresh, \A r \in oneTime : r.key # k.key
  PROVE  \E r \in Added(fresh) : r.key = k.key /\ r.material = k.material
<1> DEFINE new == {l \in fresh : \A r \in oneTime : r.key # l.key}
           place(l) == ordinal + Cardinality({m \in new : m.key <= l.key})
           row(l) == [key |-> l.key, material |-> l.material, ordinal |-> place(l)]
<1>1. k \in new
  OBVIOUS
<1>2. Added(fresh) = {row(l) : l \in new}
  BY Zenon DEF Added
<1>3. row(k).key = k.key /\ row(k).material = k.material
  <2> HIDE DEF place
  <2> QED OBVIOUS
<1> HIDE DEF new, row
<1> QED
  BY <1>1, <1>2, <1>3

(* Steps of a handler that leave the one-time keys as they are.            *)
LEMMA FateFrame ==
  ASSUME FateInv, NEW h \in Handlers, UNCHANGED <<oneTime, handed>>,
         \A o \in Handlers : o # h => pc'[o] = pc[o] /\ req'[o] = req[o],
         \A k \in held' : Stays(k),
         pc'[h] \in {"next", "record", "answer"} => \A k \in req'[h].upload.oneTime : Stays(k),
         pc'[h] \in {"count", "commit"} =>
           /\ \A k \in req'[h].upload.oneTime : k \in req'[h].fresh \/ Stays(k)
           /\ \A k \in req'[h].fresh, r \in oneTime : r.key # k.key
  PROVE  FateInv'
<1>1. \A k : Stays(k)' <=> Stays(k)
  BY DEF Stays
<1> QED
  BY <1>1 DEF FateInv

LEMMA FateNext == TypeInv /\ KeysInv /\ FateInv /\ [Next]_vars => FateInv'
<1> SUFFICES ASSUME TypeInv, KeysInv, FateInv, [Next]_vars PROVE FateInv'
  OBVIOUS
<1> USE DEF rows, stream, history, bounds
<1>1. ASSUME NEW h \in Handlers, Upload(h) \/ Lock(h) PROVE FateInv'
  <2>1. /\ pc'[h] \in {"lock", "existing"}
        /\ \A o \in Handlers : o # h => pc'[o] = pc[o] /\ req'[o] = req[o]
    BY <1>1, Moves DEF Upload, Lock, Phases, TypeInv
  <2>2. UNCHANGED <<oneTime, handed, held>>
    BY <1>1 DEF Upload, Lock
  <2> QED BY <2>1, <2>2, FateFrame DEF FateInv
<1>2. ASSUME NEW h \in Handlers, Existing(h) PROVE FateInv'
  <2> DEFINE fresh == {k \in req[h].upload.oneTime : \A r \in oneTime : r.key # k.key}
             same == {k \in req[h].upload.oneTime : \E r \in oneTime : SameMaterial(k, r)}
  <2>1. \/ /\ fresh \cup same = req[h].upload.oneTime
           /\ Goto(h, "count") /\ req' = [req EXCEPT ![h].fresh = fresh]
        \/ Return(h)
    BY <1>2 DEF Existing
  <2>2. UNCHANGED <<oneTime, handed, held>>
    BY <1>2 DEF Existing
  <2>3. CASE Return(h)
    <3>1. /\ pc'[h] = "idle"
          /\ \A o \in Handlers : o # h => pc'[o] = pc[o] /\ req'[o] = req[o]
      BY <2>3, Moves DEF Phases
    <3> QED BY <2>2, <3>1, FateFrame DEF FateInv
  <2>4. CASE /\ fresh \cup same = req[h].upload.oneTime
             /\ Goto(h, "count") /\ req' = [req EXCEPT ![h].fresh = fresh]
    <3>1. /\ pc'[h] = "count"
          /\ \A o \in Handlers : o # h => pc'[o] = pc[o] /\ req'[o] = req[o]
          /\ req'[h].fresh = fresh /\ req'[h].upload = req[h].upload
      <4> HIDE DEF fresh, same
      <4> QED BY <2>4, Moves DEF Phases, TypeInv, Request
    <3>2. \A k \in same : Stays(k)
      BY DEF SameMaterial, Stays
    <3>3. \A k \in req'[h].upload.oneTime : k \in req'[h].fresh \/ Stays(k)
      <4> HIDE DEF fresh, same
      <4> QED BY <2>4, <3>1, <3>2
    <3>4. \A k \in req'[h].fresh, r \in oneTime : r.key # k.key
      BY <3>1
    <3> QED
      <4> HIDE DEF fresh, same
      <4> QED BY <2>2, <3>1, <3>3, <3>4, FateFrame DEF FateInv
  <2> QED BY <2>1, <2>3, <2>4
<1>3. ASSUME NEW h \in Handlers, Count(h) PROVE FateInv'
  <2>1. /\ \A o \in Handlers : o # h => pc'[o] = pc[o] /\ req'[o] = req[o]
        /\ \/ pc'[h] = "commit" /\ req'[h] = req[h]
           \/ pc'[h] = "idle"
    BY <1>3, Moves DEF Count, Phases
  <2> QED BY <1>3, <2>1, FateFrame DEF Count, FateInv
<1>4. ASSUME NEW h \in Handlers, Commit(h) PROVE FateInv'
  <2>1. /\ oneTime' = oneTime \cup Added(req[h].fresh) /\ pc[h] = "commit"
        /\ UNCHANGED <<handed, held>>
    BY <1>4 DEF Commit
  <2>2. /\ pc'[h] \in {"next", "answer"} /\ req'[h].upload = req[h].upload
        /\ \A o \in Handlers : o # h => pc'[o] = pc[o] /\ req'[o] = req[o]
    BY <1>4, Moves DEF Commit, Phases, TypeInv, Request
  <2>3. \A k : Stays(k) => Stays(k)'
    BY <2>1 DEF Stays
  <2>4. \A k \in req[h].fresh : Stays(k)'
    <3> TAKE k \in req[h].fresh
    <3>1. \A r \in oneTime : r.key # k.key
      BY <2>1 DEF FateInv
    <3>2. \E r \in Added(req[h].fresh) : r.key = k.key /\ r.material = k.material
      BY <3>1, AddedRow
    <3> QED BY <2>1, <3>2 DEF Stays
  <2>5. \A o \in Handlers \ {h} : pc[o] \notin {"count", "commit"}
    BY <2>1 DEF KeysInv, Locked
  <2> QED BY <2>1, <2>2, <2>3, <2>4, <2>5 DEF FateInv
<1>5. ASSUME NEW h \in Handlers, NextPosition(h) \/ Record(h) PROVE FateInv'
  <2>1. /\ pc'[h] \in {"record", "answer"} /\ pc[h] \in {"next", "record"}
        /\ \A o \in Handlers : o # h => pc'[o] = pc[o] /\ req'[o] = req[o]
        /\ req'[h].upload = req[h].upload
    BY <1>5, Moves DEF NextPosition, Record, Phases, TypeInv, Request
  <2>2. UNCHANGED <<oneTime, handed, held>>
    BY <1>5 DEF NextPosition, Record
  <2> QED BY <2>1, <2>2, FateFrame DEF FateInv
<1>6. ASSUME NEW h \in Handlers, Answer(h) \/ ClaimFallback(h) \/ Fail(h) PROVE FateInv'
  <2>1. /\ pc'[h] = "idle"
        /\ \A o \in Handlers : o # h => pc'[o] = pc[o] /\ req'[o] = req[o]
    BY <1>6, Moves DEF Answer, ClaimFallback, Fail, Phases
  <2>2. UNCHANGED <<oneTime, handed>>
    BY <1>6 DEF Answer, ClaimFallback, Fail
  <2>3. \/ held' = held
        \/ pc[h] = "answer" /\ held' = held \cup req[h].upload.oneTime
    BY <1>6 DEF Answer, ClaimFallback, Fail
  <2>4. \A k \in held' : Stays(k)
    BY <2>3 DEF FateInv
  <2> QED BY <2>1, <2>2, <2>4, FateFrame
<1>7. ASSUME NEW h \in Handlers, Claim(h) PROVE FateInv'
  <2>1. /\ pc'[h] \in {"fallback", "take"}
        /\ \A o \in Handlers : o # h => pc'[o] = pc[o] /\ req'[o] = req[o]
    BY <1>7, Moves DEF Claim, Phases, TypeInv
  <2> QED BY <1>7, <2>1, FateFrame DEF Claim, FateInv
<1>8. ASSUME NEW h \in Handlers, Take(h) PROVE FateInv'
  <2>1. /\ oneTime' = oneTime \ {req[h].row} /\ handed' = Append(handed, req[h].row)
        /\ held' = held
    BY <1>8 DEF Take
  <2>2. /\ pc'[h] = "idle"
        /\ \A o \in Handlers : o # h => pc'[o] = pc[o] /\ req'[o] = req[o]
    BY <1>8, Moves DEF Take, Phases
  <2>3. /\ DOMAIN handed = 1..Len(handed) /\ Len(handed) \in Nat
        /\ DOMAIN handed' = 1..Len(handed) + 1
        /\ \A i \in DOMAIN handed : handed'[i] = handed[i]
        /\ handed'[Len(handed) + 1] = req[h].row
    BY <2>1 DEF TypeInv, Request
  <2>4. Range(handed') = Range(handed) \cup {req[h].row}
    BY <2>3 DEF Range
  <2>5. \A k : Stays(k) => Stays(k)'
    BY <2>1, <2>4 DEF Stays
  <2> QED BY <2>1, <2>2, <2>5 DEF FateInv
<1>9. CASE Follow \/ Query \/ UNCHANGED vars
  <2>1. UNCHANGED <<oneTime, handed, held, pc, req>>
    BY <1>9 DEF Follow, Query, vars
  <2> QED BY <2>1 DEF FateInv, Stays
<1> QED
  BY <1>1, <1>2, <1>3, <1>4, <1>5, <1>6, <1>7, <1>8, <1>9 DEF Next, Step

(* A one-time key whose upload succeeded is kept as it was uploaded until  *)
(* a claim hands it out, whatever else was uploaded under its id           *)
(* (ExistingOneTime and AddOneTime under the lock).                        *)
THEOREM NothingAcceptedIsLostHolds == Spec => []NothingAcceptedIsLost
<1>1. FateInv => NothingAcceptedIsLost
  BY DEF FateInv, NothingAcceptedIsLost, Stays
<1> QED
  BY <1>1, TypeInit, TypeNext, KeysInvariant, FateInit, FateNext, PTL DEF Spec

(* A fallback key that is reported as unused has not been handed out since *)
(* it replaced another one (setFallbackSQL, claimFallbackSQL).             *)
THEOREM UnusedFallbackIsUnusedHolds == Spec => []UnusedFallbackIsUnused
<1> DEFINE FallbackInv == DOMAIN fallback = {"key", "used"} /\ (~fallback.used => ~served)
<1>1. Init => FallbackInv
  BY DEF Init
<1>2. FallbackInv /\ [Next]_vars => FallbackInv'
  <2> SUFFICES ASSUME FallbackInv, [Next]_vars PROVE FallbackInv'
    OBVIOUS
  <2>1. ASSUME NEW h \in Handlers, Commit(h) PROVE FallbackInv'
    BY <2>1 DEF Commit, SetFallback
  <2>2. ASSUME NEW h \in Handlers, ClaimFallback(h) PROVE FallbackInv'
    BY <2>2 DEF ClaimFallback
  <2>3. CASE UNCHANGED <<fallback, served>>
    BY <2>3
  <2>4. \/ \E h \in Handlers : Commit(h) \/ ClaimFallback(h)
        \/ UNCHANGED <<fallback, served>>
    BY DEF Next, Step, Upload, Claim, Fail, Lock, Existing, Count, NextPosition, Record, Answer,
           Take, Follow, Query, vars, rows, history
  <2> QED BY <2>1, <2>2, <2>3, <2>4
<1>3. FallbackInv => UnusedFallbackIsUnused
  BY DEF UnusedFallbackIsUnused
<1> QED
  BY <1>1, <1>2, <1>3, PTL DEF Spec

-----------------------------------------------------------------------------
(* The rows and the stream.  An id has one row, since an id that has one   *)
(* already when the lock was taken gets no other under it; and a position  *)
(* becomes a change once, by the handler that drew it.                     *)

ShapeInv ==
  /\ \A r, s \in oneTime : r.ordinal >= 1 /\ (r.key = s.key => r = s)
  /\ fallback \in [key : Fallbacks, used : BOOLEAN]
  /\ changes \subseteq 1..issued /\ changes \cap open = {}
  /\ uploads \in 0..MaxUploads /\ claims \in 0..MaxClaims /\ faults \in 0..MaxFaults

LEMMA ShapeInit == Init => ShapeInv
BY DeviceKeysAssumption DEF Init, ShapeInv, Fallbacks

(* A new row has an id that no other row has.                              *)
LEMMA AddedKeys ==
  ASSUME NEW F \in FewKeys
  PROVE  \A r \in Added(F) : /\ \A s \in oneTime : r.key # s.key
                            /\ \A s \in Added(F) : r.key = s.key => r = s
<1> DEFINE new == {k \in F : \A r \in oneTime : r.key # k.key}
           place(l) == ordinal + Cardinality({m \in new : m.key <= l.key})
           row(l) == [key |-> l.key, material |-> l.material, ordinal |-> place(l)]
<1>1. Added(F) = {row(l) : l \in new}
  BY Zenon DEF Added
<1>2. \A l : row(l).key = l.key
  <2> HIDE DEF place
  <2> QED OBVIOUS
<1>3. \A k, l \in new : k.key = l.key => k = l
  BY DEF FewKeys
<1>4. \A k \in new : \A r \in oneTime : r.key # k.key
  OBVIOUS
<1> HIDE DEF new, row
<1> QED
  BY <1>1, <1>2, <1>3, <1>4

(* Handlers that write no key and no change.                               *)
LEMMA ShapeFrame ==
  ASSUME ShapeInv, UNCHANGED <<fallback, changes, issued>>,
         oneTime' \subseteq oneTime, open' \subseteq open,
         uploads' \in 0..MaxUploads, claims' \in 0..MaxClaims, faults' \in 0..MaxFaults
  PROVE  ShapeInv'
BY DEF ShapeInv

LEMMA ShapeNext == TypeInv /\ NewsInv /\ ShapeInv /\ [Next]_vars => ShapeInv'
<1> SUFFICES ASSUME TypeInv, NewsInv, ShapeInv, [Next]_vars PROVE ShapeInv'
  OBVIOUS
<1> USE DEF rows, stream, history, bounds
<1>1. /\ {MaxUploads, MaxClaims, MaxFaults} \subseteq Nat
      /\ uploads \in 0..MaxUploads /\ claims \in 0..MaxClaims /\ faults \in 0..MaxFaults
  BY DeviceKeysAssumption DEF ShapeInv
<1>2. ASSUME NEW h \in Handlers,
             Upload(h) \/ Lock(h) \/ Existing(h) \/ Count(h) \/ Answer(h) \/ Claim(h)
      PROVE  ShapeInv'
  <2>1. /\ UNCHANGED <<oneTime, fallback, stream>>
        /\ uploads' \in 0..MaxUploads /\ claims' \in 0..MaxClaims /\ faults' \in 0..MaxFaults
    BY <1>1, <1>2 DEF Upload, Lock, Existing, Count, Answer, Claim
  <2> QED BY <2>1, ShapeFrame
<1>3. ASSUME NEW h \in Handlers, Take(h) \/ Fail(h) PROVE ShapeInv'
  <2>1. /\ UNCHANGED <<fallback, changes, issued>>
        /\ oneTime' \subseteq oneTime /\ open' \subseteq open
        /\ uploads' \in 0..MaxUploads /\ claims' \in 0..MaxClaims /\ faults' \in 0..MaxFaults
    BY <1>1, <1>3 DEF Take, Fail
  <2> QED BY <2>1, ShapeFrame
<1>4. ASSUME NEW h \in Handlers, Commit(h) PROVE ShapeInv'
  <2> DEFINE new == Added(req[h].fresh)
  <2>1. /\ oneTime' = oneTime \cup new /\ UNCHANGED <<stream, bounds>>
        /\ fallback' = SetFallback(req[h].upload.fallback)
    BY <1>4 DEF Commit
  <2>2. req[h].fresh \in FewKeys /\ req[h].upload \in Uploads \cup {NoUpload} /\ ordinal \in Nat
    BY DEF TypeInv, Request
  <2>3. \A r \in new : ordinal < r.ordinal /\ r.ordinal \in Nat
    BY <2>2, AddedRows DEF Row
  <2>4. \A r \in new : /\ \A s \in oneTime : r.key # s.key
                      /\ \A s \in new : r.key = s.key => r = s
    BY <2>2, AddedKeys
  <2>5. \A r, s \in oneTime' : r.ordinal >= 1 /\ (r.key = s.key => r = s)
    <3> HIDE DEF new
    <3> QED BY <2>1, <2>2, <2>3, <2>4 DEF ShapeInv
  <2>6. req[h].upload.fallback \in Fallbacks
    BY <2>2 DEF Fallbacks, NoUpload
  <2>7. fallback' \in [key : Fallbacks, used : BOOLEAN]
    BY <2>1, <2>6 DEF SetFallback, ShapeInv
  <2> QED BY <2>1, <2>5, <2>7 DEF ShapeInv
<1>5. ASSUME NEW h \in Handlers, ClaimFallback(h) PROVE ShapeInv'
  BY <1>5 DEF ClaimFallback, ShapeInv
<1>6. ASSUME NEW h \in Handlers, NextPosition(h) PROVE ShapeInv'
  <2>1. /\ issued' = issued + 1 /\ open' = open \cup {issued + 1} /\ issued \in Nat
        /\ UNCHANGED <<oneTime, fallback, changes, bounds>>
    BY <1>6 DEF NextPosition, TypeInv
  <2> QED BY <2>1 DEF ShapeInv
<1>7. ASSUME NEW h \in Handlers, Record(h) PROVE ShapeInv'
  <2>1. /\ changes' = changes \cup {req[h].position} /\ open' = open \ {req[h].position}
        /\ UNCHANGED <<oneTime, fallback, issued, bounds>> /\ pc[h] = "record"
    BY <1>7 DEF Record
  <2>2. req[h].position \in 1..issued
    BY <2>1 DEF NewsInv, TypeInv, Request, Peer
  <2> QED BY <2>1, <2>2 DEF ShapeInv
<1>8. CASE Follow \/ Query \/ UNCHANGED vars
  <2>1. UNCHANGED <<oneTime, fallback, stream, bounds>>
    BY <1>8 DEF Follow, Query, vars
  <2> QED BY <1>1, <2>1, ShapeFrame
<1> QED
  BY <1>2, <1>3, <1>4, <1>5, <1>6, <1>7, <1>8 DEF Next, Step

(* The rows of the keys tables: an id has one key, each key is one that    *)
(* was uploaded, and what is recorded in the stream of device list changes *)
(* was drawn from it and is not undecided any more.                        *)
THEOREM TypeOKHolds == Spec => []TypeOK
<1>1. TypeInv /\ NewsInv /\ KeysInv /\ ShapeInv => TypeOK
  <2> SUFFICES ASSUME TypeInv, NewsInv, KeysInv, ShapeInv PROVE TypeOK
    OBVIOUS
  <2>1. \A r, s \in oneTime : /\ DOMAIN r = DOMAIN NoRow /\ r.ordinal \in 1..ordinal
                              /\ r.key = s.key => r = s
    <3>1. \A r \in oneTime : DOMAIN r = DOMAIN NoRow /\ r.ordinal \in Nat
      BY DEF TypeInv, Row, NoRow
    <3> QED BY <3>1 DEF KeysInv, ShapeInv, TypeInv
  <2>2. open \subseteq 1..issued /\ peer.cursor \in 0..issued /\ peer.outdated \in BOOLEAN
    BY DEF NewsInv, TypeInv, Peer
  <2>3. \A h \in Handlers : DOMAIN req[h] = DOMAIN NoRequest
    BY DEF TypeInv, Request, NoRequest
  <2>4. deviceKeys \in Versions /\ issued \in Nat /\ pc \in [Handlers -> Phases]
    BY DEF TypeInv
  <2>5. fallback.key \in Fallbacks /\ fallback.used \in BOOLEAN
    BY DEF ShapeInv
  <2>6. changes \cup open \subseteq 1..issued /\ changes \cap open = {}
    BY <2>2 DEF ShapeInv
  <2> QED BY <2>1, <2>2, <2>3, <2>4, <2>5, <2>6 DEF ShapeInv, TypeOK
<1> QED
  BY <1>1, TypeInit, TypeNext, NewsInit, NewsNext, KeysInvariant, ShapeInit, ShapeNext, PTL DEF Spec
-----------------------------------------------------------------------------
(* The store that DeviceKeys implements.  An upload does all of its work   *)
(* when its transaction commits, and a claim when its row is deleted.      *)

(* The new rows are ordered by their ordinals.                             *)
LEMMA AddedOrder ==
  ASSUME NEW F \in FewKeys, ordinal \in Nat
  PROVE  \A r, s \in Added(F) : r.ordinal = s.ordinal => r = s
<1> DEFINE new == {k \in F : \A r \in oneTime : r.key # k.key}
           below(k) == {m \in new : m.key <= k.key}
           row(k) == [key |-> k.key, material |-> k.material, ordinal |-> ordinal + Cardinality(below(k))]
<1>1. IsFiniteSet(new) /\ new \subseteq AllKeys /\ \A k, l \in new : k.key = l.key => k = l
  BY FS_Subset DEF FewKeys
<1>2. \A k \in new : k.key \in Nat
  BY <1>1, DeviceKeysAssumption DEF AllKeys
<1>3. ASSUME NEW k \in new, NEW l \in new, k.key < l.key
      PROVE  Cardinality(below(k)) < Cardinality(below(l))
  <2>1. below(k) \subseteq below(l) /\ l \in below(l) \ below(k) /\ below(l) \subseteq new
    BY <1>2, <1>3
  <2> HIDE DEF new, below
  <2>2. IsFiniteSet(below(l))
    BY <1>1, <2>1, FS_Subset
  <2>3. Cardinality(below(k)) <= Cardinality(below(l)) /\ Cardinality(below(k)) # Cardinality(below(l))
        /\ IsFiniteSet(below(k))
    BY <2>1, <2>2, FS_Subset
  <2>4. Cardinality(below(k)) \in Nat /\ Cardinality(below(l)) \in Nat
    BY <2>2, <2>3, FS_CardinalityType
  <2> QED BY <2>3, <2>4
<1>4. \A k \in new : Cardinality(below(k)) \in Nat
  <2> TAKE k \in new
  <2>1. below(k) \subseteq new
    OBVIOUS
  <2> HIDE DEF new, below
  <2> QED BY <1>1, <2>1, FS_Subset, FS_CardinalityType
<1>5. Added(F) = {row(k) : k \in new}
  BY Zenon DEF Added
<1>6. \A k : row(k).ordinal = ordinal + Cardinality(below(k))
  <2> HIDE DEF below
  <2> QED OBVIOUS
<1> SUFFICES ASSUME NEW k \in new, NEW l \in new, row(k).ordinal = row(l).ordinal
             PROVE  row(k) = row(l)
  <2> HIDE DEF new, row
  <2> QED BY <1>5
<1>7. Cardinality(below(k)) = Cardinality(below(l))
  <2>1. ordinal + Cardinality(below(k)) = ordinal + Cardinality(below(l))
    <3> HIDE DEF new, below, row
    <3> QED BY <1>6
  <2> HIDE DEF new, below, row
  <2> QED BY <1>4, <2>1
<1> HIDE DEF new, below, row
<1>8. ~(k.key < l.key) /\ ~(l.key < k.key)
  BY <1>3, <1>4, <1>7
<1> QED
  BY <1>1, <1>2, <1>8

LEMMA CommitAdds ==
  ASSUME TypeInv, KeysInv, KeysInv', NEW h \in Handlers, Commit(h)
  PROVE  Store!Upload
<1> DEFINE new == Added(req[h].fresh)
<1>0. \A S : Store!Cardinality(S) = Cardinality(S)
  BY DEF Store!Cardinality, Cardinality
<1>1. /\ oneTime' = oneTime \cup new /\ ordinal' = ordinal + Cardinality(new)
      /\ fallback' = SetFallback(req[h].upload.fallback) /\ UNCHANGED handed
  BY DEF Commit
<1>2. req[h].fresh \in FewKeys /\ ordinal \in Nat
  BY DEF TypeInv, Request
<1>3. /\ IsFiniteSet(new) /\ Cardinality(new) \in Nat /\ new \subseteq Row
      /\ \A r \in new : ordinal < r.ordinal /\ r.ordinal <= ordinal + Cardinality(new)
      /\ \A r \in new : \A s \in oneTime : r.key # s.key
      /\ \A r, s \in new : r.key = s.key \/ r.ordinal = s.ordinal => r = s
  BY <1>2, AddedRows, AddedKeys, AddedOrder
<1> HIDE DEF new
<1>4. \A r \in new : r.ordinal \in ordinal + 1 .. ordinal + Cardinality(new)
  BY <1>2, <1>3 DEF Row
<1>5. oneTime' \ oneTime = new
  BY <1>1, <1>3
<1>6. Store!New(new)
  <2>1. Store!IsFiniteSet(new) = IsFiniteSet(new)
    BY DEF Store!IsFiniteSet, IsFiniteSet
  <2> QED BY <1>3, <1>4, <1>0, <2>1 DEF Store!New
<1>7. fallback' = fallback \/ Store!Replaced
  BY <1>1 DEF SetFallback, Store!Replaced
<1>8. MaxOneTimeKeys # 0 => Cardinality(oneTime') <= MaxOneTimeKeys
  BY DEF KeysInv, OneTimeKeysWithinTheCap
<1> QED
  BY <1>0, <1>1, <1>5, <1>6, <1>7, <1>8 DEF Store!Upload

LEMMA StoreNext == TypeInv /\ KeysInv /\ KeysInv' /\ [Next]_vars => [Store!Next]_Store!vars
<1> SUFFICES ASSUME TypeInv, KeysInv, KeysInv', [Next]_vars PROVE [Store!Next]_Store!vars
  OBVIOUS
<1> USE DEF rows, stream, history, bounds
<1>1. ASSUME NEW h \in Handlers, Commit(h) PROVE Store!Next
  BY <1>1, CommitAdds DEF Store!Next
<1>2. ASSUME NEW h \in Handlers, Take(h) PROVE Store!Next
  <2>1. req[h].row \in oneTime
    BY <1>2 DEF Take, KeysInv
  <2> QED BY <1>2, <2>1 DEF Take, Store!Claim, Store!Next
<1>3. ASSUME NEW h \in Handlers, ClaimFallback(h) PROVE [Store!Next]_Store!vars
  BY <1>3 DEF ClaimFallback, Store!ClaimFallback, Store!Next, Store!vars
<1>4. CASE \/ \E h \in Handlers :
             \/ Upload(h) \/ Claim(h) \/ Lock(h) \/ Existing(h) \/ Count(h) \/ NextPosition(h)
             \/ Record(h) \/ Answer(h) \/ Fail(h)
           \/ Follow \/ Query \/ UNCHANGED vars
  BY <1>4 DEF Upload, Claim, Lock, Existing, Count, NextPosition, Record, Answer, Fail, Follow,
              Query, vars, Store!vars
<1> QED
  BY <1>1, <1>2, <1>3, <1>4 DEF Next, Step

(* Whatever uploads, claims and failures run beside each other, the keys   *)
(* change as if each upload and each claim were one step (the transaction  *)
(* of keys.Upload under its lock, and claimOneTimeSQL).                    *)
THEOREM ImplementsKeyStoreHolds == Spec => ImplementsKeyStore
<1>1. Init => Store!Init
  BY DEF Init, Store!Init
<1> QED
  BY <1>1, StoreNext, TypeInit, TypeNext, KeysInvariant, PTL DEF Spec, ImplementsKeyStore, Store!Spec
=============================================================================
