------------------------ MODULE StreamPositionsProofs ------------------------
(***************************************************************************)
(* Theorems about StreamPositions, for any number of instances, writers    *)
(* and readers, any bounds, and any set of nested writers.                 *)
(*                                                                         *)
(* The argument.  StreamInv is inductive.  An instance's row trails its    *)
(* watermark, its watermark trails every marker of a caller that is still  *)
(* drawing, and a drawn position is above the marker of whoever draws it:  *)
(* so neither the watermark nor the row ever reaches a position somebody   *)
(* holds.  An answer is bounded by the asked instance's own watermark      *)
(* (unless nobody there holds or draws anything) and by every other        *)
(* instance's row, so it is below every undecided position; a position     *)
(* drawn later is above everything issued, hence above every answer.       *)
(* The last step needs a sequence that has issued a position already.      *)
(***************************************************************************)
EXTENDS StreamPositions, TLAPS

LEMMA LargerFacts ==
  ASSUME NEW a \in Int, NEW b \in Int
  PROVE  /\ Larger(a, b) \in {a, b}
         /\ a <= Larger(a, b)
         /\ b <= Larger(a, b)
BY DEF Larger

LEMMA InitStreamInv == Init => StreamInv
<1> SUFFICES ASSUME Init PROVE StreamInv
  OBVIOUS
<1> USE StreamAssumption DEF Init
<1>1. TypeOK
  BY DEF TypeOK, Phases
<1>2. ListsCoverTheCallers
  BY DEF ListsCoverTheCallers
<1>3. WithinTheSequence /\ Trailing /\ MarkersSeparate /\ WatermarkBelowRegistered
  BY DEF WithinTheSequence, Trailing, MarkersSeparate, WatermarkBelowRegistered
<1>4. QueriesTrail
  BY DEF QueriesTrail
<1>5. SureBelowUndecided
  BY DEF SureBelowUndecided
<1>6. ReleasedEarly /\ HeldAreUncommitted
  BY DEF ReleasedEarly, HeldAreUncommitted
<1> QED
  BY <1>1, <1>2, <1>3, <1>4, <1>5, <1>6 DEF StreamInv

-----------------------------------------------------------------------------
(* StreamInv is preserved, one lemma for each action.                      *)

LEMMA NextBeginInv ==
  ASSUME StreamInv, NEW w \in Writers, NextBegin(w)
  PROVE  StreamInv'
<1> USE StreamAssumption DEF StreamInv, NextBegin, database, memory, callers, history
<1>0. Home[w] \in Instances
  OBVIOUS
<1>1. TypeOK'
  BY <1>0 DEF TypeOK, Phases
<1>2. ListsCoverTheCallers'
  BY <1>0 DEF TypeOK, ListsCoverTheCallers
<1>3. WithinTheSequence'
  BY DEF TypeOK, WithinTheSequence
<1>4. Trailing'
  BY DEF TypeOK, Trailing
<1>5. MarkersSeparate'
  BY <1>0 DEF TypeOK, MarkersSeparate, Trailing, WithinTheSequence,
                ListsCoverTheCallers
<1>6. WatermarkBelowRegistered'
  BY DEF TypeOK, WatermarkBelowRegistered
<1>7. QueriesTrail'
  BY DEF QueriesTrail
<1>8. SureBelowUndecided'
  BY DEF SureBelowUndecided, TypeOK,
     ListsCoverTheCallers
<1>9. ReleasedEarly' /\ HeldAreUncommitted'
  BY <1>0 DEF TypeOK, ReleasedEarly, HeldAreUncommitted, ListsCoverTheCallers
<1> QED
  BY <1>1, <1>2, <1>3, <1>4, <1>5, <1>6, <1>7, <1>8, <1>9

LEMMA NextvalInv ==
  ASSUME StreamInv, NEW w \in Writers, Nextval(w)
  PROVE  StreamInv'
<1> USE StreamAssumption DEF StreamInv, Nextval, database, memory, callers, history
<1>0. Home[w] \in Instances
  OBVIOUS
<1>1. TypeOK'
  BY <1>0 DEF TypeOK, Phases
<1>2. ListsCoverTheCallers'
  BY <1>0 DEF TypeOK, ListsCoverTheCallers
<1>3. WithinTheSequence'
  BY <1>0 DEF TypeOK, WithinTheSequence
<1>4. Trailing'
  BY <1>0 DEF TypeOK, Trailing
<1>5. MarkersSeparate'
  BY <1>0 DEF TypeOK, MarkersSeparate
<1>6. WatermarkBelowRegistered'
  BY <1>0 DEF TypeOK, WatermarkBelowRegistered
<1>7. QueriesTrail'
  BY <1>0 DEF TypeOK, QueriesTrail, Queries, NoQuery
<1>8. SureBelowUndecided'
  BY <1>0 DEF TypeOK, SureBelowUndecided, WithinTheSequence
<1>9. ReleasedEarly' /\ HeldAreUncommitted'
  BY <1>0 DEF TypeOK, ReleasedEarly, HeldAreUncommitted, WithinTheSequence
<1> QED
  BY <1>1, <1>2, <1>3, <1>4, <1>5, <1>6, <1>7, <1>8, <1>9

LEMMA NextFailInv ==
  ASSUME StreamInv, NEW w \in Writers, NextFail(w)
  PROVE  StreamInv'
<1> USE StreamAssumption DEF StreamInv, NextFail, Idle, database, memory, callers, history
<1>0. Home[w] \in Instances
  OBVIOUS
<1>1. TypeOK'
  BY <1>0 DEF TypeOK, Phases
<1>2. ListsCoverTheCallers'
  BY <1>0 DEF TypeOK, ListsCoverTheCallers
<1>3. WithinTheSequence'
  BY <1>0 DEF TypeOK, WithinTheSequence
<1>4. Trailing'
  BY <1>0 DEF TypeOK, Trailing
<1>5. MarkersSeparate'
  BY <1>0 DEF TypeOK, MarkersSeparate
<1>6. WatermarkBelowRegistered'
  BY <1>0 DEF TypeOK, WatermarkBelowRegistered
<1>7. QueriesTrail'
  BY <1>0 DEF TypeOK, QueriesTrail
<1>8. SureBelowUndecided'
  BY <1>0 DEF TypeOK, SureBelowUndecided
<1>9. ReleasedEarly' /\ HeldAreUncommitted'
  BY <1>0 DEF TypeOK, ReleasedEarly, HeldAreUncommitted
<1> QED
  BY <1>1, <1>2, <1>3, <1>4, <1>5, <1>6, <1>7, <1>8, <1>9

LEMMA CommitInv ==
  ASSUME StreamInv, NEW w \in Writers, Commit(w)
  PROVE  StreamInv'
<1> USE StreamAssumption DEF StreamInv, Commit, AfterSettling, Idle, database, memory, callers, history
<1>0. Home[w] \in Instances
  OBVIOUS
<1>1. TypeOK'
  BY <1>0 DEF TypeOK, Phases
<1>2. ListsCoverTheCallers'
  BY <1>0 DEF TypeOK, ListsCoverTheCallers
<1>3. WithinTheSequence'
  BY <1>0 DEF TypeOK, WithinTheSequence
<1>4. Trailing'
  BY <1>0 DEF TypeOK, Trailing
<1>5. MarkersSeparate'
  BY <1>0 DEF TypeOK, MarkersSeparate
<1>6. WatermarkBelowRegistered'
  BY <1>0 DEF TypeOK, WatermarkBelowRegistered
<1>7. QueriesTrail'
  BY <1>0 DEF TypeOK, QueriesTrail
<1>8. SureBelowUndecided'
  BY <1>0 DEF TypeOK, SureBelowUndecided
<1>9. ReleasedEarly' /\ HeldAreUncommitted'
  BY <1>0 DEF TypeOK, ReleasedEarly, HeldAreUncommitted, WithinTheSequence
<1> QED
  BY <1>1, <1>2, <1>3, <1>4, <1>5, <1>6, <1>7, <1>8, <1>9

LEMMA RollbackInv ==
  ASSUME StreamInv, NEW w \in Writers, Rollback(w)
  PROVE  StreamInv'
<1> USE StreamAssumption DEF StreamInv, Rollback, AfterSettling, Idle, database, memory, callers, history
<1>0. Home[w] \in Instances
  OBVIOUS
<1>1. TypeOK'
  BY <1>0 DEF TypeOK, Phases
<1>2. ListsCoverTheCallers'
  BY <1>0 DEF TypeOK, ListsCoverTheCallers
<1>3. WithinTheSequence'
  BY <1>0 DEF TypeOK, WithinTheSequence
<1>4. Trailing'
  BY <1>0 DEF TypeOK, Trailing
<1>5. MarkersSeparate'
  BY <1>0 DEF TypeOK, MarkersSeparate
<1>6. WatermarkBelowRegistered'
  BY <1>0 DEF TypeOK, WatermarkBelowRegistered
<1>7. QueriesTrail'
  BY <1>0 DEF TypeOK, QueriesTrail
<1>8. SureBelowUndecided'
  BY <1>0 DEF TypeOK, SureBelowUndecided
<1>9. ReleasedEarly' /\ HeldAreUncommitted'
  BY <1>0 DEF TypeOK, ReleasedEarly, HeldAreUncommitted
<1> QED
  BY <1>1, <1>2, <1>3, <1>4, <1>5, <1>6, <1>7, <1>8, <1>9

\* What AfterPersisting does to its writer.
LEMMA AfterPersistingEffect ==
  ASSUME TypeOK, NEW w \in Writers, AfterPersisting(w)
  PROVE  /\ toStore' = [toStore EXCEPT ![w] = 0]
         /\ \E ph \in {"idle", "outer"} :
              /\ pc' = [pc EXCEPT ![w] = ph]
              /\ ids' \in {ids, [ids EXCEPT ![w] = {}]}
              /\ ph = "idle" => ids' = [ids EXCEPT ![w] = {}]
              /\ ph = "outer" => w \in Nested
BY DEF AfterPersisting, Idle

LEMMA PersistingInv ==
  ASSUME StreamInv, NEW w \in Writers, AfterPersisting(w), pc[w] = "persisting",
         UNCHANGED <<seq, committed, memory, marker, wanted, query, history>>,
         NEW i \in Instances, i = Home[w],
         NEW new \in Nat, stored[i] <= new, new <= upTo[i],
         stored' = [stored EXCEPT ![i] = new],
         recent' \in [Instances -> BOOLEAN]
  PROVE  StreamInv'
<1> USE DEF StreamInv, memory, history
<1>0. Home[w] \in Instances /\ Home \in [Writers \cup Readers -> Instances]
  BY StreamAssumption
<1>1. PICK ph \in {"idle", "outer"} :
              /\ pc' = [pc EXCEPT ![w] = ph]
              /\ ids' \in {ids, [ids EXCEPT ![w] = {}]}
              /\ ph = "idle" => ids' = [ids EXCEPT ![w] = {}]
              /\ ph = "outer" => w \in Nested
  BY AfterPersistingEffect
<1>2. toStore' = [toStore EXCEPT ![w] = 0]
  BY AfterPersistingEffect
<1>3. TypeOK'
  BY <1>1, <1>2 DEF TypeOK, Phases
<1>4. ListsCoverTheCallers'
  BY <1>1 DEF TypeOK, ListsCoverTheCallers
<1>5. WithinTheSequence'
  BY <1>1 DEF TypeOK, WithinTheSequence
<1>6. Trailing'
  BY <1>0, <1>1, <1>2 DEF TypeOK, Trailing
<1>7. MarkersSeparate'
  BY <1>1 DEF TypeOK, MarkersSeparate
<1>8. WatermarkBelowRegistered'
  BY <1>1 DEF TypeOK, WatermarkBelowRegistered
<1>9. QueriesTrail'
  <2> SUFFICES ASSUME NEW r \in Readers, query[r] # NoQuery
               PROVE  /\ query[r].issued <= seq
                      /\ ~query[r].blind => \A j \in Instances \ {Home[r]} :
                           0 < query[r].others /\ query[r].others <= stored'[j]
    BY DEF QueriesTrail
  <2>1. query[r] \in Queries
    BY DEF TypeOK
  <2>2. \A j \in Instances : stored[j] <= stored'[j] /\ stored'[j] \in Nat /\ stored[j] \in Nat
    BY DEF TypeOK
  <2> QED
    BY <2>1, <2>2 DEF QueriesTrail, Queries
<1>10. SureBelowUndecided'
  BY <1>1 DEF TypeOK, SureBelowUndecided
<1>11. ReleasedEarly' /\ HeldAreUncommitted'
  BY <1>1 DEF TypeOK, ReleasedEarly, HeldAreUncommitted
<1> QED
  BY <1>3, <1>4, <1>5, <1>6, <1>7, <1>8, <1>9, <1>10, <1>11

LEMMA PersistInv ==
  ASSUME StreamInv, NEW w \in Writers, Persist(w)
  PROVE  StreamInv'
<1> DEFINE i == Home[w]
<1>0. i \in Instances /\ TypeOK /\ toStore[w] <= upTo[i] /\ stored[i] <= upTo[i]
  BY StreamAssumption DEF StreamInv, Trailing
<1>1. /\ AfterPersisting(w) /\ pc[w] = "persisting"
      /\ UNCHANGED <<seq, committed, memory, marker, wanted, query, history>>
  BY DEF Persist
<1>2. CASE stored[i] < toStore[w]
  <2>1. /\ stored' = [stored EXCEPT ![i] = toStore[w]]
        /\ recent' = [recent EXCEPT ![i] = TRUE]
    BY <1>2 DEF Persist
  <2>2. toStore[w] \in Nat /\ stored[i] <= toStore[w] /\ recent' \in [Instances -> BOOLEAN]
    BY <1>0, <1>2, <2>1 DEF TypeOK
  <2> QED
    BY <1>0, <1>1, <2>1, <2>2, PersistingInv
<1>3. CASE ~(stored[i] < toStore[w])
  <2>1. UNCHANGED <<stored, recent>>
    BY <1>3 DEF Persist
  <2>2. /\ stored[i] \in Nat /\ stored[i] <= stored[i]
        /\ stored' = [stored EXCEPT ![i] = stored[i]]
        /\ recent' \in [Instances -> BOOLEAN]
    BY <1>0, <2>1 DEF TypeOK
  <2> QED
    BY <1>0, <1>1, <2>2, PersistingInv
<1> QED
  BY <1>2, <1>3

LEMMA PersistFailInv ==
  ASSUME StreamInv, NEW w \in Writers, PersistFail(w)
  PROVE  StreamInv'
<1> DEFINE i == Home[w]
<1>0. i \in Instances /\ TypeOK /\ stored[i] <= upTo[i]
  BY StreamAssumption DEF StreamInv, Trailing
<1>1. /\ AfterPersisting(w) /\ pc[w] = "persisting"
      /\ UNCHANGED <<seq, committed, memory, marker, wanted, query, history>>
      /\ UNCHANGED <<stored, recent>>
  BY DEF PersistFail, database
<1>2. /\ stored[i] \in Nat /\ stored[i] <= stored[i]
      /\ stored' = [stored EXCEPT ![i] = stored[i]]
      /\ recent' \in [Instances -> BOOLEAN]
  BY <1>0, <1>1 DEF TypeOK
<1> QED
  BY <1>0, <1>1, <1>2, PersistingInv

LEMMA NextRegisterInv ==
  ASSUME StreamInv, NEW w \in Writers, NextRegister(w)
  PROVE  StreamInv'
<1> USE DEF StreamInv, database, history
<1> DEFINE i == Home[w]
<1>0. i \in Instances /\ Home \in [Writers \cup Readers -> Instances]
  BY StreamAssumption
<1>1. /\ pc[w] = "fetching" /\ pc' = [pc EXCEPT ![w] = "holding"]
      /\ marker' = [marker EXCEPT ![w] = 0]
      /\ inFlight' = [inFlight EXCEPT ![i] = @ \cup ids[w]]
      /\ fetching' = [fetching EXCEPT ![i] = @ \ {w}]
      /\ UNCHANGED <<database, finished, upTo, wanted, ids, toStore, query, history>>
  BY DEF NextRegister
<1>2. PICK m \in ids[w] :
        /\ \A p \in ids[w] : p <= m
        /\ maxSeen' = [maxSeen EXCEPT ![i] = Larger(maxSeen[i], m)]
  BY DEF NextRegister, IsGreatest
<1>3. /\ m \in Nat /\ m <= seq /\ maxSeen[i] \in Nat /\ maxSeen[i] <= seq
      /\ Larger(maxSeen[i], m) \in Nat /\ Larger(maxSeen[i], m) <= seq
      /\ maxSeen[i] <= Larger(maxSeen[i], m) /\ m <= Larger(maxSeen[i], m)
  BY <1>0, <1>2 DEF TypeOK, WithinTheSequence, Larger
<1>4. \A j \in Instances : /\ maxSeen[j] \in Nat /\ maxSeen'[j] \in Nat
                           /\ maxSeen[j] <= maxSeen'[j] /\ maxSeen'[j] <= seq
  BY <1>0, <1>2, <1>3 DEF TypeOK, WithinTheSequence
<1>5. TypeOK'
  BY <1>0, <1>1, <1>2, <1>3 DEF TypeOK, Phases
<1>6. ListsCoverTheCallers'
  BY <1>0, <1>1 DEF TypeOK, ListsCoverTheCallers
<1>7. WithinTheSequence'
  BY <1>1, <1>4 DEF TypeOK, WithinTheSequence
<1>8. Trailing'
  <2>1. \A j \in Instances : stored'[j] <= upTo'[j] /\ upTo'[j] <= maxSeen'[j]
    BY <1>1, <1>4 DEF TypeOK, Trailing
  <2>2. \A j \in Instances : \A p \in finished'[j] : p <= maxSeen'[j]
    BY <1>1, <1>4 DEF TypeOK, Trailing
  <2>3. \A v \in Writers : toStore'[v] <= upTo'[Home[v]]
    BY <1>1 DEF Trailing
  <2>4. ASSUME NEW v \in Writers, pc'[v] \in {"holding", "settled"}, NEW p \in ids'[v]
        PROVE  p <= maxSeen'[Home[v]]
    <3>1. CASE v = w
      BY <3>1, <1>0, <1>1, <1>2, <1>3, <2>4 DEF TypeOK
    <3>2. CASE v # w
      <4>1. pc[v] \in {"holding", "settled"} /\ p \in ids[v] /\ Home[v] \in Instances
        BY <3>2, <1>0, <1>1, <2>4 DEF TypeOK
      <4>2. p <= maxSeen[Home[v]] /\ p \in Nat
        BY <4>1 DEF Trailing, TypeOK
      <4> QED
        BY <4>1, <4>2, <1>4
    <3> QED
      BY <3>1, <3>2
  <2> QED
    BY <2>1, <2>2, <2>3, <2>4 DEF Trailing
<1>9. MarkersSeparate'
  BY <1>1 DEF TypeOK, MarkersSeparate
<1>10. WatermarkBelowRegistered'
  <2> SUFFICES ASSUME NEW v \in Writers, pc'[v] \in {"holding", "settled"},
                      NEW p \in ids[v]
               PROVE  upTo[Home[v]] < p
    BY <1>1 DEF WatermarkBelowRegistered
  <2>1. CASE v = w
    BY <2>1, <1>0, <1>1 DEF MarkersSeparate, TypeOK
  <2>2. CASE v # w
    BY <2>2, <1>1 DEF WatermarkBelowRegistered, TypeOK
  <2> QED
    BY <2>1, <2>2
<1>11. QueriesTrail'
  BY <1>1 DEF QueriesTrail
<1>12. SureBelowUndecided'
  BY <1>1 DEF TypeOK, SureBelowUndecided
<1>13. ReleasedEarly' /\ HeldAreUncommitted'
  BY <1>1 DEF TypeOK, ReleasedEarly, HeldAreUncommitted
<1> QED
  BY <1>5, <1>6, <1>7, <1>8, <1>9, <1>10, <1>11, <1>12, <1>13

LEMMA GoStaleInv ==
  ASSUME StreamInv, NEW i \in Instances, GoStale(i)
  PROVE  StreamInv'
<1> USE DEF StreamInv, GoStale, memory, callers, history
<1>1. TypeOK'
  BY DEF TypeOK
<1>2. ListsCoverTheCallers' /\ WithinTheSequence' /\ Trailing'
  BY DEF ListsCoverTheCallers, WithinTheSequence, Trailing
<1>3. MarkersSeparate' /\ WatermarkBelowRegistered'
  BY DEF MarkersSeparate, WatermarkBelowRegistered
<1>4. QueriesTrail' /\ SureBelowUndecided'
  BY DEF QueriesTrail, SureBelowUndecided
<1>5. ReleasedEarly' /\ HeldAreUncommitted'
  BY DEF ReleasedEarly, HeldAreUncommitted
<1> QED
  BY <1>1, <1>2, <1>3, <1>4, <1>5

LEMMA RestartInv ==
  ASSUME StreamInv, NEW i \in Instances, Restart(i)
  PROVE  StreamInv'
<1> USE DEF StreamInv, database, history
<1>0. /\ Home \in [Writers \cup Readers -> Instances]
      /\ \A w \in Writers : Home[w] \in Instances
  BY StreamAssumption
<1>1. /\ inFlight' = [inFlight EXCEPT ![i] = {}]
      /\ fetching' = [fetching EXCEPT ![i] = {}]
      /\ finished' = [finished EXCEPT ![i] = {}]
      /\ maxSeen' = [maxSeen EXCEPT ![i] = stored[i]]
      /\ upTo' = [upTo EXCEPT ![i] = stored[i]]
      /\ UNCHANGED <<database, history>>
  BY DEF Restart
<1>2. /\ pc' = [w \in Writers |-> IF Home[w] = i THEN "idle" ELSE pc[w]]
      /\ marker' = [w \in Writers |-> IF Home[w] = i THEN 0 ELSE marker[w]]
      /\ wanted' = [w \in Writers |-> IF Home[w] = i THEN 0 ELSE wanted[w]]
      /\ ids' = [w \in Writers |-> IF Home[w] = i THEN {} ELSE ids[w]]
      /\ toStore' = [w \in Writers |-> IF Home[w] = i THEN 0 ELSE toStore[w]]
      /\ query' = [r \in Readers |-> IF Home[r] = i THEN NoQuery ELSE query[r]]
  BY DEF Restart, TypeOK
<1>3. TypeOK'
  BY <1>1, <1>2 DEF TypeOK, Phases
<1>4. ListsCoverTheCallers'
  BY <1>0, <1>1, <1>2 DEF TypeOK, ListsCoverTheCallers
<1>5. WithinTheSequence'
  <2>1. \A j \in Instances : maxSeen'[j] <= seq
    BY <1>1 DEF TypeOK, Trailing, WithinTheSequence
  <2> QED
    BY <2>1, <1>1, <1>2 DEF TypeOK, WithinTheSequence
<1>6. Trailing'
  <2>1. \A j \in Instances : stored'[j] <= upTo'[j] /\ upTo'[j] <= maxSeen'[j]
    BY <1>1 DEF TypeOK, Trailing
  <2>2. \A j \in Instances : \A p \in finished'[j] : p <= maxSeen'[j]
    BY <1>1 DEF TypeOK, Trailing
  <2>3. \A v \in Writers : toStore'[v] <= upTo'[Home[v]]
    BY <1>0, <1>1, <1>2 DEF TypeOK, Trailing
  <2>4. \A v \in Writers : pc'[v] \in {"holding", "settled"} =>
          \A p \in ids'[v] : p <= maxSeen'[Home[v]]
    BY <1>0, <1>1, <1>2 DEF TypeOK, Trailing
  <2> QED
    BY <2>1, <2>2, <2>3, <2>4 DEF Trailing
<1>7. MarkersSeparate'
  BY <1>0, <1>1, <1>2 DEF TypeOK, MarkersSeparate
<1>8. WatermarkBelowRegistered'
  BY <1>0, <1>1, <1>2 DEF TypeOK, WatermarkBelowRegistered
<1>9. QueriesTrail'
  BY <1>1, <1>2 DEF QueriesTrail
<1>10. SureBelowUndecided'
  BY <1>1, <1>2 DEF SureBelowUndecided
<1>11. ReleasedEarly' /\ HeldAreUncommitted'
  BY <1>1, <1>2 DEF ReleasedEarly, HeldAreUncommitted
<1> QED
  BY <1>3, <1>4, <1>5, <1>6, <1>7, <1>8, <1>9, <1>10, <1>11

LEMMA ReleaseInv ==
  ASSUME StreamInv, NEW w \in Writers, Release(w)
  PROVE  StreamInv'
<1> USE DEF StreamInv, database
<1> DEFINE i      == Home[w]
           flying == inFlight[i] \ ids[w]
           done   == finished[i] \cup ids[w]
           pass   == Passable(i, flying, done)
<1>0. /\ i \in Instances /\ Home \in [Writers \cup Readers -> Instances]
      /\ \A v \in Writers : Home[v] \in Instances
  BY StreamAssumption
<1>1. /\ pc[w] \in {"settled", "holding"}
      /\ UNCHANGED <<database, fetching, maxSeen, marker, wanted, query, promised, sure>>
      /\ early' \in {early, early \cup ids[w]}
  BY DEF Release
<1>2. PICK u \in {upTo[i]} \cup pass :
        /\ IsGreatest(u, {upTo[i]} \cup pass)
        /\ inFlight' = [inFlight EXCEPT ![i] = flying]
        /\ finished' = [finished EXCEPT ![i] = done \ pass]
        /\ upTo' = [upTo EXCEPT ![i] = u]
        /\ IF u # upTo[i]
           THEN /\ pc' = [pc EXCEPT ![w] = "persisting"]
                /\ toStore' = [toStore EXCEPT ![w] = u]
                /\ UNCHANGED ids
           ELSE /\ IF w \in Nested
                   THEN /\ pc' = [pc EXCEPT ![w] = "outer"]
                        /\ UNCHANGED ids
                   ELSE Idle(w)
                /\ UNCHANGED toStore
  BY DEF Release
<1>3. PICK ph \in {"persisting", "outer", "idle"} :
        /\ pc' = [pc EXCEPT ![w] = ph]
        /\ ids' \in {ids, [ids EXCEPT ![w] = {}]}
        /\ ph = "idle" => ids' = [ids EXCEPT ![w] = {}]
        /\ toStore' \in {toStore, [toStore EXCEPT ![w] = u]}
  BY <1>2 DEF Idle
<1>4. /\ done \subseteq Nat /\ pass \subseteq done /\ upTo[i] \in Nat
      /\ \A p \in done : p <= maxSeen[i] /\ p \in Nat
  BY <1>0, <1>1 DEF TypeOK, Passable, Trailing
<1>5. /\ u \in Nat /\ upTo[i] <= u /\ u <= maxSeen[i]
  BY <1>0, <1>2, <1>4 DEF IsGreatest, Trailing
<1>6. \A v \in Writers : pc[v] = "fetching" /\ Home[v] = i => u <= marker[v]
  <2> SUFFICES ASSUME NEW v \in Writers, pc[v] = "fetching", Home[v] = i
               PROVE  u <= marker[v]
    OBVIOUS
  <2>1. v \in fetching[i] /\ marker[v] \in Nat /\ upTo[i] <= marker[v]
    BY DEF ListsCoverTheCallers, MarkersSeparate, TypeOK
  <2>2. CASE u \in pass
    BY <2>1, <2>2, <1>5 DEF Passable
  <2>3. CASE u = upTo[i]
    BY <2>1, <2>3
  <2> QED
    BY <1>2, <2>2, <2>3
<1>7. \A v \in Writers \ {w} :
        pc[v] \in {"holding", "settled"} /\ Home[v] = i => ids[v] \subseteq flying
  BY DEF ListsCoverTheCallers, WithinTheSequence
<1>8. \A v \in Writers \ {w} : \A p \in ids[v] :
        pc[v] \in {"holding", "settled"} /\ Home[v] = i => u < p
  <2> SUFFICES ASSUME NEW v \in Writers \ {w}, NEW p \in ids[v],
                      pc[v] \in {"holding", "settled"}, Home[v] = i
               PROVE  u < p
    OBVIOUS
  <2>1. CASE u \in pass
    BY <2>1, <1>7 DEF Passable
  <2>2. CASE u = upTo[i]
    BY <2>2 DEF WatermarkBelowRegistered
  <2> QED
    BY <1>2, <2>1, <2>2
<1>9. \A v \in Writers \ {w} : pc'[v] = pc[v] /\ ids'[v] = ids[v]
  BY <1>3 DEF TypeOK
<1>10. pc'[w] \in {"persisting", "outer", "idle"} /\ (pc'[w] = "idle" => ids'[w] = {})
  BY <1>3 DEF TypeOK
<1>11. TypeOK'
  BY <1>0, <1>1, <1>2, <1>3, <1>4, <1>5 DEF TypeOK, Phases
<1>12. ListsCoverTheCallers'
  <2> SUFFICES ASSUME NEW v \in Writers
               PROVE  /\ pc'[v] = "idle" => ids'[v] = {}
                      /\ pc'[v] = "fetching" => v \in fetching[Home[v]]
                      /\ pc'[v] \in {"holding", "settled"} => ids'[v] \subseteq inFlight'[Home[v]]
    BY <1>1 DEF ListsCoverTheCallers
  <2>1. CASE v = w
    BY <2>1, <1>10
  <2>2. CASE v # w
    BY <2>2, <1>0, <1>2, <1>7, <1>9 DEF ListsCoverTheCallers, TypeOK
  <2> QED
    BY <2>1, <2>2
<1>13. WithinTheSequence'
  BY <1>1, <1>3 DEF TypeOK, WithinTheSequence
<1>14. Trailing'
  <2>1. \A j \in Instances : stored'[j] <= upTo'[j] /\ upTo'[j] <= maxSeen'[j]
    BY <1>0, <1>1, <1>2, <1>5 DEF TypeOK, Trailing
  <2>2. \A j \in Instances : \A p \in finished'[j] : p <= maxSeen'[j]
    BY <1>0, <1>1, <1>2, <1>4 DEF TypeOK, Trailing
  <2>3. \A v \in Writers : toStore'[v] <= upTo'[Home[v]]
    <3> SUFFICES ASSUME NEW v \in Writers PROVE toStore'[v] <= upTo'[Home[v]]
      OBVIOUS
    <3>1. upTo'[Home[v]] \in Nat /\ upTo[Home[v]] <= upTo'[Home[v]]
      BY <1>0, <1>2, <1>5 DEF TypeOK
    <3>2. toStore'[v] = toStore[v] \/ (v = w /\ toStore'[v] = u /\ upTo'[Home[v]] = u)
      BY <1>0, <1>2, <1>3 DEF TypeOK
    <3>3. toStore[v] <= upTo[Home[v]] /\ toStore[v] \in Nat /\ upTo[Home[v]] \in Nat
      BY <1>0 DEF TypeOK, Trailing
    <3> QED
      BY <3>1, <3>2, <3>3, <1>5
  <2>4. \A v \in Writers : pc'[v] \in {"holding", "settled"} =>
          \A p \in ids'[v] : p <= maxSeen'[Home[v]]
    BY <1>1, <1>9, <1>10 DEF Trailing
  <2> QED
    BY <2>1, <2>2, <2>3, <2>4 DEF Trailing
<1>15. MarkersSeparate'
  <2> SUFFICES ASSUME NEW v \in Writers, pc'[v] = "fetching"
               PROVE  /\ upTo'[Home[v]] <= marker[v] /\ marker[v] <= seq
                      /\ \A p \in ids'[v] : marker[v] < p
    BY <1>1 DEF MarkersSeparate
  <2>1. v # w /\ pc[v] = "fetching" /\ ids'[v] = ids[v]
    BY <1>9, <1>10
  <2> QED
    BY <2>1, <1>0, <1>2, <1>6 DEF MarkersSeparate, TypeOK
<1>16. WatermarkBelowRegistered'
  <2> SUFFICES ASSUME NEW v \in Writers, pc'[v] \in {"holding", "settled"}, NEW p \in ids'[v]
               PROVE  upTo'[Home[v]] < p
    BY DEF WatermarkBelowRegistered
  <2>1. v # w /\ pc[v] \in {"holding", "settled"} /\ p \in ids[v]
    BY <1>9, <1>10
  <2>2. CASE Home[v] = i
    BY <2>1, <2>2, <1>0, <1>2, <1>8 DEF TypeOK
  <2>3. CASE Home[v] # i
    BY <2>1, <2>3, <1>0, <1>2 DEF TypeOK, WatermarkBelowRegistered
  <2> QED
    BY <2>2, <2>3
<1>17. QueriesTrail'
  BY <1>1 DEF QueriesTrail
<1>18. SureBelowUndecided'
  BY <1>1, <1>9, <1>10 DEF SureBelowUndecided
<1>19. ReleasedEarly'
  <2> SUFFICES ASSUME NEW v \in Writers
               PROVE  /\ pc'[v] = "settled" => v \notin Nested
                      /\ pc'[v] = "outer" => v \in Nested
                      /\ pc'[v] \in {"persisting", "outer"} /\ v \in Nested =>
                           ids'[v] \subseteq early'
    BY DEF ReleasedEarly
  <2>1. CASE v # w
    BY <2>1, <1>1, <1>9 DEF ReleasedEarly
  <2>2. CASE v = w
    <3>1. pc'[w] = "outer" => w \in Nested
      BY <1>2 DEF Idle, TypeOK
    <3>2. w \in Nested => early' = early \cup ids[w]
      BY <1>1 DEF Release, ReleasedEarly
    <3>3. ids'[w] \subseteq ids[w]
      BY <1>3 DEF TypeOK
    <3> QED
      BY <2>2, <3>1, <3>2, <3>3, <1>10
  <2> QED
    BY <2>1, <2>2
<1>20. HeldAreUncommitted'
  <2>1. UNCHANGED <<committed, seq>> /\ \A p \in early' : p \in early \/ p \in ids[w]
    BY <1>1
  <2>2. \A p \in committed' \cup early' : p <= seq'
    BY <2>1 DEF HeldAreUncommitted, WithinTheSequence
  <2>3. ASSUME NEW v \in Writers, pc'[v] \in {"fetching", "holding"}
        PROVE  ids'[v] \cap (committed' \cup early') = {}
    <3>1. v # w /\ pc[v] \in {"fetching", "holding"} /\ ids'[v] = ids[v]
      BY <2>3, <1>9, <1>10
    <3>2. ids[v] \cap ids[w] = {} /\ ids[v] \cap (committed \cup early) = {}
      BY <3>1 DEF HeldAreUncommitted, WithinTheSequence
    <3> QED
      BY <2>1, <3>1, <3>2
  <2> QED
    BY <2>2, <2>3 DEF HeldAreUncommitted
<1> QED
  BY <1>11, <1>12, <1>13, <1>14, <1>15, <1>16, <1>17, <1>18, <1>19, <1>20

-----------------------------------------------------------------------------
(* The two steps of Published.  The sequence has issued a position, so     *)
(* that last_value is one.                                                 *)

LEMMA PublishedQueryInv ==
  ASSUME StreamInv, 0 < seq, NEW r \in Readers, PublishedQuery(r)
  PROVE  StreamInv'
<1> USE DEF StreamInv, database, memory, callers, history
<1> DEFINE i    == Home[r]
           rows == {stored[j] : j \in Counted(i)}
<1>0. i \in Instances /\ seq \in Nat
  BY StreamAssumption DEF TypeOK
<1>1. PICK m \in rows \cup {0} :
        /\ IF rows = {} THEN m = 0 ELSE IsLeast(m, rows)
        /\ query' = [query EXCEPT ![r] =
                       [others |-> m, issued |-> LastValue,
                        blind  |-> Counted(i) # Instances \ {i}]]
  BY DEF PublishedQuery
<1>2. UNCHANGED <<database, memory, callers, history>>
  BY DEF PublishedQuery
<1>3. LastValue = seq
  BY <1>0 DEF LastValue, Larger
<1>4. m \in Nat
  BY <1>1 DEF TypeOK, Counted
<1>5. Counted(i) = Instances \ {i} => \A j \in Instances \ {i} : 0 < m /\ m <= stored[j]
  BY <1>1 DEF Counted, IsLeast
<1>6. [others |-> m, issued |-> LastValue,
       blind |-> Counted(i) # Instances \ {i}] \in Queries
  BY <1>0, <1>3, <1>4 DEF Queries
<1>7. TypeOK'
  BY <1>1, <1>2, <1>6 DEF TypeOK
<1>8. QueriesTrail'
  <2> SUFFICES ASSUME NEW q \in Readers, query'[q] # NoQuery
               PROVE  /\ query'[q].issued <= seq
                      /\ ~query'[q].blind => \A j \in Instances \ {Home[q]} :
                           0 < query'[q].others /\ query'[q].others <= stored[j]
    BY <1>2 DEF QueriesTrail
  <2>1. CASE q = r
    <3>1. /\ query'[q].others = m /\ query'[q].issued = seq
          /\ query'[q].blind = (Counted(i) # Instances \ {i})
      BY <2>1, <1>1, <1>3 DEF TypeOK
    <3>2. query'[q].issued <= seq
      BY <3>1, <1>0
    <3>3. ~query'[q].blind => Counted(i) = Instances \ {i}
      BY <3>1
    <3>4. ~query'[q].blind => \A j \in Instances \ {Home[q]} :
            0 < query'[q].others /\ query'[q].others <= stored[j]
      BY <3>1, <3>3, <2>1, <1>5
    <3> QED
      BY <3>2, <3>4
  <2>2. CASE q # r
    <3>1. query'[q] = query[q] /\ UNCHANGED <<seq, stored>>
      BY <2>2, <1>1, <1>2 DEF TypeOK
    <3> QED
      BY <3>1 DEF QueriesTrail
  <2> QED
    BY <2>1, <2>2
<1>9. ListsCoverTheCallers' /\ WithinTheSequence' /\ Trailing'
  BY <1>2 DEF ListsCoverTheCallers, WithinTheSequence, Trailing
<1>10. MarkersSeparate' /\ WatermarkBelowRegistered' /\ SureBelowUndecided'
  BY <1>2 DEF MarkersSeparate, WatermarkBelowRegistered, SureBelowUndecided
<1>11. ReleasedEarly' /\ HeldAreUncommitted'
  BY <1>2 DEF ReleasedEarly, HeldAreUncommitted
<1> QED
  BY <1>7, <1>8, <1>9, <1>10, <1>11

\* An answer that is not blind is within what was issued and below every
\* undecided position: the heart of the argument.
LEMMA SureAnswer ==
  ASSUME StreamInv, NEW r \in Readers, query[r] # NoQuery
  PROVE  /\ Answer(r) \in Nat
         /\ ~query[r].blind =>
              /\ Answer(r) <= seq
              /\ \A w \in Writers \ Nested : pc[w] \in {"fetching", "holding"} =>
                   \A p \in ids[w] : Answer(r) < p
<1> USE DEF StreamInv
<1> DEFINE i    == Home[r]
           mine == Local(i, query[r].issued)
<1>1. /\ i \in Instances /\ \A w \in Writers : Home[w] \in Instances
      /\ upTo[i] \in Nat /\ seq \in Nat /\ upTo[i] <= seq
  BY StreamAssumption DEF TypeOK, Trailing, WithinTheSequence
<1>2. query[r] \in Queries
  BY DEF TypeOK
<1>3. /\ mine \in Nat /\ mine <= seq
      /\ mine # upTo[i] => inFlight[i] = {} /\ fetching[i] = {}
  BY <1>1, <1>2 DEF Local, Larger, QueriesTrail, Queries
<1>4. /\ Answer(r) \in Nat /\ Answer(r) <= mine
      /\ 0 < query[r].others => Answer(r) <= query[r].others
  BY <1>2, <1>3 DEF Answer, Queries
<1>5. ASSUME ~query[r].blind, NEW w \in Writers \ Nested,
             pc[w] \in {"fetching", "holding"}, NEW p \in ids[w]
      PROVE  Answer(r) < p
  <2>1. p \in Nat /\ upTo[Home[w]] \in Nat /\ upTo[Home[w]] < p
    BY <1>1, <1>5 DEF TypeOK, MarkersSeparate, WatermarkBelowRegistered
  <2>2. CASE Home[w] = i
    <3>1. ~(inFlight[i] = {} /\ fetching[i] = {})
      BY <1>5, <2>2 DEF ListsCoverTheCallers
    <3> QED
      BY <3>1, <2>1, <2>2, <1>3, <1>4
  <2>3. CASE Home[w] # i
    <3>1. /\ 0 < query[r].others /\ query[r].others <= stored[Home[w]]
          /\ stored[Home[w]] <= upTo[Home[w]] /\ stored[Home[w]] \in Nat
      BY <2>3, <1>1, <1>5 DEF QueriesTrail, Trailing, TypeOK
    <3> QED
      BY <3>1, <2>1, <1>2, <1>4 DEF Queries
  <2> QED
    BY <2>2, <2>3
<1> QED
  BY <1>1, <1>3, <1>4, <1>5

LEMMA PublishedAnswerInv ==
  ASSUME StreamInv, NEW r \in Readers, PublishedAnswer(r)
  PROVE  StreamInv'
<1> USE DEF StreamInv, database, memory, callers
<1>1. /\ query[r] # NoQuery /\ query' = [query EXCEPT ![r] = NoQuery]
      /\ promised' = [promised EXCEPT ![r] = Larger(@, Answer(r))]
      /\ sure' = IF query[r].blind THEN sure ELSE Larger(sure, Answer(r))
      /\ UNCHANGED <<database, memory, callers, early>>
  BY DEF PublishedAnswer
<1>2. Answer(r) \in Nat /\ sure \in Nat /\ seq \in Nat /\ promised[r] \in Nat
  BY <1>1, SureAnswer DEF TypeOK
<1>3. sure' = sure \/ (~query[r].blind /\ sure' = Answer(r))
  BY <1>1 DEF Larger
<1>4. TypeOK'
  <2>1. sure' \in Nat
    BY <1>2, <1>3
  <2>2. Larger(promised[r], Answer(r)) \in Nat
    BY <1>2 DEF Larger
  <2>3. promised' \in [Readers -> Nat]
    BY <1>1, <2>2 DEF TypeOK
  <2> QED
    BY <1>1, <2>1, <2>3 DEF TypeOK
<1>5. WithinTheSequence'
  <2>1. sure' <= seq
    BY <1>1, <1>2, <1>3, SureAnswer DEF WithinTheSequence
  <2> QED
    BY <1>1, <2>1 DEF WithinTheSequence
<1>6. SureBelowUndecided'
  BY <1>1, <1>2, <1>3, SureAnswer DEF SureBelowUndecided
<1>7. QueriesTrail'
  BY <1>1 DEF QueriesTrail, TypeOK
<1>8. ListsCoverTheCallers' /\ Trailing' /\ MarkersSeparate' /\ WatermarkBelowRegistered'
  BY <1>1 DEF ListsCoverTheCallers, Trailing, MarkersSeparate, WatermarkBelowRegistered
<1>9. ReleasedEarly' /\ HeldAreUncommitted'
  BY <1>1 DEF ReleasedEarly, HeldAreUncommitted
<1> QED
  BY <1>4, <1>5, <1>6, <1>7, <1>8, <1>9
-----------------------------------------------------------------------------
(* The theorems of the specification.                                      *)

\* What is preserved: StreamInv, and that a position has been drawn.
DrawnStreamInv == StreamInv /\ 0 < seq

LEMMA StreamStep ==
  ASSUME StreamInv, 0 < seq, [Next]_vars
  PROVE  StreamInv' /\ 0 < seq'
<1>1. ASSUME NEW w \in Writers, WriterStep(w)
      PROVE  StreamInv'
  BY <1>1, NextBeginInv, NextvalInv, NextRegisterInv, NextFailInv, CommitInv,
     RollbackInv, ReleaseInv, PersistInv, PersistFailInv DEF WriterStep
<1>2. ASSUME NEW r \in Readers, ReaderStep(r)
      PROVE  StreamInv'
  BY <1>2, PublishedQueryInv, PublishedAnswerInv DEF ReaderStep
<1>3. ASSUME NEW i \in Instances, GoStale(i) \/ Restart(i)
      PROVE  StreamInv'
  BY <1>3, GoStaleInv, RestartInv
<1>4. CASE UNCHANGED vars
  <2> USE <1>4 DEF StreamInv, vars, database, memory, callers, history
  <2>1. TypeOK' /\ ListsCoverTheCallers' /\ WithinTheSequence' /\ Trailing'
    BY DEF TypeOK, ListsCoverTheCallers, WithinTheSequence, Trailing
  <2>2. MarkersSeparate' /\ WatermarkBelowRegistered' /\ QueriesTrail'
    BY DEF MarkersSeparate, WatermarkBelowRegistered, QueriesTrail
  <2>3. SureBelowUndecided' /\ ReleasedEarly' /\ HeldAreUncommitted'
    BY DEF SureBelowUndecided, ReleasedEarly, HeldAreUncommitted
  <2> QED
    BY <2>1, <2>2, <2>3
<1>5. seq' = seq \/ seq' = seq + 1
  BY DEF Next, WriterStep, ReaderStep, NextBegin, Nextval, NextRegister, NextFail,
     Commit, Rollback, Release, Persist, PersistFail, PublishedQuery,
     PublishedAnswer, GoStale, Restart, vars, database
<1>6. seq \in Nat
  BY DEF StreamInv, TypeOK
<1> QED
  BY <1>1, <1>2, <1>3, <1>4, <1>5, <1>6 DEF Next

\* StreamInv is an invariant of a stream whose sequence has been drawn from:
\* in particular every variable keeps its type, each position has one holder
\* and the row, the watermark, the markers and the positions stay in order.
THEOREM StreamInvariant ==
  ASSUME 0 < FirstSeq
  PROVE  Spec => []StreamInv
<1>1. Init => DrawnStreamInv
  BY InitStreamInv DEF Init, DrawnStreamInv
<1>2. DrawnStreamInv /\ [Next]_vars => DrawnStreamInv'
  BY StreamStep DEF DrawnStreamInv
<1>3. DrawnStreamInv => StreamInv
  BY DEF DrawnStreamInv
<1> QED
  BY <1>1, <1>2, <1>3, PTL DEF Spec

\* The watermark an instance reports and the row it restarts from are below
\* every position drawn on that instance and not yet given back (advance and
\* minUnsafe in stream.go), whatever fails or restarts.
THEOREM WatermarkStaysBelowHeld ==
  ASSUME 0 < FirstSeq
  PROVE  Spec => []WatermarkBelowHeld
<1>1. StreamInv => WatermarkBelowHeld
  <2> SUFFICES ASSUME StreamInv, NEW w \in Writers,
                      pc[w] \in {"fetching", "holding", "settled"}, NEW p \in ids[w]
               PROVE  upTo[Home[w]] < p /\ stored[Home[w]] < p
    BY DEF WatermarkBelowHeld
  <2> USE DEF StreamInv
  <2>1. /\ Home[w] \in Instances /\ p \in Nat
        /\ upTo[Home[w]] \in Nat /\ stored[Home[w]] \in Nat
    BY StreamAssumption DEF TypeOK
  <2>2. upTo[Home[w]] < p
    BY <2>1 DEF MarkersSeparate, WatermarkBelowRegistered, TypeOK
  <2>3. stored[Home[w]] <= upTo[Home[w]]
    BY <2>1 DEF Trailing
  <2> QED
    BY <2>1, <2>2, <2>3
<1> QED
  BY <1>1, StreamInvariant, PTL

\* No transaction commits at or behind an answer that Published computed with
\* a fresh row of every other instance, unless its positions were given back
\* before the commit (Published in stream.go; the nested WithTx).
THEOREM SureAnswersAreKept ==
  ASSUME 0 < FirstSeq
  PROVE  Spec => SureAnswersHold
<1>1. ASSUME StreamInv, Next, NEW p \in committed' \ committed
      PROVE  p \in early \/ sure < p
  <2> USE DEF StreamInv
  <2>1. PICK w \in Writers : Commit(w)
    BY <1>1 DEF Next, WriterStep, ReaderStep, NextBegin, Nextval, NextRegister,
       NextFail, Rollback, Release, Persist, PersistFail, PublishedQuery,
       PublishedAnswer, GoStale, Restart, database
  <2>2. p \in ids[w]
    BY <1>1, <2>1 DEF Commit
  <2>3. CASE pc[w] = "holding" /\ w \notin Nested
    BY <1>1, <2>2, <2>3 DEF SureBelowUndecided
  <2>4. CASE pc[w] = "outer"
    BY <1>1, <2>2, <2>4 DEF ReleasedEarly
  <2> QED
    BY <2>1, <2>3, <2>4 DEF Commit, AfterSettling
<1>2. StreamInv /\ [Next]_vars =>
        [\A p \in committed' \ committed : p \in early \/ sure < p]_vars
  BY <1>1
<1> QED
  BY <1>2, StreamInvariant, PTL DEF Spec, SureAnswersHold
-----------------------------------------------------------------------------
(* One instance alone, without a nested writer: no query lacks a row, and  *)
(* no position is given back before its commit.                            *)
Alone == (\A i, j \in Instances : i = j) /\ Nested = {}

AloneInv == /\ \A r \in Readers : query[r].blind = FALSE /\ promised[r] <= sure
            /\ early = {}

LEMMA AloneNext == ASSUME Alone, StreamInv, AloneInv, [Next]_vars PROVE AloneInv'
<1> USE DEF Alone, AloneInv, history, callers
<1>0. sure \in Nat /\ \A r \in Readers : promised[r] \in Nat
  BY DEF StreamInv, TypeOK
<1>1. ASSUME NEW w \in Writers, WriterStep(w) PROVE AloneInv'
  <2>1. UNCHANGED <<query, promised, sure>>
    BY <1>1 DEF WriterStep, NextBegin, Nextval, NextRegister, NextFail, Commit, Rollback, Release,
                Persist, PersistFail
  <2>2. early' = early
    BY <1>1, StreamAssumption DEF WriterStep, NextBegin, Nextval, NextRegister, NextFail, Commit,
                Rollback, Release, Persist, PersistFail
  <2> QED BY <2>1, <2>2
<1>2. ASSUME NEW r \in Readers, PublishedQuery(r) PROVE AloneInv'
  <2>1. Home[r] \in Instances /\ Counted(Home[r]) = Instances \ {Home[r]}
    BY StreamAssumption DEF Counted
  <2>2. PICK m : query' = [query EXCEPT ![r] = [others |-> m, issued |-> LastValue, blind |-> FALSE]]
    BY <1>2, <2>1 DEF PublishedQuery
  <2>3. \A q \in Readers : query'[q].blind = FALSE
    BY <2>2 DEF StreamInv, TypeOK
  <2> QED BY <1>2, <2>3 DEF PublishedQuery
<1>3. ASSUME NEW r \in Readers, PublishedAnswer(r) PROVE AloneInv'
  <2>1. /\ query' = [query EXCEPT ![r] = NoQuery] /\ early' = early
        /\ promised' = [promised EXCEPT ![r] = Larger(@, Answer(r))]
        /\ sure' = Larger(sure, Answer(r))
    BY <1>3 DEF PublishedAnswer
  <2>2. \A q \in Readers : query'[q].blind = FALSE
    BY <2>1 DEF NoQuery, StreamInv, TypeOK
  <2>3. Answer(r) \in Nat
    BY <1>3, SureAnswer DEF PublishedAnswer, StreamInv
  <2>4. sure <= sure' /\ Answer(r) <= sure' /\ sure' \in Nat
    BY <1>0, <2>1, <2>3 DEF Larger
  <2>5. \A q \in Readers : promised'[q] \in {promised[q], Answer(r)}
    BY <2>1 DEF Larger, StreamInv, TypeOK
  <2> QED BY <1>0, <2>1, <2>2, <2>3, <2>4, <2>5
<1>4. ASSUME NEW i \in Instances, GoStale(i) \/ Restart(i) PROVE AloneInv'
  <2>1. UNCHANGED <<promised, sure, early>> /\ \A r \in Readers : query'[r] \in {query[r], NoQuery}
    BY <1>4 DEF GoStale, Restart, StreamInv, TypeOK
  <2> QED BY <2>1 DEF NoQuery
<1>5. CASE UNCHANGED vars
  BY <1>5 DEF vars
<1> QED
  BY <1>1, <1>2, <1>3, <1>4, <1>5 DEF Next, ReaderStep

\* One instance alone, all of whose writers give their positions back after
\* their commit, gives no reader an answer at or behind which a position
\* commits later (Published and Release in stream.go).  StreamIdleWriter is
\* what happens on two instances, even without a nested writer.
THEOREM OneInstanceIsSafe ==
  ASSUME 0 < FirstSeq, Alone
  PROVE  Spec => NothingCommitsBehindAnAnswer
<1>1. Init => AloneInv
  BY DEF Init, AloneInv, NoQuery
<1>2. StreamInv /\ AloneInv /\ [Next]_vars => AloneInv'
  BY AloneNext
<1>3. StreamInv /\ StreamInv' /\ AloneInv /\ [\A p \in committed' \ committed : p \in early \/ sure < p]_vars =>
        [\A p \in committed' \ committed : \A r \in Readers : promised[r] < p]_vars
  <2> SUFFICES ASSUME StreamInv, StreamInv', AloneInv,
                      NEW p \in committed' \ committed, p \in early \/ sure < p,
                      NEW r \in Readers
               PROVE  promised[r] < p
    OBVIOUS
  <2>1. /\ sure < p /\ promised[r] <= sure
        /\ sure \in Nat /\ promised[r] \in Nat /\ p \in Nat
    BY DEF AloneInv, StreamInv, TypeOK
  <2> QED BY <2>1
<1> QED
  BY <1>1, <1>2, <1>3, StreamInvariant, SureAnswersAreKept, PTL
     DEF Spec, NothingCommitsBehindAnAnswer, SureAnswersHold
-----------------------------------------------------------------------------
(* The answers given with a row of every instance are those of the         *)
(* abstract stream: each step decides some undecided positions, issues     *)
(* one, answers, or is a stutter.                                          *)

\* The positions an instance's callers stop holding are decided together.
LEMMA DecideOrStutter ==
  ASSUME StreamInv, UNCHANGED <<seq, sure>>, Undecided' \subseteq Undecided,
         \/ committed' \ early' = committed \ early
         \/ committed' \ early' = (committed \ early) \cup (Undecided \ Undecided')
  PROVE  Abstract!Next \/ UNCHANGED Abstract!vars
<1> DEFINE S == Undecided \ Undecided'
<1>1. CASE S = {}
  <2>1. Undecided' = Undecided /\ committed' \ early' = committed \ early
    BY <1>1
  <2> QED
    BY <2>1 DEF Abstract!vars
<1>2. CASE S # {}
  <2>1. S \in SUBSET Undecided /\ Undecided' = Undecided \ S
        /\ committed' \ early' \in {committed \ early, (committed \ early) \cup S}
    OBVIOUS
  <2>2. Abstract!Decide
    <3> HIDE DEF S
    <3> QED
      BY <1>2, <2>1 DEF Abstract!Decide
  <2> QED
    BY <2>2 DEF Abstract!Next
<1> QED
  BY <1>1, <1>2

\* A step of writer w that leaves the other writers alone changes Undecided
\* by what w held before it and holds after it.
LEMMA OthersStayUndecided ==
  ASSUME StreamInv, NEW w \in Writers,
         \A v \in Writers \ {w} : pc'[v] = pc[v] /\ ids'[v] = ids[v],
         pc'[w] \notin {"fetching", "holding"}
  PROVE  /\ pc[w] \in {"fetching", "holding"} /\ w \notin Nested =>
              Undecided' = Undecided \ ids[w] /\ ids[w] \subseteq Undecided
         /\ ~(pc[w] \in {"fetching", "holding"} /\ w \notin Nested) =>
              Undecided' = Undecided
<1>1. \A p : p \in Undecided <=>
        \E v \in Writers : /\ pc[v] \in {"fetching", "holding"} /\ v \notin Nested
                           /\ p \in ids[v]
  BY DEF Undecided
<1>2. \A p : p \in Undecided' <=>
        \E v \in Writers : /\ pc'[v] \in {"fetching", "holding"} /\ v \notin Nested
                           /\ p \in ids'[v]
  BY DEF Undecided
<1>3. \A v \in Writers \ {w} : ids[v] \cap ids[w] = {}
  BY DEF StreamInv, WithinTheSequence
<1> QED
  BY <1>1, <1>2, <1>3

LEMMA IssueStep ==
  ASSUME StreamInv, NEW w \in Writers, Nextval(w)
  PROVE  Abstract!Next
<1>1. /\ pc[w] = "fetching" /\ seq' = seq + 1
      /\ ids' = [ids EXCEPT ![w] = @ \cup {seq + 1}]
      /\ UNCHANGED <<pc, committed, early, sure>>
  BY DEF Nextval, history
<1>2. ids \in [Writers -> SUBSET Nat]
  BY DEF StreamInv, TypeOK
<1>3. \A p : p \in Undecided <=>
        \E v \in Writers : /\ pc[v] \in {"fetching", "holding"} /\ v \notin Nested
                           /\ p \in ids[v]
  BY DEF Undecided
<1>4. \A p : p \in Undecided' <=>
        \E v \in Writers : /\ pc[v] \in {"fetching", "holding"} /\ v \notin Nested
                           /\ p \in ids'[v]
  BY <1>1 DEF Undecided
<1>5. \A v \in Writers : ids'[v] = IF v = w THEN ids[v] \cup {seq + 1} ELSE ids[v]
  BY <1>1, <1>2
<1>6. CASE w \in Nested
  <2>1. Undecided' = Undecided
    BY <1>3, <1>4, <1>5, <1>6
  <2> QED
    BY <1>1, <2>1 DEF Abstract!Next, Abstract!Issue
<1>7. CASE w \notin Nested
  <2>1. Undecided' = Undecided \cup {seq + 1}
    BY <1>1, <1>3, <1>4, <1>5, <1>7
  <2> QED
    BY <1>1, <2>1 DEF Abstract!Next, Abstract!Issue
<1> QED
  BY <1>6, <1>7

LEMMA DecideStep ==
  ASSUME StreamInv, NEW w \in Writers, Commit(w) \/ Rollback(w) \/ NextFail(w)
  PROVE  Abstract!Next \/ UNCHANGED Abstract!vars
<1>1. /\ \A v \in Writers \ {w} : pc'[v] = pc[v] /\ ids'[v] = ids[v]
      /\ pc'[w] \notin {"fetching", "holding"}
      /\ UNCHANGED <<seq, sure, early>>
  BY DEF Commit, Rollback, NextFail, AfterSettling, Idle, StreamInv, TypeOK,
         database, history
<1>2. Undecided' \subseteq Undecided
  BY <1>1, OthersStayUndecided
<1>3. CASE Commit(w)
  <2>1. committed' = committed \cup ids[w]
    BY <1>3 DEF Commit
  <2>2. CASE pc[w] = "holding" /\ w \notin Nested
    <3>1. Undecided \ Undecided' = ids[w]
      BY <2>2, <1>1, OthersStayUndecided
    <3>2. ids[w] \cap early = {}
      BY <2>2 DEF StreamInv, HeldAreUncommitted
    <3> QED
      BY <3>1, <3>2, <2>1, <1>1, <1>2, DecideOrStutter
  <2>3. CASE pc[w] = "outer"
    <3>1. ids[w] \subseteq early
      BY <2>3 DEF StreamInv, ReleasedEarly
    <3> QED
      BY <3>1, <2>1, <1>1, <1>2, DecideOrStutter
  <2> QED
    BY <1>3, <2>2, <2>3 DEF Commit, AfterSettling
<1>4. CASE Rollback(w) \/ NextFail(w)
  <2>1. committed' = committed
    BY <1>4 DEF Rollback, NextFail, database
  <2> QED
    BY <2>1, <1>1, <1>2, DecideOrStutter
<1> QED
  BY <1>3, <1>4

LEMMA ReleaseStep ==
  ASSUME StreamInv, NEW w \in Writers, Release(w)
  PROVE  Abstract!Next \/ UNCHANGED Abstract!vars
<1>1. /\ \A v \in Writers \ {w} : pc'[v] = pc[v] /\ ids'[v] = ids[v]
      /\ pc'[w] \notin {"fetching", "holding"}
  <2>1. PICK ph \in {"persisting", "outer", "idle"} :
          /\ pc' = [pc EXCEPT ![w] = ph]
          /\ ids' \in {ids, [ids EXCEPT ![w] = {}]}
    BY DEF Release, Idle
  <2> QED
    BY <2>1 DEF StreamInv, TypeOK
<1>2. /\ UNCHANGED <<seq, sure, committed>>
      /\ pc[w] = "settled" \/ (pc[w] = "holding" /\ w \in Nested)
      /\ early' = IF pc[w] = "holding" THEN early \cup ids[w] ELSE early
  BY DEF Release, database
<1>3. Undecided' = Undecided
  BY <1>1, <1>2, OthersStayUndecided
<1>4. committed' \ early' = committed \ early
  BY <1>2 DEF StreamInv, HeldAreUncommitted
<1> QED
  BY <1>2, <1>3, <1>4 DEF Abstract!vars

LEMMA AnswerStep ==
  ASSUME StreamInv, NEW r \in Readers, PublishedAnswer(r)
  PROVE  Abstract!Next \/ UNCHANGED Abstract!vars
<1>1. /\ query[r] # NoQuery
      /\ sure' = IF query[r].blind THEN sure ELSE Larger(sure, Answer(r))
      /\ UNCHANGED <<seq, committed, early, pc, ids>>
  BY DEF PublishedAnswer, database, callers
<1>2. Answer(r) \in Nat /\ sure \in Nat /\ seq \in Nat
  BY <1>1, SureAnswer DEF StreamInv, TypeOK
<1>3. Undecided' = Undecided
  BY <1>1 DEF Undecided
<1>4. CASE sure' = sure
  BY <1>1, <1>3, <1>4 DEF Abstract!vars
<1>5. CASE sure' # sure
  <2>1. ~query[r].blind /\ sure' = Answer(r) /\ sure' > sure
    BY <1>1, <1>2, <1>5 DEF Larger
  <2>2. sure' <= seq /\ \A p \in Undecided : sure' < p
    BY <2>1, <1>1, SureAnswer DEF Undecided
  <2> QED
    BY <1>1, <1>2, <1>3, <2>1, <2>2 DEF Abstract!Next, Abstract!Answer
<1> QED
  BY <1>4, <1>5

LEMMA RestartStep ==
  ASSUME StreamInv, NEW i \in Instances, Restart(i)
  PROVE  Abstract!Next \/ UNCHANGED Abstract!vars
<1>1. UNCHANGED <<seq, sure, committed, early>>
  BY DEF Restart, database, history
<1>2. \A w \in Writers : ids'[w] = {} \/ (ids'[w] = ids[w] /\ pc'[w] = pc[w])
  BY DEF Restart, StreamInv, TypeOK
<1>3. Undecided' \subseteq Undecided
  BY <1>2 DEF Undecided
<1> QED
  BY <1>1, <1>3, DecideOrStutter

\* The steps that change nothing the abstract stream sees.
LEMMA UnseenStep ==
  ASSUME StreamInv, UNCHANGED <<seq, sure, committed, early>>,
         \A w \in Writers : ids'[w] = ids[w] \/ pc[w] \notin {"fetching", "holding"},
         \A w \in Writers : ids'[w] # {} =>
           (pc'[w] \in {"fetching", "holding"} <=> pc[w] \in {"fetching", "holding"})
  PROVE  UNCHANGED Abstract!vars
<1>1. Undecided' = Undecided
  <2>1. \A w \in Writers : \A p :
          (p \in ids'[w] /\ pc'[w] \in {"fetching", "holding"}) <=>
          (p \in ids[w] /\ pc[w] \in {"fetching", "holding"})
    OBVIOUS
  <2> QED
    BY <2>1 DEF Undecided
<1> QED
  BY <1>1 DEF Abstract!vars

LEMMA AbstractStep ==
  ASSUME StreamInv, [Next]_vars
  PROVE  Abstract!Next \/ UNCHANGED Abstract!vars
<1> USE DEF database, memory, callers, history
<1>0. TypeOK /\ ListsCoverTheCallers
  BY DEF StreamInv
<1>1. ASSUME NEW w \in Writers, NextBegin(w)
      PROVE  UNCHANGED Abstract!vars
  <2>1. ids[w] = {} /\ pc' = [pc EXCEPT ![w] = "fetching"] /\ ids' = ids
    BY <1>0, <1>1 DEF NextBegin, ListsCoverTheCallers
  <2> QED
    BY <2>1, <1>0, <1>1, UnseenStep DEF NextBegin, TypeOK
<1>2. ASSUME NEW w \in Writers, NextRegister(w)
      PROVE  UNCHANGED Abstract!vars
  BY <1>0, <1>2, UnseenStep DEF NextRegister, TypeOK
<1>3. ASSUME NEW w \in Writers, Persist(w) \/ PersistFail(w)
      PROVE  UNCHANGED Abstract!vars
  <2>1. /\ pc[w] = "persisting" /\ AfterPersisting(w)
        /\ UNCHANGED <<seq, committed, history>>
    BY <1>3 DEF Persist, PersistFail
  <2>2. PICK ph \in {"idle", "outer"} :
          /\ pc' = [pc EXCEPT ![w] = ph]
          /\ ids' \in {ids, [ids EXCEPT ![w] = {}]}
    BY <1>0, <2>1, AfterPersistingEffect
  <2> QED
    BY <2>1, <2>2, <1>0, UnseenStep DEF TypeOK
<1>4. ASSUME NEW w \in Writers, WriterStep(w)
      PROVE  Abstract!Next \/ UNCHANGED Abstract!vars
  BY <1>1, <1>2, <1>3, <1>4, IssueStep, DecideStep, ReleaseStep DEF WriterStep
<1>5. ASSUME NEW r \in Readers, ReaderStep(r)
      PROVE  Abstract!Next \/ UNCHANGED Abstract!vars
  <2>1. CASE PublishedQuery(r)
    BY <2>1, UnseenStep DEF PublishedQuery
  <2> QED
    BY <2>1, <1>5, AnswerStep DEF ReaderStep
<1>6. ASSUME NEW i \in Instances, GoStale(i) \/ Restart(i)
      PROVE  Abstract!Next \/ UNCHANGED Abstract!vars
  <2>1. CASE GoStale(i)
    BY <2>1, UnseenStep DEF GoStale
  <2> QED
    BY <2>1, <1>6, RestartStep
<1>7. CASE UNCHANGED vars
  BY <1>7, UnseenStep DEF vars
<1> QED
  BY <1>4, <1>5, <1>6, <1>7 DEF Next

\* Seen through the answers that had a row of every instance and the commits
\* that precede their release, the stream of any number of instances is the
\* abstract stream of PublishedStream (all of stream.go).
THEOREM StreamImplementsPublishedStream ==
  ASSUME 0 < FirstSeq
  PROVE  Spec => ImplementsPublishedStream
<1>1. Init => Abstract!Init
  BY DEF Init, Abstract!Init, Undecided
<1>2. StreamInv /\ [Next]_vars => [Abstract!Next]_(Abstract!vars)
  BY AbstractStep
<1> QED
  BY <1>1, <1>2, StreamInvariant, PTL DEF Spec, ImplementsPublishedStream, Abstract!Spec

=============================================================================
