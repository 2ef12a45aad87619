--------------------------- MODULE StreamPositions ---------------------------
(***************************************************************************)
(* The stream positions of internal/pkg/postgres/stream.go.                *)
(*                                                                         *)
(* Server instances share a PostgreSQL sequence and a stream_positions     *)
(* table with one row per instance.  A writer draws positions from the     *)
(* sequence (Next), writes its rows in a transaction, and hands the        *)
(* positions back (Release); the instance then moves its own watermark     *)
(* upTo and records it in its row (persist).  A reader asks an instance    *)
(* how far it may read (Published): one query for the other instances'     *)
(* rows and the sequence, then, later and under the mutex, a look at the   *)
(* instance's memory.                                                      *)
(*                                                                         *)
(* A nested writer is one whose Release runs inside a transaction that the *)
(* caller commits afterwards: postgres.WithTx joins the transaction it     *)
(* finds in the context, so rooms.Create and the device list updates of    *)
(* users.Login, Logout and DeleteDevices give their positions back first.  *)
(*                                                                         *)
(* Positions are modelled by their absolute value (the sign of a backfill  *)
(* stream is applied at the edges of every function and never inside).     *)
(***************************************************************************)
EXTENDS Integers, FiniteSets

CONSTANTS Instances,   \* server instances, each with a Stream of its own
          Writers,     \* concurrent callers of Next
          Readers,     \* concurrent callers of Published
          Nested,      \* the writers whose Release precedes their commit
          Home,        \* the instance each writer and reader runs on
          FirstSeq,    \* positions the sequence issued before the start
          MaxPos,      \* bound: the sequence stops here
          MaxCount     \* bound: positions asked for by one call of Next

ASSUME StreamAssumption ==
         /\ Nested \subseteq Writers
         /\ Home \in [Writers \cup Readers -> Instances]
         /\ FirstSeq \in Nat
         /\ MaxPos \in Nat
         /\ MaxCount \in Nat \ {0}

VARIABLES
  \* the database
  seq,        \* the last value the sequence issued (0: none yet)
  stored,     \* stream_positions.stream_id of each instance (0: no row)
  recent,     \* updated_at of that row is within writerStaleAfter
  committed,  \* positions whose transaction has committed
  \* the memory of each instance's Stream
  inFlight, fetching, finished, maxSeen, upTo,
  \* each caller of Next
  pc,         \* where it is
  marker,     \* the maxSeen it entered in fetching
  wanted,     \* positions it has still to draw from the sequence
  ids,        \* positions it has drawn
  toStore,    \* the watermark its release is about to persist
  \* each caller of Published: what its query read, until it takes the mutex
  query,
  \* history
  early,      \* positions released while their transaction was open
  promised,   \* the greatest answer each reader has had
  sure        \* the greatest answer computed from a row of every instance

database == <<seq, stored, recent, committed>>
memory   == <<inFlight, fetching, finished, maxSeen, upTo>>
callers  == <<pc, marker, wanted, ids, toStore>>
history  == <<early, promised, sure>>
vars     == <<database, memory, callers, query, history>>

-----------------------------------------------------------------------------
NoQuery == [others |-> 0, issued |-> -1, blind |-> FALSE]

Queries == [others : Nat, issued : Nat, blind : BOOLEAN]

Phases == {"idle", "fetching", "holding", "settled", "persisting", "outer"}

TypeOK ==
  /\ seq \in Nat
  /\ stored \in [Instances -> Nat]
  /\ recent \in [Instances -> BOOLEAN]
  /\ committed \subseteq Nat
  /\ inFlight \in [Instances -> SUBSET Nat]
  /\ fetching \in [Instances -> SUBSET Writers]
  /\ finished \in [Instances -> SUBSET Nat]
  /\ maxSeen \in [Instances -> Nat]
  /\ upTo \in [Instances -> Nat]
  /\ pc \in [Writers -> Phases]
  /\ marker \in [Writers -> Nat]
  /\ wanted \in [Writers -> Nat]
  /\ ids \in [Writers -> SUBSET Nat]
  /\ toStore \in [Writers -> Nat]
  /\ query \in [Readers -> {NoQuery} \cup Queries]
  /\ early \subseteq Nat
  /\ promised \in [Readers -> Nat]
  /\ sure \in Nat

Init ==
  /\ seq = FirstSeq
  /\ stored = [i \in Instances |-> 0]
  /\ recent = [i \in Instances |-> FALSE]
  /\ committed = {}
  /\ inFlight = [i \in Instances |-> {}]
  /\ fetching = [i \in Instances |-> {}]
  /\ finished = [i \in Instances |-> {}]
  /\ maxSeen = [i \in Instances |-> 0]
  /\ upTo = [i \in Instances |-> 0]
  /\ pc = [w \in Writers |-> "idle"]
  /\ marker = [w \in Writers |-> 0]
  /\ wanted = [w \in Writers |-> 0]
  /\ ids = [w \in Writers |-> {}]
  /\ toStore = [w \in Writers |-> 0]
  /\ query = [r \in Readers |-> NoQuery]
  /\ early = {}
  /\ promised = [r \in Readers |-> 0]
  /\ sure = 0

IsLeast(m, S) == m \in S /\ \A x \in S : m <= x
IsGreatest(m, S) == m \in S /\ \A x \in S : x <= m
Larger(a, b) == IF a >= b THEN a ELSE b

Idle(w) == /\ pc' = [pc EXCEPT ![w] = "idle"]
           /\ ids' = [ids EXCEPT ![w] = {}]

-----------------------------------------------------------------------------
(* Next, in three steps: a marker under the mutex, the sequence without    *)
(* it, the registration of the positions under it again.                   *)

NextBegin(w) ==
  /\ pc[w] = "idle"
  /\ seq < MaxPos
  /\ pc' = [pc EXCEPT ![w] = "fetching"]
  /\ \E n \in 1..MaxCount : wanted' = [wanted EXCEPT ![w] = n]
  /\ marker' = [marker EXCEPT ![w] = maxSeen[Home[w]]]
  /\ fetching' = [fetching EXCEPT ![Home[w]] = @ \cup {w}]
  /\ UNCHANGED <<database, inFlight, finished, maxSeen, upTo, ids, toStore,
                 query, history>>

\* One nextval of the generate_series: other sessions draw in between.
Nextval(w) ==
  /\ pc[w] = "fetching"
  /\ wanted[w] > 0
  /\ seq < MaxPos
  /\ seq' = seq + 1
  /\ ids' = [ids EXCEPT ![w] = @ \cup {seq + 1}]
  /\ wanted' = [wanted EXCEPT ![w] = @ - 1]
  /\ UNCHANGED <<stored, recent, committed, memory, pc, marker,
                 toStore, query, history>>

\* Mutant: registration that forgets to raise maxSeen.
NextRegisterForgetsMaxSeen(w) ==
  /\ pc[w] = "fetching"
  /\ wanted[w] = 0
  /\ inFlight' = [inFlight EXCEPT ![Home[w]] = @ \cup ids[w]]
  /\ fetching' = [fetching EXCEPT ![Home[w]] = @ \ {w}]
  /\ pc' = [pc EXCEPT ![w] = "holding"]
  /\ marker' = [marker EXCEPT ![w] = 0]
  /\ UNCHANGED <<database, finished, maxSeen, upTo, wanted, ids, toStore,
                 query, history>>

NextRegister(w) ==
  /\ pc[w] = "fetching"
  /\ wanted[w] = 0
  /\ LET i == Home[w] IN
       /\ inFlight' = [inFlight EXCEPT ![i] = @ \cup ids[w]]
       /\ \E m \in ids[w] :
            /\ IsGreatest(m, ids[w])
            /\ maxSeen' = [maxSeen EXCEPT ![i] = Larger(@, m)]
       /\ fetching' = [fetching EXCEPT ![i] = @ \ {w}]
  /\ pc' = [pc EXCEPT ![w] = "holding"]
  /\ marker' = [marker EXCEPT ![w] = 0]
  /\ UNCHANGED <<database, finished, upTo, wanted, ids, toStore,
                 query, history>>

\* Mutant: a failed allocation that leaves its marker behind.
NextFailLeaksMarker(w) ==
  /\ pc[w] = "fetching"
  /\ Idle(w)
  /\ wanted' = [wanted EXCEPT ![w] = 0]
  /\ UNCHANGED <<database, memory, marker, toStore, query, history>>

\* The allocation fails (a cancelled context, a lost connection): whatever
\* was drawn is never registered and never written.
NextFail(w) ==
  /\ pc[w] = "fetching"
  /\ fetching' = [fetching EXCEPT ![Home[w]] = @ \ {w}]
  /\ Idle(w)
  /\ marker' = [marker EXCEPT ![w] = 0]
  /\ wanted' = [wanted EXCEPT ![w] = 0]
  /\ UNCHANGED <<database, inFlight, finished, maxSeen, upTo, toStore, query,
                 history>>

-----------------------------------------------------------------------------
(* The writer's transaction: its own, or the caller's once it is nested.   *)

AfterSettling(w) ==
  \/ /\ pc[w] = "holding" /\ w \notin Nested
     /\ pc' = [pc EXCEPT ![w] = "settled"]
     /\ UNCHANGED ids
  \/ /\ pc[w] = "outer"
     /\ Idle(w)

Commit(w) ==
  /\ AfterSettling(w)
  /\ committed' = committed \cup ids[w]
  /\ UNCHANGED <<seq, stored, recent, memory, marker, wanted, toStore, query,
                 history>>

Rollback(w) ==
  /\ AfterSettling(w)
  /\ UNCHANGED <<database, memory, marker, wanted, toStore, query, history>>

-----------------------------------------------------------------------------
(* Release: move the positions to finished and advance the watermark to    *)
(* the greatest finished position below everything in flight and not past  *)
(* a marker, under the mutex; record a watermark that moved, without it.   *)

\* Mutant: advance looks at inFlight and not at the markers.
PassableIgnoringMarkers(i, flying, done) ==
  {p \in done : \A q \in flying : p < q}

\* What advance may pass, given what is in flight and finished by then.
Passable(i, flying, done) ==
  {p \in done : /\ \A q \in flying : p < q
                /\ \A f \in fetching[i] : p < marker[f] + 1}

Release(w) ==
  /\ \/ pc[w] = "settled"
     \/ pc[w] = "holding" /\ w \in Nested
  /\ LET i      == Home[w]
         flying == inFlight[i] \ ids[w]
         done   == finished[i] \cup ids[w]
         pass   == Passable(i, flying, done)
     IN \E u \in {upTo[i]} \cup pass :
          /\ IsGreatest(u, {upTo[i]} \cup pass)
          /\ inFlight' = [inFlight EXCEPT ![i] = flying]
          /\ finished' = [finished EXCEPT ![i] = done \ pass]
          /\ upTo' = [upTo EXCEPT ![i] = u]
          /\ IF u # upTo[i]
             THEN /\ pc' = [pc EXCEPT ![w] = "persisting"]
                  /\ toStore' = [toStore EXCEPT ![w] = u]
                  /\ UNCHANGED ids
             ELSE /\ IF w \in Nested
                     THEN /\ pc' = [pc EXCEPT ![w] = "outer"]
                          /\ UNCHANGED ids
                     ELSE Idle(w)
                  /\ UNCHANGED toStore
  /\ early' = IF pc[w] = "holding" THEN early \cup ids[w] ELSE early
  /\ UNCHANGED <<database, fetching, maxSeen, marker, wanted, query, promised,
                 sure>>

AfterPersisting(w) ==
  /\ toStore' = [toStore EXCEPT ![w] = 0]
  /\ IF w \in Nested
     THEN /\ pc' = [pc EXCEPT ![w] = "outer"]
          /\ UNCHANGED ids
     ELSE Idle(w)

\* The upsert moves the row forward or leaves it, updated_at included, alone.
Persist(w) ==
  /\ pc[w] = "persisting"
  /\ LET i == Home[w] IN
       IF stored[i] < toStore[w]
       THEN /\ stored' = [stored EXCEPT ![i] = toStore[w]]
            /\ recent' = [recent EXCEPT ![i] = TRUE]
       ELSE UNCHANGED <<stored, recent>>
  /\ AfterPersisting(w)
  /\ UNCHANGED <<seq, committed, memory, marker, wanted, query, history>>

\* A failed upsert is logged and forgotten.
PersistFail(w) ==
  /\ pc[w] = "persisting"
  /\ AfterPersisting(w)
  /\ UNCHANGED <<database, memory, marker, wanted, query, history>>

-----------------------------------------------------------------------------
(* Published.                                                              *)

\* The rows of the other instances that the query counts.
Counted(i) == {j \in Instances \ {i} : stored[j] > 0 /\ recent[j]}

\* A sequence nobody has drawn from reports last_value 1 all the same.
LastValue == Larger(seq, 1)

PublishedQuery(r) ==
  /\ query[r] = NoQuery
  /\ LET i    == Home[r]
         rows == {stored[j] : j \in Counted(i)}
     IN \E m \in rows \cup {0} :
          /\ IF rows = {} THEN m = 0 ELSE IsLeast(m, rows)
          /\ query' = [query EXCEPT ![r] =
                         [others |-> m, issued |-> LastValue,
                          blind  |-> Counted(i) # Instances \ {i}]]
  /\ UNCHANGED <<database, memory, callers, history>>

\* Mutant: a stream somebody is drawing from counts as quiet.
LocalIgnoringFetching(i, issued) ==
  IF inFlight[i] = {} THEN Larger(upTo[i], issued) ELSE upTo[i]

\* The instance's own ceiling, under the mutex.
Local(i, issued) == IF inFlight[i] = {} /\ fetching[i] = {}
                    THEN Larger(upTo[i], issued)
                    ELSE upTo[i]

\* Mutant: the other instances' rows are read and not used.
AnswerAlone(r) == Local(Home[r], query[r].issued)

Answer(r) ==
  LET q    == query[r]
      mine == Local(Home[r], q.issued)
  IN IF q.others > 0 /\ q.others < mine THEN q.others ELSE mine

PublishedAnswer(r) ==
  /\ query[r] # NoQuery
  /\ promised' = [promised EXCEPT ![r] = Larger(@, Answer(r))]
  /\ sure' = IF query[r].blind THEN sure ELSE Larger(sure, Answer(r))
  /\ query' = [query EXCEPT ![r] = NoQuery]
  /\ UNCHANGED <<database, memory, callers, early>>

-----------------------------------------------------------------------------
(* The environment.                                                        *)

\* writerStaleAfter has passed since the instance last moved its row.
GoStale(i) ==
  /\ recent[i]
  /\ recent' = [recent EXCEPT ![i] = FALSE]
  /\ UNCHANGED <<seq, stored, committed, memory, callers, query, history>>

\* The process dies: its open transactions are rolled back with their
\* connections, its memory is gone, and NewStream starts from the row.
Restart(i) ==
  LET Mine(f, v) == [x \in DOMAIN f |-> IF Home[x] = i THEN v ELSE f[x]]
  IN /\ inFlight' = [inFlight EXCEPT ![i] = {}]
     /\ fetching' = [fetching EXCEPT ![i] = {}]
     /\ finished' = [finished EXCEPT ![i] = {}]
     /\ maxSeen' = [maxSeen EXCEPT ![i] = stored[i]]
     /\ upTo' = [upTo EXCEPT ![i] = stored[i]]
     /\ pc' = Mine(pc, "idle")
     /\ marker' = Mine(marker, 0)
     /\ wanted' = Mine(wanted, 0)
     /\ ids' = Mine(ids, {})
     /\ toStore' = Mine(toStore, 0)
     /\ query' = Mine(query, NoQuery)
     /\ UNCHANGED <<database, history>>

-----------------------------------------------------------------------------
WriterStep(w) == \/ NextBegin(w) \/ Nextval(w) \/ NextRegister(w) \/ NextFail(w)
                 \/ Commit(w) \/ Rollback(w)
                 \/ Release(w) \/ Persist(w) \/ PersistFail(w)

ReaderStep(r) == PublishedQuery(r) \/ PublishedAnswer(r)

Next == \/ \E w \in Writers : WriterStep(w)
        \/ \E r \in Readers : ReaderStep(r)
        \/ \E i \in Instances : GoStale(i) \/ Restart(i)

Spec == Init /\ [][Next]_vars

(* Fairness.  Every goroutine keeps running; a transaction is decided one  *)
(* way or the other (statement, lock and idle timeouts end it); nextval    *)
(* does not fail for ever; sync requests keep coming and their query does  *)
(* not fail for ever; time passes.                                         *)
Fairness ==
  /\ \A w \in Writers :
       /\ WF_vars(Nextval(w) \/ NextRegister(w) \/ NextFail(w))
       /\ SF_vars(Nextval(w))
       /\ WF_vars(Commit(w) \/ Rollback(w))
       /\ WF_vars(Release(w))
       /\ WF_vars(Persist(w) \/ PersistFail(w))
  /\ \A r \in Readers :
       /\ SF_vars(PublishedQuery(r))
       /\ SF_vars(PublishedAnswer(r))
  /\ \A i \in Instances : WF_vars(GoStale(i))

FairSpec == Spec /\ Fairness

-----------------------------------------------------------------------------
(* Properties.                                                             *)

\* Positions whose transaction may still commit, drawn by a writer that
\* holds them until it has.
Undecided == UNION {ids[w] : w \in {v \in Writers :
                     pc[v] \in {"fetching", "holding"} /\ v \notin Nested}}

(* No position commits at or behind an answer Published has already given: *)
(* a sync cursor that stands at the answer would skip its event for ever.  *)
NothingCommitsBehindAnAnswer ==
  [][\A p \in committed' \ committed :
        \A r \in Readers : promised[r] < p]_vars

(* The same of the answers computed from a fresh row of every other        *)
(* instance, and of the positions given back after their commit.           *)
SureAnswersHold ==
  [][\A p \in committed' \ committed : p \in early \/ sure < p]_vars

(* Those answers are the answers of the abstract stream.                   *)
Abstract == INSTANCE PublishedStream
              WITH issued <- seq, open <- Undecided,
                   committed <- committed \ early, answered <- sure

ImplementsPublishedStream == Abstract!Spec

(* An instance's watermark (Current, and the row a restart loads) stays    *)
(* below every position drawn on that instance and not yet given back,     *)
(* also while the position is drawn and not yet registered.                *)
WatermarkBelowHeld ==
  \A w \in Writers : pc[w] \in {"fetching", "holding", "settled"} =>
    \A p \in ids[w] : upTo[Home[w]] < p /\ stored[Home[w]] < p

(* The inductive strengthening of SureAnswersHold and WatermarkBelowHeld.  *)

\* The two lists of a Stream cover what its callers draw and hold, and a
\* caller that is neither drawing nor holding has nothing.
ListsCoverTheCallers ==
  \A w \in Writers :
    /\ pc[w] = "idle" => ids[w] = {}
    /\ pc[w] = "fetching" => w \in fetching[Home[w]]
    /\ pc[w] \in {"holding", "settled"} => ids[w] \subseteq inFlight[Home[w]]

\* Everything is within what the sequence has issued, once for each caller.
WithinTheSequence ==
  /\ sure <= seq
  /\ \A i \in Instances : maxSeen[i] <= seq
  /\ \A w \in Writers : \A p \in ids[w] : 0 < p /\ p <= seq
  /\ \A v, w \in Writers : v # w => ids[v] \cap ids[w] = {}

\* The row trails the watermark, the watermark trails what was registered.
Trailing ==
  /\ \A i \in Instances : stored[i] <= upTo[i] /\ upTo[i] <= maxSeen[i]
  /\ \A i \in Instances : \A p \in finished[i] : p <= maxSeen[i]
  /\ \A w \in Writers : toStore[w] <= upTo[Home[w]]
  /\ \A w \in Writers : pc[w] \in {"holding", "settled"} =>
       \A p \in ids[w] : p <= maxSeen[Home[w]]

\* A marker separates the watermark from what its caller draws.
MarkersSeparate ==
  \A w \in Writers : pc[w] = "fetching" =>
    /\ upTo[Home[w]] <= marker[w] /\ marker[w] <= seq
    /\ \A p \in ids[w] : marker[w] < p

WatermarkBelowRegistered ==
  \A w \in Writers : pc[w] \in {"holding", "settled"} =>
    \A p \in ids[w] : upTo[Home[w]] < p

\* A reader between its query and the mutex knows no more than the rows say.
QueriesTrail ==
  \A r \in Readers : query[r] # NoQuery =>
    /\ query[r].issued <= seq
    /\ ~query[r].blind => \A j \in Instances \ {Home[r]} :
         0 < query[r].others /\ query[r].others <= stored[j]

SureBelowUndecided ==
  \A w \in Writers \ Nested : pc[w] \in {"fetching", "holding"} =>
    \A p \in ids[w] : sure < p

\* A writer whose transaction is settled is not nested; a nested one that
\* has given its positions back is known to have done so early.
ReleasedEarly ==
  \A w \in Writers :
    /\ pc[w] = "settled" => w \notin Nested
    /\ pc[w] = "outer" => w \in Nested
    /\ pc[w] \in {"persisting", "outer"} /\ w \in Nested => ids[w] \subseteq early

\* A transaction commits once, and only at positions that were issued; what
\* somebody holds has not been given back.
HeldAreUncommitted ==
  /\ \A p \in committed \cup early : p <= seq
  /\ \A w \in Writers : pc[w] \in {"fetching", "holding"} =>
       ids[w] \cap (committed \cup early) = {}

StreamInv ==
  /\ TypeOK
  /\ ListsCoverTheCallers
  /\ WithinTheSequence
  /\ Trailing
  /\ MarkersSeparate
  /\ WatermarkBelowRegistered
  /\ QueriesTrail
  /\ SureBelowUndecided
  /\ ReleasedEarly
  /\ HeldAreUncommitted

(* A committed position is sooner or later covered by an answer to every   *)
(* reader, on every instance.                                              *)
CommittedIsAnswered ==
  \A p \in 1..MaxPos, r \in Readers : p \in committed ~> p <= promised[r]
=============================================================================
