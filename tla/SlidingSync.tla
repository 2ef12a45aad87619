----------------------------- MODULE SlidingSync -----------------------------
(***************************************************************************)
(* One sliding sync connection (a tenant, user, device and conn_id) of     *)
(* internal/service/sync, with its row and rooms in the connection         *)
(* repository, the request handlers that work on it, and its client.       *)
(*                                                                         *)
(* The server remembers, for each connection, the confirmed generation the *)
(* client is known to have and at most one pending generation it has been  *)
(* offered, and for each room how far it was sent in either.  A request    *)
(* that shows the pending generation acknowledges it; one that shows the   *)
(* confirmed generation discards the offer and is served again.  Every SQL *)
(* statement commits on its own: a handler can be cancelled between two of *)
(* them.  Handlers of one instance take turns through the serialiser gate. *)
(*                                                                         *)
(* Event positions are issued, settled and published as PublishedStream    *)
(* describes; a handler reads what has been published, which may be less   *)
(* than another has read before.  The account data of the user stands for  *)
(* the extensions that keep a cursor.                                      *)
(***************************************************************************)
EXTENDS Integers, FiniteSetsExt

CONSTANTS Rooms, Handlers, Instances,
          Home,       \* the instance each handler runs on
          Wants,      \* subset of BOOLEAN: requests with the extension on, off
          Widens,     \* subset of BOOLEAN: with a larger limit or more state
          MaxPos,     \* bound: event positions issued
          MaxData,    \* bound: account data writes
          MaxGen,     \* bound: generations of a connection
          MaxNid,     \* bound: connection rows ever created
          MaxFaults   \* bound: cancelled, abandoned, swept, forgotten, receded

Nobody == "nobody"

ASSUME SyncAssumption == /\ Nobody \notin Handlers
                         /\ Home \in [Handlers -> Instances]
                         /\ Wants \subseteq BOOLEAN /\ Widens \subseteq BOOLEAN
                         /\ {MaxPos, MaxData, MaxGen, MaxNid, MaxFaults} \subseteq Nat

VARIABLES
  \* the event stream, the rooms and the user's account data
  issued, open, committed, published, roomOf, dataAt,
  receded,    \* history: the greatest position published has gone back from
  \* the connection's row and its room rows (sent_to, or Unsent: no row)
  conn, sentTo, staged,
  \* the handlers, and who is before each at the gate of its instance
  pc, sess, ahead,
  \* the client: the position it holds, what it has received
  client,
  nids, faults

store    == <<issued, open, committed, published, receded, roomOf, dataAt>>
row      == <<conn, sentTo, staged>>
handlers == <<pc, sess, ahead>>
vars     == <<store, row, handlers, client, nids, faults>>

-----------------------------------------------------------------------------
Unsent == -1
Fresh  == [nid |-> 0, gen |-> 0]            \* an empty pos
NoRow  == [nid |-> 0, confirmed |-> 0, cursor |-> 0, pending |-> 0, offered |-> 0]

Positions == [nid : Nat, gen : Nat]
NoReply   == [gen |-> 0, events |-> {}, data |-> {}, rooms |-> {}, ceiling |-> 0, dataTo |-> 0]
NoSession == [pos |-> Fresh, rooms |-> {}, widen |-> FALSE, wants |-> TRUE, nid |-> 0,
              confirmed |-> 0, cursor |-> 0, initial |-> FALSE, reply |-> NoReply]

Statements == {"reset1", "reset2", "ack1", "ack2", "ack3", "discard1", "discard2",
               "attempt", "parked", "stage1", "stage2", "reply"}
Phases == {"idle", "gate"} \cup Statements

TypeOK ==
  /\ issued \in 0..MaxPos /\ open \subseteq 1..issued /\ committed \subseteq 1..issued
  /\ published \in 0..issued /\ receded \in 0..issued /\ dataAt \in 0..MaxData
  /\ roomOf \in [1..MaxPos -> Rooms]
  /\ conn \in [nid : 0..MaxNid, confirmed : Nat, cursor : Nat, pending : Nat, offered : Nat]
  /\ sentTo \in [Rooms -> {Unsent} \cup Nat]
  /\ staged \in [Rooms -> {Unsent} \cup Nat]
  /\ pc \in [Handlers -> Phases]
  /\ \A h \in Handlers : DOMAIN sess[h] = DOMAIN NoSession
  /\ ahead \in [Handlers -> SUBSET Handlers]
  /\ client.pos \in Positions /\ client.asked \in Handlers \cup {Nobody}
  /\ client.have \subseteq committed /\ client.data \subseteq 1..dataAt
  /\ nids \in 0..MaxNid /\ faults \in 0..MaxFaults

Init ==
  /\ issued = 0 /\ open = {} /\ committed = {} /\ published = 0 /\ receded = 0 /\ dataAt = 0
  /\ roomOf \in [1..MaxPos -> Rooms]
  /\ conn = NoRow
  /\ sentTo = [r \in Rooms |-> Unsent]
  /\ staged = [r \in Rooms |-> Unsent]
  /\ pc = [h \in Handlers |-> "idle"]
  /\ sess = [h \in Handlers |-> NoSession]
  /\ ahead = [h \in Handlers |-> {}]
  /\ client = [pos |-> Fresh, asked |-> Nobody, have |-> {}, data |-> {}]
  /\ nids = 0 /\ faults = 0

-----------------------------------------------------------------------------
(* The writers of events and account data, and the published position.     *)

\* A position is drawn, or drawn in vain by an allocation that fails.
Send == /\ issued < MaxPos
        /\ issued' = issued + 1
        /\ open' \in {open, open \cup {issued + 1}}
        /\ UNCHANGED <<committed, published, receded, roomOf, dataAt, row, handlers, client,
                       nids, faults>>

\* The end of the transaction that holds these positions.
Settle(S) == /\ S # {}
             /\ open' = open \ S
             /\ committed' \in {committed, committed \cup S}
             /\ UNCHANGED <<issued, published, receded, roomOf, dataAt, row, handlers, client,
                            nids, faults>>

Publish == /\ published' \in published + 1 .. issued
           /\ \A p \in open : published' < p
           /\ UNCHANGED <<issued, open, committed, receded, roomOf, dataAt, row, handlers, client,
                          nids, faults>>

\* A later answer may be less: a position is in flight again after a failed
\* persist and a restart, or the row of another instance is counted again.
Recede == /\ faults < MaxFaults
          /\ published' \in 0 .. published - 1
          /\ receded' = Max({receded, published})
          /\ faults' = faults + 1
          /\ UNCHANGED <<issued, open, committed, roomOf, dataAt, row, handlers, client, nids>>

SetAccountData == /\ dataAt < MaxData
                  /\ dataAt' = dataAt + 1
                  /\ UNCHANGED <<issued, open, committed, published, receded, roomOf, row,
                                 handlers, client, nids, faults>>

\* Mutant: events are read before their transaction has committed.
UncommittedEvents(r) == {p \in 1..issued : roomOf[p] = r}

Events(r) == {p \in committed : roomOf[p] = r}
LastStream(r) == Max({0} \cup Events(r))

-----------------------------------------------------------------------------
(* The client sends one request at a time, showing the position of the     *)
(* last response it has processed; requests reach the gate of an instance  *)
(* in the order they were sent, and the gate lets them in in that order.   *)

Request(h) ==
  /\ client.asked = Nobody
  /\ pc[h] = "idle"
  /\ conn.confirmed < MaxGen
  /\ \E rooms \in SUBSET Rooms \ {{}}, widen \in Widens, wants \in Wants :
       sess' = [sess EXCEPT ![h] = [NoSession EXCEPT !.pos = client.pos, !.rooms = rooms,
                                                     !.widen = widen, !.wants = wants]]
  /\ client' = [client EXCEPT !.asked = h]
  /\ pc' = [pc EXCEPT ![h] = "gate"]
  /\ ahead' = [ahead EXCEPT ![h] = {g \in Handlers : pc[g] # "idle" /\ Home[g] = Home[h]}]
  /\ UNCHANGED <<store, row, nids, faults>>

\* The client stops waiting; the handler may run on.
GiveUp ==
  /\ client.asked # Nobody
  /\ faults < MaxFaults
  /\ client' = [client EXCEPT !.asked = Nobody]
  /\ faults' = faults + 1
  /\ UNCHANGED <<store, row, handlers, nids>>

\* The client loses its state and starts over with the same conn_id.
Forget ==
  /\ faults < MaxFaults
  /\ client.pos # Fresh
  /\ client' = [pos |-> Fresh, asked |-> Nobody, have |-> {}, data |-> {}]
  /\ faults' = faults + 1
  /\ UNCHANGED <<store, row, handlers, nids>>

-----------------------------------------------------------------------------
(* A handler.  Do of the serialiser wraps all of it.                       *)

Goto(h, phase) == pc' = [pc EXCEPT ![h] = phase]

Leave(h) ==
  /\ Goto(h, "idle")
  /\ sess' = [sess EXCEPT ![h] = NoSession]
  /\ ahead' = [g \in Handlers |-> IF g = h THEN {} ELSE ahead[g] \ {h}]

\* The request ends in an error, and its client holds what it held before.
Refuse(h) ==
  /\ Leave(h)
  /\ client' = IF client.asked = h THEN [client EXCEPT !.asked = Nobody] ELSE client

\* The handler's turn: the resolution is the first thing it does inside.
Turn(h) == pc[h] = "gate" /\ ahead[h] = {}

\* The row the session was resolved to is still there.
Mine(h) == conn.nid # 0 /\ conn.nid = sess[h].nid

\* Mutant: the session of a connection that is reset keeps its cursors.
OpenKeepsTheCursors(h) ==
  /\ Turn(h) /\ sess[h].pos = Fresh
  /\ IF conn.nid # 0
     THEN UNCHANGED <<conn, nids>>
     ELSE /\ nids < MaxNid
          /\ nids' = nids + 1
          /\ conn' = [NoRow EXCEPT !.nid = nids + 1]
  /\ sess' = [sess EXCEPT ![h].nid = conn'.nid, ![h].initial = TRUE,
                          ![h].cursor = conn.cursor]
  /\ Goto(h, "reset1")
  /\ UNCHANGED <<store, sentTo, staged, ahead, client, faults>>

\* resolve without a pos: insert or find the row, then reset it.
Open(h) ==
  /\ Turn(h) /\ sess[h].pos = Fresh
  /\ IF conn.nid # 0
     THEN UNCHANGED <<conn, nids>>
     ELSE /\ nids < MaxNid
          /\ nids' = nids + 1
          /\ conn' = [NoRow EXCEPT !.nid = nids + 1]
  /\ sess' = [sess EXCEPT ![h].nid = conn'.nid, ![h].initial = TRUE]
  /\ Goto(h, "reset1")
  /\ UNCHANGED <<store, sentTo, staged, ahead, client, faults>>

\* resolve with a pos: which generation of the row does it name?
Resolve(h) ==
  /\ Turn(h)
  /\ sess[h].pos # Fresh /\ sess[h].pos.nid = conn.nid
  /\ LET gen == sess[h].pos.gen IN
       \/ /\ conn.pending # 0 /\ conn.pending = gen
          /\ sess' = [sess EXCEPT ![h].nid = conn.nid, ![h].confirmed = gen,
                                  ![h].cursor = conn.offered]
          /\ Goto(h, "ack1")
       \/ /\ conn.pending # gen /\ conn.confirmed = gen
          /\ sess' = [sess EXCEPT ![h].nid = conn.nid, ![h].confirmed = gen,
                                  ![h].cursor = conn.cursor]
          /\ Goto(h, "discard1")
  /\ UNCHANGED <<store, row, ahead, client, nids, faults>>

\* M_UNKNOWN_POS: the client starts over, keeping what it has.
UnknownPos(h) ==
  /\ Turn(h) /\ sess[h].pos # Fresh
  /\ \/ sess[h].pos.nid # conn.nid
     \/ sess[h].pos.gen \notin {conn.confirmed} \cup ({conn.pending} \ {0})
  /\ Leave(h)
  /\ client' = IF client.asked = h
               THEN [client EXCEPT !.asked = Nobody, !.pos = Fresh] ELSE client
  /\ UNCHANGED <<store, row, nids, faults>>

Unstaged == [r \in Rooms |-> Unsent]

\* Reset: delete the room rows, then clear the connection's.
Reset(h) ==
  \/ /\ pc[h] = "reset1"
     /\ IF Mine(h) THEN sentTo' = Unstaged /\ staged' = Unstaged
                   ELSE UNCHANGED <<sentTo, staged>>
     /\ Goto(h, "reset2")
     /\ UNCHANGED <<store, conn, sess, ahead, client, nids, faults>>
  \/ /\ pc[h] = "reset2"
     /\ conn' = IF Mine(h) THEN [NoRow EXCEPT !.nid = conn.nid] ELSE conn
     /\ Goto(h, "attempt")
     /\ UNCHANGED <<store, sentTo, staged, sess, ahead, client, nids, faults>>

\* Mutant: the staged rooms of a discarded offer are left behind.
DiscardKeepsRooms(h) ==
  \/ /\ pc[h] = "discard1"
     /\ Goto(h, "discard2")
     /\ UNCHANGED <<store, row, sess, ahead, client, nids, faults>>
  \/ /\ pc[h] = "discard2"
     /\ conn' = IF Mine(h) THEN [conn EXCEPT !.pending = 0, !.offered = 0] ELSE conn
     /\ Goto(h, "attempt")
     /\ UNCHANGED <<store, sentTo, staged, sess, ahead, client, nids, faults>>

\* Discard: delete the staged rooms, then take the offer back.
Discard(h) ==
  \/ /\ pc[h] = "discard1"
     /\ staged' = IF Mine(h) THEN Unstaged ELSE staged
     /\ Goto(h, "discard2")
     /\ UNCHANGED <<store, conn, sentTo, sess, ahead, client, nids, faults>>
  \/ /\ pc[h] = "discard2"
     /\ conn' = IF Mine(h) THEN [conn EXCEPT !.pending = 0, !.offered = 0] ELSE conn
     /\ Goto(h, "attempt")
     /\ UNCHANGED <<store, sentTo, staged, sess, ahead, client, nids, faults>>

Offered == {r \in Rooms : staged[r] # Unsent}

\* Acknowledge: delete the confirmed rooms that were offered again, promote
\* the offered ones (a promoted room may not meet a confirmed row), and make
\* the offer the confirmed generation if it still is the offer.
Acknowledge(h) ==
  \/ /\ pc[h] = "ack1"
     /\ sentTo' = IF Mine(h) THEN [r \in Rooms |-> IF r \in Offered THEN Unsent ELSE sentTo[r]]
                  ELSE sentTo
     /\ Goto(h, "ack2")
     /\ UNCHANGED <<store, conn, staged, sess, ahead, client, nids, faults>>
  \/ /\ pc[h] = "ack2"
     /\ Mine(h) => \A r \in Offered : sentTo[r] = Unsent
     /\ IF Mine(h)
        THEN /\ sentTo' = [r \in Rooms |-> IF r \in Offered THEN staged[r] ELSE sentTo[r]]
             /\ staged' = Unstaged
        ELSE UNCHANGED <<sentTo, staged>>
     /\ Goto(h, "ack3")
     /\ UNCHANGED <<store, conn, sess, ahead, client, nids, faults>>
  \/ /\ pc[h] = "ack3"
     /\ Mine(h) /\ conn.pending = sess[h].confirmed
     /\ conn' = [conn EXCEPT !.confirmed = sess[h].confirmed, !.cursor = sess[h].cursor,
                             !.pending = 0, !.offered = 0]
     /\ Goto(h, "attempt")
     /\ UNCHANGED <<store, sentTo, staged, sess, ahead, client, nids, faults>>

\* The statement matches no row, or meets a row it may not duplicate.
StatementFails(h) ==
  /\ \/ /\ pc[h] = "ack2" /\ Mine(h) /\ \E r \in Offered : sentTo[r] # Unsent
     \/ /\ pc[h] = "ack3" /\ ~(Mine(h) /\ conn.pending = sess[h].confirmed)
     \/ /\ pc[h] = "stage1"
        /\ ~(Mine(h) /\ conn.pending = 0 /\ conn.confirmed < sess[h].reply.gen)
  /\ Refuse(h)
  /\ UNCHANGED <<store, row, nids, faults>>

-----------------------------------------------------------------------------
(* attempt: what the response carries, read against what was published.    *)

KnownTo(h, r) == IF Mine(h) THEN sentTo[r] ELSE Unsent

\* Mutant: a room is due when something has been published for it.
DueWhenPublished(h) ==
  {r \in sess[h].rooms : \/ KnownTo(h, r) = Unsent
                         \/ \E p \in Events(r) : p > KnownTo(h, r) + 1
                         \/ sess[h].widen}

\* The rooms to send: new to the connection, with an event past what was
\* sent, or asked for with a larger limit or more state than before.
Due(h) == {r \in sess[h].rooms : \/ KnownTo(h, r) = Unsent
                                 \/ LastStream(r) > KnownTo(h, r)
                                 \/ sess[h].widen}

\* Mutant: a room that is known is sent like one that is new.
SinceTheBeginning(h, r) == 0

\* A room that is new or widened is sent from its beginning.
Since(h, r) == IF KnownTo(h, r) # Unsent /\ LastStream(r) > KnownTo(h, r)
               THEN KnownTo(h, r) ELSE 0

Window(h, r) == {p \in Events(r) : Since(h, r) < p /\ p <= published}

Data(h) == IF sess[h].wants THEN sess[h].cursor + 1 .. dataAt ELSE {}

\* Mutant: a room counts as sent up to its last event.
OfferBeyondTheCeiling(h) ==
  [gen |-> sess[h].confirmed + 1, events |-> UNION {Window(h, r) : r \in Due(h)},
   data |-> Data(h), rooms |-> Due(h), ceiling |-> issued, dataTo |-> dataAt]

Offer(h) ==
  [gen |-> sess[h].confirmed + 1, events |-> UNION {Window(h, r) : r \in Due(h)},
   data |-> Data(h), rooms |-> Due(h), ceiling |-> published, dataTo |-> dataAt]

\* The response is sent when it is the first one or carries anything.
Worthwhile(h) == sess[h].initial \/ Due(h) # {} \/ Data(h) # {}

Attempt(h) ==
  /\ pc[h] = "attempt" /\ Worthwhile(h)
  /\ Goto(h, "stage1")
  /\ sess' = [sess EXCEPT ![h].reply = Offer(h)]
  /\ UNCHANGED <<store, row, ahead, client, nids, faults>>

Park(h) ==
  /\ pc[h] = "attempt" /\ ~Worthwhile(h)
  /\ Goto(h, "parked")
  /\ UNCHANGED <<store, row, sess, ahead, client, nids, faults>>

\* The deadline has passed: an empty response at the confirmed position.
Expire(h) ==
  /\ pc[h] = "attempt" /\ ~Worthwhile(h)
  /\ Goto(h, "reply")
  /\ sess' = [sess EXCEPT ![h].reply = [NoReply EXCEPT !.gen = sess[h].confirmed]]
  /\ UNCHANGED <<store, row, ahead, client, nids, faults>>

\* Woken, or the timer: look again.
Wake(h) ==
  /\ pc[h] = "parked"
  /\ Goto(h, "attempt")
  /\ UNCHANGED <<store, row, sess, ahead, client, nids, faults>>

\* Mutant: Stage does not look at what has been confirmed meanwhile.
StageBehind(h) ==
  \/ /\ pc[h] = "stage1"
     /\ Mine(h) /\ conn.pending = 0
     /\ conn' = [conn EXCEPT !.pending = sess[h].reply.gen, !.offered = sess[h].reply.dataTo]
     /\ Goto(h, "stage2")
     /\ UNCHANGED <<store, sentTo, staged, sess, ahead, client, nids, faults>>
  \/ /\ pc[h] = "stage2"
     /\ Goto(h, "reply")
     /\ UNCHANGED <<store, row, sess, ahead, client, nids, faults>>

\* Stage: record the offer unless there is one, then its rooms.
Stage(h) ==
  \/ /\ pc[h] = "stage1"
     /\ Mine(h) /\ conn.pending = 0 /\ conn.confirmed < sess[h].reply.gen
     /\ conn' = [conn EXCEPT !.pending = sess[h].reply.gen, !.offered = sess[h].reply.dataTo]
     /\ Goto(h, "stage2")
     /\ UNCHANGED <<store, sentTo, staged, sess, ahead, client, nids, faults>>
  \/ /\ pc[h] = "stage2"
     /\ staged' = IF Mine(h)
                  THEN [r \in Rooms |-> IF r \in sess[h].reply.rooms
                                        THEN sess[h].reply.ceiling ELSE staged[r]]
                  ELSE staged
     /\ Goto(h, "reply")
     /\ UNCHANGED <<store, conn, sentTo, sess, ahead, client, nids, faults>>

\* The response reaches the client if it still waits for it.
Reply(h) ==
  /\ pc[h] = "reply"
  /\ Leave(h)
  /\ client' = IF client.asked = h
               THEN [pos   |-> [nid |-> sess[h].nid, gen |-> sess[h].reply.gen],
                     asked |-> Nobody,
                     have  |-> client.have \cup sess[h].reply.events,
                     data  |-> client.data \cup sess[h].reply.data]
               ELSE client
  /\ UNCHANGED <<store, row, nids, faults>>

\* A cancelled request, a failed statement, a stopped instance: the handler
\* ends wherever it is.
Cancel(h) ==
  /\ pc[h] # "idle"
  /\ faults < MaxFaults
  /\ Refuse(h)
  /\ faults' = faults + 1
  /\ UNCHANGED <<store, row, nids>>

\* The sweep deletes a connection nobody has used for a long time.
Sweep ==
  /\ conn.nid # 0
  /\ \A h \in Handlers : pc[h] = "idle"
  /\ faults < MaxFaults /\ nids < MaxNid
  /\ conn' = NoRow /\ sentTo' = Unstaged /\ staged' = Unstaged
  /\ faults' = faults + 1
  /\ UNCHANGED <<store, handlers, client, nids>>

-----------------------------------------------------------------------------
Serve(h) == \/ Open(h) \/ Resolve(h) \/ UnknownPos(h)
            \/ Reset(h) \/ Discard(h) \/ Acknowledge(h) \/ StatementFails(h)
            \/ Attempt(h) \/ Park(h) \/ Wake(h) \/ Expire(h) \/ Stage(h) \/ Reply(h)

Next == \/ Send \/ Publish \/ Recede \/ SetAccountData
        \/ \E S \in SUBSET open : Settle(S)
        \/ \E h \in Handlers : Request(h) \/ Serve(h) \/ Cancel(h)
        \/ GiveUp \/ Forget \/ Sweep

Spec == Init /\ [][Next]_vars

(* Fairness.  The client keeps asking, and keeps naming every room in some *)
(* of its requests (lists and subscriptions cover them); a handler whose   *)
(* turn it is runs on, and its deadline passes (MaxTimeout caps it);       *)
(* transactions are decided and the published position follows them (what  *)
(* StreamPositions shows).                                                 *)
Fairness ==
  /\ \A r \in Rooms : SF_vars(\E h \in Handlers : Request(h) /\ r \in sess'[h].rooms)
  /\ \A h \in Handlers : WF_vars(Serve(h)) /\ SF_vars(Expire(h))
  /\ WF_vars(\E S \in SUBSET open : Settle(S))
  /\ WF_vars(Publish)

FairSpec == Spec /\ Fairness

-----------------------------------------------------------------------------
(* Properties.                                                             *)

Holds(r, upTo) == \A p \in Events(r) : p <= upTo => p \in client.have

\* What the server will not send again if this client shows its position.
Trusted(r) == IF client.pos.gen = conn.pending /\ staged[r] # Unsent
              THEN staged[r] ELSE sentTo[r]

(* Whatever the server takes as received by a client that shows the        *)
(* position it holds, the client has: lost responses, abandoned handlers   *)
(* and handlers that end between two statements lose no event.             *)
NothingTrustedIsMissing ==
  client.pos.nid # 0 /\ client.pos.nid = conn.nid
  /\ client.pos.gen \in {conn.confirmed, conn.pending}
     => \A r \in Rooms : Holds(r, Trusted(r))

(* The same of the extension's cursor.                                     *)
NoDataIsMissing ==
  client.pos.nid # 0 /\ client.pos.nid = conn.nid =>
    /\ client.pos.gen = conn.confirmed /\ conn.pending # client.pos.gen
         => 1..conn.cursor \subseteq client.data
    /\ client.pos.gen = conn.pending => 1..conn.offered \subseteq client.data

(* What is on offer lies ahead of what is confirmed, whichever instances   *)
(* the handlers run on: a late Stage never offers the client's own         *)
(* generation again, and a late Acknowledge never takes it back.           *)
OffersAreAhead == conn.pending # 0 => conn.confirmed < conn.pending

(* A room the connection knows brings the client no event it already has,  *)
(* unless the request asked for more of the room than before, or what is   *)
(* published had gone back behind the event: the room then counts as sent  *)
(* up to less than the client has.                                         *)
NothingComesTwice ==
  \A h \in Handlers :
    pc[h] = "reply" /\ client.asked = h /\ ~sess[h].widen =>
      \A p \in sess[h].reply.events :
        sentTo[roomOf[p]] # Unsent /\ p > receded => p \notin client.have

(* A committed event reaches the client, however often responses are lost, *)
(* requests given up or handlers ended on the way; unless the client's     *)
(* generations have run into the bound before.                             *)
CommittedIsDelivered ==
  \A p \in 1..MaxPos :
    p \in committed ~> p \in client.have \/ conn.confirmed = MaxGen
=============================================================================
