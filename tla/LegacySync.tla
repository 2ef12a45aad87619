------------------------------ MODULE LegacySync ------------------------------
(***************************************************************************)
(* /sync: Sync of internal/service/legacysync, for one device, over the    *)
(* queue of ToDevice, the rows of AccountData and the keys of Typing.      *)
(*                                                                         *)
(* The server keeps nothing about the client: a request carries the token  *)
(* of the last answer the client has received, and the answer a new one.   *)
(* An attempt is one transaction, which reads the ceilings before the      *)
(* data.  The client may give up on a request and repeat it while the      *)
(* server is still at work on the first; answers and requests get lost.    *)
(* (The extensions of the sliding sync read the same three in the same     *)
(* order, with a cursor of their own for the messages.)                    *)
(***************************************************************************)
EXTENDS Naturals, FiniteSets

CONSTANTS Handlers, Txns, Queuing, Limit, Types, Tags, Rooms, Users,
          Requests,     \* requests the server may be at work on
          MaxWrites     \* bound: messages, writes of account data and typing

VARIABLES messages, transactions, sent, sends, queued, offered,
          data, dataIssued, dataOpen, writes, tagged,
          typing, version, changed, sets, missed,
          syncs,        \* the requests
          client,       \* what the client has
          waiting,      \* the request the client waits for, or none
          begun         \* writes begun

TD == INSTANCE ToDevice
AD == INSTANCE AccountData
TY == INSTANCE Typing

todeviceVars == <<messages, transactions, sent, sends, queued, offered>>
accountVars  == <<data, dataIssued, dataOpen, writes, tagged>>
typingVars   == <<typing, version, changed, sets, missed>>
vars == <<todeviceVars, accountVars, typingVars, syncs, client, waiting, begun>>

None == [none |-> TRUE]

ASSUME LegacySyncAssumption ==
  /\ Queuing \subseteq Txns /\ Limit \in Nat \ {0} /\ Tags \in Types /\ None \notin Requests
  /\ MaxWrites \in Nat

-----------------------------------------------------------------------------
Zero == [account |-> 0, toDevice |-> 0, typing |-> 0]

NoSync == [phase |-> "idle", since |-> Zero, upTo |-> Zero,
           delete |-> {}, read |-> {}, account |-> <<>>, typing |-> <<>>]

TypeOK ==
  /\ TD!TypeOK /\ AD!TypeOK /\ TY!TypeOK
  /\ \A r \in Requests : /\ DOMAIN syncs[r] = DOMAIN NoSync
                         /\ syncs[r].phase \in {"idle", "ceilings", "build", "commit", "answer"}
  /\ client.token.account \in 0..dataIssued
  /\ client.token.toDevice \in 0..sent
  /\ client.token.typing \in Nat
  /\ waiting \in Requests \cup {None}
  /\ begun \in 0..MaxWrites

Init ==
  /\ TD!Init /\ AD!Init /\ TY!Init
  /\ syncs = [r \in Requests |-> NoSync]
  /\ client = [token |-> Zero, account |-> [t \in Types |-> {}], received |-> {},
               typing |-> [r \in Rooms |-> {}]]
  /\ waiting = None /\ begun = 0

-----------------------------------------------------------------------------
(* The writers.                                                            *)

toDeviceOnly == UNCHANGED <<accountVars, typingVars, syncs, client, waiting>>
accountOnly  == UNCHANGED <<todeviceVars, typingVars, syncs, client, waiting>>
typingOnly   == UNCHANGED <<todeviceVars, accountVars, syncs, client, waiting>>

Write == begun < MaxWrites /\ begun' = begun + 1

\* The versions of typing that the client goes on from, now or with the
\* answer it waits for, which has been read already.
Taken == {client.token.typing} \cup
         {syncs[r].upTo.typing : r \in {x \in Requests : /\ waiting = x
                                                        /\ syncs[x].phase \in {"commit", "answer"}}}

Writers ==
  \E h \in Handlers :
    \/ Write /\ toDeviceOnly /\ \E t \in Txns : TD!Send(h, t)
    \/ Write /\ accountOnly /\ AD!Begin(h)
    \/ Write /\ typingOnly /\ TY!Set(h)
    \/ UNCHANGED begun /\ toDeviceOnly /\ (TD!NextPosition(h) \/ TD!Commit(h) \/ TD!Fail(h))
    \/ UNCHANGED begun /\ accountOnly /\ (AD!NextPosition(h) \/ AD!Read(h) \/ AD!Commit(h) \/ AD!Fail(h))
    \/ UNCHANGED begun /\ typingOnly /\ (TY!Increment(h) \/ TY!Store(h, Taken) \/ TY!Fail(h))

\* Keys of typing expire.
Expire == /\ typingOnly /\ UNCHANGED begun
          /\ TY!EntryExpires \/ TY!CounterExpires(Taken) \/ TY!VersionExpires

-----------------------------------------------------------------------------
(* Sync.                                                                   *)

\* The client asks, perhaps instead of waiting on.
Ask(r) ==
  /\ syncs[r].phase = "idle" /\ waiting # r
  /\ syncs' = [syncs EXCEPT ![r].phase = "ceilings", ![r].since = client.token]
  /\ waiting' = r
  /\ UNCHANGED <<todeviceVars, accountVars, typingVars, client, begun>>

\* attempt: ceilings.
Ceilings(r) ==
  /\ syncs[r].phase = "ceilings"
  /\ \E p \in AD!Published :
       syncs' = [syncs EXCEPT ![r].phase = "build",
                   ![r].upTo = [@ EXCEPT !.account = p, !.typing = version]]
  /\ UNCHANGED <<todeviceVars, accountVars, typingVars, client, waiting, begun>>

\* build: accountData and roomData, toDevice, and typing.
Build(r) ==
  LET s == syncs[r]
      read == TD!Since(s.since.toDevice)
      cursor == TD!Cursor(s.since.toDevice, read) IN
  /\ s.phase = "build"
  /\ syncs' = [syncs EXCEPT ![r].phase = "commit",
                 ![r].account = [t \in AD!Since(s.since.account) |-> data[t].content],
                 ![r].typing = [x \in TY!ChangedSince(s.since.typing) |-> typing[x]],
                 ![r].delete = TD!UpTo(s.since.toDevice),
                 ![r].read = read,
                 ![r].upTo = [@ EXCEPT !.toDevice = cursor]]
  /\ offered' = IF cursor > offered THEN cursor ELSE offered
  /\ UNCHANGED <<messages, transactions, sent, sends, queued, accountVars, typingVars,
                 client, waiting, begun>>

\* The end of the attempt's transaction.
Commit(r) ==
  /\ syncs[r].phase = "commit"
  /\ messages' = messages \ syncs[r].delete
  /\ syncs' = [syncs EXCEPT ![r].phase = "answer"]
  /\ UNCHANGED <<transactions, sent, sends, queued, offered, accountVars, typingVars,
                 client, waiting, begun>>

\* An attempt with nothing to say: Sync parks until it is woken or its
\* timer runs out, and tries again with the same token.
Park(r) ==
  LET s == syncs[r] IN
  /\ s.phase = "answer" /\ s.read = {} /\ DOMAIN s.account = {} /\ DOMAIN s.typing = {}
  /\ syncs' = [syncs EXCEPT ![r] = [NoSync EXCEPT !.phase = "ceilings", !.since = s.since]]
  /\ UNCHANGED <<todeviceVars, accountVars, typingVars, client, waiting, begun>>

\* The request fails, or its answer is lost or no longer waited for.
Lose(r) ==
  /\ syncs[r].phase # "idle"
  /\ syncs' = [syncs EXCEPT ![r] = NoSync]
  /\ waiting' = IF waiting = r THEN None ELSE waiting
  /\ UNCHANGED <<todeviceVars, accountVars, typingVars, client, begun>>

\* The client takes in the answer it waits for.
Deliver(r) ==
  LET s == syncs[r] IN
  /\ s.phase = "answer" /\ waiting = r
  /\ client' = [token |-> s.upTo,
                account |-> [t \in Types |-> IF t \in DOMAIN s.account THEN s.account[t]
                                             ELSE client.account[t]],
                received |-> client.received \cup {m.position : m \in s.read},
                typing |-> [x \in Rooms |-> IF x \in DOMAIN s.typing THEN s.typing[x]
                                            ELSE client.typing[x]]]
  /\ syncs' = [syncs EXCEPT ![r] = NoSync]
  /\ waiting' = None
  /\ UNCHANGED <<todeviceVars, accountVars, typingVars, begun>>

-----------------------------------------------------------------------------
Next == \/ Writers \/ Expire
        \/ \E r \in Requests : \/ Ask(r) \/ Ceilings(r) \/ Build(r) \/ Commit(r) \/ Park(r)
                             \/ Lose(r) \/ Deliver(r)

Spec == Init /\ [][Next]_vars

-----------------------------------------------------------------------------
(* Properties.                                                             *)

QueuedOnce  == TD!QueuedOnce
NoTagIsLost == AD!NoTagIsLost

(* A message that is gone from the queue has been received, whatever       *)
(* answers were lost, unless it was committed at a position that a cursor  *)
(* the device had been given had passed: such a message is deleted unread. *)
DeletedWasReceived ==
  \A q \in queued : \/ \E m \in messages : m.position = q.position
                    \/ q.position \in client.received
                    \/ q.behind

(* What the answer the client waits for brings lies above all messages it  *)
(* has received: none comes twice, nor in another order than that of the   *)
(* positions, whatever requests were given up and repeated.                *)
ReceivedInOrder ==
  \A r \in Requests : waiting = r =>
    \A m \in syncs[r].read, p \in client.received : p < m.position

(* Account data that the client has otherwise than the server lies above   *)
(* its cursor, although writes commit in another order than that of their  *)
(* positions and overwrite each other's.                                   *)
AccountDataIsAhead ==
  \A t \in Types : client.account[t] # data[t].content => data[t].position > client.token.account

(* So do the rooms whose typing users the client has otherwise, but for    *)
(* one whose change has still to be announced or was missed: its version   *)
(* was taken by the client before the room's counter had it (between the   *)
(* two commands that announce it, or put back by another announcement, or  *)
(* because the version had expired and started again), it was never        *)
(* announced (a command failed, an entry's time passed), or the counter    *)
(* expired before the client came past it.  None of these outlasts the     *)
(* next announcement of the room above the client's version, whatever was  *)
(* missed before.                                                          *)
TypingIsAhead ==
  \A r \in Rooms :
    client.typing[r] # typing[r] =>
      changed[r] > client.token.typing \/ TY!Pending(r) \/ r \in missed
=============================================================================
