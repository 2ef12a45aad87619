------------------------------- MODULE ToDevice -------------------------------
(***************************************************************************)
(* Messages from device to device: Send of internal/service/todevice and   *)
(* the queue of internal/repository/todevice, seen from one device that    *)
(* receives.  A reader keeps a cursor; with its next request it deletes    *)
(* what lies up to the cursor and reads what lies above.  The queue is     *)
(* read as it is, whatever positions below are still undecided.            *)
(***************************************************************************)
EXTENDS Naturals, FiniteSets, FiniteSetsExt

CONSTANTS Handlers,
          Txns,      \* transactions of the sending device
          Queuing,   \* those whose messages reach the device; the others reach none
          Limit      \* messages in an answer

VARIABLES
  messages,      \* the queue: [position, txn]
  transactions,  \* to_device_transactions
  sent,          \* the last position issued
  sends,         \* the handlers
  queued,        \* history: [position, txn, behind], all that was ever queued
  offered        \* history: the greatest cursor the device may have been given

NoSend == [phase |-> "idle", txn |-> 0, position |-> 0, late |-> FALSE]

TypeOK ==
  /\ \A m \in messages : m.position \in 1..sent /\ m.txn \in Queuing
  /\ transactions \subseteq Txns
  /\ sends \in [Handlers -> [phase : {"idle", "next", "commit"}, txn : Txns \cup {0},
                             position : 0..sent, late : BOOLEAN]]
  /\ \A q \in queued : q.position \in 1..sent /\ q.txn \in Queuing
  /\ offered \in 0..sent

Init == /\ messages = {} /\ transactions = {} /\ sent = 0
        /\ sends = [h \in Handlers |-> NoSend]
        /\ queued = {} /\ offered = 0

-----------------------------------------------------------------------------
(* Send.                                                                   *)

Done(t) == \E q \in queued : q.txn = t

\* Recorded, outside the transaction; a spent one is answered at once.
\* Then expand.
Send(h, t) ==
  /\ sends[h].phase = "idle" /\ t \notin transactions
  /\ sends' = [sends EXCEPT ![h] = [NoSend EXCEPT !.phase = IF t \in Queuing THEN "next" ELSE "commit",
                                                  !.txn = t, !.late = Done(t)]]
  /\ UNCHANGED <<messages, transactions, sent, queued, offered>>

\* stream.Next
NextPosition(h) ==
  /\ sends[h].phase = "next"
  /\ sent' = sent + 1
  /\ sends' = [sends EXCEPT ![h].phase = "commit", ![h].position = sent']
  /\ UNCHANGED <<messages, transactions, queued, offered>>

\* Mutant: the transaction is not recorded.
RecordNothing(t) == transactions

\* messages.Record, ON CONFLICT DO NOTHING.
Record(t) == transactions \cup {t}

\* Add and Record, in one transaction; without messages only Record.
Commit(h) ==
  LET s == sends[h] IN
  /\ s.phase = "commit"
  /\ transactions' = Record(s.txn)
  /\ IF s.txn \in Queuing
     THEN /\ messages' = messages \cup {[position |-> s.position, txn |-> s.txn]}
          /\ queued' = queued \cup {[position |-> s.position, txn |-> s.txn,
                                     behind |-> s.position <= offered]}
     ELSE UNCHANGED <<messages, queued>>
  /\ sends' = [sends EXCEPT ![h] = NoSend]
  /\ UNCHANGED <<sent, offered>>

\* A failed statement: a device that is gone (the foreign key) fails the
\* messages to all others.
Fail(h) ==
  /\ sends[h].phase # "idle"
  /\ sends' = [sends EXCEPT ![h] = NoSend]
  /\ UNCHANGED <<messages, transactions, sent, queued, offered>>

-----------------------------------------------------------------------------
(* The reader.                                                             *)

\* Mutant: the rows of an answer are deleted with it.
UpToRead(since) == {m \in messages : m.position <= since + Limit}

\* DeleteUpTo: the rows it deletes.
UpTo(since) == {m \in messages : m.position <= since}

\* Since, in the same transaction: the first rows above, at most Limit.
Since(since) ==
  LET above == {m \in messages \ UpTo(since) : m.position > since} IN
  {m \in above : Cardinality({n \in above : n.position <= m.position}) <= Limit}

\* Mutant: the cursor stays where it was.
CursorKept(since, read) == since

\* Mutant: the cursor is where the next answer is to begin.
CursorBeyond(since, read) == Max({since} \cup {m.position + 1 : m \in read})

\* The cursor that goes with an answer.
Cursor(since, read) == Max({since} \cup {m.position : m \in read})

-----------------------------------------------------------------------------
(* A transaction that is repeated after it was queued is not queued again: *)
(* only attempts that overlap both queue, since the record is looked for   *)
(* outside the transaction that writes it.                                 *)
QueuedOnce == \A h \in Handlers : sends[h].late => sends[h].phase = "idle"
=============================================================================
