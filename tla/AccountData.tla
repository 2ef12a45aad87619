------------------------------ MODULE AccountData ------------------------------
(***************************************************************************)
(* The account data of one user: Set and the amending of tags (SetTag,     *)
(* DeleteTag) of internal/service/accountdata.  Every write overwrites the *)
(* row of its type, its position included, at a position it has taken      *)
(* beforehand; an amendment reads the row first, under an advisory lock    *)
(* that Set does not take.                                                 *)
(*                                                                         *)
(* A write is a number; the content of a row is the set of the writes that *)
(* can be read from it: one for a Set, one more with each amendment.       *)
(***************************************************************************)
EXTENDS Naturals, FiniteSets

CONSTANTS Handlers,
          Types,
          Tags       \* the type that holds the tags of a room

VARIABLES
  data,                \* [content, position] of each type; position 0: no row
  dataIssued, dataOpen,\* the stream: the last position, the undecided ones
  writes,              \* the handlers
  tagged               \* history: amendments since the tags were last set

NoWrite == [phase |-> "idle", op |-> "none", type |-> Tags, position |-> 0, read |-> {}]

Phases == {"idle", "next", "read", "commit"}

TypeOK ==
  /\ \A t \in Types : data[t].position \in 0..dataIssued /\ data[t].content \subseteq 1..dataIssued
  /\ dataIssued \in Nat /\ dataOpen \subseteq 1..dataIssued
  /\ \A h \in Handlers : /\ DOMAIN writes[h] = DOMAIN NoWrite
                         /\ writes[h].phase \in Phases /\ writes[h].position \in 0..dataIssued
  /\ tagged \subseteq 1..dataIssued

Init == /\ data = [t \in Types |-> [content |-> {}, position |-> 0]]
        /\ dataIssued = 0 /\ dataOpen = {}
        /\ writes = [h \in Handlers |-> NoWrite]
        /\ tagged = {}

-----------------------------------------------------------------------------
\* Set of any type, the tags included, and SetTag or DeleteTag.
Begin(h) ==
  /\ writes[h].phase = "idle"
  /\ \E op \in {"set", "amend"}, t \in Types :
       /\ op = "amend" => t = Tags
       /\ writes' = [writes EXCEPT ![h] = [NoWrite EXCEPT !.phase = "next", !.op = op, !.type = t]]
  /\ UNCHANGED <<data, dataIssued, dataOpen, tagged>>

\* Mutant: the position is not held until the write is decided.
NextUnheld(h) ==
  /\ writes[h].phase = "next"
  /\ dataIssued' = dataIssued + 1 /\ UNCHANGED dataOpen
  /\ writes' = [writes EXCEPT ![h].position = dataIssued',
                              ![h].phase = IF writes[h].op = "amend" THEN "read" ELSE "commit"]
  /\ UNCHANGED <<data, tagged>>

\* stream.Next, before the transaction and its lock.
NextPosition(h) ==
  /\ writes[h].phase = "next"
  /\ dataIssued' = dataIssued + 1
  /\ dataOpen' = dataOpen \cup {dataIssued'}
  /\ writes' = [writes EXCEPT ![h].position = dataIssued',
                              ![h].phase = IF writes[h].op = "amend" THEN "read" ELSE "commit"]
  /\ UNCHANGED <<data, tagged>>

\* Mutant: no lock is taken.
NeverLocked(h) == FALSE

\* pg_advisory_xact_lock, from the read of an amendment to its commit.
LockedByOther(h) ==
  \E o \in Handlers \ {h} : writes[o].phase = "commit" /\ writes[o].op = "amend"

\* Lock, and Tags.
Read(h) ==
  /\ writes[h].phase = "read" /\ ~LockedByOther(h)
  /\ writes' = [writes EXCEPT ![h].read = data[Tags].content, ![h].phase = "commit"]
  /\ UNCHANGED <<data, dataIssued, dataOpen, tagged>>

\* store, the end of the transaction, and Release.
Commit(h) ==
  LET w == writes[h] IN
  /\ w.phase = "commit"
  /\ data' = [data EXCEPT ![w.type] = [content |-> w.read \cup {w.position}, position |-> w.position]]
  /\ dataOpen' = dataOpen \ {w.position}
  /\ tagged' = IF w.op = "amend" THEN tagged \cup {w.position}
               ELSE IF w.type = Tags THEN {} ELSE tagged
  /\ writes' = [writes EXCEPT ![h] = NoWrite]
  /\ UNCHANGED dataIssued

Fail(h) ==
  /\ writes[h].phase # "idle"
  /\ dataOpen' = dataOpen \ {writes[h].position}
  /\ writes' = [writes EXCEPT ![h] = NoWrite]
  /\ UNCHANGED <<data, dataIssued, tagged>>

-----------------------------------------------------------------------------
(* Readers.  An answer of Published is as PublishedStream promises; that   *)
(* of another instance may lie below an earlier one.                       *)
Published == {p \in 0..dataIssued : \A o \in dataOpen : p < o}

\* Since: there is no ceiling.
Since(since) == {t \in Types : data[t].position > since}

-----------------------------------------------------------------------------
(* A tag that was set or deleted is not undone by another tag that was set *)
(* or deleted at the same time.  (A Set of all the tags may be: it takes   *)
(* no lock, and an amendment under way overwrites it.)                     *)
NoTagIsLost == tagged \subseteq data[Tags].content
=============================================================================
