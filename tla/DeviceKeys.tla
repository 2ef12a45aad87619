------------------------------ MODULE DeviceKeys ------------------------------
(***************************************************************************)
(* The keys of one device: Upload and Claim of internal/service/keys, the  *)
(* device list changes that Upload records, and the client of another user *)
(* that follows those changes and queries the keys.                        *)
(*                                                                         *)
(* An upload is one transaction under an advisory lock of the device; its  *)
(* device list change is recorded after it, in a transaction of its own at *)
(* a position of a stream that keeps the promise of PublishedStream.  A    *)
(* claim takes no lock but that of the row it deletes.  One algorithm.     *)
(***************************************************************************)
EXTENDS Naturals, Sequences, FiniteSets, FiniteSetsExt, Functions

CONSTANTS Handlers,
          Uploads,         \* requests: [device, oneTime, fallback]
          None,            \* no device keys, no fallback key
          MaxOneTimeKeys,
          MaxUploads, MaxClaims, MaxFaults     \* bounds: requests, failures

ASSUME DeviceKeysAssumption ==
  /\ {MaxOneTimeKeys, MaxUploads, MaxClaims, MaxFaults} \subseteq Nat
  /\ \A u \in Uploads : /\ DOMAIN u = {"device", "oneTime", "fallback"}
                        /\ IsFiniteSet(u.oneTime)
                        /\ \A k, l \in u.oneTime : k.key \in Nat /\ (k.key = l.key => k = l)

VARIABLES
  deviceKeys, oneTime, fallback,   \* the rows: one-time keys are [key, material, ordinal]
  changes, issued, open,           \* the device list stream
  pc, req,                         \* the handlers
  peer,                            \* the client that follows
  ordinal, edits,                  \* last ordinal of a one-time key; changes of deviceKeys
  handed, held, served, confirmed, \* history: see the properties
  uploads, claims, faults

rows    == <<deviceKeys, oneTime, fallback, ordinal, edits>>
stream  == <<changes, issued, open>>
history == <<handed, held, served, confirmed>>
bounds  == <<uploads, claims, faults>>
vars    == <<rows, stream, pc, req, peer, history, bounds>>

-----------------------------------------------------------------------------
NoUpload  == [device |-> None, oneTime |-> {}, fallback |-> None]
NoRow     == [key |-> None, material |-> None, ordinal |-> 0]
NoRequest == [upload |-> NoUpload, fresh |-> {}, row |-> NoRow, edit |-> 0, position |-> 0]

Phases == {"idle", "lock", "existing", "count", "commit", "next", "record", "answer",
           "take", "fallback"}

\* The phases in which an upload has the device's advisory lock.
Locked == {"existing", "count", "commit"}

\* The device keys and the fallback keys there can be.
Versions  == {u.device : u \in Uploads} \cup {None}
Fallbacks == {u.fallback : u \in Uploads} \cup {None}

TypeOK ==
  /\ deviceKeys \in Versions
  /\ \A r, s \in oneTime : /\ DOMAIN r = DOMAIN NoRow /\ r.ordinal \in 1..ordinal
                           /\ r.key = s.key => r = s
  /\ fallback.key \in Fallbacks /\ fallback.used \in BOOLEAN
  /\ issued \in Nat /\ changes \cup open \subseteq 1..issued /\ changes \cap open = {}
  /\ pc \in [Handlers -> Phases]
  /\ \A h \in Handlers : DOMAIN req[h] = DOMAIN NoRequest
  /\ peer.cursor \in 0..issued /\ peer.outdated \in BOOLEAN
  /\ uploads \in 0..MaxUploads /\ claims \in 0..MaxClaims /\ faults \in 0..MaxFaults

Init ==
  /\ deviceKeys = None /\ oneTime = {} /\ fallback = [key |-> None, used |-> FALSE]
  /\ changes = {} /\ issued = 0 /\ open = {}
  /\ pc = [h \in Handlers |-> "idle"] /\ req = [h \in Handlers |-> NoRequest]
  /\ peer = [cursor |-> 0, copy |-> None, outdated |-> FALSE]
  /\ ordinal = 0 /\ edits = 0
  /\ handed = <<>> /\ held = {} /\ served = FALSE /\ confirmed = 0
  /\ uploads = 0 /\ claims = 0 /\ faults = 0

Goto(h, phase) == pc' = [pc EXCEPT ![h] = phase]
Return(h) == Goto(h, "idle") /\ req' = [req EXCEPT ![h] = NoRequest]

-----------------------------------------------------------------------------
(* Upload.                                                                 *)

Upload(h) ==
  /\ pc[h] = "idle" /\ uploads < MaxUploads
  /\ \E u \in Uploads : req' = [req EXCEPT ![h].upload = u]
  /\ Goto(h, "lock")
  /\ uploads' = uploads + 1
  /\ UNCHANGED <<rows, stream, peer, history, claims, faults>>

\* Mutant: no lock is taken.
LockNothing(h) ==
  /\ pc[h] = "lock"
  /\ Goto(h, "existing")
  /\ UNCHANGED <<rows, stream, req, peer, history, bounds>>

\* Begin, and Lock: pg_advisory_xact_lock.
Lock(h) ==
  /\ pc[h] = "lock"
  /\ \A o \in Handlers : pc[o] \notin Locked
  /\ Goto(h, "existing")
  /\ UNCHANGED <<rows, stream, req, peer, history, bounds>>

\* Mutant: a key whose id is held is skipped whatever it is.
SameId(k, r) == r.key = k.key

SameMaterial(k, r) == r.key = k.key /\ r.material = k.material

\* ExistingOneTime: a key that is held is skipped, or refused if it differs.
Existing(h) ==
  LET fresh == {k \in req[h].upload.oneTime : \A r \in oneTime : r.key # k.key}
      same  == {k \in req[h].upload.oneTime : \E r \in oneTime : SameMaterial(k, r)} IN
  /\ pc[h] = "existing"
  /\ IF fresh \cup same = req[h].upload.oneTime
     THEN Goto(h, "count") /\ req' = [req EXCEPT ![h].fresh = fresh]
     ELSE Return(h)
  /\ UNCHANGED <<rows, stream, peer, history, bounds>>

Fits(fresh) ==
  fresh = {} \/ MaxOneTimeKeys = 0 \/ Cardinality(oneTime) + Cardinality(fresh) <= MaxOneTimeKeys

Count(h) ==
  /\ pc[h] = "count"
  /\ IF Fits(req[h].fresh) THEN Goto(h, "commit") /\ UNCHANGED req ELSE Return(h)
  /\ UNCHANGED <<rows, stream, peer, history, bounds>>

\* AddOneTime gives the new rows the next ordinals, in the order of their
\* ids; ON CONFLICT DO NOTHING.
Added(fresh) ==
  LET new == {k \in fresh : \A r \in oneTime : r.key # k.key} IN
  {[key |-> k.key, material |-> k.material,
    ordinal |-> ordinal + Cardinality({l \in new : l.key <= k.key})] : k \in new}

\* Mutant: the row is written whether or not the key differs.
SetFallbackAlways(key) == IF key = None THEN fallback ELSE [key |-> key, used |-> FALSE]

\* SetFallback: only a key that differs is written, as unused.
SetFallback(key) == IF key \in {None, fallback.key} THEN fallback ELSE [key |-> key, used |-> FALSE]

\* Mutant: only a change of the keys is announced.
AnnouncesAChange(device) == device \notin {None, deviceKeys}

\* Whether Upload calls deviceLists.Record.
Announces(device) == device # None

\* UpsertDevice, AddOneTime, SetFallback and the end of the transaction.
Commit(h) ==
  LET in == req[h].upload
      changed == in.device \notin {None, deviceKeys} IN
  /\ pc[h] = "commit"
  /\ deviceKeys' = IF changed THEN in.device ELSE deviceKeys
  /\ edits' = IF changed THEN edits + 1 ELSE edits
  /\ oneTime' = oneTime \cup Added(req[h].fresh)
  /\ ordinal' = ordinal + Cardinality(Added(req[h].fresh))
  /\ fallback' = SetFallback(in.fallback)
  /\ served' = (served /\ in.fallback \in {None, fallback.key})
  /\ req' = [req EXCEPT ![h].edit = edits']
  /\ Goto(h, IF Announces(in.device) THEN "next" ELSE "answer")
  /\ UNCHANGED <<stream, peer, handed, held, confirmed, bounds>>

-----------------------------------------------------------------------------
(* deviceLists.Record.                                                     *)

NextPosition(h) ==
  /\ pc[h] = "next"
  /\ issued' = issued + 1 /\ open' = open \cup {issued'} /\ UNCHANGED changes
  /\ req' = [req EXCEPT ![h].position = issued']
  /\ Goto(h, "record")
  /\ UNCHANGED <<rows, peer, history, bounds>>

\* Mutant: the position is not released.
RecordKept(h) ==
  /\ pc[h] = "record"
  /\ changes' = changes \cup {req[h].position}
  /\ Goto(h, "answer")
  /\ UNCHANGED <<rows, issued, open, req, peer, history, bounds>>

\* The row is inserted, and the position released.
Record(h) ==
  /\ pc[h] = "record"
  /\ changes' = changes \cup {req[h].position}
  /\ open' = open \ {req[h].position}
  /\ Goto(h, "answer")
  /\ UNCHANGED <<rows, issued, req, peer, history, bounds>>

\* The client is told that its upload succeeded.
Answer(h) ==
  /\ pc[h] = "answer"
  /\ held' = held \cup req[h].upload.oneTime
  /\ confirmed' = IF req[h].upload.device # None /\ req[h].edit > confirmed
                  THEN req[h].edit ELSE confirmed
  /\ Return(h)
  /\ UNCHANGED <<rows, stream, peer, handed, served, bounds>>

-----------------------------------------------------------------------------
(* Claim.                                                                  *)

Taking == {req[o].row : o \in {x \in Handlers : pc[x] = "take"}}

\* Mutant: the row is chosen without FOR UPDATE SKIP LOCKED.
AnyRow == oneTime

Claimable == oneTime \ Taking

\* claimOneTimeSQL: the row that was uploaded first, of those no other claim
\* has locked.
Claim(h) ==
  /\ pc[h] = "idle" /\ claims < MaxClaims
  /\ IF Claimable = {} THEN Goto(h, "fallback") /\ UNCHANGED req
     ELSE \E r \in Claimable : /\ \A s \in Claimable : r.ordinal <= s.ordinal
                               /\ req' = [req EXCEPT ![h].row = r]
                               /\ Goto(h, "take")
  /\ claims' = claims + 1
  /\ UNCHANGED <<rows, stream, peer, history, uploads, faults>>

\* The row is deleted and handed out.
Take(h) ==
  /\ pc[h] = "take"
  /\ oneTime' = oneTime \ {req[h].row}
  /\ handed' = Append(handed, req[h].row)
  /\ Return(h)
  /\ UNCHANGED <<deviceKeys, fallback, ordinal, edits, stream, peer, held, served, confirmed, bounds>>

\* claimFallbackSQL; without a fallback key nothing is handed out.
ClaimFallback(h) ==
  /\ pc[h] = "fallback"
  /\ IF fallback.key = None THEN UNCHANGED <<fallback, served>>
     ELSE fallback' = [fallback EXCEPT !.used = TRUE] /\ served' = TRUE
  /\ Return(h)
  /\ UNCHANGED <<deviceKeys, oneTime, ordinal, edits, stream, peer, handed, held, confirmed, bounds>>

-----------------------------------------------------------------------------
(* A failed statement, a cancelled request, a lost connection: what was    *)
(* not committed is undone, and a position that was taken is given back.   *)
Fail(h) ==
  /\ pc[h] # "idle" /\ faults < MaxFaults
  /\ faults' = faults + 1
  /\ open' = open \ {req[h].position}
  /\ Return(h)
  /\ UNCHANGED <<rows, changes, issued, peer, history, uploads, claims>>

(* The other client.  An answer of Published lies below every undecided    *)
(* position; another instance's may lie below an earlier one.              *)
Published == {p \in 0..issued : \A o \in open : p < o}

\* ChangedSince.
Follow ==
  \E upTo \in Published :
    /\ peer' = [peer EXCEPT !.cursor = upTo,
                            !.outdated = @ \/ \E c \in changes : peer.cursor < c /\ c <= upTo]
    /\ UNCHANGED <<rows, stream, pc, req, history, bounds>>

\* Query, by a client that has been told of a change.
Query ==
  /\ peer.outdated
  /\ peer' = [peer EXCEPT !.copy = deviceKeys, !.outdated = FALSE]
  /\ UNCHANGED <<rows, stream, pc, req, history, bounds>>

Step(h) == \/ Lock(h) \/ Existing(h) \/ Count(h) \/ Commit(h) \/ NextPosition(h) \/ Record(h)
           \/ Answer(h) \/ Take(h) \/ ClaimFallback(h)

Next == \/ \E h \in Handlers : Upload(h) \/ Claim(h) \/ Step(h) \/ Fail(h)
        \/ Follow \/ Query

Spec == Init /\ [][Next]_vars

-----------------------------------------------------------------------------
(* Properties.                                                             *)

(* No two claims get the same key, unless it was uploaded again (and got a *)
(* new ordinal) after it had been claimed.                                 *)
HandedOutOnce == IsInjective(handed)

(* The device never has more one-time keys than MaxOneTimeKeys (0: no      *)
(* cap), however many uploads are under way.                               *)
OneTimeKeysWithinTheCap == MaxOneTimeKeys # 0 => Cardinality(oneTime) <= MaxOneTimeKeys

(* A one-time key whose upload was answered is there as it was uploaded,   *)
(* or has been handed out, or is being handed out.                         *)
NothingAcceptedIsLost ==
  \A k \in held : \E r \in oneTime \cup Range(handed) : r.key = k.key /\ r.material = k.material

(* A fallback key that is reported as unused has not been handed out since *)
(* it replaced another one, whatever was uploaded again meanwhile.         *)
UnusedFallbackIsUnused == ~fallback.used => ~served

(* Once the upload of the present device keys has been answered, a client  *)
(* whose copy is another is going to hear of a change: it lies above the   *)
(* client's cursor, or the client knows that its copy is outdated.  This   *)
(* includes an upload that is repeated because recording the change failed *)
(* after the keys had been committed.                                      *)
StaleMeansNews ==
  peer.copy # deviceKeys /\ confirmed = edits =>
    peer.outdated \/ \E c \in changes : c > peer.cursor

(* The uploads and claims implement those of a store with one step each.   *)
Store == INSTANCE KeyStore

ImplementsKeyStore == Store!Spec
=============================================================================
