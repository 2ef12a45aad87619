--------------------------- MODULE LegacySyncProofs ---------------------------
(***************************************************************************)
(* Proofs about LegacySync, for any number of writers and requests.        *)
(*                                                                         *)
(* The three kinds of data do not touch each other, so each has an         *)
(* invariant of its own: QueueInv for the messages, DataInv for the        *)
(* account data, TypingInv for the users that type.  All say the same of   *)
(* the requests: what an answer under way lacks lies above the ceiling it  *)
(* carries, as what the client lacks lies above its token.                 *)
(***************************************************************************)
EXTENDS LegacySync, FiniteSetTheorems, WellFoundedInduction, TLAPS

(* What the requests and the client look like; the request the client      *)
(* waits for was made with the client's present token.                     *)
Shape ==
  /\ syncs = [r \in Requests |-> syncs[r]]
  /\ \A r \in Requests : /\ DOMAIN syncs[r] = DOMAIN NoSync
                         /\ DOMAIN syncs[r].upTo = DOMAIN Zero
                         /\ syncs[r].phase \in {"idle", "ceilings", "build", "commit", "answer"}
                         /\ syncs[r].phase \in {"idle", "ceilings", "build"} => syncs[r].read = {}
  /\ waiting \in Requests \cup {None}
  /\ \A r \in Requests : waiting = r /\ syncs[r].phase # "idle" => syncs[r].since = client.token

Others(r) == Requests \ {r}

LEMMA ShapeInit == Init => Shape
BY LegacySyncAssumption DEF Init, Shape, NoSync, Zero

-----------------------------------------------------------------------------
(* What the steps of a request change.                                     *)
LEMMA AskEffect ==
  ASSUME Shape, NEW r \in Requests, Ask(r)
  PROVE  /\ Shape' /\ waiting' = r /\ syncs[r].phase = "idle"
         /\ syncs'[r].phase = "ceilings" /\ syncs'[r].since = client.token
         /\ \A o \in Others(r) : syncs'[o] = syncs[o]
<1>1. /\ syncs' = [o \in Requests |-> syncs'[o]] /\ DOMAIN syncs'[r] = DOMAIN NoSync
      /\ syncs'[r].phase = "ceilings" /\ syncs'[r].since = client.token
      /\ syncs'[r].upTo = syncs[r].upTo /\ syncs'[r].read = syncs[r].read
      /\ \A o \in Others(r) : syncs'[o] = syncs[o]
  BY DEF Shape, Ask, NoSync, Others
<1>2. /\ syncs[r].phase = "idle" /\ waiting' = r /\ client' = client
  BY DEF Ask
<1>3. Shape'
  BY <1>1, <1>2 DEF Shape, Others
<1> QED
  BY <1>1, <1>2, <1>3

(* Shape is kept by a step of r that leaves the others, what r was asked    *)
(* since, the client and what it waits for.                                *)
LEMMA ShapeStep ==
  ASSUME Shape, NEW r \in Requests,
         syncs' = [o \in Requests |-> syncs'[o]],
         \A o \in Others(r) : syncs'[o] = syncs[o],
         DOMAIN syncs'[r] = DOMAIN NoSync, DOMAIN syncs'[r].upTo = DOMAIN Zero,
         syncs'[r].phase \in {"ceilings", "build", "commit", "answer"},
         syncs'[r].phase \in {"ceilings", "build"} => syncs'[r].read = {},
         syncs[r].phase # "idle", syncs'[r].since = syncs[r].since,
         waiting' = waiting, client' = client
  PROVE  Shape'
<1>1. \A o \in Requests :
        /\ DOMAIN syncs'[o] = DOMAIN NoSync
        /\ DOMAIN syncs'[o].upTo = DOMAIN Zero
        /\ syncs'[o].phase \in {"idle", "ceilings", "build", "commit", "answer"}
        /\ syncs'[o].phase \in {"idle", "ceilings", "build"} => syncs'[o].read = {}
        /\ waiting = o /\ syncs'[o].phase # "idle" => syncs'[o].since = client.token
  <2> TAKE o \in Requests
  <2>1. CASE o = r
    BY <2>1 DEF Shape
  <2>2. CASE o # r
    BY <2>2 DEF Shape, Others
  <2> QED
    BY <2>1, <2>2
<1> QED
  BY <1>1 DEF Shape

LEMMA CeilingsEffect ==
  ASSUME Shape, NEW r \in Requests, Ceilings(r)
  PROVE  /\ Shape' /\ waiting' = waiting /\ syncs[r].phase = "ceilings"
         /\ syncs'[r].phase = "build" /\ syncs'[r].since = syncs[r].since
         /\ syncs'[r].upTo.account \in AD!Published /\ syncs'[r].upTo.typing = version
         /\ \A o \in Others(r) : syncs'[o] = syncs[o]
<1>1. PICK p \in AD!Published :
        syncs' = [syncs EXCEPT ![r].phase = "build",
                    ![r].upTo = [@ EXCEPT !.account = p, !.typing = version]]
  BY DEF Ceilings
<1>2. /\ syncs' = [o \in Requests |-> syncs'[o]] /\ DOMAIN syncs'[r] = DOMAIN NoSync
      /\ syncs'[r].phase = "build" /\ syncs'[r].since = syncs[r].since
      /\ syncs'[r].upTo = [syncs[r].upTo EXCEPT !.account = p, !.typing = version]
      /\ syncs'[r].read = syncs[r].read
      /\ \A o \in Others(r) : syncs'[o] = syncs[o]
  BY <1>1 DEF Shape, NoSync, Others
<1>3. /\ DOMAIN syncs'[r].upTo = DOMAIN Zero
      /\ syncs'[r].upTo.account = p /\ syncs'[r].upTo.typing = version
  BY <1>2 DEF Shape, Zero
<1>4. syncs[r].phase = "ceilings" /\ waiting' = waiting /\ client' = client
  BY DEF Ceilings
<1>5. syncs'[r].read = {} /\ syncs[r].phase # "idle"
  BY <1>2, <1>4 DEF Shape
<1>6. Shape'
  BY <1>2, <1>3, <1>4, <1>5, ShapeStep
<1> QED
  BY <1>2, <1>3, <1>4, <1>6

LEMMA BuildEffect ==
  ASSUME Shape, NEW r \in Requests, Build(r)
  PROVE  LET s == syncs[r]
             read == TD!Since(s.since.toDevice) IN
         /\ Shape' /\ waiting' = waiting /\ client' = client
         /\ s.phase = "build" /\ syncs'[r].phase = "commit"
         /\ syncs'[r].since = s.since
         /\ syncs'[r].account = [t \in AD!Since(s.since.account) |-> data[t].content]
         /\ syncs'[r].typing = [x \in TY!ChangedSince(s.since.typing) |-> typing[x]]
         /\ syncs'[r].delete = TD!UpTo(s.since.toDevice)
         /\ syncs'[r].read = read
         /\ syncs'[r].upTo.toDevice = TD!Cursor(s.since.toDevice, read)
         /\ syncs'[r].upTo.account = s.upTo.account /\ syncs'[r].upTo.typing = s.upTo.typing
         /\ \A o \in Others(r) : syncs'[o] = syncs[o]
<1> DEFINE s == syncs[r]
           read == TD!Since(s.since.toDevice)
           cursor == TD!Cursor(s.since.toDevice, read)
<1>1. /\ s.phase = "build" /\ waiting' = waiting /\ client' = client
      /\ syncs' = [syncs EXCEPT ![r].phase = "commit",
                     ![r].account = [t \in AD!Since(s.since.account) |-> data[t].content],
                     ![r].typing = [x \in TY!ChangedSince(s.since.typing) |-> typing[x]],
                     ![r].delete = TD!UpTo(s.since.toDevice),
                     ![r].read = read,
                     ![r].upTo = [@ EXCEPT !.toDevice = cursor]]
  BY DEF Build
<1> DEFINE account == [t \in AD!Since(s.since.account) |-> data[t].content]
           users == [x \in TY!ChangedSince(s.since.typing) |-> typing[x]]
           delete == TD!UpTo(s.since.toDevice)
<1> HIDE DEF read, cursor, account, users, delete
<1>2. /\ syncs' = [o \in Requests |-> syncs'[o]] /\ DOMAIN syncs'[r] = DOMAIN NoSync
      /\ syncs'[r].phase = "commit" /\ syncs'[r].since = s.since
      /\ syncs'[r].account = account /\ syncs'[r].typing = users
      /\ syncs'[r].delete = delete /\ syncs'[r].read = read
      /\ syncs'[r].upTo = [s.upTo EXCEPT !.toDevice = cursor]
      /\ \A o \in Others(r) : syncs'[o] = syncs[o]
  BY <1>1 DEF Shape, NoSync, Others, account, users, delete
<1>3. /\ DOMAIN syncs'[r].upTo = DOMAIN Zero /\ syncs'[r].upTo.toDevice = cursor
      /\ syncs'[r].upTo.account = s.upTo.account /\ syncs'[r].upTo.typing = s.upTo.typing
  BY <1>2 DEF Shape, Zero
<1>4. Shape'
  BY <1>1, <1>2, <1>3, ShapeStep
<1> QED
  BY <1>1, <1>2, <1>3, <1>4 DEF read, cursor, account, users, delete

LEMMA CommitEffect ==
  ASSUME Shape, NEW r \in Requests, Commit(r)
  PROVE  /\ Shape' /\ waiting' = waiting /\ syncs[r].phase = "commit"
         /\ syncs'[r] = [syncs[r] EXCEPT !.phase = "answer"]
         /\ \A f \in {"since", "upTo", "delete", "read", "account", "typing"} :
              syncs'[r][f] = syncs[r][f]
         /\ syncs'[r].phase = "answer"
         /\ \A o \in Others(r) : syncs'[o] = syncs[o]
<1>1. /\ syncs' = [o \in Requests |-> syncs'[o]] /\ DOMAIN syncs'[r] = DOMAIN NoSync
      /\ syncs'[r] = [syncs[r] EXCEPT !.phase = "answer"]
      /\ \A o \in Others(r) : syncs'[o] = syncs[o]
  BY DEF Shape, Commit, NoSync, Others
<1>2. /\ syncs'[r].phase = "answer"
      /\ \A f \in {"since", "upTo", "delete", "read", "account", "typing"} :
           syncs'[r][f] = syncs[r][f]
  BY <1>1 DEF Shape, NoSync
<1>3. syncs[r].phase = "commit" /\ waiting' = waiting /\ client' = client
  BY DEF Commit
<1>4. DOMAIN syncs'[r].upTo = DOMAIN Zero /\ syncs'[r].since = syncs[r].since
  BY <1>2 DEF Shape
<1>5. Shape'
  BY <1>1, <1>2, <1>3, <1>4, ShapeStep
<1> QED
  BY <1>1, <1>2, <1>3, <1>5

LEMMA ParkEffect ==
  ASSUME Shape, NEW r \in Requests, Park(r)
  PROVE  /\ Shape' /\ waiting' = waiting /\ client' = client /\ syncs[r].phase = "answer"
         /\ syncs'[r].phase = "ceilings" /\ syncs'[r].since = syncs[r].since
         /\ \A o \in Others(r) : syncs'[o] = syncs[o]
<1>1. /\ syncs' = [o \in Requests |-> syncs'[o]]
      /\ syncs'[r] = [NoSync EXCEPT !.phase = "ceilings", !.since = syncs[r].since]
      /\ \A o \in Others(r) : syncs'[o] = syncs[o]
  BY DEF Shape, Park, Others
<1>2. /\ DOMAIN syncs'[r] = DOMAIN NoSync /\ DOMAIN syncs'[r].upTo = DOMAIN Zero
      /\ syncs'[r].phase = "ceilings" /\ syncs'[r].since = syncs[r].since
      /\ syncs'[r].read = {}
  BY <1>1 DEF NoSync
<1>3. syncs[r].phase = "answer" /\ waiting' = waiting /\ client' = client
  BY DEF Park
<1>4. Shape'
  BY <1>1, <1>2, <1>3, ShapeStep
<1> QED
  BY <1>1, <1>2, <1>3, <1>4

LEMMA EndEffect ==
  ASSUME Shape, NEW r \in Requests, Lose(r) \/ Deliver(r)
  PROVE  /\ Shape' /\ waiting' \in {waiting, None} /\ waiting' # r
         /\ syncs'[r].phase = "idle" /\ syncs'[r].read = {}
         /\ \A o \in Others(r) : syncs'[o] = syncs[o]
         /\ Lose(r) \/ waiting' = None
<1>1. /\ syncs' = [o \in Requests |-> syncs'[o]] /\ syncs'[r] = NoSync
      /\ \A o \in Others(r) : syncs'[o] = syncs[o]
  BY DEF Shape, Lose, Deliver, Others
<1>2. waiting' \in {waiting, None} /\ waiting' # r /\ (client' = client \/ waiting' = None)
  BY LegacySyncAssumption DEF Lose, Deliver
<1>3. NoSync.phase = "idle" /\ NoSync.read = {} /\ DOMAIN NoSync.upTo = DOMAIN Zero
  BY DEF NoSync
<1>4. Shape'
  BY <1>1, <1>2, <1>3, LegacySyncAssumption DEF Shape, Others
<1>5. Lose(r) \/ waiting' = None
  BY DEF Deliver
<1> QED
  BY <1>1, <1>2, <1>3, <1>4, <1>5

\* The steps of writers change none of it.
LEMMA ShapeFrame == ASSUME Shape, UNCHANGED <<syncs, client, waiting>> PROVE Shape'
BY DEF Shape
-----------------------------------------------------------------------------
(* The kinds of steps.                                                     *)
QueueStep(h) ==
  /\ toDeviceOnly
  /\ (\E t \in Txns : TD!Send(h, t)) \/ TD!NextPosition(h) \/ TD!Commit(h) \/ TD!Fail(h)

AccountStep(h) ==
  /\ accountOnly
  /\ AD!Begin(h) \/ AD!NextPosition(h) \/ AD!Read(h) \/ AD!Commit(h) \/ AD!Fail(h)

TypingStep ==
  /\ typingOnly
  /\ \/ \E h \in Handlers : TY!Set(h) \/ TY!Increment(h) \/ TY!Store(h, Taken) \/ TY!Fail(h)
     \/ TY!EntryExpires \/ TY!CounterExpires(Taken) \/ TY!VersionExpires

RequestStep(r) == \/ Ask(r) \/ Ceilings(r) \/ Build(r) \/ Commit(r) \/ Park(r)
                  \/ Lose(r) \/ Deliver(r)

(* A step is one of a writer of one of the three kinds, or of a request.   *)
LEMMA Kinds ==
  ASSUME [Next]_vars
  PROVE  \/ \E h \in Handlers : QueueStep(h)
         \/ \E h \in Handlers : AccountStep(h)
         \/ TypingStep
         \/ \E r \in Requests : RequestStep(r)
         \/ UNCHANGED vars
<1>1. CASE Writers
  <2>1. PICK h \in Handlers : QueueStep(h) \/ AccountStep(h) \/ TypingStep
    BY <1>1 DEF Writers, QueueStep, AccountStep, TypingStep
  <2> QED
    BY <2>1
<1>2. CASE Expire
  BY <1>2 DEF Expire, TypingStep
<1>3. CASE \E r \in Requests : RequestStep(r)
  BY <1>3
<1> QED
  BY <1>1, <1>2, <1>3 DEF Next, RequestStep

LEMMA ShapeNext == ASSUME Shape, [Next]_vars PROVE Shape'
<1>1. CASE \E h \in Handlers : QueueStep(h)
  BY <1>1, ShapeFrame DEF QueueStep, toDeviceOnly
<1>2. CASE \E h \in Handlers : AccountStep(h)
  BY <1>2, ShapeFrame DEF AccountStep, accountOnly
<1>3. CASE TypingStep
  BY <1>3, ShapeFrame DEF TypingStep, typingOnly
<1>4. CASE \E r \in Requests : RequestStep(r)
  BY <1>4, AskEffect, CeilingsEffect, BuildEffect, CommitEffect, ParkEffect, EndEffect DEF RequestStep
<1>5. CASE UNCHANGED vars
  BY <1>5, ShapeFrame DEF vars
<1> QED
  BY <1>1, <1>2, <1>3, <1>4, <1>5, Kinds

-----------------------------------------------------------------------------
(* The account data.                                                       *)

DataTypes ==
  /\ dataIssued \in Nat /\ dataOpen \subseteq 1..dataIssued
  /\ data \in [Types -> [content : SUBSET Nat, position : Nat]]
  /\ writes \in [Handlers -> [phase : {"idle", "next", "read", "commit"},
                              op : {"none", "set", "amend"}, type : Types,
                              position : Nat, read : SUBSET Nat]]

AtWork(h) == writes[h].phase \in {"read", "commit"}

(* A write holds a position of its own from Next to its end.               *)
Held ==
  /\ \A h \in Handlers : /\ AtWork(h) => writes[h].position \in dataOpen
                         /\ ~AtWork(h) => writes[h].position = 0
  /\ \A h, o \in Handlers : AtWork(h) /\ AtWork(o) /\ h # o =>
                              writes[h].position # writes[o].position

(* An amendment that has read the row is alone, and has read every tag     *)
(* that was amended.                                                       *)
TagsKept ==
  /\ tagged \subseteq data[Tags].content
  /\ \A h \in Handlers :
       /\ writes[h].phase = "read" => writes[h].op = "amend"
       /\ writes[h].op = "amend" => writes[h].type = Tags
       /\ writes[h].phase = "commit" /\ writes[h].op = "amend" =>
            tagged \subseteq writes[h].read /\ ~AD!LockedByOther(h)

DataLocal == DataTypes /\ Held /\ TagsKept

Known(p) == p \in 0..dataIssued /\ \A o \in dataOpen : p < o

HasCeiling(r) == syncs[r].phase \in {"build", "commit", "answer"}
HasAnswer(r)  == waiting = r /\ syncs[r].phase \in {"commit", "answer"}

(* No write under way has a position at or below a ceiling.                *)
DataAhead ==
  /\ Known(client.token.account)
  /\ \A r \in Requests : HasCeiling(r) => Known(syncs[r].upTo.account)

(* What the client has once it takes in the answer of r.                   *)
MergedData(r, t) == IF t \in DOMAIN syncs[r].account THEN syncs[r].account[t]
                    ELSE client.account[t]

(* What the answer waited for lacks lies above the ceiling it carries.     *)
AnswerIsAhead ==
  \A r \in Requests : HasAnswer(r) =>
    \A t \in Types : MergedData(r, t) # data[t].content => data[t].position > syncs[r].upTo.account

DataInv == DataLocal /\ DataAhead /\ AccountDataIsAhead /\ AnswerIsAhead

LEMMA DataInit == Init => DataInv
<1> SUFFICES ASSUME Init PROVE DataInv
  OBVIOUS
<1>1. DataLocal
  BY LegacySyncAssumption DEF Init, AD!Init, DataLocal, DataTypes, Held, AtWork, TagsKept, AD!NoWrite
<1>2. DataAhead
  BY DEF Init, AD!Init, DataAhead, Known, HasCeiling, NoSync, Zero
<1>3. AccountDataIsAhead /\ AnswerIsAhead
  BY DEF Init, AD!Init, AccountDataIsAhead, AnswerIsAhead, HasAnswer, NoSync
<1> QED
  BY <1>1, <1>2, <1>3 DEF DataInv

(* What a step of a writer changes.                                        *)
LEMMA WriterKeepsLocal ==
  ASSUME DataLocal, NEW h \in Handlers, AccountStep(h)
  PROVE  /\ DataLocal'
         /\ dataIssued' \in Nat /\ dataIssued <= dataIssued'
         /\ \A o \in dataOpen' : o \in dataOpen \/ o > dataIssued
         /\ \A t \in Types : data'[t] = data[t] \/ data'[t].position \in dataOpen
<1> USE DEF DataLocal, DataTypes
<1> DEFINE w == writes[h]
<1>1. CASE AD!Begin(h)
  <2>1. PICK op \in {"set", "amend"}, t \in Types :
          /\ op = "amend" => t = Tags
          /\ writes' = [writes EXCEPT ![h] = [AD!NoWrite EXCEPT !.phase = "next", !.op = op, !.type = t]]
    BY <1>1 DEF AD!Begin
  <2>2. PICK new \in [phase : {"next"}, op : {"set", "amend"}, type : Types,
                      position : {0}, read : {{}}] :
          writes' = [writes EXCEPT ![h] = new] /\ (new.op = "amend" => new.type = Tags)
    <3>1. [AD!NoWrite EXCEPT !.phase = "next", !.op = op, !.type = t]
            \in [phase : {"next"}, op : {"set", "amend"}, type : Types, position : {0}, read : {{}}]
      BY DEF AD!NoWrite
    <3>2. /\ [AD!NoWrite EXCEPT !.phase = "next", !.op = op, !.type = t].op = op
          /\ [AD!NoWrite EXCEPT !.phase = "next", !.op = op, !.type = t].type = t
      BY DEF AD!NoWrite
    <3> QED
      BY <2>1, <3>1, <3>2
  <2>3. UNCHANGED <<data, dataIssued, dataOpen, tagged>> /\ w.phase = "idle"
    BY <1>1 DEF AD!Begin
  <2>4. DataTypes'
    BY <2>2, <2>3
  <2>5. Held'
    BY <2>2, <2>3 DEF Held, AtWork
  <2>6. TagsKept'
    BY <2>1, <2>2, <2>3 DEF TagsKept, AD!LockedByOther
  <2> QED
    BY <2>3, <2>4, <2>5, <2>6
<1>2. CASE AD!NextPosition(h)
  <2>1. /\ w.phase = "next" /\ dataIssued' = dataIssued + 1 /\ dataOpen' = dataOpen \cup {dataIssued + 1}
        /\ writes' = [writes EXCEPT ![h].position = dataIssued + 1,
                                    ![h].phase = IF w.op = "amend" THEN "read" ELSE "commit"]
        /\ UNCHANGED <<data, tagged>>
    BY <1>2 DEF AD!NextPosition
  <2>2. DataTypes'
    BY <2>1
  <2>3. /\ writes'[h].position = dataIssued + 1 /\ AtWork(h)'
        /\ writes'[h].op = w.op /\ writes'[h].type = w.type
        /\ writes'[h].phase = IF w.op = "amend" THEN "read" ELSE "commit"
        /\ \A o \in Handlers \ {h} : writes'[o] = writes[o]
    BY <2>1 DEF AtWork
  <2>4. Held'
    BY <2>1, <2>3 DEF Held, AtWork
  <2>5. TagsKept'
    BY <2>1, <2>3 DEF TagsKept, AD!LockedByOther
  <2> QED
    BY <2>1, <2>2, <2>4, <2>5
<1>3. CASE AD!Read(h)
  <2>1. /\ w.phase = "read" /\ ~AD!LockedByOther(h)
        /\ writes' = [writes EXCEPT ![h].read = data[Tags].content, ![h].phase = "commit"]
        /\ UNCHANGED <<data, dataIssued, dataOpen, tagged>>
    BY <1>3 DEF AD!Read
  <2>2. DataTypes'
    BY <2>1, LegacySyncAssumption
  <2>3. Held'
    BY <2>1 DEF Held, AtWork
  <2>4. /\ writes'[h].op = w.op /\ writes'[h].type = w.type /\ writes'[h].phase = "commit"
        /\ writes'[h].read = data[Tags].content
        /\ \A o \in Handlers \ {h} : writes'[o] = writes[o]
    BY <2>1
  <2>5. TagsKept'
    BY <2>1, <2>4 DEF TagsKept, AD!LockedByOther
  <2> QED
    BY <2>1, <2>2, <2>3, <2>5
<1>4. CASE AD!Commit(h)
  <2>1. /\ w.phase = "commit"
        /\ data' = [data EXCEPT ![w.type] = [content |-> w.read \cup {w.position}, position |-> w.position]]
        /\ dataOpen' = dataOpen \ {w.position}
        /\ tagged' = IF w.op = "amend" THEN tagged \cup {w.position}
                     ELSE IF w.type = Tags THEN {} ELSE tagged
        /\ writes' = [writes EXCEPT ![h] = AD!NoWrite]
        /\ UNCHANGED dataIssued
    BY <1>4 DEF AD!Commit
  <2>2. w.position \in dataOpen
    BY <2>1 DEF Held, AtWork
  <2>3. DataTypes'
    BY <2>1, <2>2, LegacySyncAssumption DEF AD!NoWrite
  <2>4. Held'
    BY <2>1, <2>2 DEF Held, AtWork, AD!NoWrite
  <2>5. /\ writes'[h].op = "none" /\ writes'[h].phase = "idle"
        /\ \A o \in Handlers \ {h} : writes'[o] = writes[o]
    BY <2>1 DEF AD!NoWrite
  <2>6. tagged' \subseteq data'[Tags].content
    BY <2>1, LegacySyncAssumption DEF TagsKept
  <2>7. \A o \in Handlers : writes'[o].phase = "commit" /\ writes'[o].op = "amend" =>
          tagged' \subseteq writes'[o].read /\ ~AD!LockedByOther(o)'
    <3> SUFFICES ASSUME NEW o \in Handlers, writes'[o].phase = "commit", writes'[o].op = "amend"
                 PROVE  tagged' \subseteq writes'[o].read /\ ~AD!LockedByOther(o)'
      OBVIOUS
    <3>1. o # h /\ writes[o].phase = "commit" /\ writes[o].op = "amend"
      BY <2>5
    <3>2. w.op # "amend"
      BY <2>1, <3>1 DEF TagsKept, AD!LockedByOther
    <3> QED
      BY <2>1, <2>5, <3>1, <3>2 DEF TagsKept, AD!LockedByOther
  <2>8. TagsKept'
    BY <2>5, <2>6, <2>7 DEF TagsKept
  <2> QED
    BY <2>1, <2>2, <2>3, <2>4, <2>8
<1>5. CASE AD!Fail(h)
  <2>1. /\ dataOpen' = dataOpen \ {w.position} /\ writes' = [writes EXCEPT ![h] = AD!NoWrite]
        /\ UNCHANGED <<data, dataIssued, tagged>>
    BY <1>5 DEF AD!Fail
  <2>2. DataTypes'
    BY <2>1, LegacySyncAssumption DEF AD!NoWrite
  <2>3. Held'
    BY <2>1 DEF Held, AtWork, AD!NoWrite
  <2>4. /\ writes'[h].op = "none" /\ writes'[h].phase = "idle"
        /\ \A o \in Handlers \ {h} : writes'[o] = writes[o]
    BY <2>1 DEF AD!NoWrite
  <2>5. TagsKept'
    BY <2>1, <2>4 DEF TagsKept, AD!LockedByOther
  <2> QED
    BY <2>1, <2>2, <2>3, <2>5
<1> QED
  BY <1>1, <1>2, <1>3, <1>4, <1>5 DEF AccountStep
(* The account data, when a writer moves: what changes has a position that *)
(* was held or is new, so it lies above every ceiling.                     *)
LEMMA DataWriterStep ==
  ASSUME DataInv, NEW h \in Handlers, AccountStep(h)
  PROVE  DataInv'
<1>1. /\ DataLocal'
      /\ dataIssued' \in Nat /\ dataIssued <= dataIssued'
      /\ \A o \in dataOpen' : o \in dataOpen \/ o > dataIssued
      /\ \A t \in Types : data'[t] = data[t] \/ data'[t].position \in dataOpen
  BY WriterKeepsLocal DEF DataInv
<1>2. UNCHANGED <<syncs, client, waiting>>
  BY DEF AccountStep, accountOnly
<1>3. dataIssued \in Nat /\ dataOpen \subseteq 1..dataIssued /\ dataOpen' \subseteq 1..dataIssued'
  BY <1>1 DEF DataInv, DataLocal, DataTypes
<1>4. ASSUME NEW p, Known(p) PROVE Known(p)'
  BY <1>1, <1>3, <1>4 DEF Known
<1>5. DataAhead'
  <2>1. Known(client.token.account)'
    BY <1>2, <1>4 DEF DataInv, DataAhead, Known
  <2>2. ASSUME NEW r \in Requests, HasCeiling(r)' PROVE Known(syncs[r].upTo.account)'
    <3>1. Known(syncs[r].upTo.account) /\ syncs'[r] = syncs[r]
      BY <1>2, <2>2 DEF DataInv, DataAhead, HasCeiling
    <3> QED
      BY <1>1, <1>3, <3>1 DEF Known
  <2> QED
    BY <2>1, <2>2 DEF DataAhead
<1>6. AccountDataIsAhead'
  BY <1>1, <1>2, <1>3 DEF DataInv, DataAhead, Known, AccountDataIsAhead
<1>7. AnswerIsAhead'
  <2> SUFFICES ASSUME NEW r \in Requests, HasAnswer(r)', NEW t \in Types,
                      MergedData(r, t)' # data'[t].content
               PROVE  data'[t].position > syncs'[r].upTo.account
    BY DEF AnswerIsAhead
  <2>1. HasAnswer(r) /\ HasCeiling(r) /\ syncs' = syncs /\ MergedData(r, t)' = MergedData(r, t)
    BY <1>2 DEF HasAnswer, HasCeiling, MergedData
  <2>2. Known(syncs[r].upTo.account)
    BY <2>1 DEF DataInv, DataAhead
  <2>3. CASE data'[t] = data[t]
    BY <2>1, <2>3 DEF DataInv, AnswerIsAhead
  <2>4. CASE data'[t].position \in dataOpen
    BY <1>3, <2>1, <2>2, <2>4 DEF Known
  <2> QED
    BY <1>1, <2>3, <2>4
<1> QED
  BY <1>1, <1>5, <1>6, <1>7 DEF DataInv

(* The account data, when a request moves.                                 *)
LEMMA DataRequestStep ==
  ASSUME Shape, DataInv, NEW r \in Requests, RequestStep(r)
  PROVE  DataInv'
<1> USE DEF DataInv
<1>1. UNCHANGED accountVars
  BY DEF RequestStep, Ask, Ceilings, Build, Commit, Park, Lose, Deliver
<1>2. DataLocal' /\ \A p : Known(p)' = Known(p)
  BY <1>1 DEF DataLocal, DataTypes, Held, AtWork, TagsKept, AD!LockedByOther, Known, accountVars
<1>3. UNCHANGED <<data, dataIssued, dataOpen>>
  BY <1>1 DEF accountVars
<1>4. \A o \in Others(r) : syncs'[o] = syncs[o]
  BY AskEffect, CeilingsEffect, BuildEffect, CommitEffect, ParkEffect, EndEffect DEF RequestStep
<1>5. ASSUME \A p : Known(p)' = Known(p),
             Known(client'.token.account), HasCeiling(r)' => Known(syncs'[r].upTo.account)
      PROVE  DataAhead'
  <2>1. ASSUME NEW o \in Requests, HasCeiling(o)' PROVE Known(syncs'[o].upTo.account)
    <3>1. CASE o = r
      BY <1>5, <2>1, <3>1
    <3>2. CASE o # r
      BY <1>4, <2>1, <3>2 DEF DataAhead, HasCeiling, Others
    <3> QED
      BY <3>1, <3>2
  <2> QED
    BY <1>3, <1>5, <2>1 DEF DataAhead, Known
<1>6. ASSUME client' = client, waiting' \in {waiting, r, None},
             HasAnswer(r)' => \A t \in Types :
               MergedData(r, t)' # data[t].content => data[t].position > syncs'[r].upTo.account
      PROVE  AccountDataIsAhead' /\ AnswerIsAhead'
  <2>1. AccountDataIsAhead'
    BY <1>3, <1>6 DEF AccountDataIsAhead
  <2>2. ASSUME NEW o \in Requests, HasAnswer(o)', NEW t \in Types, MergedData(o, t)' # data'[t].content
        PROVE  data'[t].position > syncs'[o].upTo.account
    <3>1. CASE o = r
      BY <1>3, <1>6, <2>2, <3>1
    <3>2. CASE o # r
      <4>1. HasAnswer(o) /\ syncs'[o] = syncs[o] /\ MergedData(o, t)' = MergedData(o, t)
        BY <1>4, <1>6, <2>2, <3>2, LegacySyncAssumption DEF HasAnswer, MergedData, Others
      <4> QED
        BY <1>3, <2>2, <4>1 DEF AnswerIsAhead
    <3> QED
      BY <3>1, <3>2
  <2> QED
    BY <2>1, <2>2 DEF AnswerIsAhead
<1>7. CASE Ask(r)
  <2>1. client' = client /\ waiting' = r /\ syncs'[r].phase = "ceilings"
    BY <1>7, AskEffect DEF Ask
  <2>2. ~HasCeiling(r)' /\ ~HasAnswer(r)'
    BY <2>1 DEF HasCeiling, HasAnswer
  <2> QED
    BY <1>2, <1>5, <1>6, <2>1, <2>2 DEF DataAhead
<1>8. CASE Ceilings(r)
  <2>1. /\ client' = client /\ waiting' = waiting /\ syncs'[r].phase = "build"
        /\ syncs'[r].upTo.account \in AD!Published
    BY <1>8, CeilingsEffect DEF Ceilings
  <2>2. ~HasAnswer(r)' /\ Known(syncs'[r].upTo.account)
    BY <2>1 DEF HasAnswer, Known, AD!Published
  <2> QED
    BY <1>2, <1>5, <1>6, <2>1, <2>2 DEF DataAhead
<1>9. CASE Build(r)
  <2>1. /\ client' = client /\ waiting' = waiting /\ syncs[r].phase = "build"
        /\ syncs'[r].since = syncs[r].since
        /\ syncs'[r].account = [t \in AD!Since(syncs[r].since.account) |-> data[t].content]
        /\ syncs'[r].upTo.account = syncs[r].upTo.account
    BY <1>9, BuildEffect
  <2>2. Known(syncs'[r].upTo.account)
    BY <2>1 DEF DataAhead, HasCeiling
  <2>3. ASSUME HasAnswer(r)', NEW t \in Types PROVE MergedData(r, t)' = data[t].content
    <3>1. syncs[r].since = client.token
      BY <2>1, <2>3 DEF Shape, HasAnswer
    <3>2. CASE t \in AD!Since(syncs[r].since.account)
      BY <2>1, <3>2 DEF MergedData
    <3>3. CASE t \notin AD!Since(syncs[r].since.account)
      <4>1. ~(data[t].position > client.token.account)
        BY <3>1, <3>3 DEF AD!Since
      <4>2. client.account[t] = data[t].content
        BY <4>1 DEF AccountDataIsAhead
      <4> QED
        BY <2>1, <3>3, <4>2 DEF MergedData
    <3> QED
      BY <3>2, <3>3
  <2> QED
    BY <1>2, <1>5, <1>6, <2>1, <2>2, <2>3 DEF DataAhead
<1>10. CASE Commit(r)
  <2>1. /\ client' = client /\ waiting' = waiting /\ syncs[r].phase = "commit"
        /\ syncs'[r].phase = "answer" /\ syncs'[r].upTo = syncs[r].upTo
        /\ syncs'[r].account = syncs[r].account
    BY <1>10, CommitEffect DEF Commit
  <2>2. Known(syncs'[r].upTo.account)
    BY <2>1 DEF DataAhead, HasCeiling
  <2>3. HasAnswer(r)' => HasAnswer(r) /\ \A t \in Types : MergedData(r, t)' = MergedData(r, t)
    BY <2>1 DEF HasAnswer, MergedData
  <2> QED
    BY <1>2, <1>5, <1>6, <2>1, <2>2, <2>3 DEF DataAhead, AnswerIsAhead
<1>11. CASE Lose(r)
  <2>1. client' = client /\ waiting' \in {waiting, None} /\ syncs'[r].phase = "idle"
    BY <1>11, EndEffect DEF Lose
  <2>2. ~HasCeiling(r)' /\ ~HasAnswer(r)'
    BY <2>1 DEF HasCeiling, HasAnswer
  <2> QED
    BY <1>2, <1>5, <1>6, <2>1, <2>2 DEF DataAhead
<1>12. CASE Deliver(r)
  <2>1. /\ waiting' = None /\ HasAnswer(r) /\ HasCeiling(r) /\ syncs'[r].phase = "idle"
        /\ client'.token = syncs[r].upTo
        /\ client'.account = [t \in Types |-> MergedData(r, t)]
    BY <1>12, EndEffect DEF Deliver, HasAnswer, HasCeiling, MergedData
  <2>2. DataAhead'
    BY <1>2, <1>5, <2>1 DEF DataAhead, HasCeiling
  <2>3. AccountDataIsAhead'
    BY <1>3, <2>1 DEF AnswerIsAhead, AccountDataIsAhead
  <2>4. AnswerIsAhead'
    BY <2>1, LegacySyncAssumption DEF AnswerIsAhead, HasAnswer
  <2> QED
    BY <1>2, <2>2, <2>3, <2>4
<1>13. CASE Park(r)
  <2>1. client' = client /\ waiting' = waiting /\ syncs'[r].phase = "ceilings"
    BY <1>13, ParkEffect
  <2>2. ~HasCeiling(r)' /\ ~HasAnswer(r)'
    BY <2>1 DEF HasCeiling, HasAnswer
  <2> QED
    BY <1>2, <1>5, <1>6, <2>1, <2>2 DEF DataAhead
<1> QED
  BY <1>7, <1>8, <1>9, <1>10, <1>11, <1>12, <1>13 DEF RequestStep

LEMMA DataNext == ASSUME Shape, DataInv, [Next]_vars PROVE DataInv'
<1>1. CASE UNCHANGED <<accountVars, syncs, client, waiting>>
  BY <1>1 DEF DataInv, DataLocal, DataTypes, Held, AtWork, TagsKept, AD!LockedByOther, DataAhead, Known,
              HasCeiling, HasAnswer, MergedData, AnswerIsAhead, AccountDataIsAhead, accountVars
<1>2. CASE \E h \in Handlers : AccountStep(h)
  BY <1>2, DataWriterStep
<1>3. CASE \E r \in Requests : RequestStep(r)
  BY <1>3, DataRequestStep
<1> QED
  BY <1>1, <1>2, <1>3, Kinds DEF QueueStep, TypingStep, toDeviceOnly, typingOnly, vars

(* A tag that was set or deleted is not undone by an amendment under way   *)
(* at the same time, for any number of writers.                            *)
THEOREM NoTagIsLostHolds == Spec => []NoTagIsLost
<1>1. Shape /\ DataInv => NoTagIsLost
  BY DEF DataInv, DataLocal, TagsKept, NoTagIsLost, AD!NoTagIsLost
<1> QED
  BY <1>1, ShapeInit, DataInit, ShapeNext, DataNext, PTL DEF Spec

(* Account data that the client has otherwise than the server lies above   *)
(* its cursor, for any number of writers and requests.                     *)
THEOREM AccountDataIsAheadHolds == Spec => []AccountDataIsAhead
<1>1. Shape /\ DataInv => AccountDataIsAhead
  BY DEF DataInv
<1> QED
  BY <1>1, ShapeInit, DataInit, ShapeNext, DataNext, PTL DEF Spec
-----------------------------------------------------------------------------
(* The messages.                                                           *)

(* A bounded set of numbers that is not empty has its greatest element.    *)
LEMMA MaxExists ==
  ASSUME NEW S \in SUBSET Nat, NEW b \in Nat, \A x \in S : x <= b, S # {}
  PROVE  TD!Max(S) \in S /\ \A y \in S : y <= TD!Max(S)
<1> DEFINE T == {b - x : x \in S}
<1>1. T \subseteq Nat /\ T # {}
  <2>1. \A x \in S : b - x \in Nat
    OBVIOUS
  <2>2. PICK x \in S : TRUE
    OBVIOUS
  <2>3. b - x \in T
    OBVIOUS
  <2> QED
    BY <2>1, <2>3
<1> DEFINE R == OpToRel(<, Nat)
<1>2. IsWellFoundedOn(R, Nat)
  BY NatLessThanWellFounded
<1>3. PICK z \in T : \A y \in T : ~(<<y, z>> \in R)
  <2> HIDE DEF T, R
  <2> QED
    BY <1>1, <1>2, WFMin
<1>4. \A y \in T : ~(y < z)
  BY <1>1, <1>3 DEF OpToRel
<1> HIDE DEF R
<1>5. PICK x \in S : z = b - x
  BY <1>3
<1>6. \A y \in S : y <= x
  BY <1>4, <1>5
<1>7. \A y \in S : x >= y
  BY <1>6
<1> QED
  BY <1>7 DEF TD!Max

QueueTypes ==
  /\ sent \in Nat
  /\ sends = [h \in Handlers |-> sends[h]]
  /\ \A h \in Handlers : /\ DOMAIN sends[h] = DOMAIN TD!NoSend
                         /\ sends[h].phase \in {"idle", "next", "commit"}
                         /\ sends[h].position \in 0..sent
                         /\ ~sends[h].late
  /\ \A m \in messages : m.position \in 1..sent
  /\ IsFiniteSet(messages)
  /\ \A q \in queued : q.position \in 1..sent
  /\ offered \in 0..sent

(* What was queued is recorded; a handler about to commit has a position.  *)
Recorded ==
  /\ \A q \in queued : q.txn \in transactions
  /\ \A h \in Handlers : sends[h].phase = "commit" /\ sends[h].txn \in Queuing =>
                           sends[h].position # 0

QueueLocal == QueueTypes /\ Recorded

(* Requests carry cursors the device was given, and bring what lies above. *)
QueueAhead ==
  /\ client.token.toDevice \in 0..offered
  /\ \A p \in client.received : p \in Nat /\ p <= client.token.toDevice
  /\ \A r \in Requests : syncs[r].phase # "idle" =>
       LET s == syncs[r] IN
       /\ s.since.toDevice \in 0..client.token.toDevice
       /\ s.phase = "commit" => \A m \in s.delete : m.position <= s.since.toDevice
       /\ s.phase \in {"commit", "answer"} =>
            /\ s.upTo.toDevice \in s.since.toDevice..offered
            /\ \A m \in s.read : m.position \in (s.since.toDevice + 1)..s.upTo.toDevice

(* What the client has not passed is still there; what it has passed it    *)
(* has received, or was committed behind.                                  *)
Kept ==
  \A q \in queued :
    IF q.position > client.token.toDevice THEN \E m \in messages : m.position = q.position
    ELSE q.position \in client.received \/ q.behind

(* The answer waited for brings all up to its cursor.                      *)
Covers(r) ==
  \A q \in queued :
    q.position > syncs[r].since.toDevice /\ q.position <= syncs[r].upTo.toDevice =>
      q.behind \/ \E m \in syncs[r].read : m.position = q.position

AnswerCovers == \A r \in Requests : HasAnswer(r) => Covers(r)

QueueInv == QueueLocal /\ QueueAhead /\ Kept /\ AnswerCovers

LEMMA QueueInit == Init => QueueInv
<1> SUFFICES ASSUME Init PROVE QueueInv
  OBVIOUS
<1>1. QueueLocal
  BY FS_EmptySet DEF Init, TD!Init, QueueLocal, QueueTypes, Recorded, TD!NoSend
<1>2. QueueAhead
  BY DEF Init, TD!Init, QueueAhead, NoSync, Zero
<1>3. Kept /\ AnswerCovers
  BY DEF Init, TD!Init, Kept, AnswerCovers, HasAnswer, NoSync
<1> QED
  BY <1>1, <1>2, <1>3 DEF QueueInv

(* What a step of a sender changes: a message is added, and is behind if   *)
(* its position is not above every cursor handed out.                      *)
LEMMA SenderKeepsLocal ==
  ASSUME QueueLocal, NEW h \in Handlers, QueueStep(h)
  PROVE  /\ QueueLocal'
         /\ offered' = offered /\ messages \subseteq messages'
         /\ \A q \in queued' : \/ q \in queued
                               \/ /\ q.position <= offered => q.behind
                                  /\ \E m \in messages' : m.position = q.position
<1> USE DEF QueueLocal, QueueTypes
<1> DEFINE s == sends[h]
<1>0. /\ DOMAIN TD!NoSend = {"phase", "txn", "position", "late"}
      /\ TD!NoSend.phase = "idle" /\ TD!NoSend.position = 0 /\ ~TD!NoSend.late
  BY DEF TD!NoSend
<1>1. CASE \E t \in Txns : TD!Send(h, t)
  <2>1. PICK t \in Txns : TD!Send(h, t)
    BY <1>1
  <2>2. ~TD!Done(t)
    BY <2>1 DEF TD!Send, TD!Done, Recorded
  <2> DEFINE p == IF t \in Queuing THEN "next" ELSE "commit"
             new == [TD!NoSend EXCEPT !.phase = p, !.txn = t, !.late = TD!Done(t)]
  <2>3. sends' = [o \in Handlers |-> IF o = h THEN new ELSE sends[o]]
    BY <2>1 DEF TD!Send
  <2>4. /\ DOMAIN new = DOMAIN TD!NoSend /\ new.phase = p /\ new.txn = t /\ new.position = 0
        /\ ~new.late
    BY <2>2 DEF TD!NoSend
  <2>5. UNCHANGED <<messages, transactions, sent, queued, offered>>
    BY <2>1 DEF TD!Send
  <2> HIDE DEF new
  <2>6. QueueTypes'
    BY <2>3, <2>4, <2>5
  <2>7. Recorded'
    BY <2>3, <2>4, <2>5 DEF Recorded
  <2> QED
    BY <2>5, <2>6, <2>7
<1>2. CASE TD!NextPosition(h)
  <2> DEFINE new == [s EXCEPT !.phase = "commit", !.position = sent + 1]
  <2>1. /\ sent' = sent + 1 /\ sends' = [o \in Handlers |-> IF o = h THEN new ELSE sends[o]]
        /\ UNCHANGED <<messages, transactions, queued, offered>>
    BY <1>2 DEF TD!NextPosition
  <2>2. /\ DOMAIN new = DOMAIN TD!NoSend /\ new.phase = "commit" /\ new.position = sent + 1
        /\ ~new.late
    BY <1>0
  <2> HIDE DEF new
  <2>3. QueueTypes'
    BY <2>1, <2>2
  <2>4. Recorded'
    BY <2>1, <2>2 DEF Recorded
  <2> QED
    BY <2>1, <2>3, <2>4
<1>3. CASE TD!Commit(h)
  <2> DEFINE m == [position |-> s.position, txn |-> s.txn]
             q == [position |-> s.position, txn |-> s.txn, behind |-> s.position <= offered]
  <2>1. /\ s.phase = "commit" /\ transactions' = transactions \cup {s.txn}
        /\ sends' = [o \in Handlers |-> IF o = h THEN TD!NoSend ELSE sends[o]]
        /\ UNCHANGED <<sent, offered>>
    BY <1>3 DEF TD!Commit, TD!Record
  <2>2. \/ s.txn \notin Queuing /\ UNCHANGED <<messages, queued>>
        \/ s.txn \in Queuing /\ messages' = messages \cup {m} /\ queued' = queued \cup {q}
    BY <1>3 DEF TD!Commit
  <2>3. s.txn \in Queuing => s.position \in 1..sent
    BY <2>1 DEF Recorded
  <2>4. m.position = s.position
    OBVIOUS
  <2>5. q.position = s.position /\ q.txn = s.txn /\ (q.position <= offered => q.behind)
    OBVIOUS
  <2> HIDE DEF m, q
  <2>6. IsFiniteSet(messages')
    BY <2>2, FS_AddElement
  <2>7. QueueTypes'
    BY <1>0, <2>1, <2>2, <2>3, <2>4, <2>5, <2>6
  <2>8. Recorded'
    BY <1>0, <2>1, <2>2, <2>5 DEF Recorded
  <2>9. messages \subseteq messages'
    BY <2>2
  <2>10. \A x \in queued' : \/ x \in queued
                            \/ /\ x.position <= offered => x.behind
                               /\ \E y \in messages' : y.position = x.position
    BY <2>2, <2>4, <2>5
  <2> QED
    BY <2>1, <2>7, <2>8, <2>9, <2>10
<1>4. CASE TD!Fail(h)
  <2>1. /\ sends' = [o \in Handlers |-> IF o = h THEN TD!NoSend ELSE sends[o]]
        /\ UNCHANGED <<messages, transactions, sent, queued, offered>>
    BY <1>4 DEF TD!Fail
  <2>2. QueueTypes'
    BY <1>0, <2>1
  <2>3. Recorded'
    BY <1>0, <2>1 DEF Recorded
  <2> QED
    BY <2>1, <2>2, <2>3
<1> QED
  BY <1>1, <1>2, <1>3, <1>4 DEF QueueStep

(* The messages, when a sender moves.                                      *)
LEMMA QueueWriterStep ==
  ASSUME QueueInv, NEW h \in Handlers, QueueStep(h)
  PROVE  QueueInv'
<1>1. /\ QueueLocal'
      /\ offered' = offered /\ messages \subseteq messages'
      /\ \A q \in queued' : \/ q \in queued
                            \/ /\ q.position <= offered => q.behind
                               /\ \E m \in messages' : m.position = q.position
  BY SenderKeepsLocal DEF QueueInv
<1>2. UNCHANGED <<syncs, client, waiting>>
  BY DEF QueueStep, toDeviceOnly
<1>3. QueueAhead'
  BY <1>1, <1>2 DEF QueueInv, QueueAhead
<1>4. offered \in Nat /\ client.token.toDevice \in 0..offered /\ \A q \in queued' : q.position \in Nat
  BY <1>1 DEF QueueInv, QueueAhead, QueueLocal, QueueTypes
<1>5. Kept'
  BY <1>1, <1>2, <1>4 DEF QueueInv, Kept
<1>6. AnswerCovers'
  <2> SUFFICES ASSUME NEW r \in Requests, HasAnswer(r)', NEW q \in queued',
                      q.position > syncs[r].since.toDevice, q.position <= syncs[r].upTo.toDevice
               PROVE  q.behind \/ \E m \in syncs[r].read : m.position = q.position
    BY <1>2 DEF AnswerCovers, Covers
  <2>1. HasAnswer(r) /\ Covers(r) /\ syncs[r].upTo.toDevice \in syncs[r].since.toDevice..offered
        /\ syncs[r].since.toDevice \in Nat
    BY <1>2, <1>4 DEF HasAnswer, QueueInv, QueueAhead, AnswerCovers
  <2> QED
    BY <1>1, <1>4, <2>1 DEF Covers
<1> QED
  BY <1>1, <1>3, <1>5, <1>6 DEF QueueInv
(* What an answer reads lies above since and up to its cursor, and it      *)
(* reads all that lies there, although it reads Limit rows at most.        *)
LEMMA CursorBounds ==
  ASSUME QueueTypes, NEW since \in 0..offered
  PROVE  LET read == TD!Since(since)
             cursor == TD!Cursor(since, read) IN
         /\ cursor \in since..sent
         /\ \A m \in read : m.position \in (since + 1)..cursor
         /\ \A m \in messages : m.position > since /\ m.position <= cursor => m \in read
<1> DEFINE above == {m \in messages \ TD!UpTo(since) : m.position > since}
           read == TD!Since(since)
           P == {since} \cup {m.position : m \in read}
           cursor == TD!Cursor(since, read)
           upTo(m) == {n \in above : n.position <= m.position}
<1>1. read = {m \in above : Cardinality(upTo(m)) <= Limit}
  BY Zenon DEF TD!Since, TD!Cardinality, Cardinality
<1>2. /\ \A m \in read : m \in messages /\ m.position > since
      /\ \A m \in messages : m.position \in 1..sent /\ (m.position > since => m \in above)
  BY <1>1 DEF QueueTypes, TD!UpTo
<1>3. since \in Nat /\ since <= sent /\ sent \in Nat
  BY DEF QueueTypes
<1> HIDE DEF read
<1>4. P \in SUBSET Nat /\ P # {} /\ \A x \in P : x <= sent
  BY <1>2, <1>3
<1>5. cursor \in P /\ \A x \in P : x <= cursor
  BY <1>3, <1>4, MaxExists DEF TD!Cursor
<1>6. cursor \in since..sent
  BY <1>3, <1>4, <1>5
<1>7. \A m \in read : m.position \in (since + 1)..cursor
  BY <1>2, <1>3, <1>5, <1>6
<1>8. ASSUME NEW m \in messages, m.position > since, m.position <= cursor PROVE m \in read
  <2>1. PICK n \in read : n.position = cursor
    BY <1>2, <1>3, <1>5, <1>8
  <2>2. n \in messages /\ n.position \in Nat /\ m.position \in Nat /\ m \in above
    BY <1>2, <1>8, <2>1
  <2>3. IsFiniteSet(above)
    BY FS_Subset DEF QueueTypes
  <2>4. upTo(n) \in SUBSET above /\ upTo(m) \in SUBSET upTo(n)
    BY <1>2, <1>8, <2>1, <2>2
  <2>5. IsFiniteSet(upTo(n)) /\ IsFiniteSet(upTo(m)) /\ Cardinality(upTo(m)) <= Cardinality(upTo(n))
    BY <2>3, <2>4, FS_Subset
  <2>6. Cardinality(upTo(n)) \in Nat /\ Cardinality(upTo(m)) \in Nat
    BY <2>5, FS_CardinalityType
  <2>7. Cardinality(upTo(n)) <= Limit
    BY <1>1, <2>1
  <2> HIDE DEF upTo, above
  <2> QED
    BY <1>1, <2>2, <2>5, <2>6, <2>7, LegacySyncAssumption
<1> QED
  BY <1>6, <1>7, <1>8 DEF read

(* The messages, when a request moves.                                     *)
LEMMA QueueRequestStep ==
  ASSUME Shape, QueueInv, NEW r \in Requests, RequestStep(r)
  PROVE  QueueInv'
<1> USE DEF QueueInv
<1>1. UNCHANGED <<transactions, sent, sends, queued>>
  BY DEF RequestStep, Ask, Ceilings, Build, Commit, Park, Lose, Deliver, todeviceVars
<1>2. \A o \in Others(r) : syncs'[o] = syncs[o]
  BY AskEffect, CeilingsEffect, BuildEffect, CommitEffect, ParkEffect, EndEffect DEF RequestStep
<1>3. /\ client.token.toDevice \in 0..offered /\ offered \in 0..sent /\ sent \in Nat
      /\ \A q \in queued : q.position \in 1..sent
  BY DEF QueueAhead, QueueLocal, QueueTypes
<1>4. ASSUME messages' = messages, offered' = offered PROVE QueueLocal'
  BY <1>1, <1>4 DEF QueueLocal, QueueTypes, Recorded
\* What r must satisfy for QueueAhead.
<1> DEFINE Request(s, token, to) ==
      s.phase # "idle" =>
        /\ s.since.toDevice \in 0..token
        /\ s.phase = "commit" => \A m \in s.delete : m.position <= s.since.toDevice
        /\ s.phase \in {"commit", "answer"} =>
             /\ s.upTo.toDevice \in s.since.toDevice..to
             /\ \A m \in s.read : m.position \in (s.since.toDevice + 1)..s.upTo.toDevice
<1>5. ASSUME NEW token, NEW to, token = client'.token.toDevice, to = offered',
             client.token.toDevice <= token, token \in 0..to,
             to \in Nat, offered <= to, Request(syncs'[r], token, to),
             \A p \in client'.received : p \in Nat /\ p <= token
      PROVE  QueueAhead'
  <2>1. \A o \in Requests : Request(syncs'[o], token, to)
    <3> TAKE o \in Requests
    <3>1. CASE o = r
      BY <1>5, <3>1
    <3>2. CASE o # r
      <4>1. syncs'[o] = syncs[o] /\ Request(syncs[o], client.token.toDevice, offered)
        BY <1>2, <3>2 DEF QueueAhead, Others
      <4> QED
        BY <1>3, <1>5, <4>1
    <3> QED
      BY <3>1, <3>2
  <2> QED
    BY <1>5, <2>1 DEF QueueAhead
<1>6. ASSUME client' = client, waiting' \in {waiting, r, None},
             \A q \in queued : q.position > client.token.toDevice /\ (\E m \in messages : m.position = q.position)
                                 => \E m \in messages' : m.position = q.position,
             HasAnswer(r)' => Covers(r)'
      PROVE  Kept' /\ AnswerCovers'
  <2>1. Kept'
    BY <1>1, <1>6 DEF Kept
  <2>2. ASSUME NEW o \in Requests, HasAnswer(o)' PROVE Covers(o)'
    <3>1. CASE o = r
      BY <1>6, <2>2, <3>1
    <3>2. CASE o # r
      <4>1. HasAnswer(o) /\ syncs'[o] = syncs[o]
        BY <1>2, <1>6, <2>2, <3>2, LegacySyncAssumption DEF HasAnswer, Others
      <4> QED
        BY <1>1, <4>1 DEF AnswerCovers, Covers
    <3> QED
      BY <3>1, <3>2
  <2> QED
    BY <2>1, <2>2 DEF AnswerCovers
<1>7. CASE Ask(r)
  <2>1. /\ client' = client /\ waiting' = r /\ messages' = messages /\ offered' = offered
        /\ syncs'[r].phase = "ceilings" /\ syncs'[r].since = client.token
    BY <1>7, AskEffect DEF Ask, todeviceVars
  <2>2. QueueAhead'
    BY <1>3, <1>5, <2>1 DEF QueueAhead
  <2>3. ~HasAnswer(r)'
    BY <2>1 DEF HasAnswer
  <2> QED
    BY <1>4, <1>6, <2>1, <2>2, <2>3
<1>8. CASE Ceilings(r)
  <2>1. /\ client' = client /\ waiting' = waiting /\ messages' = messages /\ offered' = offered
        /\ syncs[r].phase = "ceilings" /\ syncs'[r].phase = "build" /\ syncs'[r].since = syncs[r].since
    BY <1>8, CeilingsEffect DEF Ceilings, todeviceVars
  <2>2. QueueAhead'
    BY <1>3, <1>5, <2>1 DEF QueueAhead
  <2>3. ~HasAnswer(r)'
    BY <2>1 DEF HasAnswer
  <2> QED
    BY <1>4, <1>6, <2>1, <2>2, <2>3
<1>9. CASE Build(r)
  <2> DEFINE since == syncs[r].since.toDevice
             read == TD!Since(since)
             cursor == TD!Cursor(since, read)
  <2>1. /\ client' = client /\ waiting' = waiting /\ messages' = messages
        /\ offered' = IF cursor > offered THEN cursor ELSE offered
        /\ syncs[r].phase = "build" /\ syncs'[r].phase = "commit"
        /\ syncs'[r].since = syncs[r].since /\ syncs'[r].delete = TD!UpTo(since)
        /\ syncs'[r].read = read /\ syncs'[r].upTo.toDevice = cursor
    BY <1>9, BuildEffect DEF Build
  <2>2. since \in 0..client.token.toDevice
    BY <2>1 DEF QueueAhead
  <2>3. /\ cursor \in since..sent /\ \A m \in read : m.position \in (since + 1)..cursor
        /\ \A m \in messages : m.position > since /\ m.position <= cursor => m \in read
    BY <1>3, <2>2, CursorBounds DEF QueueLocal
  <2>4. \A m \in TD!UpTo(since) : m.position <= since
    BY DEF TD!UpTo
  <2> HIDE DEF since, read, cursor
  <2>5. offered' \in Nat /\ offered <= offered' /\ offered' <= sent /\ cursor <= offered'
    BY <1>3, <2>1, <2>2, <2>3
  <2>6. QueueLocal'
    BY <1>1, <1>3, <2>1, <2>5 DEF QueueLocal, QueueTypes, Recorded
  <2>7. Request(syncs'[r], client.token.toDevice, offered')
    BY <1>3, <2>1, <2>2, <2>3, <2>4, <2>5 DEF since
  <2>8. QueueAhead'
    BY <1>3, <1>5, <2>1, <2>5, <2>7 DEF QueueAhead
  <2>9. HasAnswer(r)' => Covers(r)'
    <3> SUFFICES ASSUME HasAnswer(r)', NEW q \in queued, q.position > since, q.position <= cursor
                 PROVE  q.behind \/ \E m \in read : m.position = q.position
      BY <1>1, <2>1 DEF Covers, since
    <3>1. since = client.token.toDevice
      BY <2>1 DEF HasAnswer, Shape, since
    <3>2. PICK m \in messages : m.position = q.position
      BY <3>1 DEF Kept
    <3> QED
      BY <2>3, <3>2
  <2> QED
    BY <1>6, <2>1, <2>6, <2>8, <2>9
<1>10. CASE Commit(r)
  <2>1. /\ client' = client /\ waiting' = waiting /\ messages' = messages \ syncs[r].delete
        /\ offered' = offered /\ syncs[r].phase = "commit" /\ syncs'[r].phase = "answer"
        /\ syncs'[r].upTo = syncs[r].upTo /\ syncs'[r].since = syncs[r].since
        /\ syncs'[r].read = syncs[r].read
    BY <1>10, CommitEffect DEF Commit
  <2>2. QueueLocal'
    BY <1>1, <2>1, FS_Subset DEF QueueLocal, QueueTypes, Recorded
  <2>3. Request(syncs'[r], client.token.toDevice, offered)
    BY <2>1 DEF QueueAhead
  <2>4. QueueAhead'
    BY <1>3, <1>5, <2>1, <2>3 DEF QueueAhead
  <2>5. \A q \in queued : q.position > client.token.toDevice /\ (\E m \in messages : m.position = q.position)
                            => \E m \in messages' : m.position = q.position
    BY <1>3, <2>1 DEF QueueAhead
  <2>6. HasAnswer(r)' => Covers(r)'
    BY <1>1, <2>1 DEF HasAnswer, AnswerCovers, Covers
  <2> QED
    BY <1>6, <2>1, <2>2, <2>4, <2>5, <2>6
<1>11. CASE Lose(r)
  <2>1. /\ client' = client /\ waiting' \in {waiting, None} /\ messages' = messages
        /\ offered' = offered /\ syncs'[r].phase = "idle"
    BY <1>11, EndEffect DEF Lose, todeviceVars
  <2>2. QueueAhead'
    BY <1>3, <1>5, <2>1 DEF QueueAhead
  <2>3. ~HasAnswer(r)'
    BY <2>1 DEF HasAnswer
  <2> QED
    BY <1>4, <1>6, <2>1, <2>2, <2>3
<1>12. CASE Deliver(r)
  <2> DEFINE s == syncs[r]
  <2>1. /\ waiting' = None /\ HasAnswer(r) /\ syncs'[r].phase = "idle" /\ messages' = messages
        /\ offered' = offered /\ s.phase = "answer" /\ waiting = r
        /\ client'.token = s.upTo
        /\ client'.received = client.received \cup {m.position : m \in s.read}
    BY <1>12, EndEffect DEF Deliver, HasAnswer, todeviceVars
  <2>2. /\ s.since.toDevice = client.token.toDevice
        /\ s.upTo.toDevice \in s.since.toDevice..offered
        /\ \A m \in s.read : m.position \in (s.since.toDevice + 1)..s.upTo.toDevice
    BY <2>1 DEF Shape, QueueAhead
  <2>3. \A p \in client'.received : p \in Nat /\ p <= s.upTo.toDevice
    BY <1>3, <2>1, <2>2 DEF QueueAhead
  <2>4. QueueAhead'
    BY <1>3, <1>5, <2>1, <2>2, <2>3 DEF QueueAhead
  <2>5. Kept'
    <3> SUFFICES ASSUME NEW q \in queued
                 PROVE  IF q.position > s.upTo.toDevice THEN \E m \in messages : m.position = q.position
                        ELSE q.position \in client'.received \/ q.behind
      BY <1>1, <2>1 DEF Kept
    <3>1. CASE q.position > s.upTo.toDevice
      BY <1>3, <2>2, <3>1 DEF Kept
    <3>2. CASE q.position <= client.token.toDevice
      BY <1>3, <2>1, <2>2, <3>2 DEF Kept
    <3>3. CASE q.position > client.token.toDevice /\ q.position <= s.upTo.toDevice
      BY <1>3, <2>1, <2>2, <3>3 DEF AnswerCovers, Covers
    <3> QED
      BY <1>3, <2>2, <3>1, <3>2, <3>3
  <2>6. AnswerCovers'
    BY <2>1, LegacySyncAssumption DEF AnswerCovers, HasAnswer
  <2> QED
    BY <1>4, <2>1, <2>4, <2>5, <2>6
<1>13. CASE Park(r)
  <2>1. /\ client' = client /\ waiting' = waiting /\ messages' = messages /\ offered' = offered
        /\ syncs[r].phase = "answer" /\ syncs'[r].phase = "ceilings"
        /\ syncs'[r].since = syncs[r].since
    BY <1>13, ParkEffect DEF Park, todeviceVars
  <2>2. QueueAhead'
    BY <1>3, <1>5, <2>1 DEF QueueAhead
  <2>3. ~HasAnswer(r)'
    BY <2>1 DEF HasAnswer
  <2> QED
    BY <1>4, <1>6, <2>1, <2>2, <2>3
<1> QED
  BY <1>7, <1>8, <1>9, <1>10, <1>11, <1>12, <1>13 DEF RequestStep

LEMMA QueueNext == ASSUME Shape, QueueInv, [Next]_vars PROVE QueueInv'
<1>1. CASE UNCHANGED <<todeviceVars, syncs, client, waiting>>
  BY <1>1 DEF QueueInv, QueueLocal, QueueTypes, Recorded, QueueAhead, Kept, AnswerCovers, HasAnswer,
              Covers, todeviceVars
<1>2. CASE \E h \in Handlers : QueueStep(h)
  BY <1>2, QueueWriterStep
<1>3. CASE \E r \in Requests : RequestStep(r)
  BY <1>3, QueueRequestStep
<1> QED
  BY <1>1, <1>2, <1>3, Kinds DEF AccountStep, TypingStep, accountOnly, typingOnly, vars

(* A transaction repeated after it was queued is not queued again, for any *)
(* number of senders.                                                      *)
THEOREM QueuedOnceHolds == Spec => []QueuedOnce
<1>1. Shape /\ QueueInv => QueuedOnce
  BY DEF QueueInv, QueueLocal, QueueTypes, QueuedOnce, TD!QueuedOnce
<1> QED
  BY <1>1, ShapeInit, QueueInit, ShapeNext, QueueNext, PTL DEF Spec

(* What is gone from the queue was received, but for a message committed   *)
(* behind a cursor that was handed out, whatever answers are lost and      *)
(* whatever requests are given up and repeated.                            *)
THEOREM DeletedWasReceivedHolds == Spec => []DeletedWasReceived
<1>1. Shape /\ QueueInv => DeletedWasReceived
  BY DEF QueueInv, Kept, DeletedWasReceived
<1> QED
  BY <1>1, ShapeInit, QueueInit, ShapeNext, QueueNext, PTL DEF Spec

(* What the answer waited for brings lies above all that was received, for *)
(* any number of senders and requests.                                     *)
THEOREM ReceivedInOrderHolds == Spec => []ReceivedInOrder
<1>1. Shape /\ QueueInv => ReceivedInOrder
  <2> SUFFICES ASSUME Shape, QueueInv, NEW r \in Requests, waiting = r,
                      NEW m \in syncs[r].read, NEW p \in client.received
               PROVE  p < m.position
    BY DEF ReceivedInOrder
  <2>1. syncs[r].phase \in {"commit", "answer"}
    BY DEF Shape
  <2>2. /\ syncs[r].since = client.token /\ client.token.toDevice \in Nat
        /\ m.position \in (client.token.toDevice + 1)..syncs[r].upTo.toDevice
        /\ syncs[r].upTo.toDevice \in client.token.toDevice..offered
        /\ p \in Nat /\ p <= client.token.toDevice
    BY <2>1 DEF Shape, QueueInv, QueueAhead
  <2> QED
    BY <2>2
<1> QED
  BY <1>1, ShapeInit, QueueInit, ShapeNext, QueueNext, PTL DEF Spec
-----------------------------------------------------------------------------
(* The users that type.                                                    *)

TypingTypes ==
  /\ version \in Nat
  /\ typing = [x \in Rooms |-> typing[x]]
  /\ changed \in [Rooms -> Nat]
  /\ sets = [h \in Handlers |-> sets[h]]
  /\ \A h \in Handlers : /\ DOMAIN sets[h] = {"phase", "room", "position"}
                         /\ sets[h].phase \in {"idle", "increment", "store"}
                         /\ sets[h].position \in Nat
                         /\ sets[h].phase # "idle" => sets[h].room \in Rooms

(* The versions that requests carry and the client has.                    *)
TakenTypes ==
  /\ client.token.typing \in Nat
  /\ \A r \in Requests : HasCeiling(r) => syncs[r].upTo.typing \in Nat

Excused(x) == TY!Pending(x) \/ x \in missed

MergedTyping(r, x) == IF x \in DOMAIN syncs[r].typing THEN syncs[r].typing[x]
                      ELSE client.typing[x]

(* What the answer waited for lacks lies above the version it carries.     *)
TypingAnswers ==
  \A r \in Requests : HasAnswer(r) =>
    \A x \in Rooms : MergedTyping(r, x) # typing[x] =>
      changed[x] > syncs[r].upTo.typing \/ Excused(x)

TypingInv == TypingTypes /\ TakenTypes /\ TypingIsAhead /\ TypingAnswers

LEMMA TypingInit == Init => TypingInv
<1> SUFFICES ASSUME Init PROVE TypingInv
  OBVIOUS
<1>1. TypingTypes
  BY DEF Init, TY!Init, TypingTypes, TY!NoSet
<1>2. TakenTypes
  BY DEF Init, TakenTypes, HasCeiling, NoSync, Zero
<1>3. TypingIsAhead /\ TypingAnswers
  BY DEF Init, TY!Init, TypingIsAhead, TypingAnswers, HasAnswer, NoSync
<1> QED
  BY <1>1, <1>2, <1>3 DEF TypingInv

(* The versions taken are numbers: the client's, and those of the answers  *)
(* it waits for.                                                           *)
LEMMA TakenIs ==
  ASSUME TakenTypes
  PROVE  /\ Taken \subseteq Nat /\ client.token.typing \in Taken
         /\ \A r \in Requests : HasAnswer(r) => syncs[r].upTo.typing \in Taken
BY DEF TakenTypes, Taken, HasAnswer, HasCeiling

(* What x is to a reader that goes on from p: what is announced above it,  *)
(* or excused.                                                             *)
Due(x, p) == changed[x] > p \/ Excused(x)

(* What a step of Set, or of time, does to a room: a change is excused     *)
(* until it is announced, and what is due to a reader stays due to it.     *)
LEMMA SetterStep ==
  ASSUME TypingTypes, TakenTypes, TypingStep
  PROVE  /\ TypingTypes'
         /\ \A x \in Rooms : /\ typing'[x] # typing[x] => Excused(x)'
                             /\ \A p \in Taken : Due(x, p) => changed'[x] > p \/ Excused(x)'
<1> USE DEF TypingTypes
<1>0. /\ DOMAIN TY!NoSet = {"phase", "room", "position"}
      /\ TY!NoSet.phase = "idle" /\ TY!NoSet.position = 0
  BY DEF TY!NoSet
<1> DEFINE StaysDue == \A x \in Rooms : /\ typing'[x] # typing[x] => Excused(x)'
                                        /\ \A p \in Taken : Due(x, p) => changed'[x] > p \/ Excused(x)'
<1>1. ASSUME NEW h \in Handlers, TY!Set(h)
      PROVE  TypingTypes' /\ StaysDue
  <2>1. PICK r \in Rooms, u \in Users, on \in BOOLEAN :
          /\ typing' = [typing EXCEPT ![r] = IF on THEN @ \cup {u} ELSE @ \ {u}]
          /\ sets' = [sets EXCEPT ![h] = [TY!NoSet EXCEPT !.phase = "increment", !.room = r]]
    BY <1>1 DEF TY!Set
  <2> DEFINE new == [TY!NoSet EXCEPT !.phase = "increment", !.room = r]
  <2>2. /\ DOMAIN new = {"phase", "room", "position"} /\ new.phase = "increment"
        /\ new.room = r /\ new.position = 0
    BY DEF TY!NoSet
  <2>3. sets' = [o \in Handlers |-> IF o = h THEN new ELSE sets[o]]
    BY <2>1
  <2>4. typing' = [x \in Rooms |-> typing'[x]] /\ \A x \in Rooms : x # r => typing'[x] = typing[x]
    BY <2>1
  <2>5. UNCHANGED <<version, changed, missed>> /\ sets[h].phase = "idle"
    BY <1>1 DEF TY!Set
  <2> HIDE DEF new
  <2>6. TypingTypes'
    BY <2>2, <2>3, <2>4, <2>5
  <2>7. \A x \in Rooms : (x = r => Excused(x)') /\ (Excused(x) => Excused(x)')
    BY <2>2, <2>3, <2>5 DEF Excused, TY!Pending
  <2> QED
    BY <2>4, <2>5, <2>6, <2>7 DEF Due
<1>2. ASSUME NEW h \in Handlers, TY!Increment(h)
      PROVE  TypingTypes' /\ StaysDue
  <2> DEFINE new == [sets[h] EXCEPT !.phase = "store", !.position = version + 1]
  <2>1. /\ version' = version + 1 /\ sets' = [o \in Handlers |-> IF o = h THEN new ELSE sets[o]]
        /\ UNCHANGED <<typing, changed, missed>> /\ sets[h].phase = "increment"
    BY <1>2 DEF TY!Increment
  <2>2. /\ DOMAIN new = {"phase", "room", "position"} /\ new.phase = "store"
        /\ new.room = sets[h].room /\ new.position = version + 1
    OBVIOUS
  <2> HIDE DEF new
  <2>3. TypingTypes'
    BY <2>1, <2>2
  <2>4. \A x \in Rooms : Excused(x) => Excused(x)'
    BY <2>1, <2>2 DEF Excused, TY!Pending
  <2> QED
    BY <2>1, <2>3, <2>4 DEF Due
<1>3. ASSUME NEW h \in Handlers, TY!Store(h, Taken)
      PROVE  TypingTypes' /\ StaysDue
  <2> DEFINE s == sets[h]
  <2>1. /\ s.phase = "store" /\ changed' = [changed EXCEPT ![s.room] = s.position]
        /\ missed' = IF \E p \in Taken : s.position <= p THEN missed \cup {s.room}
                                                          ELSE missed \ {s.room}
        /\ sets' = [o \in Handlers |-> IF o = h THEN TY!NoSet ELSE sets[o]]
        /\ UNCHANGED <<typing, version>>
    BY <1>3 DEF TY!Store, TY!Position
  <2>2. s.room \in Rooms /\ s.position \in Nat
    BY <2>1
  <2>3. TypingTypes'
    BY <1>0, <2>1, <2>2
  <2>4. ASSUME NEW p \in Taken, NEW x \in Rooms, Due(x, p)
        PROVE  changed'[x] > p \/ Excused(x)'
    <3>1. CASE x = s.room
      <4>1. CASE s.position <= p
        BY <2>1, <3>1, <4>1 DEF Excused
      <4>2. CASE ~(s.position <= p)
        BY <2>1, <2>2, <3>1, <4>2, TakenIs
      <4> QED
        BY <4>1, <4>2
    <3>2. CASE x # s.room
      <4>1. changed'[x] = changed[x]
        BY <2>1, <3>2
      <4>2. Excused(x) => Excused(x)'
        BY <1>0, <2>1, <3>2 DEF Excused, TY!Pending
      <4> QED
        BY <2>4, <4>1, <4>2 DEF Due
    <3> QED
      BY <3>1, <3>2
  <2> QED
    BY <2>1, <2>3, <2>4
<1>4. ASSUME NEW h \in Handlers, TY!Fail(h)
      PROVE  TypingTypes' /\ StaysDue
  <2>1. /\ missed' = missed \cup {sets[h].room}
        /\ sets' = [o \in Handlers |-> IF o = h THEN TY!NoSet ELSE sets[o]]
        /\ UNCHANGED <<typing, version, changed>>
    BY <1>4 DEF TY!Fail
  <2>2. TypingTypes'
    BY <1>0, <2>1
  <2>3. \A x \in Rooms : Excused(x) => Excused(x)'
    BY <1>0, <2>1 DEF Excused, TY!Pending
  <2> QED
    BY <2>1, <2>2, <2>3 DEF Due
<1>5. ASSUME TY!EntryExpires
      PROVE  TypingTypes' /\ StaysDue
  <2>1. PICK r \in Rooms : \E u \in typing[r] :
          typing' = [typing EXCEPT ![r] = @ \ {u}] /\ missed' = missed \cup {r}
    BY <1>5 DEF TY!EntryExpires
  <2>2. UNCHANGED <<version, changed, sets>>
    BY <1>5 DEF TY!EntryExpires
  <2>3. typing' = [x \in Rooms |-> typing'[x]] /\ \A x \in Rooms : x # r => typing'[x] = typing[x]
    BY <2>1
  <2>4. \A x \in Rooms : (x = r => Excused(x)') /\ (Excused(x) => Excused(x)')
    BY <2>1, <2>2 DEF Excused, TY!Pending
  <2> QED
    BY <2>2, <2>3, <2>4 DEF Due
<1>6. ASSUME TY!CounterExpires(Taken)
      PROVE  TypingTypes' /\ StaysDue
  <2>1. PICK r \in Rooms :
          /\ changed' = [changed EXCEPT ![r] = 0]
          /\ missed' = IF \E p \in Taken : p < changed[r] THEN missed \cup {r} ELSE missed
    BY <1>6 DEF TY!CounterExpires
  <2>2. UNCHANGED <<typing, version, sets>>
    BY <1>6 DEF TY!CounterExpires
  <2>3. \A x \in Rooms : Excused(x) => Excused(x)'
    BY <2>1, <2>2 DEF Excused, TY!Pending
  <2>4. ASSUME NEW p \in Taken, NEW x \in Rooms, changed[x] > p
        PROVE  changed'[x] > p \/ Excused(x)'
    <3>1. CASE x = r
      <4>1. p < changed[r]
        BY <2>4, <3>1, TakenIs
      <4> QED
        BY <2>1, <3>1, <4>1 DEF Excused
    <3>2. CASE x # r
      BY <2>1, <2>4, <3>2
    <3> QED
      BY <3>1, <3>2
  <2> QED
    BY <2>1, <2>2, <2>3, <2>4 DEF Due
<1>7. ASSUME TY!VersionExpires
      PROVE  TypingTypes' /\ StaysDue
  BY <1>7 DEF TY!VersionExpires, Due, Excused, TY!Pending
<1> QED
  BY <1>1, <1>2, <1>3, <1>4, <1>5, <1>6, <1>7 DEF TypingStep

LEMMA TypingWriterStep ==
  ASSUME TypingInv, TypingStep
  PROVE  TypingInv'
<1>1. /\ TypingTypes'
      /\ \A x \in Rooms : /\ typing'[x] # typing[x] => Excused(x)'
                          /\ \A p \in Taken : Due(x, p) => changed'[x] > p \/ Excused(x)'
  BY SetterStep DEF TypingInv
<1>2. UNCHANGED <<syncs, client, waiting>>
  BY DEF TypingStep, typingOnly
<1>3. TakenTypes'
  BY <1>2 DEF TypingInv, TakenTypes, HasCeiling
<1>4. TypingIsAhead'
  <2> SUFFICES ASSUME NEW x \in Rooms, client.typing[x] # typing'[x]
               PROVE  changed'[x] > client.token.typing \/ Excused(x)'
    BY <1>2 DEF TypingIsAhead, Excused
  <2>1. client.token.typing \in Taken
    BY TakenIs DEF TypingInv
  <2>2. client.typing[x] # typing[x] => Due(x, client.token.typing)
    BY DEF TypingInv, TypingIsAhead, Due, Excused
  <2> QED
    BY <1>1, <2>1, <2>2
<1>5. TypingAnswers'
  <2> SUFFICES ASSUME NEW r \in Requests, HasAnswer(r)', NEW x \in Rooms,
                      MergedTyping(r, x)' # typing'[x]
               PROVE  changed'[x] > syncs[r].upTo.typing \/ Excused(x)'
    BY <1>2 DEF TypingAnswers
  <2>1. HasAnswer(r) /\ MergedTyping(r, x)' = MergedTyping(r, x)
    BY <1>2 DEF HasAnswer, MergedTyping
  <2>2. syncs[r].upTo.typing \in Taken
    BY <2>1, TakenIs DEF TypingInv
  <2>3. MergedTyping(r, x) # typing[x] => Due(x, syncs[r].upTo.typing)
    BY <2>1 DEF TypingInv, TypingAnswers, Due
  <2> QED
    BY <1>1, <2>1, <2>2, <2>3
<1> QED
  BY <1>1, <1>3, <1>4, <1>5 DEF TypingInv

LEMMA TypingRequestStep ==
  ASSUME Shape, TypingInv, NEW r \in Requests, RequestStep(r)
  PROVE  TypingInv'
<1> USE DEF TypingInv
<1>1. UNCHANGED typingVars
  BY DEF RequestStep, Ask, Ceilings, Build, Commit, Park, Lose, Deliver
<1>2. \A o \in Others(r) : syncs'[o] = syncs[o]
  BY AskEffect, CeilingsEffect, BuildEffect, CommitEffect, ParkEffect, EndEffect DEF RequestStep
<1>3. TypingTypes' /\ \A x \in Rooms : Excused(x)' = Excused(x)
  BY <1>1 DEF TypingTypes, Excused, TY!Pending, typingVars
<1>4. ASSUME client'.token.typing \in Nat, HasCeiling(r)' => syncs'[r].upTo.typing \in Nat
      PROVE  TakenTypes'
  <2>1. ASSUME NEW o \in Requests, HasCeiling(o)' PROVE syncs'[o].upTo.typing \in Nat
    BY <1>2, <1>4, <2>1 DEF TakenTypes, HasCeiling, Others
  <2> QED
    BY <1>4, <2>1 DEF TakenTypes
<1>5. ASSUME client' = client, waiting' \in {waiting, r, None},
             HasAnswer(r)' => \A x \in Rooms :
               MergedTyping(r, x)' # typing[x] => changed[x] > syncs'[r].upTo.typing \/ Excused(x)
      PROVE  TypingIsAhead' /\ TypingAnswers'
  <2>1. TypingIsAhead'
    BY <1>1, <1>3, <1>5 DEF TypingIsAhead, Excused, typingVars
  <2>2. ASSUME NEW o \in Requests, HasAnswer(o)', NEW x \in Rooms, MergedTyping(o, x)' # typing'[x]
        PROVE  changed'[x] > syncs'[o].upTo.typing \/ Excused(x)'
    <3>1. CASE o = r
      BY <1>1, <1>3, <1>5, <2>2, <3>1 DEF typingVars
    <3>2. CASE o # r
      <4>1. HasAnswer(o) /\ syncs'[o] = syncs[o] /\ MergedTyping(o, x)' = MergedTyping(o, x)
        BY <1>2, <1>5, <2>2, <3>2, LegacySyncAssumption DEF HasAnswer, MergedTyping, Others
      <4> QED
        BY <1>1, <1>3, <2>2, <4>1 DEF TypingAnswers, typingVars
    <3> QED
      BY <3>1, <3>2
  <2> QED
    BY <2>1, <2>2 DEF TypingAnswers
<1>6. client.token.typing \in Nat /\ version \in Nat
  BY DEF TakenTypes, TypingTypes
<1>7. CASE Ask(r)
  <2>1. client' = client /\ waiting' = r /\ syncs'[r].phase = "ceilings"
    BY <1>7, AskEffect DEF Ask
  <2>2. ~HasCeiling(r)' /\ ~HasAnswer(r)'
    BY <2>1 DEF HasCeiling, HasAnswer
  <2> QED
    BY <1>3, <1>4, <1>5, <1>6, <2>1, <2>2
<1>8. CASE Ceilings(r)
  <2>1. /\ client' = client /\ waiting' = waiting /\ syncs'[r].phase = "build"
        /\ syncs'[r].upTo.typing = version
    BY <1>8, CeilingsEffect DEF Ceilings
  <2>2. ~HasAnswer(r)'
    BY <2>1 DEF HasAnswer
  <2> QED
    BY <1>3, <1>4, <1>5, <1>6, <2>1, <2>2
<1>9. CASE Build(r)
  <2>1. /\ client' = client /\ waiting' = waiting /\ syncs[r].phase = "build"
        /\ syncs'[r].since = syncs[r].since
        /\ syncs'[r].typing = [x \in TY!ChangedSince(syncs[r].since.typing) |-> typing[x]]
        /\ syncs'[r].upTo.typing = syncs[r].upTo.typing
    BY <1>9, BuildEffect
  <2>2. syncs'[r].upTo.typing \in Nat
    BY <2>1 DEF TakenTypes, HasCeiling
  <2>3. ASSUME HasAnswer(r)', NEW x \in Rooms PROVE MergedTyping(r, x)' = typing[x] \/ Excused(x)
    <3>1. syncs[r].since = client.token
      BY <2>1, <2>3 DEF Shape, HasAnswer
    <3>2. CASE x \in TY!ChangedSince(syncs[r].since.typing)
      BY <2>1, <3>2 DEF MergedTyping
    <3>3. CASE x \notin TY!ChangedSince(syncs[r].since.typing)
      <4>1. ~(changed[x] > client.token.typing)
        BY <3>1, <3>3 DEF TY!ChangedSince
      <4>2. client.typing[x] = typing[x] \/ Excused(x)
        BY <4>1 DEF TypingIsAhead, Excused
      <4> QED
        BY <2>1, <3>3, <4>2 DEF MergedTyping
    <3> QED
      BY <3>2, <3>3
  <2> QED
    BY <1>3, <1>4, <1>5, <1>6, <2>1, <2>2, <2>3
<1>10. CASE Commit(r)
  <2>1. /\ client' = client /\ waiting' = waiting /\ syncs[r].phase = "commit"
        /\ syncs'[r].phase = "answer" /\ syncs'[r].upTo = syncs[r].upTo
        /\ syncs'[r].typing = syncs[r].typing
    BY <1>10, CommitEffect DEF Commit
  <2>2. syncs'[r].upTo.typing \in Nat
    BY <2>1 DEF TakenTypes, HasCeiling
  <2>3. HasAnswer(r)' => HasAnswer(r) /\ \A x \in Rooms : MergedTyping(r, x)' = MergedTyping(r, x)
    BY <2>1 DEF HasAnswer, MergedTyping
  <2> QED
    BY <1>3, <1>4, <1>5, <1>6, <2>1, <2>2, <2>3 DEF TypingAnswers
<1>11. CASE Lose(r)
  <2>1. client' = client /\ waiting' \in {waiting, None} /\ syncs'[r].phase = "idle"
    BY <1>11, EndEffect DEF Lose
  <2>2. ~HasCeiling(r)' /\ ~HasAnswer(r)'
    BY <2>1 DEF HasCeiling, HasAnswer
  <2> QED
    BY <1>3, <1>4, <1>5, <1>6, <2>1, <2>2
<1>12. CASE Deliver(r)
  <2>1. /\ waiting' = None /\ HasAnswer(r) /\ HasCeiling(r) /\ syncs'[r].phase = "idle"
        /\ client'.token = syncs[r].upTo
        /\ client'.typing = [x \in Rooms |-> MergedTyping(r, x)]
    BY <1>12, EndEffect DEF Deliver, HasAnswer, HasCeiling, MergedTyping
  <2>2. TakenTypes'
    BY <1>4, <2>1 DEF TakenTypes, HasCeiling
  <2>3. TypingIsAhead'
    BY <1>1, <1>3, <2>1 DEF TypingAnswers, TypingIsAhead, Excused, typingVars
  <2>4. TypingAnswers'
    BY <2>1, LegacySyncAssumption DEF TypingAnswers, HasAnswer
  <2> QED
    BY <1>3, <2>2, <2>3, <2>4
<1>13. CASE Park(r)
  <2>1. client' = client /\ waiting' = waiting /\ syncs'[r].phase = "ceilings"
    BY <1>13, ParkEffect
  <2>2. ~HasCeiling(r)' /\ ~HasAnswer(r)'
    BY <2>1 DEF HasCeiling, HasAnswer
  <2> QED
    BY <1>3, <1>4, <1>5, <1>6, <2>1, <2>2
<1> QED
  BY <1>7, <1>8, <1>9, <1>10, <1>11, <1>12, <1>13 DEF RequestStep

LEMMA TypingNext == ASSUME Shape, TypingInv, [Next]_vars PROVE TypingInv'
<1>1. CASE UNCHANGED <<typingVars, syncs, client, waiting>>
  BY <1>1 DEF TypingInv, TypingTypes, TakenTypes, TypingIsAhead, TypingAnswers, HasAnswer,
              HasCeiling, MergedTyping, Excused, TY!Pending, typingVars
<1>2. CASE TypingStep
  BY <1>2, TypingWriterStep
<1>3. CASE \E r \in Requests : RequestStep(r)
  BY <1>3, TypingRequestStep
<1> QED
  BY <1>1, <1>2, <1>3, Kinds DEF QueueStep, AccountStep, toDeviceOnly, accountOnly, vars

(* A room whose typing users the client has otherwise than the server lies *)
(* above its cursor, has a change that is still to be announced, or was    *)
(* missed since its last announcement above the client's version; for any  *)
(* number of rooms, writers and requests, and whatever keys expire when.   *)
THEOREM TypingIsAheadHolds == Spec => []TypingIsAhead
<1>1. Shape /\ TypingInv => TypingIsAhead
  BY DEF TypingInv
<1> QED
  BY <1>1, ShapeInit, TypingInit, ShapeNext, TypingNext, PTL DEF Spec

-----------------------------------------------------------------------------
(* The rows and the handlers, beyond what the invariants above say.        *)
SentRows ==
  /\ transactions \subseteq Txns
  /\ \A m \in messages \cup queued : m.txn \in Queuing
  /\ \A h \in Handlers :
       /\ sends[h] \in [phase : {"idle", "next", "commit"}, txn : Txns \cup {0},
                        position : Nat, late : BOOLEAN]
       /\ sends[h].phase # "idle" => sends[h].txn \in Txns

DataRows ==
  /\ \A t \in Types : data[t].position <= dataIssued /\ data[t].content \subseteq 1..dataIssued
  /\ \A h \in Handlers : writes[h].read \subseteq 1..dataIssued

TypingRows ==
  /\ \A x \in Rooms : typing[x] \subseteq Users
  /\ \A h \in Handlers : sets[h] \in [phase : {"idle", "increment", "store"}, room : Rooms \cup {0},
                                      position : Nat]
  /\ missed \subseteq Rooms

RowsInv == SentRows /\ DataRows /\ TypingRows /\ begun \in 0..MaxWrites

LEMMA RowsInit == Init => RowsInv
<1> SUFFICES ASSUME Init PROVE RowsInv
  OBVIOUS
<1>1. SentRows
  BY DEF Init, TD!Init, SentRows, TD!NoSend
<1>2. DataRows
  BY DEF Init, AD!Init, DataRows, AD!NoWrite
<1>3. TypingRows
  BY DEF Init, TY!Init, TypingRows, TY!NoSet
<1> QED
  BY <1>1, <1>2, <1>3, LegacySyncAssumption DEF Init, RowsInv

LEMMA SentRowsStep ==
  ASSUME QueueLocal, SentRows, NEW h \in Handlers, QueueStep(h)
  PROVE  SentRows'
<1> USE DEF SentRows, QueueLocal, QueueTypes
<1> DEFINE Sends == [phase : {"idle", "next", "commit"}, txn : Txns \cup {0}, position : Nat,
                     late : BOOLEAN]
<1>0. TD!NoSend \in Sends /\ TD!NoSend.phase = "idle"
  BY DEF TD!NoSend
<1>1. ASSUME NEW t \in Txns, TD!Send(h, t) PROVE SentRows'
  <2> DEFINE new == [TD!NoSend EXCEPT !.phase = IF t \in Queuing THEN "next" ELSE "commit",
                                      !.txn = t, !.late = TD!Done(t)]
  <2>1. /\ sends' = [o \in Handlers |-> IF o = h THEN new ELSE sends[o]]
        /\ UNCHANGED <<messages, transactions, queued>>
    BY <1>1 DEF TD!Send
  <2>2. new \in Sends /\ new.txn = t
    BY DEF TD!NoSend, TD!Done
  <2> HIDE DEF new
  <2> QED BY <2>1, <2>2
<1>2. ASSUME TD!NextPosition(h) PROVE SentRows'
  <2> DEFINE new == [sends[h] EXCEPT !.phase = "commit", !.position = sent + 1]
  <2>1. /\ sends' = [o \in Handlers |-> IF o = h THEN new ELSE sends[o]]
        /\ UNCHANGED <<messages, transactions, queued>> /\ sends[h].phase = "next"
    BY <1>2 DEF TD!NextPosition
  <2>2. new \in Sends /\ new.txn = sends[h].txn
    <3>1. sends[h] \in Sends /\ sent + 1 \in Nat
      OBVIOUS
    <3> QED BY ONLY <3>1
  <2> HIDE DEF new
  <2> QED BY <2>1, <2>2
<1>3. ASSUME TD!Commit(h) PROVE SentRows'
  <2> DEFINE m == [position |-> sends[h].position, txn |-> sends[h].txn]
             q == [position |-> sends[h].position, txn |-> sends[h].txn,
                   behind |-> sends[h].position <= offered]
  <2>1. /\ sends[h].phase = "commit" /\ transactions' = transactions \cup {sends[h].txn}
        /\ sends' = [o \in Handlers |-> IF o = h THEN TD!NoSend ELSE sends[o]]
    BY <1>3 DEF TD!Commit, TD!Record
  <2>2. \/ UNCHANGED <<messages, queued>>
        \/ sends[h].txn \in Queuing /\ messages' = messages \cup {m} /\ queued' = queued \cup {q}
    BY <1>3 DEF TD!Commit
  <2>3. m.txn = sends[h].txn /\ q.txn = sends[h].txn
    OBVIOUS
  <2> HIDE DEF m, q
  <2> QED BY <1>0, <2>1, <2>2, <2>3
<1>4. ASSUME TD!Fail(h) PROVE SentRows'
  BY <1>0, <1>4 DEF TD!Fail
<1> QED
  BY <1>1, <1>2, <1>3, <1>4 DEF QueueStep

LEMMA DataRowsStep ==
  ASSUME DataLocal, DataRows, NEW h \in Handlers, AccountStep(h)
  PROVE  DataRows'
<1> USE DEF DataRows, DataLocal, DataTypes
<1>1. ASSUME AD!Begin(h) PROVE DataRows'
  <2>1. PICK op, t : writes' = [writes EXCEPT ![h] = [AD!NoWrite EXCEPT
                                  !.phase = "next", !.op = op, !.type = t]]
    BY <1>1 DEF AD!Begin
  <2>2. writes'[h].read = {} /\ \A o \in Handlers \ {h} : writes'[o] = writes[o]
    BY <2>1 DEF AD!NoWrite
  <2>3. UNCHANGED <<data, dataIssued>>
    BY <1>1 DEF AD!Begin
  <2> QED BY <2>2, <2>3
<1>2. ASSUME AD!NextPosition(h) PROVE DataRows'
  <2>1. /\ dataIssued' = dataIssued + 1 /\ UNCHANGED data
        /\ \A o \in Handlers : writes'[o].read = writes[o].read
    BY <1>2 DEF AD!NextPosition
  <2>2. 1..dataIssued \subseteq 1..dataIssued'
    BY <2>1
  <2> QED BY <2>1, <2>2
<1>3. ASSUME AD!Read(h) PROVE DataRows'
  <2>1. /\ writes'[h].read = data[Tags].content /\ UNCHANGED <<data, dataIssued>>
        /\ \A o \in Handlers \ {h} : writes'[o] = writes[o]
    BY <1>3 DEF AD!Read
  <2> QED BY <2>1, LegacySyncAssumption
<1>4. ASSUME AD!Commit(h) PROVE DataRows'
  <2>1. writes[h].position \in 1..dataIssued
    BY <1>4 DEF AD!Commit, Held, AtWork
  <2>2. /\ \A t \in Types : \/ data'[t] = data[t]
                            \/ /\ data'[t].position = writes[h].position
                               /\ data'[t].content = writes[h].read \cup {writes[h].position}
        /\ writes' = [writes EXCEPT ![h] = AD!NoWrite] /\ UNCHANGED dataIssued
    BY <1>4 DEF AD!Commit
  <2>3. writes'[h].read = {} /\ \A o \in Handlers \ {h} : writes'[o] = writes[o]
    BY <2>2 DEF AD!NoWrite
  <2> QED BY <2>1, <2>2, <2>3
<1>5. ASSUME AD!Fail(h) PROVE DataRows'
  <2>1. /\ writes'[h].read = {} /\ \A o \in Handlers \ {h} : writes'[o] = writes[o]
        /\ UNCHANGED <<data, dataIssued>>
    BY <1>5 DEF AD!Fail, AD!NoWrite
  <2> QED BY <2>1
<1> QED
  BY <1>1, <1>2, <1>3, <1>4, <1>5 DEF AccountStep

LEMMA TypingRowsStep ==
  ASSUME TypingTypes, TypingRows, TypingStep
  PROVE  TypingRows'
<1> USE DEF TypingRows, TypingTypes
<1> DEFINE Sets == [phase : {"idle", "increment", "store"}, room : Rooms \cup {0}, position : Nat]
<1>0. TY!NoSet \in Sets
  BY DEF TY!NoSet
<1>1. ASSUME NEW h \in Handlers, TY!Set(h) PROVE TypingRows'
  <2>1. PICK r \in Rooms, u \in Users, on \in BOOLEAN :
          /\ typing' = [typing EXCEPT ![r] = IF on THEN @ \cup {u} ELSE @ \ {u}]
          /\ sets' = [sets EXCEPT ![h] = [TY!NoSet EXCEPT !.phase = "increment", !.room = r]]
    BY <1>1 DEF TY!Set
  <2>2. sets'[h] \in Sets /\ \A o \in Handlers \ {h} : sets'[o] = sets[o]
    BY <2>1 DEF TY!NoSet
  <2>3. \A x \in Rooms : typing'[x] \subseteq Users
    BY <2>1
  <2>4. UNCHANGED missed
    BY <1>1 DEF TY!Set
  <2> QED BY <2>2, <2>3, <2>4
<1>2. ASSUME NEW h \in Handlers, TY!Increment(h) PROVE TypingRows'
  <2>1. /\ UNCHANGED <<typing, missed>>
        /\ \A o \in Handlers : sets'[o] \in Sets
    BY <1>2 DEF TY!Increment
  <2> QED BY <2>1
<1>3. ASSUME NEW h \in Handlers, TY!Store(h, Taken) PROVE TypingRows'
  <2>1. UNCHANGED typing /\ missed' \subseteq missed \cup {sets[h].room} /\ sets[h].room \in Rooms
    BY <1>3 DEF TY!Store, TY!Position
  <2>2. sets'[h] = TY!NoSet /\ \A o \in Handlers \ {h} : sets'[o] = sets[o]
    BY <1>3 DEF TY!Store
  <2> QED BY <1>0, <2>1, <2>2
<1>4. ASSUME NEW h \in Handlers, TY!Fail(h) PROVE TypingRows'
  <2>1. UNCHANGED typing /\ missed' = missed \cup {sets[h].room} /\ sets[h].room \in Rooms
    BY <1>4 DEF TY!Fail
  <2>2. sets'[h] = TY!NoSet /\ \A o \in Handlers \ {h} : sets'[o] = sets[o]
    BY <1>4 DEF TY!Fail
  <2> QED BY <1>0, <2>1, <2>2
<1>5. ASSUME TY!EntryExpires \/ TY!CounterExpires(Taken) \/ TY!VersionExpires PROVE TypingRows'
  BY <1>5 DEF TY!EntryExpires, TY!CounterExpires, TY!VersionExpires
<1> QED
  BY <1>1, <1>2, <1>3, <1>4, <1>5 DEF TypingStep

LEMMA RowsNext ==
  ASSUME Shape, DataInv, QueueInv, TypingInv, RowsInv, [Next]_vars
  PROVE  RowsInv'
<1> USE DEF RowsInv
<1>1. begun' \in 0..MaxWrites
  <2>1. CASE Write
    BY <2>1, LegacySyncAssumption DEF Write
  <2>2. CASE begun' = begun
    BY <2>2
  <2> QED
    BY <2>1, <2>2 DEF Next, Writers, Expire, Ask, Ceilings, Build, Commit, Park, Lose, Deliver, vars
<1>2. ASSUME NEW h \in Handlers, QueueStep(h) PROVE SentRows' /\ DataRows' /\ TypingRows'
  <2>1. SentRows'
    BY <1>2, SentRowsStep DEF QueueInv
  <2> QED
    BY <1>2, <2>1 DEF QueueStep, toDeviceOnly, accountVars, typingVars, DataRows, TypingRows
<1>3. ASSUME NEW h \in Handlers, AccountStep(h) PROVE SentRows' /\ DataRows' /\ TypingRows'
  <2>1. DataRows'
    BY <1>3, DataRowsStep DEF DataInv
  <2> QED
    BY <1>3, <2>1 DEF AccountStep, accountOnly, todeviceVars, typingVars, SentRows, TypingRows
<1>4. ASSUME TypingStep PROVE SentRows' /\ DataRows' /\ TypingRows'
  <2>1. TypingRows'
    BY <1>4, TypingRowsStep DEF TypingInv
  <2> QED
    BY <1>4, <2>1 DEF TypingStep, typingOnly, todeviceVars, accountVars, SentRows, DataRows
<1>5. ASSUME NEW r \in Requests, RequestStep(r) PROVE SentRows' /\ DataRows' /\ TypingRows'
  <2>1. /\ UNCHANGED <<transactions, queued, sends, data, dataIssued, writes>>
        /\ UNCHANGED <<typing, sets, missed>> /\ messages' \subseteq messages
    <3> USE DEF todeviceVars, accountVars, typingVars
    <3>1. CASE Ask(r) \/ Park(r) \/ Lose(r) \/ Deliver(r)
      BY <3>1 DEF Ask, Park, Lose, Deliver
    <3>2. CASE Ceilings(r)
      BY <3>2 DEF Ceilings
    <3>3. CASE Build(r)
      BY <3>3 DEF Build
    <3>4. CASE Commit(r)
      BY <3>4 DEF Commit
    <3> QED BY <1>5, <3>1, <3>2, <3>3, <3>4 DEF RequestStep
  <2> QED
    BY <2>1 DEF SentRows, DataRows, TypingRows
<1>6. CASE UNCHANGED vars
  BY <1>6 DEF vars, todeviceVars, accountVars, typingVars, SentRows, DataRows, TypingRows
<1> QED
  BY <1>1, <1>2, <1>3, <1>4, <1>5, <1>6, Kinds

(* What the queue, the account data and the keys of typing hold, the       *)
(* requests, and the token of the client, whose cursors of the queue and   *)
(* of the account data are never above what the server has issued.         *)
THEOREM TypeOKHolds == Spec => []TypeOK
<1>1. Shape /\ DataInv /\ QueueInv /\ TypingInv /\ RowsInv => TypeOK
  <2> SUFFICES ASSUME Shape, DataInv, QueueInv, TypingInv, RowsInv PROVE TypeOK
    OBVIOUS
  <2>1. TD!TypeOK
    <3>1. \A h \in Handlers : sends[h] \in [phase : {"idle", "next", "commit"}, txn : Txns \cup {0},
                                            position : 0..sent, late : BOOLEAN]
      BY DEF QueueInv, QueueLocal, QueueTypes, RowsInv, SentRows
    <3>2. sends \in [Handlers -> [phase : {"idle", "next", "commit"}, txn : Txns \cup {0},
                                  position : 0..sent, late : BOOLEAN]]
      BY <3>1 DEF QueueInv, QueueLocal, QueueTypes
    <3>3. /\ \A m \in messages : m.position \in 1..sent /\ m.txn \in Queuing
          /\ transactions \subseteq Txns
          /\ \A q \in queued : q.position \in 1..sent /\ q.txn \in Queuing
          /\ offered \in 0..sent
      BY DEF QueueInv, QueueLocal, QueueTypes, RowsInv, SentRows
    <3> QED BY <3>2, <3>3 DEF TD!TypeOK
  <2>2. AD!TypeOK
    <3>1. \A h \in Handlers : DOMAIN writes[h] = DOMAIN AD!NoWrite
      BY DEF DataInv, DataLocal, DataTypes, AD!NoWrite
    <3>2. \A h \in Handlers : writes[h].position \in 0..dataIssued
      BY DEF DataInv, DataLocal, DataTypes, Held
    <3>3. tagged \subseteq 1..dataIssued
      BY LegacySyncAssumption DEF DataInv, DataLocal, TagsKept, RowsInv, DataRows
    <3> QED
      BY <3>1, <3>2, <3>3 DEF DataInv, DataLocal, DataTypes, RowsInv, DataRows, AD!TypeOK, AD!Phases
  <2>3. TY!TypeOK
    <3>1. \A h \in Handlers : sets[h] \in [phase : {"idle", "increment", "store"}, room : Rooms \cup {0},
                                           position : Nat]
      BY DEF TypingInv, TypingTypes, RowsInv, TypingRows
    <3>2. sets \in [Handlers -> [phase : {"idle", "increment", "store"}, room : Rooms \cup {0},
                                 position : Nat]]
      BY <3>1 DEF TypingInv, TypingTypes
    <3>3. /\ typing \in [Rooms -> SUBSET Users] /\ missed \subseteq Rooms
          /\ version \in Nat /\ changed \in [Rooms -> Nat]
      BY DEF TypingInv, TypingTypes, RowsInv, TypingRows
    <3> QED BY <3>2, <3>3 DEF TY!TypeOK
  <2>4. client.token.account \in 0..dataIssued /\ client.token.typing \in Nat
    BY DEF DataInv, DataAhead, Known, TypingInv, TakenTypes
  <2>5. client.token.toDevice \in 0..sent
    BY DEF QueueInv, QueueLocal, QueueTypes, QueueAhead
  <2> QED
    BY <2>1, <2>2, <2>3, <2>4, <2>5 DEF Shape, RowsInv, TypeOK
<1> QED
  BY <1>1, ShapeInit, ShapeNext, DataInit, DataNext, QueueInit, QueueNext, TypingInit, TypingNext,
     RowsInit, RowsNext, PTL DEF Spec
=============================================================================
