-------------------------------- MODULE Typing --------------------------------
(***************************************************************************)
(* Who is typing: Set of internal/service/typing over the keys of internal/*)
(* repository/typing, a sorted set and a counter for each room, and a      *)
(* version.  Nothing joins their updates; each command is atomic.          *)
(* Every key expires, an entry with its user's timeout, a counter and the  *)
(* version a day after they were last written, and one that is gone reads  *)
(* as nothing or 0.  Time is left out: a key may expire at any moment.     *)
(***************************************************************************)
EXTENDS Naturals

CONSTANTS Handlers, Rooms, Users

VARIABLES
  typing,        \* the users typing in each room
  version,       \* the version
  changed,       \* the version of the last change of each room
  sets,          \* the handlers
  missed         \* history: rooms in which a reader may miss the last change

NoSet == [phase |-> "idle", room |-> 0, position |-> 0]

TypeOK ==
  /\ typing \in [Rooms -> SUBSET Users]
  /\ version \in Nat /\ changed \in [Rooms -> Nat]
  /\ sets \in [Handlers -> [phase : {"idle", "increment", "store"}, room : Rooms \cup {0},
                            position : Nat]]
  /\ missed \subseteq Rooms

Init == /\ typing = [r \in Rooms |-> {}]
        /\ version = 0 /\ changed = [r \in Rooms |-> 0]
        /\ sets = [h \in Handlers |-> NoSet]
        /\ missed = {}

-----------------------------------------------------------------------------
\* SortedAdd or SortedRemove, the first command of Set.
Set(h) ==
  /\ sets[h].phase = "idle"
  /\ \E r \in Rooms, u \in Users, on \in BOOLEAN :
       /\ typing' = [typing EXCEPT ![r] = IF on THEN @ \cup {u} ELSE @ \ {u}]
       /\ sets' = [sets EXCEPT ![h] = [NoSet EXCEPT !.phase = "increment", !.room = r]]
  /\ UNCHANGED <<version, changed, missed>>

\* bump: Increment, ...
Increment(h) ==
  /\ sets[h].phase = "increment"
  /\ version' = version + 1
  /\ sets' = [sets EXCEPT ![h].phase = "store", ![h].position = version']
  /\ UNCHANGED <<typing, changed, missed>>

\* Mutant: the room is given the version before the one just reached.
OneBehind(position) == position - 1

Position(position) == position

\* ... and Store.  Readers go on from the versions taken: who has gone past
\* this one already does not see the change, and the others see what they
\* may have missed before along with it.
Store(h, taken) ==
  LET s == sets[h] IN
  /\ s.phase = "store"
  /\ changed' = [changed EXCEPT ![s.room] = Position(s.position)]
  /\ missed' = IF \E p \in taken : s.position <= p THEN missed \cup {s.room}
                                                    ELSE missed \ {s.room}
  /\ sets' = [sets EXCEPT ![h] = NoSet]
  /\ UNCHANGED <<typing, version>>

\* A command that fails after the set has been changed.
Fail(h) ==
  /\ sets[h].phase # "idle"
  /\ missed' = missed \cup {sets[h].room}
  /\ sets' = [sets EXCEPT ![h] = NoSet]
  /\ UNCHANGED <<typing, version, changed>>

\* An entry whose time has passed is no longer read; nothing is bumped.
EntryExpires ==
  \E r \in Rooms : \E u \in typing[r] :
    /\ typing' = [typing EXCEPT ![r] = @ \ {u}]
    /\ missed' = missed \cup {r}
    /\ UNCHANGED <<version, changed, sets>>

\* The counter of a room is gone: who has not yet come past it is not told.
CounterExpires(taken) ==
  \E r \in Rooms :
    /\ changed[r] # 0
    /\ changed' = [changed EXCEPT ![r] = 0]
    /\ missed' = IF \E p \in taken : p < changed[r] THEN missed \cup {r} ELSE missed
    /\ UNCHANGED <<typing, version, sets>>

\* The version is gone: it starts again, below what readers have been given.
VersionExpires ==
  /\ version # 0
  /\ version' = 0
  /\ UNCHANGED <<typing, changed, sets, missed>>

-----------------------------------------------------------------------------
\* ChangedSince.
ChangedSince(since) == {r \in Rooms : changed[r] > since}

\* A change that has still to be announced.
Pending(r) == \E h \in Handlers : sets[h].phase # "idle" /\ sets[h].room = r
=============================================================================
