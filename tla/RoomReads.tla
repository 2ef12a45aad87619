------------------------------ MODULE RoomReads ------------------------------
(***************************************************************************)
(* What a user sees of a room's history: the HistoryFilter of              *)
(* internal/entity/visibility.go, as the sync services and the rooms       *)
(* service load and use it.  Reads change nothing: RoomWrites moves, and a *)
(* read may happen in any of its states.                                   *)
(*                                                                         *)
(* A filter is made of two lists, read by two statements: all changes of   *)
(* the room's history visibility, and all member events of the caller.  A  *)
(* statement sees what has been committed when it begins, and the room's   *)
(* events are committed in the order of their positions: the first sees    *)
(* the events up to a position v, the second those up to an m >= v.        *)
(*                                                                         *)
(* The room's creation stands for the changes it consists of: they lie     *)
(* before all events of the model.  All events here are deliverable.       *)
(***************************************************************************)
EXTENDS RoomWrites

Upto(p) == {e \in events : e.pos <= p}

\* The order of the timeline.
Before(e, f) == e.depth < f.depth \/ (e.depth = f.depth /\ e.pos < f.pos)

VisibilityChanges(v)    == {e \in Upto(v) : e.content.type = "history_visibility"}
MembershipChanges(u, m) == {e \in Upto(m) : e.content.type = "member" /\ e.content.target = u}

\* The last of some changes.
Newest(changes) == CHOOSE e \in changes : \A f \in changes : ~Before(e, f)

VisibilityBefore(v, at) ==
  LET earlier == {e \in VisibilityChanges(v) : Before(e, at)} IN
    IF earlier = {} THEN Start.visibility ELSE Newest(earlier).content.visibility

\* Mutant: a change is in force at its own position already.
MembershipFrom(u, m, at) ==
  LET earlier == {e \in MembershipChanges(u, m) : ~Before(at, e)} IN
    IF earlier = {} THEN Start.member[u] ELSE Newest(earlier).content.membership

MembershipBefore(u, m, at) ==
  LET earlier == {e \in MembershipChanges(u, m) : Before(e, at)} IN
    IF earlier = {} THEN Start.member[u] ELSE Newest(earlier).content.membership

JoinedAtOrAfter(u, m, at) ==
  \E e \in MembershipChanges(u, m) : e.content.membership = "join" /\ ~Before(e, at)

Allows(u, m, visibility, membership, at) ==
  \/ visibility = "world_readable"
  \/ membership = "join"
  \/ visibility = "shared" /\ JoinedAtOrAfter(u, m, at)
  \/ visibility = "invited" /\ membership = "invite"

\* An event is visible by the setting and the membership before it, or by
\* what it makes of them itself.
Visible(u, v, m, e) ==
  LET visibility == VisibilityBefore(v, e)
      membership == MembershipBefore(u, m, e)
  IN  \/ Allows(u, m, visibility, membership, e)
      \/ /\ e.content.type = "history_visibility"
         /\ Allows(u, m, e.content.visibility, membership, e)
      \/ /\ e.content.type = "member" /\ e.content.target = u
         /\ Allows(u, m, visibility, e.content.membership, e)

\* Whether the room is there at all for the caller.
EverEntitled(u, v, m) ==
  \/ Start.member[u] # "none" \/ MembershipChanges(u, m) # {}
  \/ Start.visibility = "world_readable"
  \/ \E e \in VisibilityChanges(v) : e.content.visibility = "world_readable"

\* What the caller is told he was when an event was sent.
MembershipAt(u, m, at) ==
  LET sofar == {e \in MembershipChanges(u, m) : ~Before(at, e)}
      value == IF sofar = {} THEN Start.member[u] ELSE Newest(sofar).content.membership
  IN  IF value = "none" THEN "leave" ELSE value

-----------------------------------------------------------------------------
(* Properties.                                                             *)

\* By the states around an event, and those since then: may u see it?
Entitled(u, e) ==
  \E s \in {e.before, StateAfter(e)} :
    \/ s.visibility = "world_readable"
    \/ s.member[u] = "join"
    \/ s.visibility = "shared" /\ \E f \in events :
                                    f.pos >= e.pos /\ StateAfter(f).member[u] = "join"
    \/ s.visibility = "invited" /\ s.member[u] = "invite"

(* However the writes of others fall between the two statements of a read, *)
(* the second of which is made now, its caller is shown exactly the events *)
(* that the room's states around them and since entitle him to, each with  *)
(* the membership he had after it.                                         *)
ReadersSeeTheirHistory ==
  \A u \in Users, e, last \in events \ {Root} :
    LET v == last.pos
        m == lastStream
        s == StateAfter(e)
    IN  e.pos <= v =>
      /\ (EverEntitled(u, v, m) /\ Visible(u, v, m, e)) <=> Entitled(u, e)
      /\ MembershipAt(u, m, e) = IF s.member[u] = "none" THEN "leave" ELSE s.member[u]
=============================================================================
