------------------------------ MODULE AuthRules ------------------------------
(***************************************************************************)
(* The event authorisation rules of internal/entity: authrules.go and      *)
(* powerlevels.go, over the part of a room's state they look at.           *)
(*                                                                         *)
(* The state of a room is [member, rule, visibility, levels]: the          *)
(* membership of every user ("none": no member event), the join rule, the  *)
(* history visibility, which no rule looks at, and the power levels, which *)
(* are [basic, users, events]: the seven scalars, and the two tables as    *)
(* functions on the users and event types they name.  The room has been    *)
(* created, so it has its create and power level events.                   *)
(*                                                                         *)
(* An event is [type, sender] with the fields of its type: member events   *)
(* have target, membership and via, the user that authorises a restricted  *)
(* join; power_levels have levels, join_rules have rule, and               *)
(* history_visibility has visibility.                                      *)
(***************************************************************************)
EXTENDS Integers

CONSTANTS Users,
          Creators,    \* those who outrank the power levels (version 12)
          MaxLevel     \* bound: no power level is greater

ASSUME AuthAssumption == Creators \subseteq Users /\ MaxLevel \in Nat

Nobody == "nobody"

Memberships == {"none", "invite", "join", "leave", "ban", "knock"}
JoinRules   == {"public", "invite", "knock", "restricted", "knock_restricted", "private"}
Settings    == {"world_readable", "shared", "invited", "joined"}
StateTypes  == {"create", "member", "power_levels", "join_rules", "history_visibility"}
Types       == StateTypes \cup {"message", "redaction"}
Basics      == {"ban", "kick", "redact", "invite",
                "users_default", "events_default", "state_default"}

Tables(S) == UNION {[T -> 0..MaxLevel] : T \in SUBSET S}
Levels    == [basic : [Basics -> 0..MaxLevel], users : Tables(Users), events : Tables(Types)]
States    == [member : [Users -> Memberships], rule : JoinRules, visibility : Settings,
              levels : Levels]

-----------------------------------------------------------------------------
(* Power levels.  A creator's is above every level there is, and two       *)
(* creators' are equal.                                                    *)

UserLevel(levels, u) == IF u \in Creators THEN MaxLevel + 1
                        ELSE IF u \in DOMAIN levels.users THEN levels.users[u]
                        ELSE levels.basic["users_default"]

EventLevel(levels, type) == IF type \in DOMAIN levels.events THEN levels.events[type]
                            ELSE IF type \in StateTypes THEN levels.basic["state_default"]
                            ELSE levels.basic["events_default"]

Reaches(s, u, basic) == UserLevel(s.levels, u) >= s.levels.basic[basic]
Outranks(s, u, v)    == UserLevel(s.levels, u) > UserLevel(s.levels, v)
Joined(s, u)         == u \in Users /\ s.member[u] = "join"

-----------------------------------------------------------------------------
(* Member events.                                                          *)

AuthoriseJoin(e, s) ==
  /\ e.target = e.sender
  /\ s.member[e.target] # "ban"
  /\ \/ s.rule = "public"
     \/ /\ s.rule \in {"invite", "knock", "restricted", "knock_restricted"}
        /\ s.member[e.target] \in {"invite", "join"}
     \/ /\ s.rule \in {"restricted", "knock_restricted"}
        /\ Joined(s, e.via) /\ Reaches(s, e.via, "invite")

AuthoriseInvite(e, s) ==
  /\ Joined(s, e.sender)
  /\ s.member[e.target] \notin {"join", "ban"}
  /\ Reaches(s, e.sender, "invite")

AuthoriseLeave(e, s) ==
  \/ e.target = e.sender /\ s.member[e.sender] \in {"invite", "join", "knock"}
  \/ /\ e.target # e.sender
     /\ Joined(s, e.sender)
     /\ s.member[e.target] = "ban" => Reaches(s, e.sender, "ban")
     /\ Reaches(s, e.sender, "kick") /\ Outranks(s, e.sender, e.target)

AuthoriseBan(e, s) ==
  Joined(s, e.sender) /\ Reaches(s, e.sender, "ban") /\ Outranks(s, e.sender, e.target)

AuthoriseKnock(e, s) ==
  /\ s.rule \in {"knock", "knock_restricted"}
  /\ e.target = e.sender
  /\ s.member[e.target] \notin {"ban", "invite", "join"}

AuthoriseMember(e, s) ==
  \/ e.membership = "join"   /\ AuthoriseJoin(e, s)
  \/ e.membership = "invite" /\ AuthoriseInvite(e, s)
  \/ e.membership = "leave"  /\ AuthoriseLeave(e, s)
  \/ e.membership = "ban"    /\ AuthoriseBan(e, s)
  \/ e.membership = "knock"  /\ AuthoriseKnock(e, s)

-----------------------------------------------------------------------------
(* Power level events.                                                     *)

\* What a table says of a key, or -1 if it says nothing.
Entry(table, key) == IF key \in DOMAIN table THEN table[key] ELSE -1

Changed(before, after) ==
  {key \in DOMAIN before \cup DOMAIN after : Entry(before, key) # Entry(after, key)}

CheckLevelTable(level, before, after) ==
  \A key \in Changed(before, after) : level >= Entry(before, key) /\ level >= Entry(after, key)

\* Mutant: what a user is given is not compared with the giver's own level.
CheckOnlyWhatIsTaken(sender, level, before, after) ==
  \A u \in Changed(before, after) : u # sender => level > Entry(before, u)

CheckUserTable(sender, level, before, after) ==
  \A u \in Changed(before, after) : /\ u # sender => level > Entry(before, u)
                                    /\ level >= Entry(after, u)

AuthorisePowerLevels(e, s) ==
  LET level  == UserLevel(s.levels, e.sender)
      before == s.levels
      after  == e.levels
  IN  /\ DOMAIN after.users \cap Creators = {}
      /\ \A b \in Basics : before.basic[b] # after.basic[b] =>
           level >= before.basic[b] /\ level >= after.basic[b]
      /\ CheckLevelTable(level, before.events, after.events)
      /\ CheckUserTable(e.sender, level, before.users, after.users)

-----------------------------------------------------------------------------
(* May this event follow that state, and what is the state after it?       *)

Authorise(e, s) ==
  \/ e.type = "member" /\ AuthoriseMember(e, s)
  \/ /\ e.type \notin {"member", "create"}
     /\ Joined(s, e.sender)
     /\ UserLevel(s.levels, e.sender) >= EventLevel(s.levels, e.type)
     /\ e.type = "power_levels" => AuthorisePowerLevels(e, s)

Apply(s, e) ==
  CASE e.type = "member"       -> [s EXCEPT !.member[e.target] = e.membership]
    [] e.type = "power_levels" -> [s EXCEPT !.levels = e.levels]
    [] e.type = "join_rules"   -> [s EXCEPT !.rule = e.rule]
    [] e.type = "history_visibility" -> [s EXCEPT !.visibility = e.visibility]
    [] OTHER                   -> s

\* Besides an event's own sender, who may redact it?
CanRedact(s, u) == Reaches(s, u, "redact")
=============================================================================
