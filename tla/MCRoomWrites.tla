----------------------------- MODULE MCRoomWrites -----------------------------
(* Small instances of RoomWrites: a room of two joined users, alice who     *)
(* moderates it and bob, and carol, who is not in it.                       *)
EXTENDS RoomReads, TLC

CONSTANTS alice, bob, carol, h1, h2, h3, i1, i2

MCLevels == [basic  |-> [ban |-> 1, kick |-> 1, redact |-> 1, invite |-> 0,
                         users_default |-> 0, events_default |-> 0, state_default |-> 1],
             users  |-> alice :> 2,
             events |-> <<>>]

MCStart == [member |-> (alice :> "join" @@ bob :> "join" @@ carol :> "none"),
            rule |-> "knock_restricted", visibility |-> "shared",
            levels |-> MCLevels]

Message(u)      == [type |-> "message", sender |-> u]
Redaction(u, p) == [type |-> "redaction", sender |-> u, redacts |-> p]
Member(u, v, m) == [type |-> "member", sender |-> u, target |-> v, membership |-> m,
                    via |-> Nobody]
Power(u, users) == [type |-> "power_levels", sender |-> u,
                    levels |-> [MCLevels EXCEPT !.users = users]]
Shown(u, v)     == [type |-> "history_visibility", sender |-> u, visibility |-> v]

Request_(op, content, txn) == [op |-> op, content |-> content, txn |-> txn]

MCRequests ==
  {Request_("send",   Message(bob), "m1"),
   Request_("redact", Redaction(alice, 1), "r1"),
   Request_("join",   Member(bob, bob, "join"), NoTxn),
   Request_("kick",   Member(alice, bob, "leave"), NoTxn),
   Request_("ban",    Member(alice, bob, "ban"), NoTxn),
   Request_("unban",  Member(alice, bob, "leave"), NoTxn),
   Request_("knock",  Member(bob, bob, "knock"), NoTxn),
   Request_("invite", Member(alice, bob, "invite"), NoTxn),
   Request_("state",  Shown(alice, "world_readable"), NoTxn),
   Request_("state",  Shown(alice, "invited"), NoTxn),
   Request_("state",  Power(alice, alice :> 2 @@ bob :> 1), NoTxn),
   Request_("state",  Power(bob, alice :> 2 @@ bob :> 2), NoTxn)}

\* One for every way a write ends, and no more.
MCFewRequests ==
  {Request_("send", Message(bob), "m1"),
   Request_("kick", Member(alice, bob, "leave"), NoTxn)}

TwoInstances == [h \in Handlers |-> IF h = h3 THEN i2 ELSE i1]

OneEach == (h1 :> i1 @@ h2 :> i2)
=============================================================================
