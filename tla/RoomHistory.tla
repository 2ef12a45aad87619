----------------------------- MODULE RoomHistory -----------------------------
(***************************************************************************)
(* What a room promises, whoever writes to it and from wherever: one       *)
(* history, to which an event is added at the end and never taken away,    *)
(* and every event of which was authorised by the state the events before  *)
(* it leave behind.                                                        *)
(***************************************************************************)
EXTENDS AuthRules, Sequences, SequencesExt

CONSTANT Start     \* the state the creation of the room leaves behind

VARIABLES history, \* the events since then
          state    \* the state they leave behind

Init == history = <<>> /\ state = Start

Accept == /\ Len(history') = Len(history) + 1
          /\ history' = Append(history, Last(history'))
          /\ Authorise(Last(history'), state)
          /\ state' = Apply(state, Last(history'))

Spec == Init /\ [][Accept]_<<history, state>>
=============================================================================
