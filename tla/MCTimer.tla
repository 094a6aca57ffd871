------------------------------ MODULE MCTimer ------------------------------
(* The timer's event, and one other device with an event. *)
EXTENDS Timer

CONSTANTS a, b

PitEvent == <<a, 0>>
TwoHandlers == {PitEvent, <<b, 0>>}
=============================================================================
