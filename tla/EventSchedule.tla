--------------------------- MODULE EventSchedule ---------------------------
(***************************************************************************)
(* What the event queue promises to the devices: an event asked for is     *)
(* kept until it fires or is cancelled, fires once, and events fire in the *)
(* order of the times they are due, first come first served among equals.  *)
(* When the clock is set back, that order begins anew from the time it is  *)
(* set to.                                                                 *)
(* At most Capacity events are outstanding, the one whose handler runs     *)
(* among them; past that a request is dropped, which is a stutter here.    *)
(***************************************************************************)
EXTENDS Integers, Sequences, FiniteSets

CONSTANTS Capacity, Handlers, Events, Times

VARIABLES
  pending,   \* the events to come, as [due, ev], in the order they will fire
  firing,    \* a handler runs
  horizon    \* the time the last event to fire was due, or the clock was set back to

Init == pending = <<>> /\ firing = FALSE /\ horizon = 0

Outstanding == Len(pending) + IF firing THEN 1 ELSE 0

\* No request reaches back before what has fired, and the new event waits for
\* those that are due no later than it is.
Add(ev, due) ==
  /\ Outstanding < Capacity
  /\ due >= horizon
  /\ \E n \in 0..Len(pending) :
       /\ \A k \in 1..Len(pending) : k <= n <=> pending[k].due <= due
       /\ pending' = SubSeq(pending, 1, n) \o <<[due |-> due, ev |-> ev]>>
                       \o SubSeq(pending, n + 1, Len(pending))
  /\ UNCHANGED <<firing, horizon>>

\* What is pending, less the events of a kind.
Without(kind) ==
  LET kept[k \in 0..Len(pending)] ==
        IF k = 0 THEN <<>>
        ELSE IF pending[k].ev \in kind THEN kept[k - 1] ELSE Append(kept[k - 1], pending[k])
  IN kept[Len(pending)]

\* Cancellation takes every event of a kind, a handler's or a single pair.
Cancel(kind) ==
  /\ pending' = Without(kind)
  /\ UNCHANGED <<firing, horizon>>

Fire ==
  /\ ~firing /\ pending # <<>>
  /\ horizon' = Head(pending).due
  /\ pending' = Tail(pending)
  /\ firing' = TRUE

Done ==
  /\ firing
  /\ firing' = FALSE
  /\ UNCHANGED <<pending, horizon>>

\* No event is lost or moved by it.
Rewind ==
  /\ ~firing
  /\ horizon' \in Int /\ horizon' < horizon
  /\ UNCHANGED <<pending, firing>>

Kinds == {{ev} : ev \in Events} \cup {{ev \in Events : ev[1] = h} : h \in Handlers}

Next ==
  \/ \E ev \in Events, due \in Times : Add(ev, due)
  \/ \E kind \in Kinds : Cancel(kind)
  \/ Fire
  \/ Done
  \/ Rewind

Spec == Init /\ [][Next]_<<pending, firing, horizon>>

=============================================================================
