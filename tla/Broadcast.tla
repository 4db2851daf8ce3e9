------------------------------ MODULE Broadcast ------------------------------
(***************************************************************************)
(* What the game server promises to the players connected to it, with no   *)
(* sockets, queues or handlers in it: one totally ordered log of events,   *)
(* of which every member is shown, in order and without gaps, the part     *)
(* that was appended since it joined, except its own events.               *)
(*                                                                         *)
(* An event is any record with a field `from', its originator.  The last   *)
(* event a member originates is its departure.                             *)
(***************************************************************************)
EXTENDS Naturals, Sequences, Filters

CONSTANTS Members,       \* everyone who may ever join, each at most once
          Payload,       \* the events a member can publish
          Departures     \* the events that announce that a member has left

VARIABLES log,      \* every event published, in the order of the broadcast
          members,  \* who has joined and not left
          since,    \* the length of the log when a member joined
          view,     \* the events a member has been shown
          left      \* who has left

vars == <<log, members, since, view, left>>

NotFrom(m, events) == Within(events, {e \in Payload \cup Departures : e.from # m})

(* What a member is due: everything logged since it joined, but its own.   *)
Feed(m, events) == NotFrom(m, SubSeq(events, since[m] + 1, Len(events)))

Init == /\ log = <<>>
        /\ members = {}
        /\ left = {}
        /\ since = [m \in Members |-> 0]
        /\ view = [m \in Members |-> <<>>]

Join(m) ==
  /\ m \notin members \cup left
  /\ members' = members \cup {m}
  /\ since' = [since EXCEPT ![m] = Len(log)]
  /\ UNCHANGED <<log, view, left>>

Publish(m) ==
  /\ m \in members
  /\ \E e \in Payload : e.from = m /\ log' = Append(log, e)
  /\ UNCHANGED <<members, since, view, left>>

(* A member is shown the next event it is due.                             *)
ShowNext(m) ==
  /\ Len(view[m]) < Len(Feed(m, log))
  /\ view' = [view EXCEPT ![m] = Append(@, Feed(m, log)[Len(@) + 1])]

Show(m) ==
  /\ m \in members
  /\ ShowNext(m)
  /\ UNCHANGED <<log, members, since, left>>

(* Leaving is announced to the others; a last event may still get through. *)
Leave(m) ==
  /\ m \in members
  /\ members' = members \ {m}
  /\ left' = left \cup {m}
  /\ \E e \in Departures : e.from = m /\ log' = Append(log, e)
  /\ ShowNext(m) \/ UNCHANGED view
  /\ UNCHANGED since

Next == \E m \in Members : Join(m) \/ Publish(m) \/ Show(m) \/ Leave(m)

Spec == Init /\ [][Next]_vars
=============================================================================
