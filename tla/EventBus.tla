------------------------------ MODULE EventBus ------------------------------
(* pipeline/event_bus.py: events published by agents and the consumers that *)
(* have marked each one.  Every agent opens the file for itself; a mark     *)
(* reads the list of consumers, appends and writes the list back.  No part  *)
(* of the program registers an in-process handler.                          *)
EXTENDS Naturals, FiniteSets, Sequences, SequencesExt

CONSTANTS
  EventIds,    \* event_id of each event
  Consumers    \* pipelines and agents that mark events

VARIABLES
  events,      \* rows, the oldest first
  marking,     \* what each consumer is doing in mark_consumed
  marked,      \* the marks that returned: pairs of a consumer and an event
  overlapped   \* the marks that overlapped another mark of the same event

busVars == <<events, marking, marked, overlapped>>

NotMarking == [kind |-> "idle"]
EventRows == [id : EventIds, consumedBy : Seq(Consumers)]
Marks == [kind : {"mark"}, event : EventIds, seen : Seq(Consumers)]

BusInit ==
  /\ events = <<>>
  /\ marking = [c \in Consumers |-> NotMarking]
  /\ marked = {}
  /\ overlapped = {}

Published == {events[i].id : i \in DOMAIN events}

\* INSERT OR IGNORE and commit: an event published again stays as it is.
Publish(e) ==
  /\ e \notin Published
  /\ events' = Append(events, [id |-> e, consumedBy |-> <<>>])
  /\ UNCHANGED <<marking, marked, overlapped>>

RowOf(e) == CHOOSE i \in DOMAIN events : events[i].id = e

Marking(e) == {c \in Consumers : marking[c] # NotMarking /\ marking[c].event = e}

\* The SELECT of mark_consumed; it returns when the consumer is in the list.
MarkReads(c, e) ==
  /\ marking[c] = NotMarking
  /\ e \in Published
  /\ LET seen == events[RowOf(e)].consumedBy IN
       /\ c \notin ToSet(seen)
       /\ marking' = [marking EXCEPT ![c] = [kind |-> "mark", event |-> e, seen |-> seen]]
  /\ overlapped' = IF Marking(e) = {} THEN overlapped
                   ELSE overlapped \union ((Marking(e) \union {c}) \X {e})
  /\ UNCHANGED <<events, marked>>

\* A slip in the write of mark_consumed: the list is not the one that was read.
MarkWritesAfresh(c) ==
  /\ marking[c] # NotMarking
  /\ LET e == marking[c].event IN
       /\ events' = [events EXCEPT ![RowOf(e)].consumedBy = <<c>>]
       /\ marked' = marked \union {<<c, e>>}
  /\ marking' = [marking EXCEPT ![c] = NotMarking]
  /\ UNCHANGED overlapped

\* The UPDATE of mark_consumed, with the list that was read.
MarkWrites(c) ==
  /\ marking[c] # NotMarking
  /\ LET e == marking[c].event IN
       /\ events' = [events EXCEPT ![RowOf(e)].consumedBy = Append(marking[c].seen, c)]
       /\ marked' = marked \union {<<c, e>>}
  /\ marking' = [marking EXCEPT ![c] = NotMarking]
  /\ UNCHANGED overlapped

\* The consumer's process dies between the read and the write.
MarkDies(c) ==
  /\ marking[c] # NotMarking
  /\ marking' = [marking EXCEPT ![c] = NotMarking]
  /\ UNCHANGED <<events, marked, overlapped>>

BusNext ==
  \/ \E e \in EventIds : Publish(e)
  \/ \E c \in Consumers :
       \/ \E e \in EventIds : MarkReads(c, e)
       \/ MarkWrites(c) \/ MarkDies(c)

BusSpec == BusInit /\ [][BusNext]_busVars

BusTypeOK ==
  /\ events \in Seq(EventRows)
  /\ marking \in [Consumers -> Marks \union {NotMarking}]
  /\ marked \subseteq Consumers \X EventIds
  /\ overlapped \subseteq Consumers \X EventIds

\* A mark that returned is in the list for good, unless another consumer was
\* marking the same event meanwhile: only an overlapping read and write of
\* mark_consumed can lose one.
MarkKeptIfAlone ==
  \A m \in marked \ overlapped : m[1] \in ToSet(events[RowOf(m[2])].consumedBy)
=============================================================================
