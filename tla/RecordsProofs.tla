----------------------------- MODULE RecordsProofs -----------------------------
(* Theorems about the stores: the wiki (SharedMemory), the event bus, the     *)
(* version history, the prompt registry, the risk register and the            *)
(* traceability graph, each for every value of its constants.                 *)
EXTENDS SharedMemory, EventBus, ArtifactVersions, PromptRegistry, Traceability,
        SequenceTheorems, TLAPS

LEMMA ToSetAppend ==
  ASSUME NEW S, NEW s \in Seq(S), NEW x \in S
  PROVE  ToSet(Append(s, x)) = ToSet(s) \union {x}
<1>1. /\ Append(s, x) \in Seq(S) /\ Len(Append(s, x)) = Len(s) + 1
      /\ Append(s, x)[Len(s) + 1] = x
      /\ \A i \in 1..Len(s) : Append(s, x)[i] = s[i]
  BY AppendProperties
<1>2. Len(s) \in Nat /\ DOMAIN s = 1..Len(s) /\ DOMAIN Append(s, x) = 1..(Len(s) + 1)
  BY <1>1
<1>3. QED
  BY <1>1, <1>2 DEF ToSet

------------------------------------------------------------------------------
(* The wiki: one transaction changes the wiki and the log, so although the   *)
(* value it logs as old may be stale, the new one never is.                  *)

LEMMA OpShape ==
  ASSUME WikiTypeOK, NEW c \in Conns, op[c].kind \in {"put", "delete"}
  PROVE  op[c] \in Ops
  BY DEF WikiTypeOK, Ops, WikiIdle

LEMMA EntryTyped ==
  ASSUME NEW o \in Ops, NEW action \in {"create", "update", "delete"}
  PROVE  [action |-> action, key |-> o.key, old |-> o.old, new |-> o.value] \in Entries
  BY DEF Ops, Entries

LEMMA InitWikiTypes == WikiInit => WikiTypeOK
  BY DEF WikiInit, WikiTypeOK, Stored

\* What the transaction of a put or a delete does: one entry is logged, and its
\* key gets the entry's value or is left without one.
Transaction(c, action) ==
  LET o == op[c]
      entry == [action |-> action, key |-> o.key, old |-> o.old, new |-> o.value]
  IN /\ o \in Ops /\ entry \in Entries
     /\ log' = Append(log, entry)
     /\ \/ wiki' = [wiki EXCEPT ![o.key] = o.value]
        \/ wiki' = [wiki EXCEPT ![o.key] = NoValue]
     /\ op' = [op EXCEPT ![c] = WikiIdle]
     /\ writer' = {}

LEMMA WritesAreTransactions ==
  ASSUME WikiTypeOK, NEW c \in Conns, UpdateRow(c) \/ InsertRow(c) \/ DeleteRow(c)
  PROVE  \E action \in {"create", "update", "delete"} : Transaction(c, action)
<1>1. op[c] \in Ops
  BY OpShape DEF UpdateRow, InsertRow, DeleteRow
<1>2. CASE UpdateRow(c)
  <2>1. wiki' = IF wiki[op[c].key] = NoValue THEN wiki
                ELSE [wiki EXCEPT ![op[c].key] = op[c].value]
    BY <1>2 DEF UpdateRow
  <2>2. wiki[op[c].key] = NoValue => wiki = [wiki EXCEPT ![op[c].key] = NoValue]
    BY DEF WikiTypeOK
  <2>3. Transaction(c, "update")
    BY <1>1, <1>2, <2>1, <2>2, EntryTyped DEF UpdateRow, Transaction, Log, Commits
  <2>4. QED
    BY <2>3
<1>3. CASE InsertRow(c)
  <2>1. Transaction(c, "create")
    BY <1>1, <1>3, EntryTyped DEF InsertRow, Transaction, Log, Commits
  <2>2. QED
    BY <2>1
<1>4. CASE DeleteRow(c)
  <2>1. Transaction(c, "delete")
    BY <1>1, <1>4, EntryTyped DEF DeleteRow, Transaction, Log, Commits
  <2>2. QED
    BY <2>1
<1>5. QED
  BY <1>2, <1>3, <1>4

LEMMA NextWikiTypes == WikiTypeOK /\ [WikiNext]_wikiVars => WikiTypeOK'
<1> SUFFICES ASSUME WikiTypeOK, [WikiNext]_wikiVars PROVE WikiTypeOK'
  OBVIOUS
<1>0. /\ wiki \in [Keys -> Stored] /\ log \in Seq(Entries)
      /\ op \in [Conns -> Ops \union {WikiIdle}] /\ writer \in SUBSET Conns
  BY DEF WikiTypeOK
<1>1. ASSUME NEW c \in Conns, NEW k \in Keys, NEW v \in Values, PutReads(c, k, v) PROVE WikiTypeOK'
  <2>1. [kind |-> "put", key |-> k, value |-> v, old |-> wiki[k]] \in Ops
    BY <1>0 DEF Ops, Stored
  <2>2. QED
    BY <1>0, <1>1, <2>1 DEF PutReads, WikiTypeOK
<1>2. ASSUME NEW c \in Conns, NEW k \in Keys, DeleteReads(c, k) PROVE WikiTypeOK'
  <2>1. [kind |-> "delete", key |-> k, value |-> NoValue, old |-> wiki[k]] \in Ops
    BY <1>0 DEF Ops, Stored
  <2>2. QED
    BY <1>0, <1>2, <2>1 DEF DeleteReads, WikiTypeOK
<1>3. ASSUME NEW c \in Conns, UpdateRow(c) \/ InsertRow(c) \/ DeleteRow(c) PROVE WikiTypeOK'
  <2>1. PICK action \in {"create", "update", "delete"} : Transaction(c, action)
    BY <1>3, WritesAreTransactions
  <2>2. log' \in Seq(Entries)
    BY <1>0, <2>1 DEF Transaction
  <2>3. wiki' \in [Keys -> Stored]
    BY <1>0, <2>1 DEF Transaction, Ops, Stored
  <2>4. op' \in [Conns -> Ops \union {WikiIdle}] /\ writer' \in SUBSET Conns
    BY <1>0, <2>1 DEF Transaction
  <2>5. QED
    BY <2>2, <2>3, <2>4 DEF WikiTypeOK
<1>4. ASSUME NEW c \in Conns, InsertRefused(c) \/ LockedOut(c) \/ Closed(c) PROVE WikiTypeOK'
  BY <1>0, <1>4 DEF InsertRefused, LockedOut, Closed, WikiTypeOK
<1>5. CASE UNCHANGED wikiVars
  BY <1>0, <1>5 DEF wikiVars, WikiTypeOK
<1>6. QED
  BY <1>1, <1>2, <1>3, <1>4, <1>5 DEF WikiNext

LEMMA InitLogged == WikiInit => StoredValueIsLogged
  BY DEF WikiInit, StoredValueIsLogged

\* The entry a transaction appends is the last one about its key, and leaves
\* the last one about every other key the last.
LEMMA AppendedIsLast ==
  ASSUME log \in Seq(Entries), NEW e \in Entries, log' = Append(log, e)
  PROVE  /\ Len(log) + 1 \in DOMAIN log' /\ log'[Len(log) + 1] = e
         /\ \A j \in DOMAIN log' : ~(j > Len(log) + 1)
         /\ \A k \in Keys \ {e.key} : \A i \in DOMAIN log :
              IsLast(i, k) => IsLast(i, k)' /\ log'[i] = log[i]
<1>1. /\ Len(log) \in Nat /\ DOMAIN log = 1 .. Len(log) /\ DOMAIN log' = 1 .. Len(log) + 1
      /\ log'[Len(log) + 1] = e
      /\ \A i \in DOMAIN log : log'[i] = log[i]
  OBVIOUS
<1>2. \A j \in DOMAIN log' : j \in DOMAIN log \/ j = Len(log) + 1
  BY <1>1
<1>3. Len(log) + 1 \in DOMAIN log' /\ \A j \in DOMAIN log' : ~(j > Len(log) + 1)
  BY <1>1
<1>4. ASSUME NEW k \in Keys \ {e.key}, NEW i \in DOMAIN log, IsLast(i, k)
      PROVE  IsLast(i, k)' /\ log'[i] = log[i]
  BY <1>1, <1>2, <1>4 DEF IsLast
<1>5. QED
  BY <1>1, <1>3, <1>4

LEMMA NextLogged ==
  WikiTypeOK /\ StoredValueIsLogged /\ [WikiNext]_wikiVars => StoredValueIsLogged'
<1> SUFFICES ASSUME WikiTypeOK, StoredValueIsLogged, [WikiNext]_wikiVars PROVE StoredValueIsLogged'
  OBVIOUS
<1>1. ASSUME NEW c \in Conns, UpdateRow(c) \/ InsertRow(c) \/ DeleteRow(c)
      PROVE  StoredValueIsLogged'
  <2>1. PICK action \in {"create", "update", "delete"} : Transaction(c, action)
    BY <1>1, WritesAreTransactions
  <2> DEFINE o == op[c]
             e == [action |-> action, key |-> o.key, old |-> o.old, new |-> o.value]
  <2>2. /\ e \in Entries /\ log' = Append(log, e) /\ log \in Seq(Entries)
        /\ e.key = o.key /\ e.new = o.value
        /\ wiki \in [Keys -> Stored] /\ o.key \in Keys
    BY <2>1 DEF Transaction, WikiTypeOK, Ops
  <2>3. /\ \A k \in Keys \ {o.key} : wiki'[k] = wiki[k]
        /\ wiki'[o.key] = o.value \/ wiki'[o.key] = NoValue
    BY <2>1, <2>2 DEF Transaction
  <2> HIDE DEF o, e
  <2> SUFFICES ASSUME NEW k \in Keys, wiki'[k] # NoValue
               PROVE  \E i \in DOMAIN log' :
                        /\ log'[i].key = k /\ \A j \in DOMAIN log' : j > i => log'[j].key # k
                        /\ log'[i].new = wiki'[k]
    BY DEF StoredValueIsLogged, IsLast
  <2>4. CASE k = o.key
    BY <2>2, <2>3, <2>4, AppendedIsLast DEF IsLast
  <2>5. CASE k # o.key
    <3>1. PICK i \in DOMAIN log : IsLast(i, k) /\ log[i].new = wiki[k]
      BY <2>3, <2>5 DEF StoredValueIsLogged
    <3>2. IsLast(i, k)' /\ log'[i] = log[i]
      BY <2>2, <2>5, <3>1, AppendedIsLast
    <3>3. QED
      BY <2>3, <2>5, <3>1, <3>2 DEF IsLast
  <2>6. QED
    BY <2>4, <2>5
<1>2. ASSUME UNCHANGED <<wiki, log>> PROVE StoredValueIsLogged'
  BY <1>2 DEF StoredValueIsLogged, IsLast
<1>3. QED
  BY <1>1, <1>2 DEF WikiNext, PutReads, DeleteReads, InsertRefused, LockedOut, Closed, wikiVars

\* Every value that can be read is the newest one its log names, for any number
\* of connections that interleave and a log of any length (StoredValueIsLogged).
THEOREM WikiFollowsLog == WikiSpec => []StoredValueIsLogged
<1>1. WikiInit => WikiTypeOK /\ StoredValueIsLogged
  BY InitWikiTypes, InitLogged
<1>2. WikiTypeOK /\ StoredValueIsLogged /\ [WikiNext]_wikiVars => (WikiTypeOK /\ StoredValueIsLogged)'
  BY NextWikiTypes, NextLogged
<1>3. QED
  BY <1>1, <1>2, PTL DEF WikiSpec

------------------------------------------------------------------------------
(* The event bus: a mark is lost only to another one that overlapped it.     *)

LEMMA MarkShape ==
  ASSUME BusTypeOK, NEW c \in Consumers, marking[c] # NotMarking
  PROVE  marking[c] \in Marks
  BY DEF BusTypeOK

\* event_id is the primary key of the table.
OneRowEach == \A i, j \in DOMAIN events : events[i].id = events[j].id => i = j

MarksArePublished ==
  /\ \A c \in Consumers : marking[c] # NotMarking => marking[c].event \in Published
  /\ \A m \in marked : m[2] \in Published

\* Two open marks of one event have both been noted as overlapping.
OpenMarksOverlap ==
  \A c, d \in Consumers :
    c # d /\ marking[c] # NotMarking /\ marking[d] # NotMarking
      /\ marking[c].event = marking[d].event
    => <<c, marking[c].event>> \in overlapped

\* An open mark has read every mark that nothing overlapped.
OpenMarksSeeAll ==
  \A c \in Consumers : marking[c] # NotMarking =>
    \A m \in marked \ overlapped :
      m[2] = marking[c].event => m[1] \in ToSet(marking[c].seen)

MarkInv ==
  /\ BusTypeOK
  /\ OneRowEach
  /\ MarksArePublished
  /\ OpenMarksOverlap
  /\ OpenMarksSeeAll
  /\ MarkKeptIfAlone

LEMMA RowIsThere ==
  ASSUME NEW e \in Published
  PROVE  RowOf(e) \in DOMAIN events /\ events[RowOf(e)].id = e
<1>1. \E i \in DOMAIN events : events[i].id = e
  BY DEF Published
<1>2. QED
  BY <1>1 DEF RowOf

\* The row of an event is where it was as long as no row is removed, and
\* nothing but a list of consumers changes.
LEMMA RowStays ==
  ASSUME BusTypeOK, OneRowEach, BusTypeOK', OneRowEach',
         Len(events) <= Len(events'),
         \A i \in DOMAIN events : events'[i].id = events[i].id,
         NEW e \in Published
  PROVE  e \in Published' /\ RowOf(e)' = RowOf(e) /\ RowOf(e) \in DOMAIN events
<1>1. RowOf(e) \in DOMAIN events /\ events[RowOf(e)].id = e
  BY RowIsThere
<1>2. RowOf(e) \in DOMAIN events' /\ events'[RowOf(e)].id = e
  BY <1>1 DEF BusTypeOK
<1>3. e \in Published'
  BY <1>2 DEF Published
<1>4. RowOf(e)' \in DOMAIN events' /\ events'[RowOf(e)'].id = e
  BY <1>3, RowIsThere DEF RowOf, Published
<1>5. QED
  BY <1>1, <1>2, <1>3, <1>4 DEF OneRowEach

LEMMA InitMarks == BusInit => MarkInv
  BY DEF BusInit, MarkInv, BusTypeOK, NotMarking, OneRowEach, MarksArePublished, OpenMarksOverlap,
         OpenMarksSeeAll, MarkKeptIfAlone, Published

LEMMA PublishKeeps ==
  ASSUME MarkInv, NEW e \in EventIds, Publish(e)
  PROVE  MarkInv'
<1> DEFINE entry == [id |-> e, consumedBy |-> <<>>]
<1> USE DEF MarkInv
<1>1. entry \in EventRows
  BY DEF EventRows
<1>2. /\ events' \in Seq(EventRows) /\ Len(events') = Len(events) + 1
      /\ events'[Len(events) + 1] = entry
      /\ \A i \in 1..Len(events) : events'[i] = events[i]
      /\ UNCHANGED <<marking, marked, overlapped>>
  BY <1>1, AppendProperties DEF Publish, BusTypeOK
<1>3. DOMAIN events = 1..Len(events) /\ DOMAIN events' = 1..(Len(events) + 1) /\ Len(events) \in Nat
  BY <1>2 DEF BusTypeOK
<1>4. BusTypeOK'
  BY <1>2 DEF BusTypeOK
<1>5. OneRowEach'
  <2>1. \A i \in DOMAIN events : events[i].id # e
    BY DEF Publish, Published
  <2>2. QED
    BY <1>2, <1>3, <2>1 DEF OneRowEach
<1>6. \A f \in Published : f \in Published' /\ RowOf(f)' = RowOf(f) /\ RowOf(f) \in DOMAIN events
  BY <1>2, <1>3, <1>4, <1>5, RowStays
<1>7. MarksArePublished' /\ OpenMarksOverlap' /\ OpenMarksSeeAll'
  BY <1>2, <1>6 DEF MarksArePublished, OpenMarksOverlap, OpenMarksSeeAll
<1>8. MarkKeptIfAlone'
  <2> SUFFICES ASSUME NEW m \in marked \ overlapped
               PROVE  m[1] \in ToSet(events[RowOf(m[2])].consumedBy)'
    BY <1>2 DEF MarkKeptIfAlone, BusTypeOK
  <2>1. m[1] \in ToSet(events[RowOf(m[2])].consumedBy) /\ m = <<m[1], m[2]>>
    BY DEF MarkKeptIfAlone, BusTypeOK
  <2>2. events'[RowOf(m[2])'] = events[RowOf(m[2])]
    BY <1>2, <1>3, <1>6 DEF MarksArePublished
  <2>3. QED
    BY <2>1, <2>2
<1>9. QED
  BY <1>4, <1>5, <1>7, <1>8

LEMMA MarkReadsKeeps ==
  ASSUME MarkInv, NEW c \in Consumers, NEW e \in EventIds, MarkReads(c, e)
  PROVE  MarkInv'
<1> USE DEF MarkInv
<1> DEFINE entry == events[RowOf(e)]
           mark == [kind |-> "mark", event |-> e, seen |-> entry.consumedBy]
<1>1. /\ marking' = [marking EXCEPT ![c] = mark]
      /\ overlapped' = IF Marking(e) = {} THEN overlapped
                       ELSE overlapped \union ((Marking(e) \union {c}) \X {e})
      /\ UNCHANGED <<events, marked>>
      /\ e \in Published /\ marking[c] = NotMarking
  BY DEF MarkReads
<1>2. entry \in EventRows /\ mark \in Marks /\ mark # NotMarking
  <2>1. entry \in EventRows
    BY <1>1, RowIsThere DEF BusTypeOK
  <2>2. QED
    BY <2>1 DEF EventRows, Marks, NotMarking
<1> HIDE DEF mark
<1>3. mark.event = e /\ mark.seen = entry.consumedBy
  BY DEF mark
<1>4. Marking(e) \subseteq Consumers
  BY DEF Marking
<1>5. overlapped \subseteq overlapped' /\ overlapped' \subseteq Consumers \X EventIds
  BY <1>1, <1>4 DEF BusTypeOK
<1>6. marking'[c] = mark /\ \A d \in Consumers \ {c} : marking'[d] = marking[d]
  BY <1>1 DEF BusTypeOK
<1>7. BusTypeOK'
  BY <1>1, <1>2, <1>5 DEF BusTypeOK
<1>8. OneRowEach' /\ Published' = Published /\ \A f : RowOf(f)' = RowOf(f)
  BY <1>1 DEF OneRowEach, Published, RowOf
<1>9. MarksArePublished'
  BY <1>1, <1>3, <1>6, <1>8 DEF MarksArePublished
<1>10. OpenMarksOverlap'
  <2>1. ASSUME NEW d \in Consumers \ {c}, marking[d] # NotMarking, marking[d].event = e
        PROVE  <<c, e>> \in overlapped' /\ <<d, e>> \in overlapped'
    <3>1. d \in Marking(e)
      BY <2>1 DEF Marking
    <3>2. QED
      BY <1>1, <3>1
  <2>2. QED
    BY <1>3, <1>5, <1>6, <2>1 DEF OpenMarksOverlap
<1>11. OpenMarksSeeAll'
  <2>1. \A m \in marked \ overlapped : m[2] = e => m[1] \in ToSet(mark.seen)
    BY <1>3 DEF MarkKeptIfAlone
  <2>2. QED
    BY <1>1, <1>3, <1>5, <1>6, <2>1 DEF OpenMarksSeeAll
<1>12. MarkKeptIfAlone'
  BY <1>1, <1>5, <1>8 DEF MarkKeptIfAlone
<1>13. QED
  BY <1>7, <1>8, <1>9, <1>10, <1>11, <1>12

LEMMA MarkWritesKeeps ==
  ASSUME MarkInv, NEW c \in Consumers, MarkWrites(c)
  PROVE  MarkInv'
<1> USE DEF MarkInv
<1> DEFINE e == marking[c].event
           seen == marking[c].seen
<1>1. e \in EventIds /\ seen \in Seq(Consumers) /\ marking[c] # NotMarking
  BY MarkShape DEF MarkWrites, Marks
<1>2. /\ events' = [events EXCEPT ![RowOf(e)].consumedBy = Append(seen, c)]
      /\ marked' = marked \union {<<c, e>>}
      /\ marking' = [marking EXCEPT ![c] = NotMarking]
      /\ UNCHANGED overlapped
  BY DEF MarkWrites
<1>3. e \in Published
  BY <1>1 DEF MarksArePublished
<1> HIDE DEF e, seen
<1>4. RowOf(e) \in DOMAIN events
  BY <1>3, RowIsThere
<1>5. /\ Len(events') = Len(events) /\ DOMAIN events' = DOMAIN events
      /\ events' \in Seq(EventRows)
      /\ events'[RowOf(e)].consumedBy = Append(seen, c)
      /\ \A i \in DOMAIN events : events'[i].id = events[i].id
      /\ \A i \in DOMAIN events : i # RowOf(e) => events'[i] = events[i]
  <2>1. Append(seen, c) \in Seq(Consumers)
    BY <1>1
  <2>2. \A i \in DOMAIN events : events[i] \in EventRows
    BY DEF BusTypeOK
  <2> DEFINE entry == [events[RowOf(e)] EXCEPT !.consumedBy = Append(seen, c)]
  <2>3. entry \in EventRows /\ entry.id = events[RowOf(e)].id /\ entry.consumedBy = Append(seen, c)
    BY <1>4, <2>1, <2>2 DEF EventRows
  <2>4. events' = [events EXCEPT ![RowOf(e)] = entry]
    BY <1>2
  <2> HIDE DEF entry
  <2>5. QED
    BY <1>4, <2>3, <2>4 DEF BusTypeOK
<1>6. BusTypeOK' /\ OneRowEach'
  BY <1>1, <1>2, <1>5 DEF BusTypeOK, OneRowEach
<1>7. \A f \in Published : f \in Published' /\ RowOf(f)' = RowOf(f) /\ RowOf(f) \in DOMAIN events
  BY <1>5, <1>6, RowStays DEF BusTypeOK
<1>8. marking'[c] = NotMarking /\ \A d \in Consumers \ {c} : marking'[d] = marking[d]
  BY <1>2 DEF BusTypeOK
<1>9. MarksArePublished'
  BY <1>2, <1>3, <1>7, <1>8 DEF MarksArePublished
<1>10. OpenMarksOverlap'
  BY <1>2, <1>8 DEF OpenMarksOverlap
<1>11. OpenMarksSeeAll'
  <2>1. ASSUME NEW d \in Consumers \ {c}, marking[d] # NotMarking, marking[d].event = e
        PROVE  <<c, e>> \in overlapped
    BY <1>1, <2>1 DEF OpenMarksOverlap, e
  <2>2. SUFFICES ASSUME NEW d \in Consumers, marking'[d] # NotMarking,
                        NEW m \in marked' \ overlapped', m[2] = marking'[d].event
                 PROVE  m[1] \in ToSet(marking'[d].seen)
    BY DEF OpenMarksSeeAll
  <2>3. d # c /\ marking'[d] = marking[d]
    BY <1>8, <2>2
  <2>4. m # <<c, e>>
    BY <1>2, <2>1, <2>2, <2>3
  <2>5. QED
    BY <1>2, <2>2, <2>3, <2>4 DEF OpenMarksSeeAll
<1>12. MarkKeptIfAlone'
  <2> SUFFICES ASSUME NEW m \in marked' \ overlapped'
               PROVE  m[1] \in ToSet(events'[RowOf(m[2])'].consumedBy)
    BY DEF MarkKeptIfAlone
  <2>1. c \in ToSet(Append(seen, c)) /\ \A d \in ToSet(seen) : d \in ToSet(Append(seen, c))
    BY <1>1, ToSetAppend
  <2>2. CASE m[2] = e
    <3>1. m[1] = c \/ m \in marked \ overlapped
      BY <1>2
    <3>2. m[1] \in ToSet(Append(seen, c))
      BY <1>1, <2>1, <2>2, <3>1 DEF OpenMarksSeeAll, e, seen
    <3>3. QED
      BY <1>3, <1>5, <1>7, <2>2, <3>2
  <2>3. CASE m[2] # e
    <3>1. m \in marked \ overlapped /\ m[2] \in Published
      BY <1>2, <2>3 DEF MarksArePublished
    <3>2. RowOf(m[2]) # RowOf(e)
      BY <1>3, <2>3, <3>1, RowIsThere
    <3>3. QED
      BY <1>5, <1>7, <3>1, <3>2 DEF MarkKeptIfAlone
  <2>4. QED
    BY <2>2, <2>3
<1>13. QED
  BY <1>6, <1>9, <1>10, <1>11, <1>12

LEMMA MarkDiesKeeps ==
  ASSUME MarkInv, NEW c \in Consumers, MarkDies(c)
  PROVE  MarkInv'
<1> USE DEF MarkInv
<1>1. marking' = [marking EXCEPT ![c] = NotMarking] /\ UNCHANGED <<events, marked, overlapped>>
  BY DEF MarkDies
<1>2. marking'[c] = NotMarking /\ \A d \in Consumers \ {c} : marking'[d] = marking[d]
  BY <1>1 DEF BusTypeOK
<1>3. BusTypeOK' /\ OneRowEach' /\ MarkKeptIfAlone'
  BY <1>1 DEF BusTypeOK, OneRowEach, MarkKeptIfAlone, RowOf
<1>4. MarksArePublished' /\ OpenMarksOverlap' /\ OpenMarksSeeAll'
  BY <1>1, <1>2 DEF MarksArePublished, OpenMarksOverlap, OpenMarksSeeAll, Published
<1>5. QED
  BY <1>3, <1>4

LEMMA NextMarks ==
  ASSUME MarkInv, [BusNext]_busVars
  PROVE  MarkInv'
<1>1. CASE UNCHANGED busVars
  BY <1>1 DEF busVars, MarkInv, BusTypeOK, OneRowEach, MarksArePublished, OpenMarksOverlap,
         OpenMarksSeeAll, MarkKeptIfAlone, Published, RowOf
<1>2. QED
  BY <1>1, PublishKeeps, MarkReadsKeeps, MarkWritesKeeps, MarkDiesKeeps DEF BusNext

\* A mark that returned stays in its event's list unless another mark of the
\* event overlapped it, for any number of consumers and events (MarkKeptIfAlone).
THEOREM MarksAreKept == BusSpec => []MarkKeptIfAlone
<1>1. BusInit => MarkInv
  BY InitMarks
<1>2. MarkInv /\ [BusNext]_busVars => MarkInv'
  BY NextMarks
<1>3. MarkInv => MarkKeptIfAlone
  BY DEF MarkInv
<1>4. QED
  BY <1>1, <1>2, <1>3, PTL DEF BusSpec

------------------------------------------------------------------------------
(* The version history.                                                      *)

\* The parts of the type invariant, for proofs that need one of them.
CurrentTyped == Registered \subseteq Artifacts /\ current \in [Registered -> Numbers]
RowsTyped == versions \subseteq Rows /\ nextId \in Nat
AddingTyped ==
  /\ adding \in [Writers -> Adding \union {Ready}]
  /\ \A w \in Writers : adding[w] # Ready => adding[w].artifact \in Registered
AddedTyped == added \subseteq Artifacts \X Numbers \X Contents /\ raced \subseteq Artifacts

LEMMA VerTypeParts == VerTypeOK <=> CurrentTyped /\ RowsTyped /\ AddingTyped /\ AddedTyped
  BY DEF VerTypeOK, CurrentTyped, RowsTyped, AddingTyped, AddedTyped

\* What an adding writer holds is no Ready record.
LEMMA NotReady ==
  ASSUME VerTypeOK, NEW w \in Writers, adding[w] # Ready
  PROVE  /\ adding[w] \in Adding
         /\ adding[w].artifact \in Artifacts /\ adding[w].artifact \in Registered
         /\ adding[w].version \in Numbers /\ adding[w].content \in Contents
  BY DEF VerTypeOK, Adding, Registered

LEMMA WithArtifactTyped ==
  ASSUME VerTypeOK, NEW a \in Artifacts
  PROVE  /\ DOMAIN WithArtifact(a) = Registered \union {a}
         /\ WithArtifact(a) \in [Registered \union {a} -> Numbers]
         /\ \A b \in Registered : WithArtifact(a)[b] = current[b]
         /\ a \notin Registered => WithArtifact(a)[a] = <<0, 0>>
         /\ WithArtifact(a)[a] \in Numbers
<1>1. current \in [Registered -> Numbers]
  BY DEF VerTypeOK
<1>2. <<0, 0>> \in Numbers
  BY DEF Numbers
<1>3. QED
  BY <1>1, <1>2 DEF WithArtifact, Registered

LEMMA NextVersionTyped ==
  ASSUME NEW v \in Numbers, NEW major \in BOOLEAN
  PROVE  NextVersion(v, major) \in Numbers
  BY DEF Numbers, NextVersion

LEMMA InitVerTypes == VerInit => VerTypeOK
<1> SUFFICES ASSUME VerInit PROVE VerTypeOK
  OBVIOUS
<1>1. DOMAIN current = {}
  BY DEF VerInit
<1>2. current \in [Registered -> Numbers]
  BY <1>1 DEF Registered, VerInit
<1>3. QED
  BY <1>1, <1>2 DEF VerInit, VerTypeOK, Registered, Adding

LEMMA NextVerTypes == VerTypeOK /\ [VerNext]_verVars => VerTypeOK'
<1> SUFFICES ASSUME VerTypeOK, [VerNext]_verVars PROVE VerTypeOK'
  OBVIOUS
<1>1. ASSUME NEW a \in Artifacts, Register(a) PROVE VerTypeOK'
  <2>1. CurrentTyped'
    <3>1. current' = WithArtifact(a)
      BY <1>1 DEF Register
    <3>2. /\ Registered' = Registered \union {a}
          /\ current' \in [Registered \union {a} -> Numbers]
      BY <3>1, WithArtifactTyped DEF Registered
    <3>3. QED
      BY <3>2 DEF CurrentTyped, VerTypeOK
  <2>2. AddingTyped'
    <3>1. UNCHANGED adding /\ Registered' = Registered \union {a}
      BY <1>1, WithArtifactTyped DEF Register, Registered
    <3>2. QED
      BY <3>1 DEF AddingTyped, VerTypeOK
  <2>3. RowsTyped' /\ AddedTyped'
    BY <1>1 DEF Register, RowsTyped, AddedTyped, VerTypeOK
  <2>4. QED
    BY <2>1, <2>2, <2>3 DEF VerTypeOK, CurrentTyped, RowsTyped, AddingTyped, AddedTyped, Registered
<1>2. ASSUME NEW w \in Writers, NEW a \in Artifacts, NEW c \in Contents,
             NEW major \in BOOLEAN, AddReads(w, a, c, major)
      PROVE  VerTypeOK'
  <2>1. CurrentTyped'
    <3>1. current' = WithArtifact(a)
      BY <1>2 DEF AddReads
    <3>2. /\ DOMAIN WithArtifact(a) = DOMAIN current \union {a}
          /\ WithArtifact(a) \in [DOMAIN current \union {a} -> Numbers]
      BY WithArtifactTyped DEF Registered
    <3>3. DOMAIN current \subseteq Artifacts
      BY DEF VerTypeOK, Registered
    <3>4. QED
      BY <3>1, <3>2, <3>3 DEF CurrentTyped, Registered
  <2>2. AddingTyped'
    <3> DEFINE o == [kind |-> "add", artifact |-> a, content |-> c,
                     version |-> NextVersion(WithArtifact(a)[a], major)]
    <3>1. o \in Adding
      BY WithArtifactTyped, NextVersionTyped DEF Adding
    <3>2. adding' = [adding EXCEPT ![w] = o] /\ current' = WithArtifact(a)
      BY <1>2 DEF AddReads
    <3> HIDE DEF o
    <3>3. adding' \in [Writers -> Adding \union {Ready}]
      BY <3>1, <3>2 DEF VerTypeOK
    <3>4. o.artifact = a
      BY DEF o
    <3>5. \A x \in Writers : adding'[x] # Ready => adding'[x].artifact \in Registered'
      BY <3>2, <3>4, WithArtifactTyped DEF VerTypeOK, Registered
    <3>6. QED
      BY <3>3, <3>5 DEF AddingTyped
  <2>3. RowsTyped' /\ AddedTyped'
    BY <1>2 DEF AddReads, RowsTyped, AddedTyped, VerTypeOK
  <2>4. QED
    BY <2>1, <2>2, <2>3 DEF VerTypeOK, CurrentTyped, RowsTyped, AddingTyped, AddedTyped, Registered
<1>3. ASSUME NEW w \in Writers, AddWrites(w) PROVE VerTypeOK'
  <2> DEFINE o == adding[w]
             newRow == [artifact |-> o.artifact, version |-> o.version,
                     content |-> o.content, id |-> nextId]
  <2>1. /\ o \in Adding /\ o.artifact \in Registered /\ o.artifact \in Artifacts
        /\ o.version \in Numbers /\ o.content \in Contents
    BY <1>3, NotReady DEF AddWrites
  <2>2. newRow \in Rows
    BY <2>1 DEF Rows, VerTypeOK
  <2>3. /\ versions' = Replaced(newRow) /\ nextId' = nextId + 1
        /\ current' = [current EXCEPT ![o.artifact] = o.version]
        /\ adding' = [adding EXCEPT ![w] = Ready]
        /\ added' = added \union {<<o.artifact, o.version, o.content>>}
        /\ raced' = raced
    BY <1>3 DEF AddWrites
  <2> HIDE DEF o, newRow
  <2>4. RowsTyped'
    BY <2>2, <2>3 DEF Replaced, RowsTyped, VerTypeOK
  <2>5. CurrentTyped'
    BY <2>1, <2>3 DEF CurrentTyped, Registered, VerTypeOK
  <2>6. AddingTyped'
    BY <2>3 DEF AddingTyped, Registered, VerTypeOK
  <2>7. AddedTyped'
    BY <2>1, <2>3 DEF AddedTyped, VerTypeOK
  <2>8. QED
    BY <2>4, <2>5, <2>6, <2>7 DEF VerTypeOK, CurrentTyped, RowsTyped, AddingTyped, AddedTyped, Registered
<1>4. ASSUME NEW w \in Writers, AddDies(w) PROVE VerTypeOK'
  <2>1. AddingTyped'
    BY <1>4 DEF AddDies, AddingTyped, VerTypeOK, Registered
  <2>2. CurrentTyped' /\ RowsTyped' /\ AddedTyped'
    BY <1>4 DEF AddDies, CurrentTyped, RowsTyped, AddedTyped, VerTypeOK, Registered
  <2>3. QED
    BY <2>1, <2>2 DEF VerTypeOK, CurrentTyped, RowsTyped, AddingTyped, AddedTyped, Registered
<1>5. ASSUME UNCHANGED verVars PROVE VerTypeOK'
  BY <1>5 DEF verVars, VerTypeOK, Registered
<1>6. QED
  BY <1>1, <1>2, <1>3, <1>4, <1>5 DEF VerNext

\* The store's state has its types in every reachable state, whatever the
\* writers do (VerTypeOK).
THEOREM VersionTypes == VerSpec => []VerTypeOK
  BY InitVerTypes, NextVerTypes, PTL DEF VerSpec

-----------------------------------------------------------------------------
(* The current version is the newest newRow's.                                 *)

\* Ids below nextId, and rows of registered artifacts only.
RowsKnown == \A r \in versions : r.id < nextId /\ r.artifact \in Registered

\* No two writers add to an artifact that has not been raced for, the version
\* its writer is about to write is above the current one, and the rows are not.
Above(v, u) == v[1] > u[1] \/ (v[1] = u[1] /\ v[2] > u[2])
OneWriter ==
  \A v, w \in Writers :
    adding[v] # Ready /\ adding[w] # Ready /\ adding[v].artifact = adding[w].artifact
    /\ adding[v].artifact \notin raced => v = w
NextIsNew ==
  \A w \in Writers :
    adding[w] # Ready /\ adding[w].artifact \notin raced =>
      Above(adding[w].version, current[adding[w].artifact])
RowsAreOld ==
  \A r \in versions : r.artifact \notin raced => ~Above(r.version, current[r.artifact])
HistoryInv == OneWriter /\ NextIsNew /\ RowsAreOld /\ HistoryKeptIfAlone

VerInv == VerTypeOK /\ RowsKnown /\ CurrentIsLatest

LEMMA InitVerInv == VerInit => VerInv
<1> SUFFICES ASSUME VerInit PROVE VerInv
  OBVIOUS
<1>1. VerTypeOK
  BY InitVerTypes
<1>2. DOMAIN current = {} /\ versions = {}
  BY DEF VerInit
<1>3. QED
  BY <1>1, <1>2 DEF VerInv, RowsKnown, CurrentIsLatest, Registered

LEMMA NextVerInv == VerInv /\ [VerNext]_verVars => VerInv'
<1> SUFFICES ASSUME VerInv, [VerNext]_verVars PROVE VerInv'
  OBVIOUS
<1>0. VerTypeOK /\ VerTypeOK' /\ RowsKnown /\ CurrentIsLatest
  BY NextVerTypes DEF VerInv
<1>1. ASSUME NEW a \in Artifacts, current' = WithArtifact(a),
             UNCHANGED <<versions, nextId>>
      PROVE  VerInv'
  <2>1. /\ DOMAIN current' = DOMAIN current \union {a}
        /\ \A b \in DOMAIN current : current'[b] = current[b]
        /\ a \notin DOMAIN current => current'[a] = <<0, 0>>
    BY <1>0, <1>1, WithArtifactTyped DEF Registered
  <2>2. RowsKnown'
    BY <1>0, <1>1, <2>1 DEF RowsKnown, Registered
  <2>3. CurrentIsLatest'
    <3> SUFFICES ASSUME NEW b \in DOMAIN current'
                 PROVE  IF RowsOf(b) = {} THEN current'[b] = <<0, 0>>
                        ELSE \E r \in RowsOf(b) :
                               r.version = current'[b] /\ \A s \in RowsOf(b) : s.id <= r.id
      BY <1>1 DEF CurrentIsLatest, RowsOf, Registered
    <3>1. CASE b \in DOMAIN current
      BY <1>0, <2>1, <3>1 DEF CurrentIsLatest, Registered
    <3>2. CASE b \notin DOMAIN current
      <4>1. b = a /\ RowsOf(b) = {}
        BY <1>0, <2>1, <3>2 DEF RowsOf, RowsKnown, Registered
      <4>2. QED
        BY <2>1, <3>2, <4>1
    <3>3. QED
      BY <3>1, <3>2
  <2>4. QED
    BY <1>0, <2>2, <2>3 DEF VerInv
<1>2. ASSUME NEW w \in Writers, AddWrites(w) PROVE VerInv'
  <2> DEFINE o == adding[w]
             newRow == [artifact |-> o.artifact, version |-> o.version,
                     content |-> o.content, id |-> nextId]
  <2>1. o.artifact \in DOMAIN current
    BY <1>0, <1>2, NotReady DEF AddWrites, Registered
  <2>2. /\ versions' = Replaced(newRow) /\ nextId' = nextId + 1 /\ nextId \in Nat
        /\ current' = [current EXCEPT ![o.artifact] = o.version]
    BY <1>0, <1>2 DEF AddWrites, VerTypeOK
  <2>3. newRow.artifact = o.artifact /\ newRow.version = o.version /\ newRow.id = nextId
    OBVIOUS
  <2>4. \A r \in versions : r.id \in Nat /\ r.id < nextId /\ r.artifact \in DOMAIN current
    BY <1>0 DEF RowsKnown, VerTypeOK, Rows, Registered
  <2>5. DOMAIN current' = DOMAIN current /\ current'[o.artifact] = o.version
        /\ \A b \in DOMAIN current \ {o.artifact} : current'[b] = current[b]
    BY <1>0, <2>1, <2>2 DEF VerTypeOK, Registered
  <2> HIDE DEF o, newRow
  <2>6. RowsKnown'
    BY <2>1, <2>2, <2>3, <2>4, <2>5 DEF RowsKnown, Replaced, Registered
  <2>7. CurrentIsLatest'
    <3> SUFFICES ASSUME NEW b \in DOMAIN current'
                 PROVE  IF RowsOf(b)' = {} THEN current'[b] = <<0, 0>>
                        ELSE \E r \in RowsOf(b)' :
                               r.version = current'[b] /\ \A s \in RowsOf(b)' : s.id <= r.id
      BY DEF CurrentIsLatest, Registered
    <3>1. CASE b = o.artifact
      <4>1. newRow \in RowsOf(b)'
        BY <2>2, <2>3, <3>1 DEF Replaced, RowsOf
      <4>2. \A s \in RowsOf(b)' : s.id <= newRow.id
        BY <2>2, <2>3, <2>4 DEF Replaced, RowsOf
      <4>3. QED
        BY <2>3, <2>5, <3>1, <4>1, <4>2
    <3>2. CASE b # o.artifact
      <4>1. RowsOf(b)' = RowsOf(b)
        BY <2>2, <2>3, <3>2 DEF Replaced, RowsOf
      <4>2. b \in DOMAIN current /\ current'[b] = current[b]
        BY <2>5, <3>2
      <4>3. QED
        BY <1>0, <4>1, <4>2 DEF CurrentIsLatest, Registered
    <3>3. QED
      BY <3>1, <3>2
  <2>8. QED
    BY <1>0, <2>6, <2>7 DEF VerInv
<1>3. ASSUME UNCHANGED <<current, versions, nextId>> PROVE VerInv'
  BY <1>0, <1>3 DEF VerInv, RowsKnown, CurrentIsLatest, RowsOf, Registered
<1>4. QED
  BY <1>1, <1>2, <1>3 DEF VerNext, Register, AddReads, AddDies, verVars

\* The current version of a document is that of its newest newRow, however many
\* writers interleave in add_version (CurrentIsLatest).
THEOREM CurrentFollowsHistory == VerSpec => []CurrentIsLatest
<1>1. VerInv => CurrentIsLatest
  BY DEF VerInv
<1>2. QED
  BY <1>1, InitVerInv, NextVerInv, PTL DEF VerSpec

-----------------------------------------------------------------------------
(* No version is lost where writers do not race.                            *)

LEMMA NextIsAbove ==
  ASSUME NEW v \in Numbers, NEW major \in BOOLEAN
  PROVE  Above(NextVersion(v, major), v)
  BY DEF Numbers, NextVersion, Above

LEMMA InitHistory == VerInit => HistoryInv
  BY DEF VerInit, HistoryInv, OneWriter, NextIsNew, RowsAreOld, HistoryKeptIfAlone

LEMMA NextHistory == VerInv /\ HistoryInv /\ [VerNext]_verVars => HistoryInv'
<1> SUFFICES ASSUME VerInv, HistoryInv, [VerNext]_verVars PROVE HistoryInv'
  OBVIOUS
<1>0. /\ VerTypeOK /\ RowsKnown
      /\ OneWriter /\ NextIsNew /\ RowsAreOld /\ HistoryKeptIfAlone
  BY DEF VerInv, HistoryInv
<1>1. ASSUME NEW a \in Artifacts, current' = WithArtifact(a), versions' = versions
      PROVE  /\ \A b \in DOMAIN current : b \in DOMAIN current' /\ current'[b] = current[b]
             /\ \A r \in versions : r.artifact \in DOMAIN current
             /\ \A r \in versions : r.artifact \notin raced =>
                   ~Above(r.version, current'[r.artifact])
  <2>1. \A b \in DOMAIN current : b \in DOMAIN current' /\ current'[b] = current[b]
    BY <1>0, <1>1, WithArtifactTyped DEF Registered
  <2>2. \A r \in versions : r.artifact \in DOMAIN current
    BY <1>0 DEF RowsKnown, Registered
  <2>3. QED
    BY <1>0, <2>1, <2>2 DEF RowsAreOld
<1>2. ASSUME NEW a \in Artifacts, Register(a) PROVE HistoryInv'
  <2>1. UNCHANGED <<versions, adding, added, raced>> /\ current' = WithArtifact(a)
    BY <1>2 DEF Register
  <2>2. RowsAreOld'
    BY <1>1, <2>1 DEF RowsAreOld
  <2>3. \A w \in Writers : adding[w] # Ready => adding[w].artifact \in DOMAIN current
    BY <1>0 DEF VerTypeOK, Registered
  <2>4. NextIsNew'
    BY <1>0, <1>1, <2>1, <2>3 DEF NextIsNew
  <2>5. OneWriter' /\ HistoryKeptIfAlone'
    BY <1>0, <2>1 DEF OneWriter, HistoryKeptIfAlone
  <2>6. QED
    BY <2>2, <2>4, <2>5 DEF HistoryInv
<1>3. ASSUME NEW w \in Writers, NEW a \in Artifacts, NEW c \in Contents,
             NEW major \in BOOLEAN, AddReads(w, a, c, major)
      PROVE  HistoryInv'
  <2> DEFINE o == [kind |-> "add", artifact |-> a, content |-> c,
                   version |-> NextVersion(WithArtifact(a)[a], major)]
  <2>1. /\ adding' = [adding EXCEPT ![w] = o] /\ current' = WithArtifact(a)
        /\ raced' = IF AddingTo(a) = {} THEN raced ELSE raced \union {a}
        /\ UNCHANGED <<versions, added>> /\ adding \in [Writers -> Adding \union {Ready}]
    BY <1>0, <1>3 DEF AddReads, VerTypeOK
  <2>2. o.artifact = a /\ Above(o.version, current'[a])
    BY <1>0, <2>1, WithArtifactTyped, NextIsAbove
  <2> HIDE DEF o
  <2>3. adding'[w] = o /\ \A v \in Writers \ {w} : adding'[v] = adding[v]
    BY <2>1
  <2>4. raced \subseteq raced'
    BY <2>1
  <2>5. \A v \in Writers \ {w} :
          adding[v] # Ready /\ adding[v].artifact = a => a \in raced'
    BY <2>1 DEF AddingTo
  <2>6. OneWriter'
    BY <1>0, <2>2, <2>3, <2>4, <2>5 DEF OneWriter
  <2>7. \A v \in Writers : adding[v] # Ready => adding[v].artifact \in DOMAIN current
    BY <1>0 DEF VerTypeOK, Registered
  <2>8. NextIsNew'
    BY <1>0, <1>1, <2>1, <2>2, <2>3, <2>4, <2>7 DEF NextIsNew
  <2>9. RowsAreOld'
    BY <1>1, <2>1, <2>4 DEF RowsAreOld
  <2>10. HistoryKeptIfAlone'
    BY <1>0, <2>1, <2>4 DEF HistoryKeptIfAlone
  <2>11. QED
    BY <2>6, <2>8, <2>9, <2>10 DEF HistoryInv
<1>4. ASSUME NEW w \in Writers, AddWrites(w) PROVE HistoryInv'
  <2> DEFINE o == adding[w]
             newRow == [artifact |-> o.artifact, version |-> o.version,
                     content |-> o.content, id |-> nextId]
  <2>1. /\ o.artifact \in DOMAIN current /\ o # Ready
    BY <1>0, <1>4, NotReady DEF AddWrites, Registered
  <2>2. /\ versions' = Replaced(newRow) /\ raced' = raced
        /\ current' = [current EXCEPT ![o.artifact] = o.version]
        /\ adding' = [adding EXCEPT ![w] = Ready]
        /\ added' = added \union {<<o.artifact, o.version, o.content>>}
    BY <1>4 DEF AddWrites
  <2>3. /\ newRow.artifact = o.artifact /\ newRow.version = o.version /\ newRow.content = o.content
    OBVIOUS
  <2>4. current'[o.artifact] = o.version
        /\ \A b \in DOMAIN current \ {o.artifact} : current'[b] = current[b]
    BY <1>0, <2>1, <2>2 DEF VerTypeOK, Registered
  <2>5. adding'[w] = Ready /\ \A v \in Writers \ {w} : adding'[v] = adding[v]
    BY <1>0, <2>2 DEF VerTypeOK
  <2>6. o.version \in Numbers /\ current[o.artifact] \in Numbers
        /\ \A r \in versions : r.version \in Numbers
    BY <1>0, <1>4, <2>1, NotReady DEF AddWrites, VerTypeOK, Rows, Registered
  <2>7. o.artifact \notin raced => Above(o.version, current[o.artifact])
    BY <1>0, <2>1 DEF NextIsNew
  <2>8. o.artifact \notin raced =>
          \A v \in Writers \ {w} : adding[v] # Ready => adding[v].artifact # o.artifact
    BY <1>0, <2>1 DEF OneWriter
  <2>9. \A r \in versions : r.artifact \in DOMAIN current
    BY <1>0 DEF RowsKnown, Registered
  <2>10. \A v \in Writers : adding[v] # Ready => adding[v].artifact \in DOMAIN current
    BY <1>0 DEF VerTypeOK, Registered
  <2> HIDE DEF o, newRow
  <2>11. OneWriter'
    BY <1>0, <2>2, <2>5 DEF OneWriter
  <2>12. NextIsNew'
    BY <1>0, <2>2, <2>4, <2>5, <2>8, <2>10 DEF NextIsNew
  <2>13. \A r \in versions : r.artifact = o.artifact /\ r.artifact \notin raced =>
           ~Above(r.version, o.version) /\ r.version # o.version
    <3> SUFFICES ASSUME NEW r \in versions, r.artifact = o.artifact, r.artifact \notin raced
                 PROVE  ~Above(r.version, o.version) /\ r.version # o.version
      OBVIOUS
    <3>1. ~Above(r.version, current[o.artifact])
      BY <1>0 DEF RowsAreOld
    <3>2. QED
      BY <2>6, <2>7, <3>1 DEF Above, Numbers
  <2>14. ~Above(o.version, o.version)
    BY <2>6 DEF Above, Numbers
  <2>15. RowsAreOld'
    <3> SUFFICES ASSUME NEW r \in versions', r.artifact \notin raced
                 PROVE  ~Above(r.version, current'[r.artifact])
      BY <2>2 DEF RowsAreOld
    <3>1. CASE r = newRow
      BY <2>3, <2>4, <2>14, <3>1
    <3>2. CASE r \in versions /\ r.artifact = o.artifact
      BY <2>4, <2>13, <3>2
    <3>3. CASE r \in versions /\ r.artifact # o.artifact
      BY <1>0, <2>4, <2>9, <3>3 DEF RowsAreOld
    <3>4. QED
      BY <2>2, <3>1, <3>2, <3>3 DEF Replaced
  <2>16. HistoryKeptIfAlone'
    <3> SUFFICES ASSUME NEW e \in added', e[1] \notin raced
                 PROVE  \E r \in versions' : <<r.artifact, r.version, r.content>> = e
      BY <2>2 DEF HistoryKeptIfAlone
    <3>1. CASE e = <<o.artifact, o.version, o.content>>
      BY <2>2, <2>3, <3>1 DEF Replaced
    <3>2. CASE e \in added
      <4>1. PICK r \in versions : <<r.artifact, r.version, r.content>> = e
        BY <1>0, <3>2 DEF HistoryKeptIfAlone
      <4>2. r.artifact \notin raced
        BY <4>1
      <4>3. <<r.artifact, r.version>> # <<newRow.artifact, newRow.version>>
        BY <2>3, <2>13, <4>2
      <4>4. QED
        BY <2>2, <4>1, <4>3 DEF Replaced
    <3>3. QED
      BY <2>2, <3>1, <3>2
  <2>17. QED
    BY <2>11, <2>12, <2>15, <2>16 DEF HistoryInv
<1>5. ASSUME NEW w \in Writers, AddDies(w) PROVE HistoryInv'
  <2>1. /\ UNCHANGED <<current, versions, added, raced>>
        /\ adding' = [adding EXCEPT ![w] = Ready] /\ adding \in [Writers -> Adding \union {Ready}]
    BY <1>0, <1>5 DEF AddDies, VerTypeOK
  <2>2. QED
    BY <1>0, <2>1 DEF HistoryInv, OneWriter, NextIsNew, RowsAreOld, HistoryKeptIfAlone
<1>6. ASSUME UNCHANGED verVars PROVE HistoryInv'
  BY <1>0, <1>6 DEF verVars, HistoryInv, OneWriter, NextIsNew, RowsAreOld, HistoryKeptIfAlone
<1>7. QED
  BY <1>2, <1>3, <1>4, <1>5, <1>6 DEF VerNext

\* Every version that add_version returned is still in the history with its
\* content, unless writers raced for its artifact (HistoryKeptIfAlone).
THEOREM HistoryComplete == VerSpec => []HistoryKeptIfAlone
<1>1. VerInit => VerInv /\ HistoryInv
  BY InitVerInv, InitHistory
<1>2. VerInv /\ HistoryInv /\ [VerNext]_verVars => (VerInv /\ HistoryInv)'
  BY NextVerInv, NextHistory
<1>3. VerInv /\ HistoryInv => HistoryKeptIfAlone
  BY DEF HistoryInv
<1>4. QED
  BY <1>1, <1>2, <1>3, PTL DEF VerSpec

------------------------------------------------------------------------------
(* The prompt registry.                                                      *)

\* What a row is made of, whether it is there or not.
LEMMA RowShape ==
  ASSUME PromptTypeOK, NEW t \in Texts
  PROVE  /\ row[t] = Absent \/ row[t] \in PromptRows
         /\ ~Known(t) => ~row[t].active /\ row[t].status = "absent"
         /\ Known(t) => row[t].status \in Statuses
  BY DEF PromptTypeOK, PromptRows, Absent, Known, Statuses

LEMMA DoingShape ==
  ASSUME PromptTypeOK, NEW u \in Users
  PROVE  /\ doing[u] # Idle => doing[u] \in Doing
         /\ \A at \in {"scan", "register", "activate", "write"} :
              At(u, at) => doing[u].text \in Texts /\ doing[u] # Idle
  BY DEF PromptTypeOK, Doing, Idle, At

LEMMA NewRowsTyped ==
  /\ [status |-> "active", active |-> TRUE, author |-> "auto-scan"] \in PromptRows
  /\ [status |-> "pending_review", active |-> FALSE, author |-> "human"] \in PromptRows
  BY DEF PromptRows, Statuses

LEMMA InitPromptTypes == PromptInit => PromptTypeOK
  BY PromptAssumption DEF PromptInit, PromptTypeOK, Idle

LEMMA GoTyped ==
  ASSUME PromptTypeOK, NEW u \in Users, NEW t \in Texts,
         NEW at \in {"scan", "register", "activate", "write"}, Go(u, at, t)
  PROVE  doing' \in [Users -> Doing \union {Idle}]
<1>1. [at |-> at, text |-> t] \in Doing
  BY DEF Doing
<1>2. QED
  BY <1>1 DEF Go, PromptTypeOK

LEMMA DoneTyped ==
  ASSUME PromptTypeOK, NEW u \in Users, Done(u)
  PROVE  doing' \in [Users -> Doing \union {Idle}]
  BY DEF Done, PromptTypeOK

LEMMA ActivatedTyped ==
  ASSUME PromptTypeOK, NEW t \in Texts
  PROVE  Activated(t) \in [Texts -> PromptRows \union {Absent}]
<1>1. ASSUME NEW s \in Texts, Known(s)
      PROVE  /\ [row[s] EXCEPT !.active = TRUE, !.status = "active"] \in PromptRows
             /\ [row[s] EXCEPT !.active = FALSE] \in PromptRows
  BY <1>1, RowShape DEF PromptRows, Statuses, Known
<1>2. \A s \in Texts : row[s] \in PromptRows \union {Absent}
  BY DEF PromptTypeOK
<1>3. QED
  BY <1>1, <1>2 DEF Activated

LEMMA NextPromptTypes == PromptTypeOK /\ [PromptNext]_promptVars => PromptTypeOK'
<1> SUFFICES ASSUME PromptTypeOK, [PromptNext]_promptVars PROVE PromptTypeOK'
  OBVIOUS
<1>0. /\ row \in [Texts -> PromptRows \union {Absent}] /\ file \in Texts
      /\ doing \in [Users -> Doing \union {Idle}]
      /\ approved \subseteq Texts /\ edits \in 0..MaxEdits
  BY DEF PromptTypeOK
<1>1. ASSUME NEW t \in Texts, EditFile(t) PROVE PromptTypeOK'
  BY <1>0, <1>1, PromptAssumption DEF EditFile, PromptTypeOK
<1>2. ASSUME NEW u \in Users, ScanReads(u) PROVE PromptTypeOK'
  BY <1>0, <1>2, GoTyped DEF ScanReads, PromptTypeOK
<1>3. ASSUME NEW u \in Users, ScanInserts(u) PROVE PromptTypeOK'
  <2>1. row' \in [Texts -> PromptRows \union {Absent}]
    BY <1>0, <1>3, NewRowsTyped DEF ScanInserts
  <2>2. QED
    BY <1>0, <1>3, <2>1, DoneTyped DEF ScanInserts, PromptTypeOK
<1>4. ASSUME NEW u \in Users, NEW t \in Texts, RegisterReads(u, t) PROVE PromptTypeOK'
  BY <1>0, <1>4, GoTyped DEF RegisterReads, PromptTypeOK
<1>5. ASSUME NEW u \in Users, RegisterInserts(u) PROVE PromptTypeOK'
  <2>1. row' \in [Texts -> PromptRows \union {Absent}]
    BY <1>0, <1>5, NewRowsTyped DEF RegisterInserts
  <2>2. QED
    BY <1>0, <1>5, <2>1, DoneTyped DEF RegisterInserts, PromptTypeOK
<1>6. ASSUME NEW u \in Users, NEW t \in Texts, NEW s \in Statuses \ {"pending_review", "active"},
             Review(u, t, s)
      PROVE PromptTypeOK'
  <2>1. row[t] \in PromptRows
    BY <1>0, <1>6 DEF Review, Known
  <2>2. [row[t] EXCEPT !.status = s] \in PromptRows
    BY <2>1 DEF PromptRows
  <2>3. row' \in [Texts -> PromptRows \union {Absent}]
    BY <1>0, <1>6, <2>2 DEF Review
  <2>4. approved' \subseteq Texts
    BY <1>0, <1>6 DEF Review
  <2>5. QED
    BY <1>0, <1>6, <2>3, <2>4 DEF Review, PromptTypeOK
<1>7. ASSUME NEW u \in Users, NEW t \in Texts, ActivateReads(u, t) PROVE PromptTypeOK'
  BY <1>0, <1>7, GoTyped DEF ActivateReads, PromptTypeOK
<1>8. ASSUME NEW u \in Users, ActivateCommits(u) PROVE PromptTypeOK'
  <2>1. doing[u].text \in Texts
    BY <1>8, DoingShape DEF ActivateCommits
  <2>2. row' \in [Texts -> PromptRows \union {Absent}]
    BY <1>8, <2>1, ActivatedTyped DEF ActivateCommits
  <2>3. doing' \in [Users -> Doing \union {Idle}]
    BY <1>8, <2>1, GoTyped DEF ActivateCommits
  <2>4. QED
    BY <1>0, <1>8, <2>2, <2>3 DEF ActivateCommits, PromptTypeOK
<1>9. ASSUME NEW u \in Users, ActivateWrites(u) PROVE PromptTypeOK'
  <2>1. doing[u].text \in Texts
    BY <1>9, DoingShape DEF ActivateWrites
  <2>2. QED
    BY <1>0, <1>9, <2>1, DoneTyped DEF ActivateWrites, PromptTypeOK
<1>10. ASSUME NEW u \in Users, Dies(u) PROVE PromptTypeOK'
  BY <1>0, <1>10, DoneTyped DEF Dies, PromptTypeOK
<1>11. CASE UNCHANGED promptVars
  BY <1>0, <1>11 DEF promptVars, PromptTypeOK
<1>12. QED
  BY <1>1, <1>2, <1>3, <1>4, <1>5, <1>6, <1>7, <1>8, <1>9, <1>10, <1>11 DEF PromptNext

\* The registry's state has its types in every reachable state (PromptTypeOK).
THEOREM PromptTypes == PromptSpec => []PromptTypeOK
  BY InitPromptTypes, NextPromptTypes, PTL DEF PromptSpec

-----------------------------------------------------------------------------
(* Reviews.                                                                  *)

\* What excuses an active version.
Excused(t) == t \in approved \/ row[t].author = "auto-scan"

RowsExcused ==
  \A t \in Texts : row[t].active \/ row[t].status \in {"approved", "active"} => Excused(t)
ActivationsExcused ==
  \A u \in Users : doing[u].at \in {"activate", "write"} =>
    doing[u].text \in Texts /\ Known(doing[u].text) /\ Excused(doing[u].text)

ReviewInv == PromptTypeOK /\ RowsExcused /\ ActivationsExcused

\* No step takes a row away, changes its author or withdraws an approval.
LEMMA RowsRemember ==
  ASSUME PromptTypeOK, [PromptNext]_promptVars, NEW t \in Texts
  PROVE  /\ approved \subseteq approved'
         /\ Known(t) => row'[t] # Absent /\ row'[t].author = row[t].author
<1>0. row \in [Texts -> PromptRows \union {Absent}]
  BY DEF PromptTypeOK
<1>1. ASSUME UNCHANGED row, UNCHANGED approved
      PROVE  approved \subseteq approved' /\ (Known(t) => row'[t] # Absent /\ row'[t].author = row[t].author)
  BY <1>1 DEF Known
<1>2. ASSUME NEW u \in Users, ScanInserts(u) \/ RegisterInserts(u)
      PROVE  approved \subseteq approved' /\ (Known(t) => row'[t] # Absent /\ row'[t].author = row[t].author)
  BY <1>0, <1>2 DEF ScanInserts, RegisterInserts, Known
<1>3. ASSUME NEW u \in Users, NEW v \in Texts, NEW s \in Statuses \ {"pending_review", "active"},
             Review(u, v, s)
      PROVE  approved \subseteq approved' /\ (Known(t) => row'[t] # Absent /\ row'[t].author = row[t].author)
  <2>1. approved \subseteq approved'
    BY <1>3 DEF Review
  <2>2. CASE t # v
    BY <1>0, <1>3, <2>1, <2>2 DEF Review, Known
  <2>3. CASE t = v
    <3>1. row[t] \in PromptRows /\ row'[t] = [row[t] EXCEPT !.status = s]
      BY <1>0, <1>3, <2>3 DEF Review, Known
    <3>2. row'[t].status # "absent" /\ row'[t].author = row[t].author
      BY <3>1 DEF PromptRows, Statuses
    <3>3. QED
      BY <2>1, <3>2 DEF Absent
  <2>4. QED
    BY <2>2, <2>3
<1>4. ASSUME NEW u \in Users, ActivateCommits(u)
      PROVE  approved \subseteq approved' /\ (Known(t) => row'[t] # Absent /\ row'[t].author = row[t].author)
  <2>1. approved' = approved /\ row' = Activated(doing[u].text)
    BY <1>4 DEF ActivateCommits
  <2>2. ASSUME Known(t) PROVE row'[t] # Absent /\ row'[t].author = row[t].author
    <3>1. row[t] \in PromptRows
      BY <1>0, <2>2 DEF Known
    <3>2. \/ row'[t] = [row[t] EXCEPT !.active = TRUE, !.status = "active"]
          \/ row'[t] = [row[t] EXCEPT !.active = FALSE]
      BY <2>1, <2>2 DEF Activated
    <3>3. row'[t].status # "absent" /\ row'[t].author = row[t].author
      BY <3>1, <3>2 DEF PromptRows, Statuses
    <3>4. QED
      BY <3>3 DEF Absent
  <2>3. QED
    BY <2>1, <2>2
<1>5. QED
  BY <1>1, <1>2, <1>3, <1>4 DEF PromptNext, EditFile, ScanReads, RegisterReads, ActivateReads,
     ActivateWrites, Dies, promptVars

LEMMA ExcusesRemembered ==
  ASSUME PromptTypeOK, [PromptNext]_promptVars, NEW t \in Texts, Known(t), Excused(t)
  PROVE  Known(t)' /\ Excused(t)'
  BY RowsRemember DEF Known, Excused

LEMMA InitReview == PromptInit => ReviewInv
<1>1. PromptInit => RowsExcused /\ ActivationsExcused
  BY DEF PromptInit, RowsExcused, ActivationsExcused, Absent, Idle
<1>2. QED
  BY <1>1, InitPromptTypes DEF ReviewInv

LEMMA NextRowsExcused ==
  ASSUME ReviewInv, [PromptNext]_promptVars
  PROVE  RowsExcused'
<1>0. /\ PromptTypeOK /\ RowsExcused /\ ActivationsExcused
      /\ row \in [Texts -> PromptRows \union {Absent}]
  BY DEF ReviewInv, PromptTypeOK
<1> SUFFICES ASSUME NEW t \in Texts,
                    row'[t].active \/ row'[t].status \in {"approved", "active"}
             PROVE  t \in approved' \/ row'[t].author = "auto-scan"
  BY DEF RowsExcused, Excused
<1>1. ASSUME row'[t] = row[t] PROVE t \in approved' \/ row'[t].author = "auto-scan"
  BY <1>0, <1>1, RowsRemember DEF RowsExcused, Excused
<1>2. ASSUME NEW u \in Users, ScanInserts(u)
      PROVE  t \in approved' \/ row'[t].author = "auto-scan"
  <2>1. row'[t] = row[t] \/ row'[t].author = "auto-scan"
    BY <1>0, <1>2 DEF ScanInserts
  <2>2. QED
    BY <1>1, <2>1
<1>3. ASSUME NEW u \in Users, RegisterInserts(u)
      PROVE  t \in approved' \/ row'[t].author = "auto-scan"
  <2>1. \/ row'[t] = row[t]
        \/ row'[t] = [status |-> "pending_review", active |-> FALSE, author |-> "human"]
    BY <1>0, <1>3 DEF RegisterInserts
  <2>2. QED
    BY <1>1, <2>1
<1>4. ASSUME NEW u \in Users, NEW v \in Texts, NEW s \in Statuses \ {"pending_review", "active"},
             Review(u, v, s)
      PROVE  t \in approved' \/ row'[t].author = "auto-scan"
  <2>1. CASE t # v
    BY <1>0, <1>1, <1>4, <2>1 DEF Review
  <2>2. CASE t = v
    <3>1. row[t] \in PromptRows /\ row'[t] = [row[t] EXCEPT !.status = s]
      BY <1>0, <1>4, <2>2 DEF Review, Known
    <3>2. row'[t].active = row[t].active /\ row'[t].status = s /\ row'[t].author = row[t].author
      BY <3>1 DEF PromptRows
    <3>3. CASE s = "approved"
      BY <1>4, <2>2, <3>3 DEF Review
    <3>4. CASE s # "approved"
      BY <1>0, <3>2, <3>4, RowsRemember DEF RowsExcused, Excused
    <3>5. QED
      BY <3>3, <3>4
  <2>3. QED
    BY <2>1, <2>2
<1>5. ASSUME NEW u \in Users, ActivateCommits(u)
      PROVE  t \in approved' \/ row'[t].author = "auto-scan"
  <2>1. doing[u].at = "activate" /\ row' = Activated(doing[u].text)
    BY <1>5 DEF ActivateCommits, At
  <2>2. CASE ~Known(t)
    BY <1>1, <2>1, <2>2 DEF Activated
  <2>3. CASE Known(t) /\ t = doing[u].text
    BY <1>0, <2>1, <2>3, ExcusesRemembered DEF ActivationsExcused, Excused
  <2>4. CASE Known(t) /\ t # doing[u].text
    <3>1. row[t] \in PromptRows /\ row'[t] = [row[t] EXCEPT !.active = FALSE]
      BY <1>0, <2>1, <2>4 DEF Activated, Known
    <3>2. row'[t].status = row[t].status /\ ~row'[t].active
      BY <3>1 DEF PromptRows
    <3>3. QED
      BY <1>0, <2>4, <3>2, ExcusesRemembered DEF RowsExcused, Excused
  <2>5. QED
    BY <2>2, <2>3, <2>4
<1>6. QED
  BY <1>1, <1>2, <1>3, <1>4, <1>5 DEF PromptNext, EditFile, ScanReads, RegisterReads,
     ActivateReads, ActivateWrites, Dies, promptVars

LEMMA NextActivationsExcused ==
  ASSUME ReviewInv, [PromptNext]_promptVars
  PROVE  ActivationsExcused'
<1>0. /\ PromptTypeOK /\ RowsExcused /\ ActivationsExcused
      /\ doing \in [Users -> Doing \union {Idle}]
  BY DEF ReviewInv, PromptTypeOK
<1> DEFINE Still(t) == /\ t \in Texts /\ row'[t] # Absent
                       /\ t \in approved' \/ row'[t].author = "auto-scan"
<1> SUFFICES ASSUME NEW u \in Users, doing'[u].at \in {"activate", "write"}
             PROVE  Still(doing'[u].text)
  BY DEF ActivationsExcused, Known, Excused
<1>1. ASSUME doing[u].at \in {"activate", "write"}, doing'[u].text = doing[u].text
      PROVE  Still(doing'[u].text)
  BY <1>0, <1>1, RowsRemember DEF ActivationsExcused, Known, Excused
<1>2. ASSUME NEW t \in Texts, ActivateReads(u, t)
      PROVE  Still(doing'[u].text)
  <2>1. Known(t) /\ Excused(t)
    BY <1>0, <1>2 DEF ActivateReads, MayActivate, RowsExcused
  <2>2. doing'[u].text = t
    BY <1>0, <1>2 DEF ActivateReads, Go
  <2>3. QED
    BY <1>0, <2>1, <2>2, RowsRemember DEF Known, Excused
<1>3. ASSUME ActivateCommits(u)
      PROVE  doing[u].at \in {"activate", "write"} /\ doing'[u].text = doing[u].text
  BY <1>0, <1>3 DEF ActivateCommits, At, Go
<1>4. ASSUME doing'[u] # doing[u], ~ActivateCommits(u), \A t \in Texts : ~ActivateReads(u, t)
      PROVE  FALSE
  BY <1>0, <1>4 DEF PromptNext, EditFile, ScanReads, ScanInserts, RegisterReads, RegisterInserts,
     Review, ActivateReads, ActivateCommits, ActivateWrites, Dies, promptVars, Go, Done, Idle
<1>5. QED
  BY <1>1, <1>2, <1>3, <1>4

LEMMA InductiveReview == PromptSpec => []ReviewInv
<1>1. ReviewInv /\ [PromptNext]_promptVars => ReviewInv'
  BY NextPromptTypes, NextRowsExcused, NextActivationsExcused DEF ReviewInv
<1>2. QED
  BY <1>1, InitReview, PTL DEF PromptSpec

\* An active version that was registered was approved, whoever registers,
\* reviews, activates, edits and dies meanwhile (RegisteredIsApproved).
THEOREM RegisteredActiveIsApproved == PromptSpec => []RegisteredIsApproved
<1>1. ReviewInv => RegisteredIsApproved
  BY DEF ReviewInv, RowsExcused, Excused, RegisteredIsApproved
<1>2. QED
  BY <1>1, InductiveReview, PTL

-----------------------------------------------------------------------------
(* Activations.                                                              *)

\* What a step does to the active versions: the commit of an activation makes
\* its version the only one, and no other step takes one away.
LEMMA ActiveAfter ==
  ASSUME ReviewInv, [PromptNext]_promptVars
  PROVE  \/ \E u \in Users :
              /\ ActivateCommits(u)
              /\ doing[u].text \in Texts
              /\ \A t \in Texts : row'[t].active <=> t = doing[u].text
         \/ /\ \A u \in Users : ~ActivateCommits(u)
            /\ \A t \in Texts : row[t].active => row'[t].active
            /\ \A t \in Texts :
                 row'[t].active => row[t].active \/ row'[t].author = "auto-scan"
<1>0. /\ PromptTypeOK /\ ActivationsExcused
      /\ row \in [Texts -> PromptRows \union {Absent}]
  BY DEF ReviewInv, PromptTypeOK
<1> DEFINE Grows == /\ \A t \in Texts : row[t].active => row'[t].active
                    /\ \A t \in Texts :
                         row'[t].active => row[t].active \/ row'[t].author = "auto-scan"
<1>1. ASSUME NEW u \in Users, ActivateCommits(u)
      PROVE  doing[u].text \in Texts /\ \A t \in Texts : row'[t].active <=> t = doing[u].text
  <2>1. /\ doing[u].at = "activate" /\ row' = Activated(doing[u].text)
        /\ doing[u].text \in Texts /\ Known(doing[u].text)
    BY <1>0, <1>1 DEF ActivateCommits, At, ActivationsExcused
  <2>2. ASSUME NEW t \in Texts PROVE row'[t].active <=> t = doing[u].text
    <3>1. CASE ~Known(t)
      <4>1. row'[t] = Absent
        BY <2>1, <3>1 DEF Activated, Known
      <4>2. ~row'[t].active
        BY <4>1 DEF Absent
      <4>3. t # doing[u].text
        BY <2>1, <3>1
      <4>4. QED
        BY <4>2, <4>3
    <3>2. CASE Known(t)
      <4>1. row[t] \in PromptRows
        BY <1>0, <3>2 DEF Known
      <4>2. row'[t] = IF t = doing[u].text
                      THEN [row[t] EXCEPT !.active = TRUE, !.status = "active"]
                      ELSE [row[t] EXCEPT !.active = FALSE]
        BY <2>1, <3>2 DEF Activated
      <4>3. QED
        BY <4>1, <4>2 DEF PromptRows
    <3>3. QED
      BY <3>1, <3>2
  <2>3. QED
    BY <2>1, <2>2
<1>2. ASSUME NEW u \in Users, ScanInserts(u) \/ RegisterInserts(u) PROVE Grows
  <2>1. \A t \in Texts :
          \/ row'[t] = row[t]
          \/ /\ row[t] = Absent
             /\ \/ row'[t] = [status |-> "active", active |-> TRUE, author |-> "auto-scan"]
                \/ row'[t] = [status |-> "pending_review", active |-> FALSE, author |-> "human"]
    BY <1>0, <1>2 DEF ScanInserts, RegisterInserts, Known
  <2>2. QED
    BY <2>1 DEF Absent
<1>3. ASSUME NEW u \in Users, NEW v \in Texts, NEW s \in Statuses \ {"pending_review", "active"},
             Review(u, v, s)
      PROVE  Grows
  <2>1. row[v] \in PromptRows /\ row' = [row EXCEPT ![v].status = s]
    BY <1>0, <1>3 DEF Review, Known
  <2>2. \A t \in Texts : row'[t].active = row[t].active
    <3> SUFFICES ASSUME NEW t \in Texts PROVE row'[t].active = row[t].active
      OBVIOUS
    <3>1. CASE t = v
      BY <1>0, <2>1, <3>1 DEF PromptRows
    <3>2. CASE t # v
      BY <1>0, <2>1, <3>2
    <3>3. QED
      BY <3>1, <3>2
  <2>3. QED
    BY <2>2
<1>4. ASSUME UNCHANGED row PROVE Grows
  BY <1>4
<1>5. (\E u \in Users : ActivateCommits(u)) \/ Grows
  BY <1>2, <1>3, <1>4 DEF PromptNext, EditFile, ScanReads, RegisterReads, ActivateReads,
     ActivateWrites, Dies, promptVars
<1> HIDE DEF Grows
<1>6. CASE \E u \in Users : ActivateCommits(u)
  BY <1>1, <1>6
<1>7. CASE Grows /\ \A u \in Users : ~ActivateCommits(u)
  BY <1>7 DEF Grows
<1>8. QED
  BY <1>5, <1>6, <1>7

\* activate_version never leaves a second active version: of several, all but
\* one were scanned from an edited file (OnlyScansAddActive).
THEOREM SecondActiveIsScanned == PromptSpec => []OnlyScansAddActive
<1>1. PromptInit => OnlyScansAddActive
  BY DEF PromptInit, OnlyScansAddActive, Absent
<1>2. ReviewInv /\ OnlyScansAddActive /\ [PromptNext]_promptVars => OnlyScansAddActive'
  <2> SUFFICES ASSUME ReviewInv, OnlyScansAddActive, [PromptNext]_promptVars,
                      NEW s \in Texts, NEW t \in Texts,
                      row'[s].active, row'[t].active, s # t
               PROVE  "auto-scan" \in {row'[s].author, row'[t].author}
    BY DEF OnlyScansAddActive
  <2>1. PromptTypeOK
    BY DEF ReviewInv
  <2>2. CASE row[s].active /\ row[t].active
    <3>1. Known(s) /\ Known(t)
      BY <2>1, <2>2, RowShape
    <3>2. row'[s].author = row[s].author /\ row'[t].author = row[t].author
      BY <2>1, <3>1, RowsRemember
    <3>3. QED
      BY <2>2, <3>2 DEF OnlyScansAddActive
  <2>3. CASE ~(row[s].active /\ row[t].active)
    BY <2>3, ActiveAfter
  <2>4. QED
    BY <2>2, <2>3
<1>3. QED
  BY <1>1, <1>2, InductiveReview, PTL DEF PromptSpec

\* No step leaves a prompt that has an active version without one
\* (SomeVersionStaysActive).
THEOREM PromptStaysActive == PromptSpec => SomeVersionStaysActive
<1>1. ReviewInv /\ [PromptNext]_promptVars =>
        ((\E t \in Texts : row[t].active) => (\E t \in Texts : row'[t].active))
  BY ActiveAfter
<1>2. QED
  BY <1>1, InductiveReview, PTL DEF PromptSpec, SomeVersionStaysActive

\* While nothing untoward has happened since the last lone activation, one
\* user at most is about to write, an active version; if none is, the file
\* holds one.
TidyInv ==
  ~untidy =>
    /\ \A u, v \in Users : At(u, "write") /\ At(v, "write") => u = v
    /\ \A u \in Users : At(u, "write") => row[doing[u].text].active
    /\ (\A u \in Users : ~At(u, "write")) => row[file].active

LEMMA NextTidy ==
  ASSUME ReviewInv, TidyInv, [PromptNext]_promptVars
  PROVE  TidyInv'
<1>0. /\ PromptTypeOK /\ file \in Texts /\ doing \in [Users -> Doing \union {Idle}]
      /\ \A u \in Users : At(u, "write") => doing[u].text \in Texts
  BY DoingShape DEF ReviewInv, PromptTypeOK
<1> SUFFICES ASSUME ~untidy' PROVE TidyInv'
  BY DEF TidyInv
<1>1. ASSUME NEW u \in Users, ActivateCommits(u) PROVE TidyInv'
  <2>1. /\ doing[u].at = "activate" /\ Activating = {u}
        /\ doing' = [doing EXCEPT ![u] = [at |-> "write", text |-> doing[u].text]]
    BY <1>1, Zenon DEF ActivateCommits, At, Go
  <2>2. \A v \in Users : doing'[v].at = "write" => v = u
    BY <1>0, <2>1 DEF Activating
  <2>3. doing'[u].text = doing[u].text /\ doing'[u].at = "write"
    BY <1>0, <2>1
  <2>4. row'[doing[u].text].active
    BY <1>1, <2>1, ActiveAfter, <1>0 DEF ActivateCommits, At
  <2>5. QED
    BY <2>2, <2>3, <2>4 DEF TidyInv, At
<1>2. ASSUME \A u \in Users : ~ActivateCommits(u)
      PROVE  \A t \in Texts : row[t].active => row'[t].active
  BY <1>2, ActiveAfter
<1>3. ASSUME NEW u \in Users, ActivateWrites(u) PROVE TidyInv'
  <2>1. /\ doing[u].at = "write" /\ file' = doing[u].text /\ row' = row /\ ~untidy
        /\ doing' = [doing EXCEPT ![u] = Idle]
    BY <1>3 DEF ActivateWrites, At, Done
  <2>2. row'[file'].active
    BY <2>1 DEF TidyInv, At
  <2>3. \A v \in Users : doing'[v].at # "write"
    BY <1>0, <2>1 DEF TidyInv, At, Idle
  <2>4. QED
    BY <2>2, <2>3 DEF TidyInv, At
<1>4. ASSUME NEW u \in Users, Dies(u) PROVE TidyInv'
  <2>1. doing' = [doing EXCEPT ![u] = Idle] /\ row' = row /\ file' = file
    BY <1>4 DEF Dies, Done
  <2>2. ~untidy /\ ~At(u, "write")
    BY <1>4, Zenon DEF Dies
  <2>3. \A v \in Users : /\ doing'[v].at = "write" <=> doing[v].at = "write"
                         /\ doing'[v].at = "write" => doing'[v].text = doing[v].text
    BY <1>0, <2>1, <2>2 DEF At, Idle
  <2>4. QED
    BY <2>1, <2>2, <2>3 DEF TidyInv, At
<1>5. ASSUME UNCHANGED <<file, untidy>>, \A u \in Users : ~ActivateCommits(u),
             \A v \in Users : /\ doing'[v].at = "write" <=> doing[v].at = "write"
                              /\ doing'[v].at = "write" => doing'[v].text = doing[v].text
      PROVE  TidyInv'
  BY <1>0, <1>2, <1>5 DEF TidyInv, At
<1>6. ASSUME NEW u \in Users, ScanReads(u) \/ ScanInserts(u) \/ RegisterInserts(u),
             \A v \in Users : ~ActivateCommits(v)
      PROVE  TidyInv'
  BY <1>0, <1>5, <1>6 DEF ScanReads, ScanInserts, RegisterInserts, At, Go, Done, Idle
<1>7. ASSUME NEW u \in Users, NEW t \in Texts, RegisterReads(u, t) \/ ActivateReads(u, t),
             \A v \in Users : ~ActivateCommits(v)
      PROVE  TidyInv'
  BY <1>0, <1>5, <1>7 DEF RegisterReads, ActivateReads, Go, Idle
<1>8. ASSUME UNCHANGED <<file, untidy, doing>>, \A v \in Users : ~ActivateCommits(v)
      PROVE  TidyInv'
  BY <1>5, <1>8
<1>9. \A t \in Texts : ~EditFile(t)
  BY DEF EditFile
<1>10. QED
  BY <1>1, <1>3, <1>4, <1>6, <1>7, <1>8, <1>9 DEF PromptNext, Review, promptVars

\* After an activation that ran alone the file holds the version the registry
\* calls active (FileMatchesActive).
THEOREM FileFollowsActivation == PromptSpec => []FileMatchesActive
<1>1. PromptInit => TidyInv
  BY DEF PromptInit, TidyInv
<1>2. TidyInv => FileMatchesActive
  BY DEF TidyInv, FileMatchesActive, Activating, At
<1>3. QED
  BY <1>1, <1>2, NextTidy, InductiveReview, PTL DEF PromptSpec

------------------------------------------------------------------------------
(* The risk register, whose rows the seeding of the graph writes too.        *)

LEMMA LookShape ==
  ASSUME RiskTypeOK, NEW v \in Reviewers, looking[v] # NotLooking
  PROVE  looking[v] \in Looks
  BY DEF RiskTypeOK

\* Review i of history h is the one of risk r that was committed last.
LastCommitted(h, i, r) ==
  /\ i \in DOMAIN h /\ h[i].risk = r
  /\ \A j \in DOMAIN h : j > i => h[j].risk # r

\* What a review wrote last has the status of the review committed last, and
\* there is one.
RowOfReview ==
  \A r \in Risks : writtenBy[r] = "review" =>
    \E i \in DOMAIN reviews : LastCommitted(reviews, i, r) /\ status[r] = reviews[i].new

RiskInv == RiskTypeOK /\ RowOfReview

LEMMA InitReviews == RiskInit => RiskInv
  BY DEF RiskInit, RiskTypeOK, RowOfReview, RowWriters, RiskInv

LEMMA SeedRisksKeepsReviews ==
  ASSUME RiskInv, SeedRisks
  PROVE  RiskInv'
  BY DEF RiskTypeOK, SeedRisks, Seeded, RiskStatuses, RowOfReview, RowWriters, RiskInv

LEMMA NextReviews ==
  ASSUME RiskInv, [RiskNext]_riskVars
  PROVE  RiskInv'
<1>0. RiskTypeOK /\ RowOfReview
  BY DEF RiskInv
<1>1. CASE SeedRisks
  BY <1>1, SeedRisksKeepsReviews
<1>2. ASSUME NEW r \in Risks, NEW s \in RiskStatuses, UpdateStatus(r, s)
      PROVE  RiskInv'
  <2>1. RiskTypeOK'
    BY <1>0, <1>2 DEF UpdateStatus, RiskTypeOK, RowWriters
  <2>2. RowOfReview'
    BY <1>0, <1>2 DEF UpdateStatus, RiskTypeOK, RowOfReview, LastCommitted
  <2>3. QED
    BY <2>1, <2>2 DEF RiskInv
<1>3. ASSUME NEW v \in Reviewers, NEW r \in Risks, NEW s \in RiskStatuses, ReviewReads(v, r, s)
      PROVE  RiskInv'
  <2>1. RiskTypeOK'
    BY <1>0, <1>3 DEF ReviewReads, RiskTypeOK, Looks
  <2>2. RowOfReview'
    BY <1>0, <1>3 DEF ReviewReads, RowOfReview, LastCommitted
  <2>3. QED
    BY <2>1, <2>2 DEF RiskInv
<1>4. ASSUME NEW v \in Reviewers, ReviewWrites(v)
      PROVE  RiskInv'
  <2> DEFINE o == looking[v]
             n == Len(reviews)
  <2>1. o \in Looks /\ o.risk \in Risks /\ o.new \in RiskStatuses
    BY <1>0, <1>4, LookShape DEF ReviewWrites, Looks
  <2>2. /\ reviews' = Append(reviews, o)
        /\ status' = [status EXCEPT ![o.risk] = o.new]
        /\ writtenBy' = [writtenBy EXCEPT ![o.risk] = "review"]
        /\ looking' = [looking EXCEPT ![v] = NotLooking]
        /\ now' = now
    BY <1>4 DEF ReviewWrites
  <2>3. /\ reviews' \in Seq(Looks) /\ Len(reviews') = n + 1
        /\ reviews'[n + 1] = o
        /\ \A i \in 1..n : reviews'[i] = reviews[i]
    BY <1>0, <2>1, <2>2, AppendProperties DEF RiskTypeOK
  <2>4. RiskTypeOK'
    BY <1>0, <2>1, <2>2, <2>3 DEF RiskTypeOK, RowWriters
  <2>5. DOMAIN reviews = 1..n /\ DOMAIN reviews' = 1..(n + 1) /\ n \in Nat
    BY <1>0, <2>3 DEF RiskTypeOK
  <2> HIDE DEF o, n
  <2>6. ASSUME NEW r \in Risks, writtenBy'[r] = "review"
        PROVE  \E i \in DOMAIN reviews' : LastCommitted(reviews', i, r) /\ status'[r] = reviews'[i].new
    <3>1. CASE r = o.risk
      <4>1. n + 1 \in DOMAIN reviews' /\ LastCommitted(reviews', n + 1, r)
        BY <2>3, <2>5, <3>1 DEF LastCommitted
      <4>2. status'[r] = reviews'[n + 1].new
        BY <1>0, <2>1, <2>2, <2>3, <3>1 DEF RiskTypeOK
      <4>3. QED
        BY <4>1, <4>2
    <3>2. CASE r # o.risk
      <4>1. writtenBy[r] = "review" /\ status'[r] = status[r]
        BY <1>0, <2>1, <2>2, <2>6, <3>2 DEF RiskTypeOK
      <4>2. PICK i \in DOMAIN reviews : LastCommitted(reviews, i, r) /\ status[r] = reviews[i].new
        BY <1>0, <4>1 DEF RowOfReview
      <4>3. LastCommitted(reviews', i, r)
        BY <2>3, <2>5, <3>2, <4>2 DEF LastCommitted
      <4>4. i \in DOMAIN reviews' /\ reviews'[i] = reviews[i]
        BY <2>3, <2>5
      <4>5. QED
        BY <4>1, <4>2, <4>3, <4>4
    <3>3. QED
      BY <3>1, <3>2
  <2>7. QED
    BY <2>4, <2>6 DEF RowOfReview, RiskInv
<1>5. CASE UNCHANGED riskVars
  BY <1>0, <1>5 DEF riskVars, RiskTypeOK, RowOfReview, LastCommitted, RiskInv
<1>6. QED
  BY <1>1, <1>2, <1>3, <1>4, <1>5 DEF RiskNext

\* The last review of the history was committed no later than the last
\* committed one.
LEMMA CommittedSinceLast ==
  ASSUME RiskInv
  PROVE  ReviewStands
<1> SUFFICES ASSUME NEW r \in Risks, NEW i \in DOMAIN reviews, IsLastReview(i, r),
                    writtenBy[r] = "review"
             PROVE  \E j \in i..Len(reviews) : reviews[j].risk = r /\ status[r] = reviews[j].new
  BY DEF ReviewStands
<1>1. PICK j \in DOMAIN reviews : LastCommitted(reviews, j, r) /\ status[r] = reviews[j].new
  BY DEF RiskInv, RowOfReview
<1>2. DOMAIN reviews = 1..Len(reviews) /\ Len(reviews) \in Nat
  BY DEF RiskInv, RiskTypeOK
<1>3. j \in i..Len(reviews)
  BY <1>1, <1>2 DEF LastCommitted, IsLastReview
<1>4. QED
  BY <1>1, <1>3 DEF LastCommitted

\* What a row shows that a review wrote last is no review that was over before
\* the last of the history began to wait for the lock, for any number of
\* reviewers, of reviews and of seedings (ReviewStands).
THEOREM ReviewsStand == GraphSpec => []ReviewStands
<1>1. RiskInit => RiskInv
  BY InitReviews
<1>2. RiskInv /\ [GraphNext]_<<riskVars, graphVars>> => RiskInv'
  <2> SUFFICES ASSUME RiskInv, [GraphNext]_<<riskVars, graphVars>>
               PROVE  RiskInv'
    OBVIOUS
  <2>1. SeedRisks \/ [RiskNext]_riskVars
    BY DEF GraphNext, SeedingNext
  <2>2. QED
    BY <2>1, SeedRisksKeepsReviews, NextReviews
<1>3. QED
  BY <1>1, <1>2, CommittedSinceLast, PTL DEF GraphSpec


------------------------------------------------------------------------------
(* The traceability graph.                                                   *)

LEMMA RulesAreASequence ==
  /\ Len(CrossRules) \in Nat
  /\ DOMAIN CrossRules = 1..Len(CrossRules)
<1> DEFINE A == {RulesOfConcerns[i] : i \in 1..6}
           B == {RulesOfTickets[i] : i \in 1..5}
           C == {RulesOfRisks[i] : i \in 1..3}
           S == A \union B \union C
<1>1. RulesOfConcerns \in Seq(A) /\ RulesOfTickets \in Seq(B) /\ RulesOfRisks \in Seq(C)
  BY DEF RulesOfConcerns, RulesOfTickets, RulesOfRisks
<1> HIDE DEF A, B, C
<1>2. RulesOfConcerns \in Seq(S) /\ RulesOfTickets \in Seq(S) /\ RulesOfRisks \in Seq(S)
  BY <1>1
<1>3. CrossRules \in Seq(S)
  BY <1>2 DEF CrossRules
<1>4. QED
  BY <1>3

\* A link that is asked for is there, or a seeder has yet to make it.
WillLink(s, n, l) ==
  \/ seeder[s].at \in {"add", "link"}
  \/ /\ seeder[s].at = "cross" /\ seeder[s].section <= n
     /\ l \in Wanted(CrossRules[n], seeder[s].read)

LinkedOrComing ==
  ~died => \A n \in DOMAIN CrossRules : \A l \in Wanted(CrossRules[n], artifacts) :
             l \in links \/ \E s \in Seeders : WillLink(s, n, l)

LEMMA InitGraph == GraphInit => GraphTypeOK /\ LinkedOrComing
<1>1. GraphInit => GraphTypeOK
  <2> SUFFICES ASSUME GraphInit PROVE GraphTypeOK
    OBVIOUS
  <2>1. seeder \in [Seeders -> {Resting}]
    BY DEF GraphInit
  <2>2. QED
    BY <2>1 DEF GraphInit, GraphTypeOK
<1>2. \A n : Wanted(CrossRules[n], {}) = {}
  BY DEF Wanted
<1>3. GraphInit => LinkedOrComing
  BY <1>2 DEF GraphInit, LinkedOrComing
<1>4. QED
  BY <1>1, <1>3

LEMMA SeederShape ==
  ASSUME GraphTypeOK, NEW s \in Seeders
  PROVE  /\ seeder[s].at = "add" => seeder[s] \in AddStep
         /\ seeder[s].at = "link" => seeder[s] \in LinkStep
         /\ seeder[s].at = "cross" => seeder[s] \in CrossStep
         /\ seeder[s] = Resting => seeder[s].at = "rest"
  BY DEF GraphTypeOK, Resting, AddStep, LinkStep, CrossStep

LEMMA AddStepTyped ==
  ASSUME NEW i \in Nat \ {0}, NEW n \in Nat
  PROVE  [at |-> "add", step |-> i, number |-> n] \in AddStep
  BY DEF AddStep

LEMMA SeedStartsKeeps ==
  ASSUME GraphTypeOK, LinkedOrComing, NEW s \in Seeders, NEW force \in BOOLEAN, SeedStarts(s, force)
  PROVE  (GraphTypeOK /\ LinkedOrComing)'
<1>1. /\ seedings' = seedings + 1
      /\ seeder' = [seeder EXCEPT ![s] = [at |-> "add", step |-> 1, number |-> seedings + 1]]
      /\ UNCHANGED <<artifacts, links, died>>
      /\ seeder[s] = Resting
  BY DEF SeedStarts
<1>2. GraphTypeOK'
  BY <1>1, AddStepTyped DEF GraphTypeOK
<1>3. \A t \in Seeders : \A n, l : WillLink(t, n, l) => WillLink(t, n, l)'
  BY <1>1 DEF WillLink, GraphTypeOK, Resting
<1>4. QED
  BY <1>1, <1>2, <1>3 DEF LinkedOrComing

\* While a seeder is adding or linking, every link is still to come.
LEMMA SeederWillLink ==
  ASSUME NEW s \in Seeders, seeder'[s].at \in {"add", "link"}
  PROVE  LinkedOrComing'
  BY DEF LinkedOrComing, WillLink

LEMMA NodeTyped ==
  ASSUME NEW s \in Seeders, seeder[s] \in AddStep \union LinkStep, seeder[s].step <= Len(Script)
  PROVE  Item(s) \in Items /\ Node(Item(s), seeder[s].number) \in Items \X Nat
<1>1. seeder[s].step \in 1..Len(Script) /\ seeder[s].number \in Nat
  BY ScriptAssumption DEF AddStep, LinkStep
<1>2. Item(s) \in Items
  BY <1>1, ScriptAssumption DEF Item
<1>3. QED
  BY <1>1, <1>2 DEF Node

LEMMA NextStepTyped ==
  ASSUME GraphTypeOK, NEW s \in Seeders, seeder[s] \in AddStep \union LinkStep
  PROVE  /\ NextStep(s) \in [Seeders -> {Resting} \union AddStep \union LinkStep \union CrossStep]
         /\ NextStep(s)[s].at = "add"
<1>1. seeder[s].step + 1 \in Nat \ {0} /\ seeder[s].number \in Nat
  BY DEF AddStep, LinkStep
<1>2. [at |-> "add", step |-> seeder[s].step + 1, number |-> seeder[s].number] \in AddStep
  BY <1>1, AddStepTyped
<1>3. QED
  BY <1>2 DEF NextStep, GraphTypeOK

LEMMA AddArtifactKeeps ==
  ASSUME GraphTypeOK, NEW s \in Seeders, AddArtifact(s)
  PROVE  (GraphTypeOK /\ LinkedOrComing)'
<1>1. seeder[s] \in AddStep /\ seeder[s].step <= Len(Script)
  BY SeederShape DEF AddArtifact
<1>2. Item(s) \in Items /\ Node(Item(s), seeder[s].number) \in Items \X Nat
  BY <1>1, NodeTyped
<1>3. Curated[Item(s)] \in SUBSET Links
  BY <1>2 DEF Links
<1> DEFINE link == [at |-> "link", step |-> seeder[s].step, number |-> seeder[s].number,
                    left |-> Curated[Item(s)]]
<1>4. link \in LinkStep /\ link.at = "link"
  BY <1>1, <1>3 DEF LinkStep, AddStep
<1> HIDE DEF link
<1>5. \/ seeder' = NextStep(s)
      \/ seeder' = [seeder EXCEPT ![s] = link]
  BY DEF AddArtifact, link
<1>6. /\ seeder' \in [Seeders -> {Resting} \union AddStep \union LinkStep \union CrossStep]
      /\ seeder'[s].at \in {"add", "link"}
  BY <1>1, <1>4, <1>5, NextStepTyped DEF GraphTypeOK
<1>7. artifacts' \subseteq Items \X Nat /\ seedings' = seedings /\ died' = died
  BY <1>2 DEF AddArtifact, GraphTypeOK
<1>8. QED
  BY <1>6, <1>7, SeederWillLink DEF GraphTypeOK

LEMMA LinkArtifactKeeps ==
  ASSUME GraphTypeOK, LinkedOrComing, NEW s \in Seeders, NEW l \in Links, LinkArtifact(s, l)
  PROVE  (GraphTypeOK /\ LinkedOrComing)'
<1>1. seeder[s] \in LinkStep
  BY SeederShape DEF LinkArtifact
<1> DEFINE link == [seeder[s] EXCEPT !.left = @ \ {l}]
<1>2. link \in LinkStep /\ link.at = "link"
  BY <1>1 DEF LinkStep
<1>3. \/ seeder' = NextStep(s)
      \/ seeder' = [seeder EXCEPT ![s] = link]
  BY DEF LinkArtifact
<1> HIDE DEF link
<1>4. /\ seeder' \in [Seeders -> {Resting} \union AddStep \union LinkStep \union CrossStep]
      /\ seeder'[s].at \in {"add", "link"}
  BY <1>1, <1>2, <1>3, NextStepTyped DEF GraphTypeOK
<1>5. UNCHANGED <<artifacts, seedings, died>>
  BY DEF LinkArtifact
<1>6. QED
  BY <1>4, <1>5, SeederWillLink DEF GraphTypeOK

LEMMA CrossReadsKeeps ==
  ASSUME GraphTypeOK, LinkedOrComing, NEW s \in Seeders, CrossReads(s)
  PROVE  (GraphTypeOK /\ LinkedOrComing)'
<1> DEFINE cross == [at |-> "cross", section |-> 1, read |-> artifacts]
<1>1. cross \in CrossStep
  BY DEF CrossStep, GraphTypeOK
<1>2. cross.at = "cross" /\ cross.section = 1 /\ cross.read = artifacts
  OBVIOUS
<1> HIDE DEF cross
<1>3. seeder' = [seeder EXCEPT ![s] = cross] /\ UNCHANGED <<artifacts, links, seedings, died>>
  BY DEF CrossReads, cross
<1>4. GraphTypeOK'
  BY <1>1, <1>3 DEF GraphTypeOK
<1>5. seeder'[s] = cross
  BY <1>3 DEF GraphTypeOK
<1>6. \A n \in DOMAIN CrossRules : \A l \in Wanted(CrossRules[n], artifacts) : WillLink(s, n, l)'
  <2>1. \A n \in DOMAIN CrossRules : 1 <= n
    BY RulesAreASequence
  <2>2. QED
    BY <1>2, <1>5, <2>1 DEF WillLink
<1>7. QED
  BY <1>3, <1>4, <1>6 DEF LinkedOrComing

LEMMA CrossLinksKeeps ==
  ASSUME GraphTypeOK, LinkedOrComing, NEW s \in Seeders, CrossLinks(s)
  PROVE  (GraphTypeOK /\ LinkedOrComing)'
<1> DEFINE m == seeder[s].section
           next == [seeder[s] EXCEPT !.section = m + 1]
<1>1. seeder[s] \in CrossStep /\ m \in Nat
  BY SeederShape DEF CrossLinks, CrossStep
<1>2. next \in CrossStep /\ next.section = m + 1 /\ next.read = seeder[s].read /\ next.at = "cross"
  BY <1>1 DEF CrossStep
<1>3. /\ links' = links \union Wanted(CrossRules[m], seeder[s].read)
      /\ seeder' = [seeder EXCEPT ![s] = IF m = Len(CrossRules) THEN Resting ELSE next]
      /\ UNCHANGED <<artifacts, seedings, died>>
  BY DEF CrossLinks
<1> HIDE DEF next
<1>4. GraphTypeOK'
  BY <1>2, <1>3 DEF GraphTypeOK
<1>5. seeder'[s] = (IF m = Len(CrossRules) THEN Resting ELSE next)
      /\ \A t \in Seeders \ {s} : seeder'[t] = seeder[t]
  BY <1>3 DEF GraphTypeOK
<1>6. ASSUME NEW n \in DOMAIN CrossRules, NEW l, WillLink(s, n, l)
      PROVE  l \in links' \/ WillLink(s, n, l)'
  <2>1. m <= n /\ l \in Wanted(CrossRules[n], seeder[s].read)
    BY <1>6 DEF WillLink, CrossLinks
  <2>2. CASE n = m
    BY <1>3, <2>1, <2>2
  <2>3. CASE n # m
    <3>1. m + 1 <= n /\ m # Len(CrossRules)
      BY <1>1, <2>1, <2>3, RulesAreASequence
    <3>2. QED
      BY <1>2, <1>5, <2>1, <3>1 DEF WillLink
  <2>4. QED
    BY <2>2, <2>3
<1>7. \A t \in Seeders \ {s} : \A n, l : WillLink(t, n, l) => WillLink(t, n, l)'
  BY <1>5 DEF WillLink
<1>8. LinkedOrComing'
  BY <1>3, <1>6, <1>7 DEF LinkedOrComing
<1>9. QED
  BY <1>4, <1>8

LEMMA SeederDiesKeeps ==
  ASSUME GraphTypeOK, NEW s \in Seeders, SeederDies(s)
  PROVE  (GraphTypeOK /\ LinkedOrComing)'
  BY DEF SeederDies, GraphTypeOK, LinkedOrComing

LEMMA NextGraph ==
  ASSUME GraphTypeOK, LinkedOrComing, [GraphNext]_<<riskVars, graphVars>>
  PROVE  (GraphTypeOK /\ LinkedOrComing)'
<1>1. CASE UNCHANGED graphVars
  BY <1>1 DEF graphVars, GraphTypeOK, LinkedOrComing, WillLink
<1>2. CASE SeedingNext
  BY <1>2, SeedStartsKeeps, AddArtifactKeeps, LinkArtifactKeeps, CrossReadsKeeps, CrossLinksKeeps,
     SeederDiesKeeps DEF SeedingNext
<1>3. QED
  BY <1>1, <1>2 DEF GraphNext

\* When no seeder is at work and none died, every two artifacts that a rule
\* relates are linked, for any script, rules' relations and number of seeders
\* (SeededMeansLinked).
THEOREM SeedingLinks == GraphSpec => []SeededMeansLinked
<1>1. GraphInit => GraphTypeOK /\ LinkedOrComing
  BY InitGraph
<1>2. GraphTypeOK /\ LinkedOrComing /\ [GraphNext]_<<riskVars, graphVars>>
      => (GraphTypeOK /\ LinkedOrComing)'
  BY NextGraph
<1>3. GraphTypeOK /\ LinkedOrComing => SeededMeansLinked
  BY DEF LinkedOrComing, SeededMeansLinked, AllResting, WillLink, Resting
<1>4. QED
  BY <1>1, <1>2, <1>3, PTL DEF GraphSpec
================================================================================
