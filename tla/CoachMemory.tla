----------------------------- MODULE CoachMemory -----------------------------
(* agents/coach_memory: the sessions, commitments and concerns that         *)
(* session_memory extracts from transcripts, the tracker that finds         *)
(* commitments delivered, and the briefing that is read together from them  *)
(* query by query.  The agents work on connections of their own to one      *)
(* SQLite file, in the same process or in another.                          *)
EXTENDS Naturals, Sequences, FiniteSets, FiniteSetsExt, SequencesExt

CONSTANTS
  Agents,        \* instances of SessionMemoryAgent
  Transcripts,   \* what they are triggered with, and again on a retry
  Themes(_),     \* the themes of the concerns extracted from a transcript, in order
  Promises(_),   \* the texts of the commitments extracted from it, in order
  MaxExtractions,\* bound on the extractions
  MaxCommitments,\* bound on the rows of commitments
  BriefLimit     \* LIMIT 10 of the delivered commitments

ASSUME CoachAssumption ==
  /\ BriefLimit \in Nat
  /\ \A t \in Transcripts : Promises(t) \in Seq(STRING) /\ Themes(t) \in Seq(STRING)

VARIABLES
  sessions,      \* session_id of the rows of sessions
  embedded,      \* the sessions whose chunks are in the vector store
  commitments,   \* rows: [id, session, text, status]
  concerns,      \* rows of concerns: [theme, times], in order of id
  agent,         \* what each instance is at
  raised,        \* how often each theme was raised in a committed extraction
  extractions,   \* how many extractions were committed
  verifying,     \* the open commitments _verify_deliveries has still to look at
  flagged,       \* the recurring themes last put in the wiki
  briefing       \* the briefing being made, or the last one

memoryVars == <<sessions, embedded, concerns, agent, raised, extractions>>
coachVars == <<memoryVars, commitments, verifying, flagged, briefing>>

AllThemes == UNION {ToSet(Themes(t)) : t \in Transcripts}
Ready == [at |-> "ready"]
NoBriefing == [at |-> "none"]

CoachInit ==
  /\ sessions = {} /\ embedded = {}
  /\ commitments = <<>> /\ concerns = <<>>
  /\ agent = [a \in Agents |-> Ready]
  /\ raised = [t \in AllThemes |-> 0]
  /\ extractions = 0
  /\ verifying = {}
  /\ flagged = {}
  /\ briefing = NoBriefing

readers == <<verifying, flagged, briefing>>

Step(a, at, t, early) ==
  agent' = [agent EXCEPT ![a] = [at |-> at, transcript |-> t, early |-> early]]

\* run: INSERT OR REPLACE of the session, committed by itself.
StoreSession(a, t) ==
  /\ agent[a] = Ready
  /\ sessions' = sessions \union {t}
  /\ Step(a, "embed", t, <<>>)
  /\ UNCHANGED <<embedded, commitments, concerns, raised, extractions, readers>>

\* The chunks are upserted under ids made from the session's.
Embed(a) ==
  /\ agent[a].at = "embed"
  /\ embedded' = embedded \union {agent[a].transcript}
  /\ Step(a, "extract", agent[a].transcript, <<>>)
  /\ UNCHANGED <<sessions, commitments, concerns, raised, extractions, readers>>

\* What the SELECT of a theme returns: its first row and the count there.
Lookup(rows, theme) ==
  LET found == {i \in DOMAIN rows : rows[i].theme = theme}
  IN  IF found = {} THEN [place |-> 0, times |-> 0]
      ELSE [place |-> Min(found), times |-> rows[Min(found)].times]

\* With no commitment to insert first, the SELECT of the first concern runs
\* before the transaction is open: another extraction may commit after it.
LooksFirst(a) ==
  /\ agent[a].at = "extract"
  /\ Promises(agent[a].transcript) = <<>> /\ Themes(agent[a].transcript) # <<>>
  /\ LET t == agent[a].transcript IN Step(a, "record", t, <<Lookup(concerns, Themes(t)[1])>>)
  /\ UNCHANGED <<sessions, embedded, commitments, concerns, raised, extractions, readers>>

\* A slip in Raise: the count that the SELECT returned is written back.
RaiseRead(rows, theme, found) ==
  IF found.place = 0 THEN Append(rows, [theme |-> theme, times |-> 1])
  ELSE [rows EXCEPT ![found.place].times = found.times + 1]

\* UPDATE ... times_raised + 1, or INSERT; found is what the SELECT returned.
Raise(rows, theme, found) ==
  IF found.place = 0 THEN Append(rows, [theme |-> theme, times |-> 1])
  ELSE [rows EXCEPT ![found.place].times = @ + 1]

\* The concerns after those of a list, each looked up in the transaction but
\* for those looked up early.
RaiseAll(rows, list, early) ==
  LET after[n \in 0..Len(list)] ==
        IF n = 0 THEN rows
        ELSE Raise(after[n - 1], list[n],
                   IF n \in DOMAIN early THEN early[n] ELSE Lookup(after[n - 1], list[n]))
  IN  after[Len(list)]

TimesIn(list, theme) == Cardinality({i \in DOMAIN list : list[i] = theme})

NewCommitments(t) ==
  [i \in DOMAIN Promises(t) |-> [session |-> t, text |-> Promises(t)[i], status |-> "open"]]

\* The transaction of _extract_session_data or _extract_offline.
Extract(a) ==
  /\ agent[a].at = "extract" \/ agent[a].at = "record"
  /\ LET t == agent[a].transcript IN
       /\ agent[a].at = "extract" => Promises(t) # <<>> \/ Themes(t) = <<>>
       /\ commitments' = commitments \o NewCommitments(t)
       /\ concerns' = RaiseAll(concerns, Themes(t), agent[a].early)
       /\ raised' = [h \in AllThemes |-> raised[h] + TimesIn(Themes(t), h)]
  /\ extractions < MaxExtractions
  /\ Len(commitments') <= MaxCommitments
  /\ extractions' = extractions + 1
  /\ agent' = [agent EXCEPT ![a] = Ready]
  /\ UNCHANGED <<sessions, embedded, readers>>

\* The embedding, the call of the model or the parsing of its answer raises, or
\* the process dies: the session stays, the rest is rolled back.
Fails(a) ==
  /\ agent[a] # Ready
  /\ agent' = [agent EXCEPT ![a] = Ready]
  /\ UNCHANGED <<sessions, embedded, commitments, concerns, raised, extractions, readers>>

Ids(status) == {i \in DOMAIN commitments : commitments[i].status = status}
Mark(i, status) == commitments' = [commitments EXCEPT ![i].status = status]

\* _verify_deliveries selects the open commitments ...
VerifyReads ==
  /\ verifying = {} /\ Ids("open") # {}
  /\ verifying' = Ids("open")
  /\ UNCHANGED <<memoryVars, commitments, flagged, briefing>>

\* A slip in VerifyOne: the evidence is recorded under a status of its own.
VerifyOneAsVerified(i, found) ==
  /\ i \in verifying
  /\ verifying' = verifying \ {i}
  /\ IF found THEN Mark(i, "verified") ELSE UNCHANGED commitments
  /\ UNCHANGED <<memoryVars, flagged, briefing>>

\* ... and marks those it finds evidence for in Jira or the wiki, one commit
\* each, whatever their status is by then.
VerifyOne(i, found) ==
  /\ i \in verifying
  /\ verifying' = verifying \ {i}
  /\ IF found THEN Mark(i, "delivered") ELSE UNCHANGED commitments
  /\ UNCHANGED <<memoryVars, flagged, briefing>>

\* mark_delivered and mark_missed, by hand.
MarkByHand(i, status) ==
  /\ i \in DOMAIN commitments
  /\ Mark(i, status)
  /\ UNCHANGED <<memoryVars, readers>>

\* detect_patterns: SUM(times_raised) of the rows of a theme.
TotalIn(rows, theme) ==
  LET total[n \in 0..Len(rows)] ==
        IF n = 0 THEN 0
        ELSE total[n - 1] + (IF rows[n].theme = theme THEN rows[n].times ELSE 0)
  IN  total[Len(rows)]

TotalRaised(theme) == TotalIn(concerns, theme)

\* ConcernTrackerAgent.run: the themes raised RECURRING_THRESHOLD times.
TrackConcerns ==
  /\ \E h \in AllThemes : TotalRaised(h) >= 2
  /\ flagged' = {h \in AllThemes : TotalRaised(h) >= 2}
  /\ UNCHANGED <<memoryVars, commitments, verifying, briefing>>

\* A commitment is listed with the session it is from (JOIN sessions).
Listed(ids) == {i \in ids : commitments[i].session \in sessions}

\* BriefingGeneratorAgent.run queries the open commitments first ...
BriefOpen ==
  /\ briefing.at \in {"none", "made"}
  /\ briefing' = [at |-> "open", had |-> DOMAIN commitments \ Ids("missed"),
                  open |-> Listed(Ids("open")), delivered |-> {}]
  /\ UNCHANGED <<memoryVars, commitments, verifying, flagged>>

\* ... and then the delivered ones, of which it lists the latest BriefLimit.
BriefDelivered ==
  /\ briefing.at = "open"
  /\ LET all == Listed(Ids("delivered")) IN
       \E some \in SUBSET all :
         /\ Cardinality(some) = IF Cardinality(all) < BriefLimit THEN Cardinality(all) ELSE BriefLimit
         /\ briefing' = [briefing EXCEPT !.at = "made", !.delivered = some,
                                                 !.had = @ \ Ids("missed")]
  /\ UNCHANGED <<memoryVars, commitments, verifying, flagged>>

CoachNext ==
  \/ \E a \in Agents :
       \/ \E t \in Transcripts : StoreSession(a, t)
       \/ Embed(a) \/ LooksFirst(a) \/ Extract(a) \/ Fails(a)
  \/ VerifyReads \/ TrackConcerns \/ BriefOpen \/ BriefDelivered
  \/ \E i \in DOMAIN commitments :
       \/ \E found \in BOOLEAN : VerifyOne(i, found)
       \/ \E status \in {"delivered", "missed"} : MarkByHand(i, status)

CoachSpec == CoachInit /\ [][CoachNext]_coachVars

\* The counts of a theme add up to the times it was raised in the extractions
\* that were committed, although two of them may each have inserted a row for
\* it, and although a count is looked up before the transaction is open.
ConcernsCounted == \A h \in AllThemes : TotalRaised(h) = raised[h]

\* A commitment that was there when the briefing was begun, and was not marked
\* missed by its end, is listed as open or as delivered (unless the limit cuts
\* it off), even when it is delivered between the two queries.
NothingFallsOutOfBriefing ==
  briefing.at = "made" /\ Cardinality(briefing.delivered) < BriefLimit =>
    \A i \in briefing.had : i \in briefing.open \union briefing.delivered
=============================================================================
