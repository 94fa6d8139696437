---------------------------- MODULE MeetingsProofs ----------------------------
(* What is made of the meetings: what is archived was read, and main's       *)
(* report covers all minutes; the turns are the recording; numbers of        *)
(* requirements stand; the briefing is whole and the concerns are counted;   *)
(* evidence comes before readiness.                                          *)
EXTENDS TranscriptInbox, VttParser, MeetingExtraction, CoachMemory, MLDecisions,
        Induction, FiniteSetTheorems, SequenceTheorems, TLAPS

-------------------------------------------------------------------------------
(* The inbox of transcripts. *)

Running == {"ingest", "move", "done"}

\* What main has been, as far as anybody still has it checked out.
Mainline == {main, base} \union {p.base : p \in pulls}

\* The days of the readable transcripts that a tree has archived have minutes.
Minuted(t) == \A u \in Archived(t) : Readable(u) => t.minutes[Date(u)] # NoMinutes

\* A report that is short of a meeting was never rebuilt, and some run was cut.
CoversUnlessCut(t, c) ==
  \/ t.report.dates = Processed(t)
  \/ c /\ ~t.report.rebuilt

\* A tree that has left the report of its base has left the minutes, too.
Unreported(t, b) == t.report = b.report => t.minutes = b.minutes

MainInv ==
  /\ Minuted(main)
  /\ main.report.dates \subseteq Processed(main)
  /\ CoversUnlessCut(main, cut)
  /\ \A m \in Mainline : Processed(m) \subseteq Processed(main)
  /\ \A m, n \in Mainline : m.report = n.report => m.minutes = n.minutes

PullOf(p, c) ==
  /\ Minuted(p.tree)
  /\ Processed(p.base) \subseteq Processed(p.tree)
  /\ p.tree.report.dates \subseteq Processed(p.tree)
  /\ CoversUnlessCut(p.tree, c)
  /\ Unreported(p.tree, p.base)

PullsInv == \A p \in pulls : PullOf(p, cut)

\* The run: it moves what has minutes, and once nothing is left to ingest its
\* tree is as a pull request may be.
RunInv ==
  /\ Minuted(tree)
  /\ Processed(base) \subseteq Processed(tree)
  /\ tree.report.dates \subseteq Processed(tree)
  /\ phase = "ingest" => Staged(tree) # {}
  /\ phase = "move" => \A u \in Read(tree) : tree.minutes[Date(u)] # NoMinutes
  /\ phase \in {"move", "done"} \/ Read(tree) = {} =>
       /\ Unreported(tree, base)
       /\ tree.report.rebuilt => tree.report.dates = Processed(tree)
  /\ phase = "done" \/ (phase = "dead" /\ Staged(tree) = {}) => CoversUnlessCut(tree, cut)

\* No two runs that were merged, or may be, have left a report of one number.
Numbered ==
  /\ \A m \in Mainline : m.report.by <= jobs
  /\ \A p \in pulls : p.tree.report.by <= jobs
  /\ tree.report.by <= jobs
  /\ phase \in Running =>
       /\ \A m \in Mainline : m.report.by # jobs
       /\ \A p \in pulls : p.tree.report.by # jobs
  /\ phase # "idle" /\ tree.report # base.report =>
       /\ \A m \in Mainline : m.report.by # tree.report.by
       /\ \A p \in pulls : p.tree.report.by # tree.report.by
  /\ \A p \in pulls : p.tree.report # p.base.report =>
       \A m \in Mainline : m.report.by # p.tree.report.by
  /\ \A p, q \in pulls : p.tree.report # p.base.report =>
       p = q \/ q.tree.report.by # p.tree.report.by

InboxInv ==
  /\ InboxTypeOK
  /\ MainInv
  /\ PullsInv
  /\ RunInv
  /\ Numbered

LEMMA InvGivesProperties ==
  ASSUME InboxInv
  PROVE  ReadHasMinutes /\ ReportCoversUnlessCut
  BY DEF InboxInv, MainInv, PullsInv, PullOf, RunInv, Minuted, ReadHasMinutes,
         CoversUnlessCut, ReportCoversUnlessCut

LEMMA CoversStays ==
  ASSUME NEW t, NEW c, NEW d, c => d, CoversUnlessCut(t, c)
  PROVE  CoversUnlessCut(t, d)
  BY DEF CoversUnlessCut

LEMMA InitInbox == InboxInit => InboxInv
<1> SUFFICES ASSUME InboxInit PROVE InboxInv
  OBVIOUS
<1>1. Empty \in Trees
  BY DEF Empty, Trees
<1>2. /\ Empty.archive = {} /\ Empty.inbox = {}
      /\ Empty.report.by = 0 /\ Empty.report.rebuilt = FALSE
      /\ Empty.report.dates = {} /\ \A d \in Dates : Empty.minutes[d] = NoMinutes
  BY DEF Empty
<1>3. Minuted(Empty) /\ Processed(Empty) = {} /\ Read(Empty) = {} /\ Staged(Empty) = {}
  BY <1>2 DEF Minuted, Archived, Processed, Read, Staged
<1>4. main = Empty /\ tree = Empty /\ base = Empty /\ pulls = {} /\ phase = "idle" /\ jobs = 0
      /\ pending = FALSE /\ cut = FALSE
  BY DEF InboxInit
<1>5. InboxTypeOK
  BY <1>1, <1>4 DEF InboxTypeOK
<1>6. Mainline = {Empty}
  BY <1>4 DEF Mainline
<1>7. MainInv /\ PullsInv
  BY <1>2, <1>3, <1>4, <1>6 DEF MainInv, PullsInv, CoversUnlessCut
<1>8. RunInv /\ Numbered
  BY <1>2, <1>3, <1>4, <1>6 DEF RunInv, Numbered, Unreported, Running
<1>9. QED
  BY <1>5, <1>7, <1>8 DEF InboxInv

LEMMA PushKeeps ==
  ASSUME InboxInv, NEW u \in Uploads, Push(u)
  PROVE  InboxInv'
<1> USE DEF InboxInv
<1>1. /\ main' = [main EXCEPT !.inbox = @ \union {u}] /\ pending' = TRUE
      /\ UNCHANGED <<tree, phase, base, pulls, jobs, cut>>
  BY DEF Push
<1>2. /\ main' \in Trees /\ main'.archive = main.archive /\ main'.minutes = main.minutes
      /\ main'.report = main.report
  BY <1>1 DEF InboxTypeOK, Trees
<1>3. InboxTypeOK'
  BY <1>1, <1>2 DEF InboxTypeOK
<1>4. \A m \in Mainline' : \E n \in Mainline : m.minutes = n.minutes /\ m.report = n.report
  <2>1. main \in Mainline
    BY DEF Mainline
  <2>2. \A m \in Mainline' : m = main' \/ m \in Mainline
    BY <1>1 DEF Mainline
  <2>3. QED
    BY <1>2, <2>1, <2>2
<1>5. Minuted(main') /\ Processed(main') = Processed(main)
  BY <1>2 DEF MainInv, Minuted, Archived, Processed
<1>6. \A m \in Mainline' : Processed(m) \subseteq Processed(main)
  BY <1>4 DEF MainInv, Processed
<1>7. CoversUnlessCut(main', cut)
  BY <1>2, <1>5 DEF MainInv, CoversUnlessCut
<1>8. MainInv'
  <2>1. \A m, n \in Mainline' : m.report = n.report => m.minutes = n.minutes
    BY <1>4 DEF MainInv
  <2>2. main'.report.dates \subseteq Processed(main')
    BY <1>2, <1>5 DEF MainInv
  <2>3. QED
    BY <1>1, <1>5, <1>6, <1>7, <2>1, <2>2 DEF MainInv
<1>9. PullsInv' /\ RunInv'
  BY <1>1 DEF PullsInv, RunInv
<1>10. Numbered'
  BY <1>1, <1>4 DEF Numbered
<1>11. QED
  BY <1>3, <1>8, <1>9, <1>10

\* A step of a run changes its tree, and the report only under the run's number.
LEMMA RunStepKeeps ==
  ASSUME InboxInv, InboxTypeOK', UNCHANGED <<main, base, pulls, jobs>>, cut => cut',
         phase' \in Running => phase \in Running, phase' # "idle" => phase # "idle",
         tree'.report = tree.report \/ (phase \in Running /\ tree'.report.by = jobs),
         RunInv'
  PROVE  InboxInv'
<1> USE DEF InboxInv
<1>1. Mainline' = Mainline
  BY DEF Mainline
<1>2. MainInv'
  BY <1>1, CoversStays DEF MainInv
<1>3. PullsInv'
  <2>1. \A p \in pulls : PullOf(p, cut')
    BY CoversStays DEF PullsInv, PullOf
  <2>2. QED
    BY <2>1 DEF PullsInv, PullOf, CoversUnlessCut, Unreported, Minuted, Archived, Processed
<1>4. Numbered'
  <2>1. jobs \in Nat
    BY DEF InboxTypeOK
  <2>2. tree'.report.by <= jobs
    BY <2>1 DEF Numbered
  <2>3. phase' # "idle" /\ tree'.report # base.report =>
          /\ \A m \in Mainline : m.report.by # tree'.report.by
          /\ \A p \in pulls : p.tree.report.by # tree'.report.by
    BY DEF Numbered
  <2>4. QED
    BY <1>1, <2>2, <2>3 DEF Numbered
<1>5. QED
  BY <1>2, <1>3, <1>4

LEMMA JobStartsKeeps ==
  ASSUME InboxInv, Checkout \/ Rerun
  PROVE  InboxInv'
<1> USE DEF InboxInv
<1>1. /\ UNCHANGED <<main, pulls, cut>> /\ jobs' = jobs + 1 /\ pending' \in BOOLEAN
      /\ \/ tree' = tree /\ base' = base /\ phase = "dead"
         \/ tree' = main /\ base' = main
      /\ phase' = IF Staged(tree') = {} THEN "done" ELSE "ingest"
  BY DEF Checkout, Rerun, JobStarts, InboxTypeOK
<1>2. InboxTypeOK'
  BY <1>1 DEF InboxTypeOK
<1>3. Mainline' \subseteq Mainline
  BY <1>1 DEF Mainline
<1>4. MainInv'
  <2>1. \A m \in Mainline' : Processed(m) \subseteq Processed(main)
    BY <1>3 DEF MainInv
  <2>2. \A m, n \in Mainline' : m.report = n.report => m.minutes = n.minutes
    BY <1>3 DEF MainInv
  <2>3. QED
    BY <1>1, <2>1, <2>2 DEF MainInv
<1>5. PullsInv'
  BY <1>1 DEF PullsInv
<1>6. RunInv'
  <2>1. phase' # "move" /\ (phase' = "ingest" => Staged(tree') # {})
        /\ (phase' = "done" => Staged(tree') = {}) /\ phase' # "dead"
    BY <1>1
  <2>2. CASE tree' = main /\ base' = main
    <3>1. main.report.rebuilt => main.report.dates = Processed(main)
      BY DEF MainInv, CoversUnlessCut
    <3>2. Unreported(main, main)
      BY DEF Unreported
    <3>3. QED
      BY <1>1, <2>1, <2>2, <3>1, <3>2 DEF RunInv, MainInv
  <2>3. CASE tree' = tree /\ base' = base /\ phase = "dead"
    <3>1. Staged(tree) = {} => Read(tree) = {}
      BY DEF Read
    <3>2. phase' = "done" => CoversUnlessCut(tree, cut)
      BY <2>1, <2>3 DEF RunInv
    <3>3. phase' \in {"move", "done"} \/ Read(tree) = {} => Read(tree) = {}
      BY <2>1, <2>3, <3>1
    <3>4. QED
      BY <1>1, <2>1, <2>3, <3>2, <3>3 DEF RunInv
  <2>4. QED
    BY <1>1, <2>2, <2>3
<1>7. \A m \in Mainline : m.report.by \in Nat
  BY DEF Mainline, InboxTypeOK, Trees
<1>8. tree.report.by \in Nat /\ \A p \in pulls : p.tree.report.by \in Nat
  BY DEF InboxTypeOK, Trees
<1>9. jobs \in Nat /\ main \in Mainline
  BY DEF InboxTypeOK, Mainline
<1>10. Numbered'
  <2>1. \A m \in Mainline' : m.report.by <= jobs' /\ m.report.by # jobs'
    BY <1>1, <1>3, <1>7, <1>9 DEF Numbered
  <2>2. \A p \in pulls' : p.tree.report.by <= jobs' /\ p.tree.report.by # jobs'
    BY <1>1, <1>8, <1>9 DEF Numbered
  <2>3. tree'.report.by <= jobs'
    BY <1>1, <1>7, <1>8, <1>9 DEF Numbered
  <2>4. tree'.report # base'.report =>
          /\ \A m \in Mainline' : m.report.by # tree'.report.by
          /\ \A p \in pulls' : p.tree.report.by # tree'.report.by
    BY <1>1, <1>3 DEF Numbered
  <2>5. QED
    BY <1>1, <1>3, <2>1, <2>2, <2>3, <2>4 DEF Numbered
<1>11. QED
  BY <1>2, <1>4, <1>5, <1>6, <1>10

LEMMA IngestKeeps ==
  ASSUME InboxInv, NEW d \in Dates, Ingest(d)
  PROVE  InboxInv'
<1>1. PICK n \in Candidates(d) : tree' = [tree EXCEPT !.minutes[d] = n]
  BY DEF Ingest
<1>2. phase = "ingest" /\ UNCHANGED <<main, phase, base, pulls, pending, jobs, cut>>
  BY DEF Ingest
<1>3. n \in Names /\ n # NoMinutes /\ Read(tree) # {}
  <2>1. tree.inbox \subseteq Uploads
    BY DEF InboxInv, InboxTypeOK, Trees
  <2>2. QED
    BY <1>1, <2>1, NamesAssumption DEF Candidates, Staged, Read, Names
<1>4. tree \in Trees
  BY DEF InboxInv, InboxTypeOK
<1> DEFINE minutes == [tree.minutes EXCEPT ![d] = n]
<1>5. minutes \in [Dates -> Names \union {NoMinutes}]
      /\ \A e \in Dates : minutes[e] = IF e = d THEN n ELSE tree.minutes[e]
  BY <1>3, <1>4 DEF Trees
<1>6. tree' = [tree EXCEPT !.minutes = minutes]
  BY <1>1
<1> HIDE DEF minutes
<1>7. /\ tree' \in Trees /\ tree'.archive = tree.archive /\ tree'.minutes = minutes
      /\ tree'.inbox = tree.inbox /\ tree'.report = tree.report
  BY <1>4, <1>5, <1>6 DEF Trees
<1>8. InboxTypeOK'
  BY <1>2, <1>7 DEF InboxInv, InboxTypeOK
<1>9. Minuted(tree')
  <2>1. Archived(tree') = Archived(tree) /\ \A u \in Uploads : Date(u) \in Dates
    BY <1>7 DEF Archived, Dates
  <2>2. QED
    BY <1>3, <1>5, <1>7, <2>1 DEF InboxInv, RunInv, Minuted, Archived
<1>10. Processed(tree) \subseteq Processed(tree')
  BY <1>3, <1>5, <1>7 DEF Processed
<1>11. Staged(tree') = Staged(tree) /\ Read(tree') = Read(tree)
  BY <1>7 DEF Staged, Read
<1>12. RunInv'
  BY <1>2, <1>3, <1>7, <1>9, <1>10, <1>11 DEF InboxInv, RunInv
<1>13. QED
  BY <1>2, <1>7, <1>8, <1>12, RunStepKeeps

LEMMA IngestEndsKeeps ==
  ASSUME InboxInv, IngestEnds
  PROVE  InboxInv'
<1> DEFINE report == [dates |-> {Date(u) : u \in Read(tree)}, by |-> jobs, rebuilt |-> FALSE]
<1>1. /\ tree' = IF Read(tree) = {} THEN tree ELSE [tree EXCEPT !.report = report]
      /\ phase = "ingest" /\ phase' = "move"
      /\ UNCHANGED <<main, base, pulls, pending, jobs, cut>>
  BY DEF IngestEnds, BatchReport
<1>2. tree \in Trees /\ tree.inbox \subseteq Uploads
  BY DEF InboxInv, InboxTypeOK, Trees
<1>3. report \in [dates : SUBSET Dates, by : Nat, rebuilt : BOOLEAN]
      /\ report.dates = {Date(u) : u \in Read(tree)} /\ report.by = jobs /\ ~report.rebuilt
  BY <1>2 DEF InboxInv, InboxTypeOK, Staged, Read, Dates
<1> HIDE DEF report
<1>4. /\ tree' \in Trees /\ tree'.archive = tree.archive /\ tree'.minutes = tree.minutes
      /\ tree'.inbox = tree.inbox
      /\ tree'.report = IF Read(tree) = {} THEN tree.report ELSE report
  BY <1>1, <1>2, <1>3 DEF Trees
<1>5. InboxTypeOK'
  BY <1>1, <1>4 DEF InboxInv, InboxTypeOK
<1>6. Minuted(tree') /\ Processed(tree') = Processed(tree)
  BY <1>4 DEF InboxInv, RunInv, Minuted, Archived, Processed
<1>7. \A u \in Read(tree) : tree.minutes[Date(u)] # NoMinutes
  <2>1. \A u \in Read(tree) : tree.minutes[Date(u)] \in Names
    BY <1>2 DEF IngestEnds, Candidates, Staged, Read, Names
  <2>2. QED
    BY <2>1, NamesAssumption
<1>8. Read(tree') = Read(tree)
  BY <1>4 DEF Staged, Read
<1>9. tree'.report.dates \subseteq Processed(tree)
  <2>1. CASE Read(tree) = {}
    BY <1>4, <2>1 DEF InboxInv, RunInv
  <2>2. CASE Read(tree) # {}
    BY <1>2, <1>3, <1>4, <1>7, <2>2 DEF Processed, Read, Staged, Dates
  <2>3. QED
    BY <2>1, <2>2
<1>10. Unreported(tree', base)
  <2>1. CASE Read(tree) = {}
    BY <1>4, <2>1 DEF InboxInv, RunInv, Unreported
  <2>2. CASE Read(tree) # {}
    <3>1. base \in Mainline
      BY DEF Mainline
    <3>2. base.report.by # jobs
      BY <1>1, <3>1 DEF InboxInv, Numbered, Running
    <3>3. QED
      BY <1>3, <1>4, <2>2, <3>2 DEF Unreported
  <2>3. QED
    BY <2>1, <2>2
<1>11. tree'.report.rebuilt => tree'.report.dates = Processed(tree')
  BY <1>3, <1>4, <1>6 DEF InboxInv, RunInv
<1>12. RunInv'
  BY <1>1, <1>4, <1>6, <1>7, <1>8, <1>9, <1>10, <1>11 DEF InboxInv, RunInv
<1>13. QED
  BY <1>1, <1>3, <1>4, <1>5, <1>12, RunStepKeeps DEF Running

LEMMA MoveKeeps ==
  ASSUME InboxInv, NEW u \in Uploads, Move(u)
  PROVE  InboxInv'
<1>1. /\ tree' = [tree EXCEPT !.inbox = @ \ {u}, !.archive = @ \union {Name(u)}]
      /\ phase = "move" /\ u \in tree.inbox
      /\ UNCHANGED <<main, phase, base, pulls, pending, jobs, cut>>
  BY DEF Move
<1>2. tree \in Trees /\ Name(u) \in Names
  BY DEF InboxInv, InboxTypeOK, Names
<1>3. /\ tree' \in Trees /\ tree'.archive = tree.archive \union {Name(u)}
      /\ tree'.minutes = tree.minutes /\ tree'.inbox = tree.inbox \ {u}
      /\ tree'.report = tree.report
  BY <1>1, <1>2 DEF Trees
<1>4. InboxTypeOK'
  BY <1>1, <1>3 DEF InboxInv, InboxTypeOK
<1>5. Minuted(tree')
  <2> SUFFICES ASSUME NEW v \in Uploads, IsTranscript(v), Readable(v), Name(v) \in tree'.archive
               PROVE  tree.minutes[Date(v)] # NoMinutes
    BY <1>3 DEF Minuted, Archived
  <2>1. CASE Name(v) \in tree.archive
    BY <2>1 DEF InboxInv, RunInv, Minuted, Archived
  <2>2. CASE Name(v) = Name(u)
    <3>1. Date(v) = Date(u) /\ IsTranscript(u) /\ Readable(u)
      BY <2>2, NamesAssumption
    <3>2. u \in Read(tree)
      BY <1>1, <3>1 DEF Staged, Read
    <3>3. QED
      BY <1>1, <3>1, <3>2 DEF InboxInv, RunInv
  <2>3. QED
    BY <1>3, <2>1, <2>2
<1>6. Read(tree') \subseteq Read(tree) /\ Processed(tree') = Processed(tree)
  BY <1>3 DEF Staged, Read, Processed
<1>7. RunInv'
  BY <1>1, <1>3, <1>5, <1>6 DEF InboxInv, RunInv, Unreported
<1>8. QED
  BY <1>1, <1>3, <1>4, <1>7, RunStepKeeps

LEMMA RebuildKeeps ==
  ASSUME InboxInv, Rebuild
  PROVE  InboxInv'
<1> DEFINE report == [dates |-> Processed(tree), by |-> jobs, rebuilt |-> TRUE]
<1>1. /\ tree' = IF Processed(tree) = {} THEN tree ELSE [tree EXCEPT !.report = report]
      /\ phase = "move" /\ phase' = "done"
      /\ UNCHANGED <<main, base, pulls, pending, jobs, cut>>
  BY DEF Rebuild
<1>2. tree \in Trees
  BY DEF InboxInv, InboxTypeOK
<1>3. report \in [dates : SUBSET Dates, by : Nat, rebuilt : BOOLEAN]
      /\ report.dates = Processed(tree) /\ report.by = jobs
  BY DEF InboxInv, InboxTypeOK, Processed
<1> HIDE DEF report
<1>4. /\ tree' \in Trees /\ tree'.archive = tree.archive /\ tree'.minutes = tree.minutes
      /\ tree'.inbox = tree.inbox
      /\ tree'.report = IF Processed(tree) = {} THEN tree.report ELSE report
  BY <1>1, <1>2, <1>3 DEF Trees
<1>5. InboxTypeOK'
  BY <1>1, <1>4 DEF InboxInv, InboxTypeOK
<1>6. Minuted(tree') /\ Processed(tree') = Processed(tree)
  BY <1>4 DEF InboxInv, RunInv, Minuted, Archived, Processed
<1>7. tree'.report.dates = Processed(tree')
  BY <1>3, <1>4, <1>6 DEF InboxInv, RunInv
<1>8. Unreported(tree', base)
  <2>1. CASE Processed(tree) = {}
    BY <1>1, <1>4, <2>1 DEF InboxInv, RunInv, Unreported
  <2>2. CASE Processed(tree) # {}
    <3>1. base \in Mainline
      BY DEF Mainline
    <3>2. base.report.by # jobs
      BY <1>1, <3>1 DEF InboxInv, Numbered, Running
    <3>3. QED
      BY <1>3, <1>4, <2>2, <3>2 DEF Unreported
  <2>3. QED
    BY <2>1, <2>2
<1>9. RunInv'
  BY <1>1, <1>6, <1>7, <1>8 DEF InboxInv, RunInv, CoversUnlessCut
<1>10. QED
  BY <1>1, <1>3, <1>4, <1>5, <1>9, RunStepKeeps DEF Running

LEMMA OpenPullKeeps ==
  ASSUME InboxInv, OpenPull
  PROVE  InboxInv'
<1> USE DEF InboxInv
<1> DEFINE p == [base |-> base, tree |-> tree]
<1>1. /\ pulls' = pulls \/ pulls' = pulls \union {p}
      /\ phase = "done" /\ phase' = "idle"
      /\ UNCHANGED <<main, tree, base, pending, jobs, cut>>
  BY DEF OpenPull
<1>2. p \in [base : Trees, tree : Trees] /\ p.base = base /\ p.tree = tree
  BY DEF InboxTypeOK
<1> HIDE DEF p
<1>3. InboxTypeOK'
  BY <1>1, <1>2 DEF InboxTypeOK
<1>4. Mainline' = Mainline
  BY <1>1, <1>2 DEF Mainline
<1>5. MainInv'
  BY <1>1, <1>4 DEF MainInv
<1>6. PullOf(p, cut)
  BY <1>1, <1>2 DEF RunInv, PullOf
<1>7. PullsInv'
  BY <1>1, <1>6 DEF PullsInv
<1>8. RunInv'
  BY <1>1 DEF RunInv
<1>9. Numbered'
  <2>1. /\ p.tree.report.by <= jobs
        /\ p.tree.report # p.base.report =>
             /\ \A m \in Mainline : m.report.by # p.tree.report.by
             /\ \A q \in pulls : q.tree.report.by # p.tree.report.by
    BY <1>1, <1>2 DEF Numbered
  <2>2. \A q \in pulls' : q.tree.report # q.base.report =>
          \A m \in Mainline : m.report.by # q.tree.report.by
    BY <1>1, <2>1 DEF Numbered
  <2>3. \A q \in pulls : q.tree.report # q.base.report => p.tree.report.by # q.tree.report.by
    <3>1. CASE p.tree.report # p.base.report
      BY <2>1, <3>1
    <3>2. CASE p.tree.report = p.base.report
      BY <1>2, <3>2 DEF Numbered, Mainline
    <3>3. QED
      BY <3>1, <3>2
  <2>4. \A q, r \in pulls' : q.tree.report # q.base.report =>
          q = r \/ r.tree.report.by # q.tree.report.by
    BY <1>1, <2>1, <2>3 DEF Numbered
  <2>5. \A q \in pulls' : q.tree.report.by <= jobs
    BY <1>1, <2>1 DEF Numbered
  <2>6. QED
    BY <1>1, <1>4, <2>2, <2>4, <2>5 DEF Numbered, Running
<1>10. QED
  BY <1>3, <1>5, <1>7, <1>8, <1>9

LEMMA MergeKeeps ==
  ASSUME InboxInv, NEW p \in pulls, Merge(p)
  PROVE  InboxInv'
<1> USE DEF InboxInv
<1>1. /\ Merges(p.tree.report, p.base.report, main.report)
      /\ main' = [inbox   |-> main.inbox \ (p.base.inbox \ p.tree.inbox),
                  archive |-> main.archive \union p.tree.archive,
                  minutes |-> [d \in Dates |->
                     Merged(p.tree.minutes[d], p.base.minutes[d], main.minutes[d])],
                  report  |-> Merged(p.tree.report, p.base.report, main.report)]
      /\ pulls' = pulls \ {p} /\ pending' = TRUE
      /\ UNCHANGED <<tree, phase, base, jobs, cut>>
  BY DEF Merge
<1>2. /\ p.tree \in Trees /\ p.base \in Trees /\ main \in Trees
      /\ p.base \in Mainline /\ main \in Mainline
  BY DEF InboxTypeOK, Mainline
<1>3. PullOf(p, cut)
  BY DEF PullsInv
<1>4. Mainline' \subseteq Mainline \union {main'}
  BY <1>1 DEF Mainline
<1>5. main' \in Trees /\ main'.archive = main.archive \union p.tree.archive
  BY <1>1, <1>2 DEF Trees, Merged
<1>6. \/ p.tree.report = p.base.report /\ main'.report = main.report /\ main'.minutes = main.minutes
      \/ /\ p.tree.report # p.base.report /\ main'.report = p.tree.report
         /\ main'.minutes = p.tree.minutes /\ main.minutes = p.base.minutes
  <2>1. CASE p.tree.report = p.base.report
    <3>1. \A d \in Dates : main'.minutes[d] = main.minutes[d]
      BY <1>1, <1>3, <2>1 DEF PullOf, Unreported, Merged
    <3>2. main'.minutes = main.minutes
      BY <1>2, <1>5, <3>1 DEF Trees
    <3>3. QED
      BY <1>1, <2>1, <3>2 DEF Merged
  <2>2. CASE p.tree.report # p.base.report
    <3>1. main.report # p.tree.report
      BY <1>2, <2>2 DEF Numbered
    <3>2. p.base.report = main.report
      BY <1>1, <2>2, <3>1 DEF Merges
    <3>3. p.base.minutes = main.minutes
      BY <1>2, <3>2 DEF MainInv
    <3>4. \A d \in Dates : main'.minutes[d] = p.tree.minutes[d]
      BY <1>1, <3>3 DEF Merged
    <3>5. main'.minutes = p.tree.minutes
      BY <1>2, <1>5, <3>4 DEF Trees
    <3>6. QED
      BY <1>1, <2>2, <3>3, <3>5 DEF Merged
  <2>3. QED
    BY <2>1, <2>2
<1>7. InboxTypeOK'
  BY <1>1, <1>5 DEF InboxTypeOK
<1>8. Processed(p.tree) \subseteq Processed(main') /\ Processed(main) \subseteq Processed(main')
  <2>1. CASE main'.minutes = main.minutes /\ p.tree.report = p.base.report
    BY <1>2, <1>3, <2>1 DEF PullOf, Unreported, MainInv, Processed
  <2>2. CASE main'.minutes = p.tree.minutes /\ main.minutes = p.base.minutes
    BY <1>3, <2>2 DEF PullOf, Processed
  <2>3. QED
    BY <1>6, <2>1, <2>2
<1>9. Minuted(main')
  <2> SUFFICES ASSUME NEW u \in Uploads, IsTranscript(u), Readable(u), Name(u) \in main'.archive
               PROVE  main'.minutes[Date(u)] # NoMinutes
    BY DEF Minuted, Archived
  <2>1. Date(u) \in Processed(main) \/ Date(u) \in Processed(p.tree)
    BY <1>3, <1>5 DEF MainInv, PullOf, Minuted, Archived, Processed, Dates
  <2>2. QED
    BY <1>8, <2>1 DEF Processed
<1>10. CoversUnlessCut(main', cut) /\ main'.report.dates \subseteq Processed(main')
  <2>1. CASE main'.minutes = main.minutes /\ main'.report = main.report
    BY <2>1 DEF MainInv, CoversUnlessCut, Processed
  <2>2. CASE main'.minutes = p.tree.minutes /\ main'.report = p.tree.report
    BY <1>3, <2>2 DEF PullOf, CoversUnlessCut, Processed
  <2>3. QED
    BY <1>6, <2>1, <2>2
<1>11. \A m, n \in Mainline' : m.report = n.report => m.minutes = n.minutes
  <2>1. \A m \in Mainline : m.report = main'.report => m.minutes = main'.minutes
    <3>1. CASE main'.minutes = main.minutes /\ main'.report = main.report
      BY <1>2, <3>1 DEF MainInv
    <3>2. CASE p.tree.report # p.base.report /\ main'.report = p.tree.report
      BY <3>2 DEF Numbered
    <3>3. QED
      BY <1>6, <3>1, <3>2
  <2>2. QED
    BY <1>4, <2>1 DEF MainInv
<1>12. \A m \in Mainline' : Processed(m) \subseteq Processed(main')
  BY <1>4, <1>8 DEF MainInv
<1>13. MainInv'
  BY <1>1, <1>9, <1>10, <1>11, <1>12 DEF MainInv, CoversUnlessCut
<1>14. PullsInv' /\ RunInv'
  BY <1>1 DEF PullsInv, RunInv
<1>15. Numbered'
  <2>1. \/ main'.report = main.report
        \/ p.tree.report # p.base.report /\ main'.report = p.tree.report
    BY <1>6
  <2>2. main'.report.by <= jobs /\ (phase \in Running => main'.report.by # jobs)
    BY <1>2, <2>1 DEF Numbered
  <2>3. phase # "idle" /\ tree.report # base.report => main'.report.by # tree.report.by
    BY <1>2, <2>1 DEF Numbered
  <2>4. \A q \in pulls \ {p} : q.tree.report # q.base.report => main'.report.by # q.tree.report.by
    BY <1>2, <2>1 DEF Numbered
  <2>5. \A m \in Mainline' : m.report.by <= jobs /\ (phase \in Running => m.report.by # jobs)
    BY <1>4, <2>2 DEF Numbered
  <2>6. phase # "idle" /\ tree.report # base.report =>
          \A m \in Mainline' : m.report.by # tree.report.by
    BY <1>4, <2>3 DEF Numbered
  <2>7. \A q \in pulls \ {p} : q.tree.report # q.base.report =>
          \A m \in Mainline' : m.report.by # q.tree.report.by
    BY <1>4, <2>4 DEF Numbered
  <2>8. QED
    BY <1>1, <2>5, <2>6, <2>7 DEF Numbered
<1>16. QED
  BY <1>7, <1>13, <1>14, <1>15

LEMMA CloseKeeps ==
  ASSUME InboxInv, NEW p \in pulls, Close(p)
  PROVE  InboxInv'
<1> USE DEF InboxInv
<1>1. pulls' = pulls \ {p} /\ UNCHANGED <<main, tree, phase, base, pending, jobs, cut>>
  BY DEF Close
<1>2. InboxTypeOK' /\ PullsInv' /\ RunInv'
  BY <1>1 DEF InboxTypeOK, PullsInv, RunInv
<1>3. Mainline' \subseteq Mainline
  BY <1>1 DEF Mainline
<1>4. MainInv'
  BY <1>1, <1>3 DEF MainInv
<1>5. Numbered'
  BY <1>1, <1>3 DEF Numbered
<1>6. QED
  BY <1>2, <1>4, <1>5

LEMMA JobDiesKeeps ==
  ASSUME InboxInv, JobDies
  PROVE  InboxInv'
<1> USE DEF InboxInv
<1>1. /\ phase \in Running /\ phase' = "dead" /\ UNCHANGED <<main, tree, base, pulls, pending, jobs>>
      /\ cut' = (cut \/ (phase = "move" /\ Staged(tree) = {}))
  BY DEF JobDies, Running
<1>2. InboxTypeOK'
  BY <1>1 DEF InboxTypeOK
<1>3. Staged(tree) = {} => CoversUnlessCut(tree, cut')
  <2>1. CASE phase = "done"
    BY <1>1, <2>1, CoversStays DEF RunInv
  <2>2. CASE phase = "move"
    BY <1>1, <2>2 DEF RunInv, CoversUnlessCut
  <2>3. QED
    BY <1>1, <2>1, <2>2 DEF RunInv, Running
<1>4. RunInv'
  BY <1>1, <1>3 DEF RunInv
<1>5. QED
  BY <1>1, <1>2, <1>4, RunStepKeeps DEF Running

LEMMA RestKeeps ==
  ASSUME InboxInv, Dispatch \/ UNCHANGED inboxVars
  PROVE  InboxInv'
<1>1. UNCHANGED <<main, tree, phase, base, pulls, jobs, cut>> /\ pending' \in BOOLEAN
  BY DEF Dispatch, inboxVars, InboxInv, InboxTypeOK
<1>2. InboxTypeOK' /\ RunInv'
  BY <1>1 DEF InboxInv, InboxTypeOK, RunInv
<1>3. QED
  BY <1>1, <1>2, RunStepKeeps

LEMMA NextInbox ==
  ASSUME InboxInv, [InboxNext]_inboxVars
  PROVE  InboxInv'
  BY PushKeeps, JobStartsKeeps, IngestKeeps, IngestEndsKeeps, MoveKeeps, RebuildKeeps, OpenPullKeeps,
     JobDiesKeeps, MergeKeeps, CloseKeeps, RestKeeps DEF InboxNext

LEMMA InductiveInbox == InboxSpec => []InboxInv
<1>1. InboxInit => InboxInv
  BY InitInbox
<1>2. InboxInv /\ [InboxNext]_inboxVars => InboxInv'
  BY NextInbox
<1>3. QED
  BY <1>1, <1>2, PTL DEF InboxSpec

\* No transcript that the glob matches is archived before its day has minutes,
\* on main, in any pull request and in the tree of any run, however runs die, are
\* repeated, wait and are merged (ReadHasMinutes).
THEOREM NoneReadArchivedUnread == InboxSpec => []ReadHasMinutes
<1>1. InboxInv => ReadHasMinutes
  BY InvGivesProperties
<1>2. QED
  BY <1>1, InductiveInbox, PTL

\* The cross-meeting report on main covers all minutes on main, unless a run was
\* cut short of rebuilding it and its report was merged (ReportCoversUnlessCut).
THEOREM MainReportCovers == InboxSpec => []ReportCoversUnlessCut
<1>1. InboxInv => ReportCoversUnlessCut
  BY InvGivesProperties
<1>2. QED
  BY <1>1, InductiveInbox, PTL

-------------------------------------------------------------------------------
(* The turns of a recording. *)

LEMMA MaxIsGreatest ==
  ASSUME NEW n \in Nat, NEW S \in SUBSET (1..n), S # {}
  PROVE  Max(S) \in S /\ \A k \in S : k <= Max(S)
<1>1. S \in SUBSET Nat /\ \A k \in S : k <= n
  OBVIOUS
<1>2. \E x \in S : \A y \in S : y <= x
  BY <1>1, Greatest
<1>3. \E x \in S : \A y \in S : x >= y
  BY <1>1, <1>2
<1>4. Max(S) \in S /\ \A y \in S : Max(S) >= y
  BY <1>3 DEF Max
<1>5. QED
  BY <1>1, <1>4

LEMMA CueShape ==
  ASSUME VttTypeOK
  PROVE  /\ Len(cues) \in Nat /\ DOMAIN cues = 1..Len(cues)
         /\ \A k \in DOMAIN cues : \E n \in Nat : cues[k] \in [1..n -> Lines]
<1>1. PICK m \in 0..MaxCues : cues \in [1..m -> UpTo(Lines, MaxLines)]
  BY DEF VttTypeOK, UpTo
<1>2. m \in Nat
  BY <1>1, PeopleAssumption
<1>3. Len(cues) = m
  BY <1>1, <1>2
<1>4. \A k \in DOMAIN cues : \E n \in 0..MaxLines : cues[k] \in [1..n -> Lines]
  <2>1. \A k \in DOMAIN cues : cues[k] \in UpTo(Lines, MaxLines)
    BY <1>1
  <2>2. QED
    BY <2>1 DEF UpTo
<1>5. QED
  BY <1>1, <1>2, <1>3, <1>4, PeopleAssumption

LEMMA LabelIsAPerson ==
  ASSUME VttTypeOK, NEW k \in DOMAIN cues, Labels(cues[k]) # {}
  PROVE  LastLabel(cues[k]) \in People
<1> DEFINE cue == cues[k]
<1>1. PICK n \in Nat : cue \in [1..n -> Lines]
  BY CueShape
<1>2. Labels(cue) \in SUBSET (1..n)
  BY <1>1 DEF Labels, Heard
<1>3. Max(Labels(cue)) \in Labels(cue)
  BY <1>2, MaxIsGreatest
<1>4. cue[Max(Labels(cue))] \in Lines \ {Unlabelled, Digits}
  <2> DEFINE j == Max(Labels(cue))
  <2>1. j \in 1..n /\ cue[j].who # Nobody
    BY <1>2, <1>3 DEF Labels
  <2>2. cue[j] # Digits
    BY <1>2, <1>3, <2>1 DEF Labels, Heard
  <2>3. cue[j] # Unlabelled
    BY <2>1 DEF Unlabelled
  <2>4. QED
    BY <1>1, <2>1, <2>2, <2>3
<1>5. QED
  BY <1>4 DEF Lines, Labelled, LastLabel

\* The speaker changes only at a cue that has a label and text.
LEMMA SpeakerOfNext ==
  ASSUME VttTypeOK, NEW k \in DOMAIN cues
  PROVE  SpeakerOf(k) = IF HasText(cues[k]) THEN Resolved(cues[k], SpeakerOf(k - 1)) ELSE SpeakerOf(k - 1)
<1>1. k \in Nat /\ 1..k = (1..(k - 1)) \union {k} /\ k \notin 1..(k - 1)
  BY CueShape
<1>2. CASE HasText(cues[k]) /\ Labels(cues[k]) # {}
  <2>1. k \in Named(k) /\ Named(k) \in SUBSET (1..k)
    BY <1>1, <1>2 DEF Named
  <2>2. Max(Named(k)) \in 1..k /\ k <= Max(Named(k))
    BY <1>1, <2>1, MaxIsGreatest
  <2>3. Max(Named(k)) = k
    BY <1>1, <2>2
  <2>4. QED
    BY <1>2, <2>1, <2>3 DEF SpeakerOf, Resolved
<1>3. CASE ~ (HasText(cues[k]) /\ Labels(cues[k]) # {})
  <2>1. Named(k) = Named(k - 1)
    BY <1>1, <1>3 DEF Named
  <2>2. SpeakerOf(k) = SpeakerOf(k - 1)
    BY <2>1 DEF SpeakerOf
  <2>3. QED
    BY <1>3, <2>2 DEF Resolved
<1>4. QED
  BY <1>2, <1>3

InTurns(T, k) == \E i \in DOMAIN T : \E j \in DOMAIN T[i].cues : T[i].cues[j] = k

\* Turns that say nothing but what was recorded, in order.
Recorded(T) ==
  /\ \A i \in DOMAIN T : \A j \in DOMAIN T[i].cues :
       T[i].cues[j] \in Spoken /\ SpeakerOf(T[i].cues[j]) = T[i].speaker
  /\ \A i, m \in DOMAIN T : \A j \in DOMAIN T[i].cues, l \in DOMAIN T[m].cues :
       i < m \/ (i = m /\ j < l) => T[i].cues[j] < T[m].cues[l]
  /\ \A i \in DOMAIN T : i > 1 => T[i].speaker # T[i - 1].speaker

Before(T, n) == \A i \in DOMAIN T : \A j \in DOMAIN T[i].cues : T[i].cues[j] < n

\* The turn that is being read: cues of the current speaker, after all turns.
PartsRecorded ==
  /\ \A j \in DOMAIN parts :
       parts[j] \in DOMAIN cues /\ HasText(cues[parts[j]]) /\ SpeakerOf(parts[j]) = speaker
  /\ \A j, l \in DOMAIN parts : j < l => parts[j] < parts[l]
  /\ \A j \in DOMAIN parts : Before(turns, parts[j]) /\ parts[j] < next

ReadSoFar ==
  /\ next <= Len(cues) + 1
  /\ speaker = SpeakerOf(next - 1)
  /\ PartsRecorded
  /\ Before(turns, next)
  /\ \A k \in Spoken : k < next => InTurns(turns, k) \/ \E j \in DOMAIN parts : parts[j] = k
  /\ turns # <<>> => parts # <<>> /\ speaker # Nobody /\ turns[Len(turns)].speaker # speaker

VttInv ==
  /\ VttTypeOK
  /\ Recorded(turns)
  /\ ReadSoFar \/ (next = Len(cues) + 2 /\ \A k \in Spoken : InTurns(turns, k))

LEMMA InitTurns == VttInit => VttInv
<1> SUFFICES ASSUME VttInit PROVE VttInv
  OBVIOUS
<1>1. VttTypeOK
  BY DEF VttInit, VttTypeOK
<1>2. Len(cues) \in Nat /\ DOMAIN cues = 1..Len(cues)
  BY <1>1, CueShape
<1>3. Named(0) = {}
  BY DEF Named
<1>4. SpeakerOf(next - 1) = Nobody
  BY <1>3 DEF SpeakerOf, VttInit
<1>5. \A k \in Spoken : ~ (k < next)
  BY <1>2 DEF Spoken, VttInit
<1>6. QED
  BY <1>1, <1>2, <1>4, <1>5 DEF VttInit, VttInv, Recorded, ReadSoFar, PartsRecorded, Before

\* A flush puts what is being read behind the turns.
LEMMA FlushRecords ==
  ASSUME VttTypeOK, Recorded(turns), ReadSoFar
  PROVE  /\ Flushed \in Seq([speaker : People, cues : Seq(Nat)])
         /\ Recorded(Flushed) /\ Before(Flushed, next)
         /\ \A k \in Spoken : k < next => InTurns(Flushed, k)
         /\ Flushed # <<>> => speaker # Nobody /\ parts # <<>> /\ Flushed[Len(Flushed)].speaker = speaker
<1>1. CASE parts # <<>> /\ speaker # Nobody
  <2> DEFINE turn == [speaker |-> speaker, cues |-> parts]
             T == Append(turns, turn)
             n == Len(turns)
  <2>1. turn \in [speaker : People, cues : Seq(Nat)]
    BY <1>1 DEF VttTypeOK
  <2>2. /\ T \in Seq([speaker : People, cues : Seq(Nat)]) /\ Len(T) = n + 1
        /\ T[n + 1] = turn /\ \A i \in 1..n : T[i] = turns[i]
    BY <2>1, AppendProperties DEF VttTypeOK
  <2>3. turn.speaker = speaker /\ turn.cues = parts /\ Flushed = T
    BY <1>1 DEF Flushed
  <2>4. n \in Nat /\ DOMAIN turns = 1..n /\ DOMAIN T = 1..(n + 1) /\ n + 1 \in DOMAIN T
    BY <2>2 DEF VttTypeOK
  <2> HIDE DEF turn, T, n
  <2>5. \A i \in DOMAIN T : (i \in DOMAIN turns /\ T[i] = turns[i]) \/ (i = n + 1 /\ T[i] = turn)
    BY <2>2, <2>4
  <2>6. \A j \in DOMAIN parts : parts[j] \in Spoken
    BY <1>1 DEF ReadSoFar, PartsRecorded, Spoken
  <2>7. \A i \in DOMAIN T : \A j \in DOMAIN T[i].cues :
          T[i].cues[j] \in Spoken /\ SpeakerOf(T[i].cues[j]) = T[i].speaker
    BY <2>3, <2>5, <2>6 DEF Recorded, ReadSoFar, PartsRecorded
  <2>8. \A i, m \in DOMAIN T : \A j \in DOMAIN T[i].cues, l \in DOMAIN T[m].cues :
          i < m \/ (i = m /\ j < l) => T[i].cues[j] < T[m].cues[l]
    <3> SUFFICES ASSUME NEW i \in DOMAIN T, NEW m \in DOMAIN T,
                        NEW j \in DOMAIN T[i].cues, NEW l \in DOMAIN T[m].cues,
                        i < m \/ (i = m /\ j < l)
                 PROVE  T[i].cues[j] < T[m].cues[l]
      OBVIOUS
    <3>1. CASE m \in DOMAIN turns
      <4>1. i \in DOMAIN turns
        BY <2>4, <3>1
      <4>2. T[i] = turns[i] /\ T[m] = turns[m]
        BY <2>2, <2>4, <3>1, <4>1
      <4>3. QED
        BY <3>1, <4>1, <4>2 DEF Recorded
    <3>2. CASE m = n + 1 /\ i \in DOMAIN turns
      <4>1. T[i] = turns[i] /\ T[m] = turn
        BY <2>2, <2>4, <3>2
      <4>2. QED
        BY <2>3, <3>2, <4>1 DEF ReadSoFar, PartsRecorded, Before
    <3>3. CASE m = n + 1 /\ i = n + 1
      <4>1. T[i] = turn /\ T[m] = turn /\ j < l
        BY <2>2, <2>4, <3>3
      <4>2. QED
        BY <2>3, <4>1 DEF ReadSoFar, PartsRecorded
    <3>4. QED
      BY <2>4, <3>1, <3>2, <3>3
  <2>9. \A i \in DOMAIN T : i > 1 => T[i].speaker # T[i - 1].speaker
    <3> SUFFICES ASSUME NEW i \in DOMAIN T, i > 1 PROVE T[i].speaker # T[i - 1].speaker
      OBVIOUS
    <3>1. CASE i \in DOMAIN turns
      <4>1. i - 1 \in DOMAIN turns /\ T[i] = turns[i] /\ T[i - 1] = turns[i - 1]
        BY <2>2, <2>4, <3>1
      <4>2. QED
        BY <3>1, <4>1 DEF Recorded
    <3>2. CASE i = n + 1
      <4>1. n \in 1..n /\ i - 1 = n /\ T[n] = turns[n] /\ T[i] = turn
        BY <2>2, <2>4, <3>2
      <4>2. turns # <<>>
        BY <4>1 DEF n
      <4>3. turns[n].speaker # speaker
        BY <4>2 DEF ReadSoFar, n
      <4>4. QED
        BY <2>3, <4>1, <4>3
    <3>3. QED
      BY <2>4, <3>1, <3>2
  <2>10. Before(T, next)
    BY <2>3, <2>5 DEF ReadSoFar, PartsRecorded, Before
  <2>11. ASSUME NEW k \in Spoken, k < next PROVE InTurns(T, k)
    <3>1. CASE InTurns(turns, k)
      <4>1. PICK i \in DOMAIN turns : \E j \in DOMAIN turns[i].cues : turns[i].cues[j] = k
        BY <3>1 DEF InTurns
      <4>2. i \in DOMAIN T /\ T[i] = turns[i]
        BY <2>2, <2>4
      <4>3. QED
        BY <4>1, <4>2 DEF InTurns
    <3>2. CASE \E j \in DOMAIN parts : parts[j] = k
      <4>1. T[n + 1].cues = parts
        BY <2>2, <2>3
      <4>2. QED
        BY <2>4, <3>2, <4>1 DEF InTurns
    <3>3. QED
      BY <2>11, <3>1, <3>2 DEF ReadSoFar
  <2>12. T[Len(T)].speaker = speaker
    BY <2>2, <2>3
  <2>13. QED
    BY <1>1, <2>2, <2>3, <2>7, <2>8, <2>9, <2>10, <2>11, <2>12 DEF Recorded
<1>2. CASE ~ (parts # <<>> /\ speaker # Nobody)
  <2>1. Flushed = turns /\ turns = <<>>
    BY <1>2 DEF Flushed, ReadSoFar
  <2>2. ASSUME NEW k \in Spoken, k < next PROVE FALSE
    <3>1. PICK j \in DOMAIN parts : parts[j] = k
      BY <2>1, <2>2 DEF ReadSoFar, InTurns
    <3>2. SpeakerOf(k) = speaker /\ parts # <<>>
      BY <3>1 DEF ReadSoFar, PartsRecorded
    <3>3. QED
      BY <1>2, <3>2 DEF Spoken
  <2>3. QED
    BY <2>1, <2>2 DEF VttTypeOK, ReadSoFar
<1>3. QED
  BY <1>1, <1>2

LEMMA ReadCueKeeps ==
  ASSUME VttInv, ReadCue
  PROVE  VttInv'
<1> DEFINE who == Resolved(cues[next], speaker)
<1>1. VttTypeOK /\ Recorded(turns) /\ ReadSoFar /\ next \in DOMAIN cues /\ next' = next + 1 /\ cues' = cues
  <2>1. VttTypeOK /\ Recorded(turns) /\ next <= Len(cues) /\ next' = next + 1 /\ cues' = cues
    BY DEF VttInv, ReadCue
  <2>2. next \in DOMAIN cues /\ ~ (next = Len(cues) + 2)
    BY <2>1, CueShape DEF VttTypeOK
  <2>3. QED
    BY <2>1, <2>2 DEF VttInv
<1>2. next \in Nat \ {0} /\ next' <= Len(cues) + 1 /\ next' - 1 = next /\ \A k \in DOMAIN cues : k \in Nat
  BY <1>1, CueShape DEF VttTypeOK
<1>3. Spoken' = Spoken /\ \A k : SpeakerOf(k)' = SpeakerOf(k)
  BY <1>1 DEF Spoken, SpeakerOf, Named
<1>4. SpeakerOf(next) = IF HasText(cues[next]) THEN who ELSE speaker
  BY <1>1, SpeakerOfNext DEF ReadSoFar
<1>5. who \in People \union {Nobody} /\ (speaker # Nobody => who # Nobody)
  BY <1>1, LabelIsAPerson, PeopleAssumption DEF Resolved, VttTypeOK
<1>6. \A T : Recorded(T) /\ Before(T, next) => Before(T, next')
  <2> SUFFICES ASSUME NEW T, Recorded(T), Before(T, next), NEW i \in DOMAIN T, NEW j \in DOMAIN T[i].cues
               PROVE  T[i].cues[j] < next + 1
    BY <1>1 DEF Before
  <2>1. T[i].cues[j] \in DOMAIN cues /\ T[i].cues[j] < next
    BY DEF Recorded, Before, Spoken
  <2>2. QED
    BY <1>2, <2>1
<1>7. ASSUME NEW k \in Spoken, k < next' PROVE k < next \/ (k = next /\ HasText(cues[next]))
  <2>1. k \in DOMAIN cues /\ HasText(cues[k])
    BY <1>7 DEF Spoken
  <2>2. QED
    BY <1>1, <1>2, <1>7, <2>1
<1>8. CASE ~HasText(cues[next])
  <2>1. UNCHANGED <<speaker, parts, turns, cues>>
    BY <1>1, <1>8 DEF ReadCue
  <2>2. VttTypeOK' /\ Recorded(turns)' /\ Before(turns, next)'
    <3>1. VttTypeOK'
      BY <1>1, <1>2, <2>1 DEF VttTypeOK
    <3>2. Recorded(turns)'
      BY <1>1, <1>3, <2>1 DEF Recorded
    <3>3. Before(turns, next)'
      BY <1>1, <1>6, <2>1 DEF ReadSoFar, Before
    <3>4. QED
      BY <3>1, <3>2, <3>3
  <2>3. PartsRecorded'
    <3>1. \A j \in DOMAIN parts : parts[j] \in Nat /\ parts[j] < next
      BY <1>1, <1>2 DEF ReadSoFar, PartsRecorded
    <3>2. \A j \in DOMAIN parts : parts[j] < next'
      BY <1>1, <1>2, <3>1
    <3>3. QED
      BY <1>1, <1>3, <2>1, <3>2 DEF ReadSoFar, PartsRecorded, Before
  <2>4. \A k \in Spoken : k < next' => InTurns(turns, k) \/ \E j \in DOMAIN parts : parts[j] = k
    BY <1>1, <1>7, <1>8 DEF ReadSoFar
  <2>5. ReadSoFar'
    BY <1>1, <1>2, <1>3, <1>4, <1>8, <2>1, <2>2, <2>3, <2>4 DEF ReadSoFar, InTurns
  <2>6. QED
    BY <2>2, <2>5 DEF VttInv
<1>9. CASE HasText(cues[next]) /\ who = speaker /\ parts # <<>>
  <2>1. parts' = Append(parts, next) /\ UNCHANGED <<speaker, turns, cues>>
    BY <1>1, <1>9 DEF ReadCue
  <2> DEFINE m == Len(parts)
  <2>2. /\ parts' \in Seq(Nat) /\ Len(parts') = m + 1 /\ parts'[m + 1] = next
        /\ \A j \in 1..m : parts'[j] = parts[j]
    BY <1>1, <1>2, <2>1, AppendProperties DEF VttTypeOK
  <2>3. m \in Nat /\ DOMAIN parts = 1..m /\ DOMAIN parts' = 1..(m + 1)
    BY <1>1, <2>2 DEF VttTypeOK
  <2> HIDE DEF m
  <2>4. VttTypeOK' /\ Recorded(turns)' /\ Before(turns, next)'
    <3>1. VttTypeOK'
      BY <1>1, <1>2, <2>1, <2>2 DEF VttTypeOK
    <3>2. Recorded(turns)'
      BY <1>1, <1>3, <2>1 DEF Recorded
    <3>3. Before(turns, next)'
      BY <1>1, <1>6, <2>1 DEF ReadSoFar, Before
    <3>4. QED
      BY <3>1, <3>2, <3>3
  <2>5. \A j \in DOMAIN parts' :
          (j \in DOMAIN parts /\ parts'[j] = parts[j]) \/ (j = m + 1 /\ parts'[j] = next)
    BY <2>2, <2>3
  <2>6. \A j \in DOMAIN parts : parts[j] \in Nat /\ parts[j] < next
    BY <1>1, <1>2 DEF ReadSoFar, PartsRecorded
  <2>7. PartsRecorded'
    <3>1. \A j \in DOMAIN parts' :
            parts'[j] \in DOMAIN cues /\ HasText(cues[parts'[j]]) /\ SpeakerOf(parts'[j]) = speaker
      BY <1>1, <1>4, <1>9, <2>5 DEF ReadSoFar, PartsRecorded
    <3>2. \A j, l \in DOMAIN parts' : j < l => parts'[j] < parts'[l]
      <4> SUFFICES ASSUME NEW j \in DOMAIN parts', NEW l \in DOMAIN parts', j < l
                   PROVE  parts'[j] < parts'[l]
        OBVIOUS
      <4>1. j \in DOMAIN parts /\ parts'[j] = parts[j]
        BY <2>3, <2>5
      <4>2. CASE l \in DOMAIN parts /\ parts'[l] = parts[l]
        BY <1>1, <4>1, <4>2 DEF ReadSoFar, PartsRecorded
      <4>3. CASE parts'[l] = next
        BY <2>6, <4>1, <4>3
      <4>4. QED
        BY <2>5, <4>2, <4>3
    <3>3. \A j \in DOMAIN parts' : Before(turns, parts'[j]) /\ parts'[j] < next'
      BY <1>1, <1>2, <2>5, <2>6 DEF ReadSoFar, PartsRecorded
    <3>4. QED
      BY <1>1, <1>3, <2>1, <3>1, <3>2, <3>3 DEF PartsRecorded, Before
  <2>8. \A k \in Spoken : k < next' => InTurns(turns, k) \/ \E j \in DOMAIN parts' : parts'[j] = k
    <3> SUFFICES ASSUME NEW k \in Spoken, k < next'
                 PROVE  InTurns(turns, k) \/ \E j \in DOMAIN parts' : parts'[j] = k
      OBVIOUS
    <3>1. CASE k = next
      BY <2>2, <2>3, <3>1
    <3>2. CASE k < next
      <4>1. CASE \E j \in DOMAIN parts : parts[j] = k
        BY <2>2, <2>3, <4>1
      <4>2. QED
        BY <1>1, <3>2, <4>1 DEF ReadSoFar
    <3>3. QED
      BY <1>7, <3>1, <3>2
  <2>9. parts' # <<>>
    BY <2>2, <2>3
  <2>10. ReadSoFar'
    BY <1>1, <1>2, <1>3, <1>4, <1>9, <2>1, <2>4, <2>7, <2>8, <2>9 DEF ReadSoFar, InTurns
  <2>11. QED
    BY <2>4, <2>10 DEF VttInv
<1>10. CASE HasText(cues[next]) /\ ~(who = speaker /\ parts # <<>>)
  <2>1. turns' = Flushed /\ speaker' = who /\ parts' = <<next>> /\ cues' = cues
    BY <1>1, <1>10 DEF ReadCue
  <2>2. /\ turns' \in Seq([speaker : People, cues : Seq(Nat)])
        /\ Recorded(turns') /\ Before(turns', next)
        /\ \A k \in Spoken : k < next => InTurns(turns', k)
        /\ turns' # <<>> => speaker # Nobody /\ parts # <<>> /\ turns'[Len(turns')].speaker = speaker
    BY <1>1, <2>1, FlushRecords
  <2>3. VttTypeOK'
    BY <1>1, <1>2, <1>5, <2>1, <2>2 DEF VttTypeOK
  <2>4. Recorded(turns)'
    BY <1>1, <1>3, <2>2 DEF Recorded
  <2>5. Before(turns, next)'
    BY <1>6, <2>2 DEF Before
  <2>6. DOMAIN parts' = {1} /\ parts'[1] = next /\ parts' # <<>>
    BY <2>1
  <2>7. next < next'
    BY <1>1, <1>2
  <2>8. PartsRecorded'
    BY <1>1, <1>2, <1>3, <1>4, <1>10, <2>1, <2>2, <2>6, <2>7 DEF PartsRecorded, Before
  <2>9. \A k \in Spoken : k < next' => InTurns(turns', k) \/ \E j \in DOMAIN parts' : parts'[j] = k
    BY <1>7, <2>2, <2>6
  <2>10. turns' # <<>> => who # Nobody /\ turns'[Len(turns')].speaker # who
    BY <1>5, <1>10, <2>2
  <2>11. ReadSoFar'
    BY <1>1, <1>2, <1>3, <1>4, <1>10, <2>1, <2>5, <2>6, <2>8, <2>9, <2>10 DEF ReadSoFar, InTurns
  <2>12. QED
    BY <2>3, <2>4, <2>11 DEF VttInv
<1>11. QED
  BY <1>8, <1>9, <1>10

LEMMA EndOfFileKeeps ==
  ASSUME VttInv, EndOfFile
  PROVE  VttInv'
<1>1. VttTypeOK /\ Recorded(turns) /\ ReadSoFar /\ next = Len(cues) + 1 /\ next' = next + 1
      /\ turns' = Flushed /\ parts' = <<>> /\ UNCHANGED <<cues, speaker>>
  BY CueShape DEF VttInv, EndOfFile
<1>2. /\ turns' \in Seq([speaker : People, cues : Seq(Nat)]) /\ Recorded(turns')
      /\ \A k \in Spoken : k < next => InTurns(turns', k)
  BY <1>1, FlushRecords
<1>3. Spoken' = Spoken /\ \A k : SpeakerOf(k)' = SpeakerOf(k)
  BY <1>1 DEF Spoken, SpeakerOf, Named
<1>4. VttTypeOK' /\ Recorded(turns)'
  BY <1>1, <1>2, <1>3 DEF VttTypeOK, Recorded
<1>5. \A k \in Spoken : k < next
  BY <1>1, CueShape DEF Spoken
<1>6. next' = Len(cues') + 2
  BY <1>1, CueShape
<1>7. QED
  BY <1>2, <1>3, <1>4, <1>5, <1>6 DEF VttInv, InTurns

LEMMA NextTurns ==
  ASSUME VttInv, [VttNext]_vttVars
  PROVE  VttInv'
<1>1. CASE UNCHANGED vttVars
  <2>1. /\ UNCHANGED <<cues, next, speaker, parts, turns>>
        /\ Spoken' = Spoken /\ \A k : SpeakerOf(k)' = SpeakerOf(k)
    BY <1>1 DEF vttVars, Spoken, SpeakerOf, Named
  <2>2. VttTypeOK' /\ Recorded(turns)'
    BY <2>1 DEF VttInv, VttTypeOK, Recorded
  <2>3. ReadSoFar => ReadSoFar'
    BY <2>1 DEF ReadSoFar, PartsRecorded, Before, InTurns
  <2>4. QED
    BY <2>1, <2>2, <2>3 DEF VttInv, InTurns
<1>2. QED
  BY <1>1, ReadCueKeeps, EndOfFileKeeps DEF VttNext

\* The turns are the recording, for one of any number of cues of any number of
\* lines and speakers (TurnsAreTheRecording).
THEOREM TurnsFollowRecording == VttSpec => []TurnsAreTheRecording
<1>1. VttInit => VttInv
  BY InitTurns
<1>2. VttInv /\ [VttNext]_vttVars => VttInv'
  BY NextTurns
<1>3. VttInv => TurnsAreTheRecording
  <2> SUFFICES ASSUME VttInv, next > Len(cues) + 1
               PROVE  Recorded(turns) /\ \A k \in Spoken : InTurns(turns, k)
    BY DEF TurnsAreTheRecording, Recorded, InTurns
  <2>1. next \in Nat /\ Len(cues) \in Nat
    BY CueShape DEF VttInv, VttTypeOK
  <2>2. ~ReadSoFar
    BY <2>1 DEF ReadSoFar
  <2>3. QED
    BY <2>2 DEF VttInv
<1>4. QED
  BY <1>1, <1>2, <1>3, PTL DEF VttSpec

-------------------------------------------------------------------------------
(* Requirements extracted from meetings. *)

\* What is on disk: finitely many numbers, none with the title of another.
OnDisk ==
  /\ DOMAIN reqs \in SUBSET Nat
  /\ IsFiniteSet(DOMAIN reqs)
  /\ \A m, n \in DOMAIN reqs : reqs[m] = reqs[n] => m = n

\* While a run reads meetings, the number it gives next is after all that are on
\* disk, and it knows every title there.
KnowsDisk ==
  run.at = "requirements" =>
    /\ run = [at |-> "requirements", left |-> run.left, titles |-> run.titles,
              next |-> run.next, decisions |-> run.decisions]
    /\ run.next \in Nat
    /\ \A n \in DOMAIN reqs : n < run.next /\ reqs[n] \in run.titles

Drafting ==
  run.at = "adrs" => run = [at |-> "adrs", made |-> run.made, decisions |-> run.decisions]

ExtractInv == OnDisk /\ KnowsDisk /\ Drafting

LEMMA InitOnDisk == ExtractInit => ExtractInv
<1> SUFFICES ASSUME ExtractInit PROVE ExtractInv
  OBVIOUS
<1>1. DOMAIN reqs = {}
  BY DEF ExtractInit, NoFiles
<1>2. IsFiniteSet(DOMAIN reqs)
  BY <1>1, FS_EmptySet
<1>3. run.at = "none"
  BY DEF ExtractInit, NoRun
<1>4. QED
  BY <1>1, <1>2, <1>3 DEF ExtractInv, OnDisk, KnowsDisk, Drafting

LEMMA NextNumberIsAfterAll ==
  ASSUME OnDisk
  PROVE  NextNumber \in Nat /\ \A n \in DOMAIN reqs : n < NextNumber
<1>1. CASE DOMAIN reqs = {}
  BY <1>1 DEF NextNumber
<1>2. CASE DOMAIN reqs # {}
  <2>1. PICK m \in Nat : \A x \in DOMAIN reqs : x <= m
    BY FiniteIsBounded DEF OnDisk
  <2>2. \E x \in DOMAIN reqs : \A y \in DOMAIN reqs : x >= y
    <3>1. \E x \in DOMAIN reqs : \A y \in DOMAIN reqs : y <= x
      BY <1>2, <2>1, Greatest DEF OnDisk
    <3>2. QED
      BY <3>1 DEF OnDisk
  <2>3. Max(DOMAIN reqs) \in DOMAIN reqs /\ \A y \in DOMAIN reqs : Max(DOMAIN reqs) >= y
    BY <2>2 DEF Max
  <2>4. QED
    BY <1>2, <2>3 DEF NextNumber, OnDisk
<1>3. QED
  BY <1>1, <1>2

LEMMA StartsKnowsDisk ==
  ASSUME ExtractInv, Starts
  PROVE  ExtractInv'
<1>1. run' = [at |-> "requirements", left |-> Meetings, titles |-> TitlesOnDisk,
              next |-> NextNumber, decisions |-> <<>>]
      /\ reqs' = reqs
  BY DEF Starts
<1>2. NextNumber \in Nat /\ \A n \in DOMAIN reqs : n < NextNumber
  BY NextNumberIsAfterAll DEF ExtractInv
<1>3. \A n \in DOMAIN reqs : reqs[n] \in TitlesOnDisk
  BY DEF TitlesOnDisk
<1>4. KnowsDisk' /\ Drafting'
  BY <1>1, <1>2, <1>3 DEF KnowsDisk, Drafting
<1>5. QED
  BY <1>1, <1>4 DEF ExtractInv, OnDisk

\* The numbers and titles that a list adds: after next, one for each title.
LEMMA RanksAreNumbers ==
  ASSUME NEW S, IsFiniteSet(S), S \in SUBSET Nat, NEW i \in S
  PROVE  Rank(S, i) \in 1..Cardinality(S)
<1> DEFINE upto == {j \in S : j <= i}
<1>1. IsFiniteSet(upto) /\ Cardinality(upto) <= Cardinality(S)
  BY FS_Subset
<1>2. upto # {}
  OBVIOUS
<1>3. Cardinality(upto) \in Nat /\ Cardinality(S) \in Nat /\ Cardinality(upto) # 0
  BY <1>1, <1>2, FS_CardinalityType, FS_EmptySet
<1>4. QED
  BY <1>1, <1>3 DEF Rank

LEMMA InOrderIsFromList ==
  ASSUME NEW list, NEW S, NEW k \in DOMAIN InOrder(list, S)
  PROVE  \E i \in S : Rank(S, i) = k /\ InOrder(list, S)[k] = list[i]
<1>1. k \in {Rank(S, i) : i \in S}
  BY DEF InOrder
<1>2. InOrder(list, S)[k] = list[CHOOSE i \in S : Rank(S, i) = k]
  BY <1>1 DEF InOrder
<1>3. QED
  BY <1>1, <1>2

LEMMA ListsAreSequences ==
  ASSUME NEW S, NEW s \in Lists(S)
  PROVE  s \in Seq(S)
<1>1. CASE s = <<>>
  BY <1>1
<1>2. ASSUME NEW x \in S, s = <<x>> PROVE s \in Seq(S)
  BY <1>2
<1>3. ASSUME NEW x \in S, NEW y \in S, s = <<x, y>> PROVE s \in Seq(S)
  BY <1>3
<1>4. QED
  BY <1>1, <1>2, <1>3 DEF Lists

LEMMA ReadMeetingKeepsDisk ==
  ASSUME ExtractInv, NEW titles \in Lists(Titles), NEW texts, ReadMeeting(titles, texts)
  PROVE  /\ ExtractInv'
         /\ \A n \in DOMAIN reqs : n \in DOMAIN reqs' /\ reqs'[n] = reqs[n]
<1> DEFINE fresh == {i \in FirstOf(titles) : titles[i] \notin run.titles}
           new == InOrder(titles, fresh)
           numbers == {run.next + k - 1 : k \in DOMAIN new}
           files == [n \in numbers |-> new[n - run.next + 1]]
           more == [i \in DOMAIN texts |-> [date |-> Head(run.left), text |-> texts[i]]]
<1>1. /\ run = [at |-> "requirements", left |-> run.left, titles |-> run.titles,
                next |-> run.next, decisions |-> run.decisions]
      /\ run.next \in Nat
      /\ \A n \in DOMAIN reqs : n < run.next /\ reqs[n] \in run.titles
      /\ run.at = "requirements"
  BY DEF ReadMeeting, ExtractInv, KnowsDisk
<1>2. run' = [run EXCEPT
              !.left = Tail(@),
              !.titles = @ \union ToSet(titles),
              !.next = @ + Cardinality(fresh),
              !.decisions = @ \o more]
      /\ reqs' = [n \in DOMAIN files \union DOMAIN reqs |->
                   IF n \in DOMAIN files THEN files[n] ELSE reqs[n]]
  BY DEF ReadMeeting
<1>3. titles \in Seq(Titles) /\ DOMAIN titles \in SUBSET Nat /\ IsFiniteSet(DOMAIN titles)
  <2>1. titles \in Seq(Titles)
    BY ListsAreSequences
  <2>2. DOMAIN titles = 1..Len(titles) /\ Len(titles) \in Nat
    BY <2>1
  <2>3. QED
    BY <2>1, <2>2, FS_Interval
<1>4. fresh \subseteq DOMAIN titles /\ IsFiniteSet(fresh) /\ Cardinality(fresh) \in Nat
  <2>1. fresh \subseteq DOMAIN titles
    BY DEF FirstOf
  <2>2. QED
    BY <1>3, <2>1, FS_Subset, FS_CardinalityType
<1>5. \A i, j \in fresh : titles[i] = titles[j] => i = j
  <2> SUFFICES ASSUME NEW i \in fresh, NEW j \in fresh, titles[i] = titles[j], i < j
               PROVE  FALSE
    BY <1>3, <1>4
  <2>1. i \in 1..(j - 1)
    BY <1>3, <1>4
  <2>2. QED
    BY <2>1 DEF FirstOf
<1>6. \A n \in numbers : \E i \in fresh :
        /\ n = run.next + Rank(fresh, i) - 1
        /\ Rank(fresh, i) \in 1..Cardinality(fresh)
        /\ files[n] = titles[i]
  <2> SUFFICES ASSUME NEW k \in DOMAIN new
               PROVE  \E i \in fresh :
                        /\ run.next + k - 1 = run.next + Rank(fresh, i) - 1
                        /\ Rank(fresh, i) \in 1..Cardinality(fresh)
                        /\ files[run.next + k - 1] = titles[i]
    OBVIOUS
  <2>1. PICK i \in fresh : Rank(fresh, i) = k /\ new[k] = titles[i]
    <3> HIDE DEF fresh
    <3>1. QED
      BY InOrderIsFromList
  <2>2. Rank(fresh, i) \in 1..Cardinality(fresh)
    <3> HIDE DEF fresh
    <3>1. QED
      BY <1>3, <1>4, RanksAreNumbers
  <2>3. run.next + k - 1 \in numbers /\ (run.next + k - 1) - run.next + 1 = k
    <3>1. k \in Nat /\ run.next \in Nat
      <4> HIDE DEF fresh
      <4>1. QED
        BY <1>1, <1>4, <2>1, <2>2
    <3>2. run.next + k - 1 \in numbers
      OBVIOUS
    <3> HIDE DEF fresh, new, numbers, files
    <3>3. QED
      BY <3>1, <3>2
  <2>4. files[run.next + k - 1] = titles[i]
    BY <2>1, <2>3
  <2>5. QED
    BY <2>1, <2>2, <2>4
<1>7. \A n \in numbers : n \in Nat /\ n >= run.next /\ n < run.next + Cardinality(fresh)
  <2> HIDE DEF fresh, numbers, files
  <2>1. QED
    BY <1>1, <1>4, <1>6
<1>8. \A n \in numbers : files[n] \notin run.titles /\ files[n] \in ToSet(titles)
  <2>1. \A i \in fresh : titles[i] \notin run.titles /\ titles[i] \in ToSet(titles)
    BY <1>4 DEF ToSet
  <2> HIDE DEF fresh, numbers, files
  <2>2. QED
    BY <1>6, <2>1
<1>9. \A m, n \in numbers : files[m] = files[n] => m = n
  <2> HIDE DEF fresh, numbers, files
  <2>1. QED
    BY <1>5, <1>6
<1>10. DOMAIN reqs' = numbers \union DOMAIN reqs
       /\ (\A n \in numbers : reqs'[n] = files[n])
       /\ (\A n \in DOMAIN reqs \ numbers : reqs'[n] = reqs[n])
  <2>1. DOMAIN files = numbers
    OBVIOUS
  <2> HIDE DEF numbers, files
  <2>2. QED
    BY <1>2, <2>1
<1>11. IsFiniteSet(numbers)
  <2>1. IsFiniteSet(run.next..(run.next + Cardinality(fresh)))
    BY <1>1, <1>4, FS_Interval
  <2>2. numbers \subseteq run.next..(run.next + Cardinality(fresh))
    <3> HIDE DEF fresh, numbers
    <3>1. QED
      BY <1>1, <1>4, <1>7
  <2>3. QED
    BY <2>1, <2>2, FS_Subset
<1>12. run' = [at |-> "requirements", left |-> Tail(run.left),
               titles |-> run.titles \union ToSet(titles),
               next |-> run.next + Cardinality(fresh),
               decisions |-> run.decisions \o more]
  <2> HIDE DEF fresh, more
  <2>1. QED
    BY <1>1, <1>2
<1> HIDE DEF fresh, new, numbers, files, more
<1>13. \A n \in DOMAIN reqs : n \notin numbers
  BY <1>1, <1>7
<1>14. OnDisk'
  <2>1. DOMAIN reqs' \in SUBSET Nat /\ IsFiniteSet(DOMAIN reqs')
    <3>1. IsFiniteSet(DOMAIN reqs) /\ DOMAIN reqs \in SUBSET Nat
      BY DEF ExtractInv, OnDisk
    <3>2. IsFiniteSet(numbers \union DOMAIN reqs)
      BY <3>1, <1>11, FS_Union
    <3>3. QED
      BY <3>1, <3>2, <1>7, <1>10
  <2>2. \A m, n \in DOMAIN reqs' : reqs'[m] = reqs'[n] => m = n
    BY <1>1, <1>8, <1>9, <1>10, <1>13 DEF ExtractInv, OnDisk
  <2>3. QED
    BY <2>1, <2>2 DEF OnDisk
<1>15. KnowsDisk'
  <2>1. \A n \in DOMAIN reqs' : n < run'.next
    BY <1>1, <1>4, <1>7, <1>10, <1>12 DEF ExtractInv, OnDisk
  <2>2. \A n \in DOMAIN reqs' : reqs'[n] \in run'.titles
    BY <1>1, <1>8, <1>10, <1>12, <1>13
  <2>3. run'.next \in Nat
    BY <1>1, <1>4, <1>12
  <2>4. QED
    BY <1>12, <2>1, <2>2, <2>3 DEF KnowsDisk
<1>16. QED
  BY <1>10, <1>12, <1>13, <1>14, <1>15 DEF ExtractInv, Drafting

LEMMA NextOnDisk ==
  ASSUME ExtractInv, [ExtractNext]_extractVars
  PROVE  /\ ExtractInv'
         /\ \A n \in DOMAIN reqs \intersect DOMAIN reqs' : reqs'[n] = reqs[n]
<1>1. CASE Starts
  <2>1. reqs' = reqs
    BY <1>1 DEF Starts
  <2>2. QED
    BY <1>1, <2>1, StartsKnowsDisk
<1>2. ASSUME NEW titles \in Lists(Titles), NEW texts \in Lists(Texts), ReadMeeting(titles, texts)
      PROVE  ExtractInv' /\ \A n \in DOMAIN reqs \intersect DOMAIN reqs' : reqs'[n] = reqs[n]
  BY <1>2, ReadMeetingKeepsDisk
<1>3. ASSUME reqs' = reqs, run'.at # "requirements", Drafting'
      PROVE  ExtractInv'
  BY <1>3 DEF ExtractInv, OnDisk, KnowsDisk
<1>4. CASE MeetingsRead
  <2>1. reqs' = reqs /\ run'.at # "requirements" /\ Drafting'
    BY <1>4 DEF MeetingsRead, Drafting
  <2>2. QED
    BY <1>3, <2>1
<1>5. CASE DraftAdr
  <2> DEFINE made == IF File(Head(run.decisions)) \in adrs THEN run.made ELSE run.made + 1
  <2>1. reqs' = reqs /\ run.at = "adrs"
        /\ run' = [run EXCEPT !.decisions = Tail(@), !.made = made]
    BY <1>5 DEF DraftAdr
  <2> HIDE DEF made
  <2>2. run = [at |-> "adrs", made |-> run.made, decisions |-> run.decisions]
    BY <2>1 DEF ExtractInv, Drafting
  <2>3. run' = [at |-> "adrs", made |-> made, decisions |-> Tail(run.decisions)]
    BY <2>1, <2>2
  <2>4. QED
    BY <1>3, <2>1, <2>3 DEF Drafting
<1>6. ASSUME reqs' = reqs, run' = NoRun
      PROVE  ExtractInv'
  BY <1>3, <1>6 DEF NoRun, Drafting
<1>7. CASE RunEnds
  BY <1>6, <1>7 DEF RunEnds
<1>8. CASE RunDies
  BY <1>6, <1>8 DEF RunDies
<1>9. ASSUME NEW n \in DOMAIN reqs, DeleteRequirement(n)
      PROVE  ExtractInv' /\ \A m \in DOMAIN reqs \intersect DOMAIN reqs' : reqs'[m] = reqs[m]
  <2>1. reqs' = [m \in DOMAIN reqs \ {n} |-> reqs[m]] /\ run' = run /\ run.at = "none"
    BY <1>9 DEF DeleteRequirement, NoRun
  <2>2. DOMAIN reqs' = DOMAIN reqs \ {n} /\ \A m \in DOMAIN reqs' : reqs'[m] = reqs[m]
    BY <2>1
  <2>3. IsFiniteSet(DOMAIN reqs')
    BY <2>2, FS_Subset DEF ExtractInv, OnDisk
  <2>4. OnDisk'
    BY <2>2, <2>3 DEF ExtractInv, OnDisk
  <2>5. QED
    BY <2>1, <2>2, <2>4 DEF ExtractInv, KnowsDisk, Drafting
<1>10. CASE UNCHANGED extractVars
  BY <1>10 DEF extractVars, ExtractInv, OnDisk, KnowsDisk, Drafting
<1>11. QED
  BY <1>1, <1>2, <1>4, <1>3, <1>5, <1>7, <1>8, <1>9, <1>10
     DEF ExtractNext, MeetingsRead, DraftAdr, RunEnds, RunDies

\* A run never writes over a requirement on disk and never gives a second number
\* to a title that has one, for any number of meetings, runs, deaths and deletions
\* (RequirementsStand).
THEOREM RequirementsKeepNumbers == ExtractSpec => RequirementsStand
<1> DEFINE Stand == /\ \A n \in DOMAIN reqs \intersect DOMAIN reqs' : reqs'[n] = reqs[n]
                    /\ \A m, n \in DOMAIN reqs' : reqs'[m] = reqs'[n] => m = n
<1>1. ExtractInit => ExtractInv
  BY InitOnDisk
<1>2. ExtractInv /\ [ExtractNext]_extractVars => ExtractInv'
  BY NextOnDisk
<1>3. ExtractInv /\ [ExtractNext]_extractVars => [Stand]_extractVars
  <2>1. SUFFICES ASSUME ExtractInv, [ExtractNext]_extractVars PROVE Stand
    OBVIOUS
  <2>2. ExtractInv' /\ \A n \in DOMAIN reqs \intersect DOMAIN reqs' : reqs'[n] = reqs[n]
    BY <2>1, NextOnDisk
  <2>3. QED
    BY <2>2 DEF ExtractInv, OnDisk
<1>4. QED
  BY <1>1, <1>2, <1>3, PTL DEF ExtractSpec, RequirementsStand

-------------------------------------------------------------------------------
(* The coach memory and its briefing. *)

Commitment == [session : Transcripts, text : STRING, status : {"open", "delivered", "missed"}]

\* Whatever an agent is at, the session of its transcript has been stored, and
\* the session of every commitment was.
SessionsStored ==
  /\ agent = [a \in Agents |-> agent[a]]
  /\ \A a \in Agents : agent[a].at # "ready" => agent[a].transcript \in sessions
  /\ \A i \in DOMAIN commitments : commitments[i].session \in sessions

\* What was there when the briefing was begun, and not listed as open, was not
\* open then and is not now.
LeftForDelivered ==
  /\ briefing.at = "open" =>
       /\ briefing = [at |-> "open", had |-> briefing.had, open |-> briefing.open, delivered |-> {}]
       /\ briefing.had \subseteq DOMAIN commitments
       /\ \A i \in briefing.had \ briefing.open : commitments[i].status # "open"

CoachInv ==
  /\ sessions \in SUBSET Transcripts
  /\ commitments \in Seq(Commitment)
  /\ SessionsStored
  /\ LeftForDelivered
  /\ NothingFallsOutOfBriefing

LEMMA InitBriefing == CoachInit => CoachInv
<1> SUFFICES ASSUME CoachInit PROVE CoachInv
  OBVIOUS
<1>1. commitments = <<>> /\ sessions = {} /\ briefing.at = "none"
      /\ agent = [a \in Agents |-> Ready]
  BY DEF CoachInit, NoBriefing
<1>2. SessionsStored
  BY <1>1 DEF SessionsStored, Ready
<1>3. QED
  BY <1>1, <1>2 DEF CoachInv, LeftForDelivered, NothingFallsOutOfBriefing

LEMMA CommitmentParts ==
  ASSUME CoachInv
  PROVE  /\ commitments \in Seq(Commitment)
         /\ Len(commitments) \in Nat
         /\ DOMAIN commitments = 1..Len(commitments)
         /\ \A i \in DOMAIN commitments : commitments[i] \in Commitment
<1>1. commitments \in Seq(Commitment)
  BY DEF CoachInv
<1>2. QED
  BY <1>1, ElementOfSeq, LenProperties

\* A step that takes no commitment away and opens none again keeps what the
\* briefing relies on.
LEMMA CommitmentsAdvance ==
  ASSUME CoachInv, briefing' = briefing,
         sessions \subseteq sessions', sessions' \in SUBSET Transcripts,
         commitments' \in Seq(Commitment),
         agent' = [a \in Agents |-> agent'[a]],
         \A a \in Agents : agent'[a].at # "ready" => agent'[a].transcript \in sessions',
         \A i \in DOMAIN commitments' : commitments'[i].session \in sessions',
         DOMAIN commitments \subseteq DOMAIN commitments',
         \A i \in DOMAIN commitments :
           commitments'[i].status = "open" => commitments[i].status = "open"
  PROVE  CoachInv'
<1>1. SessionsStored'
  BY DEF SessionsStored
<1>2. LeftForDelivered'
  BY DEF CoachInv, LeftForDelivered
<1>3. NothingFallsOutOfBriefing'
  BY DEF CoachInv, NothingFallsOutOfBriefing
<1>4. QED
  BY <1>1, <1>2, <1>3 DEF CoachInv

\* The steps of the agents that leave the commitments alone.
LEMMA SameCommitments ==
  ASSUME CoachInv, briefing' = briefing, commitments' = commitments,
         sessions \subseteq sessions', sessions' \in SUBSET Transcripts,
         agent' = [a \in Agents |-> agent'[a]],
         \A a \in Agents : agent'[a].at # "ready" => agent'[a].transcript \in sessions'
  PROVE  CoachInv'
<1>1. \A i \in DOMAIN commitments : commitments[i].session \in sessions'
  BY DEF CoachInv, SessionsStored
<1>2. commitments' \in Seq(Commitment)
  BY DEF CoachInv
<1>3. QED
  BY <1>1, <1>2, CommitmentsAdvance

LEMMA StoreSessionKeeps ==
  ASSUME CoachInv, NEW a \in Agents, NEW t \in Transcripts, StoreSession(a, t)
  PROVE  CoachInv'
<1> DEFINE step == [at |-> "embed", transcript |-> t, early |-> <<>>]
<1>1. sessions' = sessions \union {t} /\ commitments' = commitments /\ briefing' = briefing
      /\ agent' = [agent EXCEPT ![a] = step]
  BY DEF StoreSession, Step, readers
<1>2. step.transcript = t
  OBVIOUS
<1> HIDE DEF step
<1>3. \A b \in Agents : agent'[b].at # "ready" => agent'[b].transcript \in sessions'
  BY <1>1, <1>2 DEF CoachInv, SessionsStored
<1>4. agent' = [b \in Agents |-> agent'[b]]
  BY <1>1 DEF CoachInv, SessionsStored
<1>5. sessions \subseteq sessions' /\ sessions' \in SUBSET Transcripts
  BY <1>1 DEF CoachInv
<1>6. QED
  BY <1>1, <1>3, <1>4, <1>5, SameCommitments

LEMMA AgentStepKeeps ==
  ASSUME CoachInv, NEW a \in Agents, Embed(a) \/ LooksFirst(a) \/ Fails(a)
  PROVE  CoachInv'
<1> DEFINE t == agent[a].transcript
<1>1. sessions' = sessions /\ commitments' = commitments /\ briefing' = briefing
  BY DEF Embed, LooksFirst, Fails, readers
<1>2. PICK step : /\ agent' = [agent EXCEPT ![a] = step]
                  /\ step.at = "ready" \/ (agent[a].at # "ready" /\ step.transcript = t)
  <2>1. CASE Embed(a)
    <3> DEFINE work == [at |-> "extract", transcript |-> t, early |-> <<>>]
    <3>1. agent' = [agent EXCEPT ![a] = work] /\ agent[a].at = "embed"
      BY <2>1 DEF Embed, Step
    <3>2. work.transcript = t
      OBVIOUS
    <3> HIDE DEF work
    <3>3. QED
      BY <3>1, <3>2
  <2>2. CASE LooksFirst(a)
    <3> DEFINE look == [at |-> "record", transcript |-> t,
                        early |-> <<Lookup(concerns, Themes(t)[1])>>]
    <3>1. agent' = [agent EXCEPT ![a] = look] /\ agent[a].at = "extract"
      BY <2>2 DEF LooksFirst, Step
    <3>2. look.transcript = t
      OBVIOUS
    <3> HIDE DEF look
    <3>3. QED
      BY <3>1, <3>2
  <2>3. CASE Fails(a)
    <3>1. agent' = [agent EXCEPT ![a] = Ready]
      BY <2>3 DEF Fails
    <3>2. Ready.at = "ready"
      BY DEF Ready
    <3>3. QED
      BY <3>1, <3>2
  <2>4. QED
    BY <2>1, <2>2, <2>3
<1>3. \A b \in Agents : agent'[b].at # "ready" => agent'[b].transcript \in sessions'
  BY <1>1, <1>2 DEF CoachInv, SessionsStored
<1>4. agent' = [b \in Agents |-> agent'[b]]
  BY <1>2 DEF CoachInv, SessionsStored
<1>5. QED
  BY <1>1, <1>3, <1>4, SameCommitments DEF CoachInv

LEMMA ExtractKeeps ==
  ASSUME CoachInv, NEW a \in Agents, Extract(a)
  PROVE  CoachInv'
<1> DEFINE t == agent[a].transcript
           new == NewCommitments(t)
<1>1. sessions' = sessions /\ briefing' = briefing /\ commitments' = commitments \o new
      /\ agent' = [agent EXCEPT ![a] = Ready] /\ agent[a].at # "ready"
  BY DEF Extract, readers
<1>2. t \in sessions /\ t \in Transcripts
  BY <1>1 DEF CoachInv, SessionsStored
<1>3. Promises(t) \in Seq(STRING)
  BY <1>2, CoachAssumption
<1>4. new \in Seq(Commitment) /\ DOMAIN new = 1..Len(new) /\ Len(new) \in Nat
      /\ \A i \in DOMAIN new : new[i].session = t
  <2> DEFINE n == Len(Promises(t))
  <2>1. n \in Nat /\ DOMAIN Promises(t) = 1..n /\ \A i \in 1..n : Promises(t)[i] \in STRING
    BY <1>3, LenProperties, ElementOfSeq
  <2>2. \A i \in 1..n :
          [session |-> t, text |-> Promises(t)[i], status |-> "open"] \in Commitment
    BY <1>2, <2>1 DEF Commitment
  <2>3. new \in [1..n -> Commitment] /\ \A i \in 1..n : new[i].session = t
    BY <2>1, <2>2 DEF NewCommitments
  <2>4. QED
    BY <2>1, <2>3
<1> HIDE DEF t, new
<1>5. /\ commitments' \in Seq(Commitment)
      /\ DOMAIN commitments' = 1..(Len(commitments) + Len(new))
      /\ \A i \in 1..(Len(commitments) + Len(new)) : commitments'[i] =
           IF i <= Len(commitments) THEN commitments[i] ELSE new[i - Len(commitments)]
  BY <1>1, <1>4, CommitmentParts, ConcatProperties, LenProperties
<1>6. /\ DOMAIN commitments \subseteq DOMAIN commitments'
      /\ \A i \in DOMAIN commitments : commitments'[i] = commitments[i]
      /\ \A i \in DOMAIN commitments' \ DOMAIN commitments : commitments'[i].session = t
  <2>1. \A i \in DOMAIN commitments' \ DOMAIN commitments :
          commitments'[i] = new[i - Len(commitments)] /\ i - Len(commitments) \in DOMAIN new
    BY <1>4, <1>5, CommitmentParts
  <2>2. DOMAIN commitments \subseteq DOMAIN commitments'
        /\ \A i \in DOMAIN commitments : commitments'[i] = commitments[i]
    BY <1>4, <1>5, CommitmentParts
  <2>3. QED
    BY <1>4, <2>1, <2>2
<1>7. \A i \in DOMAIN commitments' : commitments'[i].session \in sessions'
  BY <1>1, <1>2, <1>6 DEF CoachInv, SessionsStored
<1>8. agent' = [b \in Agents |-> agent'[b]]
      /\ \A b \in Agents : agent'[b].at # "ready" => agent'[b].transcript \in sessions'
  BY <1>1 DEF CoachInv, SessionsStored, Ready
<1>9. QED
  BY <1>1, <1>5, <1>6, <1>7, <1>8, CommitmentsAdvance DEF CoachInv

LEMMA MarkKeeps ==
  ASSUME CoachInv, NEW i \in DOMAIN commitments, NEW status \in {"delivered", "missed"},
         Mark(i, status), UNCHANGED <<sessions, agent, briefing>>
  PROVE  CoachInv'
<1> DEFINE row == [commitments[i] EXCEPT !.status = status]
<1>1. commitments' = [commitments EXCEPT ![i] = row]
  BY DEF Mark
<1>2. row \in Commitment /\ row.status = status /\ row.session = commitments[i].session
  BY CommitmentParts DEF Commitment
<1> HIDE DEF row
<1>3. commitments' \in Seq(Commitment) /\ DOMAIN commitments' = DOMAIN commitments
  BY <1>1, <1>2, CommitmentParts, ExceptSeq
<1>4. \A j \in DOMAIN commitments : commitments'[j] = IF j = i THEN row ELSE commitments[j]
  BY <1>1
<1>5. \A j \in DOMAIN commitments' : commitments'[j].session \in sessions'
  BY <1>2, <1>3, <1>4 DEF CoachInv, SessionsStored
<1>6. \A j \in DOMAIN commitments :
        commitments'[j].status = "open" => commitments[j].status = "open"
  BY <1>2, <1>4
<1>7. agent' = [b \in Agents |-> agent'[b]]
      /\ \A b \in Agents : agent'[b].at # "ready" => agent'[b].transcript \in sessions'
  BY DEF CoachInv, SessionsStored
<1>8. sessions \subseteq sessions' /\ sessions' \in SUBSET Transcripts
  BY DEF CoachInv
<1>9. QED
  BY <1>3, <1>5, <1>6, <1>7, <1>8, CommitmentsAdvance

LEMMA BriefOpenKeeps ==
  ASSUME CoachInv, BriefOpen
  PROVE  CoachInv'
<1> DEFINE b == [at |-> "open", had |-> DOMAIN commitments \ Ids("missed"),
                 open |-> Listed(Ids("open")), delivered |-> {}]
<1>1. briefing' = b /\ UNCHANGED <<sessions, agent, commitments>>
  BY DEF BriefOpen, memoryVars
<1>2. b.at = "open" /\ b = [at |-> "open", had |-> b.had, open |-> b.open, delivered |-> {}]
      /\ b.had = DOMAIN commitments \ Ids("missed") /\ b.open = Listed(Ids("open"))
  OBVIOUS
<1> HIDE DEF b
<1>3. \A i \in b.had \ b.open : commitments[i].status # "open"
  BY <1>2 DEF Listed, Ids, CoachInv, SessionsStored
<1>4. LeftForDelivered' /\ NothingFallsOutOfBriefing'
  BY <1>1, <1>2, <1>3 DEF LeftForDelivered, NothingFallsOutOfBriefing
<1>5. QED
  BY <1>1, <1>4 DEF CoachInv, SessionsStored

LEMMA BriefDeliveredKeeps ==
  ASSUME CoachInv, BriefDelivered
  PROVE  CoachInv'
<1> DEFINE all == Listed(Ids("delivered"))
<1>1. PICK some \in SUBSET all :
        /\ Cardinality(some) = IF Cardinality(all) < BriefLimit THEN Cardinality(all) ELSE BriefLimit
        /\ briefing' = [briefing EXCEPT !.at = "made", !.delivered = some,
                                                 !.had = @ \ Ids("missed")]
  BY DEF BriefDelivered
<1>2. briefing = [at |-> "open", had |-> briefing.had, open |-> briefing.open, delivered |-> {}]
      /\ briefing.had \subseteq DOMAIN commitments
      /\ \A i \in briefing.had \ briefing.open : commitments[i].status # "open"
      /\ UNCHANGED <<sessions, agent, commitments>>
  BY DEF BriefDelivered, CoachInv, LeftForDelivered, memoryVars
<1>3. IsFiniteSet(all) /\ Cardinality(all) \in Nat /\ IsFiniteSet(some)
  <2>0. Len(commitments) \in Nat /\ DOMAIN commitments = 1..Len(commitments)
    BY CommitmentParts
  <2>1. all \subseteq 1..Len(commitments) /\ IsFiniteSet(1..Len(commitments))
    <3>1. all \subseteq DOMAIN commitments
      BY DEF Listed, Ids
    <3>2. QED
      BY <2>0, <3>1, FS_Interval
  <2>2. QED
    BY <1>1, <2>1, FS_Subset, FS_CardinalityType
<1>4. Cardinality(some) < BriefLimit => some = all
  <2>1. BriefLimit \in Nat
    BY CoachAssumption
  <2>2. Cardinality(some) < BriefLimit => Cardinality(some) = Cardinality(all)
    BY <1>1, <1>3, <2>1
  <2>3. QED
    BY <1>1, <1>3, <2>2, FS_Subset
<1>5. briefing' = [at |-> "made", had |-> briefing.had \ Ids("missed"),
                   open |-> briefing.open, delivered |-> some]
  <2> HIDE DEF all
  <2>1. QED
    BY <1>1, <1>2
<1>6. \A i \in briefing.had \ Ids("missed") : i \in briefing.open \union all
  <2> SUFFICES ASSUME NEW i \in briefing.had \ Ids("missed"), i \notin briefing.open
               PROVE  i \in all
    OBVIOUS
  <2>1. i \in DOMAIN commitments /\ commitments[i].status # "open"
        /\ commitments[i].status # "missed"
    BY <1>2 DEF Ids
  <2>2. commitments[i].status = "delivered"
    BY <2>1, CommitmentParts DEF Commitment
  <2>3. QED
    BY <2>1, <2>2 DEF Ids, Listed, CoachInv, SessionsStored
<1>7. NothingFallsOutOfBriefing' /\ LeftForDelivered'
  <2> HIDE DEF all
  <2>1. QED
    BY <1>4, <1>5, <1>6 DEF NothingFallsOutOfBriefing, LeftForDelivered
<1>8. CoachInv'
  <2>0. commitments' = commitments /\ sessions' = sessions /\ agent' = agent
    BY DEF BriefDelivered, memoryVars
  <2>1. commitments' \in Seq(Commitment) /\ sessions' \in SUBSET Transcripts /\ SessionsStored'
    <3>1. commitments' \in Seq(Commitment)
      BY <2>0 DEF CoachInv
    <3>2. sessions' \in SUBSET Transcripts
      BY <2>0 DEF CoachInv
    <3>3. SessionsStored'
      BY <2>0 DEF CoachInv, SessionsStored
    <3>4. QED
      BY <3>1, <3>2, <3>3
  <2>2. QED
    BY <1>7, <2>1 DEF CoachInv
<1>9. QED
  BY <1>8

LEMMA NextBriefing ==
  ASSUME CoachInv, [CoachNext]_coachVars
  PROVE  CoachInv'
<1>1. ASSUME UNCHANGED <<sessions, agent, commitments, briefing>> PROVE CoachInv'
  BY <1>1 DEF CoachInv, SessionsStored, LeftForDelivered, NothingFallsOutOfBriefing
<1>2. CASE VerifyReads
  BY <1>1, <1>2 DEF VerifyReads, memoryVars
<1>3. CASE TrackConcerns
  BY <1>1, <1>3 DEF TrackConcerns, memoryVars
<1>4. ASSUME NEW i \in DOMAIN commitments, NEW found \in BOOLEAN, VerifyOne(i, found)
      PROVE  CoachInv'
  <2>1. UNCHANGED <<sessions, agent, briefing>>
    BY <1>4 DEF VerifyOne, memoryVars
  <2>2. CASE found
    BY <1>4, <2>1, <2>2, MarkKeeps DEF VerifyOne
  <2>3. CASE ~ found
    BY <1>1, <1>4, <2>1, <2>3 DEF VerifyOne
  <2>4. QED
    BY <2>2, <2>3
<1>5. ASSUME NEW i \in DOMAIN commitments, NEW status \in {"delivered", "missed"},
             MarkByHand(i, status)
      PROVE  CoachInv'
  BY <1>5, MarkKeeps DEF MarkByHand, memoryVars, readers
<1>6. CASE UNCHANGED coachVars
  BY <1>1, <1>6 DEF coachVars, memoryVars
<1>7. QED
  BY <1>2, <1>3, <1>4, <1>5, <1>6, StoreSessionKeeps, AgentStepKeeps, ExtractKeeps,
     BriefOpenKeeps, BriefDeliveredKeeps DEF CoachNext

\* Nothing falls out of the briefing between its two queries, for any number of
\* agents, transcripts, commitments and any limit (NothingFallsOutOfBriefing).
THEOREM BriefingIsWhole == CoachSpec => []NothingFallsOutOfBriefing
<1>1. CoachInit => CoachInv
  BY InitBriefing
<1>2. CoachInv /\ [CoachNext]_coachVars => CoachInv'
  BY NextBriefing
<1>3. CoachInv => NothingFallsOutOfBriefing
  BY DEF CoachInv
<1>4. QED
  BY <1>1, <1>2, <1>3, PTL DEF CoachSpec

-------------------------------------------------------------------------------
(* The counts of the concerns. *)

\* What the rows counted, and what each row adds to the total of a theme.
Concern == [theme : AllThemes, times : Nat]
Share(rows, h, i) == IF rows[i].theme = h THEN rows[i].times ELSE 0

\* The sums of the shares of the first rows, as TotalIn has them.
Sums(f, rows, h, n) ==
  f = [i \in 0..n |-> IF i = 0 THEN 0 ELSE f[i - 1] + Share(rows, h, i)]

LEMMA SumsExist ==
  ASSUME NEW rows, NEW h, NEW n \in Nat
  PROVE  \E f : Sums(f, rows, h, n)
<1> DEFINE P == {m \in Nat : \E f : Sums(f, rows, h, m)}
<1>1. 0 \in P
  <2> DEFINE none == [i \in 0..0 |-> 0]
  <2>1. Sums(none, rows, h, 0)
    BY DEF Sums
  <2>2. QED
    BY <2>1
<1>2. ASSUME NEW m \in P PROVE m + 1 \in P
  <2>1. PICK f : Sums(f, rows, h, m)
    OBVIOUS
  <2> DEFINE g == [i \in 0..(m + 1) |->
                     IF i = m + 1 THEN f[m] + Share(rows, h, i) ELSE f[i]]
  <2>2. \A i \in 0..m : f[i] = IF i = 0 THEN 0 ELSE f[i - 1] + Share(rows, h, i)
    BY <2>1 DEF Sums
  <2>3. m \in Nat
    OBVIOUS
  <2>4. \A i \in 0..(m + 1) : i # 0 => i - 1 \in 0..m /\ g[i - 1] = f[i - 1]
    BY <2>3
  <2>5. \A i \in 0..(m + 1) : g[i] = IF i = 0 THEN 0 ELSE g[i - 1] + Share(rows, h, i)
    <3> TAKE i \in 0..(m + 1)
    <3>1. CASE i = m + 1
      BY <2>3, <2>4, <3>1
    <3>2. CASE i \in 0..m
      BY <2>2, <2>3, <2>4, <3>2
    <3>3. QED
      BY <2>3, <3>1, <3>2
  <2>6. Sums(g, rows, h, m + 1)
    <3>1. g = [i \in 0..(m + 1) |-> g[i]]
      OBVIOUS
    <3> HIDE DEF g
    <3>2. [i \in 0..(m + 1) |-> g[i]] =
          [i \in 0..(m + 1) |-> IF i = 0 THEN 0 ELSE g[i - 1] + Share(rows, h, i)]
      BY <2>5
    <3>3. QED
      BY <3>1, <3>2 DEF Sums
  <2>7. QED
    BY <2>3, <2>6
<1>3. P = Nat
  <2>1. P \in SUBSET Nat
    OBVIOUS
  <2> HIDE DEF P
  <2>2. QED
    BY <1>1, <1>2, <2>1, SetInduction
<1>4. n \in P
  <2> HIDE DEF P
  <2>1. QED
    BY <1>3
<1>5. QED
  BY <1>4

\* f has the sums of the first shares of the rows, up to n of them.
Adds(f, rows, h, n) == f[0] = 0 /\ \A i \in 1..n : f[i] = f[i - 1] + Share(rows, h, i)

LEMMA TotalDef ==
  ASSUME NEW rows, NEW h, NEW n \in Nat, n = Len(rows)
  PROVE  \E f : TotalIn(rows, h) = f[n] /\ Adds(f, rows, h, n)
<1> DEFINE f == CHOOSE g : Sums(g, rows, h, Len(rows))
<1>1. Sums(f, rows, h, Len(rows))
  BY SumsExist
<1>2. TotalIn(rows, h) = f[Len(rows)]
  BY DEF TotalIn, Sums, Share
<1> HIDE DEF f
<1>3. \A i \in 0..Len(rows) : f[i] = IF i = 0 THEN 0 ELSE f[i - 1] + Share(rows, h, i)
  BY <1>1 DEF Sums
<1>4. Adds(f, rows, h, n)
  BY <1>3 DEF Adds
<1>5. QED
  BY <1>2, <1>4

\* The shares of row p differ by d, those of the first other rows are equal.
Differ(r, q, h, n, p, d) ==
  \A i \in 1..n : /\ Share(r, h, i) \in Nat
                  /\ Share(q, h, i) = Share(r, h, i) + (IF i = p THEN d ELSE 0)

\* Sums of shares that differ at one row differ by as much from there on.
LEMMA SumsDiffer ==
  ASSUME NEW f, NEW g, NEW r, NEW q, NEW h, NEW n \in Nat, NEW p \in Nat \ {0}, NEW d \in Nat,
         Adds(f, r, h, n), Adds(g, q, h, n),
         Differ(r, q, h, n, p, d)
  PROVE  f[n] \in Nat /\ g[n] = f[n] + (IF p <= n THEN d ELSE 0)
<1> DEFINE Right(m) == f[m] \in Nat /\ g[m] = f[m] + (IF p <= m THEN d ELSE 0)
           P == {m \in Nat : m <= n => Right(m)}
<1>1. 0 \in P
  BY DEF Adds
<1>2. ASSUME NEW m \in P PROVE m + 1 \in P
  <2>1. SUFFICES ASSUME m + 1 <= n PROVE Right(m + 1)
    OBVIOUS
  <2>2. m \in Nat /\ Right(m)
    BY <2>1
  <2> DEFINE k == m + 1
  <2>3. k \in 1..n /\ k - 1 = m
    BY <2>1, <2>2
  <2> HIDE DEF k
  <2>4. f[k] = f[m] + Share(r, h, k) /\ g[k] = g[m] + Share(q, h, k)
    BY <2>3 DEF Adds
  <2>5. Share(r, h, k) \in Nat /\ Share(q, h, k) = Share(r, h, k) + (IF k = p THEN d ELSE 0)
    BY <2>3 DEF Differ
  <2>6. Right(k)
    BY <2>2, <2>3, <2>4, <2>5
  <2>7. QED
    BY <2>6 DEF k
<1>3. P = Nat
  <2>1. P \in SUBSET Nat
    OBVIOUS
  <2> HIDE DEF P
  <2>2. QED
    BY <1>1, <1>2, <2>1, SetInduction
<1>4. n \in P
  <2> HIDE DEF P
  <2>1. QED
    BY <1>3
<1>5. QED
  BY <1>4

LEMMA ShareIsNat ==
  ASSUME NEW rows \in Seq(Concern), NEW h
  PROVE  /\ Len(rows) \in Nat /\ DOMAIN rows = 1..Len(rows)
         /\ \A i \in 1..Len(rows) : Share(rows, h, i) \in Nat
<1>1. Len(rows) \in Nat /\ DOMAIN rows = 1..Len(rows)
  BY LenProperties
<1>2. ASSUME NEW i \in 1..Len(rows) PROVE Share(rows, h, i) \in Nat
  <2>1. rows[i] \in Concern
    BY ElementOfSeq
  <2>2. rows[i].times \in Nat
    BY <2>1 DEF Concern
  <2>3. QED
    BY <2>2 DEF Share
<1>3. QED
  BY <1>1, <1>2

LEMMA TotalAppend ==
  ASSUME NEW rows \in Seq(Concern), NEW row \in Concern, NEW h
  PROVE  TotalIn(Append(rows, row), h) =
           TotalIn(rows, h) + (IF row.theme = h THEN row.times ELSE 0)
<1> DEFINE n == Len(rows)
           more == Append(rows, row)
<1>1. n \in Nat /\ \A i \in 1..n : Share(rows, h, i) \in Nat
  BY ShareIsNat
<1>2. Len(more) = n + 1 /\ more[n + 1] = row /\ \A i \in 1..n : more[i] = rows[i]
  BY AppendProperties
<1>3. PICK f : TotalIn(rows, h) = f[n] /\ Adds(f, rows, h, n)
  BY <1>1, TotalDef
<1> HIDE DEF more
<1>4. PICK g : TotalIn(more, h) = g[n + 1] /\ Adds(g, more, h, n + 1)
  <2>1. n + 1 \in Nat
    BY <1>1
  <2>2. QED
    BY <1>2, <2>1, TotalDef
<1> HIDE DEF n
<1>5. \A i \in 1..n : Share(more, h, i) = Share(rows, h, i)
  BY <1>2 DEF Share
<1>6. f[n] \in Nat /\ g[n] = f[n]
  <2>1. Differ(rows, more, h, n, 1, 0)
    BY <1>1, <1>5 DEF Differ
  <2>2. Adds(g, more, h, n)
    BY <1>1, <1>4 DEF Adds
  <2>3. 1 \in Nat \ {0} /\ 0 \in Nat
    OBVIOUS
  <2>4. f[n] \in Nat /\ g[n] = f[n] + (IF 1 <= n THEN 0 ELSE 0)
    BY <1>1, <1>3, <2>1, <2>2, <2>3, SumsDiffer
  <2>5. QED
    BY <1>1, <2>4
<1>7. g[n + 1] = g[n] + Share(more, h, n + 1)
  <2> DEFINE k == n + 1
  <2>1. k \in 1..(n + 1) /\ k - 1 = n
    BY <1>1
  <2> HIDE DEF k
  <2>2. g[k] = g[n] + Share(more, h, k)
    BY <1>4, <2>1 DEF Adds
  <2>3. QED
    BY <2>2 DEF k
<1>8. Share(more, h, n + 1) = IF row.theme = h THEN row.times ELSE 0
  BY <1>2 DEF Share
<1>9. QED
  BY <1>3, <1>4, <1>6, <1>7, <1>8 DEF more

LEMMA TotalUpdate ==
  ASSUME NEW rows \in Seq(Concern), NEW p \in DOMAIN rows, NEW h
  PROVE  TotalIn([rows EXCEPT ![p].times = @ + 1], h) =
           TotalIn(rows, h) + (IF rows[p].theme = h THEN 1 ELSE 0)
<1> DEFINE n == Len(rows)
           row == [rows[p] EXCEPT !.times = @ + 1]
           more == [rows EXCEPT ![p] = row]
           d == IF rows[p].theme = h THEN 1 ELSE 0
<1>1. n \in Nat /\ p \in 1..n /\ DOMAIN rows = 1..n /\ \A i \in 1..n : Share(rows, h, i) \in Nat
  BY ShareIsNat
<1>2. rows[p] \in Concern
  BY ElementOfSeq, <1>1
<1>3. row.theme = rows[p].theme /\ row.times = rows[p].times + 1 /\ rows[p].times \in Nat
      /\ row \in Concern
  BY <1>2 DEF Concern
<1>4. [rows EXCEPT ![p].times = @ + 1] = more
  OBVIOUS
<1> HIDE DEF row
<1>5. more \in Seq(Concern) /\ Len(more) = n
      /\ \A i \in 1..n : more[i] = IF i = p THEN row ELSE rows[i]
  BY <1>1, <1>3, ExceptSeq
<1> HIDE DEF more
<1>6. Differ(rows, more, h, n, p, d)
  BY <1>1, <1>3, <1>5 DEF Share, Differ
<1>7. PICK f : TotalIn(rows, h) = f[n] /\ Adds(f, rows, h, n)
  BY <1>1, TotalDef
<1>8. PICK g : TotalIn(more, h) = g[n] /\ Adds(g, more, h, n)
  BY <1>1, <1>5, TotalDef
<1>9. d \in Nat /\ p \in Nat \ {0} /\ p <= n
  BY <1>1
<1> HIDE DEF n, d
<1>10. g[n] = f[n] + (IF p <= n THEN d ELSE 0)
  BY <1>1, <1>6, <1>7, <1>8, <1>9, SumsDiffer
<1>11. QED
  BY <1>4, <1>7, <1>8, <1>9, <1>10 DEF d

LEMMA TotalIsNat ==
  ASSUME NEW rows \in Seq(Concern), NEW h
  PROVE  TotalIn(rows, h) \in Nat
<1> DEFINE n == Len(rows)
<1>1. n \in Nat /\ \A i \in 1..n : Share(rows, h, i) \in Nat
  BY ShareIsNat
<1>2. PICK f : TotalIn(rows, h) = f[n] /\ Adds(f, rows, h, n)
  BY <1>1, TotalDef
<1> HIDE DEF n
<1>3. Differ(rows, rows, h, n, 1, 0)
  BY <1>1 DEF Differ
<1>4. 1 \in Nat \ {0} /\ 0 \in Nat
  OBVIOUS
<1>5. f[n] \in Nat
  BY <1>1, <1>2, <1>3, <1>4, SumsDiffer
<1>6. QED
  BY <1>2, <1>5

\* Rows that keep the themes of earlier ones, and come after them.
Extends(rows, more) ==
  /\ more \in Seq(Concern) /\ Len(rows) <= Len(more)
  /\ \A i \in 1..Len(rows) : more[i].theme = rows[i].theme

\* A lookup that may be used on rows: that of a row of the theme, or of none.
Fits(found, rows, theme) ==
  /\ found.place \in 0..Len(rows)
  /\ found.place # 0 => rows[found.place].theme = theme

LEMMA LookupFits ==
  ASSUME NEW rows \in Seq(Concern), NEW theme
  PROVE  Fits(Lookup(rows, theme), rows, theme)
<1> DEFINE found == {i \in DOMAIN rows : rows[i].theme = theme}
<1>1. Len(rows) \in Nat /\ DOMAIN rows = 1..Len(rows)
  BY LenProperties
<1>2. CASE found = {}
  BY <1>1, <1>2 DEF Lookup, Fits
<1>3. CASE found # {}
  <2>1. found \in SUBSET Nat
    BY <1>1
  <2>2. PICK x \in found : \A y \in found : x <= y
    <3> HIDE DEF found
    <3>1. QED
      BY <1>3, <2>1, Least
  <2>3. Min(found) \in found
    <3> HIDE DEF found
    <3>1. QED
      BY <2>2 DEF Min
  <2>4. Lookup(rows, theme).place = Min(found)
    BY <1>3 DEF Lookup
  <2>5. QED
    BY <1>1, <2>3, <2>4 DEF Fits
<1>4. QED
  BY <1>2, <1>3

LEMMA RaiseAdds ==
  ASSUME NEW rows \in Seq(Concern), NEW theme \in AllThemes, NEW found, Fits(found, rows, theme)
  PROVE  /\ Extends(rows, Raise(rows, theme, found))
         /\ \A h : TotalIn(Raise(rows, theme, found), h) =
                    TotalIn(rows, h) + (IF theme = h THEN 1 ELSE 0)
<1>0. Len(rows) \in Nat /\ DOMAIN rows = 1..Len(rows)
  BY LenProperties
<1>1. CASE found.place = 0
  <2> DEFINE row == [theme |-> theme, times |-> 1]
  <2>1. row \in Concern /\ row.theme = theme /\ row.times = 1
    BY DEF Concern
  <2>2. Raise(rows, theme, found) = Append(rows, row)
    BY <1>1 DEF Raise
  <2> HIDE DEF row
  <2>3. Extends(rows, Append(rows, row))
    BY <1>0, <2>1, AppendProperties DEF Extends
  <2>4. \A h : TotalIn(Append(rows, row), h) = TotalIn(rows, h) + (IF theme = h THEN 1 ELSE 0)
    BY <2>1, TotalAppend
  <2>5. QED
    BY <2>2, <2>3, <2>4
<1>2. CASE found.place # 0
  <2> DEFINE p == found.place
             row == [rows[p] EXCEPT !.times = @ + 1]
  <2>1. p \in 1..Len(rows) /\ p \in DOMAIN rows /\ rows[p].theme = theme
    BY <1>0, <1>2 DEF Fits
  <2>2. rows[p] \in Concern
    BY <2>1, ElementOfSeq
  <2>3. row \in Concern /\ row.theme = theme
    BY <2>1, <2>2 DEF Concern
  <2>4. Raise(rows, theme, found) = [rows EXCEPT ![p].times = @ + 1]
    BY <1>2 DEF Raise
  <2>5. [rows EXCEPT ![p].times = @ + 1] = [rows EXCEPT ![p] = row]
    OBVIOUS
  <2> HIDE DEF row, p
  <2>6. Extends(rows, [rows EXCEPT ![p] = row])
    <3> DEFINE more == [rows EXCEPT ![p] = row]
    <3>1. more \in Seq(Concern) /\ Len(more) = Len(rows)
          /\ \A i \in 1..Len(rows) : more[i] = IF i = p THEN row ELSE rows[i]
      BY <2>1, <2>3, ExceptSeq
    <3> HIDE DEF more
    <3>2. Extends(rows, more)
      BY <1>0, <2>1, <2>3, <3>1 DEF Extends
    <3>3. QED
      BY <3>2 DEF more
  <2>7. \A h : TotalIn([rows EXCEPT ![p].times = @ + 1], h) =
               TotalIn(rows, h) + (IF theme = h THEN 1 ELSE 0)
    BY <2>1, TotalUpdate
  <2>8. QED
    BY <2>4, <2>5, <2>6, <2>7
<1>3. QED
  BY <1>1, <1>2

\* What the n-th concern of a list is raised with, after those before it.
Looked(f, list, early, i) ==
  IF i \in DOMAIN early THEN early[i] ELSE Lookup(f[i - 1], list[i])

\* The rows after the first concerns of a list, as RaiseAll has them.
Raises(f, rows, list, early, n) ==
  f = [i \in 0..n |-> IF i = 0 THEN rows
                      ELSE Raise(f[i - 1], list[i],
                                 IF i \in DOMAIN early THEN early[i] ELSE Lookup(f[i - 1], list[i]))]

LEMMA RaisesExist ==
  ASSUME NEW rows, NEW list, NEW early, NEW n \in Nat
  PROVE  \E f : Raises(f, rows, list, early, n)
<1> DEFINE After(r, i) ==
             Raise(r, list[i], IF i \in DOMAIN early THEN early[i] ELSE Lookup(r, list[i]))
           P == {m \in Nat : \E f : Raises(f, rows, list, early, m)}
<1>1. 0 \in P
  <2> DEFINE none == [i \in 0..0 |-> rows]
  <2>1. Raises(none, rows, list, early, 0)
    BY DEF Raises
  <2>2. QED
    BY <2>1
<1>2. ASSUME NEW m \in P PROVE m + 1 \in P
  <2>1. PICK f : Raises(f, rows, list, early, m)
    OBVIOUS
  <2>2. f = [i \in 0..m |-> IF i = 0 THEN rows ELSE After(f[i - 1], i)]
    BY <2>1 DEF Raises
  <2> DEFINE g == [i \in 0..(m + 1) |-> IF i = m + 1 THEN After(f[m], i) ELSE f[i]]
  <2>3. m \in Nat
    OBVIOUS
  <2>4. \A i \in 0..(m + 1) : i # 0 => i - 1 \in 0..m /\ g[i - 1] = f[i - 1]
    BY <2>3
  <2> HIDE DEF After
  <2>5. \A i \in 0..(m + 1) : g[i] = IF i = 0 THEN rows ELSE After(g[i - 1], i)
    <3> TAKE i \in 0..(m + 1)
    <3>1. CASE i = m + 1
      BY <2>3, <2>4, <3>1
    <3>2. CASE i \in 0..m
      BY <2>2, <2>3, <2>4, <3>2
    <3>3. QED
      BY <2>3, <3>1, <3>2
  <2>6. g = [i \in 0..(m + 1) |-> IF i = 0 THEN rows ELSE After(g[i - 1], i)]
    <3>1. g = [i \in 0..(m + 1) |-> g[i]]
      OBVIOUS
    <3> HIDE DEF g
    <3>2. [i \in 0..(m + 1) |-> g[i]] =
          [i \in 0..(m + 1) |-> IF i = 0 THEN rows ELSE After(g[i - 1], i)]
      BY <2>5
    <3>3. QED
      BY <3>1, <3>2
  <2>7. Raises(g, rows, list, early, m + 1)
    <3> HIDE DEF g
    <3>1. QED
      BY <2>6 DEF Raises, After
  <2>8. QED
    BY <2>3, <2>7
<1>3. P = Nat
  <2>1. P \in SUBSET Nat
    OBVIOUS
  <2> HIDE DEF P
  <2>2. QED
    BY <1>1, <1>2, <2>1, SetInduction
<1>4. n \in P
  <2> HIDE DEF P
  <2>1. QED
    BY <1>3
<1>5. QED
  BY <1>4

\* f has the rows as the first n concerns of the list were raised.
RaisedBy(f, rows, list, early, n) ==
  /\ f[0] = rows
  /\ \A i \in 1..n : f[i] = Raise(f[i - 1], list[i], Looked(f, list, early, i))

LEMMA RaiseAllDef ==
  ASSUME NEW rows, NEW list, NEW early, NEW n \in Nat, n = Len(list)
  PROVE  \E f : RaiseAll(rows, list, early) = f[n] /\ RaisedBy(f, rows, list, early, n)
<1> DEFINE f == CHOOSE g : Raises(g, rows, list, early, Len(list))
<1>1. Raises(f, rows, list, early, Len(list))
  BY RaisesExist
<1>2. RaiseAll(rows, list, early) = f[Len(list)]
  BY DEF RaiseAll, Raises
<1> HIDE DEF f
<1>3. \A i \in 0..n :
        f[i] = IF i = 0 THEN rows ELSE Raise(f[i - 1], list[i], Looked(f, list, early, i))
  BY <1>1 DEF Raises, Looked
<1>4. f[0] = rows
  BY <1>3
<1>5. \A i \in 1..n : f[i] = Raise(f[i - 1], list[i], Looked(f, list, early, i))
  BY <1>3
<1>6. QED
  BY <1>2, <1>4, <1>5 DEF RaisedBy

\* How often a theme is among the first n of a list.
Count(list, h, n) == Cardinality({i \in 1..n : list[i] = h})

Hit(list, h, n) == IF list[n] = h THEN 1 ELSE 0

LEMMA CountNext ==
  ASSUME NEW list, NEW h, NEW n \in Nat
  PROVE  /\ Count(list, h, 0) = 0 /\ Count(list, h, n) \in Nat
         /\ Count(list, h, n + 1) = Count(list, h, n) + Hit(list, h, n + 1)
<1> DEFINE C(m) == {i \in 1..m : list[i] = h}
<1>1. C(0) = {} /\ Cardinality({}) = 0
  BY FS_EmptySet
<1>2. IsFiniteSet(C(n)) /\ Cardinality(C(n)) \in Nat
  <2>1. IsFiniteSet(1..n) /\ C(n) \subseteq 1..n
    BY FS_Interval
  <2> HIDE DEF C
  <2>2. IsFiniteSet(C(n))
    BY <2>1, FS_Subset
  <2>3. QED
    BY <2>2, FS_CardinalityType
<1>3. n + 1 \notin C(n)
  OBVIOUS
<1>4. C(n + 1) = IF list[n + 1] = h THEN C(n) \union {n + 1} ELSE C(n)
  OBVIOUS
<1>5. Cardinality(C(n) \union {n + 1}) = Cardinality(C(n)) + 1
  <2> HIDE DEF C
  <2>1. QED
    BY <1>2, <1>3, FS_AddElement
<1>6. QED
  BY <1>1, <1>2, <1>4, <1>5 DEF Count, Hit

\* A concern raised on rows that extend earlier ones.
LEMMA ExtendsOn ==
  ASSUME NEW rows \in Seq(Concern), NEW more, NEW most, Extends(rows, more), Extends(more, most)
  PROVE  Extends(rows, most)
<1>1. Len(rows) \in Nat /\ Len(more) \in Nat /\ Len(most) \in Nat
  BY LenProperties DEF Extends
<1>2. QED
  BY <1>1 DEF Extends

\* After a list of concerns, looked up as they may be, every total has grown by
\* what the list says.
LEMMA RaiseAllAdds ==
  ASSUME NEW rows \in Seq(Concern), NEW list \in Seq(AllThemes), NEW early,
         \A i \in DOMAIN early : i = 1 /\ Fits(early[i], rows, list[1])
  PROVE  /\ Extends(rows, RaiseAll(rows, list, early))
         /\ \A h : TotalIn(RaiseAll(rows, list, early), h) = TotalIn(rows, h) + TimesIn(list, h)
<1> DEFINE n == Len(list)
<1>1. n \in Nat /\ DOMAIN list = 1..n /\ \A i \in 1..n : list[i] \in AllThemes
  BY LenProperties, ElementOfSeq
<1>2. PICK f : RaiseAll(rows, list, early) = f[n] /\ RaisedBy(f, rows, list, early, n)
  BY <1>1, RaiseAllDef
<1> HIDE DEF n
<1> DEFINE Right(m) == /\ Extends(rows, f[m])
                       /\ \A h : TotalIn(f[m], h) = TotalIn(rows, h) + Count(list, h, m)
           P == {m \in Nat : m <= n => Right(m)}
<1>3. \A h : TotalIn(rows, h) \in Nat
  BY TotalIsNat
<1>4. 0 \in P
  <2>1. Extends(rows, rows)
    BY LenProperties DEF Extends
  <2>2. \A h : TotalIn(rows, h) = TotalIn(rows, h) + Count(list, h, 0)
    BY <1>3, CountNext
  <2>3. QED
    BY <1>2, <2>1, <2>2 DEF RaisedBy
<1>5. ASSUME NEW m \in P PROVE m + 1 \in P
  <2>1. SUFFICES ASSUME m + 1 <= n PROVE Right(m + 1)
    OBVIOUS
  <2>2. m \in Nat /\ Right(m)
    BY <1>1, <2>1
  <2> DEFINE k == m + 1
  <2>3. k \in 1..n /\ k - 1 = m
    BY <1>1, <2>1, <2>2
  <2>4. f[m] \in Seq(Concern)
    BY <2>2 DEF Extends
  <2> HIDE DEF k, Right
  <2>5. f[k] = Raise(f[m], list[k], Looked(f, list, early, k))
    BY <1>2, <2>3 DEF RaisedBy
  <2>6. Fits(Looked(f, list, early, k), f[m], list[k])
    <3>1. CASE k \in DOMAIN early
      <4>1. k = 1 /\ m = 0 /\ Looked(f, list, early, k) = early[k]
        BY <2>2, <2>3, <3>1 DEF Looked
      <4>2. Fits(early[k], f[m], list[k])
        BY <1>2, <3>1, <4>1 DEF RaisedBy
      <4>3. QED
        BY <4>1, <4>2
    <3>2. CASE k \notin DOMAIN early
      <4>1. Looked(f, list, early, k) = Lookup(f[m], list[k])
        BY <2>3, <3>2 DEF Looked
      <4>2. QED
        BY <2>4, <4>1, LookupFits
    <3>3. QED
      BY <3>1, <3>2
  <2>7. /\ Extends(f[m], f[k])
        /\ \A h : TotalIn(f[k], h) = TotalIn(f[m], h) + (IF list[k] = h THEN 1 ELSE 0)
    BY <1>1, <2>3, <2>4, <2>5, <2>6, RaiseAdds
  <2>8. Extends(rows, f[k])
    BY <2>2, <2>7, ExtendsOn DEF Right
  <2>9. ASSUME NEW h PROVE TotalIn(f[k], h) = TotalIn(rows, h) + Count(list, h, k)
    <3>1. TotalIn(f[m], h) = TotalIn(rows, h) + Count(list, h, m)
      BY <2>2 DEF Right
    <3>2. Count(list, h, m) \in Nat
          /\ Count(list, h, k) = Count(list, h, m) + (IF list[k] = h THEN 1 ELSE 0)
      <4>1. m \in Nat
        BY <2>2
      <4>2. Count(list, h, m) \in Nat
        BY <4>1, CountNext
      <4>3. Count(list, h, m + 1) = Count(list, h, m) + Hit(list, h, m + 1)
        BY <4>1, CountNext
      <4>4. QED
        BY <4>2, <4>3 DEF k, Hit
    <3>3. TotalIn(f[k], h) = TotalIn(f[m], h) + (IF list[k] = h THEN 1 ELSE 0)
      BY <2>7
    <3>4. QED
      BY <1>3, <3>1, <3>2, <3>3
  <2>10. QED
    BY <2>8, <2>9 DEF Right, k
<1>6. P = Nat
  <2>1. P \in SUBSET Nat
    OBVIOUS
  <2> HIDE DEF P
  <2>2. QED
    BY <1>4, <1>5, <2>1, SetInduction
<1>7. n \in P
  <2> HIDE DEF P
  <2>1. QED
    BY <1>1, <1>6
<1>8. Right(n)
  BY <1>1, <1>7
<1>9. \A h : TimesIn(list, h) = Count(list, h, n)
  BY <1>1 DEF TimesIn, Count
<1>10. QED
  BY <1>2, <1>8, <1>9

\* The rows counted what was raised, and a row looked up early is still there.
CountInv ==
  /\ concerns \in Seq(Concern)
  /\ raised \in [AllThemes -> Nat]
  /\ ConcernsCounted
  /\ \A a \in Agents :
       agent[a].at # "ready" =>
         /\ agent[a].at # "record" => agent[a].early = <<>>
         /\ \A i \in DOMAIN agent[a].early :
              i = 1 /\ Fits(agent[a].early[i], concerns, Themes(agent[a].transcript)[1])

LEMMA ThemesType ==
  ASSUME NEW t \in Transcripts
  PROVE  /\ Themes(t) \in Seq(AllThemes)
         /\ \A h : TimesIn(Themes(t), h) \in Nat
<1>1. Themes(t) \in Seq(STRING)
  BY CoachAssumption
<1>2. Len(Themes(t)) \in Nat /\ DOMAIN Themes(t) = 1..Len(Themes(t))
      /\ Themes(t) = [i \in 1..Len(Themes(t)) |-> Themes(t)[i]]
  BY <1>1, LenProperties
<1>3. ToSet(Themes(t)) \subseteq AllThemes
  BY DEF AllThemes
<1>4. \A i \in 1..Len(Themes(t)) : Themes(t)[i] \in AllThemes
  BY <1>2, <1>3 DEF ToSet
<1>5. Themes(t) \in Seq(AllThemes)
  BY <1>2, <1>4
<1>6. \A h : TimesIn(Themes(t), h) = Count(Themes(t), h, Len(Themes(t)))
  BY <1>2 DEF TimesIn, Count
<1>7. QED
  BY <1>2, <1>5, <1>6, CountNext

LEMMA InitCounts == CoachInit => CountInv
<1> SUFFICES ASSUME CoachInit PROVE CountInv
  OBVIOUS
<1>1. concerns = <<>> /\ raised = [t \in AllThemes |-> 0]
      /\ \A a \in Agents : agent[a].at = "ready"
  BY DEF CoachInit, Ready
<1>2. ASSUME NEW h \in AllThemes PROVE TotalRaised(h) = raised[h]
  <2>1. Len(concerns) = 0
    BY <1>1
  <2>2. PICK f : TotalIn(concerns, h) = f[0] /\ Adds(f, concerns, h, 0)
    BY <2>1, TotalDef
  <2>3. QED
    BY <1>1, <2>2 DEF Adds, TotalRaised
<1>3. QED
  BY <1>1, <1>2 DEF CountInv, ConcernsCounted

\* A step that leaves the counts alone keeps them.
LEMMA CountsAlone ==
  ASSUME CountInv, UNCHANGED <<concerns, raised>>,
         \A a \in Agents :
           agent'[a].at # "ready" =>
             \/ agent'[a] = agent[a]
             \/ agent'[a].at # "record" /\ agent'[a].early = <<>>
             \/ /\ agent'[a].at = "record"
                /\ \A i \in DOMAIN agent'[a].early :
                     i = 1 /\ Fits(agent'[a].early[i], concerns, Themes(agent'[a].transcript)[1])
  PROVE  CountInv'
<1>1. concerns' \in Seq(Concern) /\ raised' \in [AllThemes -> Nat]
  BY DEF CountInv
<1>2. ConcernsCounted'
  BY DEF CountInv, ConcernsCounted, TotalRaised
<1>3. ASSUME NEW a \in Agents, agent'[a].at # "ready"
      PROVE  /\ agent'[a].at # "record" => agent'[a].early = <<>>
             /\ \A i \in DOMAIN agent'[a].early :
                  i = 1 /\ Fits(agent'[a].early[i], concerns', Themes(agent'[a].transcript)[1])
  <2>1. concerns' = concerns
    OBVIOUS
  <2>2. CASE agent'[a] = agent[a]
    BY <1>3, <2>1, <2>2 DEF CountInv
  <2>3. CASE agent'[a].at # "record" /\ agent'[a].early = <<>>
    <3>1. DOMAIN agent'[a].early = {}
      BY <2>3
    <3>2. QED
      BY <2>3, <3>1
  <2>4. CASE /\ agent'[a].at = "record"
             /\ \A i \in DOMAIN agent'[a].early :
                  i = 1 /\ Fits(agent'[a].early[i], concerns, Themes(agent'[a].transcript)[1])
    BY <2>1, <2>4
  <2>5. QED
    BY <1>3, <2>2, <2>3, <2>4
<1>4. QED
  BY <1>1, <1>2, <1>3 DEF CountInv

LEMMA AgentStepCounts ==
  ASSUME CoachInv, CountInv, NEW a \in Agents,
         (\E t \in Transcripts : StoreSession(a, t)) \/ Embed(a) \/ LooksFirst(a) \/ Fails(a)
  PROVE  CountInv'
<1>1. UNCHANGED <<concerns, raised>>
  BY DEF StoreSession, Embed, LooksFirst, Fails
<1>2. PICK work :
        /\ agent' = [agent EXCEPT ![a] = work]
        /\ \/ work.at = "ready"
           \/ work.at # "record" /\ work.early = <<>>
           \/ /\ work.at = "record"
              /\ \A i \in DOMAIN work.early :
                   i = 1 /\ Fits(work.early[i], concerns, Themes(work.transcript)[1])
  <2>1. CASE \E t \in Transcripts : StoreSession(a, t)
    <3>1. PICK t \in Transcripts : StoreSession(a, t)
      BY <2>1
    <3> DEFINE work == [at |-> "embed", transcript |-> t, early |-> <<>>]
    <3>2. agent' = [agent EXCEPT ![a] = work]
      BY <3>1 DEF StoreSession, Step
    <3>3. work.at # "record" /\ work.early = <<>>
      OBVIOUS
    <3> HIDE DEF work
    <3>4. QED
      BY <3>2, <3>3
  <2>2. CASE Embed(a)
    <3> DEFINE work == [at |-> "extract", transcript |-> agent[a].transcript, early |-> <<>>]
    <3>2. agent' = [agent EXCEPT ![a] = work]
      BY <2>2 DEF Embed, Step
    <3>3. work.at # "record" /\ work.early = <<>>
      OBVIOUS
    <3> HIDE DEF work
    <3>4. QED
      BY <3>2, <3>3
  <2>3. CASE LooksFirst(a)
    <3> DEFINE t == agent[a].transcript
               found == Lookup(concerns, Themes(t)[1])
               work == [at |-> "record", transcript |-> t, early |-> <<found>>]
    <3>1. agent' = [agent EXCEPT ![a] = work]
      BY <2>3 DEF LooksFirst, Step
    <3>2. Fits(found, concerns, Themes(t)[1])
      BY LookupFits DEF CountInv
    <3>3. work.at = "record" /\ work.transcript = t /\ DOMAIN work.early = {1}
          /\ work.early[1] = found
      OBVIOUS
    <3> HIDE DEF work, found
    <3>4. QED
      BY <3>1, <3>2, <3>3
  <2>4. CASE Fails(a)
    <3>1. agent' = [agent EXCEPT ![a] = Ready] /\ Ready.at = "ready"
      BY <2>4 DEF Fails, Ready
    <3>2. QED
      BY <3>1
  <2>5. QED
    BY <2>1, <2>2, <2>3, <2>4
<1>3. ASSUME NEW b \in Agents PROVE agent'[b] = IF b = a THEN work ELSE agent[b]
  BY <1>2 DEF CoachInv, SessionsStored
<1>4. QED
  BY <1>1, <1>2, <1>3, CountsAlone

LEMMA ExtractCounts ==
  ASSUME CoachInv, CountInv, NEW a \in Agents, Extract(a)
  PROVE  CountInv'
<1> DEFINE t == agent[a].transcript
           list == Themes(t)
           early == agent[a].early
<1>1. /\ agent[a].at # "ready"
      /\ concerns' = RaiseAll(concerns, list, early)
      /\ raised' = [h \in AllThemes |-> raised[h] + TimesIn(list, h)]
      /\ agent' = [agent EXCEPT ![a] = Ready]
  BY DEF Extract
<1>2. t \in Transcripts
  BY <1>1 DEF CoachInv, SessionsStored
<1>3. list \in Seq(AllThemes) /\ \A h : TimesIn(list, h) \in Nat
  BY <1>2, ThemesType
<1>4. \A i \in DOMAIN early : i = 1 /\ Fits(early[i], concerns, list[1])
  BY <1>1 DEF CountInv
<1>5. concerns \in Seq(Concern)
  BY DEF CountInv
<1> HIDE DEF t, list, early
<1>6. /\ Extends(concerns, concerns')
      /\ \A h : TotalIn(concerns', h) = TotalIn(concerns, h) + TimesIn(list, h)
  BY <1>1, <1>3, <1>4, <1>5, RaiseAllAdds
<1>7. concerns' \in Seq(Concern)
  BY <1>6 DEF Extends
<1>8. raised' \in [AllThemes -> Nat]
  <2>1. \A h \in AllThemes : raised[h] \in Nat /\ raised[h] + TimesIn(list, h) \in Nat
    BY <1>3 DEF CountInv
  <2>2. QED
    BY <1>1, <2>1
<1>9. ConcernsCounted'
  <2>1. ASSUME NEW h \in AllThemes PROVE TotalIn(concerns', h) = raised'[h]
    <3>1. TotalIn(concerns, h) = raised[h]
      BY DEF CountInv, ConcernsCounted, TotalRaised
    <3>2. QED
      BY <1>1, <1>6, <3>1
  <2>2. QED
    BY <2>1 DEF ConcernsCounted, TotalRaised
<1>10. ASSUME NEW b \in Agents, agent'[b].at # "ready"
       PROVE  /\ agent'[b].at # "record" => agent'[b].early = <<>>
              /\ \A i \in DOMAIN agent'[b].early :
                   i = 1 /\ Fits(agent'[b].early[i], concerns', Themes(agent'[b].transcript)[1])
  <2>1. b # a /\ agent'[b] = agent[b]
    BY <1>1, <1>10 DEF CoachInv, SessionsStored, Ready
  <2>2. Len(concerns) \in Nat /\ Len(concerns') \in Nat
    BY <1>5, <1>7, LenProperties
  <2>3. \A found, h : Fits(found, concerns, h) => Fits(found, concerns', h)
    BY <1>6, <2>2 DEF Extends, Fits
  <2>4. QED
    BY <1>10, <2>1, <2>3 DEF CountInv
<1>11. QED
  BY <1>7, <1>8, <1>9, <1>10 DEF CountInv

LEMMA NextCounts ==
  ASSUME CoachInv, CountInv, [CoachNext]_coachVars
  PROVE  CountInv'
<1>1. ASSUME UNCHANGED <<concerns, raised, agent>> PROVE CountInv'
  BY <1>1, CountsAlone
<1>2. CASE VerifyReads
  BY <1>1, <1>2 DEF VerifyReads, memoryVars
<1>3. CASE TrackConcerns
  BY <1>1, <1>3 DEF TrackConcerns, memoryVars
<1>4. CASE BriefOpen
  BY <1>1, <1>4 DEF BriefOpen, memoryVars
<1>5. CASE BriefDelivered
  BY <1>1, <1>5 DEF BriefDelivered, memoryVars
<1>6. ASSUME NEW i, NEW found, VerifyOne(i, found) PROVE CountInv'
  BY <1>1, <1>6 DEF VerifyOne, memoryVars
<1>7. ASSUME NEW i, NEW status, MarkByHand(i, status) PROVE CountInv'
  BY <1>1, <1>7 DEF MarkByHand, memoryVars
<1>8. CASE UNCHANGED coachVars
  BY <1>1, <1>8 DEF coachVars, memoryVars
<1>9. QED
  BY <1>2, <1>3, <1>4, <1>5, <1>6, <1>7, <1>8, AgentStepCounts, ExtractCounts DEF CoachNext

\* The totals of the concerns are what the committed extractions raised, for any
\* number of agents and transcripts, interleaved in any way (ConcernsCounted).
THEOREM ConcernsAddUp == CoachSpec => []ConcernsCounted
<1>1. CoachInit => CoachInv /\ CountInv
  BY InitBriefing, InitCounts
<1>2. CoachInv /\ CountInv /\ [CoachNext]_coachVars => (CoachInv /\ CountInv)'
  BY NextBriefing, NextCounts
<1>3. CountInv => ConcernsCounted
  BY DEF CountInv
<1>4. QED
  BY <1>1, <1>2, <1>3, PTL DEF CoachSpec

-------------------------------------------------------------------------------
(* The evidence for the ML decisions. *)

\* Results that the detector relies on were filed, and stay.
Reached(d) ==
  /\ d \in DOMAIN ReadyField
  /\ \E i \in DOMAIN evidence :
       evidence[i].field = ReadyField[d] /\ evidence[i].value >= Threshold[d]

MLInv ==
  /\ MLTypeOK
  /\ \A d \in Decisions : decision[d] = "ready_to_close" => Reached(d)
  /\ \A x \in Detectors : \A d \in ready[x] : Reached(d)

LEMMA InitEvidence == MLInit => MLInv
<1> SUFFICES ASSUME MLInit PROVE MLInv
  OBVIOUS
<1>1. ingesting \in [{} -> Amounts] /\ {} \in SUBSET DOMAIN Fields
  BY DEF MLInit, NoResults
<1>2. MLTypeOK
  BY <1>1 DEF MLInit, MLTypeOK
<1>3. QED
  BY <1>2 DEF MLInit, MLInv

\* What is collected for a decision was filed for it.
LEMMA CollectedWasFiled ==
  ASSUME MLTypeOK, NEW d \in DOMAIN ReadyField, Collected(d) >= Threshold[d]
  PROVE  Reached(d)
<1>1. Len(evidence) \in Nat /\ DOMAIN evidence = 1..Len(evidence)
      /\ \A i \in DOMAIN evidence : evidence[i].value \in Amounts
  <2>1. evidence \in Seq([field : STRING, value : Amounts])
    BY DEF MLTypeOK
  <2>2. \A i \in 1..Len(evidence) : evidence[i] \in [field : STRING, value : Amounts]
    BY <2>1, ElementOfSeq
  <2>3. QED
    BY <2>1, <2>2
<1>0. Amounts \subseteq Nat /\ Threshold[d] \in Nat \ {0}
  BY EvidenceAssumption
<1> DEFINE values == [i \in 1..Len(evidence) |-> evidence[i].value]
<1>2. values \in Seq(Nat) /\ DOMAIN values = DOMAIN evidence
      /\ \A i \in DOMAIN evidence : values[i] = evidence[i].value /\ values[i] \in Nat
  <2>1. \A i \in 1..Len(evidence) : evidence[i].value \in Nat
    BY <1>0, <1>1
  <2>2. values \in [1..Len(evidence) -> Nat]
    BY <2>1
  <2>3. QED
    BY <1>1, <2>1, <2>2
<1>3. PICK m \in Nat : \A i \in DOMAIN values : values[i] <= m
  BY <1>2, SequenceIsBounded
<1>4. Values(d) \in SUBSET Nat /\ \A v \in Values(d) : v <= m
  BY <1>2, <1>3 DEF Values
<1>5. Values(d) # {}
  BY <1>0 DEF Collected
<1>6. \E v \in Values(d) : \A w \in Values(d) : v >= w
  BY <1>4, <1>5, Greatest
<1>7. Collected(d) \in Values(d)
  BY <1>5, <1>6 DEF Collected, Max
<1>8. QED
  BY <1>7 DEF Values, Reached

LEMMA ReachedStays ==
  ASSUME NEW d, Reached(d), MLTypeOK, NEW r \in [field : STRING, value : Amounts],
         evidence' = evidence \/ evidence' = Append(evidence, r)
  PROVE  Reached(d)'
<1>1. CASE evidence' = Append(evidence, r)
  <2>1. \A i \in DOMAIN evidence : i \in DOMAIN evidence' /\ evidence'[i] = evidence[i]
    BY <1>1, AppendProperties DEF MLTypeOK
  <2>2. QED
    BY <2>1 DEF Reached
<1>2. QED
  BY <1>1 DEF Reached

LEMMA IngestFieldKeeps ==
  ASSUME MLInv, IngestField
  PROVE  MLInv'
<1> DEFINE i == Min(DOMAIN ingesting)
           left == [j \in DOMAIN ingesting \ {i} |-> ingesting[j]]
           r == [field |-> Fields[i], value |-> ingesting[i]]
<1>1. PICK S \in SUBSET DOMAIN Fields : ingesting \in [S -> Amounts]
  BY DEF MLInv, MLTypeOK
<1>2. DOMAIN Fields \subseteq Nat
  BY EvidenceAssumption
<1>3. S # {}
  <2>1. ASSUME S = {} PROVE ingesting = NoResults
    BY <1>1, <2>1 DEF NoResults
  <2>2. QED
    BY <2>1 DEF IngestField
<1>4. \E x \in S : \A y \in S : x <= y
  BY <1>1, <1>2, <1>3, Least
<1>5. i \in S
  BY <1>1, <1>4 DEF Min
<1>6. r \in [field : STRING, value : Amounts]
  BY <1>1, <1>5, EvidenceAssumption
<1>7. left \in [S \ {i} -> Amounts]
  BY <1>1
<1>8. NoResults \in [{} -> Amounts]
  BY DEF NoResults
<1>9. /\ ingesting' = left \/ ingesting' = NoResults
      /\ evidence' = evidence \/ evidence' = Append(evidence, r)
      /\ UNCHANGED <<decision, ready>>
  BY DEF IngestField
<1> HIDE DEF left, r
<1>10. \E T \in SUBSET DOMAIN Fields : ingesting' \in [T -> Amounts]
  BY <1>1, <1>7, <1>8, <1>9
<1>11. MLTypeOK'
  <2>1. evidence \in Seq([field : STRING, value : Amounts])
    BY DEF MLInv, MLTypeOK
  <2>2. Append(evidence, r) \in Seq([field : STRING, value : Amounts])
    BY <1>6, <2>1, AppendProperties
  <2>3. evidence' \in Seq([field : STRING, value : Amounts])
    BY <1>9, <2>1, <2>2
  <2>4. QED
    BY <1>9, <1>10, <2>3 DEF MLInv, MLTypeOK
<1>12. \A d : Reached(d) => Reached(d)'
  BY <1>6, <1>9, ReachedStays DEF MLInv
<1>13. QED
  BY <1>9, <1>11, <1>12 DEF MLInv

LEMMA NextEvidence ==
  ASSUME MLInv, [MLNext]_mlVars
  PROVE  MLInv'
<1>1. ASSUME UNCHANGED evidence, MLTypeOK',
             \A d \in Decisions : decision'[d] = "ready_to_close" =>
               decision[d] = "ready_to_close" \/ \E x \in Detectors : d \in ready[x],
             \A x \in Detectors : \A d \in ready'[x] :
               d \in ready[x] \/ (d \in DOMAIN ReadyField /\ Collected(d) >= Threshold[d])
      PROVE  MLInv'
  BY <1>1, CollectedWasFiled DEF MLInv, Reached
<1>2. ASSUME NEW S \in SUBSET DOMAIN Fields, NEW values \in [S -> Amounts], ParseResults(values)
      PROVE  MLInv'
  BY <1>1, <1>2 DEF ParseResults, MLInv, MLTypeOK
<1>3. ASSUME NEW x \in Detectors, Check(x)
      PROVE  MLInv'
  <2>1. MLTypeOK'
    BY <1>3 DEF Check, MLInv, MLTypeOK
  <2>2. QED
    BY <1>1, <1>3, <2>1 DEF Check, MLInv, MLTypeOK
<1>4. ASSUME NEW x \in Detectors, NEW d \in Decisions, DeclareReady(x, d)
      PROVE  MLInv'
  <2>1. MLTypeOK'
    BY <1>4 DEF DeclareReady, MLInv, MLTypeOK
  <2>2. QED
    BY <1>1, <1>4, <2>1 DEF DeclareReady, MLInv, MLTypeOK
<1>5. ASSUME NEW d \in Decisions, NEW s \in {"open", "closed"}, UpdateDecision(d, s)
      PROVE  MLInv'
  <2>1. MLTypeOK'
    BY <1>5 DEF UpdateDecision, MLInv, MLTypeOK
  <2>2. QED
    BY <1>1, <1>5, <2>1 DEF UpdateDecision, MLInv, MLTypeOK
<1>6. CASE UNCHANGED mlVars
  BY <1>1, <1>6 DEF mlVars, MLInv, MLTypeOK
<1>7. QED
  BY <1>2, <1>3, <1>4, <1>5, <1>6, IngestFieldKeeps DEF MLNext

\* A decision is ready to close only when one set of results reached its
\* threshold, for any number of detectors, decisions and results (ReadyHasEvidence).
THEOREM ReadyWasReached == MLSpec => []ReadyHasEvidence
<1>1. MLInit => MLInv
  BY InitEvidence
<1>2. MLInv /\ [MLNext]_mlVars => MLInv'
  BY NextEvidence
<1>3. MLInv => ReadyHasEvidence
  BY DEF MLInv, ReadyHasEvidence, Reached
<1>4. QED
  BY <1>1, <1>2, <1>3, PTL DEF MLSpec
===============================================================================
