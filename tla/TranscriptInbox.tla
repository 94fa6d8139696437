--------------------------- MODULE TranscriptInbox ---------------------------
(* pipeline/process_inbox.py and pipeline/ingest.py, run by                 *)
(* .github/workflows/transcript-pipeline.yml: recordings pushed to          *)
(* transcripts/inbox become minutes in a pull request that a person merges. *)
(* The same program can be run in a clone, where a run that dies leaves     *)
(* what it has written and the next run starts from that.                   *)
EXTENDS Naturals, FiniteSets

CONSTANTS
  Uploads,        \* files people push to the inbox
  Name(_),        \* canonicalize of the file's name
  Date(_),        \* the date in that name
  IsTranscript(_),\* ".transcript" is in the file's name
  Readable(_),    \* the canonical name matches "*.transcript.vtt"
  MaxJobs         \* bound on the runs of the workflow

VARIABLES
  main,           \* the branch everybody sees
  tree,           \* the working tree of the run
  phase,          \* what the run is at
  base,           \* main when the run checked it out
  pulls,          \* the open pull requests: what each was based on and has
  pending,        \* a run waits in the workflow's concurrency group
  jobs,           \* runs started
  cut             \* history: a run died after its last transcript was moved
                  \* and before the report was rebuilt

inboxVars == <<main, tree, phase, base, pulls, pending, jobs, cut>>

Dates == {Date(u) : u \in Uploads}
NoMinutes == "none"
Names == {Name(u) : u \in Uploads}

\* The canonical name has the date, keeps ".transcript" and is what the glob
\* of batch_process reads: 'X.transcript (1).vtt' becomes 'X.transcript.vtt',
\* but 'X.transcript(1).vtt' stays as it is.
ASSUME NamesAssumption ==
  /\ NoMinutes \notin Names
  /\ \A u \in Uploads : Readable(u) => IsTranscript(u)
  /\ \A u, v \in Uploads : Name(u) = Name(v) =>
       /\ Date(u) = Date(v)
       /\ IsTranscript(u) <=> IsTranscript(v)
       /\ Readable(u) <=> Readable(v)

\* minutes[d] is the name of the recording the minutes of d were made from
\* (its md, json and cleaned files have one content).  The cross-meeting report
\* covers dates, was written in the run "by" (the time it bears) and was either
\* rebuilt over all minutes or left by the ingestion of one batch.
Empty ==
  [inbox |-> {}, archive |-> {}, minutes |-> [d \in Dates |-> NoMinutes],
   report |-> [dates |-> {}, by |-> 0, rebuilt |-> FALSE]]

Trees ==
  [inbox : SUBSET Uploads, archive : SUBSET Names, minutes : [Dates -> Names \union {NoMinutes}],
   report : [dates : SUBSET Dates, by : Nat, rebuilt : BOOLEAN]]

InboxInit ==
  /\ main = Empty /\ tree = Empty /\ base = Empty
  /\ phase = "idle"
  /\ pulls = {}
  /\ pending = FALSE
  /\ jobs = 0
  /\ cut = FALSE

Staged(t) == {u \in t.inbox : IsTranscript(u)}
Read(t) == {u \in Staged(t) : Readable(u)}
Processed(t) == {d \in Dates : t.minutes[d] # NoMinutes}

\* A push to main under transcripts/inbox starts the workflow, or replaces the
\* run that waits for the one under way.
Push(u) ==
  /\ u \notin main.inbox
  /\ main' = [main EXCEPT !.inbox = @ \union {u}]
  /\ pending' = TRUE
  /\ UNCHANGED <<tree, phase, base, pulls, jobs, cut>>

\* workflow_dispatch.
Dispatch ==
  /\ ~pending
  /\ pending' = TRUE
  /\ UNCHANGED <<main, tree, phase, base, pulls, jobs, cut>>

\* With no transcript in the inbox main returns at once, and the job succeeds.
JobStarts(t) ==
  /\ jobs < MaxJobs
  /\ tree' = t
  /\ phase' = IF Staged(t) = {} THEN "done" ELSE "ingest"
  /\ jobs' = jobs + 1

Checkout ==
  /\ phase \in {"idle", "dead"} /\ pending
  /\ JobStarts(main)
  /\ base' = main
  /\ pending' = FALSE
  /\ UNCHANGED <<main, pulls, cut>>

\* process_inbox is run again in the clone a run has died in.
Rerun ==
  /\ phase = "dead"
  /\ JobStarts(tree)
  /\ UNCHANGED <<main, base, pulls, pending, cut>>

\* What the minutes of a date are made from when several of the files read have
\* it: one replaces another, in the order of their names, which is left open.
Candidates(d) == {Name(u) : u \in {v \in Read(tree) : Date(v) = d}}

\* run of ingest.py for the staged files of one date: minutes, JSON, cleaned text.
Ingest(d) ==
  /\ phase = "ingest"
  /\ \E n \in Candidates(d) \ {tree.minutes[d]} :
       tree' = [tree EXCEPT !.minutes[d] = n]
  /\ UNCHANGED <<main, phase, base, pulls, pending, jobs, cut>>

\* The report of run covers the files it has read; without one it returns early.
BatchReport ==
  IF Read(tree) = {} THEN UNCHANGED tree
  ELSE tree' = [tree EXCEPT !.report = [dates |-> {Date(u) : u \in Read(tree)},
                                        by |-> jobs, rebuilt |-> FALSE]]

\* A slip in IngestEnds: a recording that yields no minutes is passed over.
IngestEndsUnread ==
  /\ phase = "ingest"
  /\ BatchReport
  /\ phase' = "move"
  /\ UNCHANGED <<main, base, pulls, pending, jobs, cut>>

\* The end of run, which may have read none of the staged files.
IngestEnds ==
  /\ phase = "ingest"
  /\ \A u \in Read(tree) : tree.minutes[Date(u)] \in Candidates(Date(u))
  /\ BatchReport
  /\ phase' = "move"
  /\ UNCHANGED <<main, base, pulls, pending, jobs, cut>>

\* shutil.move of one file, transcripts first.
Move(u) ==
  /\ phase = "move" /\ u \in tree.inbox
  /\ IsTranscript(u) \/ Staged(tree) = {}
  /\ tree' = [tree EXCEPT !.inbox = @ \ {u}, !.archive = @ \union {Name(u)}]
  /\ UNCHANGED <<main, phase, base, pulls, pending, jobs, cut>>

\* A slip in Rebuild: the report that run wrote is taken for the rebuilt one.
RebuildFromBatch ==
  /\ phase = "move" /\ tree.inbox = {}
  /\ phase' = "done"
  /\ UNCHANGED <<main, tree, base, pulls, pending, jobs, cut>>

\* rebuild_cross_meeting_report over every JSON file in minutes/, if any.
Rebuild ==
  /\ phase = "move" /\ tree.inbox = {}
  /\ IF Processed(tree) = {} THEN UNCHANGED tree
     ELSE tree' = [tree EXCEPT !.report =
                     [dates |-> Processed(tree), by |-> jobs, rebuilt |-> TRUE]]
  /\ phase' = "done"
  /\ UNCHANGED <<main, base, pulls, pending, jobs, cut>>

\* create-pull-request, or the developer's own; there is none without a change.
OpenPull ==
  /\ phase = "done"
  /\ pulls' = pulls \union {p \in {[base |-> base, tree |-> tree]} : tree # base}
  /\ phase' = "idle"
  /\ UNCHANGED <<main, tree, base, pending, jobs, cut>>

JobDies ==
  /\ phase \in {"ingest", "move", "done"}
  /\ phase' = "dead"
  /\ cut' = (cut \/ (phase = "move" /\ Staged(tree) = {}))
  /\ UNCHANGED <<main, tree, base, pulls, pending, jobs>>

\* git takes the side that has changed a file, and refuses when both have.
Merges(mine, old, yours) == old \in {mine, yours} \/ mine = yours
Merged(mine, old, yours) == IF mine = old THEN yours ELSE mine

\* A person merges.  The merge deletes files of the inbox, so it starts the
\* workflow again.
Merge(p) ==
  /\ p \in pulls
  /\ Merges(p.tree.report, p.base.report, main.report)
  /\ \A d \in Dates : Merges(p.tree.minutes[d], p.base.minutes[d], main.minutes[d])
  /\ main' = [inbox   |-> main.inbox \ (p.base.inbox \ p.tree.inbox),
              archive |-> main.archive \union p.tree.archive,
              minutes |-> [d \in Dates |->
                 Merged(p.tree.minutes[d], p.base.minutes[d], main.minutes[d])],
              report  |-> Merged(p.tree.report, p.base.report, main.report)]
  /\ pulls' = pulls \ {p}
  /\ pending' = TRUE
  /\ UNCHANGED <<tree, phase, base, jobs, cut>>

\* A pull request that cannot be merged, or whose minutes are wrong, is closed.
Close(p) ==
  /\ p \in pulls
  /\ pulls' = pulls \ {p}
  /\ UNCHANGED <<main, tree, phase, base, pending, jobs, cut>>

InboxNext ==
  \/ \E u \in Uploads : Push(u) \/ Move(u)
  \/ Dispatch \/ Checkout \/ Rerun
  \/ \E d \in Dates : Ingest(d)
  \/ IngestEnds \/ Rebuild \/ OpenPull \/ JobDies
  \/ \E p \in pulls : Merge(p) \/ Close(p)

InboxSpec == InboxInit /\ [][InboxNext]_inboxVars

InboxTypeOK ==
  /\ main \in Trees /\ tree \in Trees /\ base \in Trees
  /\ phase \in {"idle", "ingest", "move", "done", "dead"}
  /\ pulls \subseteq [base : Trees, tree : Trees]
  /\ pending \in BOOLEAN
  /\ jobs \in Nat
  /\ cut \in BOOLEAN

Archived(t) == {u \in Uploads : IsTranscript(u) /\ Name(u) \in t.archive}

\* "Move the processed VTTs": of the files whose canonical name the glob matches
\* none leaves the inbox before its day has minutes, on main, in every pull request
\* and merge, and in the clone of a run that died between two moves.
ReadHasMinutes ==
  \A t \in {main, tree} \union {p.tree : p \in pulls} :
    \A u \in Archived(t) : Readable(u) => t.minutes[Date(u)] # NoMinutes

\* "Regenerate the cross-meeting analysis over every processed meeting": on
\* main it covers all of them, whatever was merged, closed, retried or pushed
\* meanwhile, unless a run died between its last move and the rebuilding, and
\* the report that is short of a meeting was never rebuilt.
ReportCoversUnlessCut ==
  main.report.dates = Processed(main) \/ (cut /\ ~main.report.rebuilt)
=============================================================================
