# Formal models of the eParts agentic software-engineering system

This directory specifies the parts of the repository in which concurrency, ordering, retries,
crashes and partial failure decide whether the result is right: the task queue with the web
application around it, the agent runtime, the pipelines, the stores, the processing of meetings, the
plan generator and the reviewing agents, the evaluations, and the tick board. TLC checks every model
on small instances; every invariant and every property of a step that its passing runs check is also
proved with TLAPS for all values of the constants.

Run a model with `tlc -config X.cfg M` and a proof with `tlapm M.tla`; the table of runs in section 3
gives the pairs.

## 1. The system

A FastAPI application receives events (`orchestrator/main.py`) and maps each to agents (`router.py`).
It puts one task per agent into a queue, whose single worker thread executes the agents in turn
(`queue.py`, `registry.py`). Besides that, `POST /pipeline/{name}` runs a whole pipeline of agents
synchronously, on the event-loop thread, on the very same agent objects. Agents call a language model,
external services (Jira, GitHub, Slack, Confluence) and SQLite stores. Meeting transcripts are pushed
to an inbox and become minutes in a pull request. The tick board is a separate browser application
that keeps its data in a file of the repository through the GitHub Contents API.

### Components

| component | state | operations | interacts by | what makes it correct |
|---|---|---|---|---|
| Task queue (`orchestrator/queue.py`) | FIFO of tasks, `_running`, worker thread, results | register_agent, enqueue, start, stop, get_result, `_process_loop` | threads, one lock, `queue.Queue` | one agent at a time, FIFO, each task once, answers final, stop returns |
| Registry, router, web application (`registry.py`, `router.py`, `main.py`) | agent objects, trigger table | webhook, manual_trigger, task status, run_pipeline, lifespan | calls into the queue and the executor | the agents of an event run in the order of its route; an object is executed by one thread at a time |
| Agent runtime (`agents/base.py`, `pipeline/metrics.py`) | run id and counters of each object, connections, `agent_runs`, `llm_calls`, the log | execute, call_claude with retries, recording | shared object fields, SQLite's thread check | each run has its own row, calls are counted once, no run fails because of its thread |
| Pipeline executor (`pipeline/pipelines.py`) | context, step results, artifacts, wiki deposits | execute, `_deposit_to_wiki` | calls agents, writes the wiki | totals add up, a required failure stops, review is not lost |
| Pipeline definitions and their agents | the keys agents read and write, effects outside | seven pipelines | through the context | P0 items are held, a failed run has published nothing |
| Shared memory, event bus, artifact versions (`pipeline/`) | SQLite tables | put, delete, publish, mark_consumed, register, add_version | several connections on one file | the log agrees with the data, no mark and no version is lost unseen |
| Prompt registry | versions, reviews, the prompt files | scan, register, review, activate | SQLite and files | what was registered is active only after its review; an edit awaits one; file and table agree |
| Risk register, traceability graph | risks with reviews; artifacts and links | seed, review, update; seed, link | SQLite; seeding the graph seeds the risks | a review stands; related artifacts are linked |
| Transcript ingestion (`process_inbox.py`, `ingest.py`, `vtt_processor.py`, `extract_from_meetings.py`) | inbox, minutes, archive, requirements, ADR drafts | one run per push, merge, parse, extract | files, a pull request per run | no transcript leaves without minutes, no cue is lost, numbers stand |
| Coach memory, ML decisions | sessions, commitments, concerns; decisions and evidence | extract, check delivery, brief; file evidence, check readiness | SQLite | no raising is lost and nothing falls out between two queries; a decision is ready only on evidence |
| Plan generator | plans, questions, their commits | grill, plan, write, commit, announce | the repository, where people tick plans | no plan on a guess; a tick is on the plan that was read |
| Coding agents | findings of a review | heuristics, model, merge, verdict | one call | the model hides and softens nothing |
| Evaluations (`evals/`) | baselines file | run, compare, save | files | what was lost is named, and what is named was lost |
| External clients (`mcp/`) | none | REST calls | return a dict, never raise on a refusal | a refusal is not taken for success |
| Tick board (`tick-board/*.js`) | `board.json` and its sha; per browser a copy, a sha, dialogs, requests | drop, edit, add, delete, complete a tick, poll, reload | HTTP PUT with a precondition, 30 s polls | no lost update, a tick archived once, every browser catches up |
| Tools, reports, demonstrations, documents | none | read and render | files | outside the models |

### Where it is hard

* Two threads execute the same Python objects: fields of a run are fields of the object.
* `stop` waits five seconds and goes on; `start` can then bring the old thread back to life.
* SQLite connections belong to the thread that opened them, and a refused insert leaves a transaction
  open on one.
* Steps of a pipeline are connected by key names only, and failures of clients are dropped.
* A browser changes its copy first and sends it after; answers, polls and reloads can overtake one
  another, and dialogs outlive the objects they were opened on.
* Stores read, compute and write without a transaction around all three; files and tables are
  written one after the other; a job dies between two of these steps and is run again.
* Seeding is part of ordinary calls and writes over what people have changed since.
* The model's answers are merged with computed ones and may contradict them.

`PROJECT.json` lists each hazard at its line with the properties that cover it, or why none does.

## 2. The modules

| module | models | composed of |
|---|---|---|
| `SerialExecutor` | what `queue.py` promises in its header: tasks one at a time, in order, each answered once | |
| `TaskQueue` | `queue.py`: event-loop thread, workers, `stop` with its timeout | refines `SerialExecutor` |
| `WebApp` | webhook, trigger, task status, the routes and the registered agents | over the queue as `SerialExecutor` promises it |
| `AgentRuntime` | `base.py` and the writes of `metrics.py`, by several threads | |
| `PipelineExecutor` | `PipelineExecutor.execute` and the wiki deposit for any pipeline and any agents | |
| `PipelineFlows` | the seven pipelines with their agents | extends `PipelineExecutor` |
| `SharedMemory`, `EventBus`, `ArtifactVersions` | the stores that several connections write | in `MCRecords` |
| `PromptRegistry` | the versions of a prompt, their review and activation, the file | in `MCRecords` |
| `RiskRegister` | seeding, status changes and reviews of risks | |
| `Traceability` | the seeding of the graph by seeders that overlap, are forced or die | extends `RiskRegister`, which it seeds |
| `TranscriptInbox` | pushes, runs of the workflow, deaths, pull requests, merges | in `MCMeetings` |
| `VttParser` | `parse_vtt`, cue by cue, against what the whole recording says | in `MCMeetings` |
| `MeetingExtraction` | numbering, deduplication and the cap on ADR drafts | in `MCMeetings` |
| `CoachMemory` | extraction, delivery check, marks by hand, briefing, query by query | in `MCMeetings` |
| `MLDecisions` | evidence filed field by field, the readiness check and its late update | in `MCMeetings` |
| `PlanGate` | both phases of the plan generator, its gate, and `commit_file` in two requests | in `MCWork` |
| `TestReview`, `RefactorReview` | heuristics, model and merge of the two reviewing agents | in `MCWork` |
| `EvalBaselines` | evaluation, comparison with the baseline, its rewriting, the exit code | in `MCWork` |
| `TickBoard` | `app.js`, `github-sync.js` and the server's rule for a PUT | |
| `MC*` | the instances for TLC | |
| `*Proofs` | the theorems | extend their components: `RecordsProofs` those of `MCRecords`, `MeetingsProofs` those of `MCMeetings`, `WorkProofs` those of `MCWork`, `PipelineExecutorProofs` also `PipelineFlows` |
| `Induction` | induction over the natural numbers, stated for sets, and what `FlattenSeq` returns | under the proofs about sequences of any length |

Definitions commented as a "Variant" or a "slip" are not the code: each is one plausible mistake in the definition after
it. With the definition replaced by its variant, TLC finds the property named in `PROJECT.json`
violated, which shows that the property depends on that code.

`MCRecords`, `MCMeetings` and `MCWork` each check several components that share no state. A behaviour
exercises one of them, chosen in the initial state, so TLC explores the sum of the state spaces and not
their product; nothing is lost, because a property of one component reads that component only.
Components that do share state are composed: `Traceability` extends the risk register it writes,
`WebApp` works on the queue's abstract specification, `PipelineFlows` on the executor.

### TaskQueue and WebApp

A task is its number in the order of submission, and its `task_id` is the pair of agent and time
stamp, as in `__post_init__`. `_process_loop` is cut at the points where another thread can act: the
test of `_running` (`LoopTest`), the blocking `get` or its timeout, the lookup, the handler, and
the write under the lock. The event-loop thread makes one call at a time; inside `stop` it is
"joining", and what ends that is the worker's exit or, when `SlowHandlers`, the timeout.
`MinClockStep` says whether two submissions can have the same time stamp. `WebApp` has the routing
table as it is in the code, turns an event into the tasks of its route and answers polls of clients;
it relies on the queue for what `SerialExecutor` says, which `TaskQueue` is shown to implement.

### AgentRuntime

One object per agent, with the fields that `execute` resets and `_record_run_metrics` reads. `Uses`
says which thread executes which objects: in the application both the worker and the event loop
execute all of them; the separated assignment is the discipline the code needs. `Creator` makes the
objects and `Eager` are those that open a database in `__init__`. A connection remembers its thread:
the metrics writes swallow the error of a foreign thread, agent code fails with it. Model calls are
attempts that answer, fail and are tried again up to `MaxRetries`, or raise. `metrics.db` may refuse a
write (`MaxFaults` bounds how often): a refused insert loses its row, a refused commit leaves it `held`
in the open transaction of the object's connection, whose lock refuses the rows of all other objects
until this object's next write commits it. `execute` swallows either error, counts on and returns; an
append to the log that fails it lets through to its caller. A row carries as history the execution
that wrote it, so `RunsRecorded` and `CallsMetered` say of each ended execution which rows were written
under its id, that they are its own, and that they are missing only after a refusal.

### PipelineExecutor and PipelineFlows

The context maps keys to values, of which the model keeps the kind (data, the dict around the data
of a step, or a list of outputs) and the contents, because `execute` stores `result.data` or, without
it, the outputs, and then merges every key of the data as well. A step is skipped, not registered,
answered, or raises after some of its effects; the report is the totals of the code. `Replies` is the
agents: arbitrary for the small pipelines of the run, and in `PipelineFlows` for each agent what its `run` can
return from what it reads in the context, and the effects (ticket, page, message, commit, row) it may
have had by then. Agents that find nothing under the keys they read say so, as in the code.

### The stores

Every connection is a process. A `put` of `SharedMemory` looks the key up outside of any transaction
and then changes value and log in one; the insert that UNIQUE refuses leaves the write lock with its
connection. `mark_consumed` and `add_version` are a read and a write, with whatever another connection
does in between. In `PromptRegistry` a version is its text, which stands for its hash; `untidy` records
whether the file was edited or an activation died or was overtaken since the last activation, which are
the ways in which file and table come apart. `RiskRegister` writes the seed rows again
whenever the graph is seeded or the risks are fetched, as the endpoint does, and records in
`writtenBy` who wrote a row last. A review reads the row and takes its date in one step and commits in
another; the history is ordered by the dates, as `get_review_history` sorts it. `Traceability` executes
the seed script item by item, each a commit, with the links that the curated maps and the rules for
domains, meetings and labels add; seeders see what the others have written so far.

### The meetings

The inbox model has the branch `main`, the tree of a run and the pull requests made from it; a run
that dies leaves its tree when it is a clone and nothing when it is a job. What is staged
(`IsTranscript`) and what the ingestion reads of it (`Readable`) are two tests of a name, and a run
with nothing staged succeeds at once, whatever its tree is. A merge is git's, file by file. `rebuilt`
and `cut` are history: whether a report was written over all minutes, and whether a run died between
its last move and that. A recording of `VttParser` is
a sequence of cues, a cue the kinds of its lines (a label, text, digits); what the turns should be is
defined over the whole recording, not by the loop. In `CoachMemory` the look-up and the write of a
concern, and the queries of a briefing, are steps of their own. In `MLDecisions` so are the fields of a
result and the two halves of the readiness check. In `MeetingExtraction` titles and texts are already
normalized, and `Slug` says which texts are named alike in a file name.

### The work around the agents

A run of `PlanGate` is at one of the steps grill, plan, write, commit, put, wiki, emit. What the model
says of its readiness, its blocking questions, the caller's tolerance and `force_plan` are inputs.
Runs of one spec write the same file; the reviewer reads the plan in the repository and later puts it
back with the box ticked, over the sha that was read. `TestReview` and `RefactorReview` take a test or
a function as the record of what the AST walk tells apart and follow the findings through merge, rank
and verdict. A source of `RefactorReview` has its lines of code with their numbers in the file, because
windows skip blank lines and comments and the claimed lines do not. In `EvalBaselines` a score is none,
some or all of a scenario's checks; a skill scenario run offline scores its contract alone; `recorded`,
`updated` and `had` are history: the last record of a scenario, the scenarios of the last update, and
the best a scenario was ever able to score. A write of the baseline that dies leaves a file that reads
as empty.

### TickBoard

A version of `board.json` is numbered by its place in the history, which stands for its sha; the id of
a tick is a number as in "T001", or 0 when it has none, after which the wizard proposes T002; a card
holds the number of the change that made its value. A request is two or three steps: sent, decided by
the server, and returned to the browser; it or its answer can be lost. `unsaved` and the fields
`what`, `part` and `value` of a request are history for the properties. A dialog is "stale" once the
board under it was replaced. Two constants name what the code needs and does not enforce. `Careful`
users let their request or reload end before the next change, reopen a dialog after a reload, leave the
wizard and its fields as they are until its request has ended, reload before they try again to complete
a tick, and give the next tick an id that their copy of the board does not have: the wizard proposes the
next number, but takes any text, an archived or the current id too (`app.js:526`), and the code then
completes one tick twice. With `PromptPolls` the answer to a poll is handled before the
next save or reload of the same browser returns: requests are answered well within the 30 s between
polls, but nothing in `startPolling` makes sure of it.

## 3. What is checked

| run | expects | shows |
|---|---|---|
| `TaskQueue_serial` (MCTaskQueue) | pass | with handlers shorter than 5 s: one agent at a time, and the queue implements `SerialExecutor`, over restarts |
| `TaskQueue_restart` (MCTaskQueue) | pass | with handlers of any length, even for ever: each task in one place, few answers after a stop, stop returns, tasks served if handlers end |
| `PipelineExecutor` (MCPipelineExecutor) | pass | stopping at a required step, review, wiki index, for all small pipelines and all answers; and for the seven real ones that P0 items are held, failed runs are quiet, the steps behind a classifier that listed nothing are skipped and no others |
| `AgentRuntime_own` (MCAgentRuntime) | pass | with objects executed by one thread each: a run's rows are its own and are missing only after metrics.db refused a write; and every execution ends |
| `AgentRuntime_shared` | violation of `RunsRecorded` | the application as it is: a run recorded under the other's id |
| `AgentRuntime_eager` | violation of `NoForeignFailure` | an agent with a database of its own fails on the worker |
| `Records` (MCRecords) | pass | the wiki's log names the values stored; a mark is kept if nobody else writes; the current version is that of the newest row; a registered prompt version is active only if a review approved it, and its file follows; a row that a review wrote shows the last review or one under way with it; a seeded graph is linked |
| `Records_scan` (MCRecords) | violation of `EditsAwaitReview` | opening the registry after an edit makes the edited text active beside the version in use |
| `Meetings` (MCMeetings) | pass | no transcript that the glob matches is archived without minutes; the report on main covers all of them unless a run was cut short of rebuilding it; turns are the recording; every raising of a concern is counted; nothing falls out between the queries of a briefing; "ready" rests on evidence; requirements keep number and text |
| `Work` (MCWork) | pass | an event's agents answer in route order; no plan on a guess; a tick is on the plan that was read; the model does not soften a test verdict and hides no finding; a loss behind the baseline is named unless the last update left its scenario out |
| `TickBoard_careful` (MCTickBoard) | pass | archived files exist, ticks completed once, no save takes back another's change, an accepted save holds its change, browsers converge |
| `TickBoard_edit` (MCTickBoard) | violation of `SavedChangeIsCommitted` | an editor left open over a reload saves a board without the edit |

### Bounds

* TaskQueue: three tasks and two or three workers. Two workers suffice for the overlap; three tasks
  let one wait, one be held and one be answered. Two agent names let ids differ by agent. Each start
  counts against `MaxStarts`, so a behaviour ends; deadlock is therefore not checked.
* AgentRuntime: two threads and objects, two runs of up to two model calls, three attempts each
  (`MAX_RETRIES`), two refused writes: runs after and during one another, a row that waits for a later
  commit, and an object that is locked out by it. Three runs of one call each, and the end of executions
  of shared objects, were checked besides. The proofs remove these bounds from the two invariants.
* PipelineExecutor: two runs of up to two steps, every combination of required, skip and output keys
  over the small sets in `MCPipelineExecutor`, two values of the wiki's clock: two runs in one second
  and in different ones. The proofs remove these bounds. Besides, one run of each of the seven
  pipelines, as the code defines it, without deposits: no step reads the wiki, and the properties of
  these runs are about other effects.
* Records: two writers, one document, two contents and up to four rows (a first version and a race for
  the second and third); two keys and values of the wiki; two events, three consumers; two users of the
  prompts and three texts, one edit of the file between scans; two reviewers and two reviews of risks;
  two seeders, at most two seedings. The seed script has eleven items, one or two of each kind, and
  `SeededAt = 7` stands for the twenty artifacts above which the store counts as seeded, so that a
  seeder can die, or another look, on either side of it. Users and texts are symmetric.
* Meetings: two runs of the inbox job and six uploads (two downloads of one recording, a second
  recording of the day, one of another day, a download of it under an unknown suffix, closed
  captions); two runs of the extraction over two
  meetings; two coach agents and two detectors, symmetric; recordings of up to three cues of two lines
  and two people, enough for a label to be missing, carried over and changed within a cue; amounts 0..2
  of evidence against a threshold of 2.
* Work: two runs of the plan generator and a reviewer over four versions of the repository
  (`MaxVersion`), at most one blocking question met; the planners are symmetric. Suites
  of up to three tests of every kind the heuristics tell apart, and three source files, among them one
  with blank lines between the lines of a copy, a long module and a class with many methods. Two
  suites of one scenario each, from any scores, with two changes: one to drop a baseline behind, and
  one to lose an ability.
* TickBoard: two browsers, one card, two changes; users type the id of the first tick or one without a
  number, or keep the one proposed, so that current, archived and new ids all occur; one PUT and one
  reload under way per browser, no poll answered during a reload, no dialog opened when no change is left. Two changes let each browser
  overtake the other, complete the same tick, or change a card and the tick; the violation run has a
  third. Larger instances were checked besides: one browser with five changes (all properties), two
  browsers with three changes (safety only), and `ArchivesExist` without either assumption on users
  and polls, which is also how it is proved.

All models stop when the bounded work is done, hence `CHECK_DEADLOCK FALSE`. Symmetry is used only in runs
without liveness properties.

### Fairness

* TaskQueue: weak fairness of the worker's own steps (`HangSpec`): the operating system schedules
  runnable threads, `get` has a timeout. The end of a handler is not in it; `ServedUnlessStopped`
  carries it as a premise (`HandlersEnd`), because the queue bounds no handler.
* AgentRuntime: weak fairness of the steps of `execute`. A model call ends because the clients time
  out and the attempts are counted.
* TickBoard: weak fairness of the end of a PUT, of polls (every 30 s, from `setTimeout`) and of an
  answered reload; strong fairness of the answer to a reload, which can fail but is asked again by the
  next poll. Nothing is assumed of users.

The stores, the meetings and the work around the agents have safety and action properties only: what
they do happens when somebody calls, and the code promises no progress.

### Disagreements found

Each violation run has the sentence of the repository that the code does not keep in `PROJECT.json`:

* "All agent execution is dispatched through the shared TaskQueue" (`main.py:10`): pipelines are not,
  and it costs run records (`AgentRuntime_shared`).
* The routing table maps triggers to agents "that should handle them" (`router.py:4`): agents with a
  database of their own cannot run on the queue's thread (`AgentRuntime_eager`).
* An edit of a prompt "doesn't take effect until it's reviewed and activated"
  (`docs/prompt_management.md:33`): it is active with the next opening of the registry, beside the
  version in use (`Records_scan`).
* "re-apply your change" (`tick-board/README.md:64`): in an editor that is still open it is re-applied
  to nothing (`TickBoard_edit`).

### Known deviations

Met while modelling; they are in the models as the code has them, and the properties are stated so
that they say what does hold. Where the repository says otherwise it is quoted.

* Queue: after a `stop` that timed out, `start` gives a second worker (`queue.py:79` against the header's
  "one at a time"); hence `SlowHandlers = FALSE` in the serial run.
* Runtime: "All calls are metered into the metrics DB" (`base.py:268`), except those whose row the
  database refuses: the error is swallowed and the write is not tried again (`base.py:343`, `416`, and
  `527` for the row of the run). A refused commit also leaves a transaction open, whose lock refuses
  the rows of other agents. `RunsRecorded` and `CallsMetered` say that rows are missing for no other
  reason.
* Pipelines: "if drift_detector found no drift, the adr_generator step is skipped entirely"
  (`docs/presentation_qa.md:297`); it is not, because the detector's answer is never empty
  (`drift_detector.py:96`, `pipelines.py:236`). A classifier whose model lists nothing succeeds, and
  the required extraction behind it is skipped in a successful run (`priority_classifier.py:137`,
  `pipelines.py:458`); the note "nothing to classify" is filed as a ticket (`pipelines.py:236`,
  `priority_classifier.py:55`); the decision logger reads keys that no step writes
  (`decision_logger.py:30`, `pipelines.py:481`).
* Transcripts: files are staged so that the "glob matches regardless of download suffixes"
  (`process_inbox.py:82`); it does not match `X.transcript(1).vtt`, which is staged, read by nobody and
  archived as processed, so `ReadHasMinutes` is about the other names. The analysis "across ALL
  meetings to date" (line 14) is not rebuilt when a run that died after its last move is repeated: it
  finds an empty inbox, the "safe no-op" of line 22, and the report of the last batch stays, which is
  the one exception of `ReportCoversUnlessCut`. Minutes are named by the meeting's date, so a second
  recording of a day replaces the first (`ingest.py:185`).
* Coach: a concern heard twice in one session is called recurring (`concern_tracker.py:66`).
* Plans: with `force_plan` the warning about unanswered questions is shown even if none blocks
  (`plan_generator.py:690`).
* Reviews: a file without tests is reviewed as MEANINGFUL (`test_review_agent.py:1022`); a coverage
  number up to 1 is read as a ratio (`test_review_agent.py:307`); two findings that agree in the first
  forty letters of their location are one (`refactor_agent.py:836`).
* Evaluations: `--update-baseline --suite X` writes a file with only that suite (`evals/runner.py:361`),
  and one with `--live` and no key drops all skills. The run after it still fails on a score that is
  not full, but "any scenario that previously passed and now fails is reported as a regression by name"
  (lines 14-16) is not so. Offline and live scores share a key (`evals/runner.py:391`): a skill passes
  offline on its contract alone, and the first live run can report among "lost capabilities" (line 440)
  one that no model ever had.
* Risks: "Human updates status because risk acceptance is a judgment call"
  (`docs/ses_assessment.md:166`); but every fetch of the risks and every seeding of the graph writes
  the seed data over it (`risk_register.py:104`), so `ReviewStands` is about rows that a review wrote
  last. Of two reviews under way at once the one dated first may be committed last; the row then shows
  its status and the history ends with the other (`risk_register.py:168`).
* Traceability: a coverage can exceed 100 % (`traceability.py:262`).
* Tick board: an archive file whose board save was refused makes `nextArchiveNumber` propose a name that
  is taken, so no tick can be completed until somebody removes the file (`app.js:553`); a wizard
  confirmed again after its answer was lost completes the tick it had just introduced (`app.js:535`); a
  poll answered after the browser's next save has returned reloads the older board over it
  (`app.js:975`); the next tick may be given the id of one that was completed (`app.js:526`). All but
  the first are what `Careful` and `PromptPolls` exclude.

## 4. What is proved

| module | theorem | assuming | argument |
|---|---|---|---|
| `TaskQueueProofs` | `TypeCorrect`, `EachTaskProcessedOnce` | | `TypeInv` adds that a worker holds a task exactly while it works; the inductive invariant adds that the queue is the tail of the submissions and that the taken tasks are those held or answered |
| | `StopIsObeyed` | | `StopInv(k)`: once the last thread there can be exists and the flag is clear, nothing sets it again, so the answers and the workers past the test of the flag are together at most k and one for each worker; a worker that answers leaves the second count for the first |
| | `RunsOneAtATime`, `AnswersFIFO` | `SlowHandlers = FALSE` | `SerialInv`: every thread but the last created has exited, and all have once a stop has returned, so one worker takes from the tail in order |
| | `QueueImplementsSerial` | same | `take` is begin, the write of the result is answer, everything else a stutter |
| | `OwnAnswer`, `FinalAnswer` | `MinClockStep = 1` | time stamps grow strictly, so ids are unique and each key of the results has one writer |
| `PipelineExecutorProofs` | `ExecutorTypes`, `ReportsAddUp`, `RequiredFailureStops`, `NoBundleForValue`, `ReviewNotForgotten`, `LatestRunsDeposited` | | the report is built from the results so far: the invariant relates the running flags to them at every step, for pipelines of any length |
| | `P0IsHeld`, `FailureIsQuiet`, `SkipsAreExplained` | `FlowInstance` | `FlowInv`: after a step that must fill a key, the key has contents or is the classifier's empty list, which no later step replaces; whoever puts "p0" under `classified_items` has asked for review; tickets come after the key they are filed from, which no later step writes; and outside of knowledge only agents that publish nothing (`Quiet`) run before a required step |
| `AgentRuntimeProofs` | `RuntimeTypes` | | |
| | `EveryRunRecorded`, `EveryCallMetered`; `NoRunFailsByThread` | objects used by one thread; and `EagerOnCreator` | executions of different threads use different objects, so the object's fields are those of the run; a connection's home is the one thread using it; and whatever becomes of a write, it adds its row to those attempted (`WriteAdds`), so that committed, held and lost rows together are what the runs have written |
| `RecordsProofs` | `WikiFollowsLog` | | value and log entry share a transaction; the old value a put logs may be stale, the new one is not |
| | `MarksAreKept` | | `MarkInv`: of two open marks of an event both are in `overlapped`, and an open mark outside of it has read every mark that returned outside of it, so its write keeps them |
| | `VersionTypes`, `CurrentFollowsHistory`, `HistoryComplete` | | a writer between its read and its write holds a number no smaller than any row's when nobody raced it; row and current version change in one commit |
| | `PromptTypes`, `RegisteredActiveIsApproved`, `SecondActiveIsScanned`, `PromptStaysActive`, `FileFollowsActivation` | | an activation deactivates all and activates one in a commit; it activates only what is approved unless it was active, and only a scan adds an active row besides; the file lags behind only while an activation is on its way or after one of the events in `untidy` |
| | `ReviewsStand` | | the review writes status and history in one commit, and no date is taken after it that is not later; so whatever is committed after the last of the history overlapped it (`RiskInv`); proved of the composition with the graph, whose seeders write the risks |
| | `SeedingLinks` | | `LinkedOrComing`: a link that a rule asks for is there, or some seeder has yet to come to it: it is still adding, or past the reading of the artifacts and has read both; so the last seeder to read leaves none out |
| `MeetingsProofs` | `NoneReadArchivedUnread`, `MainReportCovers` | | `InboxInv`: what is staged for the move and was read has minutes since the ingest, and days once processed stay so; runs have numbers, so two states of main with one report have one set of minutes; a tree with its base's report has its base's minutes, so a merge never joins a report to minutes it has not seen |
| | `TurnsFollowRecording` | | `VttInv`: the turns so far and the parts not yet flushed are the cues spoken up to the one to read, the speaker kept is the last one labelled, and the last turn has another speaker than the parts |
| | `RequirementsKeepNumbers` | | `ExtractInv`: a run knows the titles on disk, and every number from its `next` on is free; deletions only free more |
| | `BriefingIsWhole` | | `CoachInv`: no step makes a delivered commitment open again, so one that is in neither list was marked missed; sessions are stored before their commitments, so the join drops none |
| | `ConcernsAddUp` | | `CountInv`: a look-up made early still names a row of its theme, or none, because rows are only appended and never change their theme; raising a row adds one to the total of its theme and nothing to another's |
| | `ReadyWasReached` | | `MLInv`: what a detector found ready has reached its threshold, and evidence is never taken back, so it may write late |
| `WorkProofs` | `EventsKeepOrder` | | `WebInv`: the tasks of an event are adjacent, in route order, and the queue answers in order; that each route lists a store's writer before its readers is checked over the fixed table |
| | `PlansPassGate`, `TickStaysWithText` | | what passed the gate goes with the plan from step to step; a tick is put over the sha read, so the text under it is the text read |
| | `VerdictsStand` | | the first of each key among the static findings alone is the first among all, so it is kept with its severity; the rank of the worst of a larger set is no lower; and a finding exists for every test that MEANINGFUL denies |
| | `SmellsAreKept` | | of the findings of one place the first is kept; by induction along the windows, every window with a copy has one near a reported place in its file or is reported |
| | `RegressionsExplained` | | `EvalInv`: the baseline holds the last record of the scenarios of the last update and of no others, and a record of a run that tested its scenario is no better than the best the scenario ever had |
| `TickBoardProofs` | `BoardTypes`, `ListedIsArchived` | | `ArchiveInv`: every list of every copy names existing files, and a file created for a wizard is listed nowhere yet |
| | `SavedIsCommitted` | `Careful` | `ChangeInv`: a PUT under way carries in its board the change it was made for, because nobody has changed the copy, or saved from a stale dialog, since |
| | `NothingTakenBack`, `CompletedOnce` | `Careful`, `PromptPolls` | `SaveInv`: a copy under the current sha is the current board but for unsaved parts, and a late reload belongs to a browser whose PUT is refused; `TickInv`: what tells copies apart is their line, the current and the archived ticks; two lines with as many archived ticks are one, the repository's only grows, and whoever has created file n has the board with n - 1 archived ticks, so the id that was new to it is new to all |

The conditions in the third column are those the code does not establish by itself; the violation
runs and the known deviations show what happens without them. `FlowInstance` is not one of them: it
says that the executor's parameters are the keys, pipelines and answers of `PipelineFlows`, and leaves
the number of runs, the agents that are registered, those that may raise and the failures of the wiki
as they are. The constants have the assumptions named in the modules, which TLC evaluates on each run:
bounds are natural numbers, sets that stand for marks like `NoMinutes` or `Nobody` do not collide with
names, a recording's name tells its date (`NamesAssumption`), thresholds are positive
(`EvidenceAssumption`), the texts a session yields are sequences (`CoachAssumption`).

The invariants needed strengthening because the properties speak of finished work only: they say
nothing of a task on its way, of a counter not yet written, of a mark read and not yet written, or of
a copy not yet sent. Each strengthening is a named conjunct, and most of them say what a step under
way may still rely on of what it has read.

What a definition over sequences computes (the totals of concerns, the last label before a cue, the
findings of all files, the reported blocks) is a recursive function in the models, not a recursive
operator. The proofs first show that the function exists, by induction over the set of lengths for which it
does, and then use its equations; `Induction` has what they share.

Model-checked only: the four liveness properties (`ServedUnlessStopped`, `StopReturns`,
`ExecutionEnds`, `Converges`), for which the prover has no rule of fairness. The violation runs are
counterexamples.

## 5. Not modelled

* The wording of prompts, reports and minutes, and the matching of words in transcripts, source files
  and diffs: what a match decides is an input.
* Read-only queries, statistics, dashboards and exports; the sign-in panel, the archive viewer and the
  CSV export of the board.
* HTTP details beyond accepted, refused and lost.
* The registry's table of prompt conventions, and the agents' texts in the coding pipeline beyond the
  keys they read and write.
* Tools, reports, demonstrations and documents: they run once, read and render.

## 6. Plan

Done: the queue and the web application on it, the runtime, the executor and its pipelines, the
stores, the meetings, the plan generator and the reviewing agents, the evaluations, the board; proofs
of every invariant and action property of the passing runs. What could follow:

1. A composition of queue, webhook fan-out and pipeline runs on one event loop with the runtime's
   object fields, so that `AgentRuntime_shared` follows from the application instead of `Uses`.
2. `WebApp` over `TaskQueue` itself: today it rests on `SerialExecutor`, which `QueueImplementsSerial`
   shows the queue to implement.
3. Proofs of facts that only follow from the types today: that the executor's report agrees with the
   effects outside (`world`), and that the graph's links are between artifacts that exist.
