----------------------------- MODULE PipelineFlows -----------------------------
(***************************************************************************)
(* The seven pipelines of pipeline/pipelines.py and what their agents read *)
(* and answer: which keys of the context an agent looks at, which keys its *)
(* data and which outputs its result can carry, and what it may do outside *)
(* (a commit, a ticket, a page, a message).                                *)
(*                                                                         *)
(* Inside a pipeline the trigger's metadata is only pipeline_id,           *)
(* pipeline_step and pipeline_context, so an agent that reads another      *)
(* metadata field finds nothing.  Whatever an agent does, its model call   *)
(* or an outside call can fail before or after any of its effects.         *)
(*                                                                         *)
(* Contents: "items" and "decisions" are what the minutes hold, "p0" and   *)
(* "p1" classified items, "note" the one output of a step that did nothing.*)
(***************************************************************************)
EXTENDS PipelineExecutor

FlowKeys == {"parsed_minutes", "parsed_session", "transcript_cleaned",
  "classified_items", "requirements", "jira_tickets", "confluence_page",
  "decisions", "drift_report", "session_embedded", "extraction", "concerns",
  "ml_links", "adr_draft", "diagram_pr", "traceability", "coverage",
  "review_comments", "test_stubs", "doc_updates", "regression_results",
  "evidence", "readiness_alerts", "coach_links", "wbs_state", "digest",
  "alerts", "context_package", "briefing"}

\* What an agent can do outside the process, and can be seen by others.
Published == {"item_ticket", "note_ticket", "page", "message"}
Recorded  == {"commit", "decision_log", "session", "evidence_row", "status"}
Contents  == {"minutes", "text", "items", "decisions", "p0", "p1", "req",
              "drifts", "report", "rows", "note", "output"}
FlowAtoms == FlowKeys \cup Published \cup Recorded \cup Contents

-----------------------------------------------------------------------------
(* The definitions.                                                        *)

Required(a, out, skip) == [agent |-> a, output |-> out, required |-> TRUE, skip |-> skip]
Optional(a, out, skip) == [agent |-> a, output |-> out, required |-> FALSE, skip |-> skip]

\* Variant (not the code): tickets are created before the requirements.
REQUIREMENTS_TicketsFirst == [name |-> "requirements", steps |-> <<
  Required("transcript_parser",   "parsed_minutes",   NoKey),
  Required("priority_classifier", "classified_items", "parsed_minutes"),
  Optional("ticket_creator",      "jira_tickets",     "classified_items"),
  Required("req_extractor",       "requirements",     "classified_items")>>]

REQUIREMENTS == [name |-> "requirements", steps |-> <<
  Required("transcript_parser",   "parsed_minutes",   NoKey),
  Required("priority_classifier", "classified_items", "parsed_minutes"),
  Required("req_extractor",       "requirements",     "classified_items"),
  Optional("ticket_creator",      "jira_tickets",     "classified_items"),
  Optional("minutes_publisher",   "confluence_page",  "parsed_minutes"),
  Optional("decision_logger",     "decisions",        "parsed_minutes"),
  Optional("drift_detector",      "drift_report",     "parsed_minutes")>>]

COACH_SESSION == [name |-> "coach_session", steps |-> <<
  Required("transcript_parser", "parsed_session",   NoKey),
  Required("session_memory",    "session_embedded", NoKey),
  Required("concern_tracker",   "concerns",         NoKey),
  Optional("coach_linker",      "ml_links",         NoKey),
  Optional("decision_logger",   "decisions",        "parsed_session")>>]

ARCHITECTURE == [name |-> "architecture", steps |-> <<
  Required("drift_detector",       "drift_report", NoKey),
  Optional("adr_generator",        "adr_draft",    "drift_report"),
  Optional("diagram_updater",      "diagram_pr",   "drift_report"),
  Optional("traceability_builder", "traceability", NoKey)>>]

CODING == [name |-> "coding", steps |-> <<
  Required("pr_reviewer",       "review_comments",    NoKey),
  Optional("test_generator",    "test_stubs",         NoKey),
  Optional("doc_generator",     "doc_updates",        NoKey),
  Optional("prompt_regression", "regression_results", NoKey)>>]

ML_DECISION == [name |-> "ml_decision", steps |-> <<
  Required("evidence_accumulator", "evidence",         NoKey),
  Required("readiness_detector",   "readiness_alerts", NoKey),
  Optional("coach_linker",         "coach_links",      NoKey)>>]

PROJECT_MGMT == [name |-> "project_mgmt", steps |-> <<
  Optional("wbs_updater",   "wbs_state", NoKey),
  Required("weekly_digest", "digest",    NoKey),
  Optional("alert_agent",   "alerts",    NoKey)>>]

KNOWLEDGE == [name |-> "knowledge", steps |-> <<
  Required("context_packager",   "context_package", NoKey),
  Required("briefing_generator", "briefing",        NoKey)>>]

ALL_PIPELINES == {REQUIREMENTS, COACH_SESSION, ARCHITECTURE, CODING, ML_DECISION,
                  PROJECT_MGMT, KNOWLEDGE}

FlowAgents == UNION {{p.steps[i].agent : i \in 1 .. Len(p.steps)} : p \in ALL_PIPELINES}

-----------------------------------------------------------------------------
(* The agents.  Each operator is the set of results for one context c.     *)

NoData == [k \in FlowKeys |-> Absent]
DataOf(k, contents) == [NoData EXCEPT ![k] = <<"data", contents>>]

\* Results that carry this data and outputs, after any part of the effects:
\* a client's failure is a dict the agents drop, not an exception.
Answers(data, outs, effects) ==
  {[success |-> TRUE, data |-> data, outputs |-> outs, review |-> FALSE,
    effects |-> e] : e \in SUBSET effects}

Noted == Answers(NoData, {"note"}, {})

Asking(replies) == {[r EXCEPT !.review = TRUE] : r \in replies}

\* run raised after some of the effects: execute answers without data.
Failures(effects) ==
  {[success |-> FALSE, data |-> NoData, outputs |-> {}, review |-> FALSE,
    effects |-> e] : e \in SUBSET effects}

\* Minutes with any contents; the cleaned transcript may be empty.
ParsedData(m, t) == [NoData EXCEPT !["parsed_minutes"] = <<"data", {"minutes"} \cup m>>,
                                   !["transcript_cleaned"] = <<"data", t>>]

TranscriptParser ==
  (UNION {Answers(ParsedData(m, t), {"output"}, {"commit"}) :
            m \in SUBSET {"items", "decisions"}, t \in {{}, {"text"}}})
  \cup Failures({"commit"})

\* Items come from parsed_minutes; without any, an output but no data.  The
\* model's list is taken as it is, an empty one too.  A p0 item asks for review.
\* Variant (not the code): the classifier leaves the review to ticket_creator.
PriorityClassifierSilent(c) ==
  IF "items" \in c["parsed_minutes"][2]
    THEN (UNION {Answers(DataOf("classified_items", cl), {"output"}, {}) :
                   cl \in SUBSET {"p0", "p1"}}) \cup Failures({})
    ELSE Noted \cup Failures({})

PriorityClassifier(c) ==
  IF "items" \in c["parsed_minutes"][2]
    THEN (UNION {IF "p0" \in cl
                   THEN Asking(Answers(DataOf("classified_items", cl), {"output"}, {}))
                   ELSE Answers(DataOf("classified_items", cl), {"output"}, {}) :
                   cl \in SUBSET {"p0", "p1"}})
         \cup Failures({})
    ELSE Noted \cup Failures({})

ReqExtractor(c) ==
  Noted \cup Answers(DataOf("requirements", {"req"}), {"output"}, {"commit"})
        \cup Failures({"commit"})

\* Whatever is listed under classified_items is taken for items: a p0 item is
\* held for review, any other gets a ticket, so does the note of a classifier
\* that had nothing to classify (it has no priority: P2).
TicketsFor(items) == (IF "p1" \in items THEN {"item_ticket"} ELSE {})
                     \cup (IF "note" \in items THEN {"note_ticket"} ELSE {})

TicketCreator(c) ==
  LET items == c["classified_items"][2]
      done(t) == Answers(NoData, IF t = {} THEN {} ELSE {"output"}, {})
      with(t) == {[r EXCEPT !.effects = t] : r \in done(t)}
      all == UNION {with(t) : t \in SUBSET TicketsFor(items)}
  IN (IF "p0" \in items THEN Asking(all) ELSE all) \cup Failures(TicketsFor(items))

\* content and date come from the metadata: the page is empty.
MinutesPublisher == Answers(NoData, {"output"}, {"page"}) \cup Answers(NoData, {}, {})
                    \cup Failures({"page"})

\* Reads the keys decisions and potential_decisions, not the parsed minutes.
DecisionLogger(c) ==
  IF Truthy(c["decisions"])
    THEN Answers(NoData, {"output"}, {"decision_log"}) \cup Failures({"decision_log"})
    ELSE Noted

DriftDetector(c) ==
  IF Truthy(c["transcript_cleaned"])
    THEN Answers(DataOf("drift_report", {"report"}), {"output"}, {})
         \cup Answers(DataOf("drift_report", {"report", "drifts"}), {"output"}, {"commit"})
         \cup Failures({"commit"})
    ELSE Noted

SessionMemory == Answers(DataOf("extraction", {"output"}), {"output"}, {"session"})
                 \cup Failures({"session"})

ConcernTracker == Answers(NoData, {"output"}, {"message"}) \cup Failures({"message"})

CoachLinker == Answers(NoData, {"output"}, {}) \cup Answers(NoData, {}, {}) \cup Failures({})

\* The decisions and the drifts come from the metadata: there are none.
ADRGenerator == Noted
DiagramUpdater == Noted

TraceabilityBuilder == Answers(DataOf("coverage", {"rows"}), {"output"}, {"commit"})
                       \cup Failures({"commit"})

\* The PR, the source code, the diff and the changed prompts come from the
\* metadata: there are none.
PRReviewer == Noted
TestGenerator == Noted
DocGenerator == Noted
PromptRegression == Noted

\* Evidence is read for two trigger types; for any other there is no output.
EvidenceAccumulator == Answers(NoData, {"output"}, {"evidence_row"})
                       \cup Answers(NoData, {}, {}) \cup Failures({"evidence_row"})

ReadinessDetector == Answers(NoData, {"output"}, {"message", "status"})
                     \cup Failures({"message", "status"})

WBSUpdater == Answers(NoData, {"output"}, {"commit"}) \cup Failures({"commit"})

WeeklyDigest == Answers(NoData, {"output"}, {"message", "page"})
                \cup Failures({"message", "page"})

\* The list of alerts may be empty.
AlertAgent == Answers(DataOf("alerts", {}), {"output"}, {})
              \cup Answers(DataOf("alerts", {"rows"}), {"output"}, {"message"})
              \cup Failures({"message"})

ContextPackager == Answers(NoData, {"output"}, {"message"}) \cup Answers(NoData, {}, {})
                   \cup Failures({"message"})

BriefingGenerator == Answers(DataOf("briefing", {"text"}), {"output"}, {"message"})
                     \cup Failures({"message"})

FlowReplies(agent, c) ==
  CASE agent = "transcript_parser"    -> TranscriptParser
    [] agent = "priority_classifier"  -> PriorityClassifier(c)
    [] agent = "req_extractor"        -> ReqExtractor(c)
    [] agent = "ticket_creator"       -> TicketCreator(c)
    [] agent = "minutes_publisher"    -> MinutesPublisher
    [] agent = "decision_logger"      -> DecisionLogger(c)
    [] agent = "drift_detector"       -> DriftDetector(c)
    [] agent = "session_memory"       -> SessionMemory
    [] agent = "concern_tracker"      -> ConcernTracker
    [] agent = "coach_linker"         -> CoachLinker
    [] agent = "adr_generator"        -> ADRGenerator
    [] agent = "diagram_updater"      -> DiagramUpdater
    [] agent = "traceability_builder" -> TraceabilityBuilder
    [] agent = "pr_reviewer"          -> PRReviewer
    [] agent = "test_generator"       -> TestGenerator
    [] agent = "doc_generator"        -> DocGenerator
    [] agent = "prompt_regression"    -> PromptRegression
    [] agent = "evidence_accumulator" -> EvidenceAccumulator
    [] agent = "readiness_detector"   -> ReadinessDetector
    [] agent = "wbs_updater"          -> WBSUpdater
    [] agent = "weekly_digest"        -> WeeklyDigest
    [] agent = "alert_agent"          -> AlertAgent
    [] agent = "context_packager"     -> ContextPackager
    [] agent = "briefing_generator"   -> BriefingGenerator

-----------------------------------------------------------------------------
(* Properties.  The context and the history of a run are kept until the next *)
(* run begins, so they can be compared with its report.                      *)

Did(e) == \E i \in 1 .. Len(results) : <<i, e>> \in world
FlowReturned == /\ Returned /\ phase = "idle"
                /\ report.name \in {p.name : p \in ALL_PIPELINES}

\* priority_classifier.py: "P0 items are held for human approval before Jira
\* ticket creation".  Whatever fails in between, a run that classified a p0
\* item ends by asking for a human, and only other items have got a ticket.
P0Held ==
  /\ FlowReturned /\ report.name = "requirements" /\ "p0" \in ctx["classified_items"][2]
       => report.review
  /\ Did("item_ticket") => "p1" \in ctx["classified_items"][2]

\* A failed run has published nothing (ticket, page, message) except perhaps
\* by the step that failed, so running the pipeline again does not repeat the
\* work of the steps before.  The knowledge pipeline is the exception: its
\* first step posts a message and its second can fail.
FailedRunQuiet ==
  FlowReturned /\ ~report.success /\ report.name # "knowledge"
    => \A i \in 1 .. Len(report.results) - 1, e \in Published : <<i, e>> \notin world

\* The classifier's data with an empty list of items.
Unclassified == <<"data", {}>>

\* The only thing that makes a condition of the seven pipelines skip a step is a
\* classifier that was given items and listed none, and it skips both steps
\* that need them: no ticket, no requirement.  A step before it that had
\* nothing to do left a note under its key, which is not empty.
SkippedWhenUnclassified ==
  FlowReturned =>
    \A i \in 1 .. Len(report.results) :
      report.results[i].skipped
        <=> report.steps[i].skip = "classified_items"
            /\ ctx["classified_items"] = Unclassified
=============================================================================
