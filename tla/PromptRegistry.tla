--------------------------- MODULE PromptRegistry ---------------------------
(* pipeline/prompt_registry.py: the versions of one prompt, their review    *)
(* and activation, and the file of prompts/ that the agents load.  Opening  *)
(* the registry scans the directory; an activation commits the database     *)
(* first and writes the file after.  Several processes may do this, and any *)
(* of them may die between two steps.                                       *)
EXTENDS Naturals, FiniteSets

CONSTANTS
  Users,       \* processes with the registry open
  Texts,       \* contents of the prompt, which stand for their hashes
  MaxEdits     \* bound on the edits of the file

ASSUME PromptAssumption == MaxEdits \in Nat

VARIABLES
  row,         \* the row of each version, Absent when there is none
  file,        \* the content of prompts/<name>.txt
  doing,       \* what each user is in the middle of
  approved,    \* the versions some review approved
  edits,       \* how often the file was edited
  untidy       \* the file was edited, or an activation raced or died, since the
               \* last activation that ran alone

promptVars == <<row, file, doing, approved, edits, untidy>>

Absent == [status |-> "absent", active |-> FALSE, author |-> "none"]
Statuses == {"pending_review", "approved", "rejected", "changes_requested", "active"}
PromptRows == [status : Statuses, active : BOOLEAN, author : {"auto-scan", "human"}]
Idle == [at |-> "idle"]
Doing == [at : {"scan", "register", "activate", "write"}, text : Texts]

Known(t) == row[t] # Absent

\* The repository's prompts, before the registry is first opened.
PromptInit ==
  /\ row = [t \in Texts |-> Absent]
  /\ file \in Texts
  /\ doing = [u \in Users |-> Idle]
  /\ approved = {}
  /\ edits = 0
  /\ untidy = TRUE

Go(u, at, t) == doing' = [doing EXCEPT ![u] = [at |-> at, text |-> t]]
Done(u) == doing' = [doing EXCEPT ![u] = Idle]
At(u, at) == doing[u].at = at

\* A developer edits the file, as any file of the repository.
EditFile(t) ==
  /\ edits < MaxEdits
  /\ t # file
  /\ file' = t
  /\ edits' = edits + 1
  /\ untidy' = TRUE
  /\ UNCHANGED <<row, doing, approved>>

\* The registry is opened: the scan reads the file and looks its hash up.
ScanReads(u) ==
  /\ doing[u] = Idle
  /\ ~Known(file)
  /\ Go(u, "scan", file)
  /\ UNCHANGED <<row, file, approved, edits, untidy>>

\* The scan's INSERT, and its failure on UNIQUE(prompt_name, version_hash).
ScanInserts(u) ==
  /\ At(u, "scan")
  /\ row' = IF Known(doing[u].text) THEN row
            ELSE [row EXCEPT ![doing[u].text] =
                    [status |-> "active", active |-> TRUE, author |-> "auto-scan"]]
  /\ Done(u)
  /\ UNCHANGED <<file, approved, edits, untidy>>

\* register_version: already_exists, or a new version to be reviewed.
RegisterReads(u, t) ==
  /\ doing[u] = Idle
  /\ ~Known(t)
  /\ Go(u, "register", t)
  /\ UNCHANGED <<row, file, approved, edits, untidy>>

RegisterInserts(u) ==
  /\ At(u, "register")
  /\ row' = IF Known(doing[u].text) THEN row
            ELSE [row EXCEPT ![doing[u].text] =
                    [status |-> "pending_review", active |-> FALSE, author |-> "human"]]
  /\ Done(u)
  /\ UNCHANGED <<file, approved, edits, untidy>>

\* review_prompt: whatever the version's status, active or not.
Review(u, t, status) ==
  /\ doing[u] = Idle
  /\ Known(t)
  /\ row' = [row EXCEPT ![t].status = status]
  /\ approved' = IF status = "approved" THEN approved \union {t} ELSE approved
  /\ UNCHANGED <<file, doing, edits, untidy>>

\* A slip in the check of activate_version: anything not rejected will do.
MayActivateUnlessRejected(t) == Known(t) /\ row[t].status # "rejected"

MayActivate(t) == Known(t) /\ row[t].status \in {"approved", "active"}

ActivateReads(u, t) ==
  /\ doing[u] = Idle
  /\ MayActivate(t)
  /\ Go(u, "activate", t)
  /\ UNCHANGED <<row, file, approved, edits, untidy>>

Activating == {u \in Users : doing[u].at \in {"activate", "write"}}

\* The two UPDATEs of activate_version.
Activated(t) ==
  [s \in Texts |->
    IF ~Known(s) THEN row[s]
    ELSE IF s = t THEN [row[s] EXCEPT !.active = TRUE, !.status = "active"]
    ELSE [row[s] EXCEPT !.active = FALSE]]

ActivateCommits(u) ==
  /\ At(u, "activate")
  /\ row' = Activated(doing[u].text)
  /\ Go(u, "write", doing[u].text)
  /\ untidy' = (Activating # {u})
  /\ UNCHANGED <<file, approved, edits>>

\* A slip: the file is left alone if it holds a registered version already.
ActivateWritesOnce(u) ==
  /\ At(u, "write")
  /\ file' = IF Known(file) THEN file ELSE doing[u].text
  /\ Done(u)
  /\ UNCHANGED <<row, approved, edits, untidy>>

\* write_text, after the commit.
ActivateWrites(u) ==
  /\ At(u, "write")
  /\ file' = doing[u].text
  /\ Done(u)
  /\ UNCHANGED <<row, approved, edits, untidy>>

\* The user's process dies; what it committed stays.
Dies(u) ==
  /\ doing[u] # Idle
  /\ Done(u)
  /\ untidy' = (untidy \/ At(u, "write"))
  /\ UNCHANGED <<row, file, approved, edits>>

PromptNext ==
  \/ \E t \in Texts : EditFile(t)
  \/ \E u \in Users :
       \/ ScanReads(u) \/ ScanInserts(u)
       \/ \E t \in Texts : RegisterReads(u, t)
       \/ RegisterInserts(u)
       \/ \E t \in Texts, s \in Statuses \ {"pending_review", "active"} : Review(u, t, s)
       \/ \E t \in Texts : ActivateReads(u, t)
       \/ ActivateCommits(u) \/ ActivateWrites(u)
       \/ Dies(u)

PromptSpec == PromptInit /\ [][PromptNext]_promptVars

PromptTypeOK ==
  /\ row \in [Texts -> PromptRows \union {Absent}]
  /\ file \in Texts
  /\ doing \in [Users -> Doing \union {Idle}]
  /\ approved \subseteq Texts
  /\ edits \in 0..MaxEdits

\* A version that came in through register_version is active only if a review
\* approved it: no order of registering, reviewing and activating, in one process
\* or two, activates one that was only registered, rejected or sent back.
RegisteredIsApproved ==
  \A t \in Texts : row[t].active /\ row[t].author = "human" => t \in approved

\* docs/prompt_management.md: "if you edit transcript_parser.txt, your change
\* doesn't take effect until it's reviewed and activated".  So of the active
\* versions only the content that the registry found first can be one that no
\* review has approved; but every scan inserts what it finds as active.
EditsAwaitReview == Cardinality({t \in Texts : row[t].active /\ t \notin approved}) <= 1

\* Of several active versions all but one were scanned from an edited file:
\* activate_version never leaves a second one.
OnlyScansAddActive ==
  \A s, t \in Texts :
    row[s].active /\ row[t].active /\ s # t =>
      "auto-scan" \in {row[s].author, row[t].author}

\* A prompt that has an active version keeps one, through rejected reviews of
\* it, racing activations and crashes.
SomeVersionStaysActive ==
  [][(\E t \in Texts : row[t].active) => (\E t \in Texts : row'[t].active)]_promptVars

\* Once an activation that ran alone has finished, the agents load the version
\* the registry calls active, until the file is edited or another activation
\* races or dies.
FileMatchesActive ==
  ~untidy /\ Activating = {} => row[file].active
=============================================================================
