-------------------------- MODULE MeetingExtraction --------------------------
(* pipeline/extract_from_meetings.py: requirements and ADR drafts for the   *)
(* meetings since a date.  What the model returns is an input; the program  *)
(* numbers the requirements, drops those already on disk and caps the ADRs. *)
(* A run that raises leaves the files it has written, and people delete     *)
(* drafts they reject.                                                      *)
EXTENDS Naturals, FiniteSets, Sequences, FiniteSetsExt, SequencesExt

CONSTANTS
  Meetings,    \* transcripts in the order of their names
  Titles,      \* normalized titles of requirements
  Texts,       \* normalized texts of decisions
  Slug(_),     \* the first 40 characters of a text, of which the file is named
  MaxAdrs,     \* --max-adrs
  MaxId,       \* bound on the numbers of requirements
  MaxRuns      \* bound on the runs

VARIABLES
  reqs,        \* REQ files: number -> title, for the numbers that have a file
  adrs,        \* ADR files: date and slug
  run,         \* the run under way
  runs         \* runs started

extractVars == <<reqs, adrs, run, runs>>

NoRun == [at |-> "none"]
NoFiles == [n \in {} |-> "none"]

ExtractInit ==
  /\ reqs = NoFiles
  /\ adrs = {}
  /\ run = NoRun
  /\ runs = 0

TitlesOnDisk == {reqs[n] : n \in DOMAIN reqs}

\* A slip in NextNumber: the files are counted.
NextNumberByCount == Cardinality(DOMAIN reqs) + 1

\* load_existing_requirements: the number after the greatest on disk.
NextNumber == IF DOMAIN reqs = {} THEN 1 ELSE Max(DOMAIN reqs) + 1

Starts ==
  /\ run = NoRun /\ runs < MaxRuns
  /\ run' = [at |-> "requirements", left |-> Meetings, titles |-> TitlesOnDisk,
             next |-> NextNumber, decisions |-> <<>>]
  /\ runs' = runs + 1
  /\ UNCHANGED <<reqs, adrs>>

\* The places of a list whose key no earlier place has.
FirstOf(key) == {i \in DOMAIN key : \A j \in 1..(i - 1) : key[j] # key[i]}

Rank(S, i) == Cardinality({j \in S : j <= i})

\* What a list has at some of its places, in order.
InOrder(list, S) ==
  [k \in {Rank(S, i) : i \in S} |-> list[CHOOSE i \in S : Rank(S, i) = k]]

\* One meeting: its decisions are collected and its requirements written,
\* except for titles on disk or seen earlier in the run.
ReadMeeting(titles, texts) ==
  /\ run.at = "requirements" /\ run.left # <<>>
  /\ LET fresh == {i \in FirstOf(titles) : titles[i] \notin run.titles}
         new == InOrder(titles, fresh)
         files == [n \in {run.next + k - 1 : k \in DOMAIN new} |-> new[n - run.next + 1]]
     IN  /\ run.next + Cardinality(fresh) - 1 <= MaxId
         /\ reqs' = [n \in DOMAIN files \union DOMAIN reqs |->
                   IF n \in DOMAIN files THEN files[n] ELSE reqs[n]]
         /\ run' = [run EXCEPT
              !.left = Tail(@),
              !.titles = @ \union ToSet(titles),
              !.next = @ + Cardinality(fresh),
              !.decisions = @ \o [i \in DOMAIN texts |-> [date |-> Head(run.left), text |-> texts[i]]]]
  /\ UNCHANGED <<adrs, runs>>

\* All meetings are read: drafts are made of each text once, in order.
MeetingsRead ==
  /\ run.at = "requirements" /\ run.left = <<>>
  /\ run' = [at |-> "adrs", made |-> 0, decisions |->
       InOrder(run.decisions, FirstOf([i \in DOMAIN run.decisions |-> run.decisions[i].text]))]
  /\ UNCHANGED <<reqs, adrs, runs>>

File(d) == [date |-> d.date, slug |-> Slug(d.text)]

\* One decision: skipped when its file exists, else drafted, up to the cap.
DraftAdr ==
  /\ run.at = "adrs" /\ run.decisions # <<>> /\ run.made < MaxAdrs
  /\ LET f == File(Head(run.decisions)) IN
       /\ adrs' = adrs \union {f}
       /\ run' = [run EXCEPT !.decisions = Tail(@), !.made = IF f \in adrs THEN @ ELSE @ + 1]
  /\ UNCHANGED <<reqs, runs>>

RunEnds ==
  /\ run.at = "adrs"
  /\ run.decisions = <<>> \/ run.made = MaxAdrs
  /\ run' = NoRun
  /\ UNCHANGED <<reqs, adrs, runs>>

\* A call of the model raises.
RunDies ==
  /\ run # NoRun
  /\ run' = NoRun
  /\ UNCHANGED <<reqs, adrs, runs>>

\* A reviewer rejects a draft.
DeleteRequirement(n) ==
  /\ run = NoRun /\ n \in DOMAIN reqs
  /\ reqs' = [m \in DOMAIN reqs \ {n} |-> reqs[m]]
  /\ UNCHANGED <<adrs, run, runs>>

Lists(S) == {<<>>} \union {<<x>> : x \in S} \union {<<x, y>> : x, y \in S}

ExtractNext ==
  \/ Starts
  \/ \E titles \in Lists(Titles), texts \in Lists(Texts) : ReadMeeting(titles, texts)
  \/ MeetingsRead \/ DraftAdr \/ RunEnds \/ RunDies
  \/ \E n \in DOMAIN reqs : DeleteRequirement(n)

ExtractSpec == ExtractInit /\ [][ExtractNext]_extractVars

\* A run never writes over a requirement that is on disk, and never gives a
\* second number to a title that has one: over runs that died half way, runs
\* repeated over the same meetings, and numbers freed by deleted drafts.
RequirementsStand ==
  [][/\ \A n \in DOMAIN reqs \intersect DOMAIN reqs' : reqs'[n] = reqs[n]
     /\ \A m, n \in DOMAIN reqs' : reqs'[m] = reqs'[n] => m = n]_extractVars
=============================================================================
