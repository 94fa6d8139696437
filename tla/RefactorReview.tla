---------------------------- MODULE RefactorReview ----------------------------
(* agents/coding/refactor_agent.py: heuristics over the files that a build   *)
(* agent made work, the model's findings after them, and one proposal for a  *)
(* person to apply.  A finding is told from another by its category, file    *)
(* and the letters of its location, so two smells of one place are one.      *)
EXTENDS Naturals, Sequences, FiniteSets, SequencesExt

CONSTANTS
  Files,        \* the files of a submission, in the order of the dict
  IsTest(_),    \* whether a path is a test file
  Sources,      \* what a file may be: records of Source
  Window,       \* MIN_DUPLICATE_BLOCK_LINES
  PlaceText(_), \* the part of a location that tells findings apart
  RefModelSays  \* the findings a model may return: a set of sequences

VARIABLES
  step,         \* what the review is at
  files,        \* _collect_files: the files reviewed and what they are
  found,        \* the static findings
  proposal,     \* the findings proposed
  refused       \* whether the code was said not to work

refVars == <<step, files, found, proposal, refused>>

\* A source: whether it parses, whether it has more than MAX_MODULE_LINES lines, its
\* functions and classes by the smells they have (a class before its methods), the
\* names imported by one statement that nothing uses, and its lines of code with
\* their numbers in the file: blank lines and comments are left out, but they count.
Source ==
  [parses : BOOLEAN, long : BOOLEAN, nodes : Seq(SUBSET STRING), unused : Nat,
   code : Seq([at : Nat, text : STRING])]

ASSUME RefAssumption ==
  /\ Files \in Seq(STRING)
  /\ Window \in Nat \ {0}
  /\ Sources \subseteq Source
  /\ \A model \in RefModelSays : model \in Seq(ToSet(model))

Find(category, file, place, severity, by) ==
  [category |-> category, file |-> file, place |-> place, severity |-> severity, by |-> by]
If(condition, finding) == IF condition THEN <<finding>> ELSE <<>>

\* _find_long_and_overloaded: the length has lines of its own for a location, the
\* parameters and the nesting have the line of the def.
LongAndOverloaded(file, n, smells) ==
  If("very long" \in smells,
     Find("LONG_FUNCTION", file, <<"lines", n>>, "high", "static"))
  \o If("long" \in smells, Find("LONG_FUNCTION", file, <<"lines", n>>, "medium", "static"))
  \o If("many parameters" \in smells,
        Find("LONG_FUNCTION", file, <<"line", n>>, "medium", "static"))
  \o If("deep" \in smells, Find("LONG_FUNCTION", file, <<"line", n>>, "medium", "static"))

\* _find_dead_code: private functions and classes nobody names, and every unused name of an
\* import under the line of the import.
DeadCode(file, source) ==
  FlattenSeq([n \in DOMAIN source.nodes |->
    If("unused" \in source.nodes[n],
       Find("DEAD_CODE", file, <<"line", n>>, "medium", "static"))])
  \o [i \in 1..source.unused |-> Find("DEAD_CODE", file, <<"import", 1>>, "low", "static")]

\* _find_unclear_names.
UnclearNames(file, n, smells) ==
  If("vague name" \in smells, Find("NAMING", file, <<"name", n>>, "medium", "static"))
  \o If("vague parameters" \in smells, Find("NAMING", file, <<"line", n>>, "low", "static"))

\* _find_cohesion_problems: a module that is too long, a class with too many
\* methods, and methods that never touch self.
Misplaced(file, n, smells) ==
  If("many methods" \in smells, Find("COHESION", file, <<"class", n>>, "medium", "static"))
  \o If("no self" \in smells,
        Find("MISPLACED_RESPONSIBILITY", file, <<"line", n>>, "low", "static"))

CohesionProblems(file, source) ==
  If(source.long, Find("STRUCTURE", file, <<"file">>, "medium", "static"))
  \o FlattenSeq([n \in DOMAIN source.nodes |-> Misplaced(file, n, source.nodes[n])])

FileFindings(file, source) ==
  LET nodes == source.nodes IN
  FlattenSeq([n \in DOMAIN nodes |-> LongAndOverloaded(file, n, nodes[n])])
  \o DeadCode(file, source)
  \o FlattenSeq([n \in DOMAIN nodes |-> UnclearNames(file, n, nodes[n])])
  \o CohesionProblems(file, source)

\* The windows of _find_duplicate_blocks, in the order of the dict: Window lines of
\* code whatever blanks are between them, at the number of the first in the file.
WindowsOf(file, code) ==
  [k \in 1..(IF Len(code) >= Window THEN Len(code) - Window + 1 ELSE 0) |->
    [file |-> file, line |-> code[k].at, text |-> [m \in 1..Window |-> code[k + m - 1].text]]]

Starts(given) ==
  FlattenSeq([i \in DOMAIN Files |->
    IF Files[i] \in DOMAIN given THEN WindowsOf(Files[i], given[Files[i]].code) ELSE <<>>])

\* The places, by their position, of the window that begins at the i-th.
Copies(starts, i) == {j \in DOMAIN starts : starts[j].text = starts[i].text}

\* A slip: the claimed lines are kept for all files together.
NearInAnyFile(place, reported) ==
  \E r \in reported : place.line \in r.line..(r.line + 2 * Window - 1)

\* claimed: the first line of a place is one of the 2 * Window lines of the file from
\* a place reported on, blank lines among them.
Near(place, reported) ==
  \E r \in reported :
    r.file = place.file /\ place.line \in r.line..(r.line + 2 * Window - 1)

\* What the blocks found so far claim.
Reported(blocks) == UNION {blocks[i].at : i \in DOMAIN blocks}

\* One turn of the loop of _find_duplicate_blocks: a window comes up where it first
\* occurs, and is reported with all its places if there are several and none of
\* them is near a place already reported.
AfterWindow(starts, i, blocks) ==
  LET at == {starts[j] : j \in Copies(starts, i)} IN
  IF \/ \E j \in Copies(starts, i) : j < i
     \/ Copies(starts, i) = {i}
     \/ \E place \in at : Near(place, Reported(blocks))
  THEN blocks
  ELSE Append(blocks, [at |-> at, file |-> starts[i].file,
                       many |-> \/ Cardinality(Copies(starts, i)) > 2
                                \/ Cardinality({place.file : place \in at}) > 1])

Duplicates(given) ==
  LET starts == Starts(given)
      upto[n \in 0..Len(starts)] ==
        IF n = 0 THEN <<>> ELSE AfterWindow(starts, n, upto[n - 1])
  IN upto[Len(starts)]

DuplicateFindings(given) ==
  LET blocks == Duplicates(given) IN
  [i \in DOMAIN blocks |->
    Find("DUPLICATION", blocks[i].file, <<"copies", blocks[i].at>>,
         IF blocks[i].many THEN "high" ELSE "medium", "static")]

\* _analyze_static: a file that does not parse is one finding of its own.
StaticOf(given) ==
  FlattenSeq([i \in DOMAIN Files |->
    If(Files[i] \in DOMAIN given /\ ~given[Files[i]].parses,
       Find("STRUCTURE", Files[i], <<"error">>, "high", "static"))])
  \o FlattenSeq([i \in DOMAIN Files |->
       IF Files[i] \in DOMAIN given /\ given[Files[i]].parses
       THEN FileFindings(Files[i], given[Files[i]]) ELSE <<>>])
  \o DuplicateFindings(given)

PlaceKey(f) == <<f.category, f.file, PlaceText(f.place)>>

FirstOfPlaces(all) ==
  {all[i] : i \in {j \in DOMAIN all : \A k \in 1..(j - 1) : PlaceKey(all[k]) # PlaceKey(all[j])}}

\* _merge_findings: the first finding of each category, file and location.
Proposed(static, model) == FirstOfPlaces(static \o model)

RefInit ==
  /\ step = "idle"
  /\ files = [f \in {} |-> 0]
  /\ found = <<>> /\ proposal = {}
  /\ refused = FALSE

\* _collect_files leaves tests out; _code_already_works is asked after that.
SubmitCode(given, works) ==
  /\ step = "idle"
  /\ files' = [f \in {x \in DOMAIN given : ~IsTest(x)} |-> given[f]]
  /\ refused' = (DOMAIN files' # {} /\ ~works)
  /\ step' = IF DOMAIN files' = {} \/ ~works THEN "done" ELSE "static"
  /\ UNCHANGED <<found, proposal>>

AnalyzeStatic ==
  /\ step = "static"
  /\ found' = StaticOf(files)
  /\ step' = "model"
  /\ UNCHANGED <<files, proposal, refused>>

\* _analyze_with_llm; no provider and no usable answer leave the static findings.
\* The proposal is published and recorded, and nothing is applied.
Propose(model) ==
  /\ step = "model"
  /\ proposal' = Proposed(found, model)
  /\ step' = "done"
  /\ UNCHANGED <<files, found, refused>>

Submitted == UNION {[fs -> Sources] : fs \in SUBSET {Files[i] : i \in DOMAIN Files}}

RefNext ==
  \/ \E given \in Submitted, works \in BOOLEAN : SubmitCode(given, works)
  \/ AnalyzeStatic
  \/ \E model \in RefModelSays : Propose(model)

RefSpec == RefInit /\ [][RefNext]_refVars

\* What the heuristics found is proposed as they found it, by itself or by the
\* first smell of its place: the model adds findings and neither removes one nor
\* tones it down.
SmellsAreProposed ==
  step = "done" =>
    \A i \in DOMAIN found :
      \E j \in 1..i : found[j] \in proposal /\ PlaceKey(found[j]) = PlaceKey(found[i])

\* Of every block of lines that occurs twice some copy is within two windows, by the
\* numbers of the lines in the file, of a copy reported in the same file: claiming
\* lines hides neighbours, not copies elsewhere.
CopiesAreNoticed ==
  step = "model" =>
    LET starts == Starts(files) IN
    \A i \in DOMAIN starts :
      Copies(starts, i) # {i} =>
        \E j \in Copies(starts, i), r \in Reported(Duplicates(files)) :
          r.file = starts[j].file /\ starts[j].line - r.line \in 0..(2 * Window - 1)

\* Nothing the heuristics can see goes unproposed.
FindingsStand == SmellsAreProposed /\ CopiesAreNoticed
===============================================================================
