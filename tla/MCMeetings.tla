----------------------------- MODULE MCMeetings ------------------------------
(* TLC instance of what is made of the meetings: the minutes (inbox), the   *)
(* turns of a recording (vtt), the requirements and ADR drafts              *)
(* (extraction), the coach memory (coach) and the evidence for the ML       *)
(* decisions (evidence).  They have no state in common but files that are   *)
(* inputs here, so each behaviour exercises one of them ("focus"), and the  *)
(* run checks the sum of their state spaces.                                *)
EXTENDS TranscriptInbox, VttParser, MeetingExtraction, CoachMemory, MLDecisions, TLC

CONSTANT Focuses   \* the parts of this instance that act

VARIABLE focus

\* Two downloads of one recording, a second recording of the day, one of
\* another day, and the closed captions that Zoom puts beside the first.  The
\* second download of Thursday's has the suffix without the blank.
UploadName(u) == IF u = "wed (1)" THEN "wed" ELSE u
UploadDate(u) == IF u \in {"thu", "thu(1)"} THEN "Thursday" ELSE "Wednesday"
UploadIsTranscript(u) == u # "wed.cc"
UploadReadable(u) == u \notin {"wed.cc", "thu(1)"}

MCUploads == {"wed", "wed (1)", "wed2", "thu", "thu(1)", "wed.cc"}
FewUploads == {"wed", "thu", "thu(1)"}

MCMeetingsSince == <<"July", "August">>
SlugOf(x) == IF x = "use it too" THEN "use it" ELSE x

ThemesOf(t) == IF t = "scope only" THEN <<"scope">> ELSE <<"scope", "data">>
PromisesOf(t) == IF t = "scope only" THEN <<>> ELSE <<"deliver">>

MCFields == <<"labeled_count", "alpha_sweep", "correction_pairs", "threshold_used">>
MCDecisionOf ==
  "labeled_count" :> "threshold" @@ "alpha_sweep" :> "alpha" @@ "correction_pairs" :> "alpha"
MCReadyField == "threshold" :> "labeled_count" @@ "alpha" :> "correction_pairs"
MCThreshold == "threshold" :> 2 @@ "alpha" :> 2
MCAmounts == 0..2

allVars == <<focus, inboxVars, vttVars, extractVars, coachVars, mlVars>>

MCInit ==
  /\ focus \in Focuses
  /\ InboxInit /\ ExtractInit /\ CoachInit /\ MLInit
  /\ IF focus = "vtt" THEN VttInit
     ELSE cues = <<>> /\ next = 1 /\ speaker = "nobody" /\ parts = <<>> /\ turns = <<>>

MCNext ==
  \/ focus = "inbox" /\ InboxNext
     /\ UNCHANGED <<focus, vttVars, extractVars, coachVars, mlVars>>
  \/ focus = "vtt" /\ VttNext
     /\ UNCHANGED <<focus, inboxVars, extractVars, coachVars, mlVars>>
  \/ focus = "extraction" /\ ExtractNext
     /\ UNCHANGED <<focus, inboxVars, vttVars, coachVars, mlVars>>
  \/ focus = "coach" /\ CoachNext
     /\ UNCHANGED <<focus, inboxVars, vttVars, extractVars, mlVars>>
  \/ focus = "evidence" /\ MLNext
     /\ UNCHANGED <<focus, inboxVars, vttVars, extractVars, coachVars>>

MCSpec == MCInit /\ [][MCNext]_allVars

\* The coach agents are alike, and so are the detectors.
Alike == Permutations(Agents) \union Permutations(Detectors)
=============================================================================
