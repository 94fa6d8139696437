------------------------------ MODULE VttParser ------------------------------
(* parse_vtt of pipeline/vtt_processor.py: the cues of a recording become   *)
(* the turns of its speakers.  A cue is the sequence of its text lines; what *)
(* a line says is left out, only whose label it carries and whether there   *)
(* is text, or nothing but digits, matters to the parser.                   *)
EXTENDS Naturals, Sequences, FiniteSetsExt

CONSTANTS
  People,     \* speakers, as _resolve_speaker returns them
  MaxCues,    \* bound on the cues of a recording
  MaxLines    \* bound on the lines of a cue

VARIABLES
  cues,       \* the recording
  next,       \* the cue to be read
  speaker,    \* current_speaker
  parts,      \* current_text_parts: the cues they come from
  turns       \* what has been flushed: a speaker and the cues of the turn

vttVars == <<cues, next, speaker, parts, turns>>

Nobody == "nobody"

\* _resolve_speaker returns no empty name for a label.
ASSUME PeopleAssumption == Nobody \notin People /\ MaxCues \in Nat /\ MaxLines \in Nat

Labelled == [who : People, text : BOOLEAN]   \* "Name: text", or "Name:" alone
Unlabelled == [who |-> Nobody, text |-> TRUE]
Digits == [who |-> "digits", text |-> FALSE]  \* a line that is only a number
Lines == Labelled \union {Unlabelled, Digits}
UpTo(S, n) == UNION {[1..k -> S] : k \in 0..n}

VttInit ==
  /\ cues \in UpTo(UpTo(Lines, MaxLines), MaxCues)
  /\ next = 1
  /\ speaker = Nobody
  /\ parts = <<>>
  /\ turns = <<>>

\* The text of a cue ends at a line of digits, which is taken for the number
\* of the next cue; what follows it is no timestamp and is skipped.
Heard(cue) == {k \in DOMAIN cue : \A j \in 1..k : cue[j] # Digits}

HasText(cue) == \E k \in Heard(cue) : cue[k].text
Labels(cue) == {k \in Heard(cue) : cue[k].who # Nobody}
LastLabel(cue) == cue[Max(Labels(cue))].who

\* The last label of a cue counts; a cue without one goes on with the speaker.
Resolved(cue, current) == IF Labels(cue) = {} THEN current ELSE LastLabel(cue)

\* A slip in Flushed: a turn is kept only when it is longer than one cue.
FlushedIfLong ==
  IF Len(parts) > 1 /\ speaker # Nobody THEN Append(turns, [speaker |-> speaker, cues |-> parts])
  ELSE turns

\* What was said before anybody is named is dropped.
Flushed ==
  IF parts # <<>> /\ speaker # Nobody THEN Append(turns, [speaker |-> speaker, cues |-> parts])
  ELSE turns

ReadCue ==
  /\ next <= Len(cues)
  /\ LET who == Resolved(cues[next], speaker) IN
       IF ~HasText(cues[next]) THEN UNCHANGED <<speaker, parts, turns>>
       ELSE IF who = speaker /\ parts # <<>>
            THEN parts' = Append(parts, next) /\ UNCHANGED <<speaker, turns>>
            ELSE /\ turns' = Flushed
                 /\ speaker' = who
                 /\ parts' = <<next>>
  /\ next' = next + 1
  /\ UNCHANGED cues

\* The flush of the last turn.
EndOfFile ==
  /\ next = Len(cues) + 1
  /\ turns' = Flushed
  /\ parts' = <<>>
  /\ next' = next + 1
  /\ UNCHANGED <<cues, speaker>>

VttNext == ReadCue \/ EndOfFile

VttSpec == VttInit /\ [][VttNext]_vttVars

\* Who speaks in cue k: the label of the last cue with text, up to k, that has one.
Named(k) == {j \in 1..k : HasText(cues[j]) /\ Labels(cues[j]) # {}}
SpeakerOf(k) == IF Named(k) = {} THEN Nobody ELSE LastLabel(cues[Max(Named(k))])

Spoken == {k \in DOMAIN cues : HasText(cues[k]) /\ SpeakerOf(k) # Nobody}

VttTypeOK ==
  /\ cues \in UpTo(UpTo(Lines, MaxLines), MaxCues)
  /\ next \in Nat \ {0}
  /\ speaker \in People \union {Nobody}
  /\ parts \in Seq(Nat)
  /\ turns \in Seq([speaker : People, cues : Seq(Nat)])

\* The turns are the recording: every cue with text, from the first that names
\* a speaker on, is in a turn, the cues of a turn and of one turn after another
\* are in the order of the recording (so none is in two), each is under its own
\* speaker, and a turn ends only where the speaker changes.
TurnsAreTheRecording ==
  next > Len(cues) + 1 =>
    /\ \A k \in Spoken : \E i \in DOMAIN turns : \E j \in DOMAIN turns[i].cues : turns[i].cues[j] = k
    /\ \A i \in DOMAIN turns : \A j \in DOMAIN turns[i].cues :
         /\ turns[i].cues[j] \in Spoken
         /\ SpeakerOf(turns[i].cues[j]) = turns[i].speaker
    /\ \A i, m \in DOMAIN turns : \A j \in DOMAIN turns[i].cues, l \in DOMAIN turns[m].cues :
         i < m \/ (i = m /\ j < l) => turns[i].cues[j] < turns[m].cues[l]
    /\ \A i \in DOMAIN turns : i > 1 => turns[i].speaker # turns[i - 1].speaker
=============================================================================
