-------------------------- MODULE ArtifactVersions --------------------------
(* pipeline/artifact_versioning.py: the version history of each document,   *)
(* in two tables of one SQLite file.  add_version reads the current version *)
(* and then, in one transaction, writes the row of the next version and     *)
(* makes it current.                                                        *)
EXTENDS Naturals, Sequences

CONSTANTS
  Writers,    \* connections to the file
  Artifacts,  \* artifact names
  Contents,   \* what the versions say
  MaxId       \* bound on the ids of the versions table

ASSUME MaxIdInNat == MaxId \in Nat

VARIABLES
  current,    \* current_version of each registered artifact, as <<major, minor>>
  versions,   \* the rows of versions: artifact, version, content, id
  nextId,     \* the AUTOINCREMENT id
  adding,     \* what each writer is doing in add_version
  added,      \* the versions that add_version returned, with their contents
  raced       \* the artifacts two writers have been adding to at once

verVars == <<current, versions, nextId, adding, added, raced>>

Numbers == Nat \X Nat
Rows == [artifact : Artifacts, version : Numbers, content : Contents, id : Nat]
Ready == [kind |-> "ready"]
Adding == [kind : {"add"}, artifact : Artifacts, version : Numbers, content : Contents]

VerInit ==
  /\ current = <<>>
  /\ versions = {}
  /\ nextId = 1
  /\ adding = [w \in Writers |-> Ready]
  /\ added = {}
  /\ raced = {}

Registered == DOMAIN current

\* register_artifact, INSERT OR IGNORE.
WithArtifact(a) ==
  [b \in Registered \union {a} |-> IF b \in Registered THEN current[b] ELSE <<0, 0>>]

Register(a) ==
  /\ a \notin Registered
  /\ current' = WithArtifact(a)
  /\ UNCHANGED <<versions, nextId, adding, added, raced>>

\* The version after v.
NextVersion(v, major) == IF major THEN <<v[1] + 1, 0>> ELSE <<v[1], v[2] + 1>>

AddingTo(a) == {w \in Writers : adding[w] # Ready /\ adding[w].artifact = a}

\* The read of add_version; it registers an artifact it does not find.
AddReads(w, a, c, major) ==
  /\ adding[w] = Ready
  /\ current' = WithArtifact(a)
  /\ adding' = [adding EXCEPT ![w] =
                  [kind |-> "add", artifact |-> a, content |-> c,
                   version |-> NextVersion(WithArtifact(a)[a], major)]]
  /\ raced' = IF AddingTo(a) = {} THEN raced ELSE raced \union {a}
  /\ UNCHANGED <<versions, nextId, added>>

\* INSERT OR REPLACE under UNIQUE(artifact_name, version).
Replaced(row) ==
  {r \in versions : <<r.artifact, r.version>> # <<row.artifact, row.version>>} \union {row}

\* A slip in AddWrites: current_version only ever goes up.
AddWritesIfNewer(w) ==
  /\ adding[w] # Ready
  /\ nextId < MaxId
  /\ LET o == adding[w]
         row == [artifact |-> o.artifact, version |-> o.version, content |-> o.content,
                 id |-> nextId]
     IN  /\ versions' = Replaced(row)
         /\ current' = IF o.version[1] < current[o.artifact][1] THEN current
                       ELSE [current EXCEPT ![o.artifact] = o.version]
         /\ added' = added \union {<<o.artifact, o.version, o.content>>}
  /\ nextId' = nextId + 1
  /\ adding' = [adding EXCEPT ![w] = Ready]
  /\ UNCHANGED raced

\* The transaction of add_version: the row, then the current version.
AddWrites(w) ==
  /\ adding[w] # Ready
  /\ nextId < MaxId
  /\ LET o == adding[w]
         row == [artifact |-> o.artifact, version |-> o.version, content |-> o.content,
                 id |-> nextId]
     IN  /\ versions' = Replaced(row)
         /\ current' = [current EXCEPT ![o.artifact] = o.version]
         /\ added' = added \union {<<o.artifact, o.version, o.content>>}
  /\ nextId' = nextId + 1
  /\ adding' = [adding EXCEPT ![w] = Ready]
  /\ UNCHANGED raced

\* The writer's process dies between the read and the transaction.
AddDies(w) ==
  /\ adding[w] # Ready
  /\ adding' = [adding EXCEPT ![w] = Ready]
  /\ UNCHANGED <<current, versions, nextId, added, raced>>

VerNext ==
  \/ \E a \in Artifacts : Register(a)
  \/ \E w \in Writers :
       \/ \E a \in Artifacts, c \in Contents, major \in BOOLEAN : AddReads(w, a, c, major)
       \/ AddWrites(w)
       \/ AddDies(w)

VerSpec == VerInit /\ [][VerNext]_verVars

VerTypeOK ==
  /\ Registered \subseteq Artifacts
  /\ current \in [Registered -> Numbers]
  /\ versions \subseteq Rows
  /\ nextId \in Nat
  /\ adding \in [Writers -> Adding \union {Ready}]
  /\ \A w \in Writers : adding[w] # Ready => adding[w].artifact \in Registered
  /\ added \subseteq Artifacts \X Numbers \X Contents
  /\ raced \subseteq Artifacts

RowsOf(a) == {r \in versions : r.artifact = a}

\* The current version of a document is the version of its newest row, the one
\* get_latest returns, however two add_version interleave: the version number
\* and the history cannot name different documents.
CurrentIsLatest ==
  \A a \in Registered :
    IF RowsOf(a) = {} THEN current[a] = <<0, 0>>
    ELSE \E r \in RowsOf(a) : r.version = current[a] /\ \A s \in RowsOf(a) : s.id <= r.id

\* A version that add_version returned stays in the history with its content
\* ("maintains version history for key project documents"), unless two writers
\* were adding to the document at once: then INSERT OR REPLACE drops one.
HistoryKeptIfAlone ==
  \A e \in added : e[1] \notin raced =>
    \E r \in versions : <<r.artifact, r.version, r.content>> = e
=============================================================================
