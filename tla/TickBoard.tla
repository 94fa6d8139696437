------------------------------- MODULE TickBoard -------------------------------
(***************************************************************************)
(* tick-board/app.js and github-sync.js: the Kanban board that teammates   *)
(* edit from their browsers.                                               *)
(*                                                                         *)
(* The board is one file of the repository, read and written through the   *)
(* GitHub Contents API: a PUT carries the sha of the version it replaces   *)
(* and is refused when that is not the current one.  Each browser keeps    *)
(* its own copy of the board with the sha it believes to have, changes the *)
(* copy first and sends it after, and polls for versions of other people.  *)
(* A request is two steps, the server's and the browser's, and anything    *)
(* the browser does can come between them.                                 *)
(*                                                                         *)
(* A version is numbered by its place in the history, which is its sha: a  *)
(* save always writes a new updatedAt.  A change of a card gives it a new  *)
(* value, the number of the change; what the value is does not matter.  The *)
(* id of a tick is free text: n stands for the text "T00n", 0 for a text    *)
(* without such a number.                                                   *)
(***************************************************************************)
EXTENDS Naturals, Sequences, FiniteSets

CONSTANTS
  Clients,     \* the browsers
  Cards,       \* the cards
  MaxChanges,  \* bound: changes that users send
  TickIds,     \* bound: the tick ids that users type
  Careful,     \* whether users let a request of theirs end before the next
               \* change, reopen a dialog after the board was reloaded,
               \* reload before they try again to complete a tick, and
               \* give the next tick an id that their board does not have
  PromptPolls  \* whether the answer to a poll is handled before the next
               \* answer of the server to the same browser

ASSUME BoardAssumption == /\ MaxChanges \in Nat
                          /\ TickIds \subseteq Nat
                          /\ Careful \in BOOLEAN
                          /\ PromptPolls \in BOOLEAN
                          /\ IsFiniteSet(Clients)
                          /\ "tick" \notin Cards

Value == 0 .. MaxChanges
FileNo == 1 .. MaxChanges + 1
NoNumber == 0
Entry == [tick : Nat, file : FileNo]

\* The parts of a board that a user can change.
Tick == "tick"
Parts == Cards \cup {Tick}

Board == [cards : [Cards -> Value], tick : Nat, archived : Seq(Entry)]

NoDialog == [kind |-> "none"]
NoPut == [phase |-> "none"]
NoLoad == [phase |-> "none"]
NoSha == 0 - 1

VARIABLES
  remote,    \* board.json: its version and content
  archives,  \* tick-NN.json: from the number to the tick it holds
  board,     \* state.board of each client
  sha,       \* state.sha
  unsaved,   \* history: the parts changed since the copy equalled a version
  dialog,    \* the editor or the wizard a client has open
  put,       \* the PUT a client has under way
  load,      \* the reload a client has under way
  poll,      \* the version a poll under way has found, NoSha for none
  changes    \* how many changes users have sent

vars == <<remote, archives, board, sha, unsaved, dialog, put, load, poll, changes>>

EmptyBoard == [cards |-> [x \in Cards |-> 0], tick |-> 1, archived |-> <<>>]
NoArchives == [n \in {} |-> 0]

Init ==
  /\ remote = [sha |-> 0, board |-> EmptyBoard]
  /\ archives = NoArchives
  /\ board = [c \in Clients |-> EmptyBoard]
  /\ sha = [c \in Clients |-> 0]
  /\ unsaved = [c \in Clients |-> {}]
  /\ dialog = [c \in Clients |-> NoDialog]
  /\ put = [c \in Clients |-> NoPut]
  /\ load = [c \in Clients |-> NoLoad]
  /\ poll = [c \in Clients |-> NoSha]
  /\ changes = 0

\* A user may send a change: no other PUT is under way (the bound on PUTs of
\* one client), and a careful user waits for a reload too.
MaySend(c) ==
  /\ put[c] = NoPut /\ changes < MaxChanges
  /\ Careful => load[c] = NoLoad

-----------------------------------------------------------------------------
\* Variant: the current sha is fetched right before the PUT.
SendOverCurrent(c, kind, copy, what, part, value) ==
  put' = [put EXCEPT ![c] = [phase |-> "sent", kind |-> kind, base |-> remote.sha,
                             board |-> copy, what |-> what, part |-> part,
                             value |-> value]]

\* gh.saveBoard: the copy as it is now goes out over the sha the client has.
\* what tells the parts changed, part and value the change that is saved.
Send(c, kind, copy, what, part, value) ==
  put' = [put EXCEPT ![c] = [phase |-> "sent", kind |-> kind, base |-> sha[c],
                             board |-> copy, what |-> what, part |-> part,
                             value |-> value]]

\* A change of a card in state.board, sent at once.
ChangeCard(c, x, kind) ==
  LET copy == [board[c] EXCEPT !.cards[x] = changes + 1] IN
  /\ changes' = changes + 1
  /\ board' = [board EXCEPT ![c] = copy]
  /\ unsaved' = [unsaved EXCEPT ![c] = @ \cup {x}]
  /\ Send(c, kind, copy, unsaved'[c], x, changes + 1)

\* __tickBoardDrop: the card moves to another column.
Drop(c, x) ==
  /\ MaySend(c)
  /\ ChangeCard(c, x, "drop")
  /\ UNCHANGED <<remote, archives, sha, dialog, load, poll>>

OpenEditor(c, x) ==
  /\ dialog[c] = NoDialog /\ changes < MaxChanges
  /\ dialog' = [dialog EXCEPT ![c] = [kind |-> "edit", card |-> x, stale |-> FALSE]]
  /\ UNCHANGED <<remote, archives, board, sha, unsaved, put, load, poll, changes>>

\* Variant: the board goes out before the draft is assigned to the card.
SaveEditSendFirst(c) ==
  LET x == dialog[c].card IN
  /\ dialog[c].kind = "edit" /\ MaySend(c)
  /\ Careful => ~dialog[c].stale
  /\ changes' = changes + 1
  /\ Send(c, "edit", board[c], unsaved[c] \cup {x}, x, changes + 1)
  /\ board' = [board EXCEPT ![c].cards[x] = changes + 1]
  /\ unsaved' = [unsaved EXCEPT ![c] = @ \cup {x}]
  /\ UNCHANGED <<remote, archives, sha, dialog, load, poll>>

\* ecfSave on an existing card: the draft is assigned to the card object that
\* was in the board when the editor opened.  After a reload that object is in
\* no board, and the save sends the board without the change.
SaveEdit(c) ==
  /\ dialog[c].kind = "edit" /\ MaySend(c)
  /\ Careful => ~dialog[c].stale
  /\ \/ /\ ~dialog[c].stale
        /\ ChangeCard(c, dialog[c].card, "edit")
     \/ /\ dialog[c].stale
        /\ changes' = changes + 1
        /\ Send(c, "edit", board[c], unsaved[c], dialog[c].card, changes + 1)
        /\ UNCHANGED <<board, unsaved>>
  /\ UNCHANGED <<remote, archives, sha, dialog, load, poll>>

\* ecfSave on a new card: the card is put into the board the client has now.
AddCard(c, x) ==
  /\ dialog[c] = NoDialog /\ MaySend(c)
  /\ ChangeCard(c, x, "edit")
  /\ UNCHANGED <<remote, archives, sha, dialog, load, poll>>

\* ecfDel: so is the card taken out, and the editor closes first.
DeleteCard(c) ==
  /\ dialog[c].kind = "edit" /\ MaySend(c)
  /\ ChangeCard(c, dialog[c].card, "delete")
  /\ dialog' = [dialog EXCEPT ![c] = NoDialog]
  /\ UNCHANGED <<remote, archives, sha, load, poll>>

CloseDialog(c) ==
  /\ dialog[c] # NoDialog
  /\ Careful => put[c] = NoPut
  /\ dialog' = [dialog EXCEPT ![c] = NoDialog]
  /\ UNCHANGED <<remote, archives, board, sha, unsaved, put, load, poll, changes>>

-----------------------------------------------------------------------------
(* Completing a tick.                                                      *)

\* The id proposed for the tick after t: the next number, T002 without one.
Proposed(t) == IF t = NoNumber THEN 2 ELSE t + 1

OpenCompleteTickWizard(c) ==
  /\ dialog[c] = NoDialog /\ changes < MaxChanges
  /\ dialog' = [dialog EXCEPT ![c] = [kind |-> "wizard", next |-> Proposed(board[c].tick),
                                      stale |-> FALSE]]
  /\ UNCHANGED <<remote, archives, board, sha, unsaved, put, load, poll, changes>>

\* The field nextTickId takes any text, also while the archive file is written.
\* Bound: nothing is typed when no change is left that could use it.
TypeNextTick(c, n) ==
  /\ dialog[c].kind = "wizard" /\ (changes < MaxChanges \/ put[c] # NoPut)
  /\ Careful => put[c] = NoPut
  /\ dialog' = [dialog EXCEPT ![c].next = n]
  /\ UNCHANGED <<remote, archives, board, sha, unsaved, put, load, poll, changes>>

\* The ids of the current and the archived ticks of board b.
TicksOf(b) == {b.tick} \cup {b.archived[i].tick : i \in 1 .. Len(b.archived)}

NextArchiveNumber(b) == Len(b.archived) + 1

\* doCompleteTick up to its first await: the snapshot goes out as a new file.
DoCompleteTick(c) ==
  /\ dialog[c].kind = "wizard" /\ MaySend(c)
  /\ Careful => /\ ~dialog[c].stale /\ unsaved[c] = {}
                /\ dialog[c].next \notin TicksOf(board[c])
  /\ changes' = changes + 1
  /\ put' = [put EXCEPT ![c] = [phase |-> "sent", kind |-> "archive",
                                tick |-> board[c].tick,
                                file |-> NextArchiveNumber(board[c])]]
  /\ UNCHANGED <<remote, archives, board, sha, unsaved, dialog, load, poll>>

\* The server creates the file; with no sha in the request it refuses to
\* replace one.
ArchiveArrives(c) ==
  LET p == put[c] IN
  /\ p.phase = "sent" /\ p.kind = "archive"
  /\ \/ /\ p.file \notin DOMAIN archives
        /\ archives' = [n \in DOMAIN archives \cup {p.file} |->
                          IF n = p.file THEN p.tick ELSE archives[n]]
        /\ put' = [put EXCEPT ![c].phase = "ok"]
     \/ /\ p.file \in DOMAIN archives
        /\ put' = [put EXCEPT ![c].phase = "failed"]
        /\ UNCHANGED archives
  /\ UNCHANGED <<remote, board, sha, unsaved, dialog, load, poll, changes>>

\* The entry of the archived tick of request p joins the board's list.
Listed(b, p) == [b EXCEPT !.archived = Append(@, [tick |-> p.tick, file |-> p.file])]

\* Variant: the current tick stays.
CompletedKeepingTick(b, p, next) == Listed(b, p)

\* The copy after the tick of request p is completed.
Completed(b, p, next) == [Listed(b, p) EXCEPT !.tick = next]

TakesCopy(c, copy) ==
  /\ board' = [board EXCEPT ![c] = copy]
  /\ unsaved' = [unsaved EXCEPT ![c] = @ \cup {Tick}]

\* Variant: an archive that could not be written does not stop the wizard.
ArchiveReturnsAnyway(c) ==
  LET copy == Completed(board[c], put[c], dialog[c].next) IN
  /\ put[c].phase \in {"ok", "failed"} /\ put[c].kind = "archive"
  /\ dialog[c].kind = "wizard" /\ TakesCopy(c, copy)
  /\ Send(c, "tick", copy, unsaved'[c], Tick, dialog[c].next)
  /\ UNCHANGED <<remote, archives, sha, dialog, load, poll, changes>>

\* doCompleteTick after the first await: with the file written, the board
\* that the client has now gets the entry and the next tick of the wizard, and
\* is saved.  The wizard's fields are read now: when it was closed meanwhile,
\* that fails, with the entry in the copy and nothing sent.
ArchiveReturns(c) ==
  /\ put[c].phase \in {"ok", "failed"} /\ put[c].kind = "archive"
  /\ \/ /\ put[c].phase = "ok" /\ dialog[c].kind = "wizard"
        /\ LET copy == Completed(board[c], put[c], dialog[c].next) IN
             /\ TakesCopy(c, copy)
             /\ Send(c, "tick", copy, unsaved'[c], Tick, dialog[c].next)
     \/ /\ put[c].phase = "ok" /\ dialog[c].kind # "wizard"
        /\ TakesCopy(c, Listed(board[c], put[c]))
        /\ put' = [put EXCEPT ![c] = NoPut]
     \/ /\ put[c].phase = "failed"
        /\ put' = [put EXCEPT ![c] = NoPut]
        /\ UNCHANGED <<board, unsaved>>
  /\ UNCHANGED <<remote, archives, sha, dialog, load, poll, changes>>

-----------------------------------------------------------------------------
(* The answers of the server to a PUT of the board.                        *)

PutAccepted(c) ==
  /\ put[c].phase = "sent" /\ put[c].kind # "archive"
  /\ put[c].base = remote.sha
  /\ remote' = [sha |-> remote.sha + 1, board |-> put[c].board]
  /\ put' = [put EXCEPT ![c].phase = "ok", ![c].base = remote.sha + 1]
  /\ UNCHANGED <<archives, board, sha, unsaved, dialog, load, poll, changes>>

PutRefused(c) ==
  /\ put[c].phase = "sent" /\ put[c].kind # "archive"
  /\ put[c].base # remote.sha
  /\ put' = [put EXCEPT ![c].phase = "failed"]
  /\ UNCHANGED <<remote, archives, board, sha, unsaved, dialog, load, poll, changes>>

\* The request or its answer is lost on the way: an error for the client.
RequestLost(c) ==
  /\ put[c].phase \in {"sent", "ok"}
  /\ put' = [put EXCEPT ![c].phase = "failed"]
  /\ UNCHANGED <<remote, archives, board, sha, unsaved, dialog, load, poll, changes>>

\* Bound: a client has one reload under way.
AskLoad(c) ==
  load' = [load EXCEPT ![c] = IF @ = NoLoad THEN [phase |-> "asked"] ELSE @]

\* No answer to a poll waits: where polls are prompt, an answer that brings
\* a new sha finds none.
PollHandled(c) == PromptPolls => poll[c] = NoSha

\* The save is done: the client has the new version, and an editor closes.
SaveReturns(c) ==
  /\ put[c].phase = "ok" /\ put[c].kind # "archive" /\ PollHandled(c)
  /\ sha' = [sha EXCEPT ![c] = put[c].base]
  /\ unsaved' = [unsaved EXCEPT ![c] = {}]
  /\ dialog' = [dialog EXCEPT ![c] = IF put[c].kind \in {"edit", "tick"} THEN NoDialog ELSE @]
  /\ put' = [put EXCEPT ![c] = NoPut]
  /\ UNCHANGED <<remote, archives, board, load, poll, changes>>

\* The save has failed.  After a drop the board is reloaded; otherwise the
\* copy keeps the change and a dialog stays open, under a banner or an alert.
SaveFails(c) ==
  /\ put[c].phase = "failed" /\ put[c].kind # "archive"
  /\ put' = [put EXCEPT ![c] = NoPut]
  /\ IF put[c].kind = "drop" THEN AskLoad(c) ELSE UNCHANGED load
  /\ UNCHANGED <<remote, archives, board, sha, unsaved, dialog, poll, changes>>

-----------------------------------------------------------------------------
(* Reloads and polls.                                                      *)

\* The button of the banner that a conflict leaves.
ReloadBoard(c) ==
  /\ unsaved[c] # {} /\ put[c] = NoPut /\ load[c] = NoLoad
  /\ AskLoad(c)
  /\ UNCHANGED <<remote, archives, board, sha, unsaved, dialog, put, poll, changes>>

\* The server answers a reload.
LoadReads(c) ==
  /\ load[c].phase = "asked"
  /\ load' = [load EXCEPT ![c] = [phase |-> "read", sha |-> remote.sha,
                                  board |-> remote.board]]
  /\ UNCHANGED <<remote, archives, board, sha, unsaved, dialog, put, poll, changes>>

\* A reload that fails changes nothing.
LoadFails(c) ==
  /\ load[c].phase = "asked"
  /\ load' = [load EXCEPT ![c] = NoLoad]
  /\ UNCHANGED <<remote, archives, board, sha, unsaved, dialog, put, poll, changes>>

\* reloadBoardQuiet: the copy is replaced, whatever is open or under way.
LoadReturns(c) ==
  /\ load[c].phase = "read" /\ PollHandled(c)
  /\ board' = [board EXCEPT ![c] = load[c].board]
  /\ sha' = [sha EXCEPT ![c] = load[c].sha]
  /\ unsaved' = [unsaved EXCEPT ![c] = {}]
  /\ dialog' = [dialog EXCEPT ![c] = IF @ = NoDialog THEN @ ELSE [@ EXCEPT !.stale = TRUE]]
  /\ load' = [load EXCEPT ![c] = NoLoad]
  /\ UNCHANGED <<remote, archives, put, poll, changes>>

\* pollBoardSha: the answer to a poll, when it is a version the client lacks.
\* Bound: no poll is answered while a reload is under way.
PollReads(c) ==
  /\ poll[c] = NoSha /\ load[c] = NoLoad /\ remote.sha # sha[c]
  /\ poll' = [poll EXCEPT ![c] = remote.sha]
  /\ UNCHANGED <<remote, archives, board, sha, unsaved, dialog, put, load, changes>>

\* Variant: a board with changes of its own is not reloaded.
PollReturnsIfSaved(c) ==
  /\ poll[c] # NoSha
  /\ poll' = [poll EXCEPT ![c] = NoSha]
  /\ IF poll[c] # sha[c] /\ unsaved[c] = {} THEN AskLoad(c) ELSE UNCHANGED load
  /\ UNCHANGED <<remote, archives, board, sha, unsaved, dialog, put, changes>>

\* The poll reloads if the client lacks the version still.
PollReturns(c) ==
  /\ poll[c] # NoSha
  /\ poll' = [poll EXCEPT ![c] = NoSha]
  /\ IF poll[c] # sha[c] THEN AskLoad(c) ELSE UNCHANGED load
  /\ UNCHANGED <<remote, archives, board, sha, unsaved, dialog, put, changes>>

\* bootstrap, after the tab was closed at any moment: the requests under way
\* are forgotten and the board is loaded before anything else.
Bootstrap(c) ==
  /\ board' = [board EXCEPT ![c] = remote.board]
  /\ sha' = [sha EXCEPT ![c] = remote.sha]
  /\ unsaved' = [unsaved EXCEPT ![c] = {}]
  /\ dialog' = [dialog EXCEPT ![c] = NoDialog]
  /\ put' = [put EXCEPT ![c] = NoPut]
  /\ load' = [load EXCEPT ![c] = NoLoad]
  /\ poll' = [poll EXCEPT ![c] = NoSha]
  /\ UNCHANGED <<remote, archives, changes>>

-----------------------------------------------------------------------------
UserStep(c) ==
  \/ \E x \in Cards : Drop(c, x) \/ OpenEditor(c, x) \/ AddCard(c, x)
  \/ SaveEdit(c) \/ DeleteCard(c) \/ CloseDialog(c)
  \/ OpenCompleteTickWizard(c) \/ (\E n \in TickIds : TypeNextTick(c, n)) \/ DoCompleteTick(c)
  \/ ReloadBoard(c) \/ Bootstrap(c)

PutStep(c) ==
  \/ ArchiveArrives(c) \/ ArchiveReturns(c) \/ PutAccepted(c) \/ PutRefused(c)
  \/ SaveReturns(c) \/ SaveFails(c)

PollStep(c) == PollReads(c) \/ PollReturns(c) \/ LoadReads(c) \/ LoadReturns(c)

Next == \E c \in Clients :
          UserStep(c) \/ PutStep(c) \/ PollStep(c) \/ RequestLost(c) \/ LoadFails(c)

Spec == Init /\ [][Next]_vars

\* Requests end, a browser polls every 30 s, and a reload that is tried again
\* and again gets through once.  Users need not do anything.
Fairness ==
  \A c \in Clients :
    /\ WF_vars(PutStep(c))
    /\ WF_vars(PollReads(c)) /\ WF_vars(PollReturns(c))
    /\ SF_vars(LoadReads(c)) /\ WF_vars(LoadReturns(c))

FairSpec == Spec /\ Fairness

-----------------------------------------------------------------------------
(* Properties.                                                             *)

TypeOK ==
  /\ remote.sha \in 0 .. MaxChanges
  /\ remote.board \in Board
  /\ DOMAIN archives \subseteq FileNo /\ \A n \in DOMAIN archives : archives[n] \in Nat
  /\ board \in [Clients -> Board]
  /\ sha \in [Clients -> 0 .. MaxChanges]
  /\ unsaved \in [Clients -> SUBSET Parts]
  /\ \A c \in Clients : dialog[c].kind \in {"none", "edit", "wizard"}
  /\ \A c \in Clients : put[c].phase \in {"none", "sent", "ok", "failed"}
  /\ \A c \in Clients : load[c].phase \in {"none", "asked", "read"}
  /\ poll \in [Clients -> 0 .. MaxChanges \cup {NoSha}]
  /\ changes \in 0 .. MaxChanges

PartOf(b, part) == IF part = Tick THEN <<b.tick, b.archived>> ELSE b.cards[part]

Committed(c) == put[c].phase = "sent" /\ put'[c].phase = "ok" /\ put[c].kind # "archive"

\* A version differs from the one before only in what its author changed: no
\* save takes back what somebody else, or the author before, had saved.
CommitsOnlyOwnChanges ==
  [][\A c \in Clients : Committed(c) =>
       \A part \in Parts :
         PartOf(remote'.board, part) # PartOf(remote.board, part) => part \in put[c].what]_vars

\* tick-board/README.md, on a conflict: "Use Reload board and re-apply your
\* change."  A save that is accepted holds the change it was made for.
SavedChangeIsCommitted ==
  [][\A c \in Clients : Committed(c) /\ put[c].part \in Cards =>
       remote'.board.cards[put[c].part] = put[c].value]_vars

\* What the board lists as archived is in the file it names, and no file is
\* listed twice.
ArchivesExist ==
  LET a == remote.board.archived IN
  /\ \A i \in 1 .. Len(a) : a[i].file \in DOMAIN archives /\ archives[a[i].file] = a[i].tick
  /\ \A i, j \in 1 .. Len(a) : a[i].file = a[j].file => i = j

\* A tick is completed once, whoever tries to complete it with whatever copy
\* of the board, and the current tick is not one of those.
TickCompletedOnce ==
  LET a == remote.board.archived IN
  /\ \A i, j \in 1 .. Len(a) : a[i].tick = a[j].tick => i = j
  /\ \A i \in 1 .. Len(a) : a[i].tick # remote.board.tick

\* When the users stop, every client comes to show the current version, but
\* for changes of its own that could not be saved.
Converges ==
  <>[](\A c \in Clients : /\ sha[c] = remote.sha
                          /\ board[c] = remote.board \/ unsaved[c] # {})
=============================================================================
