---------------------------- MODULE TickBoardProofs ----------------------------
(* Theorems about TickBoard, for every set of browsers and cards and every    *)
(* number of changes: what the board lists as archived is in its file; a save *)
(* takes nothing back and no tick is completed twice, where users are careful *)
(* and polls are prompt; and a careful user's save holds the change.          *)
EXTENDS TickBoard, TLAPS

Entries == [tick : Nat, file : Nat]
Boards == [cards : [Cards -> Nat], tick : Nat, archived : Seq(Entries)]

Dialogs ==
  {NoDialog} \union [kind : {"edit"}, card : Cards, stale : BOOLEAN]
             \union [kind : {"wizard"}, next : Nat, stale : BOOLEAN]

Phases == {"sent", "ok", "failed"}
Saves == [phase : Phases, kind : {"drop", "edit", "delete", "tick"}, base : Nat,
          board : Boards, what : SUBSET Parts, part : Parts, value : Nat]
Archivings == [phase : Phases, kind : {"archive"}, tick : Nat, file : Nat]
Loads == {NoLoad} \union [phase : {"asked"}] \union [phase : {"read"}, sha : Nat, board : Boards]

RemoteTyped == remote \in [sha : Nat, board : Boards]
CopiesTyped ==
  /\ board \in [Clients -> Boards]
  /\ sha \in [Clients -> Nat]
  /\ unsaved \in [Clients -> SUBSET Parts]
DialogTyped == dialog \in [Clients -> Dialogs]
PutTyped == put \in [Clients -> {NoPut} \union Saves \union Archivings]
LoadTyped == load \in [Clients -> Loads]
PollTyped == poll \in [Clients -> Nat \union {NoSha}]

BoardTypeInv ==
  RemoteTyped /\ CopiesTyped /\ DialogTyped /\ PutTyped /\ LoadTyped /\ PollTyped /\ changes \in Nat

Saving(c) == put[c] \in Saves
Archiving(c) == put[c] \in Archivings

LEMMA PutKinds ==
  ASSUME PutTyped, NEW c \in Clients
  PROVE  /\ put[c].phase \in Phases => Saving(c) \/ Archiving(c)
         /\ put[c] = NoPut => ~Saving(c) /\ ~Archiving(c)
         /\ Saving(c) => put[c].kind # "archive" /\ ~Archiving(c)
         /\ Archiving(c) => put[c].kind = "archive"
  BY DEF PutTyped, NoPut, Saves, Archivings, Phases, Saving, Archiving

LEMMA DialogKinds ==
  ASSUME DialogTyped, NEW c \in Clients
  PROVE  /\ dialog[c].kind = "edit" =>
              dialog[c] \in [kind : {"edit"}, card : Cards, stale : BOOLEAN]
         /\ dialog[c].kind = "wizard" =>
              dialog[c] \in [kind : {"wizard"}, next : Nat, stale : BOOLEAN]
  BY DEF DialogTyped, Dialogs, NoDialog

LEMMA LoadKinds ==
  ASSUME LoadTyped, NEW c \in Clients
  PROVE  /\ load[c].phase = "read" => load[c] \in [phase : {"read"}, sha : Nat, board : Boards]
         /\ load[c].phase # "read" => load[c] = NoLoad \/ load[c] \in [phase : {"asked"}]
         /\ NoLoad.phase # "read" /\ NoLoad.phase # "asked"
  BY DEF LoadTyped, Loads, NoLoad

\* A save of a typed copy is a typed PUT.
LEMMA SendTyped ==
  ASSUME PutTyped, NEW c \in Clients, NEW k \in {"drop", "edit", "delete", "tick"},
         NEW b \in Boards, NEW w \in SUBSET Parts, NEW part \in Parts, NEW v \in Nat,
         sha[c] \in Nat, Send(c, k, b, w, part, v)
  PROVE  PutTyped'
<1>1. [phase |-> "sent", kind |-> k, base |-> sha[c], board |-> b, what |-> w,
       part |-> part, value |-> v] \in Saves
  BY DEF Saves, Phases
<1>2. QED
  BY <1>1 DEF Send, PutTyped

\* What a change of a card does to the copy and to the PUT.
LEMMA ChangeTyped ==
  ASSUME BoardTypeInv, NEW c \in Clients, NEW x \in Cards,
         NEW k \in {"drop", "edit", "delete"}, ChangeCard(c, x, k)
  PROVE  /\ board' \in [Clients -> Boards]
         /\ unsaved' \in [Clients -> SUBSET Parts]
         /\ PutTyped' /\ changes' \in Nat
<1> DEFINE copy == [board[c] EXCEPT !.cards[x] = changes + 1]
<1>0. RemoteTyped /\ CopiesTyped /\ PutTyped /\ changes \in Nat
  BY DEF BoardTypeInv
<1>1. changes + 1 \in Nat /\ sha[c] \in Nat /\ board[c] \in Boards /\ unsaved[c] \in SUBSET Parts
  BY <1>0 DEF CopiesTyped
<1>2. copy \in Boards
  BY <1>1 DEF Boards
<1>3. unsaved' \in [Clients -> SUBSET Parts] /\ unsaved'[c] \in SUBSET Parts /\ x \in Parts
  BY <1>0 DEF ChangeCard, CopiesTyped, Parts
<1>4. board' = [board EXCEPT ![c] = copy] /\ Send(c, k, copy, unsaved'[c], x, changes + 1)
      /\ changes' = changes + 1
  BY DEF ChangeCard
<1>5. PutTyped'
  BY <1>0, <1>1, <1>2, <1>3, <1>4, SendTyped
<1>6. QED
  BY <1>0, <1>1, <1>2, <1>3, <1>4, <1>5 DEF CopiesTyped

\* An answer changes only the phase of a PUT.
LEMMA AnsweredTyped ==
  ASSUME PutTyped, NEW c \in Clients, put[c].phase \in Phases, NEW p \in Phases,
         put' = [put EXCEPT ![c].phase = p]
  PROVE  PutTyped'
<1>1. [put[c] EXCEPT !.phase = p] \in Saves \union Archivings
  BY PutKinds DEF Saving, Archiving, Saves, Archivings
<1>2. QED
  BY <1>1 DEF PutTyped

\* The board after a tick was archived, with and without the next tick.
LEMMA ListedTyped ==
  ASSUME NEW b \in Boards, NEW p \in Archivings, NEW n \in Nat
  PROVE  /\ Listed(b, p) \in Boards
         /\ Completed(b, p, n) \in Boards
         /\ Listed(b, p).archived = Append(b.archived, [tick |-> p.tick, file |-> p.file])
         /\ Completed(b, p, n).archived = Append(b.archived, [tick |-> p.tick, file |-> p.file])
         /\ Listed(b, p).cards = b.cards
         /\ Completed(b, p, n).cards = b.cards
<1> DEFINE e == [tick |-> p.tick, file |-> p.file]
<1>1. e \in Entries /\ b.archived \in Seq(Entries)
  BY DEF Archivings, Entries, Boards
<1>2. Append(b.archived, e) \in Seq(Entries)
  BY <1>1
<1>3. Listed(b, p) = [b EXCEPT !.archived = Append(b.archived, e)]
  BY DEF Listed
<1>4. Listed(b, p) \in Boards /\ Listed(b, p).archived = Append(b.archived, e)
      /\ Listed(b, p).cards = b.cards
  BY <1>2, <1>3 DEF Boards
<1>5. Completed(b, p, n) = [Listed(b, p) EXCEPT !.tick = n]
  BY DEF Completed
<1>6. QED
  BY <1>4, <1>5 DEF Boards

LEMMA InitBoardTypes == Init => BoardTypeInv
<1> SUFFICES ASSUME Init PROVE BoardTypeInv
  OBVIOUS
<1>1. EmptyBoard \in Boards
  BY DEF EmptyBoard, Boards
<1>2. RemoteTyped /\ CopiesTyped
  BY <1>1 DEF Init, RemoteTyped, CopiesTyped
<1>3. DialogTyped /\ PutTyped /\ LoadTyped /\ PollTyped /\ changes \in Nat
  BY DEF Init, DialogTyped, Dialogs, PutTyped, LoadTyped, Loads, PollTyped
<1>4. QED
  BY <1>2, <1>3 DEF BoardTypeInv

LEMMA UserTypes ==
  ASSUME BoardTypeInv, NEW c \in Clients, UserStep(c)
  PROVE  BoardTypeInv'
<1>0. RemoteTyped /\ CopiesTyped /\ DialogTyped /\ PutTyped /\ LoadTyped /\ PollTyped /\ changes \in Nat
  BY DEF BoardTypeInv
<1>1. ASSUME NEW x \in Cards, Drop(c, x) \/ AddCard(c, x) PROVE BoardTypeInv'
  <2>1. PICK k \in {"drop", "edit"} : ChangeCard(c, x, k)
    BY <1>1 DEF Drop, AddCard
  <2>2. board' \in [Clients -> Boards] /\ unsaved' \in [Clients -> SUBSET Parts]
        /\ PutTyped' /\ changes' \in Nat
    BY <2>1, ChangeTyped
  <2>3. UNCHANGED <<remote, sha, dialog, load, poll>>
    BY <1>1 DEF Drop, AddCard
  <2>4. QED
    BY <1>0, <2>2, <2>3 DEF BoardTypeInv, RemoteTyped, CopiesTyped, DialogTyped, LoadTyped, PollTyped
<1>2. ASSUME NEW x \in Cards, OpenEditor(c, x) PROVE BoardTypeInv'
  <2>1. [kind |-> "edit", card |-> x, stale |-> FALSE] \in Dialogs
    BY DEF Dialogs
  <2>2. DialogTyped'
    BY <1>0, <1>2, <2>1 DEF OpenEditor, DialogTyped
  <2>3. UNCHANGED <<remote, board, sha, unsaved, put, load, poll, changes>>
    BY <1>2 DEF OpenEditor
  <2>4. QED
    BY <1>0, <2>2, <2>3 DEF BoardTypeInv, RemoteTyped, CopiesTyped, PutTyped, LoadTyped, PollTyped
<1>3. CASE SaveEdit(c)
  <2>0. dialog[c].card \in Cards
    BY <1>0, <1>3, DialogKinds DEF SaveEdit
  <2>1. CASE ChangeCard(c, dialog[c].card, "edit")
    <3>1. board' \in [Clients -> Boards] /\ unsaved' \in [Clients -> SUBSET Parts]
          /\ PutTyped' /\ changes' \in Nat
      BY <2>0, <2>1, ChangeTyped
    <3>2. UNCHANGED <<remote, sha, dialog, load, poll>>
      BY <1>3 DEF SaveEdit
    <3>3. QED
      BY <1>0, <3>1, <3>2 DEF BoardTypeInv, RemoteTyped, CopiesTyped, DialogTyped, LoadTyped, PollTyped
  <2>2. CASE /\ changes' = changes + 1
             /\ Send(c, "edit", board[c], unsaved[c], dialog[c].card, changes + 1)
             /\ UNCHANGED <<board, unsaved>>
    <3>1. changes + 1 \in Nat /\ sha[c] \in Nat /\ board[c] \in Boards /\ unsaved[c] \in SUBSET Parts
      BY <1>0 DEF CopiesTyped
    <3>2. PutTyped'
      BY <1>0, <2>0, <2>2, <3>1, SendTyped DEF Parts
    <3>3. UNCHANGED <<remote, sha, dialog, load, poll>>
      BY <1>3 DEF SaveEdit
    <3>4. QED
      BY <1>0, <2>2, <3>1, <3>2, <3>3
      DEF BoardTypeInv, RemoteTyped, CopiesTyped, DialogTyped, LoadTyped, PollTyped
  <2>3. QED
    BY <1>3, <2>1, <2>2 DEF SaveEdit
<1>4. CASE DeleteCard(c)
  <2>0. dialog[c].card \in Cards
    BY <1>0, <1>4, DialogKinds DEF DeleteCard
  <2>1. board' \in [Clients -> Boards] /\ unsaved' \in [Clients -> SUBSET Parts]
        /\ PutTyped' /\ changes' \in Nat
    BY <1>4, <2>0, ChangeTyped DEF DeleteCard
  <2>2. DialogTyped'
    BY <1>0, <1>4 DEF DeleteCard, DialogTyped, Dialogs
  <2>3. UNCHANGED <<remote, sha, load, poll>>
    BY <1>4 DEF DeleteCard
  <2>4. QED
    BY <1>0, <2>1, <2>2, <2>3 DEF BoardTypeInv, RemoteTyped, CopiesTyped, LoadTyped, PollTyped
<1>5. CASE CloseDialog(c)
  <2>1. DialogTyped'
    BY <1>0, <1>5 DEF CloseDialog, DialogTyped, Dialogs
  <2>2. QED
    BY <1>0, <1>5, <2>1
    DEF CloseDialog, BoardTypeInv, RemoteTyped, CopiesTyped, PutTyped, LoadTyped, PollTyped
<1>6. CASE OpenCompleteTickWizard(c)
  <2>1. Proposed(board[c].tick) \in Nat
    BY <1>0 DEF CopiesTyped, Boards, Proposed
  <2>2. [kind |-> "wizard", next |-> Proposed(board[c].tick), stale |-> FALSE] \in Dialogs
    BY <2>1 DEF Dialogs
  <2>3. DialogTyped'
    BY <1>0, <1>6, <2>2 DEF OpenCompleteTickWizard, TypeNextTick, DialogTyped
  <2>4. UNCHANGED <<remote, board, sha, unsaved, put, load, poll, changes>>
    BY <1>6 DEF OpenCompleteTickWizard, TypeNextTick
  <2>5. QED
    BY <1>0, <2>3, <2>4 DEF BoardTypeInv, RemoteTyped, CopiesTyped, PutTyped, LoadTyped, PollTyped
<1>7. CASE DoCompleteTick(c)
  <2>1. board[c].tick \in Nat /\ NextArchiveNumber(board[c]) \in Nat
    BY <1>0 DEF CopiesTyped, Boards, NextArchiveNumber
  <2>2. [phase |-> "sent", kind |-> "archive", tick |-> board[c].tick,
         file |-> NextArchiveNumber(board[c])] \in Archivings
    BY <2>1 DEF Archivings, Phases
  <2>3. PutTyped' /\ changes' \in Nat
    BY <1>0, <1>7, <2>2 DEF DoCompleteTick, PutTyped
  <2>4. UNCHANGED <<remote, board, sha, unsaved, dialog, load, poll>>
    BY <1>7 DEF DoCompleteTick
  <2>5. QED
    BY <1>0, <2>3, <2>4 DEF BoardTypeInv, RemoteTyped, CopiesTyped, DialogTyped, LoadTyped, PollTyped
<1>8. CASE ReloadBoard(c)
  <2>1. LoadTyped'
    BY <1>0, <1>8 DEF ReloadBoard, AskLoad, LoadTyped, Loads
  <2>2. UNCHANGED <<remote, board, sha, unsaved, dialog, put, poll, changes>>
    BY <1>8 DEF ReloadBoard
  <2>3. QED
    BY <1>0, <2>1, <2>2 DEF BoardTypeInv, RemoteTyped, CopiesTyped, DialogTyped, PutTyped, PollTyped
<1>9. CASE Bootstrap(c)
  <2>1. RemoteTyped' /\ CopiesTyped'
    BY <1>0, <1>9 DEF Bootstrap, CopiesTyped, RemoteTyped
  <2>2. DialogTyped' /\ PutTyped' /\ LoadTyped' /\ PollTyped' /\ changes' \in Nat
    BY <1>0, <1>9 DEF Bootstrap, DialogTyped, Dialogs, PutTyped, LoadTyped, Loads, PollTyped
  <2>3. QED
    BY <2>1, <2>2 DEF BoardTypeInv
<1>11. ASSUME NEW n \in TickIds, TypeNextTick(c, n) PROVE BoardTypeInv'
  <2>1. n \in Nat
    BY BoardAssumption
  <2>2. DialogTyped'
    BY <1>0, <1>11, <2>1, DialogKinds DEF TypeNextTick, DialogTyped, Dialogs
  <2>3. UNCHANGED <<remote, board, sha, unsaved, put, load, poll, changes>>
    BY <1>11 DEF TypeNextTick
  <2>4. QED
    BY <1>0, <2>2, <2>3 DEF BoardTypeInv, RemoteTyped, CopiesTyped, PutTyped, LoadTyped, PollTyped
<1>10. QED
  BY <1>1, <1>2, <1>3, <1>4, <1>5, <1>6, <1>7, <1>8, <1>9, <1>11 DEF UserStep

LEMMA ServerTypes ==
  ASSUME BoardTypeInv, NEW c \in Clients, PutStep(c) \/ PollStep(c) \/ RequestLost(c) \/ LoadFails(c)
  PROVE  BoardTypeInv'
<1>0. RemoteTyped /\ CopiesTyped /\ DialogTyped /\ PutTyped /\ LoadTyped /\ PollTyped /\ changes \in Nat
  BY DEF BoardTypeInv
<1>1. CASE ArchiveArrives(c) \/ PutRefused(c) \/ RequestLost(c)
  <2>1. put[c].phase \in Phases /\ \E p \in Phases : put' = [put EXCEPT ![c].phase = p]
    BY <1>1 DEF ArchiveArrives, PutRefused, RequestLost, Phases
  <2>2. PutTyped'
    BY <1>0, <2>1, AnsweredTyped
  <2>3. UNCHANGED <<remote, board, sha, unsaved, dialog, load, poll, changes>>
    BY <1>1 DEF ArchiveArrives, PutRefused, RequestLost
  <2>4. QED
    BY <1>0, <2>2, <2>3 DEF BoardTypeInv, RemoteTyped, CopiesTyped, DialogTyped, LoadTyped, PollTyped
<1>2. CASE ArchiveReturns(c)
  <2>0. /\ put[c] \in Archivings /\ board[c] \in Boards /\ sha[c] \in Nat
        /\ UNCHANGED <<remote, sha, dialog, load, poll, changes>>
    BY <1>0, <1>2, PutKinds DEF ArchiveReturns, CopiesTyped, Phases, Saving, Archiving
  <2>1. ASSUME NEW copy \in Boards, TakesCopy(c, copy)
        PROVE  CopiesTyped' /\ unsaved'[c] \in SUBSET Parts
    BY <1>0, <2>0, <2>1 DEF TakesCopy, CopiesTyped, Parts
  <2>2. CASE /\ put[c].phase = "ok" /\ dialog[c].kind = "wizard"
             /\ LET copy == Completed(board[c], put[c], dialog[c].next) IN
                  /\ TakesCopy(c, copy)
                  /\ Send(c, "tick", copy, unsaved'[c], Tick, dialog[c].next)
    <3> DEFINE copy == Completed(board[c], put[c], dialog[c].next)
    <3>1. dialog[c].next \in Nat
      BY <1>0, <2>2, DialogKinds
    <3>2. copy \in Boards
      BY <2>0, <3>1, ListedTyped
    <3>3. CopiesTyped' /\ unsaved'[c] \in SUBSET Parts
      BY <2>1, <2>2, <3>2
    <3>4. PutTyped'
      <4>1. Tick \in Parts /\ Send(c, "tick", copy, unsaved'[c], Tick, dialog[c].next)
        BY <2>2 DEF Parts
      <4> HIDE DEF copy
      <4>2. QED
        BY <1>0, <2>0, <3>1, <3>2, <3>3, <4>1, SendTyped
    <3>5. QED
      BY <1>0, <2>0, <3>3, <3>4 DEF BoardTypeInv, RemoteTyped, DialogTyped, LoadTyped, PollTyped
  <2>3. CASE /\ put[c].phase = "ok" /\ dialog[c].kind # "wizard"
             /\ TakesCopy(c, Listed(board[c], put[c]))
             /\ put' = [put EXCEPT ![c] = NoPut]
    <3>1. Listed(board[c], put[c]) \in Boards
      BY <2>0, ListedTyped
    <3>2. CopiesTyped' /\ PutTyped'
      BY <1>0, <2>1, <2>3, <3>1 DEF PutTyped
    <3>3. QED
      BY <1>0, <2>0, <3>2 DEF BoardTypeInv, RemoteTyped, DialogTyped, LoadTyped, PollTyped
  <2>4. CASE put' = [put EXCEPT ![c] = NoPut] /\ UNCHANGED <<board, unsaved>>
    <3>1. CopiesTyped' /\ PutTyped'
      BY <1>0, <2>0, <2>4 DEF PutTyped, CopiesTyped
    <3>2. QED
      BY <1>0, <2>0, <3>1 DEF BoardTypeInv, RemoteTyped, DialogTyped, LoadTyped, PollTyped
  <2>5. QED
    BY <1>2, <2>2, <2>3, <2>4 DEF ArchiveReturns
<1>3. CASE PutAccepted(c)
  <2>0. put[c] \in Saves
    BY <1>0, <1>3, PutKinds DEF PutAccepted, Phases, Saving, Archiving
  <2>1. remote.sha + 1 \in Nat /\ put[c].board \in Boards
    BY <1>0, <2>0 DEF RemoteTyped, Saves
  <2>2. RemoteTyped'
    BY <1>3, <2>1 DEF PutAccepted, RemoteTyped
  <2>3. [put[c] EXCEPT !.phase = "ok", !.base = remote.sha + 1] \in Saves
    BY <2>0, <2>1 DEF Saves, Phases
  <2>4. PutTyped'
    BY <1>0, <1>3, <2>3 DEF PutAccepted, PutTyped
  <2>5. UNCHANGED <<board, sha, unsaved, dialog, load, poll, changes>>
    BY <1>3 DEF PutAccepted
  <2>6. QED
    BY <1>0, <2>2, <2>4, <2>5 DEF BoardTypeInv, CopiesTyped, DialogTyped, LoadTyped, PollTyped
<1>4. CASE SaveReturns(c)
  <2>0. put[c] \in Saves
    BY <1>0, <1>4, PutKinds DEF SaveReturns, Phases, Saving, Archiving
  <2>1. CopiesTyped'
    BY <1>0, <1>4, <2>0 DEF SaveReturns, CopiesTyped, Saves
  <2>2. DialogTyped'
    BY <1>0, <1>4 DEF SaveReturns, DialogTyped, Dialogs
  <2>3. PutTyped'
    BY <1>0, <1>4 DEF SaveReturns, PutTyped
  <2>4. QED
    BY <1>0, <1>4, <2>1, <2>2, <2>3 DEF SaveReturns, BoardTypeInv, RemoteTyped, LoadTyped, PollTyped
<1>5. CASE SaveFails(c) \/ PollReturns(c)
  <2>1. LoadTyped'
    BY <1>0, <1>5 DEF SaveFails, PollReturns, AskLoad, LoadTyped, Loads
  <2>2. PutTyped' /\ PollTyped'
    BY <1>0, <1>5 DEF SaveFails, PollReturns, PutTyped, PollTyped
  <2>3. UNCHANGED <<remote, board, sha, unsaved, dialog, changes>>
    BY <1>5 DEF SaveFails, PollReturns
  <2>4. QED
    BY <1>0, <2>1, <2>2, <2>3 DEF BoardTypeInv, RemoteTyped, CopiesTyped, DialogTyped
<1>6. CASE PollReads(c)
  <2>1. PollTyped'
    BY <1>0, <1>6 DEF PollReads, PollTyped, RemoteTyped
  <2>2. UNCHANGED <<remote, board, sha, unsaved, dialog, put, load, changes>>
    BY <1>6 DEF PollReads
  <2>3. QED
    BY <1>0, <2>1, <2>2 DEF BoardTypeInv, RemoteTyped, CopiesTyped, DialogTyped, PutTyped, LoadTyped
<1>7. CASE LoadReads(c) \/ LoadFails(c)
  <2>1. remote.sha \in Nat /\ remote.board \in Boards
    BY <1>0 DEF RemoteTyped
  <2>2. NoLoad \in Loads /\ [phase |-> "read", sha |-> remote.sha, board |-> remote.board] \in Loads
    BY <2>1 DEF Loads
  <2>3. LoadTyped'
    BY <1>0, <1>7, <2>2 DEF LoadReads, LoadFails, LoadTyped
  <2>4. UNCHANGED <<remote, board, sha, unsaved, dialog, put, poll, changes>>
    BY <1>7 DEF LoadReads, LoadFails
  <2>5. QED
    BY <1>0, <2>3, <2>4 DEF BoardTypeInv, RemoteTyped, CopiesTyped, DialogTyped, PutTyped, PollTyped
<1>8. CASE LoadReturns(c)
  <2>0. load[c] \in [phase : {"read"}, sha : Nat, board : Boards]
    BY <1>0, <1>8, LoadKinds DEF LoadReturns
  <2>1. CopiesTyped'
    BY <1>0, <1>8, <2>0 DEF LoadReturns, CopiesTyped
  <2>2. dialog[c] # NoDialog => [dialog[c] EXCEPT !.stale = TRUE] \in Dialogs
    <3>1. \/ dialog[c] = NoDialog
          \/ dialog[c] \in [kind : {"edit"}, card : Cards, stale : BOOLEAN]
          \/ dialog[c] \in [kind : {"wizard"}, next : Nat, stale : BOOLEAN]
      BY <1>0 DEF DialogTyped, Dialogs
    <3>2. CASE dialog[c] \in [kind : {"edit"}, card : Cards, stale : BOOLEAN]
      BY <3>2 DEF Dialogs
    <3>3. CASE dialog[c] \in [kind : {"wizard"}, next : Nat, stale : BOOLEAN]
      BY <3>3 DEF Dialogs
    <3>4. QED
      BY <3>1, <3>2, <3>3
  <2>3. DialogTyped'
    BY <1>0, <1>8, <2>2 DEF LoadReturns, DialogTyped
  <2>4. LoadTyped'
    BY <1>0, <1>8 DEF LoadReturns, LoadTyped, Loads
  <2>5. QED
    BY <1>0, <1>8, <2>1, <2>3, <2>4 DEF LoadReturns, BoardTypeInv, RemoteTyped, PutTyped, PollTyped
<1>9. QED
  BY <1>1, <1>2, <1>3, <1>4, <1>5, <1>6, <1>7, <1>8 DEF PutStep, PollStep

LEMMA NextBoardTypes == BoardTypeInv /\ [Next]_vars => BoardTypeInv'
<1>1. BoardTypeInv /\ Next => BoardTypeInv'
  BY UserTypes, ServerTypes DEF Next
<1>2. BoardTypeInv /\ UNCHANGED vars => BoardTypeInv'
  BY DEF vars, BoardTypeInv, RemoteTyped, CopiesTyped, DialogTyped, PutTyped, LoadTyped, PollTyped
<1>3. QED
  BY <1>1, <1>2

\* Every copy of the board, dialog and request has its shape.
THEOREM BoardTypes == Spec => []BoardTypeInv
<1>1. Init => BoardTypeInv
  BY InitBoardTypes
<1>2. BoardTypeInv /\ [Next]_vars => BoardTypeInv'
  BY NextBoardTypes
<1>3. QED
  BY <1>1, <1>2, PTL DEF Spec

LEMMA RemoteByAccept ==
  ASSUME NEW d \in Clients,
         UserStep(d) \/ PutStep(d) \/ PollStep(d) \/ RequestLost(d) \/ LoadFails(d)
  PROVE  remote' = remote \/ PutAccepted(d)
  BY DEF UserStep, PutStep, PollStep, Drop, OpenEditor, AddCard, SaveEdit,
       DeleteCard, CloseDialog, OpenCompleteTickWizard, TypeNextTick, DoCompleteTick, ReloadBoard, Bootstrap,
       ArchiveArrives, ArchiveReturns, PutRefused, SaveReturns, SaveFails,
       PollReads, PollReturns, LoadReads, LoadReturns, RequestLost, LoadFails

\* A step of d changes the state of no other client, and the board of the
\* repository only by a PUT that is accepted.
LEMMA OthersUntouched ==
  ASSUME NEW d \in Clients, NEW c \in Clients, c # d, BoardTypeInv,
         UserStep(d) \/ PutStep(d) \/ PollStep(d) \/ RequestLost(d) \/ LoadFails(d)
  PROVE  /\ board'[c] = board[c] /\ sha'[c] = sha[c] /\ unsaved'[c] = unsaved[c]
         /\ put'[c] = put[c] /\ load'[c] = load[c] /\ poll'[c] = poll[c]
         /\ remote' = remote \/ PutAccepted(d)
<1>0. CopiesTyped /\ PutTyped /\ LoadTyped /\ PollTyped
  BY DEF BoardTypeInv
<1>1. board'[c] = board[c] /\ unsaved'[c] = unsaved[c]
  BY <1>0 DEF CopiesTyped, UserStep, PutStep, PollStep, Drop, OpenEditor, AddCard, SaveEdit,
       DeleteCard, CloseDialog, OpenCompleteTickWizard, TypeNextTick, DoCompleteTick, ReloadBoard, Bootstrap,
       ArchiveArrives, ArchiveReturns, PutAccepted, PutRefused, SaveReturns, SaveFails,
       PollReads, PollReturns, LoadReads, LoadReturns, RequestLost, LoadFails, ChangeCard, TakesCopy
<1>2. sha'[c] = sha[c] /\ poll'[c] = poll[c]
  BY <1>0 DEF CopiesTyped, PollTyped, UserStep, PutStep, PollStep, Drop, OpenEditor, AddCard,
       SaveEdit, DeleteCard, CloseDialog, OpenCompleteTickWizard, TypeNextTick, DoCompleteTick, ReloadBoard,
       Bootstrap, ArchiveArrives, ArchiveReturns, PutAccepted, PutRefused, SaveReturns, SaveFails,
       PollReads, PollReturns, LoadReads, LoadReturns, RequestLost, LoadFails
<1>3. put'[c] = put[c]
  BY <1>0 DEF PutTyped, UserStep, PutStep, PollStep, Drop, OpenEditor, AddCard, SaveEdit,
       DeleteCard, CloseDialog, OpenCompleteTickWizard, TypeNextTick, DoCompleteTick, ReloadBoard, Bootstrap,
       ArchiveArrives, ArchiveReturns, PutAccepted, PutRefused, SaveReturns, SaveFails,
       PollReads, PollReturns, LoadReads, LoadReturns, RequestLost, LoadFails, ChangeCard, Send
<1>4. load'[c] = load[c]
  BY <1>0 DEF LoadTyped, UserStep, PutStep, PollStep, Drop, OpenEditor, AddCard, SaveEdit,
       DeleteCard, CloseDialog, OpenCompleteTickWizard, TypeNextTick, DoCompleteTick, ReloadBoard, Bootstrap,
       ArchiveArrives, ArchiveReturns, PutAccepted, PutRefused, SaveReturns, SaveFails,
       PollReads, PollReturns, LoadReads, LoadReturns, RequestLost, LoadFails, AskLoad
<1>5. remote' = remote \/ PutAccepted(d)
  BY RemoteByAccept
<1>6. QED
  BY <1>1, <1>2, <1>3, <1>4, <1>5

LEMMA DialogUntouched ==
  ASSUME NEW d \in Clients, NEW c \in Clients, c # d, BoardTypeInv,
         UserStep(d) \/ PutStep(d) \/ PollStep(d) \/ RequestLost(d) \/ LoadFails(d)
  PROVE  dialog'[c] = dialog[c]
  BY DEF BoardTypeInv, DialogTyped, UserStep, PutStep, PollStep, Drop, OpenEditor, AddCard,
       SaveEdit, DeleteCard, CloseDialog, OpenCompleteTickWizard, TypeNextTick, DoCompleteTick, ReloadBoard,
       Bootstrap, ArchiveArrives, ArchiveReturns, PutAccepted, PutRefused, SaveReturns, SaveFails,
       PollReads, PollReturns, LoadReads, LoadReturns, RequestLost, LoadFails

\* Only an accepted PUT of the client itself makes a commit.
LEMMA CommitIsAccept ==
  ASSUME BoardTypeInv, [Next]_vars, NEW c \in Clients, Committed(c)
  PROVE  PutAccepted(c)
<1>0. put[c] # put'[c] /\ put[c].kind # "archive" /\ put[c].phase = "sent" /\ put'[c].phase = "ok" /\ PutTyped
  BY DEF Committed, BoardTypeInv
<1>1. PICK d \in Clients :
        UserStep(d) \/ PutStep(d) \/ PollStep(d) \/ RequestLost(d) \/ LoadFails(d)
  BY <1>0 DEF Next, vars
<1>2. c = d
  BY <1>0, <1>1, OthersUntouched
<1>3. put[c] # NoPut
  BY <1>0 DEF NoPut
<1>4. CASE UserStep(c)
  <2>1. ~MaySend(c)
    BY <1>3 DEF MaySend
  <2>2. put' = put \/ Bootstrap(c)
    BY <1>4, <2>1 DEF UserStep, Drop, OpenEditor, AddCard, SaveEdit, DeleteCard, CloseDialog,
         OpenCompleteTickWizard, TypeNextTick, DoCompleteTick, ReloadBoard
  <2>3. put'[c] = put[c] \/ put'[c] = NoPut
    BY <1>0, <2>2 DEF Bootstrap, PutTyped
  <2>4. QED
    BY <1>0, <2>3 DEF NoPut
<1>5. CASE PollStep(c) \/ LoadFails(c)
  BY <1>0, <1>5 DEF PollStep, PollReads, PollReturns, LoadReads, LoadReturns, LoadFails
<1>6. CASE PutRefused(c) \/ RequestLost(c)
  <2>1. put'[c] = [put[c] EXCEPT !.phase = "failed"]
    BY <1>0, <1>6 DEF PutRefused, RequestLost, PutTyped
  <2>2. put[c] \in Saves \union Archivings
    BY <1>0, <1>3 DEF PutTyped
  <2>3. put'[c].phase = "failed"
    BY <2>1, <2>2 DEF Saves, Archivings
  <2>4. QED
    BY <1>0, <2>3
<1>7. CASE PutStep(c)
  <2>1. PutRefused(c) \/ PutAccepted(c)
    BY <1>0, <1>7 DEF PutStep, ArchiveArrives, ArchiveReturns, SaveReturns, SaveFails
  <2>2. QED
    BY <1>6, <2>1
<1>8. QED
  BY <1>1, <1>2, <1>4, <1>5, <1>6, <1>7

-----------------------------------------------------------------------------
(* Saves.  A copy under the current sha is the current board but for the      *)
(* parts the client has changed; a reload that could bring an older board     *)
(* under a newer sha is asked only by a client that is behind, and the PUT of *)
(* such a client is refused.                                                  *)

CopyInv(c) ==
  /\ sha[c] <= remote.sha
  /\ poll[c] # NoSha => sha[c] < remote.sha
  /\ sha[c] = remote.sha =>
       \A part \in Parts \ unsaved[c] : PartOf(board[c], part) = PartOf(remote.board, part)

LoadInv(c) ==
  /\ load[c].phase = "read" => /\ load[c].sha <= remote.sha
                               /\ load[c].sha = remote.sha => load[c].board = remote.board
  /\ Archiving(c) /\ load[c] # NoLoad => sha[c] < remote.sha

SentInv(c) ==
  Saving(c) /\ put[c].phase = "sent" =>
    /\ put[c].base <= remote.sha
    /\ put[c].base = remote.sha =>
         /\ load[c] = NoLoad /\ sha[c] = remote.sha /\ put[c].board = board[c]
         /\ \A part \in Parts \ put[c].what :
              PartOf(put[c].board, part) = PartOf(remote.board, part)

OkInv(c) ==
  Saving(c) /\ put[c].phase = "ok" =>
    /\ put[c].base <= remote.sha
    /\ put[c].base = remote.sha => board[c] = remote.board
    /\ load[c].phase = "read" => put[c].base <= load[c].sha

ClientInv(c) == CopyInv(c) /\ LoadInv(c) /\ SentInv(c) /\ OkInv(c)
SaveInv == \A c \in Clients : ClientInv(c)

\* A step of another client that leaves the board of the repository alone
\* touches nothing of c.
LEMMA OthersKeep ==
  ASSUME NEW c \in Clients, ClientInv(c), remote' = remote,
         board'[c] = board[c], sha'[c] = sha[c], unsaved'[c] = unsaved[c],
         put'[c] = put[c], load'[c] = load[c], poll'[c] = poll[c]
  PROVE  ClientInv(c)'
  BY DEF ClientInv, CopyInv, LoadInv, SentInv, OkInv, Saving, Archiving

\* After a new version every other client is behind.
LEMMA OthersFallBehind ==
  ASSUME BoardTypeInv, NEW c \in Clients, ClientInv(c), remote'.sha = remote.sha + 1,
         board'[c] = board[c], sha'[c] = sha[c], unsaved'[c] = unsaved[c],
         put'[c] = put[c], load'[c] = load[c], poll'[c] = poll[c]
  PROVE  ClientInv(c)'
<1>0. remote.sha \in Nat /\ sha[c] \in Nat /\ PutTyped /\ LoadTyped
  BY DEF BoardTypeInv, RemoteTyped, CopiesTyped
<1>1. Saving(c) => put[c].base \in Nat
  BY DEF Saving, Saves
<1>2. load[c].phase = "read" => load[c].sha \in Nat
  BY <1>0, LoadKinds
<1>3. CopyInv(c)'
  BY <1>0 DEF ClientInv, CopyInv
<1>4. LoadInv(c)'
  BY <1>0, <1>2 DEF ClientInv, LoadInv, Archiving
<1>5. SentInv(c)' /\ OkInv(c)'
  BY <1>0, <1>1 DEF ClientInv, SentInv, OkInv, Saving
<1>6. QED
  BY <1>3, <1>4, <1>5 DEF ClientInv

\* A save sent while no reload is under way, or by a client that is behind.
LEMMA SendKeeps ==
  ASSUME BoardTypeInv, NEW c \in Clients, ClientInv(c),
         NEW k \in {"drop", "edit", "delete", "tick"}, NEW b \in Boards, NEW part \in Parts,
         NEW v \in Nat, UNCHANGED <<remote, sha, load, poll>>,
         Send(c, k, b, unsaved'[c], part, v),
         board'[c] = b, unsaved'[c] \in SUBSET Parts, unsaved[c] \subseteq unsaved'[c],
         \A q \in Parts \ unsaved'[c] : PartOf(b, q) = PartOf(board[c], q),
         load[c] = NoLoad \/ sha[c] < remote.sha
  PROVE  ClientInv(c)'
<1>0. remote.sha \in Nat /\ sha[c] \in Nat /\ PutTyped
  BY DEF BoardTypeInv, RemoteTyped, CopiesTyped
<1>1. put'[c] = [phase |-> "sent", kind |-> k, base |-> sha[c], board |-> b,
                 what |-> unsaved'[c], part |-> part, value |-> v]
  BY <1>0 DEF Send, PutTyped
<1>2. ~Archiving(c)'
  BY <1>1 DEF Archiving, Archivings
<1>3. \A q \in Parts \ unsaved'[c] : sha[c] = remote.sha => PartOf(b, q) = PartOf(remote.board, q)
  BY DEF ClientInv, CopyInv
<1>4. CopyInv(c)'
  <2>1. sha'[c] <= remote'.sha /\ (poll'[c] # NoSha => sha'[c] < remote'.sha)
    BY DEF ClientInv, CopyInv
  <2>2. ASSUME sha'[c] = remote'.sha, NEW q \in Parts \ unsaved'[c]
        PROVE  PartOf(board'[c], q) = PartOf(remote'.board, q)
    BY <1>3, <2>2
  <2>3. QED
    BY <2>1, <2>2 DEF CopyInv
<1>5. LoadInv(c)'
  BY <1>2 DEF ClientInv, LoadInv
<1>6. SentInv(c)'
  <2>1. put'[c].base = sha[c] /\ put'[c].board = b /\ put'[c].what = unsaved'[c]
    BY <1>1
  <2>2. sha[c] <= remote.sha
    BY DEF ClientInv, CopyInv
  <2>3. sha[c] = remote.sha => load[c] = NoLoad
    BY <1>0
  <2>4. ASSUME sha[c] = remote.sha, NEW q \in Parts \ put'[c].what
        PROVE  PartOf(put'[c].board, q) = PartOf(remote'.board, q)
    BY <1>3, <2>1, <2>4
  <2>5. QED
    BY <2>1, <2>2, <2>3, <2>4 DEF SentInv
<1>7. OkInv(c)'
  BY <1>1 DEF OkInv
<1>8. QED
  BY <1>4, <1>5, <1>6, <1>7 DEF ClientInv

\* Nothing is asked of a client whose PUT is over.
LEMMA NoPutKeeps ==
  ASSUME NEW c \in Clients, CopyInv(c)', put'[c] = NoPut,
         load'[c].phase = "read" => /\ load'[c].sha <= remote'.sha
                                    /\ load'[c].sha = remote'.sha => load'[c].board = remote'.board
  PROVE  ClientInv(c)'
  BY DEF ClientInv, LoadInv, SentInv, OkInv, NoPut, Saving, Saves, Archiving, Archivings

\* The change of a card touches that card only.
LEMMA ChangeKeeps ==
  ASSUME BoardTypeInv, NEW c \in Clients, ClientInv(c), NEW x \in Cards,
         NEW k \in {"drop", "edit", "delete"}, ChangeCard(c, x, k),
         UNCHANGED <<remote, sha, load, poll>>, load[c] = NoLoad
  PROVE  ClientInv(c)'
<1> DEFINE b == [board[c] EXCEPT !.cards[x] = changes + 1]
<1>0. board[c] \in Boards /\ unsaved[c] \in SUBSET Parts /\ changes + 1 \in Nat
      /\ board \in [Clients -> Boards] /\ unsaved \in [Clients -> SUBSET Parts]
  BY DEF BoardTypeInv, CopiesTyped
<1>1. b \in Boards
  BY <1>0 DEF Boards
<1>2. board'[c] = b /\ unsaved'[c] = unsaved[c] \union {x}
      /\ Send(c, k, b, unsaved'[c], x, changes + 1)
  BY <1>0 DEF ChangeCard
<1>3. x \in Parts /\ unsaved'[c] \in SUBSET Parts
  BY <1>0, <1>2 DEF Parts
<1>4. ASSUME NEW q \in Parts \ unsaved'[c] PROVE PartOf(b, q) = PartOf(board[c], q)
  <2>1. q # x
    BY <1>2, <1>4
  <2>2. b.tick = board[c].tick /\ b.archived = board[c].archived
    BY <1>0 DEF Boards
  <2>3. q \in Cards => b.cards[q] = board[c].cards[q]
    BY <1>0, <2>1 DEF Boards
  <2>4. QED
    BY <2>2, <2>3, <1>4 DEF PartOf, Parts
<1>5. \A q \in Parts \ unsaved'[c] : PartOf(b, q) = PartOf(board[c], q)
  BY <1>4
<1>6. k \in {"drop", "edit", "delete", "tick"} /\ unsaved[c] \subseteq unsaved'[c]
  BY <1>2
<1> HIDE DEF b
<1>7. QED
  BY <1>0, <1>1, <1>2, <1>3, <1>5, <1>6, SendKeeps

LEMMA UserKeeps ==
  ASSUME BoardTypeInv, NEW c \in Clients, ClientInv(c), UserStep(c), Careful, PromptPolls
  PROVE  ClientInv(c)'
<1>0. RemoteTyped /\ CopiesTyped /\ DialogTyped /\ PutTyped /\ LoadTyped /\ PollTyped
  BY DEF BoardTypeInv
<1>1. ASSUME NEW x \in Cards, Drop(c, x) \/ AddCard(c, x) PROVE ClientInv(c)'
  <2>1. \E k \in {"drop", "edit"} : ChangeCard(c, x, k)
    BY <1>1 DEF Drop, AddCard
  <2>2. UNCHANGED <<remote, sha, load, poll>> /\ load[c] = NoLoad
    BY <1>1 DEF Drop, AddCard, MaySend
  <2>3. QED
    BY <2>1, <2>2, ChangeKeeps
<1>2. CASE SaveEdit(c)
  <2>1. dialog[c].card \in Cards /\ ChangeCard(c, dialog[c].card, "edit")
    BY <1>0, <1>2, DialogKinds DEF SaveEdit
  <2>2. UNCHANGED <<remote, sha, load, poll>> /\ load[c] = NoLoad
    BY <1>2 DEF SaveEdit, MaySend
  <2>3. QED
    BY <2>1, <2>2, ChangeKeeps
<1>3. CASE DeleteCard(c)
  <2>1. dialog[c].card \in Cards /\ ChangeCard(c, dialog[c].card, "delete")
    BY <1>0, <1>3, DialogKinds DEF DeleteCard
  <2>2. UNCHANGED <<remote, sha, load, poll>> /\ load[c] = NoLoad
    BY <1>3 DEF DeleteCard, MaySend
  <2>3. QED
    BY <2>1, <2>2, ChangeKeeps
<1>4. ASSUME \/ \E x \in Cards : OpenEditor(c, x)
             \/ CloseDialog(c) \/ OpenCompleteTickWizard(c) \/ (\E n \in TickIds : TypeNextTick(c, n))
      PROVE  ClientInv(c)'
  <2>1. UNCHANGED <<remote, board, sha, unsaved, put, load, poll>>
    BY <1>4 DEF OpenEditor, CloseDialog, OpenCompleteTickWizard, TypeNextTick
  <2>2. QED
    BY <2>1, OthersKeep
<1>5. CASE DoCompleteTick(c)
  <2>1. load[c] = NoLoad /\ UNCHANGED <<remote, board, sha, unsaved, load, poll>>
    BY <1>5 DEF DoCompleteTick, MaySend
  <2>2. put'[c] = [phase |-> "sent", kind |-> "archive", tick |-> board[c].tick,
                   file |-> NextArchiveNumber(board[c])]
    BY <1>0, <1>5 DEF DoCompleteTick, PutTyped
  <2>3. ~Saving(c)'
    BY <2>2 DEF Saving, Saves
  <2>4. CopyInv(c)' /\ SentInv(c)' /\ OkInv(c)'
    BY <2>1, <2>3 DEF ClientInv, CopyInv, SentInv, OkInv
  <2>5. LoadInv(c)'
    BY <1>0, <2>1, LoadKinds DEF LoadInv
  <2>6. QED
    BY <2>4, <2>5 DEF ClientInv
<1>6. CASE ReloadBoard(c)
  <2>1. put'[c] = NoPut /\ UNCHANGED <<remote, board, sha, unsaved, put, poll>>
    BY <1>6 DEF ReloadBoard
  <2>2. load'[c] = [phase |-> "asked"]
    BY <1>0, <1>6 DEF ReloadBoard, AskLoad, LoadTyped
  <2>3. CopyInv(c)'
    BY <2>1 DEF ClientInv, CopyInv
  <2>4. QED
    BY <2>1, <2>2, <2>3, NoPutKeeps
<1>7. CASE Bootstrap(c)
  <2>1. /\ remote' = remote /\ board'[c] = remote.board /\ sha'[c] = remote.sha
        /\ unsaved'[c] = {} /\ put'[c] = NoPut /\ load'[c] = NoLoad /\ poll'[c] = NoSha
    BY <1>0, <1>7 DEF Bootstrap, CopiesTyped, PutTyped, LoadTyped, PollTyped
  <2>2. CopyInv(c)'
    BY <1>0, <2>1 DEF CopyInv, RemoteTyped
  <2>3. QED
    BY <1>0, <2>1, <2>2, NoPutKeeps, LoadKinds
<1>8. QED
  BY <1>1, <1>2, <1>3, <1>4, <1>5, <1>6, <1>7 DEF UserStep

\* The steps of a request or a poll of the client itself.
LEMMA ServerKeeps ==
  ASSUME BoardTypeInv, NEW c \in Clients, ClientInv(c), PromptPolls,
         PutStep(c) \/ PollStep(c) \/ RequestLost(c) \/ LoadFails(c)
  PROVE  ClientInv(c)'
<1>0. RemoteTyped /\ CopiesTyped /\ DialogTyped /\ PutTyped /\ LoadTyped /\ PollTyped
  BY DEF BoardTypeInv
<1>00. /\ CopyInv(c) /\ LoadInv(c) /\ SentInv(c) /\ OkInv(c)
       /\ remote.sha \in Nat /\ sha[c] \in Nat /\ poll[c] \in Nat \union {NoSha}
  BY <1>0 DEF ClientInv, RemoteTyped, CopiesTyped, PollTyped
<1>1. CASE ArchiveArrives(c)
  <2>1. put[c].kind = "archive" /\ UNCHANGED <<remote, board, sha, unsaved, load, poll>>
        /\ put[c].phase \in Phases
    BY <1>1 DEF ArchiveArrives, Phases
  <2>2. PICK p \in Phases : put' = [put EXCEPT ![c].phase = p]
    BY <1>1 DEF ArchiveArrives, Phases
  <2>3. Archiving(c) /\ put'[c] \in Archivings
    BY <1>0, <2>1, <2>2, PutKinds DEF PutTyped, Archiving, Archivings
  <2>4. ~Saving(c)'
    BY <2>3 DEF Saving, Saves, Archivings
  <2>5. CopyInv(c)' /\ SentInv(c)' /\ OkInv(c)'
    BY <1>00, <2>1, <2>4 DEF CopyInv, SentInv, OkInv
  <2>6. LoadInv(c)'
    BY <1>00, <2>1, <2>3 DEF LoadInv
  <2>7. QED
    BY <2>5, <2>6 DEF ClientInv
<1>2. CASE PutRefused(c) \/ RequestLost(c)
  <2>1. UNCHANGED <<remote, board, sha, unsaved, load, poll>> /\ put[c].phase \in Phases
        /\ put' = [put EXCEPT ![c].phase = "failed"]
    BY <1>2 DEF PutRefused, RequestLost, Phases
  <2>2. put'[c].phase = "failed" /\ (Archiving(c)' => Archiving(c))
    BY <1>0, <2>1, PutKinds DEF PutTyped, Archiving, Archivings, Saving, Saves
  <2>3. CopyInv(c)' /\ SentInv(c)' /\ OkInv(c)'
    BY <1>00, <2>1, <2>2 DEF CopyInv, SentInv, OkInv
  <2>4. LoadInv(c)'
    BY <1>00, <2>1, <2>2 DEF LoadInv
  <2>5. QED
    BY <2>3, <2>4 DEF ClientInv
<1>3. CASE ArchiveReturns(c)
  <2>0. /\ put[c] \in Archivings /\ board[c] \in Boards /\ unsaved[c] \in SUBSET Parts
        /\ UNCHANGED <<remote, sha, load, poll>>
    BY <1>0, <1>3, PutKinds DEF ArchiveReturns, CopiesTyped, Phases, Saving, Archiving
  <2>1. load[c] = NoLoad \/ sha[c] < remote.sha
    BY <1>00, <2>0 DEF LoadInv, Archiving
  <2>2. ASSUME NEW copy \in Boards, TakesCopy(c, copy), copy.cards = board[c].cards
        PROVE  /\ board'[c] = copy /\ unsaved'[c] = unsaved[c] \union {Tick}
               /\ \A q \in Parts \ unsaved'[c] : PartOf(copy, q) = PartOf(board[c], q)
    BY <1>0, <2>2 DEF TakesCopy, CopiesTyped, PartOf, Parts
  <2>3. CASE /\ put[c].phase = "ok" /\ dialog[c].kind = "wizard"
             /\ LET copy == Completed(board[c], put[c], dialog[c].next) IN
                  /\ TakesCopy(c, copy)
                  /\ Send(c, "tick", copy, unsaved'[c], Tick, dialog[c].next)
    <3> DEFINE copy == Completed(board[c], put[c], dialog[c].next)
    <3>1. dialog[c].next \in Nat
      BY <1>0, <2>3, DialogKinds
    <3>2. copy \in Boards /\ copy.cards = board[c].cards
      BY <2>0, <3>1, ListedTyped
    <3>3. /\ TakesCopy(c, copy)
          /\ Send(c, "tick", copy, unsaved'[c], Tick, dialog[c].next)
      BY <2>3
    <3> HIDE DEF copy
    <3>4. /\ board'[c] = copy /\ unsaved'[c] = unsaved[c] \union {Tick}
          /\ \A q \in Parts \ unsaved'[c] : PartOf(copy, q) = PartOf(board[c], q)
      BY <2>2, <3>2, <3>3
    <3>5. Tick \in Parts /\ unsaved'[c] \in SUBSET Parts /\ unsaved[c] \subseteq unsaved'[c]
      BY <2>0, <3>4 DEF Parts
    <3>6. QED
      BY <2>0, <2>1, <3>1, <3>2, <3>3, <3>4, <3>5, SendKeeps
  <2>4. ASSUME put'[c] = NoPut, board'[c] = board[c] \/ TakesCopy(c, Listed(board[c], put[c])),
               board'[c] = board[c] => unsaved'[c] = unsaved[c] \/ TakesCopy(c, Listed(board[c], put[c]))
        PROVE  ClientInv(c)'
    <3>1. CASE board'[c] = board[c] /\ unsaved'[c] = unsaved[c]
      BY <1>00, <2>0, <2>4, <3>1, NoPutKeeps DEF CopyInv, LoadInv
    <3>2. CASE TakesCopy(c, Listed(board[c], put[c]))
      <4>1. Listed(board[c], put[c]) \in Boards /\ Listed(board[c], put[c]).cards = board[c].cards
        BY <2>0, ListedTyped
      <4>2. unsaved'[c] = unsaved[c] \union {Tick}
            /\ \A q \in Parts \ unsaved'[c] : PartOf(board'[c], q) = PartOf(board[c], q)
        BY <2>2, <3>2, <4>1
      <4>3. CopyInv(c)'
        BY <1>00, <2>0, <4>2 DEF CopyInv
      <4>4. QED
        BY <1>00, <2>0, <2>4, <4>3, NoPutKeeps DEF LoadInv
    <3>3. QED
      BY <2>4, <3>1, <3>2
  <2>5. CASE /\ TakesCopy(c, Listed(board[c], put[c]))
             /\ put' = [put EXCEPT ![c] = NoPut]
    BY <1>0, <2>4, <2>5 DEF PutTyped
  <2>6. CASE put' = [put EXCEPT ![c] = NoPut] /\ UNCHANGED <<board, unsaved>>
    BY <1>0, <2>4, <2>6 DEF PutTyped
  <2>7. QED
    BY <1>3, <2>3, <2>5, <2>6 DEF ArchiveReturns
<1>4. CASE PutAccepted(c)
  <2>0. /\ put[c] \in Saves /\ put[c].phase = "sent" /\ put[c].base = remote.sha
        /\ UNCHANGED <<board, sha, unsaved, load, poll>>
    BY <1>0, <1>4, PutKinds DEF PutAccepted, Phases, Saving, Archiving
  <2>1. load[c] = NoLoad /\ put[c].board = board[c]
    BY <1>00, <2>0 DEF SentInv, Saving
  <2>2. remote'.sha = remote.sha + 1 /\ remote'.board = put[c].board
    BY <1>4 DEF PutAccepted
  <2>3. put'[c] = [put[c] EXCEPT !.phase = "ok", !.base = remote.sha + 1]
    BY <1>0, <1>4 DEF PutAccepted, PutTyped
  <2>4. put'[c] \in Saves /\ put'[c].phase = "ok" /\ put'[c].base = remote'.sha
    <3>1. ASSUME NEW s \in Saves, NEW n \in Nat
          PROVE  /\ [s EXCEPT !.phase = "ok", !.base = n] \in Saves
                 /\ [s EXCEPT !.phase = "ok", !.base = n].phase = "ok"
                 /\ [s EXCEPT !.phase = "ok", !.base = n].base = n
      BY DEF Saves, Phases
    <3>2. remote.sha + 1 \in Nat
      BY <1>00
    <3> DEFINE t == [put[c] EXCEPT !.phase = "ok", !.base = remote.sha + 1]
    <3>3. t \in Saves /\ t.phase = "ok" /\ t.base = remote.sha + 1
      BY <2>0, <3>1, <3>2
    <3> HIDE DEF t
    <3>4. put'[c] = t
      BY <2>3 DEF t
    <3>5. QED
      BY <2>2, <3>3, <3>4
  <2>5. CopyInv(c)'
    BY <1>00, <2>0, <2>2 DEF CopyInv
  <2>6. LoadInv(c)'
    BY <2>0, <2>1, <1>0, LoadKinds DEF LoadInv
  <2>7. SentInv(c)' /\ OkInv(c)'
    BY <1>0, <1>00, <2>0, <2>1, <2>2, <2>4, LoadKinds DEF SentInv, OkInv
  <2>8. QED
    BY <2>5, <2>6, <2>7 DEF ClientInv
<1>5. CASE SaveReturns(c)
  <2>0. put[c] \in Saves /\ put[c].phase = "ok" /\ poll[c] = NoSha
        /\ UNCHANGED <<remote, board, load, poll>>
    BY <1>0, <1>5, PutKinds DEF SaveReturns, PollHandled, Phases, Saving, Archiving
  <2>1. sha'[c] = put[c].base /\ unsaved'[c] = {} /\ put'[c] = NoPut
    BY <1>0, <1>5 DEF SaveReturns, CopiesTyped, PutTyped
  <2>2. put[c].base <= remote.sha /\ (put[c].base = remote.sha => board[c] = remote.board)
    BY <1>00, <2>0 DEF OkInv, Saving
  <2>3. CopyInv(c)'
    BY <2>0, <2>1, <2>2 DEF CopyInv
  <2>4. QED
    BY <1>00, <2>0, <2>1, <2>3, NoPutKeeps DEF LoadInv
<1>6. CASE SaveFails(c)
  <2>1. put'[c] = NoPut /\ UNCHANGED <<remote, board, sha, unsaved, poll>>
    BY <1>0, <1>6 DEF SaveFails, PutTyped
  <2>2. load'[c] = load[c] \/ load'[c] = [phase |-> "asked"]
    BY <1>0, <1>6 DEF SaveFails, AskLoad, LoadTyped
  <2>3. CopyInv(c)'
    BY <1>00, <2>1 DEF CopyInv
  <2>4. load'[c].phase = "read" => load'[c] = load[c]
    BY <2>2
  <2>5. QED
    BY <1>00, <2>1, <2>3, <2>4, NoPutKeeps DEF LoadInv
<1>7. CASE PollReads(c)
  <2>1. sha[c] < remote.sha /\ UNCHANGED <<remote, board, sha, unsaved, put, load>>
    BY <1>7, <1>00 DEF PollReads, CopyInv
  <2>2. CopyInv(c)'
    BY <1>00, <2>1 DEF CopyInv
  <2>3. LoadInv(c)' /\ SentInv(c)' /\ OkInv(c)'
    BY <1>00, <2>1 DEF LoadInv, SentInv, OkInv, Saving, Archiving
  <2>4. QED
    BY <2>2, <2>3 DEF ClientInv
<1>8. CASE PollReturns(c)
  <2>1. sha[c] < remote.sha /\ UNCHANGED <<remote, board, sha, unsaved, put>> /\ poll'[c] = NoSha
    BY <1>0, <1>8, <1>00 DEF PollReturns, CopyInv, PollTyped
  <2>2. load'[c] = load[c] \/ load'[c] = [phase |-> "asked"]
    BY <1>0, <1>8 DEF PollReturns, AskLoad, LoadTyped
  <2>3. load'[c].phase = "read" => load'[c] = load[c]
    BY <2>2
  <2>4. CopyInv(c)'
    BY <1>00, <2>1 DEF CopyInv
  <2>5. LoadInv(c)'
    BY <1>00, <2>1, <2>3 DEF LoadInv
  <2>6. SentInv(c)' /\ OkInv(c)'
    <3>1. Saving(c)' = Saving(c)
      BY <2>1 DEF Saving
    <3>2. Saving(c) /\ put[c].phase = "sent" => put[c].base <= remote.sha /\ put[c].base # remote.sha
      BY <1>00, <2>1 DEF SentInv
    <3>3. QED
      BY <1>00, <2>1, <2>3, <3>1, <3>2 DEF SentInv, OkInv
  <2>7. QED
    BY <2>4, <2>5, <2>6 DEF ClientInv
<1>9. CASE LoadReads(c)
  <2>1. load[c].phase = "asked" /\ UNCHANGED <<remote, board, sha, unsaved, put, poll>>
    BY <1>9 DEF LoadReads
  <2>2. load'[c] = [phase |-> "read", sha |-> remote.sha, board |-> remote.board]
    BY <1>0, <1>9 DEF LoadReads, LoadTyped
  <2>3. load[c] # NoLoad
    BY <2>1 DEF NoLoad
  <2>4. Saving(c)' = Saving(c) /\ Archiving(c)' = Archiving(c)
    BY <2>1 DEF Saving, Archiving
  <2>5. CopyInv(c)'
    BY <1>00, <2>1 DEF CopyInv
  <2>6. LoadInv(c)'
    BY <1>00, <2>1, <2>2, <2>3, <2>4 DEF LoadInv
  <2>7. SentInv(c)' /\ OkInv(c)'
    BY <1>00, <2>1, <2>2, <2>3, <2>4 DEF SentInv, OkInv
  <2>8. QED
    BY <2>5, <2>6, <2>7 DEF ClientInv
<1>10. CASE LoadReturns(c)
  <2>1. load[c].phase = "read" /\ poll[c] = NoSha /\ UNCHANGED <<remote, put, poll>>
    BY <1>10 DEF LoadReturns, PollHandled
  <2>2. /\ board'[c] = load[c].board /\ sha'[c] = load[c].sha /\ unsaved'[c] = {}
        /\ load'[c] = NoLoad
    BY <1>0, <1>10 DEF LoadReturns, CopiesTyped, LoadTyped
  <2>3. /\ load[c] # NoLoad /\ load[c].sha \in Nat /\ load[c].sha <= remote.sha
        /\ load[c].sha = remote.sha => load[c].board = remote.board
    BY <1>0, <1>00, <2>1, LoadKinds DEF LoadInv
  <2>4. Saving(c)' = Saving(c) /\ (Saving(c) => put[c].base \in Nat)
    BY <2>1 DEF Saving, Saves
  <2>5. CopyInv(c)'
    BY <2>1, <2>2, <2>3 DEF CopyInv
  <2>6. LoadInv(c)'
    BY <1>0, <2>2, LoadKinds DEF LoadInv
  <2>7. SentInv(c)'
    BY <1>00, <2>1, <2>3, <2>4 DEF SentInv
  <2>8. OkInv(c)'
    <3>1. ASSUME Saving(c), put[c].phase = "ok"
          PROVE  /\ put[c].base <= remote.sha
                 /\ put[c].base = remote.sha => load[c].board = remote.board
      <4>1. put[c].base <= remote.sha /\ put[c].base <= load[c].sha
        BY <1>00, <2>1, <3>1 DEF OkInv
      <4>2. put[c].base = remote.sha => load[c].sha = remote.sha
        BY <1>00, <2>3, <2>4, <3>1, <4>1
      <4>3. QED
        BY <2>3, <4>1, <4>2
    <3>2. load'[c].phase # "read"
      BY <1>0, <2>2, LoadKinds
    <3>3. QED
      BY <2>1, <2>2, <2>4, <3>1, <3>2 DEF OkInv
  <2>9. QED
    BY <2>5, <2>6, <2>7, <2>8 DEF ClientInv
<1>11. CASE LoadFails(c)
  <2>1. load'[c] = NoLoad /\ UNCHANGED <<remote, board, sha, unsaved, put, poll>>
    BY <1>0, <1>11 DEF LoadFails, LoadTyped
  <2>2. load'[c].phase # "read"
    BY <1>0, <2>1, LoadKinds
  <2>3. Saving(c)' = Saving(c)
    BY <2>1 DEF Saving
  <2>4. CopyInv(c)' /\ LoadInv(c)'
    BY <1>00, <2>1, <2>2 DEF CopyInv, LoadInv
  <2>5. SentInv(c)' /\ OkInv(c)'
    BY <1>00, <2>1, <2>2, <2>3 DEF SentInv, OkInv
  <2>6. QED
    BY <2>4, <2>5 DEF ClientInv
<1>12. QED
  BY <1>1, <1>2, <1>3, <1>4, <1>5, <1>6, <1>7, <1>8, <1>9, <1>10, <1>11 DEF PutStep, PollStep

LEMMA InitSave == Init => SaveInv
<1> SUFFICES ASSUME Init, NEW c \in Clients PROVE ClientInv(c)
  BY DEF SaveInv
<1>1. CopyInv(c)
  BY DEF Init, CopyInv
<1>2. LoadInv(c) /\ SentInv(c) /\ OkInv(c)
  BY DEF Init, LoadInv, SentInv, OkInv, NoLoad, NoPut, Saving, Saves, Archiving, Archivings
<1>3. QED
  BY <1>1, <1>2 DEF ClientInv

LEMMA NextSave ==
  ASSUME BoardTypeInv, SaveInv, [Next]_vars, Careful, PromptPolls
  PROVE  SaveInv'
<1>1. ASSUME NEW d \in Clients,
             UserStep(d) \/ PutStep(d) \/ PollStep(d) \/ RequestLost(d) \/ LoadFails(d)
      PROVE  SaveInv'
  <2> SUFFICES ASSUME NEW c \in Clients PROVE ClientInv(c)'
    BY DEF SaveInv
  <2>1. ClientInv(c)
    BY DEF SaveInv
  <2>2. CASE c = d
    BY <1>1, <2>1, <2>2, UserKeeps, ServerKeeps
  <2>3. CASE c # d
    <3>1. /\ board'[c] = board[c] /\ sha'[c] = sha[c] /\ unsaved'[c] = unsaved[c]
          /\ put'[c] = put[c] /\ load'[c] = load[c] /\ poll'[c] = poll[c]
      BY <1>1, <2>3, OthersUntouched
    <3>2. remote' = remote \/ PutAccepted(d)
      BY <1>1, <2>3, OthersUntouched
    <3>3. PutAccepted(d) => remote'.sha = remote.sha + 1
      BY DEF PutAccepted
    <3>4. QED
      BY <2>1, <3>1, <3>2, <3>3, OthersKeep, OthersFallBehind
  <2>4. QED
    BY <2>2, <2>3
<1>2. CASE UNCHANGED vars
  <2> SUFFICES ASSUME NEW c \in Clients PROVE ClientInv(c)'
    BY DEF SaveInv
  <2>1. ClientInv(c) /\ UNCHANGED <<remote, board, sha, unsaved, put, load, poll>>
    BY <1>2 DEF SaveInv, vars
  <2>2. QED
    BY <2>1, OthersKeep
<1>3. QED
  BY <1>1, <1>2 DEF Next

\* What was sent over the current version differs from it in the author's parts.
LEMMA AcceptedIsOwn ==
  ASSUME BoardTypeInv, SaveInv, [Next]_vars, NEW c \in Clients, Committed(c),
         NEW part \in Parts, PartOf(remote'.board, part) # PartOf(remote.board, part)
  PROVE  part \in put[c].what
<1>1. PutAccepted(c)
  BY CommitIsAccept
<1>2. Saving(c) /\ put[c].phase = "sent" /\ put[c].base = remote.sha /\ remote'.board = put[c].board
  BY <1>1, PutKinds DEF PutAccepted, BoardTypeInv, Phases, Saving, Archiving
<1>3. QED
  BY <1>2 DEF SaveInv, ClientInv, SentInv

\* No save takes back what somebody else, or the author before, had saved,
\* where users are careful and the answer to a poll does not arrive late.
THEOREM NothingTakenBack == Careful /\ PromptPolls /\ Spec => CommitsOnlyOwnChanges
<1> SUFFICES ASSUME Careful, PromptPolls PROVE Spec => CommitsOnlyOwnChanges
  OBVIOUS
<1>1. Init => BoardTypeInv /\ SaveInv
  BY InitBoardTypes, InitSave
<1>2. (BoardTypeInv /\ SaveInv) /\ [Next]_vars => (BoardTypeInv /\ SaveInv)'
  BY NextBoardTypes, NextSave
<1>3. (BoardTypeInv /\ SaveInv) /\ [Next]_vars =>
        [\A c \in Clients : Committed(c) =>
           \A part \in Parts :
             PartOf(remote'.board, part) # PartOf(remote.board, part) => part \in put[c].what]_vars
  BY AcceptedIsOwn
<1>4. QED
  BY <1>1, <1>2, <1>3, PTL DEF Spec, CommitsOnlyOwnChanges

-----------------------------------------------------------------------------
(* Changes of cards. *)

\* A PUT of the board carries the change of a card that it was made for.
HoldsChange(p) == p \in Saves /\ p.part \in Cards => p.board.cards[p.part] = p.value

ChangeInv == \A c \in Clients : HoldsChange(put[c])

\* Only a user's change sends a board; what is under way keeps what it carries.
LEMMA SendHolds ==
  ASSUME BoardTypeInv, ChangeInv, NEW c \in Clients,
         NEW x \in Cards, NEW kind, ChangeCard(c, x, kind)
  PROVE  ChangeInv'
<1> DEFINE n == changes + 1
           copy == [board[c] EXCEPT !.cards[x] = n]
           p == [phase |-> "sent", kind |-> kind, base |-> sha[c], board |-> copy,
                 what |-> unsaved'[c], part |-> x, value |-> n]
<1>1. put' = [put EXCEPT ![c] = p]
  BY DEF ChangeCard, Send
<1>2. board[c] \in Boards /\ DOMAIN put = Clients
  BY DEF BoardTypeInv, CopiesTyped, PutTyped
<1>3. copy.cards[x] = n
  BY <1>2 DEF Boards
<1>4. p.board = copy /\ p.part = x /\ p.value = n
  OBVIOUS
<1> HIDE DEF p, copy
<1>5. HoldsChange(p)
  BY <1>3, <1>4 DEF HoldsChange
<1>6. QED
  BY <1>1, <1>2, <1>5 DEF ChangeInv

\* The parts of a PUT that a step may change while it is under way.
LEMMA UnderWayHolds ==
  ASSUME BoardTypeInv, ChangeInv, NEW c \in Clients, NEW p,
         put' = [put EXCEPT ![c] = p],
         \/ p \notin Saves
         \/ p.part \notin Cards
         \/ /\ put[c] \in Saves
            /\ p.board = put[c].board /\ p.part = put[c].part /\ p.value = put[c].value
  PROVE  ChangeInv'
<1>1. DOMAIN put = Clients
  BY DEF BoardTypeInv, PutTyped
<1>2. HoldsChange(p)
  BY DEF ChangeInv, HoldsChange
<1>3. QED
  BY <1>1, <1>2 DEF ChangeInv

LEMMA NextChanges ==
  ASSUME Careful, BoardTypeInv, ChangeInv, [Next]_vars
  PROVE  ChangeInv'
<1>1. ASSUME put' = put PROVE ChangeInv'
  BY <1>1 DEF ChangeInv
<1>2. NoPut \notin Saves
  BY DEF NoPut, Saves
<1>3. ASSUME NEW c \in Clients, UserStep(c) PROVE ChangeInv'
  <2>1. ASSUME NEW x \in Cards, Drop(c, x) \/ AddCard(c, x) PROVE ChangeInv'
    BY <2>1, SendHolds DEF Drop, AddCard
  <2>2. ASSUME dialog[c].kind = "edit" PROVE dialog[c].card \in Cards
    BY <2>2, DialogKinds DEF BoardTypeInv
  <2>3. CASE SaveEdit(c) \/ DeleteCard(c)
    BY <2>2, <2>3, SendHolds DEF SaveEdit, DeleteCard
  <2>4. CASE DoCompleteTick(c)
    <3> DEFINE p == [phase |-> "sent", kind |-> "archive", tick |-> board[c].tick,
                     file |-> NextArchiveNumber(board[c])]
    <3>1. put' = [put EXCEPT ![c] = p]
      BY <2>4 DEF DoCompleteTick
    <3>2. p \notin Saves
      BY DEF Saves
    <3> HIDE DEF p
    <3>3. QED
      BY <3>1, <3>2, UnderWayHolds
  <2>5. CASE Bootstrap(c)
    BY <1>2, <2>5, UnderWayHolds DEF Bootstrap
  <2>6. ASSUME NEW x \in Cards, OpenEditor(c, x) PROVE ChangeInv'
    BY <1>1, <2>6 DEF OpenEditor
  <2>7. CASE CloseDialog(c) \/ OpenCompleteTickWizard(c) \/ (\E n \in TickIds : TypeNextTick(c, n)) \/ ReloadBoard(c)
    BY <1>1, <2>7 DEF CloseDialog, OpenCompleteTickWizard, TypeNextTick, ReloadBoard
  <2>8. QED
    BY <1>3, <2>1, <2>3, <2>4, <2>5, <2>6, <2>7 DEF UserStep
<1>4. ASSUME NEW c \in Clients, PutAccepted(c) \/ PutRefused(c) PROVE ChangeInv'
  <2>1. Saving(c)
    BY <1>4, PutKinds DEF PutAccepted, PutRefused, BoardTypeInv, Phases, Archiving
  <2>2. PICK p : /\ put' = [put EXCEPT ![c] = p]
                 /\ p.board = put[c].board /\ p.part = put[c].part /\ p.value = put[c].value
    <3> DEFINE ok == [put[c] EXCEPT !.phase = "ok", !.base = remote.sha + 1]
               no == [put[c] EXCEPT !.phase = "failed"]
    <3>1. put' = [put EXCEPT ![c] = ok] \/ put' = [put EXCEPT ![c] = no]
      BY <1>4 DEF PutAccepted, PutRefused, BoardTypeInv, PutTyped
    <3>2. /\ ok.board = put[c].board /\ ok.part = put[c].part /\ ok.value = put[c].value
          /\ no.board = put[c].board /\ no.part = put[c].part /\ no.value = put[c].value
      BY <2>1 DEF Saving, Saves
    <3> HIDE DEF ok, no
    <3>3. QED
      BY <3>1, <3>2
  <2>3. QED
    BY <2>1, <2>2, UnderWayHolds DEF Saving
<1>5. ASSUME NEW c \in Clients, RequestLost(c) PROVE ChangeInv'
  <2> DEFINE p == [put[c] EXCEPT !.phase = "failed"]
  <2>1. put' = [put EXCEPT ![c] = p]
    BY <1>5 DEF RequestLost
  <2>2. Saving(c) \/ Archiving(c)
    BY <1>5, PutKinds DEF RequestLost, BoardTypeInv, Phases
  <2>3. CASE Saving(c)
    <3>1. p.board = put[c].board /\ p.part = put[c].part /\ p.value = put[c].value
      BY <2>3 DEF Saving, Saves
    <3> HIDE DEF p
    <3>2. QED
      BY <2>1, <2>3, <3>1, UnderWayHolds DEF Saving
  <2>4. CASE Archiving(c)
    <3>1. p \notin Saves
      BY <2>4 DEF Archiving, Archivings, Saves
    <3> HIDE DEF p
    <3>2. QED
      BY <2>1, <3>1, UnderWayHolds
  <2>5. QED
    BY <2>2, <2>3, <2>4
<1>6. ASSUME NEW c \in Clients, ArchiveArrives(c) PROVE ChangeInv'
  <2>1. Archiving(c)
    BY <1>6, PutKinds DEF ArchiveArrives, BoardTypeInv, Phases, Saving
  <2>2. PICK phase : put' = [put EXCEPT ![c] = [put[c] EXCEPT !.phase = phase]]
    BY <1>6 DEF ArchiveArrives
  <2> DEFINE p == [put[c] EXCEPT !.phase = phase]
  <2>3. p \notin Saves
    BY <2>1 DEF Archiving, Archivings, Saves
  <2>4. put' = [put EXCEPT ![c] = p]
    BY <2>2
  <2> HIDE DEF p
  <2>5. QED
    BY <2>3, <2>4, UnderWayHolds
<1>7. ASSUME NEW c \in Clients, ArchiveReturns(c) PROVE ChangeInv'
  <2>1. PICK p : put' = [put EXCEPT ![c] = p] /\ (p = NoPut \/ p.part = Tick)
    <3> DEFINE copy == Completed(board[c], put[c], dialog[c].next)
               sent == [phase |-> "sent", kind |-> "tick", base |-> sha[c], board |-> copy,
                        what |-> unsaved'[c], part |-> Tick, value |-> dialog[c].next]
    <3>1. put' = [put EXCEPT ![c] = sent] \/ put' = [put EXCEPT ![c] = NoPut]
      BY <1>7 DEF ArchiveReturns, Send
    <3>2. sent.part = Tick
      OBVIOUS
    <3> HIDE DEF sent
    <3>3. QED
      BY <3>1, <3>2
  <2>2. Tick \notin Cards
    BY BoardAssumption DEF Tick
  <2>3. QED
    BY <1>2, <2>1, <2>2, UnderWayHolds
<1>8. ASSUME NEW c \in Clients, SaveReturns(c) \/ SaveFails(c) PROVE ChangeInv'
  <2>1. put' = [put EXCEPT ![c] = NoPut]
    BY <1>8 DEF SaveReturns, SaveFails
  <2>2. QED
    BY <1>2, <2>1, UnderWayHolds
<1>9. ASSUME NEW c \in Clients, PollStep(c) \/ LoadFails(c) PROVE ChangeInv'
  BY <1>1, <1>9 DEF PollStep, PollReads, PollReturns, LoadReads, LoadReturns, LoadFails
<1>10. CASE UNCHANGED vars
  BY <1>1, <1>10 DEF vars
<1>11. QED
  BY <1>3, <1>4, <1>5, <1>6, <1>7, <1>8, <1>9, <1>10 DEF Next, PutStep

\* The board a save is accepted with holds the change it was made for, where
\* users are careful, however requests are lost, refused and tried again
\* (SavedChangeIsCommitted).
THEOREM SavedIsCommitted == Careful /\ Spec => SavedChangeIsCommitted
<1> SUFFICES ASSUME Careful PROVE Spec => SavedChangeIsCommitted
  OBVIOUS
<1>1. Init => BoardTypeInv /\ ChangeInv
  <2>1. Init => ChangeInv
    BY DEF Init, ChangeInv, HoldsChange, NoPut, Saves
  <2>2. QED
    BY <2>1, InitBoardTypes
<1>2. (BoardTypeInv /\ ChangeInv) /\ [Next]_vars => (BoardTypeInv /\ ChangeInv)'
  BY NextBoardTypes, NextChanges
<1>3. (BoardTypeInv /\ ChangeInv) /\ [Next]_vars =>
        [\A c \in Clients : Committed(c) /\ put[c].part \in Cards =>
           remote'.board.cards[put[c].part] = put[c].value]_vars
  <2> SUFFICES ASSUME BoardTypeInv, ChangeInv, [Next]_vars, NEW c \in Clients,
                      Committed(c), put[c].part \in Cards
               PROVE  remote'.board.cards[put[c].part] = put[c].value
    OBVIOUS
  <2>1. PutAccepted(c)
    BY CommitIsAccept
  <2>2. Saving(c) /\ remote'.board = put[c].board
    BY <2>1, PutKinds DEF PutAccepted, BoardTypeInv, Phases, Archiving
  <2>3. QED
    BY <2>2 DEF ChangeInv, HoldsChange, Saving
<1>4. QED
  BY <1>1, <1>2, <1>3, PTL DEF Spec, SavedChangeIsCommitted

-----------------------------------------------------------------------------
(* Archives.  Every list of archived ticks, in whatever copy of the board it  *)
(* is, names only files that exist; a file just created is listed in none and *)
(* belongs to one request.                                                    *)

Lists ==
  {remote.board.archived}
    \union {board[c].archived : c \in Clients}
    \union {put[c].board.archived : c \in {d \in Clients : Saving(d)}}
    \union {load[c].board.archived : c \in {d \in Clients : load[d].phase = "read"}}

Created(c) == Archiving(c) /\ put[c].phase = "ok"

ListsOnlyFiles(a) ==
  /\ \A i \in 1 .. Len(a) : a[i].file \in DOMAIN archives /\ archives[a[i].file] = a[i].tick
  /\ \A i, j \in 1 .. Len(a) : a[i].file = a[j].file => i = j

ListInv == \A a \in Lists : ListsOnlyFiles(a)

CreatedInv ==
  \A c \in Clients : Created(c) =>
    /\ put[c].file \in DOMAIN archives /\ archives[put[c].file] = put[c].tick
    /\ \A a \in Lists : \A i \in 1 .. Len(a) : a[i].file # put[c].file
    /\ \A d \in Clients \ {c} : Created(d) => put[d].file # put[c].file

ArchiveInv == ListInv /\ CreatedInv

Step(d) == UserStep(d) \/ PutStep(d) \/ PollStep(d) \/ RequestLost(d) \/ LoadFails(d)

LEMMA OwnLists ==
  ASSUME NEW d \in Clients
  PROVE  /\ remote.board.archived \in Lists /\ board[d].archived \in Lists
         /\ Saving(d) => put[d].board.archived \in Lists
         /\ load[d].phase = "read" => load[d].board.archived \in Lists
  BY DEF Lists

\* After a step of d the lists are those before it and those d has now.
LEMMA ListsAfter ==
  ASSUME BoardTypeInv, NEW d \in Clients, Step(d), NEW A, Lists \subseteq A,
         board'[d].archived \in A,
         put'[d] \in Saves => put'[d].board.archived \in A,
         load'[d].phase = "read" => load'[d].board.archived \in A
  PROVE  Lists' \subseteq A
<1>1. remote'.board.archived \in A
  <2>1. remote' = remote \/ PutAccepted(d)
    BY RemoteByAccept DEF Step
  <2>2. CASE remote' = remote
    BY <2>2, OwnLists
  <2>3. CASE PutAccepted(d)
    BY <2>3, OwnLists, PutKinds DEF PutAccepted, BoardTypeInv, Phases
  <2>4. QED
    BY <2>1, <2>2, <2>3
<1>2. ASSUME NEW c \in Clients
      PROVE  /\ board'[c].archived \in A
             /\ put'[c] \in Saves => put'[c].board.archived \in A
             /\ load'[c].phase = "read" => load'[c].board.archived \in A
  <2>1. CASE c = d
    BY <2>1
  <2>2. CASE c # d
    <3>1. board'[c] = board[c] /\ put'[c] = put[c] /\ load'[c] = load[c]
      BY <2>2, OthersUntouched DEF Step
    <3>2. QED
      BY <3>1, OwnLists DEF Saving
  <2>3. QED
    BY <2>1, <2>2
<1>3. QED
  BY <1>1, <1>2 DEF Lists, Saving

\* A step that creates no file, lists none and leaves no request behind that
\* has created one.
LEMMA ArchivesKept ==
  ASSUME BoardTypeInv, ArchiveInv, NEW d \in Clients, Step(d), archives' = archives,
         Lists' \subseteq Lists,
         put'[d] = put[d] \/ ~(put'[d] \in Archivings /\ put'[d].phase = "ok")
  PROVE  ArchiveInv'
<1>1. ListInv'
  BY DEF ArchiveInv, ListInv, ListsOnlyFiles
<1>2. ASSUME NEW c \in Clients, Created(c)'
      PROVE  Created(c) /\ put'[c] = put[c]
  BY <1>2, OthersUntouched DEF Step, Created, Archiving
<1>3. CreatedInv'
  BY <1>2 DEF ArchiveInv, CreatedInv
<1>4. QED
  BY <1>1, <1>3 DEF ArchiveInv

LEMMA UserArchives ==
  ASSUME BoardTypeInv, ArchiveInv, NEW c \in Clients, UserStep(c)
  PROVE  ArchiveInv'
<1>0. RemoteTyped /\ CopiesTyped /\ DialogTyped /\ PutTyped /\ LoadTyped /\ Step(c)
  BY DEF BoardTypeInv, Step
<1>00. archives' = archives
  BY DEF UserStep, Drop, OpenEditor, AddCard, SaveEdit, DeleteCard, CloseDialog,
      OpenCompleteTickWizard, TypeNextTick, DoCompleteTick, ReloadBoard, Bootstrap
<1>1. ASSUME NEW b, NEW k, NEW w, NEW part, NEW v, Send(c, k, b, w, part, v),
             k \in {"drop", "edit", "delete"}, b.archived = board[c].archived, board'[c] = b, load' = load
      PROVE  ArchiveInv'
  <2>1. put'[c] = [phase |-> "sent", kind |-> k, base |-> sha[c], board |-> b, what |-> w,
                   part |-> part, value |-> v]
    BY <1>0, <1>1 DEF Send, PutTyped
  <2>2. put'[c].board = b /\ put'[c].phase = "sent"
    BY <2>1
  <2>3. Lists' \subseteq Lists
    BY <1>0, <1>1, <2>2, ListsAfter, OwnLists
  <2>4. QED
    BY <1>0, <1>00, <2>2, <2>3, ArchivesKept
<1>2. ASSUME NEW x \in Cards, NEW k \in {"drop", "edit", "delete"}, ChangeCard(c, x, k), load' = load
      PROVE  ArchiveInv'
  <2> DEFINE b == [board[c] EXCEPT !.cards[x] = changes + 1]
  <2>1. b.archived = board[c].archived
    BY <1>0 DEF CopiesTyped, Boards
  <2>2. board'[c] = b /\ Send(c, k, b, unsaved'[c], x, changes + 1)
    BY <1>0, <1>2 DEF ChangeCard, CopiesTyped
  <2> HIDE DEF b
  <2>3. QED
    BY <1>1, <1>2, <2>1, <2>2
<1>3. ASSUME NEW x \in Cards, Drop(c, x) \/ AddCard(c, x) PROVE ArchiveInv'
  BY <1>2, <1>3 DEF Drop, AddCard
<1>4. CASE SaveEdit(c)
  <2>1. dialog[c].card \in Cards /\ load' = load
    BY <1>0, <1>4, DialogKinds DEF SaveEdit
  <2>2. CASE ChangeCard(c, dialog[c].card, "edit")
    BY <1>2, <2>1, <2>2
  <2>3. CASE /\ Send(c, "edit", board[c], unsaved[c], dialog[c].card, changes + 1)
             /\ UNCHANGED board
    BY <1>1, <2>1, <2>3
  <2>4. QED
    BY <1>4, <2>2, <2>3 DEF SaveEdit
<1>5. CASE DeleteCard(c)
  <2>1. dialog[c].card \in Cards /\ load' = load
    BY <1>0, <1>5, DialogKinds DEF DeleteCard
  <2>2. QED
    BY <1>2, <1>5, <2>1 DEF DeleteCard
<1>6. ASSUME \/ \E x \in Cards : OpenEditor(c, x)
             \/ CloseDialog(c) \/ OpenCompleteTickWizard(c) \/ (\E n \in TickIds : TypeNextTick(c, n))
      PROVE  ArchiveInv'
  <2>1. UNCHANGED <<board, put, load>>
    BY <1>6 DEF OpenEditor, CloseDialog, OpenCompleteTickWizard, TypeNextTick
  <2>2. Lists' \subseteq Lists
    BY <1>0, <2>1, ListsAfter, OwnLists DEF Saving
  <2>3. QED
    BY <1>0, <1>00, <2>1, <2>2, ArchivesKept
<1>7. CASE DoCompleteTick(c)
  <2>1. UNCHANGED <<board, load>>
        /\ put'[c] = [phase |-> "sent", kind |-> "archive", tick |-> board[c].tick,
                      file |-> NextArchiveNumber(board[c])]
    BY <1>0, <1>7 DEF DoCompleteTick, PutTyped
  <2>2. put'[c] \notin Saves /\ put'[c].phase # "ok"
    BY <2>1 DEF Saves
  <2>3. Lists' \subseteq Lists
    BY <1>0, <2>1, <2>2, ListsAfter, OwnLists
  <2>4. QED
    BY <1>0, <1>00, <2>2, <2>3, ArchivesKept
<1>8. CASE ReloadBoard(c)
  <2>1. UNCHANGED <<board, put>> /\ (load'[c] = load[c] \/ load'[c] = [phase |-> "asked"])
    BY <1>0, <1>8 DEF ReloadBoard, AskLoad, LoadTyped
  <2>2. Lists' \subseteq Lists
    BY <1>0, <2>1, ListsAfter, OwnLists DEF Saving
  <2>3. QED
    BY <1>0, <1>00, <2>1, <2>2, ArchivesKept
<1>9. CASE Bootstrap(c)
  <2>1. board'[c] = remote.board /\ put'[c] = NoPut /\ load'[c] = NoLoad
    BY <1>0, <1>9 DEF Bootstrap, CopiesTyped, PutTyped, LoadTyped
  <2>2. put'[c] \notin Saves /\ put'[c].phase # "ok" /\ load'[c].phase # "read"
    BY <2>1 DEF NoPut, NoLoad, Saves
  <2>3. Lists' \subseteq Lists
    BY <1>0, <2>1, <2>2, ListsAfter, OwnLists
  <2>4. QED
    BY <1>0, <1>00, <2>2, <2>3, ArchivesKept
<1>10. QED
  BY <1>3, <1>4, <1>5, <1>6, <1>7, <1>8, <1>9 DEF UserStep

\* The file that is created was listed nowhere.
LEMMA FileCreated ==
  ASSUME BoardTypeInv, ArchiveInv, NEW c \in Clients, ArchiveArrives(c), put[c].file \notin DOMAIN archives,
         put'[c].phase = "ok", put'[c].file = put[c].file, put'[c].tick = put[c].tick,
         archives' = [n \in DOMAIN archives \cup {put[c].file} |->
                        IF n = put[c].file THEN put[c].tick ELSE archives[n]],
         Lists' \subseteq Lists
  PROVE  ArchiveInv'
<1>0. Step(c)
  BY DEF Step, PutStep
<1>1. /\ \A n \in DOMAIN archives : n \in DOMAIN archives' /\ archives'[n] = archives[n]
      /\ put[c].file \in DOMAIN archives' /\ archives'[put[c].file] = put[c].tick
  OBVIOUS
<1>2. ListInv'
  <2> SUFFICES ASSUME NEW a \in Lists' PROVE ListsOnlyFiles(a)'
    BY DEF ListInv
  <2>1. ListsOnlyFiles(a)
    BY DEF ArchiveInv, ListInv
  <2>2. QED
    BY <1>1, <2>1 DEF ListsOnlyFiles
<1>3. \A a \in Lists : \A i \in 1 .. Len(a) : a[i].file # put[c].file
  BY DEF ArchiveInv, ListInv, ListsOnlyFiles
<1>4. \A d \in Clients \ {c} : /\ put'[d] = put[d]
                               /\ Created(d)' => Created(d) /\ put[d].file \in DOMAIN archives
  BY <1>0, OthersUntouched DEF Step, Created, Archiving, ArchiveInv, CreatedInv
<1>5. ASSUME NEW d \in Clients, Created(d)'
      PROVE  /\ put'[d].file \in DOMAIN archives' /\ archives'[put'[d].file] = put'[d].tick
             /\ \A a \in Lists' : \A i \in 1 .. Len(a) : a[i].file # put'[d].file
             /\ \A e \in Clients \ {d} : Created(e)' => put'[e].file # put'[d].file
  <2>1. CASE d = c
    BY <1>1, <1>3, <1>4, <2>1
  <2>2. CASE d # c
    <3>1. Created(d) /\ put'[d] = put[d] /\ put[d].file # put[c].file
      BY <1>4, <1>5, <2>2
    <3>2. /\ put[d].file \in DOMAIN archives /\ archives[put[d].file] = put[d].tick
          /\ \A a \in Lists : \A i \in 1 .. Len(a) : a[i].file # put[d].file
          /\ \A e \in Clients \ {d} : Created(e) => put[e].file # put[d].file
      BY <3>1 DEF ArchiveInv, CreatedInv
    <3>3. ASSUME NEW e \in Clients \ {d}, Created(e)' PROVE put'[e].file # put'[d].file
      BY <1>4, <3>1, <3>2, <3>3
    <3>4. QED
      BY <1>1, <3>1, <3>2, <3>3
  <2>3. QED
    BY <2>1, <2>2
<1>6. CreatedInv'
  BY <1>5 DEF CreatedInv
<1>7. QED
  BY <1>2, <1>6 DEF ArchiveInv

\* The file that was created joins the list of the client that created it.
LEMMA FileListed ==
  ASSUME BoardTypeInv, ArchiveInv, NEW c \in Clients, ArchiveReturns(c), Created(c),
         NEW L, L = Append(board[c].archived, [tick |-> put[c].tick, file |-> put[c].file]),
         Lists' \subseteq Lists \union {L},
         ~(put'[c] \in Archivings)
  PROVE  ArchiveInv'
<1> DEFINE a == board[c].archived
           e == [tick |-> put[c].tick, file |-> put[c].file]
<1>0. Step(c) /\ archives' = archives
  BY DEF Step, PutStep, ArchiveReturns
<1>1. a \in Seq(Entries) /\ e \in Entries /\ a \in Lists
  BY OwnLists DEF BoardTypeInv, CopiesTyped, Boards, Created, Archiving, Archivings, Entries
<1>2. /\ put[c].file \in DOMAIN archives /\ archives[put[c].file] = put[c].tick
      /\ \A l \in Lists : \A i \in 1 .. Len(l) : l[i].file # put[c].file
      /\ \A d \in Clients \ {c} : Created(d) => put[d].file # put[c].file
  BY DEF ArchiveInv, CreatedInv
<1> HIDE DEF a, e
<1>3. /\ Len(L) = Len(a) + 1 /\ L[Len(a) + 1] = e /\ Len(a) \in Nat
      /\ \A i \in 1 .. Len(a) : L[i] = a[i]
  BY <1>1 DEF a, e
<1>4. e.file = put[c].file /\ e.tick = put[c].tick
  BY DEF e
<1>5. ListsOnlyFiles(a)
  BY <1>1 DEF ArchiveInv, ListInv
<1>6. ListsOnlyFiles(L)
  <2>1. ASSUME NEW i \in 1 .. Len(L)
        PROVE  L[i].file \in DOMAIN archives /\ archives[L[i].file] = L[i].tick
    BY <1>2, <1>3, <1>4, <1>5, i = Len(a) + 1 \/ i \in 1 .. Len(a) DEF ListsOnlyFiles
  <2>2. ASSUME NEW i \in 1 .. Len(L), NEW j \in 1 .. Len(L), L[i].file = L[j].file PROVE i = j
    <3>1. /\ i = Len(a) + 1 \/ i \in 1 .. Len(a)
          /\ j = Len(a) + 1 \/ j \in 1 .. Len(a)
      BY <1>3
    <3>2. \A k \in 1 .. Len(a) : a[k].file # e.file
      BY <1>1, <1>2, <1>4
    <3>3. QED
      BY <1>3, <1>5, <2>2, <3>1, <3>2 DEF ListsOnlyFiles
  <2>3. QED
    BY <2>1, <2>2 DEF ListsOnlyFiles
<1>7. ListInv'
  BY <1>0, <1>6 DEF ArchiveInv, ListInv, ListsOnlyFiles
<1>8. ASSUME NEW d \in Clients, Created(d)' PROVE d # c /\ Created(d) /\ put'[d] = put[d]
  BY <1>0, <1>8, OthersUntouched DEF Step, Created, Archiving
<1>9. ASSUME NEW d \in Clients, Created(d)'
      PROVE  \A l \in Lists' : \A i \in 1 .. Len(l) : l[i].file # put'[d].file
  <2>1. d # c /\ Created(d) /\ put'[d] = put[d] /\ put[d].file # put[c].file
    BY <1>2, <1>8, <1>9
  <2>2. \A l \in Lists : \A i \in 1 .. Len(l) : l[i].file # put[d].file
    BY <2>1 DEF ArchiveInv, CreatedInv
  <2>3. ASSUME NEW i \in 1 .. Len(L) PROVE L[i].file # put[d].file
    BY <1>1, <1>3, <1>4, <2>1, <2>2, i = Len(a) + 1 \/ i \in 1 .. Len(a)
  <2>4. QED
    BY <2>1, <2>2, <2>3
<1>10. CreatedInv'
  BY <1>0, <1>8, <1>9 DEF ArchiveInv, CreatedInv
<1>11. QED
  BY <1>7, <1>10 DEF ArchiveInv

LEMMA ServerArchives ==
  ASSUME BoardTypeInv, ArchiveInv, NEW c \in Clients,
         PutStep(c) \/ PollStep(c) \/ RequestLost(c) \/ LoadFails(c)
  PROVE  ArchiveInv'
<1>0. RemoteTyped /\ CopiesTyped /\ DialogTyped /\ PutTyped /\ LoadTyped /\ Step(c)
  BY DEF BoardTypeInv, Step
<1>1. CASE ArchiveArrives(c)
  <2>1. UNCHANGED <<board, load>> /\ put[c].phase \in Phases /\ Archiving(c)
    BY <1>0, <1>1, PutKinds DEF ArchiveArrives, Phases
  <2>2. ASSUME NEW p \in Phases, put' = [put EXCEPT ![c].phase = p]
        PROVE  /\ put'[c] \in Archivings /\ put'[c].phase = p
               /\ put'[c].file = put[c].file /\ put'[c].tick = put[c].tick
    BY <1>0, <2>1, <2>2 DEF PutTyped, Archiving, Archivings
  <2>3. \E p \in Phases : put' = [put EXCEPT ![c].phase = p]
    BY <1>1 DEF ArchiveArrives, Phases
  <2>4. put'[c] \notin Saves
    BY <2>2, <2>3 DEF Saves, Archivings
  <2>5. Lists' \subseteq Lists
    BY <1>0, <2>1, <2>4, ListsAfter, OwnLists
  <2>6. CASE /\ put[c].file \notin DOMAIN archives
             /\ archives' = [n \in DOMAIN archives \cup {put[c].file} |->
                               IF n = put[c].file THEN put[c].tick ELSE archives[n]]
             /\ put' = [put EXCEPT ![c].phase = "ok"]
    BY <1>1, <2>2, <2>5, <2>6, FileCreated DEF Phases
  <2>7. CASE /\ put' = [put EXCEPT ![c].phase = "failed"]
             /\ UNCHANGED archives
    BY <1>0, <2>2, <2>5, <2>7, ArchivesKept DEF Phases
  <2>8. QED
    BY <1>1, <2>6, <2>7 DEF ArchiveArrives
<1>2. CASE ArchiveReturns(c)
  <2>0. /\ put[c] \in Archivings /\ board[c] \in Boards
        /\ archives' = archives /\ load' = load
    BY <1>0, <1>2, PutKinds DEF ArchiveReturns, CopiesTyped, Phases, Saving, Archiving
  <2> DEFINE L == Append(board[c].archived, [tick |-> put[c].tick, file |-> put[c].file])
  <2>1. ASSUME NEW copy, copy.archived = L, TakesCopy(c, copy), put[c].phase = "ok",
               put'[c] \notin Archivings, put'[c] \in Saves => put'[c].board = copy
        PROVE  ArchiveInv'
    <3>1. board'[c].archived = L
      BY <1>0, <2>1 DEF TakesCopy, CopiesTyped
    <3>2. Created(c)
      BY <2>0, <2>1 DEF Created, Archiving
    <3> HIDE DEF L
    <3>3. Lists' \subseteq Lists \union {L}
      <4> DEFINE A == Lists \union {L}
      <4>1. /\ Lists \subseteq A /\ board'[c].archived \in A
            /\ put'[c] \in Saves => put'[c].board.archived \in A
        BY <2>1, <3>1
      <4>2. load'[c].phase = "read" => load'[c].board.archived \in A
        BY <2>0, OwnLists
      <4> HIDE DEF A
      <4>3. Lists' \subseteq A
        BY <1>0, <4>1, <4>2, ListsAfter
      <4>4. QED
        BY <4>3 DEF A
    <3>4. QED
      BY <1>2, <2>1, <3>2, <3>3, FileListed DEF L
  <2>2. CASE /\ put[c].phase = "ok" /\ dialog[c].kind = "wizard"
             /\ LET copy == Completed(board[c], put[c], dialog[c].next) IN
                  /\ TakesCopy(c, copy)
                  /\ Send(c, "tick", copy, unsaved'[c], Tick, dialog[c].next)
    <3> DEFINE copy == Completed(board[c], put[c], dialog[c].next)
    <3>1. dialog[c].next \in Nat
      BY <1>0, <2>2, DialogKinds
    <3>2. copy.archived = L
      BY <2>0, <3>1, ListedTyped
    <3>3. TakesCopy(c, copy) /\ Send(c, "tick", copy, unsaved'[c], Tick, dialog[c].next)
      BY <2>2
    <3> HIDE DEF copy, L
    <3>4. put'[c] = [phase |-> "sent", kind |-> "tick", base |-> sha[c], board |-> copy,
                     what |-> unsaved'[c], part |-> Tick, value |-> dialog[c].next]
      BY <1>0, <3>3 DEF Send, PutTyped
    <3>5. put'[c] \notin Archivings /\ put'[c].board = copy
      BY <3>4 DEF Archivings
    <3>6. QED
      BY <2>1, <2>2, <3>2, <3>3, <3>5
  <2>3. CASE /\ put[c].phase = "ok" /\ dialog[c].kind # "wizard"
             /\ TakesCopy(c, Listed(board[c], put[c]))
             /\ put' = [put EXCEPT ![c] = NoPut]
    <3>1. Listed(board[c], put[c]).archived = L
      BY <2>0, ListedTyped
    <3>2. put'[c] \notin Archivings /\ put'[c] \notin Saves
      BY <1>0, <2>3 DEF PutTyped, NoPut, Archivings, Saves
    <3> HIDE DEF L
    <3>3. QED
      BY <2>1, <2>3, <3>1, <3>2
  <2>4. CASE put' = [put EXCEPT ![c] = NoPut] /\ UNCHANGED <<board, unsaved>>
    <3>1. put'[c] \notin Archivings /\ put'[c] \notin Saves
      BY <1>0, <2>4 DEF PutTyped, NoPut, Archivings, Saves
    <3>2. Lists' \subseteq Lists
      BY <1>0, <2>0, <2>4, <3>1, ListsAfter, OwnLists
    <3>3. QED
      BY <1>0, <2>0, <3>1, <3>2, ArchivesKept
  <2>5. QED
    BY <1>2, <2>2, <2>3, <2>4 DEF ArchiveReturns
<1>3. CASE PutAccepted(c)
  <2>1. put[c] \in Saves /\ UNCHANGED <<board, load, archives>>
    BY <1>0, <1>3, PutKinds DEF PutAccepted, Phases, Saving, Archiving
  <2>2. put'[c] = [put[c] EXCEPT !.phase = "ok", !.base = remote.sha + 1]
    BY <1>0, <1>3 DEF PutAccepted, PutTyped
  <2>3. put'[c].board = put[c].board /\ put'[c].kind = put[c].kind
    BY <2>1, <2>2 DEF Saves
  <2>4. put'[c] \notin Archivings
    BY <2>1, <2>3 DEF Saves, Archivings
  <2>5. Lists' \subseteq Lists
    BY <1>0, <2>1, <2>3, ListsAfter, OwnLists DEF Saving
  <2>6. QED
    BY <1>0, <2>1, <2>4, <2>5, ArchivesKept
<1>4. CASE PutRefused(c) \/ RequestLost(c)
  <2>1. UNCHANGED <<board, load, archives>> /\ put[c].phase \in Phases
    BY <1>4 DEF PutRefused, RequestLost, Phases
  <2>2. put'[c] = [put[c] EXCEPT !.phase = "failed"] /\ put[c] \in Saves \union Archivings
    BY <1>0, <1>4, <2>1, PutKinds DEF PutRefused, RequestLost, PutTyped, Saving, Archiving
  <2>3. put'[c].phase = "failed" /\ (put'[c] \in Saves => put[c] \in Saves /\ put'[c].board = put[c].board)
    BY <2>2 DEF Saves, Archivings
  <2>4. Lists' \subseteq Lists
    BY <1>0, <2>1, <2>3, ListsAfter, OwnLists DEF Saving
  <2>5. QED
    BY <1>0, <2>1, <2>3, <2>4, ArchivesKept
<1>5. CASE SaveReturns(c) \/ SaveFails(c)
  <2>1. UNCHANGED <<board, archives>> /\ put'[c] = NoPut
        /\ (load'[c] = load[c] \/ load'[c] = [phase |-> "asked"])
    BY <1>0, <1>5 DEF SaveReturns, SaveFails, AskLoad, PutTyped, LoadTyped
  <2>2. put'[c] \notin Archivings /\ put'[c] \notin Saves
    BY <2>1 DEF NoPut, Archivings, Saves
  <2>3. Lists' \subseteq Lists
    BY <1>0, <2>1, <2>2, ListsAfter, OwnLists
  <2>4. QED
    BY <1>0, <2>1, <2>2, <2>3, ArchivesKept
<1>6. CASE PollStep(c) \/ LoadFails(c)
  <2>1. UNCHANGED <<archives, put>>
    BY <1>6 DEF PollStep, PollReads, PollReturns, LoadReads, LoadReturns, LoadFails
  <2>2. board'[c] = board[c] \/ (load[c].phase = "read" /\ board'[c] = load[c].board)
    BY <1>0, <1>6
    DEF PollStep, PollReads, PollReturns, LoadReads, LoadReturns, LoadFails, CopiesTyped
  <2>3. \/ load'[c] = load[c] \/ load'[c] = NoLoad \/ load'[c] = [phase |-> "asked"]
        \/ load'[c] = [phase |-> "read", sha |-> remote.sha, board |-> remote.board]
    BY <1>0, <1>6
    DEF PollStep, PollReads, PollReturns, LoadReads, LoadReturns, LoadFails, AskLoad, LoadTyped
  <2>4. load'[c].phase = "read" => load'[c].board.archived \in Lists
    BY <2>3, OwnLists DEF NoLoad
  <2>5. Lists' \subseteq Lists
    BY <1>0, <2>1, <2>2, <2>4, ListsAfter, OwnLists DEF Saving
  <2>6. QED
    BY <1>0, <2>1, <2>5, ArchivesKept
<1>7. QED
  BY <1>1, <1>2, <1>3, <1>4, <1>5, <1>6 DEF PutStep

LEMMA InitArchives == Init => ArchiveInv
<1> SUFFICES ASSUME Init PROVE ArchiveInv
  OBVIOUS
<1>1. \A c \in Clients : ~Saving(c) /\ ~Archiving(c) /\ load[c].phase # "read"
  BY DEF Init, Saving, Saves, Archiving, Archivings, NoPut, NoLoad
<1>2. \A a \in Lists : a = <<>>
  BY <1>1 DEF Init, Lists, EmptyBoard
<1>3. QED
  BY <1>1, <1>2 DEF ArchiveInv, ListInv, ListsOnlyFiles, CreatedInv, Created

LEMMA NextArchives == BoardTypeInv /\ ArchiveInv /\ [Next]_vars => ArchiveInv'
<1>1. BoardTypeInv /\ ArchiveInv /\ Next => ArchiveInv'
  BY UserArchives, ServerArchives DEF Next
<1>2. ArchiveInv /\ UNCHANGED vars => ArchiveInv'
  BY DEF vars, ArchiveInv, ListInv, ListsOnlyFiles, CreatedInv, Lists, Created, Saving, Archiving
<1>3. QED
  BY <1>1, <1>2

\* The board lists as archived only what is in the file it names, and no file
\* twice: for any users and any polls.
THEOREM ListedIsArchived == Spec => []ArchivesExist
<1>1. Init => BoardTypeInv /\ ArchiveInv
  BY InitBoardTypes, InitArchives
<1>2. (BoardTypeInv /\ ArchiveInv) /\ [Next]_vars => (BoardTypeInv /\ ArchiveInv)'
  BY NextBoardTypes, NextArchives
<1>3. ArchiveInv => ArchivesExist
  BY DEF ArchiveInv, ListInv, ListsOnlyFiles, Lists, ArchivesExist
<1>4. QED
  BY <1>1, <1>2, <1>3, PTL DEF Spec

-----------------------------------------------------------------------------
(* Ticks.  What tells the copies of the board apart is their line: the        *)
(* current tick and those archived.  A card's change keeps it.  Where users   *)
(* are careful, two lines with as many archived ticks are one; the line of    *)
(* the repository only grows; and whoever has created file n still has the    *)
(* board with n - 1 archived ticks, because nobody else can list that file.   *)

Line(b) == [tick |-> b.tick, archived |-> b.archived]
Depth(b) == Len(b.archived)

Lines ==
  {Line(remote.board)}
    \union {Line(board[c]) : c \in Clients}
    \union {Line(put[c].board) : c \in {d \in Clients : Saving(d)}}
    \union {Line(load[c].board) : c \in {d \in Clients : load[d].phase = "read"}}

Sound(b) ==
  /\ \A i \in 1 .. Len(b.archived) : b.archived[i].file = i
  /\ \A i, j \in 1 .. Len(b.archived) : b.archived[i].tick = b.archived[j].tick => i = j
  /\ \A i \in 1 .. Len(b.archived) : b.archived[i].tick # b.tick

Agree(b, d) == Depth(b) = Depth(d) => Line(b) = Line(d)

LineInv ==
  /\ \A l \in Lines : Sound(l)
  /\ \A l, m \in Lines : Agree(l, m)

AheadInv(c) ==
  /\ sha[c] = remote.sha => Depth(remote.board) <= Depth(board[c])
  /\ Saving(c) /\ put[c].phase = "sent" /\ put[c].base = remote.sha =>
       Depth(remote.board) <= Depth(put[c].board)

KnownInv(c) ==
  /\ unsaved[c] = {} => Depth(board[c]) <= Depth(remote.board)
  /\ Saving(c) /\ put[c].phase = "ok" => Depth(board[c]) <= Depth(remote.board)
  /\ load[c].phase = "read" => Depth(load[c].board) <= Depth(remote.board)

\* The archive file of p can only be listed on board b, with n as the next
\* tick, if b is the board that p was made from.
Serves(b, p, n) ==
  /\ 1 <= p.file /\ p.file <= Depth(b) + 1
  /\ p.file = Depth(b) + 1 => p.tick = b.tick /\ n \notin TicksOf(b)

CompletingInv(c) ==
  Archiving(c) /\ put[c].phase # "failed" =>
    /\ dialog[c].kind = "wizard"
    /\ Serves(remote.board, put[c], dialog[c].next)
    /\ Serves(board[c], put[c], dialog[c].next)
    /\ load[c].phase = "read" => Serves(load[c].board, put[c], dialog[c].next)

ClientTickInv(c) == AheadInv(c) /\ KnownInv(c) /\ CompletingInv(c)

TickInv == LineInv /\ \A c \in Clients : ClientTickInv(c)

\* The numbers of archived ticks in all copies.
LEMMA Depths ==
  ASSUME BoardTypeInv, NEW c \in Clients
  PROVE  /\ Depth(remote.board) \in Nat /\ Depth(board[c]) \in Nat
         /\ Saving(c) => Depth(put[c].board) \in Nat
         /\ Archiving(c) => put[c].file \in Nat
         /\ load[c].phase = "read" => Depth(load[c].board) \in Nat
  BY LoadKinds DEF BoardTypeInv, RemoteTyped, CopiesTyped, Saving, Saves, Archiving, Archivings,
     Boards, Depth

LEMMA OwnLines ==
  ASSUME NEW d \in Clients
  PROVE  /\ Line(remote.board) \in Lines /\ Line(board[d]) \in Lines
         /\ Saving(d) => Line(put[d].board) \in Lines
         /\ load[d].phase = "read" => Line(load[d].board) \in Lines
  BY DEF Lines

\* Two boards whose lines are among those of LineInv agree.
LEMMA LinesAgree ==
  ASSUME LineInv, NEW b, NEW d, Line(b) \in Lines, Line(d) \in Lines
  PROVE  Agree(b, d)
<1>1. Agree(Line(b), Line(d))
  BY DEF LineInv
<1>2. Depth(Line(b)) = Depth(b) /\ Line(Line(b)) = Line(b)
      /\ Depth(Line(d)) = Depth(d) /\ Line(Line(d)) = Line(d)
  BY DEF Depth, Line
<1>3. QED
  BY <1>1, <1>2 DEF Agree

\* A board with more archived ticks, or with the same line, serves as well.
LEMMA ServesDeeper ==
  ASSUME NEW b, NEW d, NEW p, NEW n, Serves(b, p, n), Depth(b) <= Depth(d), Agree(b, d),
         Depth(b) \in Nat, Depth(d) \in Nat, p.file \in Nat
  PROVE  Serves(d, p, n)
<1>1. CASE p.file = Depth(d) + 1
  <2>1. Depth(b) = Depth(d)
    BY <1>1 DEF Serves
  <2>2. b.tick = d.tick /\ b.archived = d.archived
    BY <2>1 DEF Agree, Line
  <2>3. QED
    BY <2>1, <2>2 DEF Serves, TicksOf
<1>2. CASE p.file # Depth(d) + 1
  BY <1>2 DEF Serves
<1>3. QED
  BY <1>1, <1>2

-----------------------------------------------------------------------------
\* After a step of d the lines are those before it and those d has now.
LEMMA LinesAfter ==
  ASSUME BoardTypeInv, NEW d \in Clients, Step(d), NEW A, Lines \subseteq A,
         Line(board'[d]) \in A,
         put'[d] \in Saves => Line(put'[d].board) \in A,
         load'[d].phase = "read" => Line(load'[d].board) \in A
  PROVE  Lines' \subseteq A
<1>1. Line(remote'.board) \in A
  <2>1. remote' = remote \/ PutAccepted(d)
    BY RemoteByAccept DEF Step
  <2>2. CASE remote' = remote
    BY <2>2, OwnLines
  <2>3. CASE PutAccepted(d)
    BY <2>3, OwnLines, PutKinds DEF PutAccepted, BoardTypeInv, Phases
  <2>4. QED
    BY <2>1, <2>2, <2>3
<1>2. ASSUME NEW c \in Clients
      PROVE  /\ Line(board'[c]) \in A
             /\ put'[c] \in Saves => Line(put'[c].board) \in A
             /\ load'[c].phase = "read" => Line(load'[c].board) \in A
  <2>1. CASE c = d
    BY <2>1
  <2>2. CASE c # d
    <3>1. board'[c] = board[c] /\ put'[c] = put[c] /\ load'[c] = load[c]
      BY <2>2, OthersUntouched DEF Step
    <3>2. QED
      BY <3>1, OwnLines DEF Saving
  <2>3. QED
    BY <2>1, <2>2
<1>3. QED
  BY <1>1, <1>2 DEF Lines, Saving

\* A user makes no new line: cards change, or the board is loaded.
LEMMA UserLines ==
  ASSUME BoardTypeInv, NEW c \in Clients, UserStep(c)
  PROVE  Lines' \subseteq Lines
<1>0. RemoteTyped /\ CopiesTyped /\ DialogTyped /\ PutTyped /\ LoadTyped /\ Step(c)
  BY DEF BoardTypeInv, Step
<1>1. ASSUME NEW b, NEW k, NEW w, NEW part, NEW v, Send(c, k, b, w, part, v),
             Line(b) = Line(board[c]), board'[c] = b, load' = load
      PROVE  Lines' \subseteq Lines
  <2>1. put'[c] = [phase |-> "sent", kind |-> k, base |-> sha[c], board |-> b, what |-> w,
                   part |-> part, value |-> v]
    BY <1>0, <1>1 DEF Send, PutTyped
  <2>2. put'[c].board = b
    BY <2>1
  <2>3. QED
    BY <1>0, <1>1, <2>2, LinesAfter, OwnLines
<1>2. ASSUME NEW x \in Cards, NEW k, ChangeCard(c, x, k), load' = load
      PROVE  Lines' \subseteq Lines
  <2> DEFINE b == [board[c] EXCEPT !.cards[x] = changes + 1]
  <2>1. Line(b) = Line(board[c])
    BY <1>0 DEF CopiesTyped, Boards, Line
  <2>2. board'[c] = b /\ Send(c, k, b, unsaved'[c], x, changes + 1)
    BY <1>0, <1>2 DEF ChangeCard, CopiesTyped
  <2> HIDE DEF b
  <2>3. QED
    BY <1>1, <1>2, <2>1, <2>2
<1>3. ASSUME NEW x \in Cards, Drop(c, x) \/ AddCard(c, x) PROVE Lines' \subseteq Lines
  BY <1>2, <1>3 DEF Drop, AddCard
<1>4. CASE SaveEdit(c)
  <2>1. dialog[c].card \in Cards /\ load' = load
    BY <1>0, <1>4, DialogKinds DEF SaveEdit
  <2>2. CASE ChangeCard(c, dialog[c].card, "edit")
    BY <1>2, <2>1, <2>2
  <2>3. CASE /\ Send(c, "edit", board[c], unsaved[c], dialog[c].card, changes + 1)
             /\ UNCHANGED board
    BY <1>1, <2>1, <2>3
  <2>4. QED
    BY <1>4, <2>2, <2>3 DEF SaveEdit
<1>5. CASE DeleteCard(c)
  <2>1. dialog[c].card \in Cards /\ load' = load
    BY <1>0, <1>5, DialogKinds DEF DeleteCard
  <2>2. QED
    BY <1>2, <1>5, <2>1 DEF DeleteCard
<1>6. ASSUME \/ \E x \in Cards : OpenEditor(c, x)
             \/ CloseDialog(c) \/ OpenCompleteTickWizard(c)
             \/ \E n \in TickIds : TypeNextTick(c, n)
      PROVE  Lines' \subseteq Lines
  <2>1. UNCHANGED <<board, put, load>>
    BY <1>6 DEF OpenEditor, CloseDialog, OpenCompleteTickWizard, TypeNextTick
  <2>2. QED
    BY <1>0, <2>1, LinesAfter, OwnLines DEF Saving
<1>7. CASE DoCompleteTick(c)
  <2>1. UNCHANGED <<board, load>>
        /\ put'[c] = [phase |-> "sent", kind |-> "archive", tick |-> board[c].tick,
                      file |-> NextArchiveNumber(board[c])]
    BY <1>0, <1>7 DEF DoCompleteTick, PutTyped
  <2>2. put'[c] \notin Saves
    BY <2>1 DEF Saves
  <2>3. QED
    BY <1>0, <2>1, <2>2, LinesAfter, OwnLines
<1>8. CASE ReloadBoard(c)
  <2>1. UNCHANGED <<board, put>> /\ (load'[c] = load[c] \/ load'[c] = [phase |-> "asked"])
    BY <1>0, <1>8 DEF ReloadBoard, AskLoad, LoadTyped
  <2>2. QED
    BY <1>0, <2>1, LinesAfter, OwnLines DEF Saving
<1>9. CASE Bootstrap(c)
  <2>1. board'[c] = remote.board /\ put'[c] = NoPut /\ load'[c] = NoLoad
    BY <1>0, <1>9 DEF Bootstrap, CopiesTyped, PutTyped, LoadTyped
  <2>2. put'[c] \notin Saves /\ load'[c].phase # "read"
    BY <2>1 DEF NoPut, NoLoad, Saves
  <2>3. QED
    BY <1>0, <2>1, <2>2, LinesAfter, OwnLines
<1>10. QED
  BY <1>3, <1>4, <1>5, <1>6, <1>7, <1>8, <1>9 DEF UserStep

\* Nor does the server, but when an archive file was written.
LEMMA ServerLines ==
  ASSUME BoardTypeInv, NEW c \in Clients,
         PutStep(c) \/ PollStep(c) \/ RequestLost(c) \/ LoadFails(c),
         ~(ArchiveReturns(c) /\ put[c].phase = "ok")
  PROVE  Lines' \subseteq Lines
<1>0. RemoteTyped /\ CopiesTyped /\ PutTyped /\ LoadTyped /\ Step(c)
  BY DEF BoardTypeInv, Step
<1>1. CASE ArchiveArrives(c) \/ PutRefused(c) \/ RequestLost(c)
  <2>1. UNCHANGED <<board, load>> /\ put[c].phase \in Phases
        /\ \E p \in Phases : put' = [put EXCEPT ![c].phase = p]
    BY <1>1 DEF ArchiveArrives, PutRefused, RequestLost, Phases
  <2>2. PICK p \in Phases : put'[c] = [put[c] EXCEPT !.phase = p]
    BY <1>0, <2>1 DEF PutTyped
  <2>3. put[c] \in Saves \union Archivings
    BY <1>0, <2>1, PutKinds DEF Saving, Archiving
  <2>4. put'[c] \in Saves => put[c] \in Saves /\ put'[c].board = put[c].board
    BY <2>2, <2>3 DEF Saves, Archivings
  <2>5. QED
    BY <1>0, <2>1, <2>4, LinesAfter, OwnLines DEF Saving
<1>2. CASE ArchiveReturns(c) /\ put[c].phase # "ok"
  <2>1. UNCHANGED <<board, load>> /\ put'[c] = NoPut
    BY <1>0, <1>2 DEF ArchiveReturns, PutTyped
  <2>2. put'[c] \notin Saves
    BY <2>1 DEF NoPut, Saves
  <2>3. QED
    BY <1>0, <2>1, <2>2, LinesAfter, OwnLines
<1>3. CASE PutAccepted(c)
  <2>1. put[c] \in Saves /\ UNCHANGED <<board, load>>
    BY <1>0, <1>3, PutKinds DEF PutAccepted, Phases, Saving, Archiving
  <2>2. put'[c] = [put[c] EXCEPT !.phase = "ok", !.base = remote.sha + 1]
    BY <1>0, <1>3 DEF PutAccepted, PutTyped
  <2>3. put'[c].board = put[c].board
    BY <2>1, <2>2 DEF Saves
  <2>4. QED
    BY <1>0, <2>1, <2>3, LinesAfter, OwnLines DEF Saving
<1>4. CASE SaveReturns(c) \/ SaveFails(c)
  <2>1. UNCHANGED board /\ put'[c] = NoPut
        /\ (load'[c] = load[c] \/ load'[c] = [phase |-> "asked"])
    BY <1>0, <1>4 DEF SaveReturns, SaveFails, AskLoad, PutTyped, LoadTyped
  <2>2. put'[c] \notin Saves
    BY <2>1 DEF NoPut, Saves
  <2>3. QED
    BY <1>0, <2>1, <2>2, LinesAfter, OwnLines
<1>5. CASE PollStep(c) \/ LoadFails(c)
  <2>1. put' = put
    BY <1>5 DEF PollStep, PollReads, PollReturns, LoadReads, LoadReturns, LoadFails
  <2>2. board'[c] = board[c] \/ (load[c].phase = "read" /\ board'[c] = load[c].board)
    BY <1>0, <1>5
    DEF PollStep, PollReads, PollReturns, LoadReads, LoadReturns, LoadFails, CopiesTyped
  <2>3. \/ load'[c] = load[c] \/ load'[c] = NoLoad \/ load'[c] = [phase |-> "asked"]
        \/ load'[c] = [phase |-> "read", sha |-> remote.sha, board |-> remote.board]
    BY <1>0, <1>5
    DEF PollStep, PollReads, PollReturns, LoadReads, LoadReturns, LoadFails, AskLoad, LoadTyped
  <2>4. load'[c].phase = "read" => Line(load'[c].board) \in Lines
    BY <2>3, OwnLines DEF NoLoad
  <2>5. QED
    BY <1>0, <2>1, <2>2, <2>4, LinesAfter, OwnLines DEF Saving
<1>6. QED
  BY <1>1, <1>2, <1>3, <1>4, <1>5 DEF PutStep

-----------------------------------------------------------------------------
\* A client whose own state stays, while the board of the repository stays or
\* gets a new version with the same line or a longer one.
LEMMA TickOthers ==
  ASSUME BoardTypeInv, BoardTypeInv', NEW c \in Clients, ClientTickInv(c), ClientInv(c),
         board'[c] = board[c], sha'[c] = sha[c], unsaved'[c] = unsaved[c],
         put'[c] = put[c], load'[c] = load[c],
         dialog'[c] = dialog[c] \/ put[c] = NoPut,
         \/ remote' = remote
         \/ /\ remote'.sha = remote.sha + 1 /\ Depth(remote.board) <= Depth(remote'.board)
            /\ Agree(remote.board, remote'.board)
  PROVE  ClientTickInv(c)'
<1>0. /\ remote.sha \in Nat /\ sha[c] \in Nat /\ (Saving(c) => put[c].base \in Nat)
      /\ Depth(remote.board) \in Nat /\ Depth(remote'.board) \in Nat
  BY DEF BoardTypeInv, RemoteTyped, CopiesTyped, Boards, Saving, Saves, Depth
<1>1. /\ AheadInv(c) /\ KnownInv(c) /\ CompletingInv(c)
      /\ sha[c] <= remote.sha
      /\ Saving(c) /\ put[c].phase = "sent" => put[c].base <= remote.sha
  BY DEF ClientTickInv, ClientInv, CopyInv, SentInv
<1>2. Saving(c)' = Saving(c) /\ Archiving(c)' = Archiving(c)
  BY DEF Saving, Archiving
<1>3. /\ Depth(remote.board) <= Depth(remote'.board)
      /\ Depth(board[c]) \in Nat /\ (Archiving(c) => put[c].file \in Nat)
      /\ load[c].phase = "read" => Depth(load[c].board) \in Nat
  BY <1>0, Depths
<1>4. AheadInv(c)'
  BY <1>0, <1>1, <1>2 DEF AheadInv
<1>5. KnownInv(c)'
  BY <1>0, <1>1, <1>2, <1>3 DEF KnownInv
<1>6. CompletingInv(c)'
  <2> SUFFICES ASSUME Archiving(c), put[c].phase # "failed" PROVE CompletingInv(c)'
    BY <1>2 DEF CompletingInv
  <2>1. put[c] # NoPut
    BY PutKinds DEF BoardTypeInv
  <2>2. dialog'[c] = dialog[c]
    BY <2>1
  <2>3. Serves(remote.board, put[c], dialog[c].next)
    BY <1>1 DEF CompletingInv
  <2>4. Agree(remote.board, remote'.board)
    BY DEF Agree
  <2>5. Serves(remote'.board, put[c], dialog[c].next)
    BY <1>0, <1>3, <2>3, <2>4, ServesDeeper
  <2>6. QED
    BY <1>1, <2>2, <2>5 DEF CompletingInv
<1>7. QED
  BY <1>4, <1>5, <1>6 DEF ClientTickInv

\* A copy is sent that has its own changes and no shorter line.
LEMMA TickSend ==
  ASSUME BoardTypeInv, NEW c \in Clients, ClientTickInv(c),
         NEW k \in {"drop", "edit", "delete", "tick"}, NEW b \in Boards, NEW w, NEW part, NEW v,
         Send(c, k, b, w, part, v), board'[c] = b, unsaved'[c] # {},
         Depth(board[c]) <= Depth(b), UNCHANGED <<remote, sha, load>>
  PROVE  ClientTickInv(c)'
<1>0. put'[c] = [phase |-> "sent", kind |-> k, base |-> sha[c], board |-> b, what |-> w,
                 part |-> part, value |-> v]
  BY DEF Send, BoardTypeInv, PutTyped
<1>1. /\ put'[c].phase = "sent" /\ put'[c].base = sha[c] /\ put'[c].board = b
      /\ put'[c] \notin Archivings
  BY <1>0 DEF Archivings
<1>2. Depth(b) \in Nat
  BY DEF Depth, Boards
<1>3. sha[c] = remote.sha => Depth(remote.board) <= Depth(b)
  BY <1>2, Depths DEF ClientTickInv, AheadInv
<1>4. AheadInv(c)'
  BY <1>1, <1>3 DEF AheadInv
<1>5. KnownInv(c)'
  BY <1>1 DEF ClientTickInv, KnownInv
<1>6. CompletingInv(c)'
  BY <1>1 DEF CompletingInv, Archiving
<1>7. QED
  BY <1>4, <1>5, <1>6 DEF ClientTickInv

\* A client without a PUT of its own.
LEMMA TickIdle ==
  ASSUME NEW c \in Clients, put'[c] = NoPut,
         sha'[c] = remote'.sha => Depth(remote'.board) <= Depth(board'[c]),
         unsaved'[c] = {} => Depth(board'[c]) <= Depth(remote'.board),
         load'[c].phase = "read" => Depth(load'[c].board) <= Depth(remote'.board)
  PROVE  ClientTickInv(c)'
<1>1. ~Saving(c)' /\ ~Archiving(c)'
  BY DEF Saving, Saves, Archiving, Archivings, NoPut
<1>2. QED
  BY <1>1 DEF ClientTickInv, AheadInv, KnownInv, CompletingInv

LEMMA TickChange ==
  ASSUME BoardTypeInv, NEW c \in Clients, ClientTickInv(c), NEW x \in Cards,
         NEW k \in {"drop", "edit", "delete"}, ChangeCard(c, x, k), UNCHANGED <<remote, sha, load>>
  PROVE  ClientTickInv(c)'
<1> DEFINE b == [board[c] EXCEPT !.cards[x] = changes + 1]
<1>0. board[c] \in Boards /\ changes + 1 \in Nat
      /\ board \in [Clients -> Boards] /\ unsaved \in [Clients -> SUBSET Parts]
  BY DEF BoardTypeInv, CopiesTyped
<1>1. b \in Boards /\ Depth(b) = Depth(board[c])
  BY <1>0 DEF Boards, Depth
<1>2. board'[c] = b /\ unsaved'[c] # {} /\ Send(c, k, b, unsaved'[c], x, changes + 1)
  BY <1>0 DEF ChangeCard
<1> HIDE DEF b
<1>3. Depth(board[c]) <= Depth(b)
  BY <1>1, Depths
<1>4. k \in {"drop", "edit", "delete", "tick"}
  OBVIOUS
<1>5. QED
  BY <1>1, <1>2, <1>3, <1>4, TickSend

LEMMA UserTicks ==
  ASSUME BoardTypeInv, BoardTypeInv', LineInv, NEW c \in Clients, ClientTickInv(c), ClientInv(c),
         UserStep(c), Careful
  PROVE  ClientTickInv(c)'
<1>0. RemoteTyped /\ CopiesTyped /\ DialogTyped /\ PutTyped /\ LoadTyped
  BY DEF BoardTypeInv
<1>1. ASSUME NEW x \in Cards, Drop(c, x) \/ AddCard(c, x) PROVE ClientTickInv(c)'
  <2>1. \E k \in {"drop", "edit"} : ChangeCard(c, x, k)
    BY <1>1 DEF Drop, AddCard
  <2>2. UNCHANGED <<remote, sha, load>>
    BY <1>1 DEF Drop, AddCard
  <2>3. QED
    BY <2>1, <2>2, TickChange
<1>2. CASE SaveEdit(c) \/ DeleteCard(c)
  <2>1. dialog[c].card \in Cards /\ \E k \in {"edit", "delete"} : ChangeCard(c, dialog[c].card, k)
    BY <1>0, <1>2, DialogKinds DEF SaveEdit, DeleteCard
  <2>2. UNCHANGED <<remote, sha, load>>
    BY <1>2 DEF SaveEdit, DeleteCard
  <2>3. QED
    BY <2>1, <2>2, TickChange
<1>3. ASSUME \/ \E x \in Cards : OpenEditor(c, x)
             \/ CloseDialog(c) \/ OpenCompleteTickWizard(c)
             \/ \E n \in TickIds : TypeNextTick(c, n)
      PROVE  ClientTickInv(c)'
  <2>1. UNCHANGED <<remote, board, sha, unsaved, put, load>>
    BY <1>3 DEF OpenEditor, CloseDialog, OpenCompleteTickWizard, TypeNextTick
  <2>2. dialog[c] = NoDialog \/ put[c] = NoPut
    BY <1>3 DEF OpenEditor, CloseDialog, OpenCompleteTickWizard, TypeNextTick
  <2>3. CASE put[c] = NoPut
    BY <2>1, <2>3, TickOthers
  <2>4. CASE dialog[c] = NoDialog
    <3>1. ~Archiving(c)' \/ put'[c].phase = "failed"
      BY <2>1, <2>4 DEF ClientTickInv, CompletingInv, NoDialog, Archiving
    <3>2. CompletingInv(c)'
      BY <3>1 DEF CompletingInv
    <3>3. AheadInv(c)' /\ KnownInv(c)'
      BY <2>1 DEF ClientTickInv, AheadInv, KnownInv, Saving
    <3>4. QED
      BY <3>2, <3>3 DEF ClientTickInv
  <2>5. QED
    BY <2>2, <2>3, <2>4
<1>4. CASE DoCompleteTick(c)
  <2>0. /\ dialog[c].kind = "wizard" /\ dialog[c].next \notin TicksOf(board[c])
        /\ unsaved[c] = {} /\ load[c] = NoLoad
        /\ UNCHANGED <<remote, board, sha, unsaved, dialog, load>>
    BY <1>4 DEF DoCompleteTick, MaySend
  <2> DEFINE p == [phase |-> "sent", kind |-> "archive", tick |-> board[c].tick,
                   file |-> NextArchiveNumber(board[c])]
  <2>1. put'[c] = p
    BY <1>0, <1>4 DEF DoCompleteTick, PutTyped
  <2>2. p \notin Saves /\ p.tick = board[c].tick /\ p.file = Depth(board[c]) + 1
    BY DEF Saves, NextArchiveNumber, Depth
  <2> HIDE DEF p
  <2>3. Serves(board[c], p, dialog[c].next)
    BY <2>0, <2>2, Depths DEF Serves
  <2>4. Serves(remote.board, p, dialog[c].next)
    <3>1. Depth(board[c]) <= Depth(remote.board)
      BY <2>0 DEF ClientTickInv, KnownInv
    <3>2. Agree(board[c], remote.board)
      BY LinesAgree, OwnLines
    <3>3. QED
      BY <2>2, <2>3, <3>1, <3>2, Depths, ServesDeeper
  <2>5. CompletingInv(c)'
    <3>1. UNCHANGED <<remote, board, dialog>> /\ dialog[c].kind = "wizard" /\ load'[c].phase # "read"
      BY <2>0 DEF NoLoad
    <3>2. Serves(remote'.board, put'[c], dialog'[c].next) /\ Serves(board'[c], put'[c], dialog'[c].next)
      BY <2>1, <2>3, <2>4, <3>1
    <3>3. QED
      BY <3>1, <3>2 DEF CompletingInv
  <2>6. AheadInv(c)' /\ KnownInv(c)'
    BY <2>0, <2>1, <2>2 DEF ClientTickInv, AheadInv, KnownInv, Saving
  <2>7. QED
    BY <2>5, <2>6 DEF ClientTickInv
<1>5. CASE ReloadBoard(c)
  <2>1. put'[c] = NoPut /\ UNCHANGED <<remote, board, sha, unsaved>>
    BY <1>5 DEF ReloadBoard
  <2>2. load'[c] = [phase |-> "asked"]
    BY <1>0, <1>5 DEF ReloadBoard, AskLoad, LoadTyped
  <2>3. QED
    BY <2>1, <2>2, TickIdle DEF ClientTickInv, AheadInv, KnownInv
<1>6. CASE Bootstrap(c)
  <2>1. /\ remote' = remote /\ board'[c] = remote.board /\ put'[c] = NoPut /\ load'[c] = NoLoad
    BY <1>0, <1>6 DEF Bootstrap, CopiesTyped, PutTyped, LoadTyped
  <2>2. load'[c].phase # "read" /\ Depth(remote.board) <= Depth(remote.board)
    BY <2>1, Depths DEF NoLoad
  <2>3. QED
    BY <2>1, <2>2, TickIdle
<1>7. QED
  BY <1>1, <1>2, <1>3, <1>4, <1>5, <1>6 DEF UserStep

\* A tick is completed on the board it was archived from: the line that this
\* makes is longer than all others, and sound.
LEMMA CompletedLine ==
  ASSUME BoardTypeInv, ArchiveInv, LineInv, NEW c \in Clients, ClientTickInv(c), Created(c)
  PROVE  /\ dialog[c].kind = "wizard" /\ dialog[c].next \in Nat
         /\ Completed(board[c], put[c], dialog[c].next) \in Boards
         /\ Sound(Completed(board[c], put[c], dialog[c].next))
         /\ Depth(board[c]) <= Depth(Completed(board[c], put[c], dialog[c].next))
         /\ \A l \in Lines : Depth(l) # Depth(Completed(board[c], put[c], dialog[c].next))
<1> DEFINE a == board[c].archived
           b == Completed(board[c], put[c], dialog[c].next)
           e == [tick |-> put[c].tick, file |-> put[c].file]
<1>0. /\ board[c] \in Boards /\ put[c] \in Archivings /\ DialogTyped
  BY DEF BoardTypeInv, CopiesTyped, Created, Archiving
<1>1. /\ dialog[c].kind = "wizard" /\ dialog[c].next \in Nat
      /\ Serves(board[c], put[c], dialog[c].next)
      /\ put[c].tick \in Nat /\ put[c].file \in Nat
  BY <1>0, DialogKinds DEF Created, ClientTickInv, CompletingInv, Archivings
<1>2. Len(a) \in Nat /\ a \in Seq(Entries) /\ e \in Entries
  BY <1>0 DEF Boards, Archivings, Entries
<1>3. /\ \A i \in 1 .. Len(a) : a[i].file = i /\ a[i].tick # board[c].tick
      /\ \A i, j \in 1 .. Len(a) : a[i].tick = a[j].tick => i = j
  <2>1. Sound(Line(board[c]))
    BY OwnLines DEF LineInv
  <2>2. QED
    BY <2>1 DEF Sound, Line
<1>4. \A l \in Lines : put[c].file \notin 1 .. Len(l.archived)
  <2> SUFFICES ASSUME NEW l \in Lines, put[c].file \in 1 .. Len(l.archived) PROVE FALSE
    OBVIOUS
  <2>1. l.archived[put[c].file].file = put[c].file
    BY DEF LineInv, Sound
  <2>2. l.archived \in Lists
    BY DEF Lines, Lists, Line
  <2>3. QED
    BY <2>1, <2>2 DEF ArchiveInv, CreatedInv
<1>5. /\ put[c].file = Len(a) + 1 /\ put[c].tick = board[c].tick
      /\ dialog[c].next \notin TicksOf(board[c])
  <2>1. put[c].file \notin 1 .. Len(a)
    BY <1>4, OwnLines DEF Line
  <2> HIDE DEF a
  <2>2. 1 <= put[c].file /\ put[c].file <= Len(a) + 1
    BY <1>1 DEF Serves, Depth, a
  <2>3. put[c].file = Len(a) + 1
    BY <1>1, <1>2, <2>1, <2>2
  <2>4. QED
    BY <1>1, <2>3 DEF Serves, Depth, a
<1>6. b \in Boards /\ b.archived = Append(a, e) /\ b.tick = dialog[c].next
  <2>1. b \in Boards /\ b.archived = Append(a, e)
    BY <1>0, <1>1, ListedTyped
  <2>2. b.tick = dialog[c].next
    BY <1>0 DEF Completed, Listed, Boards
  <2>3. QED
    BY <2>1, <2>2
<1>7. dialog[c].next # e.tick /\ \A i \in 1 .. Len(a) : a[i].tick # dialog[c].next
  BY <1>5 DEF TicksOf
<1>8. e.file = Len(a) + 1 /\ e.tick = board[c].tick
  BY <1>5
<1> HIDE DEF a, b, e
<1>9. /\ Len(b.archived) = Len(a) + 1 /\ b.archived[Len(a) + 1] = e
      /\ \A i \in 1 .. Len(a) : b.archived[i] = a[i]
  BY <1>2, <1>6
<1>10. \A i \in 1 .. Len(b.archived) : i \in 1 .. Len(a) \/ i = Len(a) + 1
  BY <1>2, <1>9
<1>11. Sound(b)
  <2>1. ASSUME NEW i \in 1 .. Len(b.archived)
        PROVE  b.archived[i].file = i /\ b.archived[i].tick # b.tick
    BY <1>3, <1>6, <1>7, <1>8, <1>9, <1>10
  <2>2. ASSUME NEW i \in 1 .. Len(b.archived), NEW j \in 1 .. Len(b.archived),
               b.archived[i].tick = b.archived[j].tick
        PROVE  i = j
    BY <1>3, <1>8, <1>9, <1>10, <2>2
  <2>3. QED
    BY <2>1, <2>2 DEF Sound
<1>12. Depth(board[c]) <= Depth(b)
  BY <1>2, <1>9 DEF Depth, a
<1>13. ASSUME NEW l \in Lines, Depth(l) = Depth(b)
       PROVE  FALSE
  <2>1. Len(l.archived) = Len(a) + 1 /\ put[c].file = Len(a) + 1
    BY <1>5, <1>9, <1>13 DEF Depth, a
  <2>2. QED
    BY <1>2, <1>4, <2>1
<1>14. QED
  BY <1>1, <1>6, <1>11, <1>12, <1>13 DEF b

\* The lines after any step of a client.
LEMMA NextLines ==
  ASSUME BoardTypeInv, ArchiveInv, TickInv, NEW d \in Clients, Step(d)
  PROVE  LineInv'
<1>0. CopiesTyped /\ PutTyped /\ LineInv /\ ClientTickInv(d)
  BY DEF BoardTypeInv, TickInv
<1>1. CASE Lines' \subseteq Lines
  BY <1>0, <1>1 DEF LineInv
<1>2. CASE ArchiveReturns(d) /\ put[d].phase = "ok"
  <2> DEFINE copy == Completed(board[d], put[d], dialog[d].next)
  <2>0. Archiving(d) /\ Created(d) /\ load' = load
    BY <1>0, <1>2, PutKinds DEF ArchiveReturns, Created, Phases
  <2>1. /\ dialog[d].kind = "wizard" /\ copy \in Boards /\ Sound(copy)
        /\ \A l \in Lines : Depth(l) # Depth(copy)
    BY <1>0, <2>0, CompletedLine
  <2>2. TakesCopy(d, copy) /\ Send(d, "tick", copy, unsaved'[d], Tick, dialog[d].next)
    BY <1>2, <2>1 DEF ArchiveReturns
  <2> HIDE DEF copy
  <2>3. board'[d] = copy /\ put'[d].board = copy
    BY <1>0, <2>2 DEF TakesCopy, Send, CopiesTyped, PutTyped
  <2> DEFINE A == Lines \union {Line(copy)}
  <2>4. /\ Lines \subseteq A /\ Line(board'[d]) \in A /\ Line(put'[d].board) \in A
        /\ load'[d].phase = "read" => Line(load'[d].board) \in A
    BY <2>0, <2>3, OwnLines
  <2>5. Lines' \subseteq A
    <3> HIDE DEF A
    <3>1. QED
      BY <2>4, LinesAfter
  <2>6. Sound(Line(copy)) /\ Depth(Line(copy)) = Depth(copy)
    BY <2>1 DEF Sound, Line, Depth
  <2>7. \A l \in A : Sound(l)
    BY <1>0, <2>6 DEF LineInv
  <2>8. ASSUME NEW l \in A, NEW m \in A PROVE Agree(l, m)
    BY <1>0, <2>1, <2>6 DEF LineInv, Agree
  <2>9. QED
    BY <2>5, <2>7, <2>8 DEF LineInv
<1>3. QED
  BY <1>1, <1>2, UserLines, ServerLines DEF Step

\* What is accepted has the line of the current version or a longer one.
LEMMA AcceptedTick ==
  ASSUME BoardTypeInv, LineInv, NEW c \in Clients, ClientInv(c), ClientTickInv(c), PutAccepted(c)
  PROVE  /\ remote'.sha = remote.sha + 1 /\ remote'.board = put[c].board
         /\ Depth(remote.board) <= Depth(remote'.board)
         /\ Agree(remote.board, remote'.board)
         /\ put[c].board = board[c] /\ load[c] = NoLoad
<1>1. Saving(c) /\ put[c].phase = "sent" /\ put[c].base = remote.sha
      /\ remote' = [sha |-> remote.sha + 1, board |-> put[c].board]
  BY PutKinds DEF PutAccepted, BoardTypeInv, Phases
<1>2. put[c].board = board[c] /\ load[c] = NoLoad
  BY <1>1 DEF ClientInv, SentInv
<1>3. Depth(remote.board) <= Depth(put[c].board)
  BY <1>1 DEF ClientTickInv, AheadInv
<1>4. Agree(remote.board, put[c].board)
  BY <1>1, LinesAgree, OwnLines
<1>5. remote'.sha = remote.sha + 1 /\ remote'.board = put[c].board
  BY <1>1
<1>6. QED
  BY <1>2, <1>3, <1>4, <1>5

LEMMA ServerTicks ==
  ASSUME BoardTypeInv, BoardTypeInv', ArchiveInv, LineInv, NEW c \in Clients, ClientTickInv(c),
         ClientInv(c), PutStep(c) \/ PollStep(c) \/ RequestLost(c) \/ LoadFails(c)
  PROVE  ClientTickInv(c)'
<1>0. RemoteTyped /\ CopiesTyped /\ DialogTyped /\ PutTyped /\ LoadTyped
  BY DEF BoardTypeInv
<1>00. AheadInv(c) /\ KnownInv(c) /\ CompletingInv(c)
  BY DEF ClientTickInv
<1>1. ASSUME UNCHANGED <<remote, board, sha, unsaved, dialog, load>>, NEW p \in Phases,
             put' = [put EXCEPT ![c].phase = p], p = "failed" \/ Archiving(c), put[c].phase \in Phases,
             put[c].phase # "failed"
      PROVE  ClientTickInv(c)'
  <2>1. put[c] \in Saves \union Archivings /\ put'[c] = [put[c] EXCEPT !.phase = p]
    BY <1>0, <1>1, PutKinds DEF PutTyped, Saving, Archiving
  <2>2. /\ put'[c].phase = p
        /\ put[c] \in Saves => put'[c].board = put[c].board /\ put'[c] \notin Archivings
        /\ put[c] \in Archivings => /\ put'[c].file = put[c].file /\ put'[c].tick = put[c].tick
                                    /\ put'[c] \notin Saves
    BY <2>1 DEF Saves, Archivings
  <2>3. AheadInv(c)' /\ KnownInv(c)'
    BY <1>00, <1>1, <2>1, <2>2 DEF AheadInv, KnownInv, Saving, Archiving, Saves, Archivings
  <2>4. CompletingInv(c)'
    BY <1>00, <1>1, <2>1, <2>2 DEF CompletingInv, Archiving, Serves
  <2>5. QED
    BY <2>3, <2>4 DEF ClientTickInv
<1>2. CASE ArchiveArrives(c) \/ PutRefused(c) \/ RequestLost(c)
  <2>1. UNCHANGED <<remote, board, sha, unsaved, dialog, load>>
        /\ put[c].phase \in Phases /\ put[c].phase # "failed"
    BY <1>2 DEF ArchiveArrives, PutRefused, RequestLost, Phases
  <2>2. \E p \in Phases : /\ put' = [put EXCEPT ![c].phase = p]
                          /\ p = "failed" \/ put[c].kind = "archive"
    BY <1>2 DEF ArchiveArrives, PutRefused, RequestLost, Phases
  <2>3. QED
    BY <1>0, <1>1, <2>1, <2>2, PutKinds
<1>3. CASE ArchiveReturns(c)
  <2>0. /\ Archiving(c) /\ put[c].phase \in {"ok", "failed"}
        /\ UNCHANGED <<remote, sha, load>>
    BY <1>0, <1>3, PutKinds DEF ArchiveReturns, Phases
  <2>1. CASE put[c].phase = "ok"
    <3> DEFINE copy == Completed(board[c], put[c], dialog[c].next)
    <3>1. dialog[c].kind = "wizard" /\ copy \in Boards /\ Depth(board[c]) <= Depth(copy)
      BY <2>0, <2>1, CompletedLine DEF Created
    <3>2. TakesCopy(c, copy) /\ Send(c, "tick", copy, unsaved'[c], Tick, dialog[c].next)
      BY <1>3, <2>1, <3>1 DEF ArchiveReturns
    <3> HIDE DEF copy
    <3>3. board'[c] = copy /\ unsaved'[c] # {}
      BY <1>0, <3>2 DEF TakesCopy, CopiesTyped
    <3>4. QED
      BY <2>0, <3>1, <3>2, <3>3, TickSend
  <2>2. CASE put[c].phase = "failed"
    <3>1. put'[c] = NoPut /\ UNCHANGED <<board, unsaved>>
      BY <1>0, <1>3, <2>2 DEF ArchiveReturns, PutTyped
    <3>2. QED
      BY <1>00, <2>0, <3>1, TickIdle DEF AheadInv, KnownInv
  <2>3. QED
    BY <2>0, <2>1, <2>2
<1>4. CASE PutAccepted(c)
  <2>1. /\ remote'.sha = remote.sha + 1 /\ remote'.board = put[c].board
        /\ put[c].board = board[c] /\ load[c] = NoLoad
    BY <1>4, AcceptedTick
  <2>2. UNCHANGED <<board, sha, unsaved, load>> /\ Saving(c)
    BY <1>0, <1>4, PutKinds DEF PutAccepted, Phases
  <2>3. put'[c] = [put[c] EXCEPT !.phase = "ok", !.base = remote.sha + 1]
    BY <1>0, <1>4 DEF PutAccepted, PutTyped
  <2>4. put'[c].phase = "ok" /\ put'[c].board = put[c].board /\ put'[c].kind = put[c].kind
    BY <2>2, <2>3 DEF Saving, Saves
  <2>5. ~Archiving(c)'
    BY <1>0, <2>2, <2>4, PutKinds DEF Archiving, Archivings
  <2>6. remote.sha \in Nat /\ sha[c] \in Nat /\ sha[c] <= remote.sha
    BY <1>0 DEF RemoteTyped, CopiesTyped, ClientInv, CopyInv
  <2>7. AheadInv(c)'
    BY <2>1, <2>2, <2>4, <2>6 DEF AheadInv
  <2>8. load'[c].phase # "read" /\ Depth(board'[c]) <= Depth(remote'.board)
    BY <1>0, <2>1, <2>2, LoadKinds, Depths
  <2>9. KnownInv(c)' /\ CompletingInv(c)'
    BY <2>5, <2>8 DEF KnownInv, CompletingInv
  <2>10. QED
    BY <2>7, <2>9 DEF ClientTickInv
<1>5. CASE SaveReturns(c)
  <2>0. Saving(c) /\ put[c].phase = "ok" /\ UNCHANGED <<remote, board, load>>
    BY <1>0, <1>5, PutKinds DEF SaveReturns, Phases
  <2>1. sha'[c] = put[c].base /\ put'[c] = NoPut
    BY <1>0, <1>5 DEF SaveReturns, CopiesTyped, PutTyped
  <2>2. put[c].base = remote.sha => board[c] = remote.board
    BY <2>0 DEF ClientInv, OkInv
  <2>3. Depth(remote.board) <= Depth(remote.board) /\ Depth(board[c]) <= Depth(remote.board)
    BY <1>00, <2>0, Depths DEF KnownInv
  <2>4. QED
    BY <1>00, <2>0, <2>1, <2>2, <2>3, TickIdle DEF KnownInv
<1>6. CASE SaveFails(c)
  <2>1. put'[c] = NoPut /\ UNCHANGED <<remote, board, sha, unsaved>>
    BY <1>0, <1>6 DEF SaveFails, PutTyped
  <2>2. load'[c] = load[c] \/ load'[c] = [phase |-> "asked"]
    BY <1>0, <1>6 DEF SaveFails, AskLoad, LoadTyped
  <2>3. load'[c].phase = "read" => load'[c] = load[c]
    BY <2>2
  <2>4. QED
    BY <1>00, <2>1, <2>3, TickIdle DEF AheadInv, KnownInv
<1>7. CASE PollReads(c) \/ PollReturns(c) \/ LoadReads(c) \/ LoadFails(c)
  <2>1. UNCHANGED <<remote, board, sha, unsaved, dialog, put>>
    BY <1>7 DEF PollReads, PollReturns, LoadReads, LoadFails
  <2>2. \/ load'[c] = load[c] \/ load'[c] = NoLoad \/ load'[c] = [phase |-> "asked"]
        \/ load'[c] = [phase |-> "read", sha |-> remote.sha, board |-> remote.board]
    BY <1>0, <1>7 DEF PollReads, PollReturns, LoadReads, LoadFails, AskLoad, LoadTyped
  <2>3. load'[c].phase = "read" => load'[c] = load[c] \/ load'[c].board = remote.board
    BY <2>2 DEF NoLoad
  <2>4. Saving(c)' = Saving(c) /\ Archiving(c)' = Archiving(c)
    BY <2>1 DEF Saving, Archiving
  <2>5. AheadInv(c)'
    BY <1>00, <2>1, <2>4 DEF AheadInv
  <2>6. KnownInv(c)'
    BY <1>00, <2>1, <2>3, <2>4, Depths DEF KnownInv
  <2>7. CompletingInv(c)'
    BY <1>00, <2>1, <2>3, <2>4 DEF CompletingInv
  <2>8. QED
    BY <2>5, <2>6, <2>7 DEF ClientTickInv
<1>8. CASE LoadReturns(c)
  <2>1. load[c].phase = "read" /\ UNCHANGED <<remote, put>>
    BY <1>8 DEF LoadReturns
  <2>2. /\ board'[c] = load[c].board /\ sha'[c] = load[c].sha /\ load'[c] = NoLoad
        /\ dialog'[c] = IF dialog[c] = NoDialog THEN NoDialog ELSE [dialog[c] EXCEPT !.stale = TRUE]
    BY <1>0, <1>8 DEF LoadReturns, CopiesTyped, LoadTyped, DialogTyped
  <2>3. load[c].sha = remote.sha => load[c].board = remote.board
    BY <2>1 DEF ClientInv, LoadInv
  <2>4. dialog[c].kind = "wizard" => dialog'[c].kind = "wizard" /\ dialog'[c].next = dialog[c].next
    BY <1>0, <2>2, DialogKinds DEF NoDialog
  <2>5. Saving(c)' = Saving(c) /\ Archiving(c)' = Archiving(c) /\ load'[c].phase # "read"
    BY <1>0, <2>1, <2>2, LoadKinds DEF Saving, Archiving
  <2>6. AheadInv(c)'
    BY <1>00, <2>1, <2>2, <2>3, <2>5, Depths DEF AheadInv
  <2>7. KnownInv(c)'
    BY <1>00, <2>1, <2>2, <2>5 DEF KnownInv
  <2>8. CompletingInv(c)'
    BY <1>00, <2>1, <2>2, <2>4, <2>5 DEF CompletingInv
  <2>9. QED
    BY <2>6, <2>7, <2>8 DEF ClientTickInv
<1>9. QED
  BY <1>2, <1>3, <1>4, <1>5, <1>6, <1>7, <1>8 DEF PutStep, PollStep

LEMMA InitTicks == Init => TickInv
<1> SUFFICES ASSUME Init PROVE TickInv
  OBVIOUS
<1>1. Depth(EmptyBoard) <= Depth(EmptyBoard) /\ EmptyBoard.archived = <<>>
  BY DEF Depth, EmptyBoard
<1>2. ASSUME NEW c \in Clients PROVE ~Saving(c) /\ ~Archiving(c) /\ load[c].phase # "read"
  BY DEF Init, Saving, Saves, Archiving, Archivings, NoPut, NoLoad
<1>3. ASSUME NEW c \in Clients PROVE ClientTickInv(c)
  <2>1. board[c] = EmptyBoard /\ remote.board = EmptyBoard
    BY DEF Init
  <2>2. QED
    BY <1>1, <1>2, <2>1 DEF ClientTickInv, AheadInv, KnownInv, CompletingInv
<1>4. \A l \in Lines : l = Line(EmptyBoard)
  BY <1>2 DEF Init, Lines
<1>5. Sound(Line(EmptyBoard)) /\ Agree(Line(EmptyBoard), Line(EmptyBoard))
  BY <1>1 DEF Sound, Agree, Line
<1>6. QED
  BY <1>3, <1>4, <1>5 DEF TickInv, LineInv

LEMMA NextTicks ==
  ASSUME BoardTypeInv, BoardTypeInv', SaveInv, ArchiveInv, TickInv, [Next]_vars, Careful
  PROVE  TickInv'
<1>1. ASSUME NEW d \in Clients, Step(d)
      PROVE  TickInv'
  <2>0. ClientInv(d) /\ ClientTickInv(d) /\ LineInv
    BY DEF SaveInv, TickInv
  <2>1. \/ remote' = remote
        \/ /\ remote'.sha = remote.sha + 1 /\ Depth(remote.board) <= Depth(remote'.board)
           /\ Agree(remote.board, remote'.board)
    BY <1>1, <2>0, RemoteByAccept, AcceptedTick DEF Step
  <2>2. LineInv'
    BY <1>1, NextLines
  <2>3. ASSUME NEW c \in Clients PROVE ClientTickInv(c)'
    <3>1. CASE c = d
      BY <1>1, <2>0, <3>1, UserTicks, ServerTicks DEF Step
    <3>2. CASE c # d
      <4>1. /\ board'[c] = board[c] /\ sha'[c] = sha[c] /\ unsaved'[c] = unsaved[c]
            /\ put'[c] = put[c] /\ load'[c] = load[c]
        BY <1>1, <3>2, OthersUntouched DEF Step
      <4>2. dialog'[c] = dialog[c]
        BY <1>1, <3>2, DialogUntouched DEF Step
      <4>3. ClientInv(c) /\ ClientTickInv(c)
        BY DEF SaveInv, TickInv
      <4>4. QED
        BY <2>1, <4>1, <4>2, <4>3, TickOthers
    <3>3. QED
      BY <3>1, <3>2
  <2>4. QED
    BY <2>2, <2>3 DEF TickInv
<1>2. CASE UNCHANGED vars
  <2>1. UNCHANGED <<remote, board, sha, unsaved, put, load, dialog>>
    BY <1>2 DEF vars
  <2>2. ASSUME NEW c \in Clients PROVE ClientTickInv(c)'
    BY <2>1, TickOthers DEF SaveInv, TickInv
  <2>3. Lines' = Lines
    BY <2>1 DEF Lines, Saving
  <2>4. QED
    BY <2>2, <2>3 DEF TickInv, LineInv
<1>3. QED
  BY <1>1, <1>2 DEF Next, Step

\* A tick is completed once, and the current tick is none of those completed,
\* where users are careful, giving the next tick a new id, and the answer to a
\* poll does not arrive late.
THEOREM CompletedOnce == Careful /\ PromptPolls /\ Spec => []TickCompletedOnce
<1> SUFFICES ASSUME Careful, PromptPolls PROVE Spec => []TickCompletedOnce
  OBVIOUS
<1> DEFINE Inv == BoardTypeInv /\ SaveInv /\ ArchiveInv /\ TickInv
<1>1. Init => Inv
  BY InitBoardTypes, InitSave, InitArchives, InitTicks
<1>2. Inv /\ [Next]_vars => Inv'
  <2> SUFFICES ASSUME Inv, [Next]_vars PROVE Inv'
    OBVIOUS
  <2>1. BoardTypeInv' /\ SaveInv' /\ ArchiveInv'
    BY NextBoardTypes, NextSave, NextArchives
  <2>2. TickInv'
    BY <2>1, NextTicks
  <2>3. QED
    BY <2>1, <2>2
<1>3. Inv => TickCompletedOnce
  <2> SUFFICES ASSUME LineInv PROVE TickCompletedOnce
    BY DEF TickInv
  <2>1. Sound(Line(remote.board))
    BY DEF LineInv, Lines
  <2>2. QED
    BY <2>1 DEF Sound, Line, TickCompletedOnce
<1> HIDE DEF Inv
<1>4. QED
  BY <1>1, <1>2, <1>3, PTL DEF Spec
=============================================================================
