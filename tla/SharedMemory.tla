---------------------------- MODULE SharedMemory ----------------------------
(* pipeline/shared_memory.py: the project wiki, a table of values and a     *)
(* table of log entries in one SQLite file, written over several            *)
(* connections (each agent instance and each pipeline run opens its own).   *)
(* A write looks the key up outside of any transaction and then changes     *)
(* both tables in one; an insert refused by UNIQUE(namespace, key) leaves   *)
(* its connection's transaction open, and with it the file's write lock.    *)
EXTENDS Naturals, Sequences

CONSTANTS
  Conns,    \* connections to the file
  Keys,     \* pairs of a namespace and a key
  Values,   \* values an agent may put
  NoValue,  \* no row, or NULL in the log; none of Values
  MaxLog    \* bound on the entries of the log

VARIABLES
  wiki,     \* the value of each key
  log,      \* wiki_log, in order of id
  op,       \* what each connection is doing between its SELECT and its write
  writer    \* the connections whose open transaction holds the write lock

wikiVars == <<wiki, log, op, writer>>

Stored == Values \union {NoValue}
WikiIdle == [kind |-> "idle"]
Ops == [kind : {"put", "delete"}, key : Keys, value : Stored, old : Stored]
Entries == [action : {"create", "update", "delete"}, key : Keys,
            old : Stored, new : Stored]

WikiInit ==
  /\ wiki = [k \in Keys |-> NoValue]
  /\ log = <<>>
  /\ op = [c \in Conns |-> WikiIdle]
  /\ writer = {}

\* The SELECT at the head of put.
PutReads(c, k, v) ==
  /\ op[c] = WikiIdle
  /\ op' = [op EXCEPT ![c] = [kind |-> "put", key |-> k, value |-> v, old |-> wiki[k]]]
  /\ UNCHANGED <<wiki, log, writer>>

\* The SELECT at the head of delete, which returns False when there is no row.
DeleteReads(c, k) ==
  /\ op[c] = WikiIdle
  /\ wiki[k] # NoValue
  /\ op' = [op EXCEPT ![c] =
              [kind |-> "delete", key |-> k, value |-> NoValue, old |-> wiki[k]]]
  /\ UNCHANGED <<wiki, log, writer>>

MayWrite(c) == writer \subseteq {c} /\ Len(log) < MaxLog

Log(action, o) ==
  log' = Append(log, [action |-> action, key |-> o.key, old |-> o.old, new |-> o.value])

\* An operation's transaction is committed and the operation returns.
Commits(c) == op' = [op EXCEPT ![c] = WikiIdle] /\ writer' = {}

\* A slip in UpdateRow: the entry is left out when the row has changed since
\* it was read.
UpdateRowLogsIfUnchanged(c) ==
  /\ op[c].kind = "put" /\ op[c].old # NoValue
  /\ MayWrite(c)
  /\ wiki' = IF wiki[op[c].key] = NoValue THEN wiki
             ELSE [wiki EXCEPT ![op[c].key] = op[c].value]
  /\ IF wiki[op[c].key] = op[c].old THEN Log("update", op[c]) ELSE UNCHANGED log
  /\ Commits(c)

\* UPDATE touches the row only if it is still there; the entry is written
\* either way, with the value that was read.
UpdateRow(c) ==
  /\ op[c].kind = "put" /\ op[c].old # NoValue
  /\ MayWrite(c)
  /\ wiki' = IF wiki[op[c].key] = NoValue THEN wiki
             ELSE [wiki EXCEPT ![op[c].key] = op[c].value]
  /\ Log("update", op[c])
  /\ Commits(c)

InsertRow(c) ==
  /\ op[c].kind = "put" /\ op[c].old = NoValue
  /\ MayWrite(c)
  /\ wiki[op[c].key] = NoValue
  /\ wiki' = [wiki EXCEPT ![op[c].key] = op[c].value]
  /\ Log("create", op[c])
  /\ Commits(c)

\* Another connection has inserted the key since: put raises IntegrityError
\* before its commit.
InsertRefused(c) ==
  /\ op[c].kind = "put" /\ op[c].old = NoValue
  /\ MayWrite(c)
  /\ wiki[op[c].key] # NoValue
  /\ op' = [op EXCEPT ![c] = WikiIdle]
  /\ writer' = {c}
  /\ UNCHANGED <<wiki, log>>

DeleteRow(c) ==
  /\ op[c].kind = "delete"
  /\ MayWrite(c)
  /\ wiki' = [wiki EXCEPT ![op[c].key] = NoValue]
  /\ Log("delete", op[c])
  /\ Commits(c)

\* The write waited five seconds for another connection's transaction.
LockedOut(c) ==
  /\ op[c] # WikiIdle
  /\ writer \ {c} # {}
  /\ op' = [op EXCEPT ![c] = WikiIdle]
  /\ UNCHANGED <<wiki, log, writer>>

\* The connection is dropped (its owner is collected or its process dies), and
\* its open transaction is rolled back; it stands for the next one opened.
Closed(c) ==
  /\ op[c] # WikiIdle \/ c \in writer
  /\ op' = [op EXCEPT ![c] = WikiIdle]
  /\ writer' = writer \ {c}
  /\ UNCHANGED <<wiki, log>>

WikiNext ==
  \E c \in Conns :
    \/ \E k \in Keys, v \in Values : PutReads(c, k, v)
    \/ \E k \in Keys : DeleteReads(c, k)
    \/ UpdateRow(c) \/ InsertRow(c) \/ InsertRefused(c) \/ DeleteRow(c)
    \/ LockedOut(c) \/ Closed(c)

WikiSpec == WikiInit /\ [][WikiNext]_wikiVars

WikiTypeOK ==
  /\ wiki \in [Keys -> Stored]
  /\ log \in Seq(Entries)
  /\ op \in [Conns -> Ops \union {WikiIdle}]
  /\ writer \in SUBSET Conns

\* i is the last entry of the log about key k.
IsLast(i, k) ==
  /\ i \in DOMAIN log /\ log[i].key = k
  /\ \A j \in DOMAIN log : j > i => log[j].key # k

\* Every value that can be read was written by the newest entry of its key in
\* the log, however puts, deletes, refused inserts and dropped connections
\* interleave: the log never lags behind the wiki (put and delete change both
\* tables in one transaction).
StoredValueIsLogged ==
  \A k \in Keys : wiki[k] # NoValue =>
    \E i \in DOMAIN log : IsLast(i, k) /\ log[i].new = wiki[k]
=============================================================================
