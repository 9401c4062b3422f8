----------------------------- MODULE KvService ------------------------------
(***************************************************************************)
(* What the server promises a client that waits for each reply: one copy   *)
(* of every key in every database, on which each command takes effect at   *)
(* one instant between its call and its reply.  FLUSHALL is the exception: *)
(* it removes the entries at several instants between call and reply.      *)
(***************************************************************************)
EXTENDS Commands

CONSTANTS Conns, Keys, Dbs, DefaultDb, Commandset,
          ShardOf,   \* what DPING answers for a key
          NoCommand, NoReply

VARIABLES data,      \* the entry of each key of each database
          db,        \* the database each client has selected
          pending,   \* the command each client waits for
          reply,     \* its answer, once it has taken effect
          uncleared  \* <<database, key>> the FLUSHALL of a client has still to remove

vars == <<data, db, pending, reply, uncleared>>

Entries == Dbs \X Keys

Init ==
  /\ data = [d \in Dbs |-> [k \in Keys |-> NoValue]]
  /\ db = [c \in Conns |-> DefaultDb]
  /\ pending = [c \in Conns |-> NoCommand]
  /\ reply = [c \in Conns |-> NoReply]
  /\ uncleared = [c \in Conns |-> Entries]

Call(c, cmd) ==
  /\ pending[c] = NoCommand
  /\ pending' = [pending EXCEPT ![c] = cmd]
  /\ UNCHANGED <<data, db, reply, uncleared>>

InProgress(c) == pending[c] # NoCommand /\ reply[c] = NoReply

Answered(c, value) ==
  /\ reply' = [reply EXCEPT ![c] = value]
  /\ UNCHANGED pending

Access(c) ==
  /\ InProgress(c) /\ pending[c].op \in KeyedOps
  /\ LET cmd == pending[c]
         old == data[db[c]][cmd.key]
     IN /\ data' = [data EXCEPT ![db[c]][cmd.key] = NewEntry(cmd, old)]
        /\ Answered(c, Answer(cmd, old, ShardOf[cmd.key]))
  /\ UNCHANGED <<db, uncleared>>

(* PING and its like, and QUIT *)
Touch(c) ==
  /\ InProgress(c) /\ pending[c].op \in {"ping", "quit"}
  /\ Answered(c, IF pending[c].op = "quit" THEN Ok ELSE Pong)
  /\ UNCHANGED <<data, db, uncleared>>

(* SELECT, which may be refused *)
Select(c) ==
  /\ InProgress(c) /\ pending[c].op = "select"
  /\ \/ pending[c].arg \in Dbs /\ Answered(c, Ok)
        /\ db' = [db EXCEPT ![c] = pending[c].arg]
     \/ Answered(c, Err) /\ UNCHANGED db
  /\ UNCHANGED <<data, uncleared>>

Clear(c, entries) ==
  /\ InProgress(c) /\ pending[c].op = "flushall"
  /\ entries \subseteq uncleared[c]
  /\ data' = [d \in Dbs |-> [k \in Keys |->
       IF <<d, k>> \in entries THEN NoValue ELSE data[d][k]]]
  /\ uncleared' = [uncleared EXCEPT ![c] = @ \ entries]
  /\ UNCHANGED <<db, pending, reply>>

ClearDone(c) ==
  /\ InProgress(c) /\ pending[c].op = "flushall"
  /\ uncleared[c] = {}
  /\ Answered(c, Ok)
  /\ uncleared' = [uncleared EXCEPT ![c] = Entries]
  /\ UNCHANGED <<data, db>>

(* the replies of several clients may come in one step *)
Return(cs) ==
  /\ \A c \in cs : reply[c] # NoReply
  /\ pending' = [c \in Conns |-> IF c \in cs THEN NoCommand ELSE pending[c]]
  /\ reply' = [c \in Conns |-> IF c \in cs THEN NoReply ELSE reply[c]]
  /\ UNCHANGED <<data, db, uncleared>>

Next ==
  \/ \E c \in Conns :
       \/ \E cmd \in Commandset : Call(c, cmd)
       \/ Access(c) \/ Touch(c) \/ Select(c)
       \/ \E entries \in SUBSET Entries : Clear(c, entries)
       \/ ClearDone(c)
  \/ \E cs \in SUBSET Conns : Return(cs)

Spec == Init /\ [][Next]_vars
=============================================================================
