----------------------------- MODULE ConnTable -----------------------------
(***************************************************************************)
(* The connections of the reactors: accepting one, finding it by its file  *)
(* descriptor in the vector conns of its reactor, and closing it.  The     *)
(* vectors belong to the reactors, the descriptors to the process: what    *)
(* one reactor has closed, another may get from its next accept, before    *)
(* the first has cleared its entry.  The operating system gives the lowest *)
(* free descriptor, and drops a closed one from an epoll.                  *)
(*                                                                         *)
(* Descriptors are counted from the first one that is left to connections. *)
(***************************************************************************)
EXTENDS Integers

CONSTANTS Threads,   \* each with a reactor
          MaxFd,     \* descriptors that the process may have
          InitCap,   \* initial capacity of conns, 128 in reactor_init
          Heap,      \* addresses of connections
          Null

ASSUME FdAssumption == MaxFd \in Nat /\ InitCap \in Nat
ASSUME NullAssumption ==
  Null \notin Threads \cup Heap \cup [fd : Nat, shard_id : Threads]

VARIABLES socket,    \* the reactor that has accepted the connection of a descriptor
          heap,      \* the fields fd and shard_id of the connections allocated
          conns,     \* the vectors, functions on 0 .. capacity - 1
          interest,  \* the descriptors registered with the epoll of a reactor
          thread,    \* where each reactor is, and with which descriptor
          died       \* a panic has ended the process

table == <<socket, heap, conns, interest, thread, died>>

Fds == 0 .. MaxFd - 1
At(r, pc) == ~died /\ thread[r].pc = pc
MoveTo(r, pc, fd) == thread' = [thread EXCEPT ![r] = [pc |-> pc, fd |-> fd]]

(* reactor_init *)
TableInit ==
  /\ socket = [fd \in Fds |-> Null]
  /\ heap = [c \in Heap |-> Null]
  /\ conns = [r \in Threads |-> [i \in 0 .. InitCap - 1 |-> Null]]
  /\ interest = [r \in Threads |-> {}]
  /\ thread = [r \in Threads |-> [pc |-> "loop", fd |-> 0]]
  /\ died = FALSE
----------------------------------------------------------------------------
(* reactor_epoll_accept *)

Unused == {fd \in Fds : socket[fd] = Null}
Least(fd, fds) == fd \in fds /\ \A other \in fds : fd <= other

Accept(r, fd) ==
  /\ At(r, "loop") /\ Least(fd, Unused)
  /\ socket' = [socket EXCEPT ![fd] = r]
  /\ MoveTo(r, "emplace", fd)
  /\ UNCHANGED <<heap, conns, interest, died>>

(* accept fails, for want of a descriptor or for any other reason, such as *)
(* a client that has gone before: reactor_run panics                       *)
AcceptFails(r) ==
  /\ At(r, "loop")
  /\ died' = TRUE
  /\ UNCHANGED <<socket, heap, conns, interest, thread>>

(* a mistake the runs must notice: new entries are not set to NULL *)
GrownOnly(r, fd) ==
  [i \in DOMAIN conns[r] \cup 0 .. fd |->
     IF i \in DOMAIN conns[r] THEN conns[r][i] ELSE CHOOSE c \in Heap : TRUE]

(* resize_vector_Conn_ptr to fd + 1 if it is shorter, and NULL in the new entries *)
Grown(r, fd) ==
  [i \in DOMAIN conns[r] \cup 0 .. fd |->
     IF i \in DOMAIN conns[r] THEN conns[r][i] ELSE Null]

(* on_accept and reactor_conn_emplace *)
Emplace(r, c) ==
  /\ At(r, "emplace")
  /\ heap[c] = Null
  /\ LET fd == thread[r].fd
     IN /\ heap' = [heap EXCEPT ![c] = [fd |-> fd, shard_id |-> r]]
        /\ conns' = [conns EXCEPT ![r] = [Grown(r, fd) EXCEPT ![fd] = c]]
        /\ MoveTo(r, "register", fd)
  /\ UNCHANGED <<socket, interest, died>>

Register(r) ==
  /\ At(r, "register")
  /\ interest' = [interest EXCEPT ![r] = @ \cup {thread[r].fd}]
  /\ MoveTo(r, "loop", 0)
  /\ UNCHANGED <<socket, heap, conns, died>>
----------------------------------------------------------------------------
(* reactor_epoll_close, after END or a hangup reported by epoll_wait *)

Unregister(r, fd) ==
  /\ At(r, "loop") /\ fd \in interest[r]
  /\ interest' = [interest EXCEPT ![r] = @ \ {fd}]
  /\ MoveTo(r, "close", fd)
  /\ UNCHANGED <<socket, heap, conns, died>>

Close(r) ==
  /\ At(r, "close") \/ At(r, "last_close")
  /\ socket' = [socket EXCEPT ![thread[r].fd] = Null]
  /\ interest' = [interest EXCEPT ![r] = @ \ {thread[r].fd}]
  /\ MoveTo(r, IF At(r, "close") THEN "clear" ELSE "last_clear", thread[r].fd)
  /\ UNCHANGED <<heap, conns, died>>

(* the entry set to NULL, and free *)
Clear(r) ==
  /\ At(r, "clear") \/ At(r, "last_clear")
  /\ conns' = [conns EXCEPT ![r][thread[r].fd] = Null]
  /\ heap' = [heap EXCEPT ![conns[r][thread[r].fd]] = Null]
  /\ MoveTo(r, IF At(r, "clear") THEN "loop" ELSE "stop", 0)
  /\ UNCHANGED <<socket, interest, died>>
----------------------------------------------------------------------------
(* the end of reactor_run *)

LeaveLoop(r) ==
  /\ At(r, "loop")
  /\ MoveTo(r, "stop", 0)
  /\ UNCHANGED <<socket, heap, conns, interest, died>>

(* a mistake the runs must notice: only the entries of the initial vector are closed *)
LeftInitial(r) == {fd \in DOMAIN conns[r] : conns[r][fd] # Null /\ fd < InitCap}

Left(r) == {fd \in DOMAIN conns[r] : conns[r][fd] # Null}

CloseNext(r, fd) ==
  /\ At(r, "stop") /\ Least(fd, Left(r))
  /\ MoveTo(r, "last_close", fd)
  /\ UNCHANGED <<socket, heap, conns, interest, died>>

Stopped(r) ==
  /\ At(r, "stop") /\ Left(r) = {}
  /\ MoveTo(r, "stopped", 0)
  /\ UNCHANGED <<socket, heap, conns, interest, died>>

TableNext ==
  \E r \in Threads :
    \/ \E fd \in Fds : Accept(r, fd) \/ Unregister(r, fd) \/ CloseNext(r, fd)
    \/ \E c \in Heap : Emplace(r, c)
    \/ AcceptFails(r) \/ Register(r) \/ Close(r) \/ Clear(r)
    \/ LeaveLoop(r) \/ Stopped(r)

TableSpec == TableInit /\ [][TableNext]_table
----------------------------------------------------------------------------
(* Properties *)

Closing(r, fd) == thread[r].pc \in {"clear", "last_clear"} /\ thread[r].fd = fd

(* An event of epoll finds its connection in the vector: the descriptor    *)
(* belongs to this reactor, and its entry is neither NULL nor outside.     *)
EventsFindConns ==
  \A r \in Threads : \A fd \in interest[r] :
    /\ socket[fd] = r
    /\ fd \in DOMAIN conns[r] /\ conns[r][fd] # Null

(* The vectors hold the connections that are allocated, each at its own    *)
(* descriptor in the vector of its reactor, and nothing else: no freed     *)
(* connection that reactor_flush_pending_writes would follow, none that is *)
(* lost, none that an event would miss.  Its descriptor is still its own,  *)
(* until close has given it away.                                          *)
TableExact ==
  /\ \A r \in Threads : \A fd \in DOMAIN conns[r] :
       conns[r][fd] # Null =>
         /\ heap[conns[r][fd]] = [fd |-> fd, shard_id |-> r]
         /\ socket[fd] = r \/ Closing(r, fd)
  /\ \A c \in Heap :
       heap[c] # Null =>
         /\ heap[c].fd \in DOMAIN conns[heap[c].shard_id]
         /\ conns[heap[c].shard_id][heap[c].fd] = c
  /\ EventsFindConns

(* A reactor that has stopped has closed and freed all the connections it  *)
(* has accepted, also those in the entries that its vector has grown by.   *)
StoppedClean ==
  \A r \in Threads : thread[r].pc = "stopped" =>
    /\ \A fd \in Fds : socket[fd] # r
    /\ \A c \in Heap : heap[c] # Null => heap[c].shard_id # r
=============================================================================
