-------------------------- MODULE ConnTableProofs --------------------------
(***************************************************************************)
(* For every number of reactors, descriptors and addresses: the vectors of *)
(* connections are exact, events find their connections, and a reactor     *)
(* that has stopped leaves none behind.  What is added to these to make    *)
(* them inductive is what a thread may rely on in the middle of accept and *)
(* of close, when others take and give descriptors.                        *)
(***************************************************************************)
EXTENDS ConnTable, TLAPS

Labels == {"loop", "emplace", "register", "close", "clear",
           "stop", "last_close", "last_clear", "stopped"}

TableType ==
  /\ socket \in [Fds -> Threads \cup {Null}]
  /\ heap \in [Heap -> [fd : Nat, shard_id : Threads] \cup {Null}]
  /\ conns \in [Threads -> UNION {[D -> Heap \cup {Null}] : D \in SUBSET Nat}]
  /\ interest \in [Threads -> SUBSET Fds]
  /\ thread \in [Threads -> [pc : Labels, fd : Nat]]
  /\ died \in BOOLEAN

(* the entry of a descriptor in the vector of a reactor is a connection *)
Entered(r, fd) == fd \in DOMAIN conns[r] /\ conns[r][fd] # Null

(* In the middle of accept and close the descriptor is still the thread's  *)
(* own, and its entry is set from the one call to the other.               *)
HandOf(r) ==
  LET fd == thread[r].fd
      pc == thread[r].pc
  IN /\ pc \in {"emplace", "register", "close", "last_close"} =>
          fd \in Fds /\ socket[fd] = r
     /\ pc = "emplace" => ~Entered(r, fd) /\ fd \notin interest[r]
     /\ pc \in {"register", "close", "last_close", "clear", "last_clear"} =>
          Entered(r, fd)
     /\ pc = "close" => fd \notin interest[r]
     /\ pc \in {"clear", "last_clear"} =>
          fd \in Fds /\ socket[fd] # r /\ fd \notin interest[r]

InHand == \A r \in Threads : HandOf(r)

(* Every descriptor of a reactor is entered, but for the one in its accept. *)
SocketsEntered ==
  \A r \in Threads : \A fd \in Fds :
    socket[fd] = r =>
      Entered(r, fd) \/ (thread[r].pc = "emplace" /\ thread[r].fd = fd)

StoppedEmpty ==
  \A r \in Threads : thread[r].pc = "stopped" => \A fd \in Nat : ~Entered(r, fd)

EntriesExact ==
  \A r \in Threads : \A fd \in DOMAIN conns[r] :
    conns[r][fd] # Null =>
      /\ heap[conns[r][fd]] = [fd |-> fd, shard_id |-> r]
      /\ fd \in Fds
      /\ socket[fd] = r \/ Closing(r, fd)

HeapExact ==
  \A c \in Heap :
    heap[c] # Null =>
      /\ heap[c].fd \in DOMAIN conns[heap[c].shard_id]
      /\ conns[heap[c].shard_id][heap[c].fd] = c

TableInv ==
  /\ TableType /\ InHand /\ SocketsEntered /\ StoppedEmpty
  /\ EntriesExact /\ HeapExact /\ EventsFindConns

LEMMA TableInvInit == TableInit => TableInv
<1>. SUFFICES ASSUME TableInit PROVE TableInv
  OBVIOUS
<1>1. \A r \in Threads : /\ thread[r].pc = "loop" /\ interest[r] = {}
                       /\ \A fd \in DOMAIN conns[r] : conns[r][fd] = Null
  BY DEF TableInit
<1>2. \A fd \in Fds : socket[fd] \notin Threads
  BY NullAssumption DEF TableInit
<1>3. TableType
  <2>1. conns \in [Threads -> UNION {[D -> Heap \cup {Null}] : D \in SUBSET Nat}]
    <3>1. 0 .. InitCap - 1 \in SUBSET Nat
      BY FdAssumption
    <3>2. [i \in 0 .. InitCap - 1 |-> Null] \in [0 .. InitCap - 1 -> Heap \cup {Null}]
      OBVIOUS
    <3>3. [i \in 0 .. InitCap - 1 |-> Null] \in
            UNION {[D -> Heap \cup {Null}] : D \in SUBSET Nat}
      BY <3>1, <3>2
    <3>. QED  BY <3>3 DEF TableInit
  <2>. QED  BY <2>1 DEF TableInit, TableType, Labels
<1>4. InHand
  BY <1>1 DEF InHand, HandOf
<1>5. SocketsEntered
  BY <1>2 DEF SocketsEntered
<1>6. StoppedEmpty /\ EntriesExact /\ EventsFindConns
  BY <1>1 DEF StoppedEmpty, EntriesExact, EventsFindConns
<1>7. HeapExact
  BY DEF TableInit, HeapExact
<1>. QED  BY <1>3, <1>4, <1>5, <1>6, <1>7 DEF TableInv
----------------------------------------------------------------------------
(* What the steps leave alone. *)

LEMMA VectorType ==
  ASSUME TableType, NEW r \in Threads
  PROVE  /\ DOMAIN conns[r] \subseteq Nat
         /\ conns[r] \in [DOMAIN conns[r] -> Heap \cup {Null}]
<1>1. conns[r] \in UNION {[D -> Heap \cup {Null}] : D \in SUBSET Nat}
  BY DEF TableType
<1>2. PICK D \in SUBSET Nat : conns[r] \in [D -> Heap \cup {Null}]
  BY <1>1
<1>. QED  BY <1>2

LEMMA ThreadStep ==
  ASSUME TableType, NEW r \in Threads, NEW pc \in Labels, NEW fd \in Nat,
         MoveTo(r, pc, fd)
  PROVE  /\ thread' \in [Threads -> [pc : Labels, fd : Nat]]
         /\ thread'[r].pc = pc /\ thread'[r].fd = fd
         /\ \A q \in Threads : q # r => thread'[q] = thread[q]
BY DEF TableType, MoveTo

(* accept, register, unregister and close leave heap and vectors alone *)
LEMMA SameEntries ==
  ASSUME TableInv, UNCHANGED <<heap, conns>>
  PROVE  /\ HeapExact'
         /\ \A r, fd : Entered(r, fd)' <=> Entered(r, fd)
BY DEF TableInv, HeapExact, Entered
----------------------------------------------------------------------------
LEMMA AcceptStep ==
  ASSUME TableInv, NEW r \in Threads, NEW fd \in Fds, Accept(r, fd)
  PROVE  TableInv'
<1>1. fd \in Nat /\ "emplace" \in Labels /\ MoveTo(r, "emplace", fd) /\ TableType
  BY FdAssumption DEF Fds, Labels, Accept, TableInv
<1>2. /\ thread' \in [Threads -> [pc : Labels, fd : Nat]]
      /\ thread'[r].pc = "emplace" /\ thread'[r].fd = fd
      /\ \A q \in Threads : q # r => thread'[q] = thread[q]
  BY <1>1, ThreadStep
<1>3. /\ socket' \in [Fds -> Threads \cup {Null}]
      /\ socket[fd] = Null /\ socket'[fd] = r
      /\ \A g \in Fds : g # fd => socket'[g] = socket[g]
      /\ thread[r].pc = "loop" /\ UNCHANGED <<heap, conns, interest, died>>
  BY <1>1 DEF Accept, TableType, At, Least, Unused
<1>4. HeapExact' /\ \A q, g : Entered(q, g)' <=> Entered(q, g)
  BY <1>3, SameEntries
<1>5. ~Entered(r, fd) /\ \A q \in Threads : fd \notin interest[q]
  BY <1>3, NullAssumption DEF TableInv, EntriesExact, EventsFindConns, Entered, Closing
<1>6. TableType'
  BY <1>1, <1>2, <1>3 DEF TableType
<1>7. InHand'
  BY <1>2, <1>3, <1>4, <1>5, NullAssumption DEF TableInv, InHand, HandOf
<1>8. SocketsEntered'
  BY <1>2, <1>3, <1>4 DEF TableInv, SocketsEntered
<1>9. StoppedEmpty'
  BY <1>2, <1>4 DEF TableInv, StoppedEmpty
<1>10. EntriesExact'
  BY <1>2, <1>3, NullAssumption DEF TableInv, EntriesExact, Closing
<1>11. EventsFindConns'
  <2>. \A q \in Threads : interest[q] \subseteq Fds
    BY <1>1 DEF TableType
  <2>. QED  BY <1>3, <1>5 DEF TableInv, EventsFindConns
<1>. QED  BY <1>4, <1>6, <1>7, <1>8, <1>9, <1>10, <1>11 DEF TableInv

LEMMA EmplaceStep ==
  ASSUME TableInv, NEW r \in Threads, NEW c \in Heap, Emplace(r, c)
  PROVE  TableInv'
<1>. PICK fd : fd = thread[r].fd
  OBVIOUS
<1>1. /\ TableType /\ "register" \in Labels /\ fd \in Nat /\ fd \in Fds
      /\ MoveTo(r, "register", fd) /\ thread[r].pc = "emplace"
  BY DEF TableInv, TableType, Labels, Emplace, At, InHand, HandOf
<1>2. /\ thread' \in [Threads -> [pc : Labels, fd : Nat]]
      /\ thread'[r].pc = "register" /\ thread'[r].fd = fd
      /\ \A q \in Threads : q # r => thread'[q] = thread[q]
  BY <1>1, ThreadStep
<1>3. /\ heap[c] = Null /\ heap'[c] = [fd |-> fd, shard_id |-> r]
      /\ heap' \in [Heap -> [fd : Nat, shard_id : Threads] \cup {Null}]
      /\ \A d \in Heap : d # c => heap'[d] = heap[d]
      /\ UNCHANGED <<socket, interest, died>>
  BY <1>1 DEF Emplace, TableType
<1>4. heap'[c] # Null /\ c # Null
  BY <1>1, <1>3, NullAssumption
<1>5. /\ DOMAIN conns[r] \subseteq Nat
      /\ conns[r] \in [DOMAIN conns[r] -> Heap \cup {Null}]
  BY <1>1, VectorType
<1>6. /\ DOMAIN Grown(r, fd) = DOMAIN conns[r] \cup 0 .. fd
      /\ \A i \in DOMAIN Grown(r, fd) :
           Grown(r, fd)[i] = IF i \in DOMAIN conns[r] THEN conns[r][i] ELSE Null
      /\ Grown(r, fd) \in [DOMAIN Grown(r, fd) -> Heap \cup {Null}]
  BY <1>5 DEF Grown
<1>7. conns' = [conns EXCEPT ![r] = [Grown(r, fd) EXCEPT ![fd] = c]]
  BY DEF Emplace
<1>8. /\ DOMAIN conns'[r] = DOMAIN conns[r] \cup 0 .. fd
      /\ fd \in DOMAIN conns'[r] /\ conns'[r][fd] = c
      /\ \A i \in DOMAIN conns'[r] :
           i # fd => conns'[r][i] = IF i \in DOMAIN conns[r] THEN conns[r][i] ELSE Null
      /\ \A q \in Threads : q # r => conns'[q] = conns[q]
  BY <1>1, <1>6, <1>7 DEF TableType
<1>9. /\ Entered(r, fd)' /\ ~Entered(r, fd) /\ fd \notin interest[r]
      /\ \A q \in Threads : \A g : (q # r \/ g # fd) => (Entered(q, g)' <=> Entered(q, g))
  BY <1>1, <1>4, <1>8 DEF Entered, TableInv, InHand, HandOf
<1>10. TableType'
  <2>1. DOMAIN conns'[r] \in SUBSET Nat
    BY <1>1, <1>5, <1>8
  <2>2. conns'[r] \in [DOMAIN conns'[r] -> Heap \cup {Null}]
    BY <1>1, <1>6, <1>7 DEF TableType
  <2>3. conns'[r] \in UNION {[D -> Heap \cup {Null}] : D \in SUBSET Nat}
    BY <2>1, <2>2
  <2>4. conns' \in [Threads -> UNION {[D -> Heap \cup {Null}] : D \in SUBSET Nat}]
    BY <1>1, <1>7, <2>3 DEF TableType
  <2>. QED  BY <1>1, <1>2, <1>3, <2>4 DEF TableType
<1>11. InHand'
  BY <1>1, <1>2, <1>3, <1>9 DEF TableInv, InHand, HandOf
<1>12. SocketsEntered'
  BY <1>1, <1>2, <1>3, <1>9 DEF TableInv, SocketsEntered
<1>13. StoppedEmpty'
  BY <1>2, <1>9 DEF TableInv, StoppedEmpty
<1>14. EntriesExact'
  <2>1. socket[fd] = r
    BY <1>1 DEF TableInv, InHand, HandOf
  <2>2. SUFFICES ASSUME NEW q \in Threads, NEW g \in DOMAIN conns'[q],
                        conns'[q][g] # Null, q # r \/ g # fd
                 PROVE  /\ heap'[conns'[q][g]] = [fd |-> g, shard_id |-> q]
                        /\ g \in Fds
                        /\ socket'[g] = q \/ Closing(q, g)'
    BY <1>1, <1>3, <1>8, <2>1 DEF EntriesExact
  <2>3. g \in DOMAIN conns[q] /\ conns[q][g] # Null /\ conns'[q][g] = conns[q][g]
    BY <1>8, <2>2
  <2>4. /\ heap[conns[q][g]] = [fd |-> g, shard_id |-> q] /\ g \in Fds
        /\ socket[g] = q \/ Closing(q, g)
    BY <2>3 DEF TableInv, EntriesExact
  <2>5. conns[q][g] \in Heap /\ g \in Nat
    BY <1>1, <2>3, VectorType
  <2>6. conns[q][g] # c
    BY <1>3, <2>4, <2>5, NullAssumption
  <2>. QED  BY <1>1, <1>2, <1>3, <2>3, <2>4, <2>5, <2>6 DEF Closing
<1>15. HeapExact'
  <2>1. SUFFICES ASSUME NEW d \in Heap, heap'[d] # Null, d # c
                 PROVE  /\ heap'[d].fd \in DOMAIN conns'[heap'[d].shard_id]
                        /\ conns'[heap'[d].shard_id][heap'[d].fd] = d
    BY <1>3, <1>8 DEF HeapExact
  <2>2. /\ heap[d] # Null /\ heap'[d] = heap[d]
        /\ heap[d].fd \in Nat /\ heap[d].shard_id \in Threads
    BY <1>1, <1>3, <2>1 DEF TableType
  <2>3. /\ heap[d].fd \in DOMAIN conns[heap[d].shard_id]
        /\ conns[heap[d].shard_id][heap[d].fd] = d /\ d # Null
    BY <2>2, NullAssumption DEF TableInv, HeapExact
  <2>4. heap[d].shard_id # r \/ heap[d].fd # fd
    BY <1>9, <2>3 DEF Entered
  <2>. QED  BY <1>8, <2>2, <2>3, <2>4
<1>16. EventsFindConns'
  BY <1>3, <1>9 DEF TableInv, EventsFindConns, Entered
<1>. QED  BY <1>10, <1>11, <1>12, <1>13, <1>14, <1>15, <1>16 DEF TableInv

LEMMA RegisterStep ==
  ASSUME TableInv, NEW r \in Threads, Register(r)
  PROVE  TableInv'
<1>1. /\ TableType /\ "loop" \in Labels /\ 0 \in Nat
      /\ MoveTo(r, "loop", 0) /\ thread[r].pc = "register"
      /\ UNCHANGED <<socket, heap, conns, died>>
      /\ thread[r].fd \in Fds
  BY FdAssumption DEF TableInv, TableType, Labels, Register, At, Fds, InHand, HandOf
<1>2. /\ thread' \in [Threads -> [pc : Labels, fd : Nat]]
      /\ thread'[r].pc = "loop" /\ thread'[r].fd = 0
      /\ \A q \in Threads : q # r => thread'[q] = thread[q]
  BY <1>1, ThreadStep
<1>3. /\ interest' \in [Threads -> SUBSET Fds]
      /\ interest'[r] = interest[r] \cup {thread[r].fd}
      /\ \A q \in Threads : q # r => interest'[q] = interest[q]
  BY <1>1 DEF TableType, Register
<1>4. HeapExact' /\ \A q, g : Entered(q, g)' <=> Entered(q, g)
  BY <1>1, SameEntries
<1>5. socket[thread[r].fd] = r /\ Entered(r, thread[r].fd)
  BY <1>1 DEF TableInv, InHand, HandOf, EventsFindConns, Entered
<1>6. TableType'
  BY <1>1, <1>2, <1>3 DEF TableType
<1>7. InHand'
  BY <1>1, <1>2, <1>3, <1>4, <1>5 DEF TableInv, InHand, HandOf
<1>8. SocketsEntered'
  BY <1>1, <1>2, <1>4 DEF TableInv, SocketsEntered
<1>9. StoppedEmpty'
  BY <1>2, <1>4 DEF TableInv, StoppedEmpty
<1>10. EntriesExact'
  BY <1>1, <1>2 DEF TableInv, EntriesExact, Closing
<1>11. EventsFindConns'
  BY <1>1, <1>3, <1>5 DEF TableInv, EventsFindConns, Entered
<1>. QED  BY <1>4, <1>6, <1>7, <1>8, <1>9, <1>10, <1>11 DEF TableInv

LEMMA UnregisterStep ==
  ASSUME TableInv, NEW r \in Threads, NEW fd \in Fds, Unregister(r, fd)
  PROVE  TableInv'
<1>1. /\ TableType /\ "close" \in Labels /\ fd \in Nat
      /\ MoveTo(r, "close", fd) /\ thread[r].pc = "loop"
      /\ UNCHANGED <<socket, heap, conns, died>>
  BY FdAssumption DEF TableInv, TableType, Labels, Unregister, At, Fds, InHand, HandOf
<1>2. /\ thread' \in [Threads -> [pc : Labels, fd : Nat]]
      /\ thread'[r].pc = "close" /\ thread'[r].fd = fd
      /\ \A q \in Threads : q # r => thread'[q] = thread[q]
  BY <1>1, ThreadStep
<1>3. /\ interest' \in [Threads -> SUBSET Fds]
      /\ interest'[r] = interest[r] \ {fd}
      /\ \A q \in Threads : q # r => interest'[q] = interest[q]
  BY <1>1 DEF TableType, Unregister
<1>4. HeapExact' /\ \A q, g : Entered(q, g)' <=> Entered(q, g)
  BY <1>1, SameEntries
<1>5. socket[fd] = r /\ Entered(r, fd)
  BY <1>1 DEF TableInv, InHand, HandOf, EventsFindConns, Entered, Unregister
<1>6. TableType'
  BY <1>1, <1>2, <1>3 DEF TableType
<1>7. InHand'
  BY <1>1, <1>2, <1>3, <1>4, <1>5 DEF TableInv, InHand, HandOf
<1>8. SocketsEntered'
  BY <1>1, <1>2, <1>4 DEF TableInv, SocketsEntered
<1>9. StoppedEmpty'
  BY <1>2, <1>4 DEF TableInv, StoppedEmpty
<1>10. EntriesExact'
  BY <1>1, <1>2 DEF TableInv, EntriesExact, Closing
<1>11. EventsFindConns'
  BY <1>1, <1>3, <1>5 DEF TableInv, EventsFindConns, Entered
<1>. QED  BY <1>4, <1>6, <1>7, <1>8, <1>9, <1>10, <1>11 DEF TableInv

(* stop, the next descriptor to close, stopped, and accept that fails *)
LEMMA StopStep ==
  ASSUME TableInv, NEW r \in Threads,
         \/ LeaveLoop(r) \/ Stopped(r) \/ AcceptFails(r)
         \/ \E fd \in Fds : CloseNext(r, fd)
  PROVE  TableInv'
<1>1. /\ TableType /\ UNCHANGED <<socket, heap, conns, interest>> /\ died' \in BOOLEAN
  BY DEF TableInv, TableType, LeaveLoop, Stopped, AcceptFails, CloseNext
<1>2. HeapExact' /\ \A q, g : Entered(q, g)' <=> Entered(q, g)
  BY <1>1, SameEntries
<1>3. PICK pc \in Labels, fd \in Nat :
        /\ thread[r].pc \in {"loop", "stop"}
        /\ \/ thread' = thread
           \/ /\ MoveTo(r, pc, fd)
              /\ \/ pc = "stop"
                 \/ /\ pc = "last_close" /\ thread[r].pc = "stop"
                    /\ fd \in Left(r) /\ fd \in Fds
                 \/ pc = "stopped" /\ Left(r) = {}
  <2>1. {"stop", "last_close", "stopped"} \subseteq Labels /\ Fds \subseteq Nat
    BY FdAssumption DEF Labels, Fds
  <2>2. CASE LeaveLoop(r)
    BY <2>1, <2>2 DEF LeaveLoop, At
  <2>3. CASE Stopped(r)
    BY <2>1, <2>3 DEF Stopped, At
  <2>4. CASE AcceptFails(r)
    BY <2>1, <2>4 DEF AcceptFails, At
  <2>5. CASE \E g \in Fds : CloseNext(r, g)
    BY <2>1, <2>5 DEF CloseNext, At, Least
  <2>. QED  BY <2>2, <2>3, <2>4, <2>5
<1>4. CASE thread' = thread
  BY <1>1, <1>2, <1>4
  DEF TableInv, TableType, InHand, HandOf, SocketsEntered, StoppedEmpty,
      EntriesExact, EventsFindConns, Closing
<1>5. CASE thread' # thread
  <2>1. MoveTo(r, pc, fd) /\ thread[r].pc \in {"loop", "stop"}
    BY <1>3, <1>5
  <2>2. /\ thread' \in [Threads -> [pc : Labels, fd : Nat]]
        /\ thread'[r].pc = pc /\ thread'[r].fd = fd
        /\ \A q \in Threads : q # r => thread'[q] = thread[q]
    BY <1>1, <2>1, ThreadStep
  <2>3. TableType'
    BY <1>1, <2>2 DEF TableType
  <2>4. pc = "last_close" => fd \in Fds /\ socket[fd] = r /\ Entered(r, fd)
    BY <1>3, <1>5 DEF TableInv, EntriesExact, Closing, Left, Entered
  <2>5. pc = "stopped" => \A g \in Nat : ~Entered(r, g)
    BY <1>3, <1>5 DEF Left, Entered
  <2>6. InHand'
    BY <1>1, <1>2, <1>3, <1>5, <2>2, <2>4 DEF TableInv, InHand, HandOf
  <2>7. SocketsEntered'
    BY <1>1, <1>2, <2>1, <2>2 DEF TableInv, SocketsEntered
  <2>8. StoppedEmpty'
    BY <1>2, <1>3, <1>5, <2>2, <2>5 DEF TableInv, StoppedEmpty
  <2>9. EntriesExact'
    BY <1>1, <2>1, <2>2 DEF TableInv, EntriesExact, Closing
  <2>10. EventsFindConns'
    BY <1>1 DEF TableInv, EventsFindConns
  <2>. QED  BY <1>2, <2>3, <2>6, <2>7, <2>8, <2>9, <2>10 DEF TableInv
<1>. QED  BY <1>4, <1>5

LEMMA CloseStep ==
  ASSUME TableInv, NEW r \in Threads, Close(r)
  PROVE  TableInv'
<1>. PICK fd : fd = thread[r].fd
  OBVIOUS
<1>. PICK pc : pc = IF At(r, "close") THEN "clear" ELSE "last_clear"
  OBVIOUS
<1>1. /\ TableType /\ pc \in Labels /\ pc \in {"clear", "last_clear"} /\ fd \in Nat
      /\ fd \in Fds /\ MoveTo(r, pc, fd) /\ thread[r].pc \in {"close", "last_close"}
      /\ socket[fd] = r /\ Entered(r, fd)
  BY DEF TableInv, TableType, Labels, Close, At, InHand, HandOf
<1>2. /\ thread' \in [Threads -> [pc : Labels, fd : Nat]]
      /\ thread'[r].pc = pc /\ thread'[r].fd = fd
      /\ \A q \in Threads : q # r => thread'[q] = thread[q]
  BY <1>1, ThreadStep
<1>3. /\ socket' \in [Fds -> Threads \cup {Null}] /\ socket'[fd] = Null
      /\ \A g \in Fds : g # fd => socket'[g] = socket[g]
      /\ interest' \in [Threads -> SUBSET Fds]
      /\ interest'[r] = interest[r] \ {fd}
      /\ \A q \in Threads : q # r => interest'[q] = interest[q]
      /\ UNCHANGED <<heap, conns, died>>
  BY <1>1 DEF Close, TableType
<1>4. HeapExact' /\ \A q, g : Entered(q, g)' <=> Entered(q, g)
  BY <1>3, SameEntries
<1>5. TableType'
  BY <1>1, <1>2, <1>3 DEF TableType
<1>6. InHand'
  BY <1>1, <1>2, <1>3, <1>4, NullAssumption DEF TableInv, InHand, HandOf
<1>7. SocketsEntered'
  BY <1>1, <1>2, <1>3, <1>4, NullAssumption DEF TableInv, SocketsEntered
<1>8. StoppedEmpty'
  BY <1>1, <1>2, <1>4 DEF TableInv, StoppedEmpty
<1>9. EntriesExact'
  <2>1. SUFFICES ASSUME NEW q \in Threads, NEW g \in DOMAIN conns[q], conns[q][g] # Null
                 PROVE  /\ heap[conns[q][g]] = [fd |-> g, shard_id |-> q] /\ g \in Fds
                        /\ socket'[g] = q \/ Closing(q, g)'
    BY <1>3 DEF EntriesExact
  <2>2. /\ heap[conns[q][g]] = [fd |-> g, shard_id |-> q] /\ g \in Fds
        /\ socket[g] = q \/ Closing(q, g)
    BY <2>1 DEF TableInv, EntriesExact
  <2>3. CASE q = r
    BY <1>1, <1>2, <1>3, <2>2, <2>3 DEF Closing
  <2>4. CASE q # r
    BY <1>1, <1>2, <1>3, <2>2, <2>4 DEF Closing
  <2>. QED  BY <2>2, <2>3, <2>4
<1>10. EventsFindConns'
  <2>. \A q \in Threads : interest[q] \subseteq Fds
    BY <1>1 DEF TableType
  <2>. QED  BY <1>1, <1>3 DEF TableInv, EventsFindConns
<1>. QED  BY <1>4, <1>5, <1>6, <1>7, <1>8, <1>9, <1>10 DEF TableInv

LEMMA ClearStep ==
  ASSUME TableInv, NEW r \in Threads, Clear(r)
  PROVE  TableInv'
<1>. PICK fd : fd = thread[r].fd
  OBVIOUS
<1>. PICK pc : pc = IF At(r, "clear") THEN "loop" ELSE "stop"
  OBVIOUS
<1>1. /\ TableType /\ pc \in Labels /\ pc \in {"loop", "stop"} /\ fd \in Nat
      /\ fd \in Fds /\ MoveTo(r, pc, 0) /\ thread[r].pc \in {"clear", "last_clear"}
      /\ socket[fd] # r /\ Entered(r, fd) /\ fd \notin interest[r]
  BY DEF TableInv, TableType, Labels, Clear, At, InHand, HandOf
<1>2. /\ thread' \in [Threads -> [pc : Labels, fd : Nat]]
      /\ thread'[r].pc = pc
      /\ \A q \in Threads : q # r => thread'[q] = thread[q]
  BY <1>1, ThreadStep
<1>3. /\ DOMAIN conns[r] \subseteq Nat
      /\ conns[r] \in [DOMAIN conns[r] -> Heap \cup {Null}]
  BY <1>1, VectorType
<1>4. PICK c \in Heap : conns[r][fd] = c /\ heap[c] = [fd |-> fd, shard_id |-> r]
  BY <1>1, <1>3 DEF Entered, TableInv, EntriesExact
<1>5. /\ conns' = [conns EXCEPT ![r] = [conns[r] EXCEPT ![fd] = Null]]
      /\ heap' = [heap EXCEPT ![c] = Null]
      /\ UNCHANGED <<socket, interest, died>>
  BY <1>4 DEF Clear
<1>6. /\ DOMAIN conns'[r] = DOMAIN conns[r] /\ conns'[r][fd] = Null
      /\ \A i \in DOMAIN conns[r] : i # fd => conns'[r][i] = conns[r][i]
      /\ \A q \in Threads : q # r => conns'[q] = conns[q]
      /\ heap'[c] = Null /\ \A d \in Heap : d # c => heap'[d] = heap[d]
  BY <1>1, <1>3, <1>5 DEF TableType, Entered
<1>7. /\ ~Entered(r, fd)'
      /\ \A q \in Threads : \A g : (q # r \/ g # fd) => (Entered(q, g)' <=> Entered(q, g))
  BY <1>6 DEF Entered
<1>8. TableType'
  <2>1. [conns[r] EXCEPT ![fd] = Null] \in [DOMAIN conns[r] -> Heap \cup {Null}]
    BY <1>3
  <2>2. [conns[r] EXCEPT ![fd] = Null] \in
          UNION {[D -> Heap \cup {Null}] : D \in SUBSET Nat}
    BY <1>3, <2>1
  <2>3. conns' \in [Threads -> UNION {[D -> Heap \cup {Null}] : D \in SUBSET Nat}]
    BY <1>1, <1>5, <2>2 DEF TableType
  <2>. QED  BY <1>1, <1>2, <1>5, <2>3 DEF TableType
<1>9. InHand'
  <2>. SUFFICES ASSUME NEW q \in Threads, q # r PROVE HandOf(q)'
    BY <1>1, <1>2 DEF InHand, HandOf
  <2>. QED  BY <1>2, <1>5, <1>7 DEF TableInv, InHand, HandOf
<1>10. SocketsEntered'
  BY <1>1, <1>2, <1>5, <1>7 DEF TableInv, SocketsEntered
<1>11. StoppedEmpty'
  BY <1>1, <1>2, <1>7 DEF TableInv, StoppedEmpty
<1>12. EntriesExact'
  <2>1. SUFFICES ASSUME NEW q \in Threads, NEW g \in DOMAIN conns'[q],
                        conns'[q][g] # Null
                 PROVE  /\ heap'[conns'[q][g]] = [fd |-> g, shard_id |-> q]
                        /\ g \in Fds
                        /\ socket'[g] = q \/ Closing(q, g)'
    BY DEF EntriesExact
  <2>2. /\ g \in DOMAIN conns[q] /\ conns[q][g] # Null /\ conns'[q][g] = conns[q][g]
        /\ q # r \/ g # fd
    BY <1>6, <2>1
  <2>3. /\ heap[conns[q][g]] = [fd |-> g, shard_id |-> q] /\ g \in Fds
        /\ socket[g] = q \/ Closing(q, g)
    BY <2>2 DEF TableInv, EntriesExact
  <2>4. conns[q][g] \in Heap
    BY <1>1, <2>2, VectorType
  <2>5. conns[q][g] # c
    BY <1>4, <2>2, <2>3
  <2>6. socket'[g] = q \/ Closing(q, g)'
    BY <1>2, <1>5, <2>2, <2>3 DEF Closing
  <2>. QED  BY <1>6, <2>2, <2>3, <2>4, <2>5, <2>6
<1>13. HeapExact'
  <2>1. SUFFICES ASSUME NEW d \in Heap, heap'[d] # Null
                 PROVE  /\ heap'[d].fd \in DOMAIN conns'[heap'[d].shard_id]
                        /\ conns'[heap'[d].shard_id][heap'[d].fd] = d
    BY DEF HeapExact
  <2>2. /\ d # c /\ heap[d] # Null /\ heap'[d] = heap[d]
        /\ heap[d].shard_id \in Threads
    BY <1>1, <1>6, <2>1 DEF TableType
  <2>3. /\ heap[d].fd \in DOMAIN conns[heap[d].shard_id]
        /\ conns[heap[d].shard_id][heap[d].fd] = d
    BY <2>2 DEF TableInv, HeapExact
  <2>4. heap[d].shard_id # r \/ heap[d].fd # fd
    BY <1>4, <2>2, <2>3
  <2>. QED  BY <1>6, <2>2, <2>3, <2>4
<1>14. EventsFindConns'
  BY <1>1, <1>5, <1>7 DEF TableInv, EventsFindConns, Entered
<1>. QED  BY <1>8, <1>9, <1>10, <1>11, <1>12, <1>13, <1>14 DEF TableInv
----------------------------------------------------------------------------
LEMMA TableInvNext == TableInv /\ [TableNext]_table => TableInv'
<1>. SUFFICES ASSUME TableInv, [TableNext]_table PROVE TableInv'
  OBVIOUS
<1>1. CASE UNCHANGED table
  BY <1>1 DEF table, TableInv, TableType, InHand, HandOf, SocketsEntered, StoppedEmpty,
     EntriesExact, HeapExact, EventsFindConns, Entered, Closing
<1>2. CASE TableNext
  <2>1. PICK r \in Threads :
          \/ \E fd \in Fds : Accept(r, fd) \/ Unregister(r, fd) \/ CloseNext(r, fd)
          \/ \E c \in Heap : Emplace(r, c)
          \/ AcceptFails(r) \/ Register(r) \/ Close(r) \/ Clear(r)
          \/ LeaveLoop(r) \/ Stopped(r)
    BY <1>2 DEF TableNext
  <2>. QED  BY <2>1, AcceptStep, UnregisterStep, EmplaceStep, RegisterStep, CloseStep,
               ClearStep, StopStep
<1>. QED  BY <1>1, <1>2

LEMMA TableInvariant == TableSpec => []TableInv
BY TableInvInit, TableInvNext, PTL DEF TableSpec

(* No vector of connections ever holds a freed one, or one at another's     *)
(* place, none that is allocated is missing from its vector, and an event   *)
(* from epoll_wait finds its connection: emplace and close, between the     *)
(* accepts and closes of the other reactors.                                *)
THEOREM TableIsExact == TableSpec => []TableExact
<1>1. TableInv => TableExact
  BY DEF TableInv, EntriesExact, HeapExact, TableExact
<1>. QED  BY <1>1, TableInvariant, PTL

(* The end of reactor_run closes the connections of the reactor, all of     *)
(* them, however far its vector has grown.                                  *)
THEOREM StopsClean == TableSpec => []StoppedClean
<1>1. TableInv => StoppedClean
  <2>. SUFFICES ASSUME TableInv, NEW r \in Threads, thread[r].pc = "stopped"
                PROVE  /\ \A fd \in Fds : socket[fd] # r
                       /\ \A c \in Heap : heap[c] # Null => heap[c].shard_id # r
    BY DEF StoppedClean
  <2>1. \A fd \in Nat : ~Entered(r, fd)
    BY DEF TableInv, StoppedEmpty
  <2>2. Fds \subseteq Nat
    BY FdAssumption DEF Fds
  <2>3. \A fd \in Fds : socket[fd] # r
    BY <2>1, <2>2 DEF TableInv, SocketsEntered
  <2>4. ASSUME NEW c \in Heap, heap[c] # Null, heap[c].shard_id = r PROVE FALSE
    <3>1. heap[c].fd \in Nat
      BY <2>4 DEF TableInv, TableType
    <3>2. heap[c].fd \in DOMAIN conns[r] /\ conns[r][heap[c].fd] = c /\ c # Null
      BY <2>4, NullAssumption DEF TableInv, HeapExact
    <3>. QED  BY <2>1, <3>1, <3>2 DEF Entered
  <2>. QED  BY <2>3, <2>4
<1>. QED  BY <1>1, TableInvariant, PTL
=============================================================================
