------------------------------ MODULE Hashmap -------------------------------
(***************************************************************************)
(* The robin hood hash table of hashmap.c that holds the entries of a      *)
(* database.  The calls are sequential; a step is one round of one of      *)
(* their loops, so that every intermediate state of the table is visible.  *)
(* Two items have the same hash and compare equal when their keys are the  *)
(* same.  Allocations may fail.                                            *)
(***************************************************************************)
EXTENDS Integers, FiniteSets

CONSTANTS Keys,
          Hash,        \* entry_hash_xxhash3, clipped
          Values,
          NoValue,     \* NULL
          NoCall,
          MinBuckets   \* buckets of a new map (a power of two)

ASSUME HashAssumption == Hash \in [Keys -> Nat]
ASSUME BucketAssumption == MinBuckets \in Nat /\ MinBuckets >= 2
ASSUME ValueAssumption == NoValue \notin Values /\ NoCall \notin Values \cup {NoValue}
(* the absence of a call is none of the calls of the program *)
ASSUME CallAssumption ==
  NoCall \notin [name : {"get", "set", "delete"}, key : Keys, value : Values \cup {NoValue}]

VARIABLES
  buckets,   \* map->buckets, indexed from 0; the index set is 0 .. mask
  cap,       \* map->cap
  growat,
  shrinkat,
  count,
  buckets2,  \* the buckets of map2 in resize0
  call,      \* the call in progress
  pc,
  i,         \* the bucket a loop looks at
  src,       \* the bucket resize0 moves
  entry,     \* map->edata, the item a set has in hand
  result     \* what the call returns: an item's value or NULL, and map->oom

table == <<buckets, cap, growat, shrinkat>>
vars == <<table, count, buckets2, call, pc, i, src, entry, result>>

Size(b) == Cardinality(DOMAIN b)
nbuckets == Size(buckets)

Empty == [dib |-> 0, key |-> NoValue, value |-> NoValue]
EmptyTable(n) == [j \in 0 .. n - 1 |-> Empty]

Slot(key, b) == Hash[key] % Size(b)
(* a mistake the runs must notice: the end of the table ignored *)
SuccUnmasked(j, b) == j + 1
Succ(j, b) == (j + 1) % Size(b)

(* the products with GROW_AT and SHRINK_AT, converted to size_t *)
(* a mistake the runs must notice: the table may fill up *)
GrowAtFull(n) == n

GrowAt(n) == (n * 60) \div 100
ShrinkAt(n) == (n * 10) \div 100

Found(value) == [value |-> value, oom |-> FALSE]

NoTable == EmptyTable(0)

(* hashmap_new *)
Init ==
  /\ buckets = EmptyTable(MinBuckets)
  /\ cap = MinBuckets
  /\ growat = GrowAt(MinBuckets)
  /\ shrinkat = ShrinkAt(MinBuckets)
  /\ count = 0
  /\ buckets2 = NoTable
  /\ call = NoCall
  /\ pc = "idle"
  /\ i = 0
  /\ src = 0
  /\ entry = Empty
  /\ result = Found(NoValue)

----------------------------------------------------------------------------
(* hashmap_get_with_hash *)

Get(k) ==
  /\ pc = "idle"
  /\ call' = [name |-> "get", key |-> k, value |-> NoValue]
  /\ i' = Slot(k, buckets)
  /\ pc' = "get"
  /\ UNCHANGED <<table, count, buckets2, src, entry, result>>

(* the round of a search that comes to an end, and the one that goes on *)
Ends(b) == b.dib = 0 \/ b.key = call.key

SearchOn ==
  /\ pc \in {"get", "delete"} /\ ~Ends(buckets[i])
  /\ i' = Succ(i, buckets)
  /\ UNCHANGED <<table, count, buckets2, call, pc, src, entry, result>>

GetEnds ==
  /\ pc = "get" /\ Ends(buckets[i])
  /\ result' = Found(buckets[i].value)
  /\ pc' = "return"
  /\ UNCHANGED <<table, count, buckets2, call, i, src, entry>>

Return ==
  /\ pc = "return"
  /\ call' = NoCall
  /\ pc' = "idle"
  /\ i' = 0 /\ src' = 0 /\ entry' = Empty /\ result' = Found(NoValue)
  /\ UNCHANGED <<table, count, buckets2>>

----------------------------------------------------------------------------
(* hashmap_set_with_hash *)

SetStart(k, b) ==
  /\ i' = Slot(k, b)
  /\ pc' = "set"

Set(k, v) ==
  /\ pc = "idle"
  /\ call' = [name |-> "set", key |-> k, value |-> v]
  /\ entry' = [dib |-> 1, key |-> k, value |-> v]
  /\ \/ count = growat /\ pc' = "grow" /\ UNCHANGED i
     \/ count # growat /\ SetStart(k, buckets)
  /\ UNCHANGED <<table, count, buckets2, src, result>>

SetEmpty ==
  /\ pc = "set" /\ buckets[i].dib = 0
  /\ buckets' = [buckets EXCEPT ![i] = entry]
  /\ count' = count + 1
  /\ result' = Found(NoValue)
  /\ pc' = "return"
  /\ UNCHANGED <<cap, growat, shrinkat, buckets2, call, i, src, entry>>

(* a mistake the runs must notice: a replaced item counted as a new one *)
SetReplaceCounted ==
  /\ pc = "set" /\ buckets[i].dib # 0 /\ buckets[i].key = entry.key
  /\ buckets' = [buckets EXCEPT ![i].value = entry.value]
  /\ count' = count + 1
  /\ result' = Found(buckets[i].value)
  /\ pc' = "return"
  /\ UNCHANGED <<cap, growat, shrinkat, buckets2, call, i, src, entry>>

SetReplace ==
  /\ pc = "set" /\ buckets[i].dib # 0 /\ buckets[i].key = entry.key
  /\ buckets' = [buckets EXCEPT ![i].value = entry.value]
  /\ result' = Found(buckets[i].value)
  /\ pc' = "return"
  /\ UNCHANGED <<cap, growat, shrinkat, count, buckets2, call, i, src, entry>>

(* dib is a field of 16 bits in the code and unbounded here: the two       *)
(* differ when an item is more than 65,534 buckets away from its own       *)
Further(e) == [e EXCEPT !.dib = @ + 1]

(* the item in hand, or a resident nearer to its own slot, goes on *)
SetOn ==
  /\ pc = "set" /\ buckets[i].dib # 0 /\ buckets[i].key # entry.key
  /\ \/ /\ buckets[i].dib < entry.dib
        /\ buckets' = [buckets EXCEPT ![i] = entry]
        /\ entry' = Further(buckets[i])
     \/ /\ buckets[i].dib >= entry.dib
        /\ entry' = Further(entry)
        /\ UNCHANGED buckets
  /\ i' = Succ(i, buckets)
  /\ UNCHANGED <<cap, growat, shrinkat, count, buckets2, call, pc, src, result>>

----------------------------------------------------------------------------
(* hashmap_delete_with_hash *)

Delete(k) ==
  /\ pc = "idle"
  /\ call' = [name |-> "delete", key |-> k, value |-> NoValue]
  /\ i' = Slot(k, buckets)
  /\ pc' = "delete"
  /\ UNCHANGED <<table, count, buckets2, src, entry, result>>

DeleteAbsent ==
  /\ pc = "delete" /\ buckets[i].dib = 0
  /\ result' = Found(NoValue)
  /\ pc' = "return"
  /\ UNCHANGED <<table, count, buckets2, call, i, src, entry>>

DeleteFound ==
  /\ pc = "delete" /\ buckets[i].dib # 0 /\ buckets[i].key = call.key
  /\ result' = Found(buckets[i].value)
  /\ buckets' = [buckets EXCEPT ![i].dib = 0]
  /\ pc' = "shift"
  /\ UNCHANGED <<cap, growat, shrinkat, count, buckets2, call, i, src, entry>>

(* a mistake the runs must notice: dib not adjusted *)
ShiftInPlace ==
  /\ pc = "shift" /\ buckets[Succ(i, buckets)].dib > 1
  /\ buckets' = [buckets EXCEPT ![i] = buckets[Succ(i, buckets)]]
  /\ i' = Succ(i, buckets)
  /\ UNCHANGED <<cap, growat, shrinkat, count, buckets2, call, pc, src, entry, result>>

(* The items behind the hole move up one by one ... *)
Shift ==
  /\ pc = "shift" /\ buckets[Succ(i, buckets)].dib > 1
  /\ buckets' = [buckets EXCEPT ![i] = [buckets[Succ(i, buckets)] EXCEPT !.dib = @ - 1]]
  /\ i' = Succ(i, buckets)
  /\ UNCHANGED <<cap, growat, shrinkat, count, buckets2, call, pc, src, entry, result>>

(* a mistake the runs must notice: the last bucket not emptied *)
ShiftDoneDirty ==
  /\ pc = "shift" /\ buckets[Succ(i, buckets)].dib <= 1
  /\ count' = count - 1
  /\ \/ nbuckets > cap /\ count' <= shrinkat /\ pc' = "shrink"
     \/ ~(nbuckets > cap /\ count' <= shrinkat) /\ pc' = "return"
  /\ UNCHANGED <<table, buckets2, call, i, src, entry, result>>

(* ... up to one that is in its own slot or an empty bucket. *)
ShiftDone ==
  /\ pc = "shift" /\ buckets[Succ(i, buckets)].dib <= 1
  /\ buckets' = [buckets EXCEPT ![i] = Empty]
  /\ count' = count - 1
  /\ \/ nbuckets > cap /\ count' <= shrinkat /\ pc' = "shrink"
     \/ ~(nbuckets > cap /\ count' <= shrinkat) /\ pc' = "return"
  /\ UNCHANGED <<cap, growat, shrinkat, buckets2, call, i, src, entry, result>>

----------------------------------------------------------------------------
(* resize0 *)

Allocate(n) ==
  /\ buckets2' = EmptyTable(n)
  /\ src' = 0
  /\ pc' = "move"

Grow ==
  /\ pc = "grow"
  /\ \/ Allocate(2 * nbuckets) /\ UNCHANGED result
     \/ /\ result' = [value |-> NoValue, oom |-> TRUE]
        /\ pc' = "return"
        /\ UNCHANGED <<buckets2, src>>
  /\ UNCHANGED <<table, count, call, i, entry>>

(* a failure to shrink is ignored *)
Shrink ==
  /\ pc = "shrink"
  /\ \/ Allocate(nbuckets \div 2)
     \/ pc' = "return" /\ UNCHANGED <<buckets2, src>>
  /\ UNCHANGED <<table, count, call, i, entry, result>>

MoveNext ==
  /\ pc = "move" /\ src < nbuckets
  /\ \/ buckets[src].dib = 0 /\ src' = src + 1 /\ UNCHANGED <<buckets, pc, i>>
     \/ /\ buckets[src].dib # 0
        /\ buckets' = [buckets EXCEPT ![src].dib = 1]
        /\ i' = Slot(buckets[src].key, buckets2)
        /\ pc' = "place"
        /\ UNCHANGED src
  /\ UNCHANGED <<cap, growat, shrinkat, count, buckets2, call, entry, result>>

Place ==
  /\ pc = "place" /\ buckets2[i].dib = 0
  /\ buckets2' = [buckets2 EXCEPT ![i] = buckets[src]]
  /\ src' = src + 1
  /\ pc' = "move"
  /\ UNCHANGED <<table, count, call, i, entry, result>>

(* the item in hand is the bucket of the old table itself *)
PlaceOn ==
  /\ pc = "place" /\ buckets2[i].dib # 0
  /\ \/ /\ buckets2[i].dib < buckets[src].dib
        /\ buckets2' = [buckets2 EXCEPT ![i] = buckets[src]]
        /\ buckets' = [buckets EXCEPT ![src] = Further(buckets2[i])]
     \/ /\ buckets2[i].dib >= buckets[src].dib
        /\ buckets' = [buckets EXCEPT ![src] = Further(@)]
        /\ UNCHANGED buckets2
  /\ i' = Succ(i, buckets2)
  /\ UNCHANGED <<cap, growat, shrinkat, count, call, pc, src, entry, result>>

(* the new table replaces the old one, and a set goes on with it *)
MoveDone ==
  /\ pc = "move" /\ src = nbuckets
  /\ buckets' = buckets2
  /\ growat' = GrowAt(Size(buckets2))
  /\ shrinkat' = ShrinkAt(Size(buckets2))
  /\ \/ call.name = "set" /\ SetStart(call.key, buckets2)
     \/ call.name = "delete" /\ pc' = "return" /\ UNCHANGED i
  /\ buckets2' = NoTable
  /\ UNCHANGED <<cap, count, call, src, entry, result>>

----------------------------------------------------------------------------
(* hashmap_clear(map, true), with load factors of its own *)
Clear ==
  /\ pc = "idle"
  /\ count' = 0
  /\ cap' = nbuckets
  /\ buckets' = EmptyTable(nbuckets)
  /\ growat' = (nbuckets * 75) \div 100
  /\ shrinkat' = ShrinkAt(nbuckets)
  /\ UNCHANGED <<buckets2, call, pc, i, src, entry, result>>

Loop ==
  \/ SearchOn \/ GetEnds \/ Return
  \/ SetEmpty \/ SetReplace \/ SetOn
  \/ DeleteAbsent \/ DeleteFound \/ Shift \/ ShiftDone
  \/ Grow \/ Shrink \/ MoveNext \/ Place \/ PlaceOn \/ MoveDone

Next ==
  \/ Loop \/ Clear
  \/ \E k \in Keys : Get(k) \/ Delete(k) \/ \E v \in Values : Set(k, v)

Spec == Init /\ [][Next]_vars

(* a call that has started runs *)
FairSpec == Spec /\ WF_vars(Loop)

----------------------------------------------------------------------------
(* Properties *)

Bucket == [dib : Nat, key : Keys \cup {NoValue}, value : Values \cup {NoValue}]

(* Every variable has its type. *)
TypeOK ==
  /\ buckets \in [0 .. nbuckets - 1 -> Bucket]
  /\ buckets2 \in [0 .. Size(buckets2) - 1 -> Bucket]
  /\ {cap, growat, shrinkat, count, src} \subseteq Nat
  /\ pc \in {"get", "set", "delete", "shift"} => i \in DOMAIN buckets
  /\ pc = "place" => i \in DOMAIN buckets2
  /\ entry \in Bucket
  /\ result \in [value : Values \cup {NoValue}, oom : BOOLEAN]
  /\ pc \in {"idle", "get", "set", "delete", "shift", "grow", "shrink", "move",
             "place", "return"}

Occupied(b) == {j \in DOMAIN b : b[j].dib > 0}

(* Every item is as far from its own slot as its dib says, and the way     *)
(* from the slot to the item has no empty bucket and nobody nearer to his  *)
(* own slot than the item would be there.                                  *)
RobinHood(b) ==
  \A j \in Occupied(b) :
    LET n == Size(b)
        before == b[(j + n - 1) % n]
    IN /\ j = (Hash[b[j].key] + b[j].dib - 1) % n
       /\ b[j].dib > 1 => before.dib >= b[j].dib - 1

(* The table is in robin hood order between the calls, and while a set or  *)
(* a resize carries an item around: a search may stop at an empty bucket.  *)
Ordered ==
  /\ pc # "shift" => RobinHood(IF pc \in {"move", "place"} THEN buckets2 ELSE buckets)

(* between two calls *)
Quiet == pc = "idle"

(* The count is the number of items, no key is there twice, and there is   *)
(* room: the thresholds of resizing and clearing leave an empty bucket, so *)
(* that every search ends.                                                 *)
CountIsItems ==
  Quiet =>
    /\ count = Cardinality(Occupied(buckets))
    /\ count = Cardinality({buckets[j].key : j \in Occupied(buckets)})
    /\ count <= growat /\ growat < nbuckets
    /\ nbuckets >= cap

(* Every call returns. *)
CallsReturn == pc # "idle" ~> pc = "idle"

(* the items of the map, wherever a call has put them for the moment *)
Resident(b, from) == {[key |-> b[j].key, value |-> b[j].value] :
                        j \in {l \in Occupied(b) : l >= from}}

InHand == [key |-> entry.key, value |-> entry.value]

(* the new item of a set has found its place *)
Placed == pc = "set" /\ entry.key # call.key

Items ==
  CASE pc \in {"move", "place"} -> Resident(buckets2, 0) \cup Resident(buckets, src)
    [] pc = "shift" -> {[key |-> buckets[j].key, value |-> buckets[j].value] :
                          j \in Occupied(buckets) \ {i}}
    [] Placed -> Resident(buckets, 0) \cup {InHand}
    [] OTHER -> Resident(buckets, 0)

Lookup(k) ==
  IF \E item \in Items : item.key = k
  THEN (CHOOSE item \in Items : item.key = k).value
  ELSE NoValue

(* whether the outcome of the call is settled *)
Settled ==
  \/ pc \in {"idle", "return", "shift", "shrink"}
  \/ pc \in {"move", "place"} /\ call.name = "delete"

(* the map the tables stand for, and what is known of the result *)
Contents == [k \in Keys |-> Lookup(k)]

Outcome ==
  CASE Settled -> result
    [] ~Settled /\ Placed -> Found(NoValue)
    [] ~Settled /\ ~Placed -> [value |-> NoCall, oom |-> FALSE]

Map == INSTANCE KvMap WITH map <- Contents, result <- Outcome

(* The table is a map: whatever is set, deleted, moved or resized, every   *)
(* key has the value last set, and a failed allocation changes nothing.    *)
ImplementsMap == Map!Spec
=============================================================================
