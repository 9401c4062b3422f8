--------------------------- MODULE HashmapProofs ----------------------------
(***************************************************************************)
(* The order of the robin hood table, its count and its types, and that it *)
(* is a map, for every set of keys, every hash function and every size of  *)
(* a new map.                                                              *)
(*                                                                         *)
(* The way of an item leads from the slot of its key to the bucket it is   *)
(* in; its d-th bucket has a dib of at least d.  Items that are inserted   *)
(* only raise the dib of a bucket, so ways stay ways, and an item in hand  *)
(* that follows its own way meets an equal key before it meets a bucket    *)
(* that is empty or nearer to its slot.  Nothing but the hole of a         *)
(* deletion breaks a way, and it moves on until no way leads through it.   *)
(*                                                                         *)
(* The map is what the items say, wherever a call has put them.  A get or  *)
(* a delete takes effect where its search ends, a set where its item is    *)
(* put down; all other steps leave the set of items as it is.              *)
(***************************************************************************)
EXTENDS Hashmap, FiniteSetTheorems, TLAPS

(* the d-th bucket on the way of a key, in a table of n *)
At(key, d, n) == (Hash[key] + d - 1) % n

(* a table of n buckets *)
Table(b, n) == n \in Nat \ {0} /\ b \in [0 .. n - 1 -> Bucket]

(* Items are where their dib says, and their ways are filled, but for the  *)
(* bucket h that is treated as a hole.                                     *)
Ways(b, n, h) ==
  \A j \in 0 .. n - 1 : j # h /\ b[j].dib > 0 =>
    /\ b[j].key \in Keys
    /\ j = At(b[j].key, b[j].dib, n)
    /\ \A d \in 1 .. b[j].dib : At(b[j].key, d, n) # h => b[At(b[j].key, d, n)].dib >= d

(* An item in hand at bucket p is on its way, and not past its own key. *)
OnWay(b, n, item, p) ==
  /\ item.key \in Keys /\ item.dib > 0
  /\ p = At(item.key, item.dib, n)
  /\ \A d \in 1 .. item.dib - 1 : b[At(item.key, d, n)].dib >= d
  /\ \A j \in 0 .. n - 1 : b[j].dib > 0 /\ b[j].key = item.key => b[j].dib >= item.dib

(* No key is twice in the buckets of a set. *)
Distinct(b, S) ==
  \A j1, j2 \in S : b[j1].dib > 0 /\ b[j2].dib > 0 /\ b[j1].key = b[j2].key => j1 = j2

(* the items still to be moved, and those that are not the hole *)
Rest(b, from) == {j \in Occupied(b) : j >= from}
But(b, h) == Occupied(b) \ {h}

(* The size of a table is that of a new map, doubled some times: the sizes *)
(* it had on the way are between the two.                                  *)
Doubled(c, n) ==
  \E S \in SUBSET Nat :
    /\ n \in S
    /\ \A m \in S : m >= c /\ (m # c => m % 2 = 0 /\ m \div 2 \in S)

Resizing == pc \in {"move", "place"}

Sizes ==
  /\ cap \in Nat /\ cap >= 2
  /\ nbuckets \in Nat /\ nbuckets >= 2
  /\ ~Resizing => Doubled(cap, nbuckets)
  /\ Resizing => Size(buckets2) \in Nat /\ Size(buckets2) >= 2 /\ Doubled(cap, Size(buckets2))

Thresholds ==
  /\ count \in Nat
  /\ growat \in {GrowAt(nbuckets), (nbuckets * 75) \div 100}
  /\ shrinkat = ShrinkAt(nbuckets)
  /\ ~Resizing => count <= growat
  /\ pc = "set" => count < growat
  /\ pc = "grow" => call.name = "set"
  /\ pc = "shrink" => nbuckets > cap /\ count <= shrinkat
  /\ Resizing =>
       /\ call.name \in {"set", "delete"}
       /\ count <= GrowAt(Size(buckets2))
       /\ call.name = "set" => count < GrowAt(Size(buckets2))

(* the item a set starts with, until it is put into the table *)
Fresh ==
  pc = "grow" \/ (Resizing /\ call.name = "set")
    => entry.key = call.key /\ entry.dib = 1 /\ call.key \in Keys

(* the calls the places of a deletion belong to *)
Deleting == pc \in {"delete", "shift", "shrink"} => call.name = "delete"

Types ==
  /\ Table(buckets, nbuckets)
  /\ buckets2 \in [0 .. Size(buckets2) - 1 -> Bucket]
  /\ src \in Nat
  /\ pc \in {"get", "set", "delete", "shift"} => i \in 0 .. nbuckets - 1
  /\ pc = "place" => i \in 0 .. Size(buckets2) - 1
  /\ entry \in Bucket
  /\ result \in [value : Values \cup {NoValue}, oom : BOOLEAN]
  /\ pc \in {"idle", "get", "set", "delete", "shift", "grow", "shrink", "move",
             "place", "return"}

(* The table as it is in most places: ... *)
Whole ==
  ~Resizing /\ pc # "shift" =>
    /\ Ways(buckets, nbuckets, nbuckets)
    /\ Distinct(buckets, 0 .. nbuckets - 1)
    /\ count = Cardinality(Occupied(buckets))

(* ... during a set, with an item in hand, ... *)
Setting == pc = "set" => OnWay(buckets, nbuckets, entry, i)

(* ... during a deletion, with a hole, ... *)
Shifting ==
  pc = "shift" =>
    /\ Ways(buckets, nbuckets, i)
    /\ Distinct(buckets, (0 .. nbuckets - 1) \ {i})
    /\ count = Cardinality(But(buckets, i)) + 1

(* ... and in two parts, while it is moved. *)
Moving ==
  Resizing =>
    /\ src <= nbuckets
    /\ Ways(buckets2, Size(buckets2), Size(buckets2))
    /\ Distinct(buckets2, 0 .. Size(buckets2) - 1)
    /\ Distinct(buckets, src .. nbuckets - 1)
    /\ \A j \in src .. nbuckets - 1 : buckets[j].dib > 0 =>
         /\ buckets[j].key \in Keys
         /\ \A l \in 0 .. Size(buckets2) - 1 :
              buckets2[l].dib > 0 => buckets2[l].key # buckets[j].key
    /\ count = Cardinality(Occupied(buckets2)) + Cardinality(Rest(buckets, src))
    /\ pc = "place" => src < nbuckets /\ OnWay(buckets2, Size(buckets2), buckets[src], i)

IInv ==
  /\ Types /\ Sizes /\ Thresholds /\ Fresh /\ Deleting
  /\ Whole /\ Setting /\ Shifting /\ Moving

----------------------------------------------------------------------------
(* Remainders *)

(* Euclidean division of a number by the size of a table. *)
LEMMA Division ==
  ASSUME NEW n \in Nat \ {0}, NEW a \in Nat
  PROVE  /\ a % n \in 0 .. n - 1
         /\ a \div n \in Nat
         /\ a = n * (a \div n) + (a % n)
OBVIOUS

(* Multiples of the size of a table are a table apart. *)
LEMMA ProductGap ==
  ASSUME NEW n \in Nat, NEW a \in Nat, NEW b \in Nat, a < b
  PROVE  n * b >= n * a + n
<1>1. PICK d \in Nat : b = a + 1 + d
  OBVIOUS
<1>2. n * b = n * a + n + n * d
  BY <1>1
<1>. QED
  BY <1>1, <1>2

(* A multiple and a small rest: the rest is the remainder. *)
LEMMA Remainder ==
  ASSUME NEW n \in Nat \ {0}, NEW q \in Nat, NEW r \in 0 .. n - 1, NEW a \in Nat,
         a = n * q + r
  PROVE  a % n = r
<1>. DEFINE p == a \div n
            s == a % n
<1>1. p \in Nat /\ s \in 0 .. n - 1 /\ a = n * p + s
  BY Division
<1>. SUFFICES s = r
  OBVIOUS
<1>. HIDE DEF p, s
<1>2. ~ p < q
  BY <1>1, ProductGap
<1>3. ~ p > q
  BY <1>1, ProductGap
<1>4. p = q
  BY <1>1, <1>2, <1>3
<1>5. n * p + s = n * p + r
  BY <1>1, <1>4
<1>. QED
  <2>. DEFINE m == n * p
  <2>1. m \in Nat
    BY <1>1
  <2>. HIDE DEF m
  <2>2. m + s = m + r
    BY <1>5 DEF m
  <2>. QED
    BY <1>1, <2>1, <2>2

(* The bucket behind j. *)
LEMMA Behind ==
  ASSUME NEW n \in Nat \ {0}, NEW j \in 0 .. n - 1
  PROVE  (j + 1) % n = IF j + 1 = n THEN 0 ELSE j + 1
<1>1. CASE j + 1 = n
  <2>1. j + 1 = n * 1 + 0
    BY <1>1
  <2>. QED
    BY <1>1, <2>1, Remainder
<1>2. CASE j + 1 # n
  <2>1. j + 1 = n * 0 + (j + 1) /\ j + 1 \in 0 .. n - 1
    BY <1>2
  <2>2. (j + 1) % n = j + 1
    BY <2>1, Remainder
  <2>. QED
    BY <1>2, <2>2
<1>. QED
  BY <1>1, <1>2

(* Following the next bucket is following the next number. *)
LEMMA NextRemainder ==
  ASSUME NEW n \in Nat \ {0}, NEW a \in Nat
  PROVE  ((a % n) + 1) % n = (a + 1) % n
<1>. DEFINE q == a \div n
            r == a % n
<1>1. q \in Nat /\ r \in 0 .. n - 1 /\ a = n * q + r
  BY Division
<1>2. (r + 1) % n = IF r + 1 = n THEN 0 ELSE r + 1
  BY <1>1, Behind
<1>. HIDE DEF q, r
<1>3. CASE r + 1 = n
  <2>1. a + 1 = n * (q + 1) + 0
    BY <1>1, <1>3
  <2>2. (a + 1) % n = 0
    BY <1>1, <2>1, Remainder
  <2>. QED
    BY <1>2, <1>3, <2>2 DEF r
<1>4. CASE r + 1 # n
  <2>1. a + 1 = n * q + (r + 1) /\ r + 1 \in 0 .. n - 1
    BY <1>1, <1>4
  <2>2. (a + 1) % n = r + 1
    BY <1>1, <2>1, Remainder
  <2>. QED
    BY <1>2, <1>4, <2>2 DEF r
<1>. QED
  BY <1>3, <1>4

----------------------------------------------------------------------------
(* Ways *)

(* The bucket behind another, as the code computes it. *)
LEMMA SuccFacts ==
  ASSUME NEW n \in Nat \ {0}, NEW j \in 0 .. n - 1
  PROVE  /\ (j + 1) % n \in 0 .. n - 1
         /\ n >= 2 => (j + 1) % n # j
         /\ (((j + 1) % n) + n - 1) % n = j
<1>1. (j + 1) % n = IF j + 1 = n THEN 0 ELSE j + 1
  BY Behind
<1>2. CASE j + 1 = n
  <2>1. ((j + 1) % n) + n - 1 = n * 0 + j
    BY <1>1, <1>2
  <2>2. (((j + 1) % n) + n - 1) % n = j
    BY <1>1, <1>2, <2>1, Remainder
  <2>. QED
    BY <1>1, <1>2, <2>2
<1>3. CASE j + 1 # n
  <2>1. ((j + 1) % n) + n - 1 = n * 1 + j
    BY <1>1, <1>3
  <2>2. (((j + 1) % n) + n - 1) % n = j
    BY <1>1, <1>3, <2>1, Remainder
  <2>. QED
    BY <1>1, <1>3, <2>2
<1>. QED
  BY <1>2, <1>3

(* A way goes from bucket to bucket. *)
LEMMA AtFacts ==
  ASSUME NEW n \in Nat \ {0}, NEW k \in Keys, NEW d \in Nat \ {0}
  PROVE  /\ At(k, d, n) \in 0 .. n - 1
         /\ At(k, d + 1, n) = (At(k, d, n) + 1) % n
         /\ At(k, 1, n) = Hash[k] % n
         /\ d > 1 => (At(k, d, n) + n - 1) % n = At(k, d - 1, n)
<1>1. Hash[k] \in Nat
  BY HashAssumption
<1>2. \A e \in Nat \ {0} : At(k, e, n) \in 0 .. n - 1
  BY <1>1, Division DEF At
<1>3. \A e \in Nat \ {0} : At(k, e + 1, n) = (At(k, e, n) + 1) % n
  <2>. SUFFICES ASSUME NEW e \in Nat \ {0} PROVE At(k, e + 1, n) = (At(k, e, n) + 1) % n
    OBVIOUS
  <2>1. (((Hash[k] + e - 1) % n) + 1) % n = (Hash[k] + e - 1 + 1) % n
    <3>1. Hash[k] + e - 1 \in Nat
      BY <1>1
    <3>. QED
      BY <3>1, NextRemainder
  <2>2. Hash[k] + e - 1 + 1 = Hash[k] + (e + 1) - 1
    BY <1>1
  <2>. QED
    BY <2>1, <2>2 DEF At
<1>4. At(k, 1, n) = Hash[k] % n
  <2>1. Hash[k] + 1 - 1 = Hash[k]
    BY <1>1
  <2>. QED
    BY <2>1 DEF At
<1>5. ASSUME d > 1 PROVE (At(k, d, n) + n - 1) % n = At(k, d - 1, n)
  <2>1. d - 1 \in Nat \ {0} /\ (d - 1) + 1 = d
    BY <1>5
  <2>2. At(k, d, n) = (At(k, d - 1, n) + 1) % n /\ At(k, d - 1, n) \in 0 .. n - 1
    BY <1>2, <1>3, <2>1
  <2>. QED
    BY <2>2, SuccFacts
<1>. QED
  BY <1>2, <1>3, <1>4, <1>5

(* The number of buckets, as the code stores it. *)
LEMMA TableSize ==
  ASSUME NEW n \in Nat, NEW X, NEW b \in [0 .. n - 1 -> X]
  PROVE  Size(b) = n /\ IsFiniteSet(DOMAIN b) /\ IsFiniteSet(Occupied(b))
<1>1. IsFiniteSet(0 .. n - 1) /\ Cardinality(0 .. n - 1) = n
  BY FS_Interval
<1>2. Occupied(b) \subseteq 0 .. n - 1
  BY DEF Occupied
<1>. QED
  BY <1>1, <1>2, FS_Subset DEF Size

(* A table with its ways is in robin hood order. *)
LEMMA WaysAreOrder ==
  ASSUME NEW n, NEW b, Table(b, n), Ways(b, n, n)
  PROVE  RobinHood(b)
<1>1. n \in Nat \ {0} /\ Size(b) = n /\ b \in [0 .. n - 1 -> Bucket]
  BY TableSize DEF Table
<1>. SUFFICES ASSUME NEW j \in Occupied(b)
     PROVE  /\ j = (Hash[b[j].key] + b[j].dib - 1) % n
            /\ b[j].dib > 1 => b[(j + n - 1) % n].dib >= b[j].dib - 1
  BY <1>1 DEF RobinHood
<1>2. /\ j \in 0 .. n - 1 /\ b[j].dib \in Nat \ {0} /\ b[j].key \in Keys
      /\ j = At(b[j].key, b[j].dib, n)
      /\ \A d \in 1 .. b[j].dib : At(b[j].key, d, n) # n => b[At(b[j].key, d, n)].dib >= d
  BY <1>1 DEF Occupied, Ways, Bucket
<1>3. ASSUME b[j].dib > 1 PROVE b[(j + n - 1) % n].dib >= b[j].dib - 1
  <2>. DEFINE d == b[j].dib - 1
  <2>1. d \in 1 .. b[j].dib /\ d \in Nat \ {0}
    BY <1>2, <1>3
  <2>2. (j + n - 1) % n = At(b[j].key, d, n)
    <3>1. (At(b[j].key, b[j].dib, n) + n - 1) % n = At(b[j].key, b[j].dib - 1, n)
      BY <1>1, <1>2, <1>3, AtFacts
    <3>. QED
      BY <1>2, <3>1
  <2>. HIDE DEF d
  <2>3. At(b[j].key, d, n) \in 0 .. n - 1
    BY <1>1, <1>2, <2>1, AtFacts
  <2>4. b[At(b[j].key, d, n)].dib >= d
    BY <1>1, <1>2, <2>1, <2>3
  <2>. QED
    BY <2>2, <2>4 DEF d
<1>. QED
  BY <1>2, <1>3 DEF At

----------------------------------------------------------------------------
(* Putting an item into the table *)

(* A table whose buckets have the same keys and dibs. *)
LEMMA SameWays ==
  ASSUME NEW n, NEW b, NEW c, Table(b, n), Table(c, n),
         \A j \in 0 .. n - 1 : c[j].dib = b[j].dib /\ c[j].key = b[j].key
  PROVE  /\ Occupied(c) = Occupied(b)
         /\ \A h : Ways(b, n, h) => Ways(c, n, h)
         /\ \A S \in SUBSET (0 .. n - 1) : Distinct(b, S) => Distinct(c, S)
<1>1. n \in Nat \ {0} /\ DOMAIN b = 0 .. n - 1 /\ DOMAIN c = 0 .. n - 1
  BY DEF Table
<1>2. Occupied(c) = Occupied(b)
  BY <1>1 DEF Occupied
<1>3. ASSUME NEW h, Ways(b, n, h) PROVE Ways(c, n, h)
  <2>. SUFFICES ASSUME NEW j \in 0 .. n - 1, j # h, c[j].dib > 0
       PROVE  /\ c[j].key \in Keys
              /\ j = At(c[j].key, c[j].dib, n)
              /\ \A d \in 1 .. c[j].dib :
                   At(c[j].key, d, n) # h => c[At(c[j].key, d, n)].dib >= d
    BY DEF Ways
  <2>1. /\ b[j].key \in Keys
        /\ j = At(b[j].key, b[j].dib, n)
        /\ \A d \in 1 .. b[j].dib :
             At(b[j].key, d, n) # h => b[At(b[j].key, d, n)].dib >= d
    BY <1>3 DEF Ways
  <2>2. ASSUME NEW d \in 1 .. c[j].dib, At(c[j].key, d, n) # h
        PROVE  c[At(c[j].key, d, n)].dib >= d
    <3>1. d \in Nat \ {0} /\ d \in 1 .. b[j].dib
      OBVIOUS
    <3>2. At(b[j].key, d, n) \in 0 .. n - 1
      BY <1>1, <2>1, <3>1, AtFacts
    <3>. QED
      BY <2>1, <2>2, <3>1, <3>2
  <2>. QED
    BY <2>1, <2>2
<1>4. ASSUME NEW S \in SUBSET (0 .. n - 1), Distinct(b, S) PROVE Distinct(c, S)
  BY <1>4 DEF Distinct
<1>. QED
  BY <1>2, <1>3, <1>4

(* An item begins its way in the slot of its key. *)
LEMMA Started ==
  ASSUME NEW n, NEW b, Table(b, n), NEW item, item.key \in Keys, item.dib = 1
  PROVE  OnWay(b, n, item, Hash[item.key] % n)
<1>1. n \in Nat \ {0} /\ \A j \in 0 .. n - 1 : b[j].dib \in Nat
  BY DEF Table, Bucket
<1>2. Hash[item.key] % n = At(item.key, 1, n)
  BY <1>1, AtFacts
<1>. QED
  BY <1>1, <1>2 DEF OnWay

(* An item in hand that is farther from its slot than the resident is not  *)
(* in the table.                                                           *)
LEMMA Absent ==
  ASSUME NEW n, NEW b, Table(b, n), Ways(b, n, n),
         NEW item \in Bucket, NEW p, OnWay(b, n, item, p), b[p].dib < item.dib
  PROVE  /\ p \in 0 .. n - 1
         /\ \A j \in 0 .. n - 1 : b[j].dib > 0 => b[j].key # item.key
<1>1. /\ n \in Nat \ {0} /\ item.key \in Keys /\ item.dib \in Nat \ {0}
      /\ \A j \in 0 .. n - 1 : b[j].dib \in Nat
  BY DEF Table, OnWay, Bucket
<1>2. p = At(item.key, item.dib, n) /\ p \in 0 .. n - 1
  BY <1>1, AtFacts DEF OnWay
<1>. SUFFICES ASSUME NEW j \in 0 .. n - 1, b[j].dib > 0, b[j].key = item.key PROVE FALSE
  BY <1>2
<1>3. b[j].dib >= item.dib
  BY DEF OnWay
<1>4. item.dib \in 1 .. b[j].dib /\ j # n /\ p # n
  BY <1>1, <1>2, <1>3
<1>5. b[At(b[j].key, item.dib, n)].dib >= item.dib
  BY <1>2, <1>4 DEF Ways
<1>. QED
  BY <1>1, <1>2, <1>5

(* It is put down there. *)
LEMMA PutDown ==
  ASSUME NEW n, NEW b, Table(b, n), Ways(b, n, n), Distinct(b, 0 .. n - 1),
         NEW item \in Bucket, NEW p, OnWay(b, n, item, p), b[p].dib < item.dib,
         NEW c, c = [b EXCEPT ![p] = item]
  PROVE  Table(c, n) /\ Ways(c, n, n) /\ Distinct(c, 0 .. n - 1)
<1>1. /\ n \in Nat \ {0} /\ item.key \in Keys /\ item.dib \in Nat \ {0}
      /\ b \in [0 .. n - 1 -> Bucket]
      /\ \A j \in 0 .. n - 1 : b[j].dib \in Nat
  BY DEF Table, OnWay, Bucket
<1>2. /\ p = At(item.key, item.dib, n) /\ p \in 0 .. n - 1
      /\ \A j \in 0 .. n - 1 : b[j].dib > 0 => b[j].key # item.key
  <2>1. p = At(item.key, item.dib, n)
    BY DEF OnWay
  <2>2. p \in 0 .. n - 1 /\ \A j \in 0 .. n - 1 : b[j].dib > 0 => b[j].key # item.key
    BY Absent
  <2>. QED
    BY <2>1, <2>2
<1>3. c \in [0 .. n - 1 -> Bucket] /\ c[p] = item /\ \A j \in 0 .. n - 1 : j # p => c[j] = b[j]
  BY <1>1, <1>2
<1>4. \A j \in 0 .. n - 1 : c[j].dib >= b[j].dib /\ c[j].dib \in Nat
  BY <1>1, <1>2, <1>3
<1>5. Ways(c, n, n)
  <2>. SUFFICES ASSUME NEW j \in 0 .. n - 1, c[j].dib > 0
       PROVE  /\ c[j].key \in Keys
              /\ j = At(c[j].key, c[j].dib, n)
              /\ \A d \in 1 .. c[j].dib : c[At(c[j].key, d, n)].dib >= d
    BY <1>1 DEF Ways
  <2>1. CASE j = p
    <3>1. \A d \in 1 .. item.dib - 1 : b[At(item.key, d, n)].dib >= d
      BY DEF OnWay
    <3>2. ASSUME NEW d \in 1 .. item.dib PROVE c[At(item.key, d, n)].dib >= d
      <4>1. CASE d = item.dib
        BY <1>1, <1>2, <1>3, <4>1
      <4>2. CASE d # item.dib
        <5>1. d \in 1 .. item.dib - 1 /\ d \in Nat \ {0}
          BY <1>1, <4>2
        <5>2. At(item.key, d, n) \in 0 .. n - 1
          BY <1>1, <5>1, AtFacts
        <5>3. b[At(item.key, d, n)].dib >= d
          BY <3>1, <5>1
        <5>. QED
          BY <1>1, <1>4, <5>1, <5>2, <5>3
      <4>. QED
        BY <4>1, <4>2
    <3>. QED
      BY <1>1, <1>2, <1>3, <2>1, <3>2
  <2>2. CASE j # p
    <3>1. c[j] = b[j] /\ j # n
      BY <1>1, <1>3, <2>2
    <3>2. /\ b[j].key \in Keys
          /\ j = At(b[j].key, b[j].dib, n)
          /\ \A d \in 1 .. b[j].dib :
               At(b[j].key, d, n) # n => b[At(b[j].key, d, n)].dib >= d
      BY <3>1 DEF Ways
    <3>3. ASSUME NEW d \in 1 .. b[j].dib PROVE c[At(b[j].key, d, n)].dib >= d
      <4>1. d \in Nat \ {0}
        BY <1>1
      <4>2. At(b[j].key, d, n) \in 0 .. n - 1
        BY <1>1, <3>2, <4>1, AtFacts
      <4>3. b[At(b[j].key, d, n)].dib >= d
        BY <1>1, <3>2, <4>2
      <4>. QED
        BY <1>1, <1>4, <4>1, <4>2, <4>3
    <3>. QED
      BY <3>1, <3>2, <3>3
  <2>. QED
    BY <2>1, <2>2
<1>6. Distinct(c, 0 .. n - 1)
  BY <1>2, <1>3 DEF Distinct
<1>. QED
  BY <1>1, <1>3, <1>5, <1>6 DEF Table

(* The resident it displaces is on its own way. *)
LEMMA Displaced ==
  ASSUME NEW n, NEW b, Table(b, n), Ways(b, n, n), Distinct(b, 0 .. n - 1),
         NEW item \in Bucket, NEW p, OnWay(b, n, item, p), b[p].dib < item.dib, b[p].dib # 0,
         NEW c, c = [b EXCEPT ![p] = item]
  PROVE  /\ OnWay(c, n, Further(b[p]), (p + 1) % n)
         /\ Further(b[p]) \in Bucket
<1>. DEFINE e == b[p]
            f == Further(e)
<1>1. /\ n \in Nat \ {0} /\ item.key \in Keys /\ item.dib \in Nat \ {0}
      /\ b \in [0 .. n - 1 -> Bucket]
      /\ \A j \in 0 .. n - 1 : b[j].dib \in Nat
  BY DEF Table, OnWay, Bucket
<1>2. p \in 0 .. n - 1 /\ \A j \in 0 .. n - 1 : b[j].dib > 0 => b[j].key # item.key
  BY <1>1, Absent
<1>3. /\ c \in [0 .. n - 1 -> Bucket] /\ c[p] = item
      /\ \A j \in 0 .. n - 1 : j # p => c[j] = b[j]
      /\ \A j \in 0 .. n - 1 : c[j].dib >= b[j].dib /\ c[j].dib \in Nat
  BY <1>1, <1>2
<1>4. e \in Bucket /\ e.dib \in Nat \ {0} /\ f \in Bucket /\ f.dib = e.dib + 1 /\ f.key = e.key
  BY <1>1, <1>2 DEF Bucket, Further
<1>5. /\ e.key \in Keys
      /\ p = At(e.key, e.dib, n)
      /\ \A d \in 1 .. e.dib : At(e.key, d, n) # n => b[At(e.key, d, n)].dib >= d
  BY <1>1, <1>2, <1>4 DEF Ways
<1>. HIDE DEF e, f
<1>6. At(e.key, e.dib + 1, n) = (p + 1) % n
  <2>1. At(e.key, e.dib + 1, n) = (At(e.key, e.dib, n) + 1) % n
    BY <1>1, <1>4, <1>5, AtFacts
  <2>. QED
    BY <1>5, <2>1
<1>7. ASSUME NEW d \in 1 .. f.dib - 1 PROVE c[At(f.key, d, n)].dib >= d
  <2>1. d \in Nat \ {0} /\ d \in 1 .. e.dib
    BY <1>4
  <2>2. At(e.key, d, n) \in 0 .. n - 1 /\ At(e.key, d, n) # n
    <3>1. At(e.key, d, n) \in 0 .. n - 1
      BY <1>1, <1>5, <2>1, AtFacts
    <3>2. \A y \in 0 .. n - 1 : y # n
      BY <1>1
    <3>. QED
      BY <3>1, <3>2
  <2>3. b[At(e.key, d, n)].dib >= d
    BY <1>5, <2>1, <2>2
  <2>. QED
    BY <1>1, <1>3, <1>4, <2>1, <2>2, <2>3
<1>8. ASSUME NEW j \in 0 .. n - 1, c[j].dib > 0, c[j].key = f.key PROVE FALSE
  <2>1. CASE j = p
    BY <1>2, <1>3, <1>4, <1>8, <2>1 DEF e
  <2>2. CASE j # p
    BY <1>2, <1>3, <1>4, <1>8, <2>2 DEF Distinct, e
  <2>. QED
    BY <2>1, <2>2
<1>9. f.key \in Keys /\ f.dib > 0 /\ (p + 1) % n = At(f.key, f.dib, n)
  BY <1>4, <1>5, <1>6
<1>10. OnWay(c, n, f, (p + 1) % n)
  BY <1>7, <1>8, <1>9 DEF OnWay
<1>. QED
  BY <1>4, <1>10 DEF f, e

(* An item that passes another one stays on its way. *)
LEMMA Passed ==
  ASSUME NEW n, NEW b, Table(b, n), Ways(b, n, n),
         NEW item \in Bucket, NEW p, OnWay(b, n, item, p),
         b[p].dib >= item.dib, b[p].key # item.key
  PROVE  /\ OnWay(b, n, Further(item), (p + 1) % n)
         /\ Further(item) \in Bucket
<1>. DEFINE f == Further(item)
<1>1. /\ n \in Nat \ {0} /\ item.key \in Keys /\ item.dib \in Nat \ {0}
      /\ b \in [0 .. n - 1 -> Bucket]
      /\ \A j \in 0 .. n - 1 : b[j].dib \in Nat
  BY DEF Table, OnWay, Bucket
<1>2. p = At(item.key, item.dib, n) /\ p \in 0 .. n - 1
  BY <1>1, AtFacts DEF OnWay
<1>3. f \in Bucket /\ f.dib = item.dib + 1 /\ f.key = item.key
  BY DEF Bucket, Further
<1>4. At(item.key, item.dib + 1, n) = (p + 1) % n
  BY <1>1, <1>2, AtFacts
<1>5. ASSUME NEW d \in 1 .. item.dib PROVE b[At(item.key, d, n)].dib >= d
  <2>1. CASE d = item.dib
    BY <1>2, <2>1
  <2>2. CASE d # item.dib
    <3>1. d \in 1 .. item.dib - 1
      BY <1>1, <2>2
    <3>. QED
      BY <3>1 DEF OnWay
  <2>. QED
    BY <2>1, <2>2
<1>6. ASSUME NEW j \in 0 .. n - 1, b[j].dib > 0, b[j].key = item.key
      PROVE  b[j].dib >= item.dib + 1
  <2>1. b[j].dib >= item.dib
    BY <1>6 DEF OnWay
  <2>2. j = At(item.key, b[j].dib, n)
    BY <1>1, <1>6 DEF Ways
  <2>3. b[j].dib # item.dib
    BY <1>2, <1>6, <2>2
  <2>. QED
    BY <1>1, <2>1, <2>3
<1>. QED
  BY <1>1, <1>3, <1>4, <1>5, <1>6 DEF OnWay

----------------------------------------------------------------------------
(* Taking an item out *)

(* An item is taken out and leaves a hole. *)
LEMMA TakenOut ==
  ASSUME NEW n, NEW b, Table(b, n), Ways(b, n, n), Distinct(b, 0 .. n - 1),
         NEW h \in 0 .. n - 1, b[h].dib # 0,
         NEW c, c = [b EXCEPT ![h].dib = 0]
  PROVE  Table(c, n) /\ Ways(c, n, h) /\ Distinct(c, (0 .. n - 1) \ {h})
<1>1. /\ n \in Nat \ {0} /\ b \in [0 .. n - 1 -> Bucket]
      /\ \A j \in 0 .. n - 1 : b[j].dib \in Nat
  BY DEF Table, Bucket
<1>2. /\ c \in [0 .. n - 1 -> Bucket] /\ c[h].dib = 0
      /\ \A j \in 0 .. n - 1 : j # h => c[j] = b[j]
  BY <1>1 DEF Bucket
<1>3. Ways(c, n, h)
  <2>. SUFFICES ASSUME NEW j \in 0 .. n - 1, j # h, c[j].dib > 0
       PROVE  /\ c[j].key \in Keys
              /\ j = At(c[j].key, c[j].dib, n)
              /\ \A d \in 1 .. c[j].dib :
                   At(c[j].key, d, n) # h => c[At(c[j].key, d, n)].dib >= d
    BY DEF Ways
  <2>1. c[j] = b[j] /\ j # n
    BY <1>1, <1>2
  <2>2. /\ b[j].key \in Keys
        /\ j = At(b[j].key, b[j].dib, n)
        /\ \A d \in 1 .. b[j].dib :
             At(b[j].key, d, n) # n => b[At(b[j].key, d, n)].dib >= d
    BY <2>1 DEF Ways
  <2>3. ASSUME NEW d \in 1 .. b[j].dib, At(b[j].key, d, n) # h
        PROVE  c[At(b[j].key, d, n)].dib >= d
    <3>1. d \in Nat \ {0}
      BY <1>1
    <3>2. At(b[j].key, d, n) \in 0 .. n - 1
      BY <1>1, <2>2, <3>1, AtFacts
    <3>3. b[At(b[j].key, d, n)].dib >= d
      BY <1>1, <2>2, <3>2
    <3>. QED
      BY <1>2, <2>3, <3>2, <3>3
  <2>. QED
    BY <2>1, <2>2, <2>3
<1>4. Distinct(c, (0 .. n - 1) \ {h})
  BY <1>2 DEF Distinct
<1>. QED
  BY <1>1, <1>2, <1>3, <1>4 DEF Table

(* A way that leads through the hole leads through the bucket behind it. *)
LEMMA BehindHole ==
  ASSUME NEW n, NEW b, Table(b, n), NEW h \in 0 .. n - 1, Ways(b, n, h),
         (h + 1) % n # h,
         NEW j \in 0 .. n - 1, j # h, b[j].dib > 0,
         NEW d \in 1 .. b[j].dib, At(b[j].key, d, n) = h
  PROVE  b[(h + 1) % n].dib >= d + 1
<1>1. /\ n \in Nat \ {0} /\ b[j].dib \in Nat /\ d \in Nat \ {0}
  BY DEF Table, Bucket
<1>2. /\ b[j].key \in Keys
      /\ j = At(b[j].key, b[j].dib, n)
      /\ \A x \in 1 .. b[j].dib :
           At(b[j].key, x, n) # h => b[At(b[j].key, x, n)].dib >= x
  BY DEF Ways
<1>3. d # b[j].dib
  BY <1>2
<1>4. d + 1 \in 1 .. b[j].dib
  BY <1>1, <1>3
<1>5. At(b[j].key, d + 1, n) = (h + 1) % n
  BY <1>1, <1>2, AtFacts
<1>. QED
  BY <1>2, <1>4, <1>5

(* The item behind the hole moves into it, and the hole is where it was. *)
LEMMA MovedUp ==
  ASSUME NEW n, NEW b, Table(b, n), n >= 2,
         NEW h \in 0 .. n - 1, Ways(b, n, h), Distinct(b, (0 .. n - 1) \ {h}),
         NEW s, s = (h + 1) % n, NEW e, e = b[s], e.dib > 1,
         NEW f \in Bucket, f.dib = e.dib - 1, f.key = e.key,
         NEW c, c = [b EXCEPT ![h] = f]
  PROVE  /\ s \in 0 .. n - 1
         /\ Table(c, n) /\ Ways(c, n, s) /\ Distinct(c, (0 .. n - 1) \ {s})
<1>1. /\ n \in Nat \ {0} /\ b \in [0 .. n - 1 -> Bucket]
      /\ \A j \in 0 .. n - 1 : b[j].dib \in Nat
  BY DEF Table, Bucket
<1>2. s \in 0 .. n - 1 /\ s # h /\ (s + n - 1) % n = h
  BY <1>1, SuccFacts
<1>3. /\ e.dib \in Nat \ {0} /\ e.dib > 1
      /\ f.dib \in Nat \ {0} /\ f.dib = e.dib - 1 /\ f.key = e.key
  BY <1>1, <1>2
<1>4. e = b[s]
  OBVIOUS
<1>5. /\ e.key \in Keys
      /\ s = At(e.key, e.dib, n)
      /\ \A d \in 1 .. e.dib : At(e.key, d, n) # h => b[At(e.key, d, n)].dib >= d
  BY <1>2, <1>3 DEF Ways
<1>6. /\ c \in [0 .. n - 1 -> Bucket] /\ c[h] = f
      /\ \A j \in 0 .. n - 1 : j # h => c[j] = b[j]
  BY <1>1
<1>7. At(f.key, f.dib, n) = h
  <2>1. (At(e.key, e.dib, n) + n - 1) % n = At(e.key, e.dib - 1, n)
    <3>1. n \in Nat \ {0} /\ e.key \in Keys /\ e.dib \in Nat \ {0} /\ e.dib > 1
      BY <1>1, <1>3, <1>5
    <3>. QED
      BY <3>1, AtFacts
  <2>2. (s + n - 1) % n = At(f.key, f.dib, n)
    BY <1>3, <1>5, <2>1
  <2>. QED
    BY <1>2, <2>2
<1>8. Ways(c, n, s)
  <2>. SUFFICES ASSUME NEW j \in 0 .. n - 1, j # s, c[j].dib > 0
       PROVE  /\ c[j].key \in Keys
              /\ j = At(c[j].key, c[j].dib, n)
              /\ \A d \in 1 .. c[j].dib :
                   At(c[j].key, d, n) # s => c[At(c[j].key, d, n)].dib >= d
    BY DEF Ways
  <2>1. CASE j = h
    <3>1. ASSUME NEW d \in 1 .. f.dib, At(f.key, d, n) # s
          PROVE  c[At(f.key, d, n)].dib >= d
      <4>1. d \in Nat \ {0} /\ d \in 1 .. e.dib
        BY <1>3
      <4>2. At(f.key, d, n) \in 0 .. n - 1
        BY <1>1, <1>3, <1>5, <4>1, AtFacts
      <4>3. CASE At(f.key, d, n) = h
        BY <1>3, <1>6, <4>1, <4>3
      <4>4. CASE At(f.key, d, n) # h
        <5>1. b[At(f.key, d, n)].dib >= d
          BY <1>3, <1>5, <4>1, <4>4
        <5>. QED
          BY <1>6, <4>2, <4>4, <5>1
      <4>. QED
        BY <4>3, <4>4
    <3>. QED
      BY <1>3, <1>5, <1>6, <1>7, <2>1, <3>1
  <2>2. CASE j # h
    <3>1. c[j] = b[j]
      BY <1>6, <2>2
    <3>2. /\ b[j].key \in Keys
          /\ j = At(b[j].key, b[j].dib, n)
          /\ \A d \in 1 .. b[j].dib :
               At(b[j].key, d, n) # h => b[At(b[j].key, d, n)].dib >= d
      BY <2>2, <3>1 DEF Ways
    <3>3. ASSUME NEW d \in 1 .. b[j].dib, At(b[j].key, d, n) # s
          PROVE  c[At(b[j].key, d, n)].dib >= d
      <4>1. d \in Nat \ {0}
        BY <1>1
      <4>2. At(b[j].key, d, n) \in 0 .. n - 1
        BY <1>1, <3>2, <4>1, AtFacts
      <4>3. CASE At(b[j].key, d, n) = h
        <5>1. b[s].dib >= d + 1
          BY <1>2, <2>2, <3>1, <4>3, BehindHole
        <5>. QED
          BY <1>3, <1>4, <1>6, <4>1, <4>3, <5>1
      <4>4. CASE At(b[j].key, d, n) # h
        <5>1. b[At(b[j].key, d, n)].dib >= d
          BY <3>2, <4>4
        <5>. QED
          BY <1>6, <4>2, <4>4, <5>1
      <4>. QED
        BY <4>3, <4>4
    <3>. QED
      BY <3>1, <3>2, <3>3
  <2>. QED
    BY <2>1, <2>2
<1>9. Distinct(c, (0 .. n - 1) \ {s})
  <2>. SUFFICES ASSUME NEW j1 \in (0 .. n - 1) \ {s}, NEW j2 \in (0 .. n - 1) \ {s},
                       c[j1].dib > 0, c[j2].dib > 0, c[j1].key = c[j2].key
       PROVE  j1 = j2
    BY DEF Distinct
  <2>1. \A j \in (0 .. n - 1) \ {s} : c[j].dib > 0 /\ c[j].key = e.key => j = h
    <3>. SUFFICES ASSUME NEW j \in (0 .. n - 1) \ {s}, c[j].dib > 0, c[j].key = e.key, j # h
         PROVE  FALSE
      OBVIOUS
    <3>1. c[j] = b[j]
      BY <1>6
    <3>2. j \in (0 .. n - 1) \ {h} /\ s \in (0 .. n - 1) \ {h} /\ b[s].dib > 0
      BY <1>2, <1>3, <1>4
    <3>. QED
      BY <1>4, <3>1, <3>2 DEF Distinct
  <2>2. c[h].key = e.key
    BY <1>3, <1>6
  <2>3. CASE j1 = h
    BY <2>1, <2>2, <2>3
  <2>4. CASE j2 = h
    BY <2>1, <2>2, <2>4
  <2>5. CASE j1 # h /\ j2 # h
    BY <1>6, <2>5 DEF Distinct
  <2>. QED
    BY <2>3, <2>4, <2>5
<1>. QED
  BY <1>1, <1>2, <1>6, <1>8, <1>9 DEF Table

(* A hole before an empty bucket or an item in its slot is on no way. *)
LEMMA Closed ==
  ASSUME NEW n, NEW b, Table(b, n), n >= 2,
         NEW h \in 0 .. n - 1, Ways(b, n, h), Distinct(b, (0 .. n - 1) \ {h}),
         b[(h + 1) % n].dib <= 1,
         NEW c, c = [b EXCEPT ![h] = Empty]
  PROVE  /\ Table(c, n) /\ Ways(c, n, n) /\ Distinct(c, 0 .. n - 1)
         /\ Occupied(c) = But(b, h)
<1>1. /\ n \in Nat \ {0} /\ b \in [0 .. n - 1 -> Bucket]
      /\ \A j \in 0 .. n - 1 : b[j].dib \in Nat
  BY DEF Table, Bucket
<1>2. (h + 1) % n \in 0 .. n - 1 /\ (h + 1) % n # h
  BY <1>1, SuccFacts
<1>3. /\ c \in [0 .. n - 1 -> Bucket] /\ c[h].dib = 0
      /\ \A j \in 0 .. n - 1 : j # h => c[j] = b[j]
  BY <1>1 DEF Bucket, Empty
<1>4. Ways(c, n, n)
  <2>. SUFFICES ASSUME NEW j \in 0 .. n - 1, c[j].dib > 0
       PROVE  /\ c[j].key \in Keys
              /\ j = At(c[j].key, c[j].dib, n)
              /\ \A d \in 1 .. c[j].dib : c[At(c[j].key, d, n)].dib >= d
    BY DEF Ways
  <2>1. j # h /\ c[j] = b[j]
    BY <1>3
  <2>2. /\ b[j].key \in Keys
        /\ j = At(b[j].key, b[j].dib, n)
        /\ \A d \in 1 .. b[j].dib :
             At(b[j].key, d, n) # h => b[At(b[j].key, d, n)].dib >= d
    BY <2>1 DEF Ways
  <2>3. ASSUME NEW d \in 1 .. b[j].dib PROVE c[At(b[j].key, d, n)].dib >= d
    <3>1. d \in Nat \ {0}
      BY <1>1
    <3>2. At(b[j].key, d, n) \in 0 .. n - 1
      BY <1>1, <2>2, <3>1, AtFacts
    <3>3. At(b[j].key, d, n) # h
      <4>. SUFFICES ASSUME At(b[j].key, d, n) = h PROVE FALSE
        OBVIOUS
      <4>1. b[(h + 1) % n].dib >= d + 1
        BY <1>2, <2>1, BehindHole
      <4>. QED
        BY <1>1, <1>2, <3>1, <4>1
    <3>4. b[At(b[j].key, d, n)].dib >= d
      BY <2>2, <3>3
    <3>. QED
      BY <1>3, <3>2, <3>3, <3>4
  <2>. QED
    BY <2>1, <2>2, <2>3
<1>5. Distinct(c, 0 .. n - 1)
  BY <1>3 DEF Distinct
<1>6. Occupied(c) = But(b, h)
  BY <1>1, <1>3 DEF But, Occupied
<1>. QED
  BY <1>1, <1>3, <1>4, <1>5, <1>6 DEF Table

----------------------------------------------------------------------------
(* Sizes and counts *)

(* An empty table. *)
LEMMA EmptyTables ==
  ASSUME NEW n \in Nat \ {0}
  PROVE  /\ Table(EmptyTable(n), n) /\ Size(EmptyTable(n)) = n
         /\ Ways(EmptyTable(n), n, n) /\ Distinct(EmptyTable(n), 0 .. n - 1)
         /\ Occupied(EmptyTable(n)) = {}
<1>1. EmptyTable(n) \in [0 .. n - 1 -> Bucket] /\ \A j \in 0 .. n - 1 : EmptyTable(n)[j].dib = 0
  BY DEF EmptyTable, Empty, Bucket
<1>2. Size(EmptyTable(n)) = n
  BY <1>1, TableSize
<1>. QED
  BY <1>1, <1>2 DEF Table, Ways, Distinct, Occupied

(* Without a table there is nothing. *)
LEMMA NoTableFacts ==
  /\ Size(NoTable) = 0
  /\ NoTable \in [0 .. Size(NoTable) - 1 -> Bucket]
<1>1. NoTable \in [0 .. 0 - 1 -> Bucket]
  BY DEF NoTable, EmptyTable
<1>2. Size(NoTable) = 0
  BY <1>1, TableSize
<1>. QED
  BY <1>1, <1>2

(* Distinct items have as many keys as they are. *)
LEMMA KeysCounted ==
  ASSUME NEW n, NEW b, Table(b, n), Distinct(b, 0 .. n - 1)
  PROVE  Cardinality({b[j].key : j \in Occupied(b)}) = Cardinality(Occupied(b))
<1>. DEFINE O == Occupied(b)
            K == {b[j].key : j \in O}
            f == [j \in O |-> b[j].key]
<1>1. IsFiniteSet(O) /\ O \subseteq 0 .. n - 1 /\ \A j \in O : b[j].dib > 0
  BY TableSize DEF Table, Occupied
<1>. HIDE DEF O
<1>2. f \in Surjection(O, K)
  BY DEF Surjection
<1>3. f \in Injection(O, K)
  BY <1>1 DEF Injection, IsInjective, Distinct
<1>. HIDE DEF K, f
<1>4. Cardinality(K) = Cardinality(O)
  BY <1>1, <1>2, <1>3, FS_Surjection
<1>. QED
  BY <1>4 DEF K, O

(* An item more or less. *)
LEMMA Counted ==
  ASSUME NEW S, IsFiniteSet(S), NEW j
  PROVE  /\ Cardinality(S) \in Nat
         /\ j \notin S => Cardinality(S \cup {j}) = Cardinality(S) + 1
         /\ j \in S => Cardinality(S \ {j}) = Cardinality(S) - 1
         /\ IsFiniteSet(S \cup {j}) /\ IsFiniteSet(S \ {j})
BY FS_CardinalityType, FS_AddElement, FS_RemoveElement

(* The parts of a table are finite. *)
LEMMA Parts ==
  ASSUME NEW n, NEW b, Table(b, n), NEW m
  PROVE  /\ IsFiniteSet(Occupied(b)) /\ IsFiniteSet(But(b, m)) /\ IsFiniteSet(Rest(b, m))
         /\ Rest(b, n) = {} /\ Rest(b, 0) = Occupied(b)
<1>1. IsFiniteSet(Occupied(b)) /\ Occupied(b) \subseteq 0 .. n - 1 /\ n \in Nat
  BY TableSize DEF Table, Occupied
<1>2. But(b, m) \subseteq Occupied(b) /\ Rest(b, m) \subseteq Occupied(b)
  BY DEF But, Rest
<1>. QED
  BY <1>1, <1>2, FS_Subset DEF Rest

(* A table has the size of a new one, doubled. *)
LEMMA DoubledFacts ==
  ASSUME NEW c \in Nat, NEW n \in Nat
  PROVE  /\ Doubled(n, n)
         /\ Doubled(c, n) => n >= c
         /\ Doubled(c, n) => Doubled(c, 2 * n)
         /\ Doubled(c, n) /\ n > c =>
              n % 2 = 0 /\ n \div 2 \in Nat /\ n \div 2 >= c /\ Doubled(c, n \div 2)
<1>1. Doubled(n, n)
  <2>. DEFINE S == {n}
  <2>1. S \in SUBSET Nat /\ n \in S /\ \A m \in S : m >= n /\ m = n
    OBVIOUS
  <2>. QED
    BY <2>1 DEF Doubled
<1>2. ASSUME Doubled(c, n)
      PROVE  /\ n >= c /\ Doubled(c, 2 * n)
             /\ n > c => n % 2 = 0 /\ n \div 2 \in Nat /\ n \div 2 >= c /\ Doubled(c, n \div 2)
  <2>1. PICK S \in SUBSET Nat :
          n \in S /\ \A m \in S : m >= c /\ (m # c => m % 2 = 0 /\ m \div 2 \in S)
    BY <1>2 DEF Doubled
  <2>2. Doubled(c, 2 * n)
    <3>. DEFINE T == S \cup {2 * n}
    <3>1. T \in SUBSET Nat /\ 2 * n \in T
      OBVIOUS
    <3>2. 2 * n >= c /\ (2 * n) % 2 = 0 /\ (2 * n) \div 2 = n
      BY <2>1
    <3>3. \A m \in T : m >= c /\ (m # c => m % 2 = 0 /\ m \div 2 \in T)
      BY <2>1, <3>2
    <3>. QED
      BY <3>1, <3>3 DEF Doubled
  <2>3. ASSUME n > c PROVE n % 2 = 0 /\ n \div 2 \in Nat /\ n \div 2 >= c /\ Doubled(c, n \div 2)
    <3>1. n % 2 = 0 /\ n \div 2 \in S
      BY <2>1, <2>3
    <3>2. Doubled(c, n \div 2)
      BY <2>1, <3>1 DEF Doubled
    <3>. QED
      BY <2>1, <3>1, <3>2
  <2>. QED
    BY <2>1, <2>2, <2>3
<1>. QED
  BY <1>1, <1>2

(* The thresholds of a table, of the next larger and of the next smaller.  *)
LEMMA ThresholdFacts ==
  ASSUME NEW n \in Nat, n >= 2
  PROVE  /\ GrowAt(n) \in Nat /\ ShrinkAt(n) \in Nat /\ (n * 75) \div 100 \in Nat
         /\ GrowAt(n) < n /\ (n * 75) \div 100 < n
         /\ GrowAt(n) < GrowAt(2 * n) /\ (n * 75) \div 100 < GrowAt(2 * n)
         /\ n % 2 = 0 => ShrinkAt(n) <= GrowAt(n \div 2)
BY DEF GrowAt, ShrinkAt

----------------------------------------------------------------------------
(* The steps that leave the table alone *)

(* What the invariant says of the two tables. *)
LEMMA Tables ==
  ASSUME IInv
  PROVE  /\ nbuckets \in Nat /\ nbuckets >= 2 /\ Size(buckets) = nbuckets
         /\ Table(buckets, nbuckets)
         /\ \A k \in Keys : Slot(k, buckets) \in 0 .. nbuckets - 1
         /\ \A j \in 0 .. nbuckets - 1 : Succ(j, buckets) \in 0 .. nbuckets - 1
         /\ Resizing =>
              /\ Size(buckets2) \in Nat /\ Size(buckets2) >= 2
              /\ Table(buckets2, Size(buckets2))
              /\ \A k \in Keys : Slot(k, buckets2) \in 0 .. Size(buckets2) - 1
              /\ \A j \in 0 .. Size(buckets2) - 1 : Succ(j, buckets2) \in 0 .. Size(buckets2) - 1
<1>1. /\ nbuckets \in Nat /\ nbuckets >= 2 /\ Size(buckets) = nbuckets
      /\ Table(buckets, nbuckets)
      /\ Resizing => Size(buckets2) \in Nat /\ Size(buckets2) >= 2
      /\ buckets2 \in [0 .. Size(buckets2) - 1 -> Bucket]
  BY DEF IInv, Types, Sizes, nbuckets
<1>2. Resizing => Table(buckets2, Size(buckets2))
  BY <1>1 DEF Table
<1>3. \A k \in Keys : Hash[k] \in Nat
  BY HashAssumption
<1>4. \A m \in Nat : m >= 2 =>
        /\ \A k \in Keys : Hash[k] % m \in 0 .. m - 1
        /\ \A j \in 0 .. m - 1 : (j + 1) % m \in 0 .. m - 1
  BY <1>3, Division
<1>. QED
  BY <1>1, <1>2, <1>4 DEF Slot, Succ

(* Nothing but the place, the result and the call change, between places   *)
(* where the table is whole and no item is in hand.                        *)
LEMMA TableKept ==
  ASSUME IInv, UNCHANGED <<table, count, buckets2>>,
         pc \in {"idle", "get", "set", "delete", "grow", "shrink", "return"},
         pc' \in {"idle", "get", "delete", "return"},
         pc' = "delete" => call'.name = "delete",
         pc' \in {"get", "delete"} => i' \in 0 .. nbuckets - 1,
         src' \in Nat, entry' \in Bucket,
         result' \in [value : Values \cup {NoValue}, oom : BOOLEAN]
  PROVE  IInv'
<1>1. nbuckets' = nbuckets
  BY DEF table, nbuckets, Size
<1>2. ~Resizing /\ ~Resizing' /\ pc # "shift" /\ pc' \notin {"shift", "set", "grow", "shrink"}
  BY DEF Resizing
<1>3. Types'
  BY <1>1, <1>2 DEF IInv, Types, table
<1>4. Sizes'
  BY <1>1, <1>2 DEF IInv, Sizes, table
<1>5. Thresholds'
  BY <1>1, <1>2 DEF IInv, Thresholds, table
<1>6. Whole'
  BY <1>1, <1>2 DEF IInv, Whole, table
<1>7. Fresh' /\ Deleting' /\ Setting' /\ Shifting' /\ Moving'
  BY <1>2 DEF Fresh, Deleting, Setting, Shifting, Moving
<1>. QED
  BY <1>3, <1>4, <1>5, <1>6, <1>7 DEF IInv

(* Searches, their ends, and a call that returns. *)
LEMMA SearchKeeps ==
  ASSUME IInv, SearchOn \/ GetEnds \/ DeleteAbsent \/ Return
  PROVE  IInv'
<1>1. /\ nbuckets \in Nat /\ buckets \in [0 .. nbuckets - 1 -> Bucket]
      /\ src \in Nat /\ entry \in Bucket
      /\ pc \in {"get", "delete"} => i \in 0 .. nbuckets - 1
      /\ pc = "delete" => call.name = "delete"
      /\ result \in [value : Values \cup {NoValue}, oom : BOOLEAN]
  BY Tables DEF IInv, Types, Table, Deleting
<1>2. \A j \in 0 .. nbuckets - 1 : /\ Succ(j, buckets) \in 0 .. nbuckets - 1
                                   /\ buckets[j].value \in Values \cup {NoValue}
  BY <1>1, Tables DEF Bucket
<1>3. Empty \in Bucket /\ \A v \in Values \cup {NoValue} :
        Found(v) \in [value : Values \cup {NoValue}, oom : BOOLEAN]
  BY DEF Empty, Bucket, Found
<1>4. CASE SearchOn
  BY <1>1, <1>2, <1>4, TableKept DEF SearchOn
<1>5. CASE GetEnds
  BY <1>1, <1>2, <1>3, <1>5, TableKept DEF GetEnds
<1>6. CASE DeleteAbsent
  BY <1>1, <1>3, <1>6, TableKept DEF DeleteAbsent
<1>7. CASE Return
  BY <1>1, <1>3, <1>7, TableKept DEF Return
<1>. QED
  BY <1>4, <1>5, <1>6, <1>7

(* A get or a delete starts. *)
LEMMA SearchStarts ==
  ASSUME IInv, NEW k \in Keys, Get(k) \/ Delete(k)
  PROVE  IInv'
<1>1. /\ src \in Nat /\ entry \in Bucket
      /\ result \in [value : Values \cup {NoValue}, oom : BOOLEAN]
      /\ Slot(k, buckets) \in 0 .. nbuckets - 1
  BY Tables DEF IInv, Types
<1>2. CASE Get(k)
  BY <1>1, <1>2, TableKept DEF Get
<1>3. CASE Delete(k)
  BY <1>1, <1>3, TableKept DEF Delete
<1>. QED
  BY <1>2, <1>3

----------------------------------------------------------------------------
(* Set *)

(* A set starts: the table is full, or it has room for another item. *)
LEMMA SetStarts ==
  ASSUME IInv, NEW k \in Keys, NEW v \in Values, Set(k, v)
  PROVE  IInv'
<1>1. /\ nbuckets' = nbuckets /\ nbuckets \in Nat \ {0} /\ Table(buckets, nbuckets)
      /\ ~Resizing /\ ~Resizing' /\ pc = "idle" /\ pc' \in {"grow", "set"}
      /\ Slot(k, buckets) \in 0 .. nbuckets - 1 /\ Slot(k, buckets) = Hash[k] % nbuckets
  BY Tables DEF Set, SetStart, Resizing, table, nbuckets, Slot
<1>2. entry' \in Bucket /\ entry'.key = k /\ entry'.dib = 1
  BY DEF Set, Bucket
<1>3. Types'
  BY <1>1, <1>2 DEF IInv, Types, Set, SetStart, table
<1>4. Sizes'
  BY <1>1 DEF IInv, Sizes, Set, table
<1>5. Thresholds'
  <2>1. count <= growat /\ count \in Nat /\ growat \in Nat
    BY <1>1, Tables, ThresholdFacts DEF IInv, Thresholds
  <2>2. pc' = "set" => count # growat
    BY DEF Set, SetStart
  <2>3. UNCHANGED <<count, growat, shrinkat>> /\ call'.name = "set"
    BY DEF Set, table
  <2>. QED
    BY <1>1, <2>1, <2>2, <2>3 DEF IInv, Thresholds
<1>6. Fresh' /\ Deleting' /\ Shifting' /\ Moving'
  BY <1>1, <1>2 DEF Set, SetStart, Fresh, Deleting, Shifting, Moving
<1>7. Whole'
  BY <1>1 DEF IInv, Whole, Set, table
<1>8. Setting'
  <2>1. OnWay(buckets, nbuckets, entry', Hash[entry'.key] % nbuckets)
    BY <1>1, <1>2, Started
  <2>2. pc' = "set" => i' = Hash[entry'.key] % nbuckets
    BY <1>1, <1>2 DEF Set, SetStart
  <2>. QED
    BY <1>1, <2>1, <2>2 DEF Setting, Set, table
<1>. QED
  BY <1>3, <1>4, <1>5, <1>6, <1>7, <1>8 DEF IInv

(* The item in hand gets an empty bucket. *)
LEMMA SetEmptyKeeps ==
  ASSUME IInv, SetEmpty
  PROVE  IInv'
<1>1. /\ nbuckets \in Nat /\ nbuckets >= 2 /\ Table(buckets, nbuckets)
      /\ Ways(buckets, nbuckets, nbuckets) /\ Distinct(buckets, 0 .. nbuckets - 1)
      /\ count = Cardinality(Occupied(buckets))
      /\ entry \in Bucket /\ OnWay(buckets, nbuckets, entry, i)
      /\ pc = "set" /\ ~Resizing /\ i \in 0 .. nbuckets - 1
  BY Tables DEF IInv, SetEmpty, Types, Whole, Setting, Resizing
<1>2. buckets[i].dib < entry.dib /\ i \notin Occupied(buckets)
  BY <1>1 DEF SetEmpty, OnWay, Occupied, Bucket
<1>3. buckets' = [buckets EXCEPT ![i] = entry]
  BY DEF SetEmpty
<1>4. /\ Table(buckets', nbuckets) /\ Ways(buckets', nbuckets, nbuckets)
      /\ Distinct(buckets', 0 .. nbuckets - 1)
  BY <1>1, <1>2, <1>3, PutDown
<1>5. nbuckets' = nbuckets
  BY <1>1, <1>4, TableSize DEF Table, nbuckets
<1>6. count' = Cardinality(Occupied(buckets'))
  <2>1. Occupied(buckets') = Occupied(buckets) \cup {i}
    BY <1>1, <1>2, <1>3 DEF Occupied, Table, Bucket
  <2>. QED
    BY <1>1, <1>2, <2>1, Parts, Counted DEF SetEmpty
<1>7. pc' = "return" /\ ~Resizing'
  BY DEF SetEmpty, Resizing
<1>8. Types'
  BY <1>1, <1>4, <1>5, <1>7 DEF IInv, Types, SetEmpty, Found
<1>9. Sizes'
  BY <1>1, <1>5, <1>7 DEF IInv, Sizes, SetEmpty
<1>10. Thresholds'
  <2>1. count < growat /\ count \in Nat /\ growat \in Nat
    <3>1. /\ count < growat /\ count \in Nat
          /\ growat \in {GrowAt(nbuckets), (nbuckets * 75) \div 100}
      BY <1>1 DEF IInv, Thresholds
    <3>2. GrowAt(nbuckets) \in Nat /\ (nbuckets * 75) \div 100 \in Nat
      BY <1>1, ThresholdFacts
    <3>. QED
      BY <3>1, <3>2
  <2>2. count' = count + 1 /\ UNCHANGED <<growat, shrinkat>>
    BY DEF SetEmpty
  <2>. QED
    BY <1>5, <1>7, <2>1, <2>2 DEF IInv, Thresholds
<1>11. Whole'
  BY <1>4, <1>5, <1>6 DEF Whole
<1>12. Fresh' /\ Deleting' /\ Setting' /\ Shifting' /\ Moving'
  BY <1>7 DEF Fresh, Deleting, Setting, Shifting, Moving
<1>. QED
  BY <1>8, <1>9, <1>10, <1>11, <1>12 DEF IInv

(* The item of the key is there: it gets the new value. *)
LEMMA SetReplaceKeeps ==
  ASSUME IInv, SetReplace
  PROVE  IInv'
<1>1. /\ nbuckets \in Nat \ {0} /\ Table(buckets, nbuckets)
      /\ Ways(buckets, nbuckets, nbuckets) /\ Distinct(buckets, 0 .. nbuckets - 1)
      /\ count = Cardinality(Occupied(buckets))
      /\ entry \in Bucket /\ pc = "set" /\ ~Resizing /\ i \in 0 .. nbuckets - 1
  BY Tables DEF IInv, SetReplace, Types, Whole, Resizing
<1>2. /\ Table(buckets', nbuckets)
      /\ \A j \in 0 .. nbuckets - 1 :
           buckets'[j].dib = buckets[j].dib /\ buckets'[j].key = buckets[j].key
      /\ buckets[i].value \in Values \cup {NoValue}
  BY <1>1 DEF SetReplace, Table, Bucket
<1>3. /\ Occupied(buckets') = Occupied(buckets) /\ Ways(buckets', nbuckets, nbuckets)
      /\ Distinct(buckets', 0 .. nbuckets - 1)
  BY <1>1, <1>2, SameWays
<1>4. nbuckets' = nbuckets
  BY <1>1, <1>2, TableSize DEF Table, nbuckets
<1>5. pc' = "return" /\ ~Resizing'
  BY DEF SetReplace, Resizing
<1>6. Types'
  BY <1>1, <1>2, <1>4, <1>5 DEF IInv, Types, SetReplace, Found
<1>7. Sizes'
  BY <1>1, <1>4, <1>5 DEF IInv, Sizes, SetReplace
<1>8. Thresholds'
  BY <1>1, <1>4, <1>5 DEF IInv, Thresholds, SetReplace
<1>9. Whole'
  BY <1>1, <1>3, <1>4 DEF Whole, SetReplace
<1>10. Fresh' /\ Deleting' /\ Setting' /\ Shifting' /\ Moving'
  BY <1>5 DEF Fresh, Deleting, Setting, Shifting, Moving
<1>. QED
  BY <1>6, <1>7, <1>8, <1>9, <1>10 DEF IInv

(* The item in hand, or the one it displaces, goes on. *)
LEMMA SetOnKeeps ==
  ASSUME IInv, SetOn
  PROVE  IInv'
<1>1. /\ nbuckets \in Nat /\ nbuckets >= 2 /\ Table(buckets, nbuckets)
      /\ Ways(buckets, nbuckets, nbuckets) /\ Distinct(buckets, 0 .. nbuckets - 1)
      /\ count = Cardinality(Occupied(buckets))
      /\ entry \in Bucket /\ OnWay(buckets, nbuckets, entry, i)
      /\ pc = "set" /\ ~Resizing /\ i \in 0 .. nbuckets - 1
      /\ Succ(i, buckets) = (i + 1) % nbuckets /\ Succ(i, buckets) \in 0 .. nbuckets - 1
  BY Tables DEF IInv, SetOn, Types, Whole, Setting, Resizing, Succ
<1>2. buckets[i].dib \in Nat \ {0} /\ entry.dib \in Nat
  BY <1>1 DEF SetOn, Table, Bucket
<1>3. /\ Table(buckets', nbuckets) /\ Ways(buckets', nbuckets, nbuckets)
      /\ Distinct(buckets', 0 .. nbuckets - 1) /\ Occupied(buckets') = Occupied(buckets)
      /\ entry' \in Bucket /\ OnWay(buckets', nbuckets, entry', (i + 1) % nbuckets)
  <2>1. CASE buckets[i].dib < entry.dib
    <3>1. buckets' = [buckets EXCEPT ![i] = entry] /\ entry' = Further(buckets[i])
      BY <1>2, <2>1 DEF SetOn
    <3>2. /\ Table(buckets', nbuckets) /\ Ways(buckets', nbuckets, nbuckets)
          /\ Distinct(buckets', 0 .. nbuckets - 1)
      BY <1>1, <2>1, <3>1, PutDown
    <3>3. Occupied(buckets') = Occupied(buckets)
      BY <1>1, <1>2, <2>1, <3>1 DEF Occupied, Table, Bucket
    <3>4. /\ OnWay(buckets', nbuckets, Further(buckets[i]), (i + 1) % nbuckets)
          /\ Further(buckets[i]) \in Bucket
      BY <1>1, <1>2, <2>1, <3>1, Displaced
    <3>. QED
      BY <3>1, <3>2, <3>3, <3>4
  <2>2. CASE buckets[i].dib >= entry.dib
    <3>1. buckets' = buckets /\ entry' = Further(entry) /\ buckets[i].key # entry.key
      BY <1>2, <2>2 DEF SetOn
    <3>2. /\ OnWay(buckets, nbuckets, Further(entry), (i + 1) % nbuckets)
          /\ Further(entry) \in Bucket
      BY <1>1, <2>2, <3>1, Passed
    <3>. QED
      BY <1>1, <3>1, <3>2
  <2>. QED
    BY <1>2, <2>1, <2>2
<1>4. nbuckets' = nbuckets
  BY <1>1, <1>3, TableSize DEF Table, nbuckets
<1>5. pc' = "set" /\ ~Resizing' /\ i' = (i + 1) % nbuckets
  BY <1>1 DEF SetOn, Resizing
<1>6. Types'
  BY <1>1, <1>3, <1>4, <1>5 DEF IInv, Types, SetOn
<1>7. Sizes'
  BY <1>1, <1>4, <1>5 DEF IInv, Sizes, SetOn
<1>8. Thresholds'
  BY <1>1, <1>4, <1>5 DEF IInv, Thresholds, SetOn
<1>9. Whole'
  BY <1>1, <1>3, <1>4 DEF Whole, SetOn
<1>10. Setting'
  BY <1>3, <1>4, <1>5 DEF Setting
<1>11. Fresh' /\ Deleting' /\ Shifting' /\ Moving'
  BY <1>5 DEF Fresh, Deleting, Shifting, Moving
<1>. QED
  BY <1>6, <1>7, <1>8, <1>9, <1>10, <1>11 DEF IInv

----------------------------------------------------------------------------
(* Delete *)

(* The item is found and taken out: its bucket is the hole. *)
LEMMA DeleteFoundKeeps ==
  ASSUME IInv, DeleteFound
  PROVE  IInv'
<1>1. /\ nbuckets \in Nat \ {0} /\ Table(buckets, nbuckets)
      /\ Ways(buckets, nbuckets, nbuckets) /\ Distinct(buckets, 0 .. nbuckets - 1)
      /\ count = Cardinality(Occupied(buckets))
      /\ pc = "delete" /\ ~Resizing /\ i \in 0 .. nbuckets - 1 /\ buckets[i].dib # 0
      /\ buckets' = [buckets EXCEPT ![i].dib = 0]
  BY Tables DEF IInv, DeleteFound, Types, Whole, Resizing
<1>2. /\ Table(buckets', nbuckets) /\ Ways(buckets', nbuckets, i)
      /\ Distinct(buckets', (0 .. nbuckets - 1) \ {i})
  BY <1>1, TakenOut
<1>3. nbuckets' = nbuckets
  BY <1>1, <1>2, TableSize DEF Table, nbuckets
<1>4. pc' = "shift" /\ ~Resizing' /\ i' = i
  BY DEF DeleteFound, Resizing
<1>5. Types'
  <2>1. buckets[i].value \in Values \cup {NoValue}
    BY <1>1 DEF Table, Bucket
  <2>. QED
    BY <1>1, <1>2, <1>3, <1>4, <2>1 DEF IInv, Types, DeleteFound, Found
<1>6. Sizes'
  BY <1>1, <1>3, <1>4 DEF IInv, Sizes, DeleteFound
<1>7. Thresholds'
  BY <1>1, <1>3, <1>4 DEF IInv, Thresholds, DeleteFound
<1>8. Deleting'
  BY <1>1 DEF IInv, Deleting, DeleteFound
<1>9. Shifting'
  <2>1. But(buckets', i) = Occupied(buckets) \ {i} /\ i \in Occupied(buckets)
    BY <1>1 DEF But, Occupied, Table, Bucket
  <2>2. IsFiniteSet(Occupied(buckets))
    BY <1>1, Parts
  <2>3. /\ Cardinality(Occupied(buckets) \ {i}) = Cardinality(Occupied(buckets)) - 1
        /\ Cardinality(Occupied(buckets)) \in Nat
    BY <2>1, <2>2, Counted
  <2>4. count' = Cardinality(But(buckets', i)) + 1
    <3>1. count' = count
      BY DEF DeleteFound
    <3>2. Cardinality(But(buckets', i)) = Cardinality(Occupied(buckets)) - 1
      BY <2>1, <2>3
    <3>. QED
      BY <1>1, <2>3, <3>1, <3>2
  <2>. QED
    BY <1>2, <1>3, <1>4, <2>4 DEF Shifting
<1>10. Fresh' /\ Whole' /\ Setting' /\ Moving'
  BY <1>4 DEF Fresh, Whole, Setting, Moving
<1>. QED
  BY <1>5, <1>6, <1>7, <1>8, <1>9, <1>10 DEF IInv

(* The item behind the hole moves up. *)
LEMMA ShiftKeeps ==
  ASSUME IInv, Shift
  PROVE  IInv'
<1>. DEFINE s == (i + 1) % nbuckets
            f == [buckets[s] EXCEPT !.dib = @ - 1]
<1>1. /\ nbuckets \in Nat /\ nbuckets >= 2 /\ Table(buckets, nbuckets)
      /\ Ways(buckets, nbuckets, i) /\ Distinct(buckets, (0 .. nbuckets - 1) \ {i})
      /\ count = Cardinality(But(buckets, i)) + 1
      /\ pc = "shift" /\ ~Resizing /\ i \in 0 .. nbuckets - 1
      /\ Succ(i, buckets) = s /\ s \in 0 .. nbuckets - 1
  BY Tables DEF IInv, Shift, Types, Shifting, Resizing, Succ
<1>2. /\ buckets[s].dib > 1 /\ buckets' = [buckets EXCEPT ![i] = f] /\ i' = s
      /\ pc' = "shift" /\ count' = count
  BY <1>1 DEF Shift
<1>3. buckets[s] \in Bucket /\ buckets[s].dib \in Nat
  BY <1>1 DEF Table, Bucket
<1>4. f \in Bucket /\ f.dib = buckets[s].dib - 1 /\ f.key = buckets[s].key
  BY <1>2, <1>3 DEF Bucket
<1>5. s = (i + 1) % nbuckets
  OBVIOUS
<1>. HIDE DEF s, f
<1>6. /\ Table(buckets', nbuckets) /\ Ways(buckets', nbuckets, s)
      /\ Distinct(buckets', (0 .. nbuckets - 1) \ {s})
  BY <1>1, <1>2, <1>4, <1>5, MovedUp
<1>7. nbuckets' = nbuckets
  BY <1>1, <1>6, TableSize DEF Table, nbuckets
<1>8. ~Resizing'
  BY <1>2 DEF Resizing
<1>9. Types'
  BY <1>1, <1>2, <1>6, <1>7, <1>8 DEF IInv, Types, Shift
<1>10. Sizes'
  BY <1>1, <1>7, <1>8 DEF IInv, Sizes, Shift
<1>11. Thresholds'
  BY <1>1, <1>7, <1>8 DEF IInv, Thresholds, Shift
<1>12. Deleting'
  BY <1>1 DEF IInv, Deleting, Shift
<1>13. Shifting'
  <2>1. s # i
    BY <1>1, <1>5, SuccFacts
  <2>2. /\ But(buckets', s) = (But(buckets, i) \ {s}) \cup {i}
        /\ s \in But(buckets, i) /\ i \notin But(buckets, i)
    BY <1>1, <1>2, <1>3, <1>4, <2>1 DEF But, Occupied, Table
  <2>3. IsFiniteSet(But(buckets, i))
    BY <1>1, Parts
  <2>4. /\ Cardinality(But(buckets, i) \ {s}) = Cardinality(But(buckets, i)) - 1
        /\ IsFiniteSet(But(buckets, i) \ {s})
        /\ Cardinality(But(buckets, i)) \in Nat
    BY <2>2, <2>3, Counted
  <2>5. Cardinality(But(buckets', s)) = Cardinality(But(buckets, i) \ {s}) + 1
    BY <2>2, <2>4, Counted
  <2>6. count' = Cardinality(But(buckets', s)) + 1
    BY <1>1, <1>2, <2>4, <2>5
  <2>. QED
    BY <1>2, <1>6, <1>7, <2>6 DEF Shifting
<1>14. Fresh' /\ Whole' /\ Setting' /\ Moving'
  BY <1>2, <1>8 DEF Fresh, Whole, Setting, Moving
<1>. QED
  BY <1>9, <1>10, <1>11, <1>12, <1>13, <1>14 DEF IInv

(* The hole is closed, and the table may be too large now. *)
LEMMA ShiftDoneKeeps ==
  ASSUME IInv, ShiftDone
  PROVE  IInv'
<1>1. /\ nbuckets \in Nat /\ nbuckets >= 2 /\ Table(buckets, nbuckets)
      /\ Ways(buckets, nbuckets, i) /\ Distinct(buckets, (0 .. nbuckets - 1) \ {i})
      /\ count = Cardinality(But(buckets, i)) + 1
      /\ pc = "shift" /\ ~Resizing /\ i \in 0 .. nbuckets - 1
      /\ buckets[(i + 1) % nbuckets].dib <= 1
  BY Tables DEF IInv, ShiftDone, Types, Shifting, Resizing, Succ
<1>2. /\ Table(buckets', nbuckets) /\ Ways(buckets', nbuckets, nbuckets)
      /\ Distinct(buckets', 0 .. nbuckets - 1)
      /\ Occupied(buckets') = But(buckets, i)
  <2>1. \A c : c = [buckets EXCEPT ![i] = Empty] =>
          /\ Table(c, nbuckets) /\ Ways(c, nbuckets, nbuckets) /\ Distinct(c, 0 .. nbuckets - 1)
          /\ Occupied(c) = But(buckets, i)
    BY <1>1, Closed
  <2>2. buckets' = [buckets EXCEPT ![i] = Empty]
    BY DEF ShiftDone
  <2>. QED
    BY <2>1, <2>2
<1>3. nbuckets' = nbuckets
  BY <1>1, <1>2, TableSize DEF Table, nbuckets
<1>4. /\ pc' \in {"shrink", "return"} /\ ~Resizing' /\ count' = count - 1
      /\ pc' = "shrink" => nbuckets > cap /\ count' <= shrinkat
      /\ UNCHANGED <<cap, growat, shrinkat, buckets2, call, src, entry, result>>
  BY DEF ShiftDone, Resizing
<1>5. /\ Cardinality(But(buckets, i)) \in Nat
      /\ count' = Cardinality(Occupied(buckets')) /\ count' \in Nat
  <2>1. Cardinality(But(buckets, i)) \in Nat
    BY <1>1, Parts, FS_CardinalityType
  <2>. QED
    BY <1>1, <1>2, <1>4, <2>1
<1>6. Types'
  BY <1>1, <1>2, <1>3, <1>4 DEF IInv, Types
<1>7. Sizes'
  BY <1>1, <1>3, <1>4 DEF IInv, Sizes
<1>8. Thresholds'
  <2>1. growat \in Nat /\ count <= growat /\ count \in Nat
    BY <1>1, ThresholdFacts DEF IInv, Thresholds
  <2>2. count' <= growat
    BY <1>4, <1>5, <2>1
  <2>. QED
    BY <1>1, <1>3, <1>4, <1>5, <2>2 DEF IInv, Thresholds
<1>9. Deleting'
  BY <1>1, <1>4 DEF IInv, Deleting
<1>10. Whole'
  BY <1>2, <1>3, <1>5 DEF Whole
<1>11. Fresh' /\ Setting' /\ Shifting' /\ Moving'
  BY <1>4 DEF Fresh, Setting, Shifting, Moving
<1>. QED
  BY <1>6, <1>7, <1>8, <1>9, <1>10, <1>11 DEF IInv

(* All items are removed at once. *)
LEMMA ClearKeeps ==
  ASSUME IInv, Clear
  PROVE  IInv'
<1>1. nbuckets \in Nat /\ nbuckets >= 2
  BY Tables
<1>2. /\ Table(buckets', nbuckets) /\ Ways(buckets', nbuckets, nbuckets)
      /\ Distinct(buckets', 0 .. nbuckets - 1) /\ Occupied(buckets') = {}
      /\ nbuckets' = nbuckets
  <2>1. buckets' = EmptyTable(nbuckets)
    BY DEF Clear
  <2>2. /\ Table(EmptyTable(nbuckets), nbuckets) /\ Size(EmptyTable(nbuckets)) = nbuckets
        /\ Ways(EmptyTable(nbuckets), nbuckets, nbuckets)
        /\ Distinct(EmptyTable(nbuckets), 0 .. nbuckets - 1)
    BY <1>1, EmptyTables
  <2>3. Occupied(EmptyTable(nbuckets)) = {}
    BY <1>1, EmptyTables
  <2>4. nbuckets' = Size(buckets')
    BY DEF nbuckets
  <2>. QED
    BY <2>1, <2>2, <2>3, <2>4
<1>3. /\ pc = "idle" /\ pc' = "idle" /\ ~Resizing /\ ~Resizing' /\ count' = 0
      /\ cap' = nbuckets /\ growat' = (nbuckets * 75) \div 100 /\ shrinkat' = ShrinkAt(nbuckets)
      /\ UNCHANGED <<buckets2, call, i, src, entry, result>>
  BY DEF Clear, Resizing
<1>4. Types'
  BY <1>2, <1>3 DEF IInv, Types
<1>5. Sizes'
  BY <1>1, <1>2, <1>3, DoubledFacts DEF Sizes
<1>6. Thresholds'
  BY <1>1, <1>2, <1>3, ThresholdFacts DEF Thresholds
<1>7. Whole'
  BY <1>2, <1>3, FS_EmptySet DEF Whole
<1>8. Fresh' /\ Deleting' /\ Setting' /\ Shifting' /\ Moving'
  BY <1>3 DEF Fresh, Deleting, Setting, Shifting, Moving
<1>. QED
  BY <1>4, <1>5, <1>6, <1>7, <1>8 DEF IInv

----------------------------------------------------------------------------
(* Resizing *)

(* A table of another size is allocated, and nothing has moved. *)
LEMMA AllocateKeeps ==
  ASSUME IInv, pc \in {"grow", "shrink"}, NEW n \in Nat, n >= 2, Allocate(n),
         UNCHANGED <<table, count, call, i, entry>>,
         result' \in [value : Values \cup {NoValue}, oom : BOOLEAN],
         Doubled(cap, n), count <= GrowAt(n), pc = "grow" => count < GrowAt(n)
  PROVE  IInv'
<1>1. /\ nbuckets' = nbuckets /\ nbuckets \in Nat /\ nbuckets >= 2 /\ Table(buckets, nbuckets)
      /\ pc' = "move" /\ src' = 0 /\ ~Resizing /\ Resizing' /\ pc # "shift"
  BY Tables DEF table, nbuckets, Resizing, Allocate
<1>2. /\ Table(EmptyTable(n), n) /\ Size(EmptyTable(n)) = n
      /\ Ways(EmptyTable(n), n, n) /\ Distinct(EmptyTable(n), 0 .. n - 1)
  BY EmptyTables
<1>3. Occupied(EmptyTable(n)) = {}
  BY EmptyTables
<1>4. buckets2' = EmptyTable(n) /\ Size(buckets2') = n
  BY <1>2 DEF Allocate
<1>5. Types'
  BY <1>1, <1>2, <1>4 DEF IInv, Types, table, Table
<1>6. Sizes'
  BY <1>1, <1>4 DEF IInv, Sizes, table
<1>7. Thresholds' /\ Deleting' /\ Fresh'
  <2>1. pc = "grow" => call.name = "set"
    BY DEF IInv, Thresholds
  <2>2. pc = "shrink" => call.name = "delete"
    BY DEF IInv, Deleting
  <2>3. Thresholds'
    BY <1>1, <1>4, <2>1, <2>2 DEF IInv, Thresholds, table
  <2>. QED
    BY <1>1, <2>1, <2>2, <2>3 DEF IInv, Fresh, Deleting
<1>8. Moving'
  <2>1. /\ Ways(buckets, nbuckets, nbuckets) /\ Distinct(buckets, 0 .. nbuckets - 1)
        /\ count = Cardinality(Occupied(buckets))
    BY <1>1 DEF IInv, Whole
  <2>2. \A j \in 0 .. nbuckets - 1 : buckets[j].dib > 0 => buckets[j].key \in Keys
    BY <1>1, <2>1 DEF Ways
  <2>3. \A l \in 0 .. n - 1 : ~ EmptyTable(n)[l].dib > 0
    BY DEF EmptyTable, Empty
  <2>4. count = Cardinality(Occupied(buckets2')) + Cardinality(Rest(buckets, 0))
    <3>1. Rest(buckets, 0) = Occupied(buckets) /\ IsFiniteSet(Occupied(buckets))
      BY <1>1, Parts
    <3>2. Cardinality(Occupied(buckets)) \in Nat
      BY <3>1, FS_CardinalityType
    <3>3. Cardinality(Occupied(buckets2')) = 0
      BY <1>3, <1>4, FS_EmptySet
    <3>. QED
      BY <2>1, <3>1, <3>2, <3>3
  <2>5. buckets' = buckets /\ count' = count /\ pc' # "place"
    BY <1>1 DEF table
  <2>. QED
    BY <1>1, <1>2, <1>4, <2>1, <2>2, <2>3, <2>4, <2>5 DEF Moving
<1>9. Whole' /\ Setting' /\ Shifting'
  BY <1>1 DEF Whole, Setting, Shifting
<1>. QED
  BY <1>5, <1>6, <1>7, <1>8, <1>9 DEF IInv

(* A full table grows, or the set fails. *)
LEMMA GrowKeeps ==
  ASSUME IInv, Grow
  PROVE  IInv'
<1>1. /\ pc = "grow" /\ nbuckets \in Nat /\ nbuckets >= 2 /\ ~Resizing
      /\ src \in Nat /\ entry \in Bucket
      /\ result \in [value : Values \cup {NoValue}, oom : BOOLEAN]
      /\ count \in Nat /\ cap \in Nat /\ Doubled(cap, nbuckets)
  BY Tables DEF IInv, Types, Sizes, Thresholds, Grow, Resizing
<1>2. CASE Allocate(2 * nbuckets) /\ UNCHANGED result
  <2>1. 2 * nbuckets \in Nat /\ 2 * nbuckets >= 2 /\ Doubled(cap, 2 * nbuckets)
    BY <1>1, DoubledFacts
  <2>2. /\ count <= growat /\ growat \in {GrowAt(nbuckets), (nbuckets * 75) \div 100}
        /\ GrowAt(nbuckets) \in Nat /\ (nbuckets * 75) \div 100 \in Nat
        /\ GrowAt(nbuckets) < GrowAt(2 * nbuckets)
        /\ (nbuckets * 75) \div 100 < GrowAt(2 * nbuckets)
    BY <1>1, ThresholdFacts DEF IInv, Thresholds
  <2>3. GrowAt(2 * nbuckets) \in Nat
    BY <2>1, ThresholdFacts
  <2>4. count < GrowAt(2 * nbuckets)
    BY <1>1, <2>2, <2>3
  <2>. QED
    BY <1>1, <1>2, <2>1, <2>3, <2>4, AllocateKeeps DEF Grow
<1>3. CASE pc' = "return" /\ UNCHANGED <<buckets2, src>>
           /\ result' = [value |-> NoValue, oom |-> TRUE]
  BY <1>1, <1>3, TableKept DEF Grow
<1>. QED
  BY <1>2, <1>3 DEF Grow

(* A table that is too large shrinks, or stays as it is. *)
LEMMA ShrinkKeeps ==
  ASSUME IInv, Shrink
  PROVE  IInv'
<1>1. /\ pc = "shrink" /\ nbuckets \in Nat /\ nbuckets >= 2 /\ ~Resizing
      /\ src \in Nat /\ entry \in Bucket
      /\ result \in [value : Values \cup {NoValue}, oom : BOOLEAN]
      /\ count \in Nat /\ cap \in Nat /\ cap >= 2 /\ Doubled(cap, nbuckets)
      /\ nbuckets > cap /\ count <= ShrinkAt(nbuckets)
  BY Tables DEF IInv, Types, Sizes, Thresholds, Shrink, Resizing
<1>2. CASE Allocate(nbuckets \div 2)
  <2>1. /\ nbuckets % 2 = 0 /\ nbuckets \div 2 \in Nat /\ nbuckets \div 2 >= cap
        /\ Doubled(cap, nbuckets \div 2)
    BY <1>1, DoubledFacts
  <2>2. nbuckets \div 2 >= 2
    BY <1>1, <2>1
  <2>3. ShrinkAt(nbuckets) <= GrowAt(nbuckets \div 2) /\ ShrinkAt(nbuckets) \in Nat
    BY <1>1, <2>1, ThresholdFacts
  <2>4. GrowAt(nbuckets \div 2) \in Nat
    BY <2>1, <2>2, ThresholdFacts
  <2>5. count <= GrowAt(nbuckets \div 2)
    BY <1>1, <2>3, <2>4
  <2>. QED
    BY <1>1, <1>2, <2>1, <2>2, <2>5, AllocateKeeps DEF Shrink
<1>3. CASE pc' = "return" /\ UNCHANGED <<buckets2, src>>
  BY <1>1, <1>3, TableKept DEF Shrink
<1>. QED
  BY <1>2, <1>3 DEF Shrink

(* The new table replaces the old one when all items are moved. *)
LEMMA MoveDoneKeeps ==
  ASSUME IInv, MoveDone
  PROVE  IInv'
<1>. DEFINE n == Size(buckets2)
<1>1. /\ pc = "move" /\ Resizing /\ src = nbuckets
      /\ nbuckets \in Nat /\ Table(buckets, nbuckets)
      /\ n \in Nat /\ n >= 2 /\ Table(buckets2, n)
      /\ Ways(buckets2, n, n) /\ Distinct(buckets2, 0 .. n - 1)
      /\ count = Cardinality(Occupied(buckets2)) + Cardinality(Rest(buckets, src))
      /\ cap \in Nat /\ cap >= 2 /\ Doubled(cap, n)
      /\ call.name \in {"set", "delete"}
  BY Tables DEF IInv, MoveDone, Resizing, Sizes, Thresholds, Moving
<1>2. count = Cardinality(Occupied(buckets2))
  <2>1. Rest(buckets, src) = {} /\ IsFiniteSet(Occupied(buckets2))
    BY <1>1, Parts
  <2>2. Cardinality(Rest(buckets, src)) = 0 /\ Cardinality(Occupied(buckets2)) \in Nat
    BY <2>1, FS_EmptySet, FS_CardinalityType
  <2>. QED
    BY <1>1, <2>2
<1>3. /\ buckets' = buckets2 /\ nbuckets' = n /\ buckets2' = NoTable
      /\ pc' \in {"set", "return"} /\ ~Resizing'
      /\ growat' = GrowAt(n) /\ shrinkat' = ShrinkAt(n)
      /\ UNCHANGED <<cap, count, call, src, entry, result>>
  BY DEF MoveDone, SetStart, Resizing, nbuckets
<1>4. pc' = "set" =>
        /\ call.name = "set"
        /\ entry.key = call.key /\ entry.dib = 1 /\ call.key \in Keys
        /\ i' = Hash[entry.key] % n /\ i' \in 0 .. n - 1
  <2>1. pc' = "set" => call.name = "set" /\ i' = Slot(call.key, buckets2)
    BY DEF MoveDone, SetStart
  <2>2. call.name = "set" => entry.key = call.key /\ entry.dib = 1 /\ call.key \in Keys
    BY <1>1 DEF IInv, Fresh
  <2>. QED
    BY <1>1, <2>1, <2>2, Tables DEF Slot
<1>. HIDE DEF n
<1>5. Types'
  <2>1. /\ Size(buckets2') = 0 /\ buckets2' \in [0 .. Size(buckets2') - 1 -> Bucket]
    BY <1>3, NoTableFacts
  <2>2. pc' # "place" /\ pc' \notin {"get", "delete", "shift"}
    BY <1>3
  <2>. QED
    BY <1>1, <1>3, <1>4, <2>1, <2>2 DEF IInv, Types
<1>6. Sizes'
  BY <1>1, <1>3 DEF Sizes
<1>7. Thresholds'
  <2>1. count <= GrowAt(n) /\ (call.name = "set" => count < GrowAt(n)) /\ count \in Nat
    BY <1>1 DEF IInv, Thresholds, n
  <2>. QED
    BY <1>3, <1>4, <2>1 DEF Thresholds
<1>8. Fresh' /\ Deleting' /\ Shifting' /\ Moving'
  BY <1>3 DEF Fresh, Deleting, Shifting, Moving
<1>9. Whole'
  BY <1>1, <1>2, <1>3 DEF Whole
<1>10. Setting'
  <2>1. pc' = "set" => OnWay(buckets2, n, entry, Hash[entry.key] % n)
    BY <1>1, <1>4, Started
  <2>. QED
    BY <1>3, <1>4, <2>1 DEF Setting
<1>. QED
  BY <1>5, <1>6, <1>7, <1>8, <1>9, <1>10 DEF IInv

(* What is still to be moved. *)
LEMMA ToMove ==
  ASSUME IInv, Resizing
  PROVE  /\ nbuckets \in Nat /\ nbuckets >= 2 /\ Table(buckets, nbuckets)
         /\ Size(buckets2) \in Nat /\ Size(buckets2) >= 2 /\ Table(buckets2, Size(buckets2))
         /\ Ways(buckets2, Size(buckets2), Size(buckets2))
         /\ Distinct(buckets2, 0 .. Size(buckets2) - 1)
         /\ src \in Nat /\ src <= nbuckets /\ pc # "shift"
         /\ Distinct(buckets, src .. nbuckets - 1)
         /\ \A j \in src .. nbuckets - 1 : buckets[j].dib > 0 =>
              /\ buckets[j].key \in Keys
              /\ \A l \in 0 .. Size(buckets2) - 1 :
                   buckets2[l].dib > 0 => buckets2[l].key # buckets[j].key
         /\ count = Cardinality(Occupied(buckets2)) + Cardinality(Rest(buckets, src))
         /\ Cardinality(Occupied(buckets2)) \in Nat /\ Cardinality(Rest(buckets, src)) \in Nat
         /\ pc = "place" => src < nbuckets /\ OnWay(buckets2, Size(buckets2), buckets[src], i)
<1>1. /\ nbuckets \in Nat /\ nbuckets >= 2 /\ Table(buckets, nbuckets)
      /\ Size(buckets2) \in Nat /\ Size(buckets2) >= 2 /\ Table(buckets2, Size(buckets2))
  BY Tables
<1>2. Cardinality(Occupied(buckets2)) \in Nat /\ Cardinality(Rest(buckets, src)) \in Nat
  BY <1>1, Parts, FS_CardinalityType
<1>3. src \in Nat /\ pc # "shift"
  BY DEF IInv, Types, Resizing
<1>. QED
  BY <1>1, <1>2, <1>3 DEF IInv, Moving

(* The next bucket to be moved is empty, or its item is taken in hand. *)
LEMMA MoveNextKeeps ==
  ASSUME IInv, MoveNext
  PROVE  IInv'
<1>. DEFINE n == Size(buckets2)
<1>1. pc = "move" /\ Resizing /\ src < nbuckets
  BY DEF MoveNext, Resizing
<1>2. /\ nbuckets \in Nat /\ nbuckets >= 2 /\ Table(buckets, nbuckets)
      /\ n \in Nat /\ n >= 2 /\ Table(buckets2, n)
      /\ Ways(buckets2, n, n) /\ Distinct(buckets2, 0 .. n - 1)
      /\ src \in 0 .. nbuckets - 1
      /\ Distinct(buckets, src .. nbuckets - 1)
      /\ \A j \in src .. nbuckets - 1 : buckets[j].dib > 0 =>
           /\ buckets[j].key \in Keys
           /\ \A l \in 0 .. n - 1 : buckets2[l].dib > 0 => buckets2[l].key # buckets[j].key
      /\ count = Cardinality(Occupied(buckets2)) + Cardinality(Rest(buckets, src))
  BY <1>1, ToMove
<1>3. /\ pc' \in {"move", "place"} /\ Resizing' /\ buckets2' = buckets2 /\ Size(buckets2)' = n
      /\ UNCHANGED <<cap, growat, shrinkat, count, buckets2, call, entry, result>>
  BY <1>1 DEF MoveNext, Resizing, Size
<1>4. \A k \in Keys : Slot(k, buckets2) \in 0 .. n - 1 /\ Slot(k, buckets2) = Hash[k] % n
  BY <1>1, Tables DEF Slot
<1>. HIDE DEF n
<1>5. Fresh' /\ Deleting' /\ Whole' /\ Setting' /\ Shifting'
  BY <1>1, <1>3 DEF IInv, Fresh, Deleting, Whole, Setting, Shifting, Resizing
<1>6. CASE buckets[src].dib = 0
  <2>1. buckets' = buckets /\ src' = src + 1 /\ pc' = "move" /\ nbuckets' = nbuckets
    BY <1>6 DEF MoveNext, nbuckets
  <2>2. Rest(buckets, src + 1) = Rest(buckets, src)
    BY <1>2, <1>6 DEF Rest, Occupied, Table
  <2>3. Distinct(buckets, src + 1 .. nbuckets - 1)
    BY <1>2 DEF Distinct
  <2>4. \A j \in src + 1 .. nbuckets - 1 : j \in src .. nbuckets - 1
    BY <1>2
  <2>5. Moving'
    BY <1>2, <1>3, <2>1, <2>2, <2>3, <2>4 DEF Moving
  <2>6. Types'
    BY <1>1, <1>2, <1>3, <2>1 DEF IInv, Types
  <2>7. Sizes'
    BY <1>1, <1>3, <2>1 DEF IInv, Sizes, n
  <2>8. Thresholds'
    BY <1>1, <1>3, <2>1 DEF IInv, Thresholds, n
  <2>. QED
    BY <1>5, <2>5, <2>6, <2>7, <2>8 DEF IInv
<1>7. CASE buckets[src].dib # 0
  <2>1. /\ buckets' = [buckets EXCEPT ![src].dib = 1] /\ src' = src /\ pc' = "place"
        /\ i' = Slot(buckets[src].key, buckets2)
    BY <1>7 DEF MoveNext
  <2>2. /\ Table(buckets', nbuckets) /\ buckets'[src].dib = 1 /\ buckets[src].dib > 0
        /\ buckets'[src].key = buckets[src].key /\ buckets[src].key \in Keys
        /\ \A j \in 0 .. nbuckets - 1 : j # src => buckets'[j] = buckets[j]
    <3>1. buckets \in [0 .. nbuckets - 1 -> Bucket] /\ buckets[src] \in Bucket
      BY <1>2 DEF Table
    <3>2. buckets[src].dib > 0 /\ buckets[src].key \in Keys
      <4>1. buckets[src].dib \in Nat /\ src \in src .. nbuckets - 1
        BY <1>2, <3>1 DEF Bucket
      <4>. QED
        BY <1>2, <1>7, <4>1
    <3>3. /\ [buckets[src] EXCEPT !.dib = 1] \in Bucket
          /\ [buckets[src] EXCEPT !.dib = 1].dib = 1
          /\ [buckets[src] EXCEPT !.dib = 1].key = buckets[src].key
      BY <3>1 DEF Bucket
    <3>. QED
      BY <1>2, <2>1, <3>1, <3>2, <3>3 DEF Table
  <2>3. nbuckets' = nbuckets
    BY <1>2, <2>2, TableSize DEF Table, nbuckets
  <2>4. \A j \in 0 .. nbuckets - 1 :
          buckets'[j].key = buckets[j].key /\ (buckets'[j].dib > 0 <=> buckets[j].dib > 0)
    BY <1>2, <2>2
  <2>5. Rest(buckets', src) = Rest(buckets, src)
    BY <1>2, <2>2, <2>4 DEF Rest, Occupied, Table
  <2>6. Distinct(buckets', src .. nbuckets - 1)
    BY <1>2, <2>4 DEF Distinct
  <2>7. OnWay(buckets2, n, buckets'[src], i')
    <3>1. \A it : it.key \in Keys /\ it.dib = 1 => OnWay(buckets2, n, it, Hash[it.key] % n)
      BY <1>2, Started
    <3>2. OnWay(buckets2, n, buckets'[src], Hash[buckets'[src].key] % n)
      BY <2>2, <3>1
    <3>. QED
      BY <1>4, <2>1, <2>2, <3>2
  <2>8. Moving'
    <3>1. \A j \in src .. nbuckets - 1 : buckets'[j].dib > 0 =>
            /\ buckets'[j].key \in Keys
            /\ \A l \in 0 .. n - 1 : buckets2[l].dib > 0 => buckets2[l].key # buckets'[j].key
      BY <1>2, <2>4
    <3>. QED
      BY <1>2, <1>3, <2>1, <2>3, <2>5, <2>6, <2>7, <3>1 DEF Moving
  <2>9. Types'
    BY <1>1, <1>2, <1>3, <1>4, <2>1, <2>2, <2>3 DEF IInv, Types
  <2>10. Sizes'
    BY <1>1, <1>2, <1>3, <2>3 DEF IInv, Sizes, n
  <2>11. Thresholds'
    BY <1>1, <1>3, <2>1, <2>3 DEF IInv, Thresholds, n
  <2>. QED
    BY <1>5, <2>8, <2>9, <2>10, <2>11 DEF IInv
<1>. QED
  BY <1>6, <1>7

(* The item in hand gets an empty bucket of the new table. *)
LEMMA PlaceKeeps ==
  ASSUME IInv, Place
  PROVE  IInv'
<1>. DEFINE n == Size(buckets2)
<1>1. pc = "place" /\ Resizing
  BY DEF Place, Resizing
<1>2. /\ nbuckets \in Nat /\ nbuckets >= 2 /\ Table(buckets, nbuckets)
      /\ n \in Nat /\ n >= 2 /\ Table(buckets2, n)
      /\ Ways(buckets2, n, n) /\ Distinct(buckets2, 0 .. n - 1)
      /\ src \in 0 .. nbuckets - 1 /\ i \in 0 .. n - 1
      /\ Distinct(buckets, src .. nbuckets - 1)
      /\ \A j \in src .. nbuckets - 1 : buckets[j].dib > 0 =>
           /\ buckets[j].key \in Keys
           /\ \A l \in 0 .. n - 1 : buckets2[l].dib > 0 => buckets2[l].key # buckets[j].key
      /\ count = Cardinality(Occupied(buckets2)) + Cardinality(Rest(buckets, src))
      /\ Cardinality(Occupied(buckets2)) \in Nat /\ Cardinality(Rest(buckets, src)) \in Nat
      /\ OnWay(buckets2, n, buckets[src], i)
  BY <1>1, ToMove DEF IInv, Types
<1>3. /\ src' = src + 1 /\ pc' = "move" /\ Resizing' /\ buckets' = buckets /\ nbuckets' = nbuckets
      /\ UNCHANGED <<cap, growat, shrinkat, count, call, entry, result>>
  BY DEF Place, Resizing, table, nbuckets
<1>4. buckets2[i].dib = 0 /\ buckets2' = [buckets2 EXCEPT ![i] = buckets[src]]
  BY DEF Place
<1>. HIDE DEF n
<1>5. buckets[src] \in Bucket /\ buckets[src].dib \in Nat \ {0}
  BY <1>2 DEF Table, OnWay, Bucket
<1>6. Table(buckets2', n) /\ Ways(buckets2', n, n) /\ Distinct(buckets2', 0 .. n - 1)
  <2>1. buckets2[i].dib < buckets[src].dib
    BY <1>4, <1>5
  <2>. QED
    BY <1>2, <1>4, <1>5, <2>1, PutDown
<1>7. Size(buckets2') = n /\ Size(buckets2)' = n
  BY <1>2, <1>6, TableSize DEF Table
<1>8. count = Cardinality(Occupied(buckets2')) + Cardinality(Rest(buckets, src + 1))
  <2>1. Occupied(buckets2') = Occupied(buckets2) \cup {i} /\ i \notin Occupied(buckets2)
    BY <1>2, <1>4, <1>5 DEF Occupied, Table
  <2>2. Rest(buckets, src + 1) = Rest(buckets, src) \ {src} /\ src \in Rest(buckets, src)
    BY <1>2, <1>5 DEF Rest, Occupied, Table
  <2>3. IsFiniteSet(Occupied(buckets2)) /\ IsFiniteSet(Rest(buckets, src))
    BY <1>2, Parts
  <2>4. Cardinality(Occupied(buckets2')) = Cardinality(Occupied(buckets2)) + 1
    BY <2>1, <2>3, Counted
  <2>5. Cardinality(Rest(buckets, src + 1)) = Cardinality(Rest(buckets, src)) - 1
    BY <2>2, <2>3, Counted
  <2>. QED
    BY <1>2, <2>4, <2>5
<1>9. Distinct(buckets, src + 1 .. nbuckets - 1)
  BY <1>2 DEF Distinct
<1>10. \A j \in src + 1 .. nbuckets - 1 : buckets[j].dib > 0 =>
        /\ buckets[j].key \in Keys
        /\ \A l \in 0 .. n - 1 : buckets2'[l].dib > 0 => buckets2'[l].key # buckets[j].key
  <2>. SUFFICES ASSUME NEW j \in src + 1 .. nbuckets - 1, buckets[j].dib > 0
       PROVE  /\ buckets[j].key \in Keys
              /\ \A l \in 0 .. n - 1 : buckets2'[l].dib > 0 => buckets2'[l].key # buckets[j].key
    OBVIOUS
  <2>1. j \in src .. nbuckets - 1 /\ src \in src .. nbuckets - 1 /\ j # src
    BY <1>2
  <2>2. buckets[j].key # buckets[src].key
    BY <1>2, <1>5, <2>1 DEF Distinct
  <2>3. \A l \in 0 .. n - 1 : buckets2'[l] = IF l = i THEN buckets[src] ELSE buckets2[l]
    BY <1>2, <1>4 DEF Table
  <2>. QED
    BY <1>2, <2>1, <2>2, <2>3
<1>11. Moving'
  BY <1>2, <1>3, <1>6, <1>7, <1>8, <1>9, <1>10 DEF Moving
<1>12. Types'
  BY <1>2, <1>3, <1>6, <1>7 DEF IInv, Types, Table
<1>13. Sizes'
  BY <1>1, <1>2, <1>3, <1>7 DEF IInv, Sizes, n
<1>14. Thresholds'
  BY <1>1, <1>3, <1>7 DEF IInv, Thresholds, n
<1>15. Fresh' /\ Deleting' /\ Whole' /\ Setting' /\ Shifting'
  BY <1>1, <1>3 DEF IInv, Fresh, Deleting, Whole, Setting, Shifting, Resizing
<1>. QED
  BY <1>11, <1>12, <1>13, <1>14, <1>15 DEF IInv

(* The item in hand, or the one it displaces, goes on. *)
LEMMA PlaceOnKeeps ==
  ASSUME IInv, PlaceOn
  PROVE  IInv'
<1>. DEFINE n == Size(buckets2)
            Apart(b, c) ==
              \A j \in src .. nbuckets - 1 : b[j].dib > 0 =>
                /\ b[j].key \in Keys
                /\ \A l \in 0 .. n - 1 : c[l].dib > 0 => c[l].key # b[j].key
<1>1. pc = "place" /\ Resizing
  BY DEF PlaceOn, Resizing
<1>2. /\ nbuckets \in Nat /\ nbuckets >= 2 /\ Table(buckets, nbuckets)
      /\ n \in Nat /\ n >= 2 /\ Table(buckets2, n)
      /\ Ways(buckets2, n, n) /\ Distinct(buckets2, 0 .. n - 1)
      /\ src \in 0 .. nbuckets - 1 /\ i \in 0 .. n - 1
      /\ Distinct(buckets, src .. nbuckets - 1)
      /\ count = Cardinality(Occupied(buckets2)) + Cardinality(Rest(buckets, src))
      /\ OnWay(buckets2, n, buckets[src], i)
  BY <1>1, ToMove DEF IInv, Types
<1>3. Apart(buckets, buckets2)
  BY <1>1, ToMove
<1>4. /\ i' = (i + 1) % n /\ (i + 1) % n \in 0 .. n - 1
      /\ src' = src /\ pc' = "place" /\ Resizing'
      /\ UNCHANGED <<cap, growat, shrinkat, count, call, entry, result>>
  BY <1>1, <1>2, Tables DEF PlaceOn, Resizing, Succ
<1>. HIDE DEF n
<1>5. /\ buckets2[i] \in Bucket /\ buckets2[i].dib \in Nat \ {0}
      /\ buckets[src] \in Bucket /\ buckets[src].dib \in Nat \ {0} /\ buckets[src].key \in Keys
  BY <1>2 DEF PlaceOn, Table, OnWay, Bucket
<1>6. /\ buckets2[i].key # buckets[src].key
      /\ \A j \in src .. nbuckets - 1 : j # src /\ buckets[j].dib > 0 =>
           buckets[j].key # buckets[src].key /\ buckets[j].key # buckets2[i].key
  <2>1. src \in src .. nbuckets - 1 /\ buckets[src].dib > 0 /\ buckets2[i].dib > 0
    BY <1>2, <1>5
  <2>2. buckets2[i].key # buckets[src].key
    BY <1>2, <1>3, <2>1
  <2>3. ASSUME NEW j \in src .. nbuckets - 1, j # src, buckets[j].dib > 0
        PROVE  buckets[j].key # buckets[src].key /\ buckets[j].key # buckets2[i].key
    <3>1. buckets[j].key # buckets[src].key
      BY <1>2, <2>1, <2>3 DEF Distinct
    <3>2. buckets[j].key # buckets2[i].key
      BY <1>2, <1>3, <2>1, <2>3
    <3>. QED
      BY <3>1, <3>2
  <2>. QED
    BY <2>2, <2>3
<1>7. /\ Table(buckets2', n) /\ Ways(buckets2', n, n) /\ Distinct(buckets2', 0 .. n - 1)
      /\ Occupied(buckets2') = Occupied(buckets2)
      /\ OnWay(buckets2', n, buckets'[src], (i + 1) % n)
      /\ Table(buckets', nbuckets) /\ buckets'[src].dib > 0
      /\ \A j \in 0 .. nbuckets - 1 : j # src => buckets'[j] = buckets[j]
      /\ Distinct(buckets', src .. nbuckets - 1)
      /\ Apart(buckets', buckets2')
  <2>1. CASE buckets2[i].dib < buckets[src].dib
    <3>1. /\ buckets2' = [buckets2 EXCEPT ![i] = buckets[src]]
          /\ buckets' = [buckets EXCEPT ![src] = Further(buckets2[i])]
      BY <1>5, <2>1 DEF PlaceOn
    <3>2. Table(buckets2', n) /\ Ways(buckets2', n, n) /\ Distinct(buckets2', 0 .. n - 1)
      BY <1>2, <1>5, <2>1, <3>1, PutDown
    <3>3. Occupied(buckets2') = Occupied(buckets2)
      BY <1>2, <1>5, <3>1 DEF Occupied, Table
    <3>4. /\ OnWay(buckets2', n, Further(buckets2[i]), (i + 1) % n)
          /\ Further(buckets2[i]) \in Bucket
      <4>1. buckets2[i].dib # 0
        BY <1>5
      <4>. QED
        BY <1>2, <1>5, <2>1, <3>1, <4>1, Displaced
    <3>5. /\ Table(buckets', nbuckets) /\ buckets'[src] = Further(buckets2[i])
          /\ \A j \in 0 .. nbuckets - 1 : j # src => buckets'[j] = buckets[j]
      BY <1>2, <3>1, <3>4 DEF Table
    <3>6. buckets'[src].dib > 0 /\ buckets'[src].key = buckets2[i].key
      BY <1>5, <3>5 DEF Further, Bucket
    <3>7. Distinct(buckets', src .. nbuckets - 1)
      <4>1. \A j \in src .. nbuckets - 1 :
              j # src =>
                /\ buckets'[j] = buckets[j]
                /\ buckets[j].dib > 0 => buckets[j].key # buckets'[src].key
        BY <1>2, <1>6, <3>5, <3>6
      <4>. QED
        BY <1>2, <4>1 DEF Distinct
    <3>8. Apart(buckets', buckets2')
      <4>1. \A l \in 0 .. n - 1 : buckets2'[l] = IF l = i THEN buckets[src] ELSE buckets2[l]
        BY <1>2, <3>1 DEF Table
      <4>2. buckets2[i].key \in Keys
        BY <1>2, <1>5 DEF Ways
      <4>3. ASSUME NEW j \in src .. nbuckets - 1, buckets'[j].dib > 0
            PROVE  /\ buckets'[j].key \in Keys
                   /\ \A l \in 0 .. n - 1 :
                        buckets2'[l].dib > 0 => buckets2'[l].key # buckets'[j].key
        <5>1. CASE j = src
          <6>1. \A l \in 0 .. n - 1 :
                  l # i /\ buckets2[l].dib > 0 => buckets2[l].key # buckets2[i].key
            BY <1>2, <1>5 DEF Distinct
          <6>. QED
            BY <1>6, <3>6, <4>1, <4>2, <5>1, <6>1
        <5>2. CASE j # src
          <6>1. buckets'[j] = buckets[j]
            BY <1>2, <3>5, <5>2
          <6>. QED
            BY <1>3, <1>6, <4>1, <4>3, <5>2, <6>1
        <5>. QED
          BY <5>1, <5>2
      <4>. QED
        BY <4>3
    <3>. QED
      BY <3>2, <3>3, <3>4, <3>5, <3>6, <3>7, <3>8
  <2>2. CASE buckets2[i].dib >= buckets[src].dib
    <3>1. buckets2' = buckets2 /\ buckets' = [buckets EXCEPT ![src] = Further(buckets[src])]
      BY <1>5, <2>2 DEF PlaceOn
    <3>2. /\ OnWay(buckets2, n, Further(buckets[src]), (i + 1) % n)
          /\ Further(buckets[src]) \in Bucket
      BY <1>2, <1>5, <1>6, <2>2, Passed
    <3>3. /\ Table(buckets', nbuckets) /\ buckets'[src] = Further(buckets[src])
          /\ \A j \in 0 .. nbuckets - 1 : j # src => buckets'[j] = buckets[j]
      BY <1>2, <3>1, <3>2 DEF Table
    <3>4. buckets'[src].dib > 0 /\ buckets'[src].key = buckets[src].key
      BY <1>5, <3>3 DEF Further, Bucket
    <3>5. \A j \in src .. nbuckets - 1 :
            buckets'[j].key = buckets[j].key /\ (buckets'[j].dib > 0 => buckets[j].dib > 0)
      BY <1>2, <1>5, <3>3, <3>4
    <3>6. Distinct(buckets', src .. nbuckets - 1)
      BY <1>2, <3>5 DEF Distinct
    <3>7. Apart(buckets', buckets2')
      BY <1>3, <3>1, <3>5
    <3>. QED
      BY <1>2, <3>1, <3>2, <3>3, <3>4, <3>6, <3>7
  <2>. QED
    BY <1>5, <2>1, <2>2
<1>8. nbuckets' = nbuckets /\ Size(buckets2') = n /\ Size(buckets2)' = n
  BY <1>2, <1>7, TableSize DEF Table, nbuckets
<1>9. Rest(buckets', src) = Rest(buckets, src)
  BY <1>2, <1>5, <1>7 DEF Rest, Occupied, Table
<1>10. Moving'
  BY <1>2, <1>4, <1>7, <1>8, <1>9 DEF Moving
<1>11. Types'
  BY <1>2, <1>4, <1>7, <1>8 DEF IInv, Types, Table
<1>12. Sizes'
  BY <1>1, <1>2, <1>4, <1>8 DEF IInv, Sizes, n
<1>13. Thresholds'
  BY <1>1, <1>4, <1>8 DEF IInv, Thresholds, n
<1>14. Fresh' /\ Deleting' /\ Whole' /\ Setting' /\ Shifting'
  BY <1>1, <1>4 DEF IInv, Fresh, Deleting, Whole, Setting, Shifting, Resizing
<1>. QED
  BY <1>10, <1>11, <1>12, <1>13, <1>14 DEF IInv

----------------------------------------------------------------------------
(* The invariant and what it says *)

(* A new table satisfies the invariant. *)
LEMMA Initial ==
  ASSUME Init
  PROVE  IInv
<1>1. MinBuckets \in Nat /\ MinBuckets >= 2
  BY BucketAssumption
<1>2. /\ Table(EmptyTable(MinBuckets), MinBuckets)
      /\ Ways(EmptyTable(MinBuckets), MinBuckets, MinBuckets)
      /\ Distinct(EmptyTable(MinBuckets), 0 .. MinBuckets - 1)
  BY <1>1, EmptyTables
<1>3. Size(EmptyTable(MinBuckets)) = MinBuckets
  BY <1>1, EmptyTables
<1>4. Occupied(EmptyTable(MinBuckets)) = {}
  BY <1>1, EmptyTables
<1>5. buckets = EmptyTable(MinBuckets) /\ nbuckets = MinBuckets /\ pc = "idle" /\ ~Resizing
  BY <1>3 DEF Init, nbuckets, Resizing
<1>6. Types
  BY <1>2, <1>5, NoTableFacts DEF Init, Types, Found, Empty, Bucket
<1>7. Sizes
  BY <1>1, <1>5, DoubledFacts DEF Init, Sizes
<1>8. Thresholds
  BY <1>1, <1>5, ThresholdFacts DEF Init, Thresholds
<1>9. Whole
  BY <1>2, <1>4, <1>5, FS_EmptySet DEF Init, Whole
<1>10. Fresh /\ Deleting /\ Setting /\ Shifting /\ Moving
  BY <1>5 DEF Fresh, Deleting, Setting, Shifting, Moving
<1>. QED
  BY <1>6, <1>7, <1>8, <1>9, <1>10 DEF IInv

(* A step that changes nothing keeps it. *)
LEMMA Stuttering ==
  ASSUME IInv, UNCHANGED vars
  PROVE  IInv'
<1>1. nbuckets' = nbuckets /\ (Resizing' <=> Resizing) /\ Size(buckets2)' = Size(buckets2)
  BY DEF vars, table, nbuckets, Resizing, Size
<1>. QED
  BY <1>1 DEF IInv, Types, Sizes, Thresholds, Fresh, Deleting, Whole, Setting, Shifting,
              Moving, vars, table

(* The invariant holds at every step of every call. *)
LEMMA Invariance == Spec => []IInv
<1>1. Init => IInv
  BY Initial
<1>2. IInv /\ [Next]_vars => IInv'
  <2>. SUFFICES ASSUME IInv, [Next]_vars PROVE IInv'
    OBVIOUS
  <2>1. CASE UNCHANGED vars
    BY <2>1, Stuttering
  <2>2. CASE Loop
    BY <2>2, SearchKeeps, SetEmptyKeeps, SetReplaceKeeps, SetOnKeeps, DeleteFoundKeeps,
       ShiftKeeps, ShiftDoneKeeps, GrowKeeps, ShrinkKeeps, MoveNextKeeps, PlaceKeeps,
       PlaceOnKeeps, MoveDoneKeeps DEF Loop
  <2>3. CASE Clear
    BY <2>3, ClearKeeps
  <2>4. ASSUME NEW k \in Keys, Get(k) \/ Delete(k) \/ \E v \in Values : Set(k, v)
        PROVE  IInv'
    BY <2>4, SearchStarts, SetStarts
  <2>. QED
    BY <2>1, <2>2, <2>3, <2>4 DEF Next
<1>. QED
  BY <1>1, <1>2, PTL DEF Spec

(* Every variable of the hash table has its type, at every step of its     *)
(* calls.                                                                  *)
THEOREM TypesKept == Spec => []TypeOK
<1>1. IInv => TypeOK
  <2>. SUFFICES ASSUME IInv PROVE TypeOK
    OBVIOUS
  <2>1. /\ nbuckets \in Nat /\ nbuckets >= 2 /\ Types /\ Sizes /\ Thresholds
        /\ buckets \in [0 .. nbuckets - 1 -> Bucket]
    BY Tables DEF IInv, Table
  <2>2. growat \in Nat /\ shrinkat \in Nat
    <3>1. GrowAt(nbuckets) \in Nat /\ (nbuckets * 75) \div 100 \in Nat /\ ShrinkAt(nbuckets) \in Nat
      BY <2>1, ThresholdFacts
    <3>2. growat \in {GrowAt(nbuckets), (nbuckets * 75) \div 100} /\ shrinkat = ShrinkAt(nbuckets)
      BY <2>1 DEF Thresholds
    <3>. QED
      BY <3>1, <3>2
  <2>3. DOMAIN buckets = 0 .. nbuckets - 1 /\ DOMAIN buckets2 = 0 .. Size(buckets2) - 1
    BY <2>1 DEF Types
  <2>4. cap \in Nat /\ count \in Nat /\ src \in Nat
    BY <2>1 DEF Types, Sizes, Thresholds
  <2>. QED
    BY <2>1, <2>2, <2>3, <2>4 DEF TypeOK, Types
<1>. QED
  BY <1>1, Invariance, PTL

(* Whatever is set, deleted and moved, every item is as far from its slot  *)
(* as its dib says and the way from its slot to it is filled, so that a    *)
(* search may stop at an empty bucket.                                     *)
THEOREM OrderKept == Spec => []Ordered
<1>1. IInv => Ordered
  <2>. SUFFICES ASSUME IInv, pc # "shift"
       PROVE  RobinHood(IF pc \in {"move", "place"} THEN buckets2 ELSE buckets)
    BY DEF Ordered
  <2>1. CASE Resizing
    <3>1. Table(buckets2, Size(buckets2)) /\ Ways(buckets2, Size(buckets2), Size(buckets2))
      BY <2>1, ToMove
    <3>2. RobinHood(buckets2)
      BY <3>1, WaysAreOrder
    <3>. QED
      BY <2>1, <3>2 DEF Resizing
  <2>2. CASE ~Resizing
    <3>1. Table(buckets, nbuckets) /\ Ways(buckets, nbuckets, nbuckets)
      BY <2>2, Tables DEF IInv, Whole
    <3>2. RobinHood(buckets)
      BY <3>1, WaysAreOrder
    <3>. QED
      BY <2>2, <3>2 DEF Resizing
  <2>. QED
    BY <2>1, <2>2
<1>. QED
  BY <1>1, Invariance, PTL

(* Between two calls the count is that of the items and of their keys, the *)
(* table is not full and is never smaller than a new one.                  *)
THEOREM ItemsCounted == Spec => []CountIsItems
<1>1. IInv => CountIsItems
  <2>. SUFFICES ASSUME IInv, Quiet
       PROVE  /\ count = Cardinality(Occupied(buckets))
              /\ count = Cardinality({buckets[j].key : j \in Occupied(buckets)})
              /\ count <= growat /\ growat < nbuckets
              /\ nbuckets >= cap
    BY DEF CountIsItems
  <2>1. ~Resizing /\ pc # "shift" /\ nbuckets \in Nat /\ nbuckets >= 2 /\ Table(buckets, nbuckets)
    BY Tables DEF Quiet, Resizing
  <2>2. count = Cardinality(Occupied(buckets)) /\ Distinct(buckets, 0 .. nbuckets - 1)
    BY <2>1 DEF IInv, Whole
  <2>3. Cardinality({buckets[j].key : j \in Occupied(buckets)}) = Cardinality(Occupied(buckets))
    BY <2>1, <2>2, KeysCounted
  <2>4. count <= growat /\ growat < nbuckets
    BY <2>1, ThresholdFacts DEF IInv, Thresholds
  <2>5. nbuckets >= cap
    BY <2>1, DoubledFacts DEF IInv, Sizes
  <2>. QED
    BY <2>2, <2>3, <2>4, <2>5
<1>. QED
  BY <1>1, Invariance, PTL

----------------------------------------------------------------------------
(* The map: what else is true of the calls that run *)

(* Buckets without an item have no value, but for the hole h. *)
Blank(b, h) == \A j \in DOMAIN b : j # h /\ b[j].dib = 0 => b[j].value = NoValue

Blanks ==
  /\ ~Resizing /\ pc # "shift" => Blank(buckets, nbuckets)
  /\ pc = "shift" => Blank(buckets, i)
  /\ Resizing => Blank(buckets2, Size(buckets2))

(* the call in progress *)
Calling ==
  /\ pc = "idle" => call = NoCall /\ result = Found(NoValue)
  /\ pc # "idle" => call \in Map!Calls
  /\ pc = "get" => call.name = "get"
  /\ pc \in {"set", "grow"} => call.name = "set"

(* A search has not seen its key. *)
Searching ==
  pc \in {"get", "delete"} =>
    \E d \in Nat \ {0} :
      /\ i = At(call.key, d, nbuckets)
      /\ \A e \in 1 .. d - 1 : buckets[At(call.key, e, nbuckets)].key # call.key

(* A set has seen no empty bucket; once its item is placed, that item is   *)
(* behind it, and the item in hand is not in the table.                    *)
Walk(m) ==
  /\ i = At(call.key, m, nbuckets)
  /\ \A d \in 1 .. m - 1 : buckets[At(call.key, d, nbuckets)].dib > 0
  /\ Placed => \E d \in 1 .. m - 1 : buckets[At(call.key, d, nbuckets)].key = call.key

Carrying ==
  /\ pc = "grow" \/ (Resizing /\ call.name = "set") => entry.value = call.value
  /\ pc = "set" /\ ~Placed => entry.value = call.value
  /\ Placed => \A j \in 0 .. nbuckets - 1 : buckets[j].dib > 0 => buckets[j].key # entry.key
  /\ pc = "set" => \E m \in Nat \ {0} : Walk(m)

MInv == Blanks /\ Calling /\ Searching /\ Carrying

----------------------------------------------------------------------------
(* Sets of items *)

(* what a set of items says of a key *)
Value(X, k) ==
  IF \E item \in X : item.key = k THEN (CHOOSE item \in X : item.key = k).value ELSE NoValue

Unique(X) == \A x, y \in X : x.key = y.key => x = y

Item(e) == [key |-> e.key, value |-> e.value]

(* With one item for each key the value is that of the item. *)
LEMMA ValueIs ==
  ASSUME NEW X, NEW k
  PROVE  /\ \A x \in X : Unique(X) /\ x.key = k => Value(X, k) = x.value
         /\ (\A x \in X : x.key # k) => Value(X, k) = NoValue
<1>1. ASSUME NEW x \in X, Unique(X), x.key = k PROVE Value(X, k) = x.value
  <2>. DEFINE y == CHOOSE item \in X : item.key = k
  <2>1. y \in X /\ y.key = k
    BY <1>1
  <2>2. y = x
    BY <1>1, <2>1 DEF Unique
  <2>. QED
    BY <1>1, <2>2 DEF Value
<1>2. ASSUME \A x \in X : x.key # k PROVE Value(X, k) = NoValue
  BY <1>2 DEF Value
<1>. QED
  BY <1>1, <1>2

(* Two sets with the same items of a key give it the same value. *)
LEMMA SameValue ==
  ASSUME NEW X, NEW Y, Unique(X), Unique(Y), NEW k,
         \A x : x.key = k => (x \in X <=> x \in Y)
  PROVE  Value(X, k) = Value(Y, k)
<1>1. CASE \E x \in X : x.key = k
  BY <1>1, ValueIs
<1>2. CASE \A x \in X : x.key # k
  BY <1>2, ValueIs
<1>. QED
  BY <1>1, <1>2

(* A new item. *)
LEMMA ItemAdded ==
  ASSUME NEW X, Unique(X), NEW x, \A y \in X : y.key # x.key
  PROVE  /\ Unique(X \cup {x})
         /\ Value(X, x.key) = NoValue
         /\ \A k : Value(X \cup {x}, k) = IF k = x.key THEN x.value ELSE Value(X, k)
<1>1. Unique(X \cup {x})
  BY DEF Unique
<1>2. Value(X, x.key) = NoValue
  BY ValueIs
<1>3. ASSUME NEW k PROVE Value(X \cup {x}, k) = IF k = x.key THEN x.value ELSE Value(X, k)
  <2>1. CASE k = x.key
    BY <1>1, <2>1, ValueIs
  <2>2. CASE k # x.key
    <3>1. \A y : y.key = k => (y \in X <=> y \in X \cup {x})
      BY <2>2
    <3>. QED
      BY <1>1, <2>2, <3>1, SameValue
  <2>. QED
    BY <2>1, <2>2
<1>. QED
  BY <1>1, <1>2, <1>3

(* An item less. *)
LEMMA ItemRemoved ==
  ASSUME NEW X, Unique(X), NEW x \in X
  PROVE  /\ Unique(X \ {x}) /\ \A y \in X \ {x} : y.key # x.key
         /\ Value(X, x.key) = x.value
         /\ \A k : Value(X \ {x}, k) = IF k = x.key THEN NoValue ELSE Value(X, k)
<1>1. Unique(X \ {x}) /\ \A y \in X \ {x} : y.key # x.key
  BY DEF Unique
<1>2. Value(X, x.key) = x.value
  BY ValueIs
<1>3. ASSUME NEW k PROVE Value(X \ {x}, k) = IF k = x.key THEN NoValue ELSE Value(X, k)
  <2>1. CASE k = x.key
    BY <1>1, <2>1, ValueIs
  <2>2. CASE k # x.key
    <3>1. \A y : y.key = k => (y \in X <=> y \in X \ {x})
      BY <2>2
    <3>. QED
      BY <1>1, <2>2, <3>1, SameValue
  <2>. QED
    BY <2>1, <2>2
<1>. QED
  BY <1>1, <1>2, <1>3

----------------------------------------------------------------------------
(* The items of a table *)

(* The items of a table are those of its occupied buckets. *)
LEMMA ResidentIs ==
  ASSUME NEW b, NEW from, NEW x
  PROVE  x \in Resident(b, from) <=>
           \E j \in DOMAIN b : b[j].dib > 0 /\ j >= from /\ x = Item(b[j])
BY DEF Resident, Occupied, Item

(* Distinct items are unique. *)
LEMMA ResidentUnique ==
  ASSUME NEW n, NEW b, Table(b, n), NEW from \in Nat, Distinct(b, from .. n - 1)
  PROVE  Unique(Resident(b, from))
<1>1. n \in Nat /\ DOMAIN b = 0 .. n - 1
  BY DEF Table
<1>. SUFFICES ASSUME NEW x \in Resident(b, from), NEW y \in Resident(b, from), x.key = y.key
     PROVE  x = y
  BY DEF Unique
<1>2. PICK j \in DOMAIN b : b[j].dib > 0 /\ j >= from /\ x = Item(b[j])
  BY ResidentIs
<1>3. PICK l \in DOMAIN b : b[l].dib > 0 /\ l >= from /\ y = Item(b[l])
  BY ResidentIs
<1>4. x.key = b[j].key /\ y.key = b[l].key
  BY <1>2, <1>3 DEF Item
<1>5. j \in from .. n - 1 /\ l \in from .. n - 1
  BY <1>1, <1>2, <1>3
<1>. QED
  BY <1>2, <1>3, <1>4, <1>5 DEF Distinct

(* The item of one bucket is replaced by another. *)
LEMMA ResidentReplaced ==
  ASSUME NEW n, NEW b, Table(b, n), NEW c, Table(c, n), NEW p \in 0 .. n - 1, NEW item, c[p] = item,
         item.dib # 0, \A j \in 0 .. n - 1 : j # p => c[j] = b[j]
  PROVE  /\ b[p].dib = 0 => Resident(c, 0) = Resident(b, 0) \cup {Item(item)}
         /\ b[p].dib # 0 =>
              /\ Resident(c, 0) \cup {Item(b[p])} = Resident(b, 0) \cup {Item(item)}
              /\ Item(b[p]) \in Resident(b, 0)
<1>1. /\ n \in Nat /\ DOMAIN b = 0 .. n - 1 /\ DOMAIN c = 0 .. n - 1
      /\ \A j \in 0 .. n - 1 : b[j].dib \in Nat /\ c[j].dib \in Nat
      /\ item.dib > 0
  BY DEF Table, Bucket
<1>2. \A x : x \in Resident(c, 0) <=>
        x = Item(item) \/ \E j \in 0 .. n - 1 : j # p /\ b[j].dib > 0 /\ x = Item(b[j])
  <2>. SUFFICES ASSUME NEW x
       PROVE  x \in Resident(c, 0) <=>
                x = Item(item) \/ \E j \in 0 .. n - 1 : j # p /\ b[j].dib > 0 /\ x = Item(b[j])
    OBVIOUS
  <2>1. x \in Resident(c, 0) <=> \E j \in 0 .. n - 1 : c[j].dib > 0 /\ x = Item(c[j])
    BY <1>1, ResidentIs
  <2>. QED
    BY <1>1, <2>1
<1>3. \A x : x \in Resident(b, 0) <=>
        (b[p].dib > 0 /\ x = Item(b[p]))
          \/ \E j \in 0 .. n - 1 : j # p /\ b[j].dib > 0 /\ x = Item(b[j])
  BY <1>1, ResidentIs
<1>4. ASSUME b[p].dib = 0 PROVE Resident(c, 0) = Resident(b, 0) \cup {Item(item)}
  <2>1. \A x : x \in Resident(c, 0) <=> x \in Resident(b, 0) \cup {Item(item)}
    BY <1>2, <1>3, <1>4
  <2>. QED
    BY <2>1
<1>5. ASSUME b[p].dib # 0
      PROVE  /\ Resident(c, 0) \cup {Item(b[p])} = Resident(b, 0) \cup {Item(item)}
             /\ Item(b[p]) \in Resident(b, 0)
  <2>1. b[p].dib > 0
    BY <1>1, <1>5
  <2>. QED
    BY <1>2, <1>3, <2>1
<1>. QED
  BY <1>4, <1>5

(* The first item of those to be moved, and the others. *)
LEMMA ResidentFirst ==
  ASSUME NEW n, NEW b, Table(b, n), NEW p \in 0 .. n - 1
  PROVE  /\ b[p].dib = 0 => Resident(b, p) = Resident(b, p + 1)
         /\ b[p].dib # 0 => Resident(b, p) = Resident(b, p + 1) \cup {Item(b[p])}
<1>1. n \in Nat /\ DOMAIN b = 0 .. n - 1 /\ \A j \in 0 .. n - 1 : b[j].dib \in Nat
  BY DEF Table, Bucket
<1>2. \A x : x \in Resident(b, p) <=>
        (b[p].dib > 0 /\ x = Item(b[p]))
          \/ \E j \in 0 .. n - 1 : j >= p + 1 /\ b[j].dib > 0 /\ x = Item(b[j])
  BY <1>1, ResidentIs
<1>3. \A x : x \in Resident(b, p + 1) <=>
        \E j \in 0 .. n - 1 : j >= p + 1 /\ b[j].dib > 0 /\ x = Item(b[j])
  BY <1>1, ResidentIs
<1>4. CASE b[p].dib = 0
  BY <1>2, <1>3, <1>4
<1>5. CASE b[p].dib # 0
  <2>1. b[p].dib > 0
    BY <1>1, <1>5
  <2>. QED
    BY <1>2, <1>3, <1>5, <2>1
<1>. QED
  BY <1>4, <1>5

(* Buckets that are the same hold the same items. *)
LEMMA ResidentSame ==
  ASSUME NEW n, NEW b, NEW c, Table(b, n), Table(c, n), NEW from \in Nat,
         \A j \in 0 .. n - 1 : j >= from =>
           (b[j].dib > 0 <=> c[j].dib > 0) /\ (b[j].dib > 0 => Item(b[j]) = Item(c[j]))
  PROVE  Resident(b, from) = Resident(c, from)
<1>1. /\ n \in Nat /\ DOMAIN b = 0 .. n - 1 /\ DOMAIN c = 0 .. n - 1
      /\ \A j \in 0 .. n - 1 : b[j].dib \in Nat /\ c[j].dib \in Nat
  BY DEF Table, Bucket
<1>2. ASSUME NEW x PROVE x \in Resident(b, from) <=> x \in Resident(c, from)
  <2>1. x \in Resident(b, from) <=>
          \E j \in 0 .. n - 1 : b[j].dib > 0 /\ j >= from /\ x = Item(b[j])
    BY <1>1, ResidentIs
  <2>2. x \in Resident(c, from) <=>
          \E j \in 0 .. n - 1 : c[j].dib > 0 /\ j >= from /\ x = Item(c[j])
    BY <1>1, ResidentIs
  <2>. QED
    BY <1>1, <2>1, <2>2
<1>. QED
  BY <1>2

(* the items outside the hole *)
Outside(b, h) == {Item(b[j]) : j \in But(b, h)}

(* They are those of the occupied buckets but the hole. *)
LEMMA OutsideIs ==
  ASSUME NEW b, NEW h, NEW x
  PROVE  x \in Outside(b, h) <=> \E j \in DOMAIN b : j # h /\ b[j].dib > 0 /\ x = Item(b[j])
BY DEF Outside, But, Occupied

(* An item that is taken out is no more among the items. *)
LEMMA OutsideTaken ==
  ASSUME NEW n, NEW b, NEW c, Table(b, n), Table(c, n), Distinct(b, 0 .. n - 1),
         NEW h \in 0 .. n - 1, b[h].dib # 0, \A j \in 0 .. n - 1 : j # h => c[j] = b[j]
  PROVE  /\ Outside(c, h) = Resident(b, 0) \ {Item(b[h])}
         /\ Item(b[h]) \in Resident(b, 0)
<1>1. /\ n \in Nat /\ DOMAIN b = 0 .. n - 1 /\ DOMAIN c = 0 .. n - 1
      /\ \A j \in 0 .. n - 1 : b[j].dib \in Nat
  BY DEF Table, Bucket
<1>2. \A x : x \in Outside(c, h) <=> \E j \in 0 .. n - 1 : j # h /\ b[j].dib > 0 /\ x = Item(b[j])
  <2>. SUFFICES ASSUME NEW x
       PROVE  x \in Outside(c, h) <=>
                \E j \in 0 .. n - 1 : j # h /\ b[j].dib > 0 /\ x = Item(b[j])
    OBVIOUS
  <2>1. x \in Outside(c, h) <=> \E j \in 0 .. n - 1 : j # h /\ c[j].dib > 0 /\ x = Item(c[j])
    BY <1>1, OutsideIs
  <2>. QED
    BY <2>1
<1>3. \A x : x \in Resident(b, 0) <=> \E j \in 0 .. n - 1 : b[j].dib > 0 /\ x = Item(b[j])
  BY <1>1, ResidentIs
<1>4. Item(b[h]) \in Resident(b, 0)
  BY <1>1, <1>3
<1>5. \A j \in 0 .. n - 1 : j # h /\ b[j].dib > 0 => Item(b[j]) # Item(b[h])
  <2>. SUFFICES ASSUME NEW j \in 0 .. n - 1, j # h, b[j].dib > 0 PROVE b[j].key # b[h].key
    BY DEF Item
  <2>1. b[h].dib > 0
    BY <1>1
  <2>. QED
    BY <2>1 DEF Distinct
<1>6. \A x : x \in Outside(c, h) <=> x \in Resident(b, 0) \ {Item(b[h])}
  <2>. SUFFICES ASSUME NEW x
       PROVE  x \in Outside(c, h) <=> (x \in Resident(b, 0) /\ x # Item(b[h]))
    OBVIOUS
  <2>1. ASSUME x \in Outside(c, h) PROVE x \in Resident(b, 0) /\ x # Item(b[h])
    BY <1>2, <1>3, <1>5, <2>1
  <2>2. ASSUME x \in Resident(b, 0), x # Item(b[h]) PROVE x \in Outside(c, h)
    BY <1>2, <1>3, <2>2
  <2>. QED
    BY <2>1, <2>2
<1>. QED
  BY <1>4, <1>6

(* An item that moves into the hole is still there. *)
LEMMA OutsideMoved ==
  ASSUME NEW n, NEW b, NEW c, Table(b, n), Table(c, n),
         NEW h \in 0 .. n - 1, NEW s \in 0 .. n - 1, s # h,
         b[s].dib > 0, c[h].dib > 0, Item(c[h]) = Item(b[s]),
         \A j \in 0 .. n - 1 : j # h => c[j] = b[j]
  PROVE  Outside(c, s) = Outside(b, h)
<1>1. /\ n \in Nat /\ DOMAIN b = 0 .. n - 1 /\ DOMAIN c = 0 .. n - 1
      /\ \A j \in 0 .. n - 1 : b[j].dib \in Nat /\ c[j].dib \in Nat
  BY DEF Table, Bucket
<1>2. ASSUME NEW x PROVE x \in Outside(c, s) <=> x \in Outside(b, h)
  <2>1. x \in Outside(c, s) <=> \E j \in 0 .. n - 1 : j # s /\ c[j].dib > 0 /\ x = Item(c[j])
    <3>1. x \in Outside(c, s) <=> \E j \in DOMAIN c : j # s /\ c[j].dib > 0 /\ x = Item(c[j])
      BY OutsideIs
    <3>. QED
      BY <1>1, <3>1
  <2>2. x \in Outside(b, h) <=> \E j \in 0 .. n - 1 : j # h /\ b[j].dib > 0 /\ x = Item(b[j])
    <3>1. x \in Outside(b, h) <=> \E j \in DOMAIN b : j # h /\ b[j].dib > 0 /\ x = Item(b[j])
      BY OutsideIs
    <3>. QED
      BY <1>1, <3>1
  <2>3. ASSUME x \in Outside(c, s) PROVE x \in Outside(b, h)
    <3>1. PICK j \in 0 .. n - 1 : j # s /\ c[j].dib > 0 /\ x = Item(c[j])
      BY <2>1, <2>3
    <3>2. CASE j = h
      BY <2>2, <3>1, <3>2
    <3>3. CASE j # h
      BY <2>2, <3>1, <3>3
    <3>. QED
      BY <3>2, <3>3
  <2>4. ASSUME x \in Outside(b, h) PROVE x \in Outside(c, s)
    <3>1. PICK j \in 0 .. n - 1 : j # h /\ b[j].dib > 0 /\ x = Item(b[j])
      BY <2>2, <2>4
    <3>2. CASE j = s
      BY <2>1, <3>1, <3>2
    <3>3. CASE j # s
      BY <2>1, <3>1, <3>3
    <3>. QED
      BY <3>2, <3>3
  <2>. QED
    BY <2>3, <2>4
<1>. QED
  BY <1>2

(* The items outside the hole are those of the table with the hole closed. *)
LEMMA OutsideClosed ==
  ASSUME NEW n, NEW b, NEW c, Table(b, n), Table(c, n), NEW h \in 0 .. n - 1, c[h].dib = 0,
         \A j \in 0 .. n - 1 : j # h => c[j] = b[j]
  PROVE  Resident(c, 0) = Outside(b, h)
<1>1. /\ n \in Nat /\ DOMAIN b = 0 .. n - 1 /\ DOMAIN c = 0 .. n - 1
      /\ \A j \in 0 .. n - 1 : b[j].dib \in Nat /\ c[j].dib \in Nat
  BY DEF Table, Bucket
<1>2. ASSUME NEW x PROVE x \in Resident(c, 0) <=> x \in Outside(b, h)
  <2>1. x \in Resident(c, 0) <=> \E j \in 0 .. n - 1 : c[j].dib > 0 /\ x = Item(c[j])
    BY <1>1, ResidentIs
  <2>2. x \in Outside(b, h) <=> \E j \in 0 .. n - 1 : j # h /\ b[j].dib > 0 /\ x = Item(b[j])
    BY <1>1, OutsideIs
  <2>. QED
    BY <1>1, <2>1, <2>2
<1>. QED
  BY <1>2

----------------------------------------------------------------------------
(* Steps of the map *)

(* The items, by the place the call is at, before a step and after it. *)
LEMMA ItemsAre ==
  /\ Resizing => Items = Resident(buckets2, 0) \cup Resident(buckets, src)
  /\ pc = "shift" => Items = Outside(buckets, i)
  /\ Placed => Items = Resident(buckets, 0) \cup {Item(entry)}
  /\ ~Resizing /\ pc # "shift" /\ ~Placed => Items = Resident(buckets, 0)
BY DEF Items, Resizing, Placed, InHand, Item, Outside, But

(* The same after a step. *)
LEMMA ItemsBecome ==
  /\ Resizing' => Items' = Resident(buckets2', 0) \cup Resident(buckets', src')
  /\ pc' = "shift" => Items' = Outside(buckets', i')
  /\ Placed' => Items' = Resident(buckets', 0) \cup {Item(entry')}
  /\ ~Resizing' /\ pc' # "shift" /\ ~Placed' => Items' = Resident(buckets', 0)
BY DEF Items, Resizing, Placed, InHand, Item, Outside, But

(* What is known of the result. *)
LEMMA OutcomeIs ==
  /\ pc \in {"idle", "return", "shift", "shrink"} => Outcome = result
  /\ Resizing /\ call.name = "delete" => Outcome = result
  /\ Resizing /\ call.name # "delete" => Outcome = Map!Pending
  /\ pc \in {"get", "delete", "grow"} => Outcome = Map!Pending
  /\ pc = "set" /\ ~Placed => Outcome = Map!Pending
  /\ Placed => Outcome = Found(NoValue)
BY DEF Outcome, Settled, Placed, Resizing, Map!Pending

(* The same after a step. *)
LEMMA OutcomeBecomes ==
  /\ pc' \in {"idle", "return", "shift", "shrink"} => Outcome' = result'
  /\ Resizing' /\ call'.name = "delete" => Outcome' = result'
  /\ Resizing' /\ call'.name # "delete" => Outcome' = Map!Pending
  /\ pc' \in {"get", "delete", "grow"} => Outcome' = Map!Pending
  /\ pc' = "set" /\ ~Placed' => Outcome' = Map!Pending
  /\ Placed' => Outcome' = Found(NoValue)
BY DEF Outcome, Settled, Placed, Resizing, Map!Pending, Found

(* The map gives every key the value its item has. *)
LEMMA ContentsAre ==
  /\ Contents = [k \in Keys |-> Value(Items, k)]
  /\ Contents' = [k \in Keys |-> Value(Items', k)]
BY DEF Contents, Lookup, Value

(* Nothing happens to the map. *)
LEMMA Stutters ==
  ASSUME Items' = Items, call' = call, Outcome' = Outcome
  PROVE  UNCHANGED Map!vars
BY ContentsAre DEF Map!vars

(* A call takes effect. *)
LEMMA TakesEffect ==
  ASSUME call \in Map!Calls, call' = call, Outcome = Map!Pending,
         Outcome' = Found(Value(Items, call.key)),
         \A k \in Keys : Value(Items', k) =
           CASE call.name = "set" -> (IF k = call.key THEN call.value ELSE Value(Items, k))
             [] call.name = "delete" -> (IF k = call.key THEN NoValue ELSE Value(Items, k))
             [] call.name = "get" -> Value(Items, k)
  PROVE  Map!Next
<1>1. call # NoCall /\ call.key \in Keys /\ call.name \in {"get", "set", "delete"}
  BY CallAssumption DEF Map!Calls
<1>2. Outcome' = [value |-> Contents[call.key], oom |-> FALSE]
  BY <1>1, ContentsAre DEF Found
<1>3. CASE call.name = "set"
  <2>1. Contents' = [Contents EXCEPT ![call.key] = call.value]
    BY <1>1, <1>3, ContentsAre
  <2>. QED
    BY <1>1, <1>2, <1>3, <2>1 DEF Map!Next, Map!Effect
<1>4. CASE call.name = "delete"
  <2>1. Contents' = [Contents EXCEPT ![call.key] = NoValue]
    BY <1>1, <1>4, ContentsAre
  <2>. QED
    BY <1>1, <1>2, <1>4, <2>1 DEF Map!Next, Map!Effect
<1>5. CASE call.name = "get"
  <2>1. Contents' = Contents
    BY <1>1, <1>5, ContentsAre
  <2>. QED
    BY <1>1, <1>2, <1>5, <2>1 DEF Map!Next, Map!Effect
<1>. QED
  BY <1>1, <1>3, <1>4, <1>5

(* The items of a table without holes. *)
LEMMA WholeItems ==
  ASSUME IInv, ~Resizing, pc # "shift"
  PROVE  /\ nbuckets \in Nat /\ nbuckets >= 2 /\ Table(buckets, nbuckets)
         /\ Ways(buckets, nbuckets, nbuckets) /\ Distinct(buckets, 0 .. nbuckets - 1)
         /\ Unique(Resident(buckets, 0))
<1>1. /\ nbuckets \in Nat /\ nbuckets >= 2 /\ Table(buckets, nbuckets)
      /\ Ways(buckets, nbuckets, nbuckets) /\ Distinct(buckets, 0 .. nbuckets - 1)
  BY Tables DEF IInv, Whole
<1>. QED
  BY <1>1, ResidentUnique

----------------------------------------------------------------------------
(* Searches *)

(* Two different places on the way of a key, less than a table apart, are  *)
(* different buckets.                                                      *)
LEMMA Ahead ==
  ASSUME NEW n \in Nat \ {0}, NEW k \in Keys, NEW d \in Nat \ {0}, NEW m \in Nat,
         d < m, m - d < n
  PROVE  At(k, d, n) # At(k, m, n)
<1>. DEFINE a == Hash[k] + d - 1
            b == Hash[k] + m - 1
<1>1. a \in Nat /\ b \in Nat /\ a < b /\ b < a + n
  BY HashAssumption
<1>. HIDE DEF a, b
<1>2. PICK p \in Nat : a = n * p + (a % n)
  BY <1>1, Division
<1>3. PICK q \in Nat : b = n * q + (b % n)
  BY <1>1, Division
<1>4. a % n \in Nat /\ b % n \in Nat
  BY <1>1, Division
<1>5. n * p \in Nat /\ n * q \in Nat
  OBVIOUS
<1>6. ASSUME a % n = b % n PROVE FALSE
  <2>1. n * p < n * q /\ n * q < n * p + n
    BY <1>1, <1>2, <1>3, <1>4, <1>5, <1>6
  <2>2. CASE p < q
    BY <2>1, <2>2, <1>5, ProductGap
  <2>3. CASE q < p
    BY <2>1, <2>3, <1>5, ProductGap
  <2>4. CASE p = q
    BY <2>1, <2>4, <1>5
  <2>. QED
    BY <2>2, <2>3, <2>4
<1>. QED
  BY <1>6 DEF At, a, b

(* The way of a key leads through the whole table. *)
LEMMA Everywhere ==
  ASSUME NEW n \in Nat \ {0}, NEW k \in Keys, NEW j \in 0 .. n - 1
  PROVE  \E d \in 1 .. n : At(k, d, n) = j
<1>. DEFINE h == Hash[k]
            q == h \div n
            r == h % n
<1>1. h \in Nat /\ q \in Nat /\ r \in 0 .. n - 1 /\ h = n * q + r
  BY HashAssumption, Division
<1>2. h = Hash[k]
  OBVIOUS
<1>. HIDE DEF h, q, r
<1>3. CASE j >= r
  <2>1. j - r + 1 \in 1 .. n
    BY <1>1, <1>3
  <2>2. h + (j - r + 1) - 1 = n * q + j
    BY <1>1
  <2>3. h + (j - r + 1) - 1 \in Nat
    BY <1>1, <1>3
  <2>4. (h + (j - r + 1) - 1) % n = j
    BY <1>1, <2>2, <2>3, Remainder
  <2>. QED
    BY <1>2, <2>1, <2>4 DEF At
<1>4. CASE j < r
  <2>1. j - r + n + 1 \in 1 .. n
    BY <1>1, <1>4
  <2>2. h + (j - r + n + 1) - 1 = n * (q + 1) + j
    BY <1>1
  <2>3. h + (j - r + n + 1) - 1 \in Nat /\ q + 1 \in Nat
    BY <1>1, <2>1
  <2>4. (h + (j - r + n + 1) - 1) % n = j
    BY <1>1, <2>2, <2>3, Remainder
  <2>. QED
    BY <1>2, <2>1, <2>4 DEF At
<1>. QED
  BY <1>1, <1>3, <1>4

(* A search that meets an empty bucket has its answer: the key is not in   *)
(* the table.                                                              *)
LEMMA SearchEnds ==
  ASSUME NEW n, NEW b, Table(b, n), Ways(b, n, n), NEW k \in Keys, NEW d \in Nat \ {0},
         \A e \in 1 .. d - 1 : b[At(k, e, n)].key # k,
         b[At(k, d, n)].dib = 0
  PROVE  \A j \in 0 .. n - 1 : b[j].dib > 0 => b[j].key # k
<1>1. n \in Nat \ {0} /\ \A j \in 0 .. n - 1 : b[j].dib \in Nat
  BY DEF Table, Bucket
<1>. SUFFICES ASSUME NEW j \in 0 .. n - 1, b[j].dib > 0, b[j].key = k PROVE FALSE
  OBVIOUS
<1>2. /\ j = At(k, b[j].dib, n)
      /\ \A x \in 1 .. b[j].dib : At(k, x, n) # n => b[At(k, x, n)].dib >= x
  <2>1. j # n
    BY <1>1
  <2>. QED
    BY <2>1 DEF Ways
<1>3. CASE b[j].dib < d
  <2>1. b[j].dib \in 1 .. d - 1
    BY <1>1, <1>3
  <2>. QED
    BY <1>2, <2>1
<1>4. CASE b[j].dib >= d
  <2>1. d \in 1 .. b[j].dib
    BY <1>1, <1>4
  <2>2. At(k, d, n) \in 0 .. n - 1
    BY <1>1, AtFacts
  <2>3. b[At(k, d, n)].dib >= d
    BY <1>1, <1>2, <2>1, <2>2
  <2>. QED
    BY <1>1, <2>2, <2>3
<1>. QED
  BY <1>1, <1>3, <1>4

(* A walk over occupied buckets is shorter than a table with room is long. *)
LEMMA WalkIsShort ==
  ASSUME NEW n, NEW b, Table(b, n), Cardinality(Occupied(b)) < n,
         NEW k \in Keys, NEW m \in Nat \ {0},
         \A d \in 1 .. m - 1 : b[At(k, d, n)].dib > 0
  PROVE  m <= n
<1>1. n \in Nat \ {0} /\ DOMAIN b = 0 .. n - 1
  BY DEF Table
<1>. SUFFICES ASSUME m > n PROVE FALSE
  BY <1>1
<1>2. ASSUME NEW j \in 0 .. n - 1 PROVE j \in Occupied(b)
  <2>1. PICK d \in 1 .. n : At(k, d, n) = j
    BY <1>1, Everywhere
  <2>2. d \in 1 .. m - 1
    BY <1>1
  <2>. QED
    BY <1>1, <2>1, <2>2 DEF Occupied
<1>3. Occupied(b) = 0 .. n - 1
  BY <1>1, <1>2 DEF Occupied
<1>4. Cardinality(0 .. n - 1) = n
  BY <1>1, FS_Interval
<1>. QED
  BY <1>1, <1>3, <1>4

----------------------------------------------------------------------------
(* Every step of the table is a step of the map, or none *)

Simulates == Map!Next \/ UNCHANGED Map!vars

(* A key that no bucket has is not among the items. *)
LEMMA NoItem ==
  ASSUME NEW n, NEW b, Table(b, n), NEW k,
         \A j \in 0 .. n - 1 : b[j].dib > 0 => b[j].key # k
  PROVE  \A x \in Resident(b, 0) : x.key # k
<1>. SUFFICES ASSUME NEW x \in Resident(b, 0) PROVE x.key # k
  OBVIOUS
<1>1. PICK j \in DOMAIN b : b[j].dib > 0 /\ x = Item(b[j])
  BY ResidentIs
<1>. QED
  BY <1>1 DEF Table, Item

(* Where a search ends is the answer. *)
LEMMA Answer ==
  ASSUME IInv, MInv, pc \in {"get", "delete"}, Ends(buckets[i])
  PROVE  /\ buckets[i].value = Value(Resident(buckets, 0), call.key)
         /\ buckets[i].dib = 0 => buckets[i].value = NoValue
<1>1. ~Resizing /\ pc # "shift" /\ i \in 0 .. nbuckets - 1
  BY DEF Resizing, IInv, Types
<1>2. /\ nbuckets \in Nat /\ Table(buckets, nbuckets) /\ DOMAIN buckets = 0 .. nbuckets - 1
      /\ Ways(buckets, nbuckets, nbuckets)
      /\ Unique(Resident(buckets, 0)) /\ buckets[i].dib \in Nat
  BY <1>1, WholeItems DEF Table, Bucket
<1>3. call.key \in Keys
  BY DEF MInv, Calling, Map!Calls
<1>4. CASE buckets[i].dib = 0
  <2>1. PICK d \in Nat \ {0} :
          /\ i = At(call.key, d, nbuckets)
          /\ \A e \in 1 .. d - 1 : buckets[At(call.key, e, nbuckets)].key # call.key
    BY DEF MInv, Searching
  <2>2. \A j \in 0 .. nbuckets - 1 : buckets[j].dib > 0 => buckets[j].key # call.key
    BY <1>2, <1>3, <1>4, <2>1, SearchEnds
  <2>3. Value(Resident(buckets, 0), call.key) = NoValue
    <3>1. \A x \in Resident(buckets, 0) : x.key # call.key
      BY <1>2, <2>2, NoItem
    <3>. QED
      BY <3>1, ValueIs
  <2>4. buckets[i].value = NoValue
    BY <1>1, <1>2, <1>4 DEF MInv, Blanks, Blank
  <2>. QED
    BY <2>3, <2>4
<1>5. CASE buckets[i].dib # 0
  <2>1. buckets[i].dib > 0 /\ buckets[i].key = call.key
    BY <1>2, <1>5 DEF Ends
  <2>2. Item(buckets[i]) \in Resident(buckets, 0)
    BY <1>1, <1>2, <2>1, ResidentIs
  <2>3. Item(buckets[i]).key = call.key /\ Item(buckets[i]).value = buckets[i].value
    BY <2>1 DEF Item
  <2>. QED
    BY <1>2, <1>5, <2>2, <2>3, ValueIs
<1>. QED
  BY <1>4, <1>5

(* A search goes on. *)
LEMMA SearchOnSimulates ==
  ASSUME IInv, MInv, SearchOn
  PROVE  MInv' /\ Simulates
<1>1. /\ pc \in {"get", "delete"} /\ pc' = pc /\ ~Resizing /\ ~Resizing'
      /\ pc # "shift" /\ ~Placed /\ ~Placed' /\ buckets' = buckets /\ nbuckets' = nbuckets
      /\ call' = call /\ i' = Succ(i, buckets) /\ ~Ends(buckets[i])
      /\ i \in 0 .. nbuckets - 1
  BY DEF SearchOn, Resizing, Placed, table, nbuckets, IInv, Types
<1>2. Simulates
  <2>1. Items' = Items
    BY <1>1, ItemsAre, ItemsBecome
  <2>2. Outcome' = Outcome
    BY <1>1, OutcomeIs, OutcomeBecomes
  <2>. QED
    BY <1>1, <2>1, <2>2, Stutters DEF Simulates
<1>3. Searching'
  <2>1. PICK d \in Nat \ {0} :
          /\ i = At(call.key, d, nbuckets)
          /\ \A e \in 1 .. d - 1 : buckets[At(call.key, e, nbuckets)].key # call.key
    BY <1>1 DEF MInv, Searching
  <2>2. call.key \in Keys /\ nbuckets \in Nat \ {0} /\ Size(buckets) = nbuckets
    BY <1>1, Tables DEF MInv, Calling, Map!Calls
  <2>3. i' = At(call.key, d + 1, nbuckets)
    BY <1>1, <2>1, <2>2, AtFacts DEF Succ
  <2>4. ASSUME NEW e \in 1 .. (d + 1) - 1
        PROVE  buckets[At(call.key, e, nbuckets)].key # call.key
    <3>1. CASE e = d
      BY <1>1, <2>1, <3>1 DEF Ends
    <3>2. CASE e # d
      <4>1. e \in 1 .. d - 1
        BY <3>2
      <4>. QED
        BY <2>1, <4>1
    <3>. QED
      BY <3>1, <3>2
  <2>. QED
    BY <1>1, <2>3, <2>4 DEF Searching
<1>4. Blanks' /\ Calling' /\ Carrying'
  BY <1>1 DEF MInv, Blanks, Calling, Carrying
<1>. QED
  BY <1>2, <1>3, <1>4 DEF MInv

(* A get ends. *)
LEMMA GetEndsSimulates ==
  ASSUME IInv, MInv, GetEnds
  PROVE  MInv' /\ Simulates
<1>1. /\ pc = "get" /\ pc' = "return" /\ ~Resizing /\ ~Resizing'
      /\ ~Placed /\ ~Placed' /\ buckets' = buckets /\ nbuckets' = nbuckets
      /\ call' = call /\ result' = Found(buckets[i].value) /\ Ends(buckets[i])
      /\ call \in Map!Calls /\ call.name = "get"
  BY DEF GetEnds, Resizing, Placed, table, nbuckets, MInv, Calling
<1>2. Items = Resident(buckets, 0) /\ Items' = Items
  BY <1>1, ItemsAre, ItemsBecome
<1>3. Outcome = Map!Pending /\ Outcome' = Found(Value(Items, call.key))
  BY <1>1, <1>2, OutcomeIs, OutcomeBecomes, Answer
<1>4. Simulates
  BY <1>1, <1>2, <1>3, TakesEffect DEF Simulates
<1>5. MInv'
  BY <1>1 DEF MInv, Blanks, Calling, Searching, Carrying
<1>. QED
  BY <1>4, <1>5

(* A delete finds nothing. *)
LEMMA DeleteAbsentSimulates ==
  ASSUME IInv, MInv, DeleteAbsent
  PROVE  MInv' /\ Simulates
<1>1. /\ pc = "delete" /\ pc' = "return" /\ ~Resizing /\ ~Resizing'
      /\ ~Placed /\ ~Placed' /\ buckets' = buckets /\ nbuckets' = nbuckets
      /\ call' = call /\ result' = Found(NoValue) /\ Ends(buckets[i]) /\ buckets[i].dib = 0
      /\ call \in Map!Calls /\ call.name = "delete"
  BY DEF DeleteAbsent, Resizing, Placed, table, nbuckets, IInv, Deleting, MInv, Calling, Ends
<1>2. Items = Resident(buckets, 0) /\ Items' = Items
  BY <1>1, ItemsAre, ItemsBecome
<1>3. Value(Items, call.key) = NoValue
  BY <1>1, <1>2, Answer
<1>4. Outcome = Map!Pending /\ Outcome' = Found(Value(Items, call.key))
  BY <1>1, <1>3, OutcomeIs, OutcomeBecomes
<1>5. Simulates
  BY <1>1, <1>2, <1>3, <1>4, TakesEffect DEF Simulates
<1>6. MInv'
  BY <1>1 DEF MInv, Blanks, Calling, Searching, Carrying
<1>. QED
  BY <1>5, <1>6

(* A call returns. *)
LEMMA ReturnSimulates ==
  ASSUME IInv, MInv, Return
  PROVE  MInv' /\ Simulates
<1>1. /\ pc = "return" /\ pc' = "idle" /\ ~Resizing /\ ~Resizing'
      /\ ~Placed /\ ~Placed' /\ buckets' = buckets /\ nbuckets' = nbuckets
      /\ call' = NoCall /\ result' = Found(NoValue)
      /\ call \in Map!Calls /\ result \in [value : Values \cup {NoValue}, oom : BOOLEAN]
  BY DEF Return, Resizing, Placed, table, nbuckets, IInv, Types, MInv, Calling
<1>2. Contents' = Contents
  BY <1>1, ItemsAre, ItemsBecome, ContentsAre
<1>3. Outcome = result /\ Outcome' = Map!None
  BY <1>1, OutcomeIs, OutcomeBecomes DEF Map!None, Found
<1>4. result # Map!Pending
  <2>1. result.value # NoCall
    BY <1>1, ValueAssumption
  <2>. QED
    BY <2>1 DEF Map!Pending
<1>5. call # NoCall
  BY <1>1, CallAssumption DEF Map!Calls
<1>6. Simulates
  BY <1>1, <1>2, <1>3, <1>4, <1>5 DEF Simulates, Map!Next, Map!Return
<1>7. MInv'
  BY <1>1 DEF MInv, Blanks, Calling, Searching, Carrying
<1>. QED
  BY <1>6, <1>7

(* A get or a delete starts. *)
LEMMA SearchStartsSimulates ==
  ASSUME IInv, MInv, NEW k \in Keys, Get(k) \/ Delete(k)
  PROVE  MInv' /\ Simulates
<1>1. /\ pc = "idle" /\ pc' \in {"get", "delete"} /\ ~Resizing /\ ~Resizing'
      /\ ~Placed /\ ~Placed' /\ buckets' = buckets /\ nbuckets' = nbuckets
      /\ call = NoCall /\ call' = [name |-> pc', key |-> k, value |-> NoValue]
      /\ i' = Slot(k, buckets)
  BY DEF Get, Delete, Resizing, Placed, table, nbuckets, MInv, Calling
<1>2. call' \in Map!Calls /\ call'.key = k /\ call'.name = pc'
  BY <1>1 DEF Map!Calls
<1>3. Contents' = Contents
  BY <1>1, ItemsAre, ItemsBecome, ContentsAre
<1>4. Outcome' = Map!Pending
  BY <1>1, OutcomeBecomes
<1>5. Simulates
  BY <1>1, <1>2, <1>3, <1>4 DEF Simulates, Map!Next, Map!Start
<1>6. Searching'
  <2>1. i' = At(k, 1, nbuckets)
    <3>1. Slot(k, buckets) = At(k, 1, nbuckets)
      BY Tables, AtFacts DEF Slot
    <3>. QED
      BY <1>1, <3>1
  <2>2. i' = At(call'.key, 1, nbuckets')
         /\ \A e \in 1 .. 1 - 1 : buckets'[At(call'.key, e, nbuckets')].key # call'.key
    BY <1>1, <1>2, <2>1
  <2>. QED
    BY <2>2 DEF Searching
<1>7. Blanks' /\ Calling' /\ Carrying'
  BY <1>1, <1>2 DEF MInv, Blanks, Calling, Carrying
<1>. QED
  BY <1>5, <1>6, <1>7 DEF MInv

(* A set starts. *)
LEMMA SetStartsSimulates ==
  ASSUME IInv, MInv, NEW k \in Keys, NEW v \in Values, Set(k, v)
  PROVE  MInv' /\ Simulates
<1>1. /\ pc = "idle" /\ pc' \in {"grow", "set"} /\ ~Resizing /\ ~Resizing'
      /\ buckets' = buckets /\ nbuckets' = nbuckets
      /\ call = NoCall /\ call' = [name |-> "set", key |-> k, value |-> v]
      /\ entry'.key = k /\ entry'.value = v
      /\ pc' = "set" => i' = Slot(k, buckets)
  BY DEF Set, SetStart, Resizing, table, nbuckets, MInv, Calling
<1>2. call' \in Map!Calls /\ call'.key = k /\ call'.name = "set" /\ call'.value = v
  BY <1>1 DEF Map!Calls
<1>3. ~Placed /\ ~Placed'
  BY <1>1, <1>2 DEF Placed
<1>4. Contents' = Contents
  BY <1>1, <1>3, ItemsAre, ItemsBecome, ContentsAre
<1>5. Outcome' = Map!Pending
  BY <1>1, <1>3, OutcomeBecomes
<1>6. Simulates
  BY <1>1, <1>2, <1>4, <1>5 DEF Simulates, Map!Next, Map!Start
<1>7. Carrying'
  <2>1. Slot(k, buckets) = At(k, 1, nbuckets)
    BY Tables, AtFacts DEF Slot
  <2>2. ASSUME pc' = "set" PROVE Walk(1)'
    BY <1>1, <1>2, <1>3, <2>1, <2>2 DEF Walk
  <2>. QED
    BY <1>1, <1>2, <1>3, <2>2 DEF Carrying
<1>8. Blanks' /\ Calling' /\ Searching'
  BY <1>1, <1>2 DEF MInv, Blanks, Calling, Searching
<1>. QED
  BY <1>6, <1>7, <1>8 DEF MInv

(* What a set has in hand. *)
LEMMA InHandOfSet ==
  ASSUME IInv, MInv, pc = "set"
  PROVE  /\ ~Resizing /\ i \in 0 .. nbuckets - 1
         /\ call \in Map!Calls /\ call.name = "set" /\ call.key \in Keys
         /\ entry \in Bucket /\ entry.dib \in Nat \ {0} /\ OnWay(buckets, nbuckets, entry, i)
         /\ Cardinality(Occupied(buckets)) < nbuckets
         /\ Placed => /\ \A j \in 0 .. nbuckets - 1 :
                           buckets[j].dib > 0 => buckets[j].key # entry.key
                      /\ entry.key # call.key
         /\ ~Placed => entry.key = call.key /\ entry.value = call.value
<1>1. /\ ~Resizing /\ i \in 0 .. nbuckets - 1 /\ entry \in Bucket
      /\ OnWay(buckets, nbuckets, entry, i)
  BY DEF IInv, Types, Setting, Resizing
<1>2. entry.dib \in Nat \ {0}
  BY <1>1 DEF OnWay, Bucket
<1>3. call \in Map!Calls /\ call.name = "set" /\ call.key \in Keys
  BY DEF MInv, Calling, Map!Calls
<1>4. Cardinality(Occupied(buckets)) < nbuckets
  <2>1. /\ nbuckets \in Nat /\ nbuckets >= 2 /\ count = Cardinality(Occupied(buckets))
        /\ count < growat /\ count \in Nat
        /\ growat \in {GrowAt(nbuckets), (nbuckets * 75) \div 100}
    BY <1>1, Tables DEF IInv, Whole, Thresholds
  <2>2. growat < nbuckets /\ growat \in Nat
    BY <2>1, ThresholdFacts
  <2>. QED
    BY <2>1, <2>2
<1>5. Placed <=> entry.key # call.key
  BY DEF Placed
<1>. QED
  BY <1>1, <1>2, <1>3, <1>4, <1>5 DEF MInv, Carrying

(* The item in hand gets an empty bucket. *)
LEMMA SetEmptySimulates ==
  ASSUME IInv, MInv, SetEmpty
  PROVE  MInv' /\ Simulates
<1>. DEFINE R == Resident(buckets, 0)
<1>1. /\ pc = "set" /\ pc' = "return" /\ ~Resizing /\ ~Resizing' /\ ~Placed'
      /\ buckets[i].dib = 0 /\ call' = call /\ result' = Found(NoValue)
      /\ buckets' = [buckets EXCEPT ![i] = entry]
  BY DEF SetEmpty, Resizing, Placed
<1>2. /\ nbuckets \in Nat /\ Table(buckets, nbuckets) /\ Unique(R)
      /\ Ways(buckets, nbuckets, nbuckets)
      /\ i \in 0 .. nbuckets - 1 /\ entry \in Bucket /\ entry.dib \in Nat \ {0}
      /\ OnWay(buckets, nbuckets, entry, i)
      /\ call \in Map!Calls /\ call.name = "set" /\ call.key \in Keys
  BY <1>1, WholeItems, InHandOfSet
<1>3. /\ Table(buckets', nbuckets) /\ nbuckets' = nbuckets
      /\ buckets'[i] = entry /\ \A j \in 0 .. nbuckets - 1 : j # i => buckets'[j] = buckets[j]
  BY <1>1, <1>2 DEF Table, nbuckets, Size
<1>4. Resident(buckets', 0) = R \cup {Item(entry)}
  <2>1. entry.dib # 0 /\ buckets[i].dib = 0
    BY <1>1, <1>2
  <2>. HIDE DEF R
  <2>2. R = Resident(buckets, 0)
    BY DEF R
  <2>3. Resident(buckets', 0) = Resident(buckets, 0) \cup {Item(entry)}
    BY <1>2, <1>3, <2>1, ResidentReplaced
  <2>. QED
    BY <2>2, <2>3
<1>5. Items' = R \cup {Item(entry)}
  BY <1>1, <1>4, ItemsBecome
<1>6. Outcome' = Found(NoValue)
  BY <1>1, OutcomeBecomes
<1>7. ASSUME Placed PROVE Simulates
  <2>1. Items' = Items
    BY <1>5, <1>7, ItemsAre
  <2>2. Outcome' = Outcome
    BY <1>6, <1>7, OutcomeIs
  <2>. QED
    BY <1>1, <2>1, <2>2, Stutters DEF Simulates
<1>8. ASSUME ~Placed PROVE Simulates
  <2>1. Items = R /\ Outcome = Map!Pending
    BY <1>1, <1>8, ItemsAre, OutcomeIs
  <2>2. entry.key = call.key /\ entry.value = call.value
    BY <1>1, <1>8, InHandOfSet
  <2>3. \A j \in 0 .. nbuckets - 1 : buckets[j].dib > 0 => buckets[j].key # entry.key
    <3>1. buckets[i].dib < entry.dib
      BY <1>1, <1>2
    <3>. QED
      BY <1>2, <3>1, Absent
  <2>4. Item(entry).key = call.key /\ Item(entry).value = call.value
    BY <2>2 DEF Item
  <2>5. \A y \in R : y.key # Item(entry).key
    <3>1. \A y \in R : y.key # entry.key
      BY <1>2, <2>3, NoItem
    <3>. QED
      BY <2>2, <2>4, <3>1
  <2>. HIDE DEF R
  <2>6. /\ Value(R, call.key) = NoValue
        /\ \A k : Value(R \cup {Item(entry)}, k) =
             IF k = call.key THEN call.value ELSE Value(R, k)
    <3>1. \A x : (\A y \in R : y.key # x.key) =>
            /\ Value(R, x.key) = NoValue
            /\ \A k : Value(R \cup {x}, k) = IF k = x.key THEN x.value ELSE Value(R, k)
      BY <1>2, ItemAdded
    <3>. QED
      BY <2>4, <2>5, <3>1
  <2>7. Map!Next
    BY <1>1, <1>2, <1>5, <1>6, <2>1, <2>6, TakesEffect
  <2>. QED
    BY <2>7 DEF Simulates
<1>9. MInv'
  <2>1. Calling' /\ Searching' /\ Carrying'
    BY <1>1, <1>2 DEF Calling, Searching, Carrying
  <2>2. Blanks'
    <3>1. Blank(buckets, nbuckets)
      BY <1>1 DEF MInv, Blanks
    <3>2. Blank(buckets', nbuckets)
      BY <1>2, <1>3, <3>1 DEF Blank, Table
    <3>. QED
      BY <1>1, <1>3, <3>2 DEF Blanks
  <2>. QED
    BY <2>1, <2>2 DEF MInv
<1>. QED
  BY <1>7, <1>8, <1>9

(* The item of the key gets the new value. *)
LEMMA SetReplaceSimulates ==
  ASSUME IInv, MInv, SetReplace
  PROVE  MInv' /\ Simulates
<1>1. /\ pc = "set" /\ pc' = "return" /\ ~Resizing /\ ~Resizing' /\ ~Placed'
      /\ buckets[i].dib # 0 /\ buckets[i].key = entry.key
      /\ call' = call /\ result' = Found(buckets[i].value)
      /\ buckets' = [buckets EXCEPT ![i].value = entry.value]
  BY DEF SetReplace, Resizing, Placed
<1>2. /\ nbuckets \in Nat /\ Table(buckets, nbuckets) /\ Unique(Resident(buckets, 0))
      /\ Distinct(buckets, 0 .. nbuckets - 1)
      /\ i \in 0 .. nbuckets - 1 /\ entry \in Bucket
      /\ call \in Map!Calls /\ call.name = "set" /\ call.key \in Keys
      /\ \A j \in 0 .. nbuckets - 1 : buckets[j].dib \in Nat
  BY <1>1, WholeItems, InHandOfSet DEF Table, Bucket
<1>3. ~Placed /\ entry.key = call.key /\ entry.value = call.value
  <2>1. buckets[i].dib > 0
    BY <1>1, <1>2
  <2>. QED
    BY <1>1, <1>2, <2>1, InHandOfSet
<1>4. /\ Table(buckets', nbuckets) /\ nbuckets' = nbuckets
      /\ buckets'[i].dib = buckets[i].dib /\ buckets'[i].key = buckets[i].key
      /\ buckets'[i].value = call.value
      /\ \A j \in 0 .. nbuckets - 1 : j # i => buckets'[j] = buckets[j]
  BY <1>1, <1>2, <1>3 DEF Table, nbuckets, Size, Bucket
<1>5. Items = Resident(buckets, 0) /\ Items' = Resident(buckets', 0)
      /\ Outcome = Map!Pending /\ Outcome' = Found(buckets[i].value)
  BY <1>1, <1>3, ItemsAre, ItemsBecome, OutcomeIs, OutcomeBecomes
<1>6. /\ Item(buckets[i]) \in Resident(buckets, 0)
      /\ Resident(buckets', 0) \cup {Item(buckets[i])} =
           Resident(buckets, 0) \cup {Item(buckets'[i])}
  <2>1. buckets[i].dib # 0 /\ buckets'[i].dib # 0
    BY <1>1, <1>4
  <2>. QED
    BY <1>2, <1>4, <2>1, ResidentReplaced
<1>7. Item(buckets'[i]) \in Resident(buckets', 0)
  <2>1. i \in DOMAIN buckets' /\ buckets'[i].dib > 0
    BY <1>1, <1>2, <1>4 DEF Table
  <2>. QED
    BY <1>2, <2>1, ResidentIs
<1>8. Unique(Resident(buckets', 0))
  <2>1. Distinct(buckets', 0 .. nbuckets - 1)
    BY <1>2, <1>4 DEF Distinct
  <2>. QED
    BY <1>4, <2>1, ResidentUnique
<1>9. /\ Item(buckets[i]).key = call.key /\ Item(buckets[i]).value = buckets[i].value
      /\ Item(buckets'[i]).key = call.key /\ Item(buckets'[i]).value = call.value
  BY <1>1, <1>3, <1>4 DEF Item
<1>10. Value(Items, call.key) = buckets[i].value /\ Value(Items', call.key) = call.value
  BY <1>2, <1>5, <1>6, <1>7, <1>8, <1>9, ValueIs
<1>11. ASSUME NEW k, k # call.key PROVE Value(Items', k) = Value(Items, k)
  <2>1. \A x : x.key = k => (x \in Resident(buckets', 0) <=> x \in Resident(buckets, 0))
    BY <1>6, <1>9, <1>11
  <2>. QED
    BY <1>2, <1>5, <1>8, <2>1, SameValue
<1>12. Map!Next
  BY <1>1, <1>2, <1>5, <1>10, <1>11, TakesEffect
<1>13. Blanks'
  <2>1. Blank(buckets, nbuckets)
    BY <1>1 DEF MInv, Blanks
  <2>2. Blank(buckets', nbuckets)
    BY <1>1, <1>2, <1>4, <2>1 DEF Blank, Table
  <2>. QED
    BY <1>1, <1>4, <2>2 DEF Blanks
<1>14. Calling' /\ Searching' /\ Carrying'
  BY <1>1, <1>2 DEF Calling, Searching, Carrying
<1>. QED
  BY <1>12, <1>13, <1>14 DEF MInv, Simulates

(* The item in hand goes on past one that is as far from its slot. *)
LEMMA SetPassSimulates ==
  ASSUME IInv, MInv, SetOn, buckets[i].dib >= entry.dib
  PROVE  MInv' /\ Simulates
<1>1. /\ nbuckets \in Nat /\ nbuckets >= 2 /\ Table(buckets, nbuckets) /\ Size(buckets) = nbuckets
      /\ pc = "set" /\ pc' = "set" /\ ~Resizing /\ ~Resizing'
      /\ call' = call /\ call \in Map!Calls /\ call.name = "set" /\ call.key \in Keys
      /\ i \in 0 .. nbuckets - 1 /\ i' = Succ(i, buckets)
      /\ buckets[i].dib \in Nat \ {0} /\ entry.dib \in Nat \ {0}
  BY Tables, InHandOfSet DEF SetOn, Resizing, Table, Bucket
<1>2. buckets' = buckets /\ nbuckets' = nbuckets /\ entry' = Further(entry)
  BY <1>1 DEF SetOn, nbuckets
<1>3. entry'.key = entry.key /\ entry'.value = entry.value
  BY <1>1, <1>2, InHandOfSet DEF Further, Bucket
<1>4. Placed' <=> Placed
  BY <1>1, <1>3 DEF Placed
<1>5. Simulates
  <2>1. Item(entry') = Item(entry)
    BY <1>3 DEF Item
  <2>2. Items' = Items
    BY <1>1, <1>2, <1>4, <2>1, ItemsAre, ItemsBecome
  <2>3. Outcome' = Outcome
    BY <1>1, <1>4, OutcomeIs, OutcomeBecomes
  <2>. QED
    BY <1>1, <2>2, <2>3, Stutters DEF Simulates
<1>6. Carrying'
  <2>1. PICK m \in Nat \ {0} : Walk(m)
    BY <1>1 DEF MInv, Carrying
  <2>2. /\ i = At(call.key, m, nbuckets)
        /\ \A d \in 1 .. m - 1 : buckets[At(call.key, d, nbuckets)].dib > 0
        /\ Placed => \E d \in 1 .. m - 1 : buckets[At(call.key, d, nbuckets)].key = call.key
    BY <2>1 DEF Walk
  <2>3. i' = At(call.key, m + 1, nbuckets)
    BY <1>1, <2>2, AtFacts DEF Succ
  <2>4. ASSUME NEW d \in 1 .. (m + 1) - 1
        PROVE  buckets[At(call.key, d, nbuckets)].dib > 0
    <3>1. CASE d = m
      BY <1>1, <2>2, <3>1
    <3>2. CASE d # m
      <4>1. d \in 1 .. m - 1
        BY <3>2
      <4>. QED
        BY <2>2, <4>1
    <3>. QED
      BY <3>1, <3>2
  <2>5. \A d \in 1 .. m - 1 : d \in 1 .. (m + 1) - 1
    OBVIOUS
  <2>6. Walk(m + 1)'
    BY <1>1, <1>2, <1>4, <2>2, <2>3, <2>4, <2>5 DEF Walk
  <2>7. m + 1 \in Nat \ {0}
    OBVIOUS
  <2>. QED
    BY <1>1, <1>2, <1>3, <1>4, <2>6, <2>7 DEF MInv, Carrying
<1>7. Blanks' /\ Calling' /\ Searching'
  BY <1>1, <1>2 DEF MInv, Blanks, Calling, Searching
<1>. QED
  BY <1>5, <1>6, <1>7 DEF MInv

(* The item of the call is never displaced again: it is behind the item in *)
(* hand, and before an empty bucket.                                       *)
LEMMA PlacedStays ==
  ASSUME IInv, MInv, Placed, buckets[i].dib > 0, NEW m \in Nat \ {0}, Walk(m)
  PROVE  /\ buckets[i].key # call.key
         /\ \E d \in 1 .. m - 1 :
              At(call.key, d, nbuckets) # i /\ buckets[At(call.key, d, nbuckets)].key = call.key
<1>1. /\ pc = "set" /\ ~Resizing /\ pc # "shift"
  BY DEF Placed, Resizing
<1>2. /\ nbuckets \in Nat \ {0} /\ Table(buckets, nbuckets) /\ Distinct(buckets, 0 .. nbuckets - 1)
      /\ i \in 0 .. nbuckets - 1 /\ call.key \in Keys
      /\ Cardinality(Occupied(buckets)) < nbuckets
  BY <1>1, WholeItems, InHandOfSet
<1>3. /\ i = At(call.key, m, nbuckets)
      /\ \A d \in 1 .. m - 1 : buckets[At(call.key, d, nbuckets)].dib > 0
      /\ \E d \in 1 .. m - 1 : buckets[At(call.key, d, nbuckets)].key = call.key
  BY DEF Walk
<1>4. PICK d \in 1 .. m - 1 : buckets[At(call.key, d, nbuckets)].key = call.key
  BY <1>3
<1>5. m <= nbuckets
  BY <1>2, <1>3, WalkIsShort
<1>6. d \in Nat \ {0} /\ d < m /\ m - d < nbuckets
  BY <1>2, <1>5
<1>7. At(call.key, d, nbuckets) # i
  BY <1>2, <1>3, <1>6, Ahead
<1>8. buckets[i].key # call.key
  <2>1. At(call.key, d, nbuckets) \in 0 .. nbuckets - 1
    BY <1>2, <1>6, AtFacts
  <2>2. buckets[At(call.key, d, nbuckets)].dib > 0
    BY <1>3
  <2>. QED
    BY <1>2, <1>4, <1>7, <2>1, <2>2 DEF Distinct
<1>. QED
  BY <1>4, <1>7, <1>8

(* The item in hand displaces one that is nearer to its slot. *)
LEMMA SetSwapSimulates ==
  ASSUME IInv, MInv, SetOn, buckets[i].dib < entry.dib
  PROVE  MInv' /\ Simulates
<1>. DEFINE R == Resident(buckets, 0)
<1>1. /\ pc = "set" /\ pc' = "set" /\ ~Resizing /\ ~Resizing' /\ pc # "shift"
      /\ call' = call /\ buckets[i].dib # 0 /\ buckets[i].key # entry.key
  BY DEF SetOn, Resizing
<1>2. /\ nbuckets \in Nat /\ nbuckets >= 2 /\ Table(buckets, nbuckets) /\ Size(buckets) = nbuckets
      /\ Ways(buckets, nbuckets, nbuckets) /\ Distinct(buckets, 0 .. nbuckets - 1) /\ Unique(R)
      /\ call \in Map!Calls /\ call.name = "set" /\ call.key \in Keys
      /\ i \in 0 .. nbuckets - 1 /\ i' = Succ(i, buckets)
      /\ OnWay(buckets, nbuckets, entry, i) /\ entry \in Bucket
      /\ buckets[i].dib \in Nat \ {0} /\ entry.dib \in Nat \ {0}
      /\ buckets[i] \in Bucket
  BY <1>1, Tables, WholeItems, InHandOfSet DEF SetOn, Table, Bucket
<1>3. buckets' = [buckets EXCEPT ![i] = entry] /\ entry' = Further(buckets[i])
  BY <1>2 DEF SetOn
<1>4. entry'.key = buckets[i].key /\ entry'.value = buckets[i].value
  BY <1>2, <1>3 DEF Further, Bucket
<1>5. /\ Table(buckets', nbuckets) /\ nbuckets' = nbuckets
      /\ buckets'[i] = entry /\ \A j \in 0 .. nbuckets - 1 : j # i => buckets'[j] = buckets[j]
  BY <1>2, <1>3 DEF Table, nbuckets, Size
<1>6. \A j \in 0 .. nbuckets - 1 : buckets[j].dib > 0 => buckets[j].key # entry.key
  BY <1>2, Absent
<1>7. PICK m \in Nat \ {0} : Walk(m)
  BY <1>1 DEF MInv, Carrying
<1>8. /\ i = At(call.key, m, nbuckets)
      /\ \A d \in 1 .. m - 1 : buckets[At(call.key, d, nbuckets)].dib > 0
  BY <1>7 DEF Walk
<1>9. buckets[i].key # call.key
  <2>1. CASE Placed
    <3>1. buckets[i].dib > 0
      BY <1>2
    <3>. QED
      BY <1>7, <2>1, <3>1, PlacedStays
  <2>2. CASE ~Placed
    BY <1>1, <2>2, InHandOfSet
  <2>. QED
    BY <2>1, <2>2
<1>10. Placed'
  BY <1>1, <1>4, <1>9 DEF Placed
<1>11. Items' = R \cup {Item(entry)}
  <2>1. Item(entry') = Item(buckets[i])
    BY <1>4 DEF Item
  <2>2. entry.dib # 0
    BY <1>2
  <2>3. Resident(buckets', 0) \cup {Item(buckets[i])} = Resident(buckets, 0) \cup {Item(entry)}
    BY <1>1, <1>2, <1>5, <2>2, ResidentReplaced
  <2>4. Items' = Resident(buckets', 0) \cup {Item(entry')}
    BY <1>10, ItemsBecome
  <2>. QED
    BY <2>1, <2>3, <2>4
<1>12. Outcome' = Found(NoValue)
  BY <1>10, OutcomeBecomes
<1>13. ASSUME Placed PROVE Simulates
  <2>1. Items' = Items
    BY <1>11, <1>13, ItemsAre
  <2>2. Outcome' = Outcome
    BY <1>12, <1>13, OutcomeIs
  <2>. QED
    BY <1>1, <2>1, <2>2, Stutters DEF Simulates
<1>14. ASSUME ~Placed PROVE Simulates
  <2>1. Items = R /\ Outcome = Map!Pending
    BY <1>1, <1>14, ItemsAre, OutcomeIs
  <2>2. entry.key = call.key /\ entry.value = call.value
    BY <1>1, <1>14, InHandOfSet
  <2>3. Item(entry).key = call.key /\ Item(entry).value = call.value
    BY <2>2 DEF Item
  <2>4. \A y \in R : y.key # Item(entry).key
    <3>1. \A y \in R : y.key # entry.key
      BY <1>2, <1>6, NoItem
    <3>. QED
      BY <2>2, <2>3, <3>1
  <2>. HIDE DEF R
  <2>5. /\ Value(R, call.key) = NoValue
        /\ \A k : Value(R \cup {Item(entry)}, k) =
             IF k = call.key THEN call.value ELSE Value(R, k)
    <3>1. \A x : (\A y \in R : y.key # x.key) =>
            /\ Value(R, x.key) = NoValue
            /\ \A k : Value(R \cup {x}, k) = IF k = x.key THEN x.value ELSE Value(R, k)
      BY <1>2, ItemAdded
    <3>. QED
      BY <2>3, <2>4, <3>1
  <2>6. Map!Next
    BY <1>1, <1>2, <1>11, <1>12, <2>1, <2>5, TakesEffect
  <2>. QED
    BY <2>6 DEF Simulates
<1>15. Carrying'
  <2>1. \A j \in 0 .. nbuckets - 1 : buckets'[j].dib > 0 => buckets'[j].key # entry'.key
    <3>. SUFFICES ASSUME NEW j \in 0 .. nbuckets - 1, buckets'[j].dib > 0
         PROVE  buckets'[j].key # entry'.key
      OBVIOUS
    <3>1. CASE j = i
      BY <1>1, <1>4, <1>5, <3>1
    <3>2. CASE j # i
      <4>1. buckets'[j] = buckets[j] /\ buckets[i].dib > 0
        BY <1>2, <1>5, <3>2
      <4>. QED
        BY <1>2, <1>4, <3>2, <4>1 DEF Distinct
    <3>. QED
      BY <3>1, <3>2
  <2>2. i' = At(call.key, m + 1, nbuckets)
    BY <1>2, <1>8, AtFacts DEF Succ
  <2>3. ASSUME NEW d \in 1 .. m PROVE At(call.key, d, nbuckets) \in 0 .. nbuckets - 1
    <3>1. d \in Nat \ {0} /\ nbuckets \in Nat \ {0}
      BY <1>2
    <3>. QED
      BY <1>2, <3>1, AtFacts
  <2>4. ASSUME NEW d \in 1 .. m PROVE buckets'[At(call.key, d, nbuckets)].dib > 0
    <3>1. CASE At(call.key, d, nbuckets) = i
      BY <1>2, <1>5, <3>1
    <3>2. CASE At(call.key, d, nbuckets) # i
      <4>1. d # m
        BY <1>8, <3>2
      <4>2. d \in 1 .. m - 1
        BY <4>1
      <4>. QED
        BY <1>5, <1>8, <2>3, <3>2, <4>2
    <3>. QED
      BY <3>1, <3>2
  <2>5. \E d \in 1 .. m : buckets'[At(call.key, d, nbuckets)].key = call.key
    <3>1. CASE Placed
      <4>1. PICK d \in 1 .. m - 1 :
              At(call.key, d, nbuckets) # i /\ buckets[At(call.key, d, nbuckets)].key = call.key
        <5>1. buckets[i].dib > 0
          BY <1>2
        <5>. QED
          BY <1>7, <3>1, <5>1, PlacedStays
      <4>2. d \in 1 .. m
        OBVIOUS
      <4>. QED
        BY <1>5, <2>3, <4>1, <4>2
    <3>2. CASE ~Placed
      <4>1. entry.key = call.key
        BY <1>1, <3>2, InHandOfSet
      <4>2. m \in 1 .. m
        OBVIOUS
      <4>. QED
        BY <1>5, <1>8, <4>1, <4>2
    <3>. QED
      BY <3>1, <3>2
  <2>6. (m + 1) - 1 = m /\ m + 1 \in Nat \ {0}
    OBVIOUS
  <2>7. Walk(m + 1)'
    <3>. DEFINE q == m + 1
    <3>1. q - 1 = m /\ i' = At(call.key, q, nbuckets) /\ q \in Nat \ {0}
      BY <2>2, <2>6
    <3>. HIDE DEF q
    <3>2. Walk(q)'
      BY <1>1, <1>5, <2>4, <2>5, <3>1 DEF Walk
    <3>. QED
      BY <3>2 DEF q
  <2>8. \E x \in Nat \ {0} : Walk(x)'
    BY <2>6, <2>7
  <2>. QED
    BY <1>1, <1>5, <1>10, <2>1, <2>8 DEF Carrying
<1>16. Blanks'
  <2>1. Blank(buckets, nbuckets)
    BY <1>1 DEF MInv, Blanks
  <2>2. Blank(buckets', nbuckets)
    BY <1>2, <1>5, <2>1 DEF Blank, Table
  <2>. QED
    BY <1>1, <1>5, <2>2 DEF Blanks
<1>17. Calling' /\ Searching'
  BY <1>1, <1>2 DEF Calling, Searching
<1>. QED
  BY <1>13, <1>14, <1>15, <1>16, <1>17 DEF MInv

(* The item in hand, or the one it displaces, goes on. *)
LEMMA SetOnSimulates ==
  ASSUME IInv, MInv, SetOn
  PROVE  MInv' /\ Simulates
<1>1. buckets[i].dib \in Nat /\ entry.dib \in Nat
  <2>1. pc = "set"
    BY DEF SetOn
  <2>. QED
    BY <2>1, Tables, InHandOfSet DEF Table, Bucket
<1>2. CASE buckets[i].dib < entry.dib
  BY <1>2, SetSwapSimulates
<1>3. CASE buckets[i].dib >= entry.dib
  BY <1>3, SetPassSimulates
<1>. QED
  BY <1>1, <1>2, <1>3

----------------------------------------------------------------------------
(* A deletion takes its item out at once, and then closes the hole *)

(* A deletion that finds its item removes it from the map. *)
LEMMA DeleteFoundSimulates ==
  ASSUME IInv, MInv, DeleteFound
  PROVE  MInv' /\ Simulates
<1>. DEFINE R == Resident(buckets, 0)
            x == Item(buckets[i])
<1>1. /\ pc = "delete" /\ pc' = "shift" /\ ~Resizing /\ ~Resizing' /\ ~Placed
      /\ buckets[i].dib # 0 /\ buckets[i].key = call.key
      /\ call' = call /\ i' = i /\ result' = Found(buckets[i].value)
      /\ buckets' = [buckets EXCEPT ![i].dib = 0]
  BY DEF DeleteFound, Resizing, Placed
<1>2. /\ nbuckets \in Nat /\ Table(buckets, nbuckets) /\ Unique(R)
      /\ Distinct(buckets, 0 .. nbuckets - 1)
      /\ i \in 0 .. nbuckets - 1
      /\ call \in Map!Calls /\ call.name = "delete"
  BY <1>1, WholeItems DEF IInv, Types, Deleting, MInv, Calling
<1>3. /\ Table(buckets', nbuckets)
      /\ \A j \in 0 .. nbuckets - 1 : j # i => buckets'[j] = buckets[j]
  BY <1>1, <1>2 DEF Table, Bucket
<1>4. Outside(buckets', i) = R \ {x} /\ x \in R
  <2>1. buckets[i].dib # 0
    BY <1>1
  <2>. QED
    BY <1>2, <1>3, <2>1, OutsideTaken
<1>5. Items = R /\ Items' = R \ {x}
  BY <1>1, <1>4, ItemsAre, ItemsBecome
<1>6. x.key = call.key /\ x.value = buckets[i].value
  BY <1>1 DEF Item
<1>. HIDE DEF R, x
<1>7. /\ Value(R, call.key) = buckets[i].value
      /\ \A k : Value(R \ {x}, k) = IF k = call.key THEN NoValue ELSE Value(R, k)
  <2>1. \A y \in R : /\ Value(R, y.key) = y.value
                     /\ \A k : Value(R \ {y}, k) = IF k = y.key THEN NoValue ELSE Value(R, k)
    BY <1>2, ItemRemoved
  <2>. QED
    BY <1>4, <1>6, <2>1
<1>8. Outcome = Map!Pending /\ Outcome' = Found(Value(Items, call.key))
  BY <1>1, <1>5, <1>7, OutcomeIs, OutcomeBecomes
<1>9. Map!Next
  BY <1>1, <1>2, <1>5, <1>7, <1>8, TakesEffect
<1>10. Blanks'
  <2>1. Blank(buckets, nbuckets)
    BY <1>1 DEF MInv, Blanks
  <2>2. Blank(buckets', i)
    BY <1>2, <1>3, <2>1 DEF Blank, Table
  <2>. QED
    BY <1>1, <2>2 DEF Blanks
<1>11. Calling' /\ Searching' /\ Carrying'
  BY <1>1, <1>2 DEF Calling, Searching, Carrying, Placed
<1>. QED
  BY <1>9, <1>10, <1>11 DEF MInv, Simulates

(* the table with its hole *)
LEMMA HoleIs ==
  ASSUME IInv, MInv, pc = "shift"
  PROVE  /\ ~Resizing /\ nbuckets \in Nat /\ nbuckets >= 2 /\ Table(buckets, nbuckets)
         /\ Size(buckets) = nbuckets /\ i \in 0 .. nbuckets - 1
         /\ Succ(i, buckets) \in 0 .. nbuckets - 1 /\ Succ(i, buckets) # i
         /\ call \in Map!Calls /\ call.name = "delete"
         /\ Blank(buckets, i) /\ Items = Outside(buckets, i) /\ Outcome = result
<1>1. /\ ~Resizing /\ nbuckets \in Nat /\ nbuckets >= 2 /\ Table(buckets, nbuckets)
      /\ Size(buckets) = nbuckets /\ i \in 0 .. nbuckets - 1
      /\ call \in Map!Calls /\ call.name = "delete" /\ Blank(buckets, i)
  BY Tables DEF Resizing, IInv, Types, Deleting, MInv, Calling, Blanks
<1>2. Succ(i, buckets) \in 0 .. nbuckets - 1 /\ Succ(i, buckets) # i
  BY <1>1, SuccFacts DEF Succ
<1>3. Items = Outside(buckets, i) /\ Outcome = result
  BY ItemsAre, OutcomeIs
<1>. QED
  BY <1>1, <1>2, <1>3

(* An item moves up into the hole. *)
LEMMA ShiftSimulates ==
  ASSUME IInv, MInv, Shift
  PROVE  MInv' /\ Simulates
<1>. DEFINE s == Succ(i, buckets)
<1>1. /\ pc = "shift" /\ pc' = "shift" /\ ~Resizing' /\ ~Placed'
      /\ call' = call /\ result' = result /\ i' = s /\ buckets[s].dib > 1
      /\ buckets' = [buckets EXCEPT ![i] = [buckets[s] EXCEPT !.dib = @ - 1]]
  BY DEF Shift, Resizing, Placed
<1>2. /\ nbuckets \in Nat /\ Table(buckets, nbuckets)
      /\ i \in 0 .. nbuckets - 1 /\ s \in 0 .. nbuckets - 1 /\ s # i
      /\ call \in Map!Calls /\ call.name = "delete"
      /\ Blank(buckets, i) /\ Items = Outside(buckets, i) /\ Outcome = result
  BY <1>1, HoleIs
<1>. HIDE DEF s
<1>3. /\ Table(buckets', nbuckets) /\ buckets'[i].dib > 0
      /\ buckets'[i].key = buckets[s].key /\ buckets'[i].value = buckets[s].value
      /\ \A j \in 0 .. nbuckets - 1 : j # i => buckets'[j] = buckets[j]
  <2>1. buckets[s] \in Bucket /\ buckets[s].dib \in Nat
    BY <1>2 DEF Table, Bucket
  <2>2. /\ [buckets[s] EXCEPT !.dib = @ - 1] \in Bucket
        /\ [buckets[s] EXCEPT !.dib = @ - 1].dib > 0
        /\ [buckets[s] EXCEPT !.dib = @ - 1].key = buckets[s].key
        /\ [buckets[s] EXCEPT !.dib = @ - 1].value = buckets[s].value
    BY <1>1, <2>1 DEF Bucket
  <2>. QED
    BY <1>1, <1>2, <2>2 DEF Table
<1>4. Items' = Items
  <2>1. Item(buckets'[i]) = Item(buckets[s])
    BY <1>3 DEF Item
  <2>2. buckets[s].dib > 0
    BY <1>1, <1>2 DEF Table, Bucket
  <2>3. Outside(buckets', s) = Outside(buckets, i)
    BY <1>2, <1>3, <2>1, <2>2, OutsideMoved
  <2>. QED
    BY <1>1, <1>2, <2>3, ItemsBecome
<1>5. Outcome' = Outcome
  BY <1>1, <1>2, OutcomeBecomes
<1>6. Simulates
  BY <1>1, <1>4, <1>5, Stutters DEF Simulates
<1>7. Blanks'
  <2>1. Blank(buckets', s)
    BY <1>2, <1>3 DEF Blank, Table, Bucket
  <2>. QED
    BY <1>1, <2>1 DEF Blanks
<1>8. Calling' /\ Searching' /\ Carrying'
  BY <1>1, <1>2 DEF Calling, Searching, Carrying, Placed
<1>. QED
  BY <1>6, <1>7, <1>8 DEF MInv

(* The hole is closed. *)
LEMMA ShiftDoneSimulates ==
  ASSUME IInv, MInv, ShiftDone
  PROVE  MInv' /\ Simulates
<1>1. /\ pc = "shift" /\ pc' \in {"shrink", "return"} /\ ~Resizing' /\ ~Placed'
      /\ call' = call /\ result' = result
      /\ buckets' = [buckets EXCEPT ![i] = Empty]
  BY DEF ShiftDone, Resizing, Placed
<1>2. /\ nbuckets \in Nat /\ Table(buckets, nbuckets) /\ i \in 0 .. nbuckets - 1
      /\ call \in Map!Calls /\ call.name = "delete"
      /\ Blank(buckets, i) /\ Items = Outside(buckets, i) /\ Outcome = result
  BY <1>1, HoleIs
<1>3. /\ Table(buckets', nbuckets) /\ nbuckets' = nbuckets /\ buckets'[i] = Empty
      /\ \A j \in 0 .. nbuckets - 1 : j # i => buckets'[j] = buckets[j]
  BY <1>1, <1>2 DEF Table, Empty, Bucket, nbuckets, Size
<1>4. Items' = Items
  <2>1. buckets'[i].dib = 0
    BY <1>3 DEF Empty
  <2>2. Resident(buckets', 0) = Outside(buckets, i)
    BY <1>2, <1>3, <2>1, OutsideClosed
  <2>. QED
    BY <1>1, <1>2, <2>2, ItemsBecome
<1>5. Outcome' = Outcome
  BY <1>1, <1>2, OutcomeBecomes
<1>6. Simulates
  BY <1>1, <1>4, <1>5, Stutters DEF Simulates
<1>7. Blanks'
  <2>1. Blank(buckets', nbuckets)
    BY <1>2, <1>3 DEF Blank, Table, Empty
  <2>. QED
    BY <1>1, <1>3, <2>1 DEF Blanks
<1>8. Calling' /\ Searching' /\ Carrying'
  BY <1>1, <1>2 DEF Calling, Searching, Carrying, Placed
<1>. QED
  BY <1>6, <1>7, <1>8 DEF MInv

----------------------------------------------------------------------------
(* Resizing moves the items from table to table *)

(* a resize that starts *)
LEMMA AllocateSimulates ==
  ASSUME IInv, MInv, pc \in {"grow", "shrink"}, NEW n \in Nat, n >= 2, Allocate(n),
         UNCHANGED <<table, count, call, i, entry, result>>
  PROVE  MInv' /\ Simulates
<1>1. /\ pc' = "move" /\ src' = 0 /\ ~Resizing /\ Resizing' /\ ~Placed /\ ~Placed'
      /\ buckets' = buckets /\ call' = call /\ result' = result /\ entry' = entry
      /\ buckets2' = EmptyTable(n) /\ pc # "shift" /\ pc' # "shift"
      /\ call \in Map!Calls
      /\ pc = "grow" => call.name = "set"
      /\ pc = "shrink" => call.name = "delete"
  BY DEF table, Resizing, Placed, Allocate, IInv, Thresholds, Deleting, MInv, Calling
<1>2. Items' = Items
  <2>1. Occupied(EmptyTable(n)) = {}
    BY EmptyTables
  <2>2. Resident(EmptyTable(n), 0) = {}
    BY <2>1 DEF Resident
  <2>. QED
    BY <1>1, <2>2, ItemsAre, ItemsBecome
<1>3. Outcome' = Outcome
  <2>1. CASE pc = "grow"
    BY <1>1, <2>1, OutcomeIs, OutcomeBecomes
  <2>2. CASE pc = "shrink"
    BY <1>1, <2>2, OutcomeIs, OutcomeBecomes
  <2>. QED
    BY <2>1, <2>2
<1>4. Simulates
  BY <1>1, <1>2, <1>3, Stutters DEF Simulates
<1>5. Blanks'
  <2>1. \A h : Blank(EmptyTable(n), h)
    BY DEF Blank, EmptyTable, Empty
  <2>. QED
    BY <1>1, <2>1 DEF Blanks
<1>6. Carrying'
  <2>1. call.name = "set" => entry.value = call.value
    BY <1>1 DEF MInv, Carrying
  <2>. QED
    BY <1>1, <2>1 DEF Carrying
<1>7. Calling' /\ Searching'
  BY <1>1 DEF Calling, Searching
<1>. QED
  BY <1>4, <1>5, <1>6, <1>7 DEF MInv

(* A full table grows, or the set fails and changes nothing. *)
LEMMA GrowSimulates ==
  ASSUME IInv, MInv, Grow
  PROVE  MInv' /\ Simulates
<1>1. /\ pc = "grow" /\ ~Resizing /\ ~Placed /\ nbuckets \in Nat /\ nbuckets >= 2
      /\ call \in Map!Calls /\ call.name = "set"
  BY Tables DEF Grow, Resizing, Placed, IInv, Thresholds, MInv, Calling
<1>2. CASE Allocate(2 * nbuckets) /\ UNCHANGED result
  <2>1. 2 * nbuckets \in Nat /\ 2 * nbuckets >= 2
    BY <1>1
  <2>. QED
    BY <1>1, <1>2, <2>1, AllocateSimulates DEF Grow
<1>3. CASE /\ result' = [value |-> NoValue, oom |-> TRUE] /\ pc' = "return"
           /\ UNCHANGED <<buckets2, src>>
  <2>1. /\ buckets' = buckets /\ nbuckets' = nbuckets /\ call' = call
        /\ ~Resizing' /\ ~Placed'
    BY <1>1, <1>3 DEF Grow, table, nbuckets, Resizing, Placed
  <2>2. Contents' = Contents
    BY <1>1, <1>3, <2>1, ItemsAre, ItemsBecome, ContentsAre
  <2>3. Outcome = Map!Pending /\ Outcome' = [value |-> NoValue, oom |-> TRUE]
    BY <1>1, <1>3, OutcomeIs, OutcomeBecomes
  <2>4. call # NoCall
    BY <1>1, CallAssumption DEF Map!Calls
  <2>5. Map!Next
    BY <1>1, <2>1, <2>2, <2>3, <2>4 DEF Map!Next, Map!OutOfMemory
  <2>6. MInv'
    BY <1>1, <1>3, <2>1 DEF MInv, Blanks, Calling, Searching, Carrying
  <2>. QED
    BY <2>5, <2>6 DEF Simulates
<1>. QED
  BY <1>2, <1>3 DEF Grow

(* A table that is too large shrinks, or stays as it is. *)
LEMMA ShrinkSimulates ==
  ASSUME IInv, MInv, Shrink
  PROVE  MInv' /\ Simulates
<1>1. /\ pc = "shrink" /\ ~Resizing /\ ~Placed /\ nbuckets \in Nat /\ nbuckets >= 2
      /\ call \in Map!Calls /\ call.name = "delete"
  BY Tables DEF Shrink, Resizing, Placed, IInv, Deleting, MInv, Calling
<1>2. CASE Allocate(nbuckets \div 2)
  <2>1. nbuckets \div 2 \in Nat /\ nbuckets \div 2 >= 2
    <3>1. /\ cap \in Nat /\ cap >= 2 /\ Doubled(cap, nbuckets) /\ nbuckets > cap
      BY <1>1 DEF IInv, Sizes, Thresholds
    <3>2. nbuckets \div 2 \in Nat /\ nbuckets \div 2 >= cap
      BY <1>1, <3>1, DoubledFacts
    <3>. QED
      BY <3>1, <3>2
  <2>. QED
    BY <1>1, <1>2, <2>1, AllocateSimulates DEF Shrink
<1>3. CASE pc' = "return" /\ UNCHANGED <<buckets2, src>>
  <2>1. /\ buckets' = buckets /\ nbuckets' = nbuckets /\ call' = call /\ result' = result
        /\ ~Resizing' /\ ~Placed'
    BY <1>1, <1>3 DEF Shrink, table, nbuckets, Resizing, Placed
  <2>2. Items' = Items
    BY <1>1, <1>3, <2>1, ItemsAre, ItemsBecome
  <2>3. Outcome' = Outcome
    BY <1>1, <1>3, <2>1, OutcomeIs, OutcomeBecomes
  <2>4. Simulates
    BY <2>1, <2>2, <2>3, Stutters DEF Simulates
  <2>5. MInv'
    BY <1>1, <1>3, <2>1 DEF MInv, Blanks, Calling, Searching, Carrying
  <2>. QED
    BY <2>4, <2>5
<1>. QED
  BY <1>2, <1>3 DEF Shrink

(* While items move, the outcome and the call stay what they are. *)
LEMMA MovesSimulate ==
  ASSUME IInv, MInv, Resizing, Resizing', call' = call, entry' = entry, result' = result,
         pc' # "idle",
         Blank(buckets2', Size(buckets2)'),
         Resident(buckets2', 0) \cup Resident(buckets', src') =
           Resident(buckets2, 0) \cup Resident(buckets, src)
  PROVE  MInv' /\ Simulates
<1>1. Items' = Items
  BY ItemsAre, ItemsBecome
<1>2. Outcome' = Outcome
  <2>1. CASE call.name = "delete"
    BY <2>1, OutcomeIs, OutcomeBecomes
  <2>2. CASE call.name # "delete"
    BY <2>2, OutcomeIs, OutcomeBecomes
  <2>. QED
    BY <2>1, <2>2
<1>3. Simulates
  BY <1>1, <1>2, Stutters DEF Simulates
<1>4. pc \in {"move", "place"} /\ pc' \in {"move", "place"} /\ ~Placed' /\ call \in Map!Calls
  BY DEF Resizing, Placed, MInv, Calling
<1>5. Blanks'
  BY <1>4 DEF Blanks
<1>6. Calling' /\ Searching' /\ Carrying'
  BY <1>4 DEF MInv, Calling, Searching, Carrying
<1>. QED
  BY <1>3, <1>5, <1>6 DEF MInv

(* The next bucket is looked at. *)
LEMMA MoveNextSimulates ==
  ASSUME IInv, MInv, MoveNext
  PROVE  MInv' /\ Simulates
<1>1. /\ pc = "move" /\ Resizing /\ Resizing' /\ pc' # "idle" /\ src < nbuckets
      /\ buckets2' = buckets2 /\ Size(buckets2)' = Size(buckets2)
      /\ call' = call /\ entry' = entry /\ result' = result
  BY DEF MoveNext, Resizing, Size
<1>2. Blank(buckets2', Size(buckets2)')
  BY <1>1 DEF MInv, Blanks
<1>3. nbuckets \in Nat /\ Table(buckets, nbuckets) /\ src \in 0 .. nbuckets - 1
  BY <1>1, ToMove
<1>4. Resident(buckets', src') = Resident(buckets, src)
  <2>1. CASE buckets[src].dib = 0
    <3>1. buckets' = buckets /\ src' = src + 1
      BY <2>1 DEF MoveNext
    <3>. QED
      BY <1>3, <2>1, <3>1, ResidentFirst
  <2>2. CASE buckets[src].dib # 0
    <3>1. buckets' = [buckets EXCEPT ![src].dib = 1] /\ src' = src
      BY <2>2 DEF MoveNext
    <3>2. /\ Table(buckets', nbuckets)
          /\ buckets'[src].dib > 0 /\ buckets[src].dib > 0
          /\ buckets'[src].key = buckets[src].key /\ buckets'[src].value = buckets[src].value
          /\ \A j \in 0 .. nbuckets - 1 : j # src => buckets'[j] = buckets[j]
      <4>1. buckets[src] \in Bucket /\ buckets[src].dib \in Nat
        BY <1>3 DEF Table, Bucket
      <4>2. /\ [buckets[src] EXCEPT !.dib = 1] \in Bucket
            /\ [buckets[src] EXCEPT !.dib = 1].dib > 0 /\ buckets[src].dib > 0
            /\ [buckets[src] EXCEPT !.dib = 1].key = buckets[src].key
            /\ [buckets[src] EXCEPT !.dib = 1].value = buckets[src].value
        BY <2>2, <4>1 DEF Bucket
      <4>. QED
        BY <1>3, <3>1, <4>2 DEF Table
    <3>3. Item(buckets[src]) = Item(buckets'[src])
      BY <3>2 DEF Item
    <3>4. src \in Nat
      BY <1>3
    <3>5. Resident(buckets, src) = Resident(buckets', src)
      BY <1>3, <3>2, <3>3, <3>4, ResidentSame
    <3>. QED
      BY <3>1, <3>5
  <2>. QED
    BY <2>1, <2>2
<1>5. Resident(buckets2', 0) \cup Resident(buckets', src') =
        Resident(buckets2, 0) \cup Resident(buckets, src)
  BY <1>1, <1>4
<1>. QED
  BY <1>1, <1>2, <1>5, MovesSimulate

(* what is moved, and the item that is *)
LEMMA PlacingIs ==
  ASSUME IInv, pc = "place"
  PROVE  /\ nbuckets \in Nat /\ Table(buckets, nbuckets) /\ src \in 0 .. nbuckets - 1
         /\ Size(buckets2) \in Nat /\ Table(buckets2, Size(buckets2))
         /\ i \in 0 .. Size(buckets2) - 1
         /\ buckets[src] \in Bucket /\ buckets[src].dib \in Nat \ {0}
         /\ buckets2[i] \in Bucket /\ buckets2[i].dib \in Nat
         /\ Resident(buckets, src) = Resident(buckets, src + 1) \cup {Item(buckets[src])}
<1>1. Resizing
  BY DEF Resizing
<1>2. /\ nbuckets \in Nat /\ Table(buckets, nbuckets) /\ src \in 0 .. nbuckets - 1
      /\ Size(buckets2) \in Nat /\ Table(buckets2, Size(buckets2))
      /\ i \in 0 .. Size(buckets2) - 1
      /\ OnWay(buckets2, Size(buckets2), buckets[src], i)
  BY <1>1, ToMove DEF IInv, Types
<1>3. /\ buckets[src] \in Bucket /\ buckets[src].dib \in Nat \ {0}
      /\ buckets2[i] \in Bucket /\ buckets2[i].dib \in Nat
  BY <1>2 DEF Table, OnWay, Bucket
<1>4. Resident(buckets, src) = Resident(buckets, src + 1) \cup {Item(buckets[src])}
  <2>1. buckets[src].dib # 0
    BY <1>3
  <2>. QED
    BY <1>2, <2>1, ResidentFirst
<1>. QED
  BY <1>2, <1>3, <1>4

(* The item in hand is a step further. *)
LEMMA FurtherIs ==
  ASSUME NEW e \in Bucket
  PROVE  /\ Further(e) \in Bucket /\ Further(e).dib # 0
         /\ Further(e).key = e.key /\ Further(e).value = e.value
BY DEF Further, Bucket

(* An item gets an empty bucket of the new table. *)
LEMMA PlaceSimulates ==
  ASSUME IInv, MInv, Place
  PROVE  MInv' /\ Simulates
<1>. DEFINE n == Size(buckets2)
<1>1. /\ pc = "place" /\ Resizing /\ Resizing' /\ pc' # "idle"
      /\ src' = src + 1 /\ buckets' = buckets /\ buckets2[i].dib = 0
      /\ call' = call /\ entry' = entry /\ result' = result
      /\ buckets2' = [buckets2 EXCEPT ![i] = buckets[src]]
  BY DEF Place, Resizing, table
<1>2. /\ n \in Nat /\ Table(buckets2, n) /\ i \in 0 .. n - 1
      /\ buckets[src] \in Bucket /\ buckets[src].dib \in Nat \ {0}
      /\ Resident(buckets, src) = Resident(buckets, src + 1) \cup {Item(buckets[src])}
  BY <1>1, PlacingIs
<1>. HIDE DEF n
<1>3. /\ Table(buckets2', n) /\ buckets2'[i] = buckets[src] /\ buckets[src].dib # 0
      /\ \A j \in 0 .. n - 1 : j # i => buckets2'[j] = buckets2[j]
  BY <1>1, <1>2 DEF Table
<1>4. Resident(buckets2', 0) = Resident(buckets2, 0) \cup {Item(buckets[src])}
  <2>1. buckets2[i].dib = 0
    BY <1>1
  <2>. QED
    BY <1>2, <1>3, <2>1, ResidentReplaced
<1>5. Size(buckets2)' = n
  <2>1. Size(buckets2') = n
    BY <1>2, <1>3, TableSize DEF Table
  <2>. QED
    BY <2>1
<1>6. Blank(buckets2', n)
  <2>1. Blank(buckets2, n)
    BY <1>1 DEF MInv, Blanks, n
  <2>. QED
    BY <1>2, <1>3, <2>1 DEF Blank, Table
<1>7. Resident(buckets2', 0) \cup Resident(buckets', src') =
        Resident(buckets2, 0) \cup Resident(buckets, src)
  BY <1>1, <1>2, <1>4
<1>8. Blank(buckets2', Size(buckets2)')
  BY <1>5, <1>6
<1>. QED
  BY <1>1, <1>7, <1>8, MovesSimulate

(* The item in hand, or the one it displaces, goes on. *)
LEMMA PlaceOnSimulates ==
  ASSUME IInv, MInv, PlaceOn
  PROVE  MInv' /\ Simulates
<1>. DEFINE n == Size(buckets2)
<1>1. /\ pc = "place" /\ Resizing /\ Resizing' /\ pc' # "idle"
      /\ src' = src /\ buckets2[i].dib # 0
      /\ call' = call /\ entry' = entry /\ result' = result
  BY DEF PlaceOn, Resizing
<1>2. /\ nbuckets \in Nat /\ Table(buckets, nbuckets) /\ src \in 0 .. nbuckets - 1
      /\ n \in Nat /\ Table(buckets2, n) /\ i \in 0 .. n - 1
      /\ buckets[src] \in Bucket /\ buckets[src].dib \in Nat \ {0}
      /\ buckets2[i] \in Bucket /\ buckets2[i].dib \in Nat \ {0}
      /\ Resident(buckets, src) = Resident(buckets, src + 1) \cup {Item(buckets[src])}
  BY <1>1, PlacingIs
<1>3. Blank(buckets2, n)
  BY <1>1 DEF MInv, Blanks
<1>. HIDE DEF n
<1>4. /\ Table(buckets2', n) /\ Blank(buckets2', n)
      /\ Table(buckets', nbuckets) /\ buckets'[src].dib # 0
      /\ \A j \in 0 .. nbuckets - 1 : j # src => buckets'[j] = buckets[j]
      /\ Resident(buckets2', 0) \cup {Item(buckets'[src])} =
           Resident(buckets2, 0) \cup {Item(buckets[src])}
  <2>1. CASE buckets2[i].dib < buckets[src].dib
    <3>1. /\ buckets2' = [buckets2 EXCEPT ![i] = buckets[src]]
          /\ buckets' = [buckets EXCEPT ![src] = Further(buckets2[i])]
      BY <1>2, <2>1 DEF PlaceOn
    <3>2. /\ Table(buckets2', n) /\ buckets2'[i] = buckets[src] /\ buckets[src].dib # 0
          /\ \A j \in 0 .. n - 1 : j # i => buckets2'[j] = buckets2[j]
      BY <1>2, <3>1 DEF Table
    <3>3. /\ Table(buckets', nbuckets) /\ buckets'[src].dib # 0
          /\ buckets'[src].key = buckets2[i].key /\ buckets'[src].value = buckets2[i].value
          /\ \A j \in 0 .. nbuckets - 1 : j # src => buckets'[j] = buckets[j]
      <4>1. /\ Further(buckets2[i]) \in Bucket /\ Further(buckets2[i]).dib # 0
            /\ Further(buckets2[i]).key = buckets2[i].key
            /\ Further(buckets2[i]).value = buckets2[i].value
        BY <1>2, FurtherIs
      <4>. QED
        BY <1>2, <3>1, <4>1 DEF Table
    <3>4. Item(buckets'[src]) = Item(buckets2[i])
      BY <3>3 DEF Item
    <3>5. Resident(buckets2', 0) \cup {Item(buckets2[i])} =
            Resident(buckets2, 0) \cup {Item(buckets[src])}
      BY <1>1, <1>2, <3>2, ResidentReplaced
    <3>6. Blank(buckets2', n)
      BY <1>2, <1>3, <3>2 DEF Blank, Table
    <3>. QED
      BY <3>2, <3>3, <3>4, <3>5, <3>6
  <2>2. CASE buckets2[i].dib >= buckets[src].dib
    <3>1. /\ buckets2' = buckets2
          /\ buckets' = [buckets EXCEPT ![src] = Further(buckets[src])]
      BY <1>2, <2>2 DEF PlaceOn
    <3>2. /\ Table(buckets', nbuckets) /\ buckets'[src].dib # 0
          /\ buckets'[src].key = buckets[src].key /\ buckets'[src].value = buckets[src].value
          /\ \A j \in 0 .. nbuckets - 1 : j # src => buckets'[j] = buckets[j]
      <4>1. /\ Further(buckets[src]) \in Bucket /\ Further(buckets[src]).dib # 0
            /\ Further(buckets[src]).key = buckets[src].key
            /\ Further(buckets[src]).value = buckets[src].value
        BY <1>2, FurtherIs
      <4>. QED
        BY <1>2, <3>1, <4>1 DEF Table
    <3>3. Item(buckets'[src]) = Item(buckets[src])
      BY <3>2 DEF Item
    <3>. QED
      BY <1>2, <1>3, <3>1, <3>2, <3>3
  <2>. QED
    BY <1>2, <2>1, <2>2
<1>5. Size(buckets2)' = n
  <2>1. Size(buckets2') = n
    BY <1>2, <1>4, TableSize DEF Table
  <2>. QED
    BY <2>1
<1>6. Resident(buckets', src') = Resident(buckets, src + 1) \cup {Item(buckets'[src])}
  <2>1. Resident(buckets', src) = Resident(buckets', src + 1) \cup {Item(buckets'[src])}
    BY <1>2, <1>4, ResidentFirst
  <2>2. src + 1 \in Nat
    BY <1>2
  <2>3. \A j \in 0 .. nbuckets - 1 : j >= src + 1 => buckets'[j] = buckets[j]
    BY <1>2, <1>4
  <2>4. Resident(buckets', src + 1) = Resident(buckets, src + 1)
    BY <1>2, <1>4, <2>2, <2>3, ResidentSame
  <2>. QED
    BY <1>1, <2>1, <2>4
<1>7. Resident(buckets2', 0) \cup Resident(buckets', src') =
        Resident(buckets2, 0) \cup Resident(buckets, src)
  BY <1>2, <1>4, <1>6
<1>8. Blank(buckets2', Size(buckets2)')
  BY <1>4, <1>5
<1>. QED
  BY <1>1, <1>7, <1>8, MovesSimulate

(* The new table replaces the old one. *)
LEMMA MoveDoneSimulates ==
  ASSUME IInv, MInv, MoveDone
  PROVE  MInv' /\ Simulates
<1>. DEFINE n == Size(buckets2)
<1>1. /\ pc = "move" /\ Resizing /\ src = nbuckets /\ ~Resizing'
      /\ pc' \in {"set", "return"} /\ buckets' = buckets2
      /\ call' = call /\ entry' = entry /\ result' = result
      /\ pc' = "set" => call.name = "set" /\ i' = Slot(call.key, buckets2)
      /\ pc' = "return" => call.name = "delete"
  BY DEF MoveDone, SetStart, Resizing
<1>2. /\ nbuckets \in Nat /\ Table(buckets, nbuckets)
      /\ n \in Nat \ {0} /\ Table(buckets2, n) /\ call \in Map!Calls /\ call.key \in Keys
  BY <1>1, ToMove DEF MInv, Calling, Map!Calls
<1>3. call.name = "set" => entry.key = call.key /\ entry.value = call.value
  BY <1>1 DEF IInv, Fresh, MInv, Carrying
<1>4. ~Placed'
  BY <1>1, <1>3 DEF Placed
<1>5. Items' = Items
  <2>1. Resident(buckets, nbuckets) = {}
    BY <1>2 DEF Resident, Occupied, Table
  <2>. QED
    BY <1>1, <1>4, <2>1, ItemsAre, ItemsBecome
<1>6. Outcome' = Outcome
  <2>1. CASE pc' = "set"
    BY <1>1, <1>4, <2>1, OutcomeIs, OutcomeBecomes
  <2>2. CASE pc' = "return"
    BY <1>1, <2>2, OutcomeIs, OutcomeBecomes
  <2>. QED
    BY <1>1, <2>1, <2>2
<1>7. Simulates
  BY <1>1, <1>5, <1>6, Stutters DEF Simulates
<1>8. nbuckets' = n
  BY <1>1 DEF nbuckets
<1>9. Carrying'
  <2>1. ASSUME pc' = "set" PROVE Walk(1)'
    <3>1. Slot(call.key, buckets2) = At(call.key, 1, n)
      BY <1>2, AtFacts DEF Slot
    <3>. QED
      BY <1>1, <1>4, <1>8, <2>1, <3>1 DEF Walk
  <2>. QED
    BY <1>1, <1>3, <1>4, <2>1 DEF Carrying
<1>10. Blanks'
  BY <1>1, <1>8 DEF MInv, Blanks
<1>11. Calling' /\ Searching'
  BY <1>1, <1>2 DEF Calling, Searching
<1>. QED
  BY <1>7, <1>9, <1>10, <1>11 DEF MInv

----------------------------------------------------------------------------
(* The map *)

(* Clearing the table clears the map. *)
LEMMA ClearSimulates ==
  ASSUME IInv, MInv, Clear
  PROVE  MInv' /\ Simulates
<1>1. /\ pc = "idle" /\ pc' = "idle" /\ ~Resizing /\ ~Resizing' /\ ~Placed /\ ~Placed'
      /\ buckets' = EmptyTable(nbuckets) /\ call = NoCall /\ result = Found(NoValue)
      /\ call' = call /\ result' = result
  BY DEF Clear, Resizing, Placed, MInv, Calling
<1>2. nbuckets \in Nat /\ nbuckets >= 2
  BY Tables
<1>3. Items' = {}
  <2>1. Occupied(EmptyTable(nbuckets)) = {}
    BY <1>2, EmptyTables
  <2>2. Resident(EmptyTable(nbuckets), 0) = {}
    BY <2>1 DEF Resident
  <2>. QED
    BY <1>1, <2>2, ItemsBecome
<1>4. Contents' = [k \in Keys |-> NoValue]
  BY <1>3, ContentsAre DEF Value
<1>5. Outcome' = Outcome
  BY <1>1, OutcomeIs, OutcomeBecomes
<1>6. Map!Next
  BY <1>1, <1>4, <1>5 DEF Map!Next, Map!Clear
<1>7. MInv'
  <2>1. \A h : Blank(EmptyTable(nbuckets), h)
    BY DEF Blank, EmptyTable, Empty
  <2>. QED
    BY <1>1, <2>1 DEF MInv, Blanks, Calling, Searching, Carrying
<1>. QED
  BY <1>6, <1>7 DEF Simulates

(* A new table is an empty map. *)
LEMMA InitialMap ==
  ASSUME Init
  PROVE  MInv /\ Map!Init
<1>1. MinBuckets \in Nat /\ MinBuckets >= 2
  BY BucketAssumption
<1>2. /\ pc = "idle" /\ ~Resizing /\ ~Placed /\ buckets = EmptyTable(MinBuckets)
      /\ call = NoCall /\ result = Found(NoValue)
  BY DEF Init, Resizing, Placed
<1>3. Items = {}
  <2>1. Occupied(EmptyTable(MinBuckets)) = {}
    BY <1>1, EmptyTables
  <2>2. Resident(EmptyTable(MinBuckets), 0) = {}
    BY <2>1 DEF Resident
  <2>. QED
    BY <1>2, <2>2, ItemsAre
<1>4. Contents = [k \in Keys |-> NoValue]
  BY <1>3, ContentsAre DEF Value
<1>5. Map!Init
  BY <1>2, <1>4, OutcomeIs DEF Map!Init, Map!None, Found
<1>6. MInv
  <2>1. \A h : Blank(EmptyTable(MinBuckets), h)
    BY DEF Blank, EmptyTable, Empty
  <2>. QED
    BY <1>2, <2>1 DEF MInv, Blanks, Calling, Searching, Carrying
<1>. QED
  BY <1>5, <1>6

(* A step that changes nothing. *)
LEMMA StutteringMap ==
  ASSUME MInv, UNCHANGED vars
  PROVE  MInv' /\ Simulates
<1>1. /\ buckets' = buckets /\ buckets2' = buckets2 /\ call' = call /\ pc' = pc /\ i' = i
      /\ src' = src /\ entry' = entry /\ result' = result
  BY DEF vars, table
<1>2. nbuckets' = nbuckets /\ Size(buckets2)' = Size(buckets2)
      /\ (Resizing' <=> Resizing) /\ (Placed' <=> Placed)
  BY <1>1 DEF nbuckets, Size, Resizing, Placed
<1>3. Items' = Items /\ Outcome' = Outcome
  BY <1>1, <1>2 DEF Items, Resident, Occupied, InHand, Outcome, Settled, Found, Placed
<1>4. \A m : Walk(m)' <=> Walk(m)
  BY <1>1, <1>2 DEF Walk
<1>5. Blanks'
  BY <1>1, <1>2 DEF MInv, Blanks
<1>6. Calling' /\ Searching'
  BY <1>1, <1>2 DEF MInv, Calling, Searching
<1>7. Carrying'
  BY <1>1, <1>2, <1>4 DEF MInv, Carrying
<1>. QED
  BY <1>1, <1>3, <1>5, <1>6, <1>7, Stutters DEF MInv, Simulates

(* Every step of a call is a step of the map, or none. *)
LEMMA EveryStepSimulates ==
  ASSUME IInv, MInv, [Next]_vars
  PROVE  MInv' /\ Simulates
<1>1. CASE UNCHANGED vars
  BY <1>1, StutteringMap
<1>2. CASE SearchOn \/ GetEnds \/ Return
  BY <1>2, SearchOnSimulates, GetEndsSimulates, ReturnSimulates
<1>3. CASE SetEmpty \/ SetReplace \/ SetOn
  BY <1>3, SetEmptySimulates, SetReplaceSimulates, SetOnSimulates
<1>4. CASE DeleteAbsent \/ DeleteFound \/ Shift \/ ShiftDone
  BY <1>4, DeleteAbsentSimulates, DeleteFoundSimulates, ShiftSimulates, ShiftDoneSimulates
<1>5. CASE Grow \/ Shrink \/ MoveNext \/ Place \/ PlaceOn \/ MoveDone
  BY <1>5, GrowSimulates, ShrinkSimulates, MoveNextSimulates, PlaceSimulates,
     PlaceOnSimulates, MoveDoneSimulates
<1>6. CASE Clear
  BY <1>6, ClearSimulates
<1>7. ASSUME NEW k \in Keys, Get(k) \/ Delete(k) \/ \E v \in Values : Set(k, v)
      PROVE  MInv' /\ Simulates
  BY <1>7, SearchStartsSimulates, SetStartsSimulates
<1>. QED
  BY <1>1, <1>2, <1>3, <1>4, <1>5, <1>6, <1>7 DEF Next, Loop

(* The table implements the map: whatever is set, deleted, moved, resized  *)
(* or cleared, and whichever allocation fails, each call returns the value *)
(* last set for its key and takes effect at one instant.                   *)
THEOREM TableIsMap == Spec => ImplementsMap
<1>1. Init => MInv /\ Map!Init
  BY InitialMap
<1>2. IInv /\ MInv /\ [Next]_vars => MInv'
  BY EveryStepSimulates
<1>3. IInv /\ MInv /\ [Next]_vars => [Map!Next]_(Map!vars)
  BY EveryStepSimulates DEF Simulates
<1>4. Spec => []MInv
  BY <1>1, <1>2, Invariance, PTL DEF Spec
<1>. QED
  BY <1>1, <1>3, <1>4, Invariance, PTL DEF Spec, ImplementsMap, Map!Spec
=============================================================================
