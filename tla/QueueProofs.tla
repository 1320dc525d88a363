---------------------------- MODULE QueueProofs ----------------------------
(***************************************************************************)
(* Lemmas about queues of messages: what is still in a queue, how often,   *)
(* and in which order, when a message is put at its end or the one at its  *)
(* head is taken.  The proofs about the channels rest on them.             *)
(***************************************************************************)
EXTENDS Queues, SequenceTheorems, FiniteSetTheorems, TLAPS

Has(queue, type) == \E i \in 1..Len(queue) : queue[i].type = type

Once(queue, type) ==
    \A i, j \in 1..Len(queue) : queue[i].type = type /\ queue[j].type = type => i = j

(* a message of this type can only be the first one, or the last one       *)
OnlyFirst(queue, type) == \A i \in 1..Len(queue) : queue[i].type = type => i = 1
OnlyLast(queue, type) == \A i \in 1..Len(queue) : queue[i].type = type => i = Len(queue)

(* The messages of this type in a queue are numbered from low to high, and *)
(* they lie in this order.                                                 *)
Consecutive(queue, type, low, high) ==
    /\ low <= high + 1
    /\ \A i \in 1..Len(queue) : queue[i].type = type => queue[i].part \in low..high
    /\ \A i, j \in 1..Len(queue) :
          i < j /\ queue[i].type = type /\ queue[j].type = type => queue[i].part < queue[j].part
    /\ \A p \in low..high : \E i \in 1..Len(queue) : queue[i].type = type /\ queue[i].part = p

-----------------------------------------------------------------------------
(* The ends of a queue                                                     *)

LEMMA QueueAppended ==
    ASSUME NEW M, NEW queue \in Seq(M), NEW m \in M
    PROVE  /\ Append(queue, m) \in Seq(M)
           /\ Len(queue) \in Nat /\ Len(Append(queue, m)) = Len(queue) + 1
           /\ Append(queue, m)[Len(queue) + 1] = m
           /\ \A i \in 1..Len(queue) : Append(queue, m)[i] = queue[i]
           /\ Append(queue, m) # <<>>
           /\ queue # <<>> => Head(Append(queue, m)) = Head(queue)
  BY AppendProperties, HeadTailAppend

LEMMA QueueTaken ==
    ASSUME NEW M, NEW queue \in Seq(M), queue # <<>>
    PROVE  /\ Tail(queue) \in Seq(M) /\ Head(queue) \in M
           /\ Len(queue) \in Nat \ {0} /\ Len(Tail(queue)) = Len(queue) - 1
           /\ Head(queue) = queue[1]
           /\ \A i \in 1..(Len(queue) - 1) : Tail(queue)[i] = queue[i + 1]
  BY HeadTailProperties

LEMMA QueueJoined ==
    ASSUME NEW M, NEW queue \in Seq(M), NEW more \in Seq(M)
    PROVE  /\ queue \o more \in Seq(M)
           /\ Len(queue) \in Nat /\ Len(more) \in Nat
           /\ Len(queue \o more) = Len(queue) + Len(more)
           /\ \A i \in 1..Len(queue) : (queue \o more)[i] = queue[i]
           /\ \A i \in 1..Len(more) : (queue \o more)[Len(queue) + i] = more[i]
           /\ queue # <<>> => queue \o more # <<>> /\ Head(queue \o more) = Head(queue)
  <1> DEFINE longer == queue \o more
             n == Len(queue)
             k == Len(more)
  <1>1. n \in Nat /\ k \in Nat OBVIOUS
  <1>2. /\ longer \in Seq(M) /\ Len(longer) = n + k
        /\ \A i \in 1..(n + k) : longer[i] = IF i <= n THEN queue[i] ELSE more[i - n]
    BY ConcatProperties, Zenon
  <1>3. queue # <<>> => n # 0 /\ Head(queue) = queue[1] OBVIOUS
  <1> HIDE DEF longer, n, k
  <1>4. \A i \in 1..n : longer[i] = queue[i] BY <1>1, <1>2
  <1>5. \A i \in 1..k : longer[n + i] = more[i]
    <2> SUFFICES ASSUME NEW i \in 1..k PROVE longer[n + i] = more[i] OBVIOUS
    <2>1. n + i \in 1..(n + k) /\ ~(n + i <= n) /\ (n + i) - n = i BY <1>1
    <2> QED BY <1>2, <2>1
  <1>6. longer # <<>> => Head(longer) = longer[1] BY <1>2
  <1>7. queue # <<>> => longer # <<>> /\ Head(longer) = Head(queue)
    <2> SUFFICES ASSUME queue # <<>> PROVE longer # <<>> /\ Head(longer) = Head(queue) OBVIOUS
    <2>1. 1 \in 1..n /\ Len(longer) # 0 BY <1>1, <1>2, <1>3
    <2>2. longer # <<>> BY <2>1
    <2> QED BY <1>3, <1>4, <1>6, <2>1, <2>2
  <1> QED BY <1>1, <1>2, <1>4, <1>5, <1>7 DEF longer, n, k

LEMMA HasAppended ==
    ASSUME NEW M, NEW queue \in Seq(M), NEW m \in M
    PROVE  /\ \A type : Has(Append(queue, m), type) <=> Has(queue, type) \/ m.type = type
           /\ \A type : Once(queue, type) /\ (m.type # type \/ ~Has(queue, type))
                           => Once(Append(queue, m), type)
  <1> DEFINE longer == Append(queue, m)
             n == Len(queue)
  <1>1. /\ n \in Nat /\ Len(longer) = n + 1 /\ longer[n + 1] = m
        /\ \A i \in 1..n : longer[i] = queue[i]
    BY QueueAppended
  <1> HIDE DEF longer
  <1> QED BY <1>1 DEF Has, Once, longer

LEMMA HasTaken ==
    ASSUME NEW M, NEW queue \in Seq(M), queue # <<>>
    PROVE  /\ \A type : Has(queue, type) <=> Head(queue).type = type \/ Has(Tail(queue), type)
           /\ \A type : Once(queue, type) =>
                 /\ Once(Tail(queue), type)
                 /\ Head(queue).type = type => ~Has(Tail(queue), type)
  <1> DEFINE rest == Tail(queue)
             n == Len(queue) - 1
  <1>1. /\ n \in Nat /\ Len(queue) = n + 1 /\ Len(rest) = n /\ Head(queue) = queue[1]
        /\ \A i \in 1..n : rest[i] = queue[i + 1]
    BY QueueTaken
  <1> HIDE DEF rest, n
  <1>2. \A type : Has(queue, type) <=> Head(queue).type = type \/ Has(rest, type)
    <2> SUFFICES ASSUME NEW type
                 PROVE  Has(queue, type) <=> Head(queue).type = type \/ Has(rest, type)
      OBVIOUS
    <2>1. \A i \in 2..(n + 1) : i - 1 \in 1..n /\ rest[i - 1] = queue[i] BY <1>1
    <2> QED BY <1>1, <2>1 DEF Has
  <1>3. \A type : Once(queue, type) =>
           Once(rest, type) /\ (Head(queue).type = type => ~Has(rest, type))
    BY <1>1 DEF Has, Once
  <1> QED BY <1>2, <1>3 DEF rest

LEMMA HasJoined ==
    ASSUME NEW M, NEW queue \in Seq(M), NEW more \in Seq(M)
    PROVE  \A type : Has(queue \o more, type) <=> Has(queue, type) \/ Has(more, type)
  <1> DEFINE longer == queue \o more
             n == Len(queue)
             k == Len(more)
  <1>1. /\ n \in Nat /\ k \in Nat /\ Len(longer) = n + k
        /\ \A i \in 1..n : longer[i] = queue[i]
        /\ \A i \in 1..k : longer[n + i] = more[i]
    BY QueueJoined
  <1> HIDE DEF longer, n, k
  <1>2. \A i \in 1..(n + k) : i \in 1..n \/ (i - n \in 1..k /\ n + (i - n) = i) BY <1>1
  <1>3. \A i \in 1..k : n + i \in 1..(n + k) BY <1>1
  <1>4. \A i \in 1..n : i \in 1..(n + k) BY <1>1
  <1> SUFFICES ASSUME NEW type
               PROVE  Has(longer, type) <=> Has(queue, type) \/ Has(more, type)
    BY DEF longer
  <1>5. ASSUME Has(longer, type) PROVE Has(queue, type) \/ Has(more, type)
    <2>1. PICK i \in 1..(n + k) : longer[i].type = type BY <1>1, <1>5 DEF Has
    <2>2. CASE i \in 1..n BY <1>1, <2>1, <2>2 DEF Has, n
    <2>3. CASE i \notin 1..n
      <3>1. i - n \in 1..k /\ longer[i] = more[i - n] BY <1>1, <1>2, <2>3
      <3> QED BY <2>1, <3>1 DEF Has, k
    <2> QED BY <2>2, <2>3
  <1>6. Has(queue, type) => Has(longer, type) BY <1>1, <1>4 DEF Has, n
  <1>7. Has(more, type) => Has(longer, type) BY <1>1, <1>3 DEF Has, k
  <1> QED BY <1>5, <1>6, <1>7

(* what can only be the first or the last message                          *)
LEMMA EndsAppended ==
    ASSUME NEW M, NEW queue \in Seq(M), NEW m \in M
    PROVE  /\ \A type : OnlyFirst(queue, type) /\ m.type # type => OnlyFirst(Append(queue, m), type)
           /\ \A type : ~Has(queue, type) => OnlyLast(Append(queue, m), type)
  <1>1. /\ Len(queue) \in Nat /\ Len(Append(queue, m)) = Len(queue) + 1
        /\ Append(queue, m)[Len(queue) + 1] = m
        /\ \A i \in 1..Len(queue) : Append(queue, m)[i] = queue[i]
    BY QueueAppended
  <1>2. \A i \in 1..(Len(queue) + 1) : i \in 1..Len(queue) \/ i = Len(queue) + 1 BY <1>1
  <1> QED BY <1>1, <1>2 DEF OnlyFirst, OnlyLast, Has

LEMMA EndsTaken ==
    ASSUME NEW M, NEW queue \in Seq(M), queue # <<>>
    PROVE  /\ \A type : OnlyFirst(queue, type) =>
                 /\ ~Has(Tail(queue), type) /\ OnlyFirst(Tail(queue), type)
                 /\ Has(queue, type) => Head(queue).type = type
           /\ \A type : OnlyLast(queue, type) =>
                 /\ OnlyLast(Tail(queue), type)
                 /\ Head(queue).type = type => Tail(queue) = <<>>
  <1>1. /\ Tail(queue) \in Seq(M) /\ Len(queue) \in Nat \ {0}
        /\ Len(Tail(queue)) = Len(queue) - 1 /\ Head(queue) = queue[1]
        /\ \A i \in 1..(Len(queue) - 1) : Tail(queue)[i] = queue[i + 1]
    BY QueueTaken
  <1>2. /\ \A n \in Nat \ {0} : 1 \in 1..n
        /\ \A n \in Nat \ {0} : \A i \in 1..(n - 1) : i + 1 \in 1..n /\ i + 1 # 1
        /\ \A n \in Nat \ {0} : \A i \in 1..(n - 1) : i + 1 = n => i = n - 1
    OBVIOUS
  <1>3. 1 = Len(queue) => Tail(queue) = <<>>
    <2>1. \A k \in Nat : 1 = k => k - 1 = 0 OBVIOUS
    <2>2. 1 = Len(queue) => Len(Tail(queue)) = 0 BY <1>1, <2>1
    <2> QED BY <1>1, <2>2, EmptySeq
  <1>4. ASSUME NEW type, OnlyFirst(queue, type)
        PROVE  /\ ~Has(Tail(queue), type) /\ OnlyFirst(Tail(queue), type)
               /\ Has(queue, type) => Head(queue).type = type
    <2>1. \A i \in 1..(Len(queue) - 1) : Tail(queue)[i].type # type BY <1>1, <1>2, <1>4 DEF OnlyFirst
    <2>2. Has(queue, type) => Head(queue).type = type BY <1>1, <1>4 DEF OnlyFirst, Has
    <2> QED BY <1>1, <2>1, <2>2 DEF OnlyFirst, Has
  <1>5. ASSUME NEW type, OnlyLast(queue, type)
        PROVE  /\ OnlyLast(Tail(queue), type)
               /\ Head(queue).type = type => Tail(queue) = <<>>
    <2>1. \A i \in 1..(Len(queue) - 1) : Tail(queue)[i].type = type => i = Len(queue) - 1
      BY <1>1, <1>2, <1>5 DEF OnlyLast
    <2>2. Head(queue).type = type => 1 = Len(queue) BY <1>1, <1>2, <1>5 DEF OnlyLast
    <2> QED BY <1>1, <1>2, <1>3, <2>1, <2>2 DEF OnlyLast
  <1> QED BY <1>4, <1>5

LEMMA EndsJoined ==
    ASSUME NEW M, NEW queue \in Seq(M), NEW more \in Seq(M)
    PROVE  /\ \A type : OnlyFirst(queue, type) /\ ~Has(more, type) => OnlyFirst(queue \o more, type)
           /\ \A type : ~Has(queue \o more, type) => OnlyLast(queue \o more, type)
  <1>1. /\ Len(queue) \in Nat /\ Len(more) \in Nat
        /\ Len(queue \o more) = Len(queue) + Len(more)
        /\ \A i \in 1..Len(queue) : (queue \o more)[i] = queue[i]
        /\ \A i \in 1..Len(more) : (queue \o more)[Len(queue) + i] = more[i]
    BY QueueJoined
  <1>2. \A i \in 1..(Len(queue) + Len(more)) :
           i \in 1..Len(queue) \/ (i - Len(queue) \in 1..Len(more) /\ i = Len(queue) + (i - Len(queue)))
    BY <1>1
  <1> QED BY <1>1, <1>2 DEF OnlyFirst, OnlyLast, Has

-----------------------------------------------------------------------------
(* How often                                                               *)

(* what Among counts is finite                                             *)
LEMMA PlacesAreFinite ==
    ASSUME NEW M, NEW queue \in Seq(M), NEW S
    PROVE  /\ DOMAIN queue = 1..Len(queue) /\ Len(queue) \in Nat
           /\ IsFiniteSet({i \in DOMAIN queue : queue[i] \in S})
           /\ Among(queue, S) \in Nat
  <1> DEFINE places == {i \in DOMAIN queue : queue[i] \in S}
  <1>1. DOMAIN queue = 1..Len(queue) /\ Len(queue) \in Nat OBVIOUS
  <1>2. IsFiniteSet(1..Len(queue)) BY <1>1, FS_Interval
  <1>3. places \in SUBSET (1..Len(queue)) BY <1>1
  <1>4. IsFiniteSet(places) BY <1>2, <1>3, FS_Subset
  <1>5. Cardinality(places) \in Nat BY <1>4, FS_CardinalityType
  <1> QED BY <1>1, <1>4, <1>5 DEF Among

LEMMA CountAppended ==
    ASSUME NEW M, NEW queue \in Seq(M), NEW m \in M, NEW S
    PROVE  Among(Append(queue, m), S) = Among(queue, S) + IF m \in S THEN 1 ELSE 0
  <1> DEFINE longer == Append(queue, m)
             n == Len(queue)
             places == {i \in DOMAIN queue : queue[i] \in S}
             found == {i \in DOMAIN longer : longer[i] \in S}
  <1>1. /\ longer \in Seq(M) /\ n \in Nat /\ DOMAIN longer = 1..(n + 1)
        /\ DOMAIN queue = 1..n /\ longer[n + 1] = m /\ \A i \in 1..n : longer[i] = queue[i]
    OBVIOUS
  <1> HIDE DEF longer, n
  <1>2. IsFiniteSet(places) /\ Cardinality(places) \in Nat
    BY PlacesAreFinite DEF Among
  <1>3. n + 1 \notin places BY <1>1
  <1>4. Among(longer, S) = Cardinality(found) /\ Among(queue, S) = Cardinality(places)
    BY DEF Among
  <1>5. CASE m \in S
    <2>1. found = places \cup {n + 1} BY <1>1, <1>5
    <2>2. Cardinality(found) = Cardinality(places) + 1 BY <1>2, <1>3, <2>1, FS_AddElement
    <2> HIDE DEF places, found
    <2> QED BY <1>4, <1>5, <2>2 DEF longer
  <1>6. CASE m \notin S
    <2>1. found = places BY <1>1, <1>6
    <2> HIDE DEF places, found
    <2> QED BY <1>2, <1>4, <1>6, <2>1 DEF longer
  <1> QED BY <1>5, <1>6

LEMMA CountTaken ==
    ASSUME NEW M, NEW queue \in Seq(M), queue # <<>>, NEW S
    PROVE  Among(queue, S) = Among(Tail(queue), S) + IF Head(queue) \in S THEN 1 ELSE 0
  <1> DEFINE rest == Tail(queue)
             n == Len(queue)
             places == {i \in DOMAIN rest : rest[i] \in S}
             later == {i \in 2..n : queue[i] \in S}
             found == {i \in DOMAIN queue : queue[i] \in S}
             shift == [i \in places |-> i + 1]
  <1>1. /\ rest \in Seq(M) /\ n \in Nat \ {0} /\ DOMAIN rest = 1..(n - 1)
        /\ DOMAIN queue = 1..n /\ Head(queue) = queue[1]
        /\ \A i \in 1..(n - 1) : rest[i] = queue[i + 1]
    <2>1. rest \in Seq(M) /\ Len(rest) = n - 1 /\ Head(queue) = queue[1]
      BY QueueTaken
    <2>2. n \in Nat \ {0} /\ DOMAIN queue = 1..n OBVIOUS
    <2>3. \A i \in 1..(n - 1) : rest[i] = queue[i + 1] BY QueueTaken
    <2>4. DOMAIN rest = 1..Len(rest) BY <2>1
    <2> QED BY <2>1, <2>2, <2>3, <2>4
  <1> HIDE DEF rest, n
  <1>2. IsFiniteSet(places) /\ Cardinality(places) \in Nat /\ Among(rest, S) = Cardinality(places)
    BY <1>1, PlacesAreFinite DEF Among
  <1>3. shift \in Bijection(places, later)
    <2>1. shift \in [places -> later] BY <1>1
    <2>2. \A i, j \in places : shift[i] = shift[j] => i = j BY <1>1
    <2>3. \A k \in later : \E i \in places : shift[i] = k
      <3> SUFFICES ASSUME NEW k \in later PROVE \E i \in places : shift[i] = k OBVIOUS
      <3>1. k - 1 \in 1..(n - 1) /\ rest[k - 1] = queue[k] BY <1>1
      <3>2. k - 1 \in places /\ shift[k - 1] = k BY <1>1, <3>1
      <3> QED BY <3>2
    <2> QED BY <2>1, <2>2, <2>3 DEF Bijection, Injection, Surjection, IsInjective
  <1>4. IsFiniteSet(later) /\ Cardinality(later) = Cardinality(places)
    BY <1>2, <1>3, FS_Bijection DEF ExistsBijection
  <1>5. Among(queue, S) = Cardinality(found) BY DEF Among
  <1>6. CASE Head(queue) \in S
    <2>1. found = later \cup {1} /\ 1 \notin later BY <1>1, <1>6
    <2>2. Cardinality(found) = Cardinality(later) + 1 BY <1>4, <2>1, FS_AddElement
    <2> HIDE DEF places, found, later
    <2> QED BY <1>2, <1>4, <1>5, <1>6, <2>2 DEF rest
  <1>7. CASE Head(queue) \notin S
    <2>1. found = later BY <1>1, <1>7
    <2> HIDE DEF places, found, later
    <2> QED BY <1>2, <1>4, <1>5, <1>7, <2>1 DEF rest
  <1> QED BY <1>6, <1>7

(* several messages that count go together, or several that do not         *)
LEMMA CountJoined ==
    ASSUME NEW M, NEW queue \in Seq(M), NEW more \in Seq(M), NEW S
    PROVE  /\ (\A i \in 1..Len(more) : more[i] \in S)
                 => Among(queue \o more, S) = Among(queue, S) + Len(more)
           /\ (\A i \in 1..Len(more) : more[i] \notin S) => Among(queue \o more, S) = Among(queue, S)
  <1> DEFINE longer == queue \o more
             n == Len(queue)
             k == Len(more)
             places == {i \in DOMAIN queue : queue[i] \in S}
             added == (n + 1)..(n + k)
             found == {i \in DOMAIN longer : longer[i] \in S}
  <1>1. /\ n \in Nat /\ k \in Nat /\ longer \in Seq(M) /\ Len(longer) = n + k
        /\ \A i \in 1..n : longer[i] = queue[i]
        /\ \A i \in 1..k : longer[n + i] = more[i]
    BY QueueJoined
  <1>2. DOMAIN queue = 1..n OBVIOUS
  <1> HIDE DEF longer
  <1>3. DOMAIN longer = 1..(n + k)
    <2>1. DOMAIN longer = 1..Len(longer) BY <1>1
    <2> QED BY <1>1, <2>1
  <1> HIDE DEF n, k
  <1>4. IsFiniteSet(places) /\ Cardinality(places) \in Nat BY PlacesAreFinite DEF Among
  <1>5. IsFiniteSet(added) /\ Cardinality(added) = k
    <2>1. n + 1 \in Int /\ n + k \in Int BY <1>1
    <2>2. \A a, b \in Int : /\ IsFiniteSet(a..b)
                            /\ Cardinality(a..b) = IF a > b THEN 0 ELSE b - a + 1
      BY FS_Interval
    <2>3. /\ IsFiniteSet(added)
          /\ Cardinality(added) = IF n + 1 > n + k THEN 0 ELSE (n + k) - (n + 1) + 1
      BY <2>1, <2>2
    <2> HIDE DEF added
    <2>4. (IF n + 1 > n + k THEN 0 ELSE (n + k) - (n + 1) + 1) = k BY <1>1
    <2> QED BY <2>3, <2>4
  <1>6. \A i \in 1..(n + k) : i \in 1..n \/ (i \in added /\ i - n \in 1..k /\ longer[i] = more[i - n])
    <2> SUFFICES ASSUME NEW i \in 1..(n + k), i \notin 1..n
                 PROVE  i \in added /\ i - n \in 1..k /\ longer[i] = more[i - n]
      OBVIOUS
    <2>1. i \in added /\ i - n \in 1..k /\ n + (i - n) = i BY <1>1
    <2> QED BY <1>1, <2>1
  <1>7. \A i \in added : i \in 1..(n + k) /\ i \notin 1..n BY <1>1
  <1>8. \A i \in 1..n : i \in 1..(n + k) BY <1>1
  <1>9. Among(longer, S) = Cardinality(found) /\ Among(queue, S) = Cardinality(places)
    BY DEF Among
  <1>10. ASSUME \A i \in 1..k : more[i] \in S PROVE Among(longer, S) = Among(queue, S) + k
    <2>1. \A i \in added : longer[i] \in S BY <1>6, <1>7, <1>10
    <2>2. found = places \cup added /\ places \cap added = {}
      BY <1>1, <1>2, <1>3, <1>6, <1>7, <1>8, <2>1
    <2>3. Cardinality(places \cap added) = 0 BY <2>2, FS_EmptySet
    <2>4. Cardinality(places \cup added)
             = Cardinality(places) + Cardinality(added) - Cardinality(places \cap added)
      BY <1>4, <1>5, FS_Union
    <2> HIDE DEF places, added, found
    <2> QED BY <1>1, <1>4, <1>5, <1>9, <2>2, <2>3, <2>4
  <1>11. ASSUME \A i \in 1..k : more[i] \notin S PROVE Among(longer, S) = Among(queue, S)
    <2>1. \A i \in added : longer[i] \notin S BY <1>6, <1>7, <1>11
    <2>2. found = places BY <1>1, <1>2, <1>3, <1>6, <1>7, <1>8, <2>1
    <2> HIDE DEF places, added, found
    <2> QED BY <1>9, <2>2
  <1> QED BY <1>10, <1>11 DEF longer, k

-----------------------------------------------------------------------------
(* In which order                                                          *)

LEMMA ConsecutiveNone ==
    ASSUME NEW queue, NEW type, NEW low \in Int, ~Has(queue, type)
    PROVE  Consecutive(queue, type, low, low - 1)
  BY DEF Consecutive, Has

(* a message of another type, or the next one                              *)
LEMMA ConsecutiveAppended ==
    ASSUME NEW M, NEW queue \in Seq(M), NEW m \in M, NEW type,
           NEW low \in Int, NEW high \in Int, Consecutive(queue, type, low, high)
    PROVE  /\ m.type # type => Consecutive(Append(queue, m), type, low, high)
           /\ m.type = type /\ m.part = high + 1
                 => Consecutive(Append(queue, m), type, low, high + 1)
  <1> DEFINE longer == Append(queue, m)
             n == Len(queue)
  <1>1. /\ n \in Nat /\ Len(longer) = n + 1 /\ longer[n + 1] = m
        /\ \A i \in 1..n : longer[i] = queue[i]
    BY QueueAppended
  <1> HIDE DEF longer, n
  <1>2. \A i \in 1..(n + 1) : i = n + 1 \/ (i \in 1..n /\ longer[i] = queue[i]) BY <1>1
  <1>3. \A i \in 1..n : i \in 1..(n + 1) BY <1>1
  <1>4. /\ low <= high + 1
        /\ \A i \in 1..n : queue[i].type = type => queue[i].part \in low..high
        /\ \A i, j \in 1..n :
              i < j /\ queue[i].type = type /\ queue[j].type = type => queue[i].part < queue[j].part
        /\ \A p \in low..high : \E i \in 1..n : queue[i].type = type /\ queue[i].part = p
    BY DEF Consecutive, n
  <1>5. ASSUME m.type # type PROVE Consecutive(longer, type, low, high)
    <2>1. \A i \in 1..(n + 1) : longer[i].type = type => i \in 1..n /\ longer[i] = queue[i]
      BY <1>1, <1>2, <1>5
    <2> QED BY <1>1, <1>3, <1>4, <2>1 DEF Consecutive
  <1>6. ASSUME m.type = type, m.part = high + 1 PROVE Consecutive(longer, type, low, high + 1)
    <2>1. \A i \in 1..(n + 1) : longer[i].type = type => longer[i].part \in low..(high + 1)
      <3> SUFFICES ASSUME NEW i \in 1..(n + 1), longer[i].type = type
                   PROVE  longer[i].part \in low..(high + 1)
        OBVIOUS
      <3>1. CASE i = n + 1 BY <1>1, <1>4, <1>6, <3>1
      <3>2. CASE i \in 1..n /\ longer[i] = queue[i]
        <4>1. longer[i].part \in low..high BY <1>4, <3>2
        <4> QED BY <4>1
      <3> QED BY <1>2, <3>1, <3>2
    <2>2. \A i, j \in 1..(n + 1) :
             i < j /\ longer[i].type = type /\ longer[j].type = type
                => longer[i].part < longer[j].part
      <3> SUFFICES ASSUME NEW i \in 1..(n + 1), NEW j \in 1..(n + 1), i < j,
                          longer[i].type = type, longer[j].type = type
                   PROVE  longer[i].part < longer[j].part
        OBVIOUS
      <3>1. i \in 1..n /\ longer[i] = queue[i] BY <1>1
      <3>2. CASE j = n + 1
        <4>1. longer[i].part \in low..high BY <1>4, <3>1
        <4> QED BY <1>1, <1>6, <3>2, <4>1
      <3>3. CASE j \in 1..n /\ longer[j] = queue[j] BY <1>4, <3>1, <3>3
      <3> QED BY <1>2, <3>2, <3>3
    <2>3. \A p \in low..(high + 1) : \E i \in 1..(n + 1) : longer[i].type = type /\ longer[i].part = p
      <3> SUFFICES ASSUME NEW p \in low..(high + 1)
                   PROVE  \E i \in 1..(n + 1) : longer[i].type = type /\ longer[i].part = p
        OBVIOUS
      <3>1. CASE p \in low..high
        <4>1. PICK i \in 1..n : queue[i].type = type /\ queue[i].part = p BY <1>4, <3>1
        <4> QED BY <1>1, <1>3, <4>1
      <3>2. CASE p = high + 1
        <4>1. n + 1 \in 1..(n + 1) BY <1>1
        <4> QED BY <1>1, <1>6, <3>2, <4>1
      <3> QED BY <3>1, <3>2
    <2>4. low <= (high + 1) + 1 BY <1>4
    <2> QED BY <1>1, <2>1, <2>2, <2>3, <2>4 DEF Consecutive
  <1> QED BY <1>5, <1>6 DEF longer

(* The first message is taken, which is of another type or the lowest one. *)
LEMMA ConsecutiveTaken ==
    ASSUME NEW M, NEW queue \in Seq(M), queue # <<>>, NEW type,
           NEW low \in Int, NEW high \in Int, Consecutive(queue, type, low, high)
    PROVE  /\ Head(queue).type # type => Consecutive(Tail(queue), type, low, high)
           /\ Head(queue).type = type =>
                 /\ Head(queue).part = low /\ low <= high
                 /\ Consecutive(Tail(queue), type, low + 1, high)
  <1> DEFINE rest == Tail(queue)
             n == Len(queue) - 1
             first == queue[1]
  <1>1. /\ n \in Nat /\ Len(queue) = n + 1 /\ Len(rest) = n /\ Head(queue) = first
        /\ \A i \in 1..n : rest[i] = queue[i + 1]
    BY QueueTaken
  <1> HIDE DEF rest, n
  <1>2. \A i \in 1..n : i + 1 \in 1..(n + 1) BY <1>1
  <1>3. \A i \in 1..(n + 1) : i = 1 \/ (i - 1 \in 1..n /\ rest[i - 1] = queue[i])
    <2> SUFFICES ASSUME NEW i \in 1..(n + 1), i # 1
                 PROVE  i - 1 \in 1..n /\ rest[i - 1] = queue[i]
      OBVIOUS
    <2>1. i - 1 \in 1..n /\ (i - 1) + 1 = i BY <1>1
    <2> QED BY <1>1, <2>1
  <1>4. 1 \in 1..(n + 1) BY <1>1
  <1>5. /\ low <= high + 1
        /\ \A i \in 1..(n + 1) : queue[i].type = type => queue[i].part \in low..high
        /\ \A i, j \in 1..(n + 1) :
              i < j /\ queue[i].type = type /\ queue[j].type = type => queue[i].part < queue[j].part
        /\ \A p \in low..high : \E i \in 1..(n + 1) : queue[i].type = type /\ queue[i].part = p
    BY <1>1 DEF Consecutive
  <1>6. \A i, j \in 1..n :
           i < j /\ rest[i].type = type /\ rest[j].type = type => rest[i].part < rest[j].part
    <2> SUFFICES ASSUME NEW i \in 1..n, NEW j \in 1..n, i < j,
                        rest[i].type = type, rest[j].type = type
                 PROVE  rest[i].part < rest[j].part
      OBVIOUS
    <2>1. i + 1 < j + 1 OBVIOUS
    <2> QED BY <1>1, <1>2, <1>5, <2>1
  <1>7. \A i \in 1..n : rest[i].type = type => rest[i].part \in low..high BY <1>1, <1>2, <1>5
  <1>8. ASSUME first.type # type PROVE Consecutive(rest, type, low, high)
    <2>1. \A p \in low..high : \E i \in 1..n : rest[i].type = type /\ rest[i].part = p
      <3> SUFFICES ASSUME NEW p \in low..high
                   PROVE  \E i \in 1..n : rest[i].type = type /\ rest[i].part = p
        OBVIOUS
      <3>1. PICK i \in 1..(n + 1) : queue[i].type = type /\ queue[i].part = p BY <1>5
      <3>2. i # 1 BY <1>8, <3>1
      <3> QED BY <1>3, <3>1, <3>2
    <2> QED BY <1>1, <1>5, <1>6, <1>7, <2>1 DEF Consecutive
  <1>9. ASSUME first.type = type
        PROVE  first.part = low /\ low <= high /\ Consecutive(rest, type, low + 1, high)
    <2>1. first.part \in low..high BY <1>4, <1>5, <1>9
    <2>2. \A i \in 1..n : rest[i].type = type => first.part < rest[i].part
      <3> SUFFICES ASSUME NEW i \in 1..n, rest[i].type = type PROVE first.part < rest[i].part
        OBVIOUS
      <3>1. i + 1 \in 1..(n + 1) /\ queue[i + 1] = rest[i] /\ 1 < i + 1 BY <1>1, <1>2
      <3>2. queue[1].type = type BY <1>9
      <3> QED BY <1>4, <1>5, <3>1, <3>2
    <2>3. first.part = low
      <3>1. PICK i \in 1..(n + 1) : queue[i].type = type /\ queue[i].part = low BY <1>5, <2>1
      <3>2. CASE i = 1 BY <3>1, <3>2
      <3>3. CASE i # 1
        <4>1. i - 1 \in 1..n /\ rest[i - 1].type = type /\ rest[i - 1].part = low
          BY <1>3, <3>1, <3>3
        <4>2. first.part < low BY <2>2, <4>1
        <4> QED BY <2>1, <4>2
      <3> QED BY <3>2, <3>3
    <2>4. \A i \in 1..n : rest[i].type = type => rest[i].part \in (low + 1)..high
      <3> SUFFICES ASSUME NEW i \in 1..n, rest[i].type = type
                   PROVE  rest[i].part \in (low + 1)..high
        OBVIOUS
      <3>1. rest[i].part \in low..high /\ low < rest[i].part BY <1>7, <2>2, <2>3
      <3> QED BY <3>1
    <2>5. \A p \in (low + 1)..high : \E i \in 1..n : rest[i].type = type /\ rest[i].part = p
      <3> SUFFICES ASSUME NEW p \in (low + 1)..high
                   PROVE  \E i \in 1..n : rest[i].type = type /\ rest[i].part = p
        OBVIOUS
      <3>1. p \in low..high /\ p # low OBVIOUS
      <3>2. PICK i \in 1..(n + 1) : queue[i].type = type /\ queue[i].part = p BY <1>5, <3>1
      <3>3. i # 1 BY <2>3, <3>1, <3>2
      <3> QED BY <1>3, <3>2, <3>3
    <2>6. low <= high /\ low + 1 <= high + 1 BY <2>1
    <2> QED BY <1>1, <1>6, <2>3, <2>4, <2>5, <2>6 DEF Consecutive
  <1> QED BY <1>1, <1>8, <1>9 DEF rest

(* the next ones go together                                               *)
LEMMA ConsecutiveJoined ==
    ASSUME NEW M, NEW queue \in Seq(M), NEW more \in Seq(M), NEW type,
           NEW low \in Int, NEW high \in Int, Consecutive(queue, type, low, high),
           \A i \in 1..Len(more) : more[i].type = type /\ more[i].part = high + i
    PROVE  Consecutive(queue \o more, type, low, high + Len(more))
  <1> DEFINE longer == queue \o more
             n == Len(queue)
             k == Len(more)
  <1>1. /\ n \in Nat /\ k \in Nat /\ Len(longer) = n + k
        /\ \A i \in 1..n : longer[i] = queue[i]
        /\ \A i \in 1..k : longer[n + i] = more[i]
    BY QueueJoined
  <1> HIDE DEF longer, n, k
  <1>2. \A i \in 1..(n + k) :
           \/ i \in 1..n /\ longer[i] = queue[i]
           \/ n < i /\ longer[i].type = type /\ longer[i].part = high + (i - n)
    <2> SUFFICES ASSUME NEW i \in 1..(n + k), i \notin 1..n
                 PROVE  n < i /\ longer[i].type = type /\ longer[i].part = high + (i - n)
      BY <1>1
    <2>1. n < i /\ i - n \in 1..k /\ n + (i - n) = i BY <1>1
    <2>2. longer[i] = more[i - n] BY <1>1, <2>1
    <2> QED BY <2>1, <2>2 DEF k
  <1>3. /\ low <= high + 1
        /\ \A i \in 1..n : queue[i].type = type => queue[i].part \in low..high
        /\ \A i, j \in 1..n :
              i < j /\ queue[i].type = type /\ queue[j].type = type => queue[i].part < queue[j].part
        /\ \A p \in low..high : \E i \in 1..n : queue[i].type = type /\ queue[i].part = p
    BY DEF Consecutive, n
  <1>4. \A i \in 1..(n + k) : longer[i].type = type => longer[i].part \in low..(high + k)
    <2> SUFFICES ASSUME NEW i \in 1..(n + k), longer[i].type = type
                 PROVE  longer[i].part \in low..(high + k)
      OBVIOUS
    <2>1. CASE i \in 1..n /\ longer[i] = queue[i]
      <3>1. longer[i].part \in low..high BY <1>3, <2>1
      <3> QED BY <1>1, <3>1
    <2>2. CASE n < i /\ longer[i].part = high + (i - n) BY <1>1, <1>3, <2>2
    <2> QED BY <1>2, <2>1, <2>2
  <1>5. \A i, j \in 1..(n + k) :
           i < j /\ longer[i].type = type /\ longer[j].type = type
              => longer[i].part < longer[j].part
    <2> SUFFICES ASSUME NEW i \in 1..(n + k), NEW j \in 1..(n + k), i < j,
                        longer[i].type = type, longer[j].type = type
                 PROVE  longer[i].part < longer[j].part
      OBVIOUS
    <2>1. CASE i \in 1..n /\ longer[i] = queue[i]
      <3>1. longer[i].part \in low..high BY <1>3, <2>1
      <3>2. CASE j \in 1..n /\ longer[j] = queue[j] BY <1>3, <2>1, <3>2
      <3>3. CASE n < j /\ longer[j].part = high + (j - n) BY <1>1, <3>1, <3>3
      <3> QED BY <1>2, <3>2, <3>3
    <2>2. CASE n < i /\ longer[i].part = high + (i - n)
      <3>1. j \notin 1..n BY <1>1, <2>2
      <3>2. longer[j].part = high + (j - n) BY <1>2, <3>1
      <3> QED BY <1>1, <2>2, <3>2
    <2> QED BY <1>2, <2>1, <2>2
  <1>6. \A p \in low..(high + k) : \E i \in 1..(n + k) : longer[i].type = type /\ longer[i].part = p
    <2> SUFFICES ASSUME NEW p \in low..(high + k)
                 PROVE  \E i \in 1..(n + k) : longer[i].type = type /\ longer[i].part = p
      OBVIOUS
    <2>1. CASE p \in low..high
      <3>1. PICK i \in 1..n : queue[i].type = type /\ queue[i].part = p BY <1>3, <2>1
      <3>2. i \in 1..(n + k) BY <1>1
      <3> QED BY <1>1, <3>1, <3>2
    <2>2. CASE p \notin low..high
      <3>1. p - high \in 1..k /\ n + (p - high) \in 1..(n + k) BY <1>1, <1>3, <2>2
      <3>2. longer[n + (p - high)] = more[p - high] BY <1>1, <3>1
      <3>3. more[p - high].type = type /\ more[p - high].part = high + (p - high)
        BY <3>1 DEF k
      <3>4. high + (p - high) = p OBVIOUS
      <3> QED BY <3>1, <3>2, <3>3, <3>4
    <2> QED BY <2>1, <2>2
  <1>7. low <= (high + k) + 1 BY <1>1, <1>3
  <1> QED BY <1>1, <1>4, <1>5, <1>6, <1>7 DEF Consecutive, longer, k
=============================================================================
