--------------------------- MODULE TransportProofs ---------------------------
(***************************************************************************)
(* Proofs about the in-memory transport, for any number of threads, users, *)
(* messages and nested calls.                                              *)
(*                                                                         *)
(* Two inductive invariants.  TableInv: the ids that were given are those  *)
(* of the fields they were given for, every list of the table has each of  *)
(* its ids once, and an id is in the list of its own key and in no other   *)
(* until it is removed; that an id occurs once is what makes the removal   *)
(* of the first subscriber with it the removal of that subscriber.         *)
(* FramesInv: a call of publish is the only one for its message, and it    *)
(* has nothing to call before it has copied its callbacks; with it a post  *)
(* of the broadcast can be read off the one call that is under way.        *)
(***************************************************************************)
EXTENDS Transport, TransportKeysProofs

-----------------------------------------------------------------------------
(* Sequences without repetitions                                           *)

distinct(s) == \A i, j \in DOMAIN s : s[i] = s[j] => i = j

\* Where an element that occurs once is removed, those after it move up.
LEMMA RemovePresent ==
    ASSUME NEW S, NEW s \in Seq(S), distinct(s), NEW j \in DOMAIN s
    PROVE  LET r == RemoveFirst(s, s[j])
           IN  /\ r \in Seq(S) /\ Len(r) = Len(s) - 1
               /\ \A i \in 1 .. Len(s) - 1 : r[i] = IF i < j THEN s[i] ELSE s[i + 1]
<1> DEFINE e == s[j]
           r == RemoveFirst(s, e)
           a == SubSeq(s, 1, j - 1)
           b == SubSeq(s, j + 1, Len(s))
<1>1. Len(s) \in Nat /\ DOMAIN s = 1 .. Len(s) /\ j \in 1 .. Len(s)
  OBVIOUS
<1>2. SelectInSeq(s, LAMBDA v : v = e) = j
  <2> DEFINE I == {i \in 1 .. Len(s) : s[i] = e}
  <2>1. I = {j}
    BY <1>1 DEF distinct
  <2>2. Min(I) = j
    <3> HIDE DEF I
    <3>1. j <= j
      BY <1>1
    <3> QED
      BY <2>1, <3>1 DEF Min
  <2> QED
    BY <2>1, <2>2 DEF SelectInSeq
<1>3. r = RemoveAt(s, j)
  BY <1>1, <1>2 DEF RemoveFirst
<1>4. r = a \o b
  BY <1>3 DEF RemoveAt
<1>5. /\ a \in Seq(S) /\ Len(a) = j - 1
      /\ \A i \in 1 .. j - 1 : a[i] = s[i]
  BY <1>1, SubSeqProperties
<1>6. /\ b \in Seq(S) /\ Len(b) = Len(s) - j
      /\ \A i \in 1 .. Len(s) - j : b[i] = s[j + i]
  BY <1>1, SubSeqProperties
<1> HIDE DEF r, a, b
<1>7. /\ r \in Seq(S) /\ Len(r) = Len(a) + Len(b)
      /\ \A i \in 1 .. Len(a) + Len(b) : r[i] = IF i <= Len(a) THEN a[i] ELSE b[i - Len(a)]
  BY <1>4, <1>5, <1>6, ConcatProperties
<1>8. Len(r) = Len(s) - 1
  BY <1>1, <1>5, <1>6, <1>7
<1>9. \A i \in 1 .. Len(s) - 1 : r[i] = IF i < j THEN s[i] ELSE s[i + 1]
  <2> SUFFICES ASSUME NEW i \in 1 .. Len(s) - 1
               PROVE  r[i] = IF i < j THEN s[i] ELSE s[i + 1]
    OBVIOUS
  <2>1. r[i] = IF i <= j - 1 THEN a[i] ELSE b[i - (j - 1)]
    BY <1>1, <1>5, <1>6, <1>7
  <2>2. CASE i < j
    <3>1. i \in 1 .. j - 1
      BY <1>1, <2>2
    <3> QED
      BY <1>1, <1>5, <2>1, <2>2, <3>1
  <2>3. CASE ~ (i < j)
    <3>1. i - (j - 1) \in 1 .. Len(s) - j /\ j + (i - (j - 1)) = i + 1
      BY <1>1, <2>3
    <3>2. b[i - (j - 1)] = s[i + 1]
      BY <1>6, <3>1
    <3> QED
      BY <1>1, <2>1, <2>3, <3>2
  <2> QED
    BY <2>2, <2>3
<1> QED
  BY <1>7, <1>8, <1>9 DEF r

\* What removing an element does to a sequence without repetitions.
LEMMA RemoveProperties ==
    ASSUME NEW S, NEW s \in Seq(S), distinct(s), NEW e
    PROVE  LET r == RemoveFirst(s, e)
           IN  /\ r \in Seq(S) /\ distinct(r)
               /\ ToSet(r) = ToSet(s) \ {e}
               /\ e \notin ToSet(s) => r = s
<1> DEFINE r == RemoveFirst(s, e)
<1>1. Len(s) \in Nat /\ DOMAIN s = 1 .. Len(s)
  OBVIOUS
<1>2. CASE e \notin ToSet(s)
  <2>1. r = s
    BY <1>1, <1>2 DEF RemoveFirst, ToSet
  <2> HIDE DEF r
  <2>2. ToSet(s) = ToSet(s) \ {e}
    BY <1>2
  <2> QED
    BY <2>1, <2>2 DEF r
<1>3. CASE e \in ToSet(s)
  <2>1. PICK j \in DOMAIN s : s[j] = e
    BY <1>3 DEF ToSet
  <2>2. /\ r \in Seq(S) /\ Len(r) = Len(s) - 1
        /\ \A i \in 1 .. Len(s) - 1 : r[i] = IF i < j THEN s[i] ELSE s[i + 1]
    BY <2>1, RemovePresent
  <2> HIDE DEF r
  <2>3. DOMAIN r = 1 .. Len(s) - 1 /\ j \in 1 .. Len(s)
    BY <1>1, <2>2
  <2> DEFINE old(i) == IF i < j THEN i ELSE i + 1
  <2>4. \A i \in DOMAIN r : old(i) \in DOMAIN s /\ old(i) # j /\ r[i] = s[old(i)]
    BY <1>1, <2>2, <2>3
  <2>5. \A i, k \in DOMAIN r : old(i) = old(k) => i = k
    BY <1>1, <2>3
  <2>6. \A k \in DOMAIN s : k # j => \E i \in DOMAIN r : old(i) = k
    <3> SUFFICES ASSUME NEW k \in DOMAIN s, k # j
                 PROVE  \E i \in DOMAIN r : old(i) = k
      OBVIOUS
    <3>1. CASE k < j
      <4>1. k \in DOMAIN r /\ old(k) = k
        BY <1>1, <2>3, <3>1
      <4> QED
        BY <4>1
    <3>2. CASE ~ (k < j)
      <4>1. k - 1 \in DOMAIN r /\ old(k - 1) = k
        BY <1>1, <2>3, <3>2
      <4> QED
        BY <4>1
    <3> QED
      BY <3>1, <3>2
  <2> HIDE DEF old
  <2>7. distinct(r)
    BY <2>4, <2>5 DEF distinct
  <2>8. ToSet(r) = ToSet(s) \ {e}
    <3> SUFFICES ASSUME NEW x PROVE x \in ToSet(r) <=> x \in ToSet(s) /\ x # e
      OBVIOUS
    <3>1. ASSUME x \in ToSet(r) PROVE x \in ToSet(s) /\ x # e
      <4>1. PICK i \in DOMAIN r : r[i] = x
        BY <3>1 DEF ToSet
      <4>2. x = s[old(i)] /\ old(i) \in DOMAIN s /\ old(i) # j
        BY <2>4, <4>1
      <4> QED
        BY <2>1, <4>2 DEF ToSet, distinct
    <3>2. ASSUME x \in ToSet(s), x # e PROVE x \in ToSet(r)
      <4>1. PICK k \in DOMAIN s : s[k] = x
        BY <3>2 DEF ToSet
      <4>2. PICK i \in DOMAIN r : old(i) = k
        BY <2>1, <2>6, <3>2, <4>1
      <4>3. r[i] = x
        BY <2>4, <4>1, <4>2
      <4> QED
        BY <4>3 DEF ToSet
    <3> QED
      BY <3>1, <3>2
  <2> QED
    BY <1>3, <2>2, <2>7, <2>8 DEF r
<1> QED
  BY <1>2, <1>3

\* What appending a new element does to it.
LEMMA AppendNew ==
    ASSUME NEW S, NEW s \in Seq(S), distinct(s), NEW e \in S, e \notin ToSet(s)
    PROVE  /\ Append(s, e) \in Seq(S) /\ distinct(Append(s, e))
           /\ ToSet(Append(s, e)) = ToSet(s) \cup {e}
           /\ Append(s, e) # << >> /\ Last(Append(s, e)) = e
<1> DEFINE r == Append(s, e)
           n == Len(s) + 1
<1>1. /\ r \in Seq(S) /\ Len(r) = n /\ Len(s) \in Nat
      /\ DOMAIN s = 1 .. Len(s) /\ DOMAIN r = 1 .. n
      /\ r[n] = e /\ \A i \in DOMAIN s : r[i] = s[i]
  OBVIOUS
<1> HIDE DEF r
<1>2. \A i \in DOMAIN r : i = n \/ i \in DOMAIN s
  BY <1>1
<1>3. n \in DOMAIN r /\ \A i \in DOMAIN s : i \in DOMAIN r
  BY <1>1
<1> HIDE DEF n
<1>4. \A i \in DOMAIN s : s[i] # e
  BY DEF ToSet
<1>5. distinct(r)
  <2> SUFFICES ASSUME NEW i \in DOMAIN r, NEW j \in DOMAIN r, r[i] = r[j]
               PROVE  i = j
    BY DEF distinct
  <2> QED
    BY <1>1, <1>2, <1>4 DEF distinct
<1>6. ToSet(r) = ToSet(s) \cup {e}
  <2> SUFFICES ASSUME NEW x PROVE x \in ToSet(r) <=> x \in ToSet(s) \/ x = e
    OBVIOUS
  <2> QED
    BY <1>1, <1>2, <1>3 DEF ToSet
<1>7. r # << >> /\ Last(r) = e
  BY <1>1 DEF Last, n
<1> QED
  BY <1>1, <1>5, <1>6, <1>7 DEF r

-----------------------------------------------------------------------------
(* The table                                                               *)

keyOf(id) == buildTaskSampleKey(fields_of[id])

Given == 1 .. next_id - 1

\* The ids given so far are numbered from one, and a handle has the key its fields
\* were turned into.
IdsInv ==
    /\ next_id \in Nat \ {0}
    /\ fields_of \in Seq(topics)
    /\ Len(fields_of) = next_id - 1
    /\ \A h \in handles : h[2] \in Given /\ h[1] = keyOf(h[2])

\* The lists of the table hold ids that were given, none of them twice.
ListsInv ==
    \A k \in DOMAIN subscribers :
        subscribers[k] \in Seq(Given) /\ distinct(subscribers[k])

\* An id is in a list of the table just when it was not removed, and then in the list
\* of its key.
EntriesInv ==
    alive => \A id \in Given :
        /\ \A k \in DOMAIN subscribers :
              id \in ToSet(subscribers[k]) => id \notin removed /\ keyOf(id) = k
        /\ id \notin removed =>
              keyOf(id) \in DOMAIN subscribers /\ id \in ToSet(subscribers[keyOf(id)])

TableInv == IdsInv /\ ListsInv /\ EntriesInv /\ removed \subseteq Given

\* What the list of any key is.
LEMMA IdsList ==
    ASSUME TableInv, NEW k
    PROVE  ids(k) \in Seq(Given) /\ distinct(ids(k))
<1>1. CASE k \in DOMAIN subscribers
  BY <1>1 DEF TableInv, ListsInv, ids
<1>2. CASE k \notin DOMAIN subscribers
  BY <1>2 DEF ids, distinct
<1> QED
  BY <1>1, <1>2

\* A subscriber that comes changes the list of its key only (subscribe).
LEMMA SubscribeKeepsTable ==
    ASSUME TableInv, NEW t \in Threads, NEW f \in Requests, subscribe(t, f)
    PROVE  TableInv'
<1> DEFINE key == buildTaskSampleKey(f)
           n == next_id
<1>1. /\ alive /\ validateTaskSampleKey(key)
      /\ subscribers' = [k \in DOMAIN subscribers \cup {key} |->
                            IF k = key THEN Append(ids(key), n) ELSE subscribers[k]]
      /\ next_id' = n + 1 /\ handles' = handles \cup {<<key, n>>}
      /\ fields_of' = Append(fields_of, f) /\ removed' = removed /\ alive' = alive
  BY DEF subscribe
<1>2. /\ n \in Nat \ {0} /\ fields_of \in Seq(topics) /\ Len(fields_of) = n - 1
      /\ f \in topics
  BY <1>1 DEF TableInv, IdsInv, topics
<1>3. Given' = 1 .. n /\ n \notin Given /\ Given \subseteq 1 .. n /\ n \in 1 .. n
  BY <1>1, <1>2 DEF Given
<1>4. \A id \in 1 .. n : id # n => id \in Given
  BY <1>2 DEF Given
<1>5. /\ fields_of' \in Seq(topics) /\ Len(fields_of') = n
      /\ fields_of'[n] = f /\ \A id \in Given : fields_of'[id] = fields_of[id]
  BY <1>1, <1>2 DEF Given
<1>6. /\ buildTaskSampleKey(fields_of'[n]) = key
      /\ \A id \in Given : buildTaskSampleKey(fields_of'[id]) = keyOf(id)
  BY <1>5 DEF keyOf
<1>7. /\ ids(key) \in Seq(Given) /\ distinct(ids(key)) /\ n \notin ToSet(ids(key))
      /\ ids(key) \in Seq(1 .. n)
  <2>1. ids(key) \in Seq(Given) /\ distinct(ids(key))
    BY IdsList
  <2>2. \A i \in DOMAIN ids(key) : ids(key)[i] \in Given
    BY <2>1
  <2>3. n \notin ToSet(ids(key))
    BY <1>3, <2>2 DEF ToSet
  <2>4. ids(key) \in Seq(1 .. n)
    BY <1>3, <2>1, SeqMonotonic
  <2> QED
    BY <2>1, <2>3, <2>4
<1> DEFINE list == Append(ids(key), n)
<1>8. /\ list \in Seq(1 .. n) /\ distinct(list)
      /\ ToSet(list) = ToSet(ids(key)) \cup {n}
  BY <1>3, <1>7, AppendNew
<1> HIDE DEF key, list
<1>9. /\ DOMAIN subscribers' = DOMAIN subscribers \cup {key}
      /\ subscribers'[key] = list
      /\ \A k \in DOMAIN subscribers : k # key => subscribers'[k] = subscribers[k]
  BY <1>1 DEF list
<1>10. IdsInv'
  <2>1. \A h \in handles' : h[2] \in 1 .. n /\ h[1] = buildTaskSampleKey(fields_of'[h[2]])
    <3> SUFFICES ASSUME NEW h \in handles'
                 PROVE  h[2] \in 1 .. n /\ h[1] = buildTaskSampleKey(fields_of'[h[2]])
      OBVIOUS
    <3>1. CASE h = <<key, n>>
      BY <1>3, <1>6, <3>1
    <3>2. CASE h \in handles
      BY <1>3, <1>6, <3>2 DEF TableInv, IdsInv
    <3> QED
      BY <1>1, <3>1, <3>2
  <2>2. n + 1 \in Nat \ {0} /\ (n + 1) - 1 = n
    BY <1>2
  <2> QED
    BY <1>1, <1>3, <1>5, <2>1, <2>2 DEF IdsInv, keyOf
<1>11. ListsInv'
  <2> SUFFICES ASSUME NEW k \in DOMAIN subscribers'
               PROVE  subscribers'[k] \in Seq(1 .. n) /\ distinct(subscribers'[k])
    BY <1>3 DEF ListsInv
  <2>1. CASE k = key
    BY <1>8, <1>9, <2>1
  <2>2. CASE k # key
    <3>1. subscribers'[k] = subscribers[k] /\ k \in DOMAIN subscribers
      BY <1>9, <2>2
    <3>2. subscribers[k] \in Seq(Given) /\ distinct(subscribers[k])
      BY <3>1 DEF TableInv, ListsInv
    <3> QED
      BY <1>3, <3>1, <3>2, SeqMonotonic
  <2> QED
    BY <2>1, <2>2
<1>12. EntriesInv'
  <2>1. ASSUME NEW k \in DOMAIN subscribers', NEW id \in 1 .. n, id \in ToSet(subscribers'[k])
        PROVE  id \notin removed /\ buildTaskSampleKey(fields_of'[id]) = k
    <3>1. CASE id = n /\ k = key
      BY <1>3, <1>6, <3>1 DEF TableInv
    <3>2. CASE id = n /\ k # key
      <4>1. subscribers'[k] = subscribers[k] /\ k \in DOMAIN subscribers
        BY <1>9, <3>2
      <4>2. \A i \in DOMAIN subscribers[k] : subscribers[k][i] \in Given
        BY <4>1 DEF TableInv, ListsInv
      <4> QED
        BY <1>3, <2>1, <3>2, <4>1, <4>2 DEF ToSet
    <3>3. CASE id # n
      <4>1. id \in Given
        BY <1>4, <3>3
      <4>2. k \in DOMAIN subscribers /\ id \in ToSet(subscribers[k])
        <5>1. CASE k = key
          <6>1. id \in ToSet(ids(key))
            BY <1>8, <1>9, <2>1, <3>3, <5>1
          <6>2. key \in DOMAIN subscribers
            BY <6>1 DEF ids, ToSet
          <6> QED
            BY <5>1, <6>1, <6>2 DEF ids
        <5>2. CASE k # key
          BY <1>9, <2>1, <5>2
        <5> QED
          BY <5>1, <5>2
      <4> QED
        BY <1>1, <1>6, <4>1, <4>2 DEF TableInv, EntriesInv
    <3> QED
      BY <3>1, <3>2, <3>3
  <2>2. ASSUME NEW id \in 1 .. n, id \notin removed
        PROVE  LET k == buildTaskSampleKey(fields_of'[id])
               IN  k \in DOMAIN subscribers' /\ id \in ToSet(subscribers'[k])
    <3>1. CASE id = n
      BY <1>6, <1>8, <1>9, <3>1
    <3>2. CASE id # n
      <4>1. id \in Given
        BY <1>4, <3>2
      <4>2. keyOf(id) \in DOMAIN subscribers /\ id \in ToSet(subscribers[keyOf(id)])
        BY <1>1, <2>2, <4>1 DEF TableInv, EntriesInv
      <4>3. keyOf(id) = key => id \in ToSet(ids(key))
        BY <4>2 DEF ids
      <4>4. keyOf(id) \in DOMAIN subscribers' /\ id \in ToSet(subscribers'[keyOf(id)])
        BY <1>8, <1>9, <4>2, <4>3
      <4> QED
        BY <1>6, <4>1, <4>4
    <3> QED
      BY <3>1, <3>2
  <2> QED
    BY <1>1, <1>3, <2>1, <2>2 DEF EntriesInv, keyOf
<1>13. (removed \subseteq Given)'
  BY <1>1, <1>3 DEF TableInv
<1> QED
  BY <1>10, <1>11, <1>12, <1>13 DEF TableInv

\* The list of a key after a removal, whether its entry stays or goes (remove).
LEMMA RemoveLists ==
    ASSUME NEW key, NEW id, TableInv, subscribers' = remove(key, id)
    PROVE  /\ DOMAIN subscribers' \subseteq DOMAIN subscribers
           /\ \A k : ids(k)' = IF k = key THEN RemoveFirst(ids(key), id) ELSE ids(k)
<1> DEFINE r == remaining(key, id)
<1>1. subscribers' = [k \in {j \in DOMAIN subscribers : j = key => r # << >>} |->
                         IF k = key THEN r ELSE subscribers[k]]
  BY DEF remove
<1>2. r = RemoveFirst(ids(key), id)
  BY DEF remaining
<1>3. key \notin DOMAIN subscribers => r = << >>
  <2> SUFFICES ASSUME key \notin DOMAIN subscribers PROVE r = << >>
    OBVIOUS
  <2>1. ids(key) = << >>
    BY DEF ids
  <2> QED
    BY <1>2, <2>1, RemoveProperties, IdsList DEF ToSet
<1> HIDE DEF r
<1>4. DOMAIN subscribers' = {j \in DOMAIN subscribers : j = key => r # << >>}
  BY <1>1
<1>5. ASSUME NEW k PROVE ids(k)' = IF k = key THEN r ELSE ids(k)
  <2>1. CASE k \in DOMAIN subscribers'
    BY <1>1, <1>4, <2>1 DEF ids
  <2>2. CASE k \notin DOMAIN subscribers'
    BY <1>3, <1>4, <2>2 DEF ids
  <2> QED
    BY <2>1, <2>2
<1> QED
  BY <1>2, <1>4, <1>5

\* A subscriber that goes leaves the others where they are (unsubscribe).
LEMMA UnsubscribeKeepsTable ==
    ASSUME TableInv, NEW t \in Threads, NEW h \in handles, NEW destroyed \in BOOLEAN,
           unsubscribe(t, h, destroyed)
    PROVE  TableInv'
<1> DEFINE key == h[1]
           id == h[2]
<1>1. /\ subscribers' = remove(key, id) /\ handles' \subseteq handles
      /\ removed' = removed \cup {id} /\ next_id' = next_id /\ alive' = alive
      /\ fields_of' = fields_of
  BY DEF unsubscribe
<1>2. id \in Given /\ key = keyOf(id) /\ Given' = Given
  BY <1>1 DEF TableInv, IdsInv, Given
<1> HIDE DEF key, id
<1>3. /\ DOMAIN subscribers' \subseteq DOMAIN subscribers
      /\ \A k : ids(k)' = IF k = key THEN RemoveFirst(ids(key), id) ELSE ids(k)
  BY <1>1, RemoveLists
<1>4. \A k : ids(k) \in Seq(Given) /\ distinct(ids(k))
  BY IdsList
<1>5. LET r == RemoveFirst(ids(key), id)
      IN  r \in Seq(Given) /\ distinct(r) /\ ToSet(r) = ToSet(ids(key)) \ {id}
  BY <1>4, RemoveProperties
<1>6. \A k \in DOMAIN subscribers' : ids(k)' = subscribers'[k] /\ k \in DOMAIN subscribers
  BY <1>3 DEF ids
<1>7. IdsInv'
  BY <1>1, <1>2 DEF TableInv, IdsInv, keyOf
<1>8. ListsInv'
  BY <1>2, <1>3, <1>4, <1>5, <1>6 DEF ListsInv
<1>9. EntriesInv'
  <2> SUFFICES ASSUME alive, NEW i \in Given
               PROVE  /\ \A k \in DOMAIN subscribers' :
                            i \in ToSet(subscribers'[k]) => i \notin removed' /\ keyOf(i) = k
                      /\ i \notin removed' =>
                            /\ keyOf(i) \in DOMAIN subscribers'
                            /\ i \in ToSet(subscribers'[keyOf(i)])
    BY <1>1, <1>2 DEF EntriesInv, keyOf
  <2>1. /\ \A k \in DOMAIN subscribers :
              i \in ToSet(subscribers[k]) => i \notin removed /\ keyOf(i) = k
        /\ i \notin removed =>
              keyOf(i) \in DOMAIN subscribers /\ i \in ToSet(subscribers[keyOf(i)])
    BY DEF TableInv, EntriesInv
  <2>2. ASSUME NEW k \in DOMAIN subscribers', i \in ToSet(subscribers'[k])
        PROVE  i \notin removed' /\ keyOf(i) = k
    <3>1. i \in ToSet(ids(k)) /\ (k = key => i # id)
      BY <1>3, <1>5, <1>6, <2>2
    <3>2. k \in DOMAIN subscribers /\ i \in ToSet(subscribers[k])
      BY <1>6, <2>2, <3>1 DEF ids
    <3>3. i \notin removed /\ keyOf(i) = k
      BY <2>1, <3>2
    <3> QED
      BY <1>1, <1>2, <3>1, <3>3
  <2>3. ASSUME i \notin removed'
        PROVE  keyOf(i) \in DOMAIN subscribers' /\ i \in ToSet(subscribers'[keyOf(i)])
    <3>0. PICK k : k = keyOf(i)
      OBVIOUS
    <3>1. i \notin removed /\ i # id
      BY <1>1, <2>3
    <3>2. i \in ToSet(ids(k))
      BY <2>1, <3>0, <3>1 DEF ids
    <3>3. i \in ToSet(ids(k)')
      BY <1>3, <1>5, <3>1, <3>2
    <3>4. k \in DOMAIN subscribers'
      BY <3>3 DEF ids, ToSet
    <3> QED
      BY <1>6, <3>0, <3>3, <3>4
  <2> QED
    BY <2>2, <2>3
<1> QED
  BY <1>1, <1>2, <1>7, <1>8, <1>9 DEF TableInv

\* Nothing else touches the table, except its destruction.
LEMMA TableStep == TableInv /\ [Next]_vars => TableInv'
<1> SUFFICES ASSUME TableInv, [Next]_vars PROVE TableInv'
  OBVIOUS
<1>1. ASSUME NEW t \in Threads, NEW f \in Requests, subscribe(t, f) PROVE TableInv'
  BY <1>1, SubscribeKeepsTable
<1>2. ASSUME NEW t \in Threads, NEW h \in handles, NEW destroyed \in BOOLEAN,
             unsubscribe(t, h, destroyed)
      PROVE  TableInv'
  BY <1>2, UnsubscribeKeepsTable
<1>3. CASE destroy
  <2>1. /\ subscribers' = [k \in {} |-> << >>] /\ alive' = FALSE /\ next_id' = next_id
        /\ handles' = handles /\ fields_of' = fields_of /\ removed' = removed
    BY <1>3 DEF destroy, history
  <2> QED
    BY <2>1 DEF TableInv, IdsInv, ListsInv, EntriesInv, Given, keyOf
<1>4. ASSUME UNCHANGED <<subscribers, next_id, alive, handles, fields_of, removed>>
      PROVE  TableInv'
  BY <1>4 DEF TableInv, IdsInv, ListsInv, EntriesInv, Given, keyOf
<1>5. CASE UNCHANGED vars
  BY <1>4, <1>5 DEF vars, table, history
<1>6. ASSUME NEW t \in Threads, NEW f \in Requests, publish(t, f) PROVE TableInv'
  BY <1>4, <1>6 DEF publish, table
<1>7. ASSUME NEW t \in Threads,
             \/ copyCallbacks(t) \/ leaveBlock(t) \/ callback(t)
             \/ CallbackReturns(t) \/ publishReturns(t)
      PROVE  TableInv'
  BY <1>4, <1>7 DEF copyCallbacks, leaveBlock, callback, CallbackReturns, publishReturns,
                    table, history
<1> QED
  BY <1>1, <1>2, <1>3, <1>5, <1>6, <1>7 DEF Next

\* The table agrees with the ids that were given and removed in every state.
LEMMA TableInvariant == Spec => []TableInv
<1>1. Init => TableInv
  <2> SUFFICES ASSUME Init PROVE TableInv
    OBVIOUS
  <2>1. Given = {}
    BY DEF Init, Given
  <2> QED
    BY <2>1 DEF Init, TableInv, IdsInv, ListsInv, EntriesInv
<1> QED
  BY <1>1, TableStep, PTL DEF Spec

\* While the transport lives its table holds exactly the subscribers that were not
\* removed, each under its own key: a removal never takes another subscriber off, and
\* one that was removed never comes back (subscribe, remove, ~Subscription).
THEOREM TableCorrect == Spec => []TableMatchesHandles
<1>1. TableInv => TableMatchesHandles
  <2> SUFFICES ASSUME TableInv, alive, NEW id \in Given,
                      NEW k \in DOMAIN subscribers \cup {keyOf(id)}
               PROVE  id \in ToSet(ids(k)) <=> id \notin removed /\ keyOf(id) = k
    BY DEF TableMatchesHandles, Given, keyOf
  <2>1. /\ \A j \in DOMAIN subscribers :
              id \in ToSet(subscribers[j]) => id \notin removed /\ keyOf(id) = j
        /\ id \notin removed =>
              keyOf(id) \in DOMAIN subscribers /\ id \in ToSet(subscribers[keyOf(id)])
    BY DEF TableInv, EntriesInv
  <2>2. CASE k \in DOMAIN subscribers
    BY <2>1, <2>2 DEF ids
  <2>3. CASE k \notin DOMAIN subscribers
    BY <2>1, <2>3 DEF ids, ToSet
  <2> QED
    BY <2>2, <2>3
<1> QED
  BY <1>1, TableInvariant, PTL

-----------------------------------------------------------------------------
(* The calls of publish                                                    *)

Stages == {"entering", "copying", "calling", "running"}

Frame == [message : Nat, stage : Stages, callbacks : Seq(Nat)]

\* No message is published by two calls.
unique(fr) ==
    \A t, u \in Threads : \A i \in DOMAIN fr[t], j \in DOMAIN fr[u] :
        fr[t][i].message = fr[u][j].message => t = u /\ i = j

\* framesOf in any state.
framesIn(fr, m) == {f \in UNION {ToSet(fr[t]) : t \in Threads} : f.message = m}

Stacks == [Threads -> Seq(Frame)]

\* What publish and the callbacks do to the stacks.
replaced(new, fr, t, n, g) == new = [fr EXCEPT ![t][n] = g]

pushed(new, fr, t, g) == new = [fr EXCEPT ![t] = Append(@, g)]

popped(new, fr, t, g) == new = [fr EXCEPT ![t] = Front(@)] /\ g = fr[t][Len(fr[t])]

\* The frames of a message are those at some place of some stack.
LEMMA FramesIn ==
    ASSUME NEW fr, NEW m, NEW f
    PROVE  f \in framesIn(fr, m) <=>
              \E t \in Threads : \E i \in DOMAIN fr[t] : fr[t][i] = f /\ f.message = m
BY DEF framesIn, ToSet

\* A call under way is the one call of its message.
LEMMA OneFrame ==
    ASSUME NEW fr, unique(fr), NEW t \in Threads, NEW i \in DOMAIN fr[t]
    PROVE  framesIn(fr, fr[t][i].message) = {fr[t][i]}
<1> SUFFICES ASSUME NEW f
             PROVE  f \in framesIn(fr, fr[t][i].message) <=> f = fr[t][i]
  OBVIOUS
<1>1. ASSUME f \in framesIn(fr, fr[t][i].message) PROVE f = fr[t][i]
  <2>1. PICK u \in Threads : \E j \in DOMAIN fr[u] :
            fr[u][j] = f /\ f.message = fr[t][i].message
    BY <1>1, FramesIn
  <2>2. PICK j \in DOMAIN fr[u] : fr[u][j] = f /\ f.message = fr[t][i].message
    BY <2>1
  <2>3. u = t /\ j = i
    BY <2>2 DEF unique
  <2> QED
    BY <2>2, <2>3
<1>2. fr[t][i] \in framesIn(fr, fr[t][i].message)
  BY FramesIn
<1> QED
  BY <1>1, <1>2

\* The innermost call of a thread goes on to its next stage.
LEMMA ReplaceFrame ==
    ASSUME NEW fr \in Stacks, unique(fr), NEW t \in Threads, NEW n \in DOMAIN fr[t],
           NEW g \in Frame, g.message = fr[t][n].message,
           NEW new, replaced(new, fr, t, n, g)
    PROVE  /\ new \in Stacks /\ unique(new)
           /\ \A u \in Threads : DOMAIN new[u] = DOMAIN fr[u]
           /\ \A u \in Threads : \A i \in DOMAIN fr[u] :
                 new[u][i] = IF u = t /\ i = n THEN g ELSE fr[u][i]
           /\ framesIn(new, g.message) = {g}
           /\ \A m : m # g.message => framesIn(new, m) = framesIn(fr, m)
<1>1. /\ new \in [Threads -> Seq(Frame)]
      /\ \A u \in Threads : u # t => new[u] = fr[u]
      /\ new[t] = [fr[t] EXCEPT ![n] = g]
  <2>1. fr[t] \in Seq(Frame) /\ n \in 1 .. Len(fr[t])
    BY DEF Stacks
  <2>2. [fr[t] EXCEPT ![n] = g] \in Seq(Frame)
    BY <2>1, ExceptSeq
  <2> QED
    BY <2>2 DEF Stacks, replaced
<1>2. /\ DOMAIN new[t] = DOMAIN fr[t]
      /\ \A i \in DOMAIN fr[t] : new[t][i] = IF i = n THEN g ELSE fr[t][i]
  <2>1. fr[t] \in Seq(Frame) /\ n \in 1 .. Len(fr[t])
    BY DEF Stacks
  <2> QED
    BY <1>1, <2>1
<1>3. \A u \in Threads : DOMAIN new[u] = DOMAIN fr[u]
  BY <1>1, <1>2
<1>4. \A u \in Threads : \A i \in DOMAIN fr[u] :
          new[u][i] = IF u = t /\ i = n THEN g ELSE fr[u][i]
  BY <1>1, <1>2
<1>5. \A u \in Threads : \A i \in DOMAIN fr[u] : new[u][i].message = fr[u][i].message
  BY <1>4
<1>6. unique(new)
  BY <1>3, <1>5 DEF unique
<1>7. new[t][n] = g
  BY <1>4
<1>8. framesIn(new, g.message) = {g}
  BY <1>3, <1>6, <1>7, OneFrame
<1>9. ASSUME NEW m, m # g.message PROVE framesIn(new, m) = framesIn(fr, m)
  <2> SUFFICES ASSUME NEW f PROVE f \in framesIn(new, m) <=> f \in framesIn(fr, m)
    OBVIOUS
  <2>1. \A u \in Threads : \A i \in DOMAIN fr[u] :
            (new[u][i] = f /\ f.message = m) <=> (fr[u][i] = f /\ f.message = m)
    BY <1>4, <1>5, <1>9
  <2> QED
    BY <1>3, <2>1, FramesIn
<1> QED
  BY <1>1, <1>3, <1>4, <1>6, <1>8, <1>9 DEF Stacks

\* A call of publish for a new message begins.
LEMMA PushFrame ==
    ASSUME NEW fr \in Stacks, unique(fr), NEW t \in Threads, NEW g \in Frame,
           \A u \in Threads : \A i \in DOMAIN fr[u] : fr[u][i].message # g.message,
           NEW new, pushed(new, fr, t, g)
    PROVE  /\ new \in Stacks /\ unique(new)
           /\ \A u \in Threads : \A i \in DOMAIN new[u] :
                 new[u][i] = g \/ (i \in DOMAIN fr[u] /\ new[u][i] = fr[u][i])
           /\ \E i \in DOMAIN new[t] : new[t][i] = g
           /\ \A m : m # g.message => framesIn(new, m) = framesIn(fr, m)
<1> DEFINE n == Len(fr[t]) + 1
<1>1. fr[t] \in Seq(Frame)
  BY DEF Stacks
<1>2. /\ Append(fr[t], g) \in Seq(Frame) /\ DOMAIN fr[t] = 1 .. Len(fr[t])
      /\ Append(fr[t], g)[n] = g /\ DOMAIN Append(fr[t], g) = 1 .. n /\ Len(fr[t]) \in Nat
      /\ \A i \in DOMAIN fr[t] : Append(fr[t], g)[i] = fr[t][i]
  BY <1>1
<1>3. /\ new \in [Threads -> Seq(Frame)]
      /\ \A u \in Threads : u # t => new[u] = fr[u]
      /\ new[t] = Append(fr[t], g)
  BY <1>2 DEF Stacks, pushed
<1>4. /\ n \in DOMAIN new[t] /\ new[t][n] = g /\ n \notin DOMAIN fr[t]
      /\ \A i \in DOMAIN new[t] : i = n \/ (i \in DOMAIN fr[t] /\ new[t][i] = fr[t][i])
      /\ \A i \in DOMAIN fr[t] : i \in DOMAIN new[t] /\ new[t][i] = fr[t][i]
  <2> DEFINE a == Append(fr[t], g)
  <2> HIDE DEF a
  <2>1. new[t] = a /\ a[n] = g /\ DOMAIN a = 1 .. n /\ \A i \in DOMAIN fr[t] : a[i] = fr[t][i]
    BY <1>2, <1>3 DEF a
  <2>2. /\ n \in 1 .. n /\ n \notin DOMAIN fr[t]
        /\ \A i \in 1 .. n : i = n \/ i \in DOMAIN fr[t]
        /\ \A i \in DOMAIN fr[t] : i \in 1 .. n
    BY <1>2
  <2> HIDE DEF n
  <2> QED
    BY <2>1, <2>2, Zenon
<1> HIDE DEF n
<1>5. \A u \in Threads : \A i \in DOMAIN new[u] :
          \/ u = t /\ i = n /\ new[u][i] = g
          \/ i \in DOMAIN fr[u] /\ new[u][i] = fr[u][i]
  BY <1>3, <1>4
<1>6. \A u \in Threads : \A i \in DOMAIN fr[u] : i \in DOMAIN new[u] /\ new[u][i] = fr[u][i]
  BY <1>3, <1>4
<1>7. unique(new)
  <2> SUFFICES ASSUME NEW u \in Threads, NEW v \in Threads, NEW i \in DOMAIN new[u],
                      NEW j \in DOMAIN new[v], new[u][i].message = new[v][j].message
               PROVE  u = v /\ i = j
    BY DEF unique
  <2>1. CASE u = t /\ i = n /\ new[u][i] = g
    BY <1>5, <2>1
  <2>2. CASE i \in DOMAIN fr[u] /\ new[u][i] = fr[u][i]
    BY <1>5, <2>2 DEF unique
  <2> QED
    BY <1>5, <2>1, <2>2
<1>8. \E i \in DOMAIN new[t] : new[t][i] = g
  BY <1>4
<1>9. ASSUME NEW m, m # g.message PROVE framesIn(new, m) = framesIn(fr, m)
  <2> SUFFICES ASSUME NEW f PROVE f \in framesIn(new, m) <=> f \in framesIn(fr, m)
    OBVIOUS
  <2>1. f \in framesIn(new, m) => f \in framesIn(fr, m)
    BY <1>5, <1>9, FramesIn
  <2>2. f \in framesIn(fr, m) => f \in framesIn(new, m)
    BY <1>6, FramesIn
  <2> QED
    BY <2>1, <2>2
<1>10. \A u \in Threads : \A i \in DOMAIN new[u] :
           new[u][i] = g \/ (i \in DOMAIN fr[u] /\ new[u][i] = fr[u][i])
  BY <1>5, Zenon
<1> QED
  BY <1>3, <1>7, <1>8, <1>9, <1>10 DEF Stacks

\* The innermost call of a thread returns.
LEMMA PopFrame ==
    ASSUME NEW fr \in Stacks, unique(fr), NEW t \in Threads, fr[t] # << >>,
           NEW g, NEW new, popped(new, fr, t, g)
    PROVE  /\ new \in Stacks /\ unique(new)
           /\ \A u \in Threads : \A i \in DOMAIN new[u] :
                 i \in DOMAIN fr[u] /\ new[u][i] = fr[u][i]
           /\ framesIn(new, g.message) = {}
           /\ \A m : m # g.message => framesIn(new, m) = framesIn(fr, m)
<1> DEFINE n == Len(fr[t])
<1>1. fr[t] \in Seq(Frame)
  BY DEF Stacks
<1>2. n \in Nat \ {0} /\ DOMAIN fr[t] = 1 .. n
  BY <1>1
<1>3. /\ Front(fr[t]) \in Seq(Frame) /\ DOMAIN Front(fr[t]) = 1 .. n - 1
      /\ \A i \in 1 .. n - 1 : Front(fr[t])[i] = fr[t][i]
  <2>1. \A i \in 1 .. n - 1 : fr[t][i] \in Frame
    BY <1>1, <1>2
  <2>2. 1 \in Int /\ n - 1 \in Int
    BY <1>2
  <2> DEFINE s == SubSeq(fr[t], 1, n - 1)
  <2>3. /\ s \in Seq(Frame)
        /\ Len(s) = IF 1 <= n - 1 THEN (n - 1) - 1 + 1 ELSE 0
        /\ \A i \in 1 .. (n - 1) - 1 + 1 : s[i] = fr[t][1 + i - 1]
    <3> HIDE DEF n
    <3> QED
      BY <2>1, <2>2, SubSeqProperties
  <2> HIDE DEF s
  <2>4. Len(s) = n - 1
    BY <1>2, <2>3
  <2>5. DOMAIN s = 1 .. n - 1
    BY <2>3, <2>4
  <2>6. \A i \in 1 .. n - 1 : s[i] = fr[t][i]
    <3> HIDE DEF n
    <3>1. (n - 1) - 1 + 1 = n - 1 /\ \A i \in 1 .. n - 1 : 1 + i - 1 = i
      BY <1>2
    <3> QED
      BY <2>3, <3>1
  <2> QED
    BY <2>3, <2>5, <2>6 DEF Front, s
<1>4. /\ new \in [Threads -> Seq(Frame)]
      /\ \A u \in Threads : u # t => new[u] = fr[u]
      /\ new[t] = Front(fr[t]) /\ fr[t][n] = g
  BY <1>3 DEF Stacks, popped
<1>5. /\ n \in DOMAIN fr[t] /\ n \notin DOMAIN new[t] /\ fr[t][n] = g
      /\ \A i \in DOMAIN new[t] : i \in DOMAIN fr[t] /\ new[t][i] = fr[t][i]
      /\ \A i \in DOMAIN fr[t] : i = n \/ (i \in DOMAIN new[t] /\ new[t][i] = fr[t][i])
  <2>1. /\ n \in 1 .. n /\ n \notin 1 .. n - 1
        /\ \A i \in 1 .. n : i = n \/ i \in 1 .. n - 1
        /\ \A i \in 1 .. n - 1 : i \in 1 .. n
    BY <1>2
  <2> HIDE DEF n
  <2>2. DOMAIN new[t] = 1 .. n - 1 /\ \A i \in 1 .. n - 1 : new[t][i] = fr[t][i]
    BY <1>3, <1>4
  <2> QED
    BY <1>2, <1>4, <2>1, <2>2, Zenon
<1> HIDE DEF n
<1>6. \A u \in Threads : \A i \in DOMAIN new[u] :
          i \in DOMAIN fr[u] /\ new[u][i] = fr[u][i] /\ ~ (u = t /\ i = n)
  BY <1>4, <1>5
<1>7. \A u \in Threads : \A i \in DOMAIN fr[u] :
          (u = t /\ i = n) \/ (i \in DOMAIN new[u] /\ new[u][i] = fr[u][i])
  BY <1>4, <1>5
<1>8. unique(new)
  BY <1>6 DEF unique
<1>9. framesIn(new, g.message) = {}
  <2> SUFFICES ASSUME NEW f, f \in framesIn(new, g.message) PROVE FALSE
    OBVIOUS
  <2>1. PICK u \in Threads : \E i \in DOMAIN new[u] :
            new[u][i] = f /\ f.message = g.message
    BY FramesIn
  <2>2. PICK i \in DOMAIN new[u] : new[u][i] = f /\ f.message = g.message
    BY <2>1
  <2> QED
    BY <1>5, <1>6, <2>2 DEF unique
<1>10. ASSUME NEW m, m # g.message PROVE framesIn(new, m) = framesIn(fr, m)
  <2> SUFFICES ASSUME NEW f PROVE f \in framesIn(new, m) <=> f \in framesIn(fr, m)
    OBVIOUS
  <2>1. f \in framesIn(new, m) => f \in framesIn(fr, m)
    BY <1>6, FramesIn
  <2>2. f \in framesIn(fr, m) => f \in framesIn(new, m)
    BY <1>5, <1>7, <1>10, FramesIn
  <2> QED
    BY <2>1, <2>2
<1> QED
  BY <1>4, <1>6, <1>8, <1>9, <1>10 DEF Stacks

\* Every call under way is for a message that was published, it alone, and has nothing
\* to call before it has copied its callbacks.
FramesInv ==
    /\ messages \in Seq(topics)
    /\ called \in Seq(Seq(Nat)) /\ Len(called) = Len(messages)
    /\ frames \in Stacks /\ unique(frames)
    /\ \A t \in Threads : \A i \in DOMAIN frames[t] :
          /\ frames[t][i].message \in DOMAIN messages
          /\ frames[t][i].stage = "entering" => frames[t][i].callbacks = << >>

\* The post of a message, as the calls of publish for it have it.
postOf(msgs, fr, cl, m) ==
    [topic |-> msgs[m],
     taken |-> \A f \in framesIn(fr, m) : f.stage # "entering",
     owed  |-> IF framesIn(fr, m) = {} THEN << >>
               ELSE (CHOOSE f \in framesIn(fr, m) : TRUE).callbacks,
     done  |-> cl[m]]

\* The posts of the refinement mapping, before and after a step.
LEMMA PostsNow ==
    /\ postsNow = [m \in DOMAIN messages |-> postOf(messages, frames, called, m)]
    /\ postsNow' = [m \in DOMAIN messages' |-> postOf(messages', frames', called', m)]
BY DEF postsNow, postOf, framesOf, framesIn

\* A post with one call under way.
LEMMA PostUnderWay ==
    ASSUME NEW msgs, NEW fr, NEW cl, NEW m, NEW f, framesIn(fr, m) = {f}
    PROVE  postOf(msgs, fr, cl, m) = [topic |-> msgs[m], taken |-> f.stage # "entering",
                                      owed |-> f.callbacks, done |-> cl[m]]
<1>1. (CHOOSE g \in {f} : TRUE) = f
  OBVIOUS
<1>2. (\A g \in {f} : g.stage # "entering") = (f.stage # "entering")
  OBVIOUS
<1> QED
  BY <1>1, <1>2 DEF postOf

\* A post whose call has returned.
LEMMA PostReturned ==
    ASSUME NEW msgs, NEW fr, NEW cl, NEW m, framesIn(fr, m) = {}
    PROVE  postOf(msgs, fr, cl, m) = [topic |-> msgs[m], taken |-> TRUE,
                                      owed |-> << >>, done |-> cl[m]]
BY DEF postOf

\* The innermost call of a thread that is in publish.
LEMMA Innermost ==
    ASSUME FramesInv, NEW t \in Threads, frames[t] # << >>
    PROVE  LET n == Len(frames[t])
           IN  /\ n \in DOMAIN frames[t] /\ frames[t][n] = innermost(t)
               /\ innermost(t) \in Frame
               /\ innermost(t).message \in DOMAIN messages
               /\ innermost(t).stage = "entering" => innermost(t).callbacks = << >>
               /\ framesIn(frames, innermost(t).message) = {innermost(t)}
<1> DEFINE n == Len(frames[t])
<1>1. frames[t] \in Seq(Frame)
  BY DEF FramesInv, Stacks
<1>2. n \in DOMAIN frames[t] /\ frames[t][n] \in Frame
  BY <1>1
<1>3. frames[t][n] = innermost(t)
  BY DEF innermost
<1>4. framesIn(frames, frames[t][n].message) = {frames[t][n]}
  <2>1. unique(frames) /\ n \in DOMAIN frames[t]
    BY <1>2 DEF FramesInv
  <2> HIDE DEF n
  <2> QED
    BY <2>1, OneFrame, Zenon
<1> QED
  BY <1>2, <1>3, <1>4 DEF FramesInv

\* A step of the innermost call of a thread that keeps its message.
LEMMA StageStep ==
    ASSUME FramesInv, NEW t \in Threads, frames[t] # << >>,
           NEW g \in Frame, g.message = innermost(t).message, g.stage # "entering",
           replaced(frames', frames, t, Len(frames[t]), g),
           messages' = messages, called' \in Seq(Seq(Nat)), Len(called') = Len(called)
    PROVE  /\ FramesInv'
           /\ framesIn(frames', g.message) = {g}
           /\ \A m : m # g.message => framesIn(frames', m) = framesIn(frames, m)
<1> DEFINE n == Len(frames[t])
<1>1. n \in DOMAIN frames[t] /\ frames[t][n] = innermost(t)
      /\ innermost(t).message \in DOMAIN messages
  BY Innermost
<1>2. replaced(frames', frames, t, n, g)
  OBVIOUS
<1>3. /\ frames' \in Stacks /\ unique(frames')
      /\ \A u \in Threads : DOMAIN frames'[u] = DOMAIN frames[u]
      /\ \A u \in Threads : \A i \in DOMAIN frames[u] :
            frames'[u][i] = IF u = t /\ i = n THEN g ELSE frames[u][i]
      /\ framesIn(frames', g.message) = {g}
      /\ \A m : m # g.message => framesIn(frames', m) = framesIn(frames, m)
  <2>1. frames \in Stacks /\ unique(frames)
    BY DEF FramesInv
  <2>2. n \in DOMAIN frames[t] /\ g.message = frames[t][n].message
    BY <1>1
  <2> HIDE DEF n
  <2>3. frames' \in Stacks /\ unique(frames')
    BY <1>2, <2>1, <2>2, ReplaceFrame
  <2>5. \A m : m # g.message => framesIn(frames', m) = framesIn(frames, m)
    BY <1>2, <2>1, <2>2, ReplaceFrame
  <2>6. \A u \in Threads : DOMAIN frames'[u] = DOMAIN frames[u]
    BY <1>2, <2>1, <2>2, ReplaceFrame
  <2>7. \A u \in Threads : \A i \in DOMAIN frames[u] :
            frames'[u][i] = IF u = t /\ i = n THEN g ELSE frames[u][i]
    BY <1>2, <2>1, <2>2, ReplaceFrame
  <2>8. n \in DOMAIN frames'[t]
    BY <2>2, <2>6
  <2>9. framesIn(frames', frames'[t][n].message) = {frames'[t][n]}
    BY ONLY t \in Threads, <2>3, <2>8, OneFrame, Zenon
  <2>10. framesIn(frames', g.message) = {g}
    BY <2>2, <2>7, <2>9
  <2> QED
    BY <2>3, <2>5, <2>6, <2>7, <2>10
<1> HIDE DEF n
<1>4. \A u \in Threads : \A i \in DOMAIN frames'[u] :
          /\ frames'[u][i].message \in DOMAIN messages'
          /\ frames'[u][i].stage = "entering" => frames'[u][i].callbacks = << >>
  <2> SUFFICES ASSUME NEW u \in Threads, NEW i \in DOMAIN frames'[u]
               PROVE  /\ frames'[u][i].message \in DOMAIN messages'
                      /\ frames'[u][i].stage = "entering" => frames'[u][i].callbacks = << >>
    OBVIOUS
  <2>1. i \in DOMAIN frames[u]
    BY <1>3
  <2>2. frames'[u][i] = IF u = t /\ i = n THEN g ELSE frames[u][i]
    BY <1>3, <2>1
  <2>3. /\ frames[u][i].message \in DOMAIN messages
        /\ frames[u][i].stage = "entering" => frames[u][i].callbacks = << >>
    BY <2>1 DEF FramesInv
  <2> QED
    BY <1>1, <2>2, <2>3
<1> QED
  BY <1>3, <1>4 DEF FramesInv

-----------------------------------------------------------------------------
(* The transport implements the broadcast                                  *)

\* Requests with a valid key are told apart by it.
LEMMA KeysDiffer ==
    ASSUME NEW f \in topics, NEW g \in topics, f # g
    PROVE  buildTaskSampleKey(f) # buildTaskSampleKey(g)
<1> SUFFICES ASSUME buildTaskSampleKey(f) = buildTaskSampleKey(g) PROVE FALSE
  OBVIOUS
<1>1. validateTaskSampleKey(buildTaskSampleKey(f)) /\ f \in Requests /\ g \in Requests
  BY DEF topics
<1>2. /\ f.session_id = g.session_id /\ f.task_id = g.task_id
      /\ f.channel = g.channel /\ f.schema_id = g.schema_id
  BY <1>1, KeyDeterminesFields
<1>3. /\ f = [session_id |-> f.session_id, task_id |-> f.task_id,
              channel |-> f.channel, schema_id |-> f.schema_id]
      /\ g = [session_id |-> g.session_id, task_id |-> g.task_id,
              channel |-> g.channel, schema_id |-> g.schema_id]
  BY <1>1, TransportAssumption
<1> QED
  BY <1>2, <1>3

\* Posts depend on nothing but these.
LEMMA PostsStay ==
    ASSUME UNCHANGED <<messages, frames, called>>
    PROVE  postsNow' = postsNow /\ (FramesInv => FramesInv')
BY PostsNow DEF FramesInv

\* Members depend on nothing but the table.
LEMMA MembersStay ==
    ASSUME UNCHANGED subscribers
    PROVE  membersNow' = membersNow
BY DEF membersNow, ids

\* A change of one list is a change of one topic.
LEMMA OneTopic ==
    ASSUME NEW c \in topics, NEW list,
           ids(buildTaskSampleKey(c))' = list,
           \A k : k # buildTaskSampleKey(c) => ids(k)' = ids(k)
    PROVE  membersNow' = [membersNow EXCEPT ![c] = list]
<1>1. \A f \in topics : f # c =>
          ids(buildTaskSampleKey(f))' = ids(buildTaskSampleKey(f))
  BY KeysDiffer
<1>2. membersNow' = [f \in topics |-> ids(buildTaskSampleKey(f))']
  BY DEF membersNow
<1> QED
  BY <1>1, <1>2 DEF membersNow

\* The sequence operators of the instance are the ones used here.
LEMMA SameOperators ==
    ASSUME NEW s, NEW e
    PROVE  /\ Users!Last(s) = Last(s) /\ Users!ToSet(s) = ToSet(s)
           /\ Users!RemoveFirst(s, e) = RemoveFirst(s, e)
BY DEF Users!Last, Last, Users!ToSet, ToSet, Users!RemoveFirst, RemoveFirst,
       Users!RemoveAt, RemoveAt, Users!SelectInSeq, SelectInSeq, Users!Min, Min

\* subscribe: a new member joins.
LEMMA SubscribeRefines ==
    ASSUME TableInv, NEW t \in Threads, NEW f \in Requests, subscribe(t, f)
    PROVE  f \in topics /\ Users!Join(f)
<1> DEFINE key == buildTaskSampleKey(f)
<1>1. f \in topics
  BY DEF subscribe, topics
<1>2. \A k : ids(k) \in Seq(Given) /\ distinct(ids(k))
  BY IdsList
<1>3. \A k : next_id \notin ToSet(ids(k))
  <2> SUFFICES ASSUME NEW k PROVE next_id \notin ToSet(ids(k))
    OBVIOUS
  <2>1. ids(k) \in Seq(Given)
    BY <1>2
  <2>2. \A i \in DOMAIN ids(k) : ids(k)[i] \in Given
    BY <2>1
  <2>3. next_id \notin Given
    BY DEF TableInv, IdsInv, Given
  <2> QED
    BY <2>2, <2>3 DEF ToSet
<1>4. PICK n : n = next_id
  OBVIOUS
<1> DEFINE list == Append(ids(key), n)
<1>5. subscribers' = [k \in DOMAIN subscribers \cup {key} |->
                         IF k = key THEN list ELSE subscribers[k]]
  BY <1>4 DEF subscribe
<1>6. PICK new : new = list
  OBVIOUS
<1> HIDE DEF list, key
<1>7. ids(key)' = new /\ \A k : k # key => ids(k)' = ids(k)
  BY <1>5, <1>6 DEF ids
<1>8. membersNow' = [membersNow EXCEPT ![f] = new]
  BY <1>1, <1>7, OneTopic DEF key
<1>9. membersNow[f] = ids(key) /\ f \in DOMAIN membersNow
  BY <1>1 DEF membersNow, key
<1>10. membersNow'[f] = new
  BY <1>8, <1>9
<1>11. new # << >> /\ Last(new) = n
  <2>1. ids(key) \in Seq(Nat \cup {n})
    <3>1. Given \subseteq Nat \cup {n}
      BY DEF Given, TableInv, IdsInv
    <3> QED
      BY <1>2, <3>1, SeqMonotonic
  <2>2. distinct(ids(key)) /\ n \notin ToSet(ids(key)) /\ n \in Nat \cup {n}
    BY <1>2, <1>3, <1>4
  <2> QED
    BY <1>6, <2>1, <2>2, AppendNew DEF list
<1>12. \A d \in topics : n \notin ToSet(membersNow[d])
  BY <1>3, <1>4 DEF membersNow
<1>13. postsNow' = postsNow
  BY PostsStay DEF subscribe
<1>14. Users!Last(membersNow'[f]) = n
  BY <1>10, <1>11, SameOperators
<1>15. membersNow' = [membersNow EXCEPT ![f] = Append(membersNow[f], Users!Last(membersNow'[f]))]
  BY <1>6, <1>8, <1>9, <1>14 DEF list
<1>16. \A d \in topics : Users!Last(membersNow'[f]) \notin Users!ToSet(membersNow[d])
  BY <1>12, <1>14, SameOperators
<1>17. membersNow'[f] # << >>
  BY <1>10, <1>11
<1> QED
  BY ONLY <1>1, <1>13, <1>15, <1>16, <1>17, Zenon DEF Users!Join

\* unsubscribe: a member leaves, or nothing happens when it left before.
LEMMA UnsubscribeRefines ==
    ASSUME TableInv, NEW t \in Threads, NEW h \in handles, NEW destroyed \in BOOLEAN,
           unsubscribe(t, h, destroyed)
    PROVE  \/ \E c \in topics : Users!Leave(c)
           \/ UNCHANGED <<membersNow, postsNow>>
<1>1. PICK id : id = h[2]
  OBVIOUS
<1>2. PICK c : c = fields_of[id]
  OBVIOUS
<1> DEFINE key == buildTaskSampleKey(c)
           r == RemoveFirst(ids(key), id)
<1>3. c \in topics /\ h[1] = key
  BY <1>1, <1>2 DEF TableInv, IdsInv, Given, keyOf
<1>4. subscribers' = remove(key, id)
  BY <1>1, <1>3 DEF unsubscribe
<1>5. \A k : ids(k)' = IF k = key THEN r ELSE ids(k)
  BY <1>4, RemoveLists
<1>6. PICK new : new = r
  OBVIOUS
<1>7. ids(key) \in Seq(Given) /\ distinct(ids(key))
  BY IdsList
<1>8. id \notin ToSet(ids(key)) => new = ids(key)
  BY <1>6, <1>7, RemoveProperties
<1> HIDE DEF r
<1>9. membersNow' = [membersNow EXCEPT ![c] = new]
  BY <1>3, <1>5, <1>6, OneTopic
<1>10. membersNow[c] = ids(key) /\ membersNow = [f \in topics |-> membersNow[f]]
  BY <1>3 DEF membersNow
<1>11. postsNow' = postsNow
  BY PostsStay DEF unsubscribe
<1>12. CASE id \in ToSet(ids(key))
  <2>1. membersNow' = [membersNow EXCEPT ![c] = RemoveFirst(membersNow[c], id)]
    BY <1>6, <1>9, <1>10 DEF r
  <2>2. id \in ToSet(membersNow[c])
    BY <1>10, <1>12
  <2>4. /\ id \in Users!ToSet(membersNow[c])
        /\ membersNow' = [membersNow EXCEPT ![c] = Users!RemoveFirst(membersNow[c], id)]
    BY <2>1, <2>2, SameOperators
  <2>3. Users!Leave(c)
    BY ONLY <1>11, <2>4, Zenon DEF Users!Leave
  <2> QED
    BY <1>3, <2>3
<1>13. CASE id \notin ToSet(ids(key))
  <2>1. membersNow' = membersNow
    BY <1>3, <1>8, <1>9, <1>10, <1>13
  <2> QED
    BY <1>11, <2>1
<1> QED
  BY <1>12, <1>13

\* A post depends on its own message only.
LEMMA SamePost ==
    ASSUME NEW msgs1, NEW msgs2, NEW fr1, NEW fr2, NEW cl1, NEW cl2, NEW m,
           msgs1[m] = msgs2[m], framesIn(fr1, m) = framesIn(fr2, m), cl1[m] = cl2[m]
    PROVE  postOf(msgs1, fr1, cl1, m) = postOf(msgs2, fr2, cl2, m)
<1>1. PICK S : S = framesIn(fr1, m)
  OBVIOUS
<1>2. S = framesIn(fr2, m)
  BY <1>1
<1> DEFINE taken == \A f \in S : f.stage # "entering"
           owed == IF S = {} THEN << >> ELSE (CHOOSE f \in S : TRUE).callbacks
<1>3. postOf(msgs1, fr1, cl1, m) =
          [topic |-> msgs1[m], taken |-> taken, owed |-> owed, done |-> cl1[m]]
  BY ONLY <1>1 DEF postOf
<1>4. postOf(msgs2, fr2, cl2, m) =
          [topic |-> msgs2[m], taken |-> taken, owed |-> owed, done |-> cl2[m]]
  BY ONLY <1>2 DEF postOf
<1> HIDE DEF taken, owed
<1> QED
  BY <1>3, <1>4

\* A step that concerns one message changes its post and no other.
LEMMA OnePost ==
    ASSUME messages' = messages, NEW m \in DOMAIN messages,
           \A k : k # m => framesIn(frames', k) = framesIn(frames, k),
           \A k \in DOMAIN messages : k # m => called'[k] = called[k],
           NEW p, postOf(messages, frames', called', m) = p
    PROVE  postsNow' = [postsNow EXCEPT ![m] = p]
<1>1. \A k \in DOMAIN messages : k # m =>
          postOf(messages', frames', called', k) = postOf(messages, frames, called, k)
  BY SamePost
<1>2. postsNow' = [k \in DOMAIN messages |->
                      IF k = m THEN p ELSE postOf(messages, frames, called, k)]
  BY <1>1, PostsNow
<1>3. postsNow = [k \in DOMAIN messages |-> postOf(messages, frames, called, k)]
  BY PostsNow
<1>4. PICK old : old = postsNow
  OBVIOUS
<1>5. /\ DOMAIN old = DOMAIN messages
      /\ \A k \in DOMAIN messages : old[k] = postOf(messages, frames, called, k)
  BY <1>3, <1>4
<1>6. postsNow' = [old EXCEPT ![m] = p]
  BY ONLY <1>2, <1>5, m \in DOMAIN messages
<1> QED
  BY <1>4, <1>6

\* The post of the message whose publish is innermost in a thread.
LEMMA InnermostPost ==
    ASSUME FramesInv, NEW t \in Threads, frames[t] # << >>
    PROVE  LET f == innermost(t)
           IN  /\ DOMAIN postsNow = DOMAIN messages
               /\ postsNow[f.message] = [topic |-> messages[f.message],
                                         taken |-> f.stage # "entering",
                                         owed |-> f.callbacks, done |-> called[f.message]]
<1>1. PICK f : f = innermost(t)
  OBVIOUS
<1>2. f.message \in DOMAIN messages /\ framesIn(frames, f.message) = {f}
  BY <1>1, Innermost
<1>3. postsNow[f.message] = postOf(messages, frames, called, f.message)
  BY <1>2, PostsNow
<1> QED
  BY <1>1, <1>2, <1>3, PostUnderWay, PostsNow

\* The end of the locked block and the return of a callback: the users see nothing.
LEMMA QuietStageRefines ==
    ASSUME FramesInv, NEW t \in Threads, frames[t] # << >>,
           innermost(t).stage # "entering",
           frames' = replaceInnermost(t, [innermost(t) EXCEPT !.stage = "calling"]),
           UNCHANGED <<messages, called>>
    PROVE  FramesInv' /\ postsNow' = postsNow
<1>1. PICK f : f = innermost(t)
  OBVIOUS
<1>2. PICK g : g = [f EXCEPT !.stage = "calling"]
  OBVIOUS
<1>3. f \in Frame /\ f.message \in DOMAIN messages
  BY <1>1, Innermost
<1>4. /\ g \in Frame /\ g.message = f.message /\ g.callbacks = f.callbacks
      /\ g.stage = "calling"
  BY <1>2, <1>3 DEF Frame, Stages
<1>5. replaced(frames', frames, t, Len(frames[t]), g)
  BY <1>1, <1>2 DEF replaced, replaceInnermost
<1>6. called' \in Seq(Seq(Nat)) /\ Len(called') = Len(called)
  BY DEF FramesInv
<1>7. /\ FramesInv' /\ framesIn(frames', g.message) = {g}
      /\ \A m : m # g.message => framesIn(frames', m) = framesIn(frames, m)
  BY <1>1, <1>4, <1>5, <1>6, StageStep
<1>8. PICK p : p = postsNow[f.message]
  OBVIOUS
<1>9. p = [topic |-> messages[f.message], taken |-> TRUE,
           owed |-> f.callbacks, done |-> called[f.message]]
  BY <1>1, <1>8, InnermostPost
<1>10. postOf(messages, frames', called', g.message) = p
  <2>1. framesIn(frames', g.message) = {g}
    BY <1>7
  <2>2. postOf(messages, frames', called', g.message) =
            [topic |-> messages[g.message], taken |-> g.stage # "entering",
             owed |-> g.callbacks, done |-> called'[g.message]]
    BY ONLY <2>1, PostUnderWay
  <2> QED
    BY <1>4, <1>9, <2>2
<1>11. postsNow' = [postsNow EXCEPT ![f.message] = p]
  BY <1>3, <1>4, <1>7, <1>10, OnePost
<1>12. DOMAIN postsNow = DOMAIN messages
  BY PostsNow
<1> QED
  BY <1>3, <1>7, <1>8, <1>11, <1>12, PostsNow

\* copyCallbacks: the instant that decides who is called.
LEMMA CopyRefines ==
    ASSUME TableInv, FramesInv, NEW t \in Threads, copyCallbacks(t)
    PROVE  /\ FramesInv'
           /\ \E m \in DOMAIN postsNow : Users!Take(m)
<1>1. PICK f : f = innermost(t)
  OBVIOUS
<1>2. PICK m : m = f.message
  OBVIOUS
<1>3. PICK list : list = ids(buildTaskSampleKey(messages[m]))
  OBVIOUS
<1>4. PICK g : g = [f EXCEPT !.stage = "copying", !.callbacks = list]
  OBVIOUS
<1>5. frames[t] # << >> /\ f.stage = "entering"
  BY <1>1 DEF copyCallbacks, at
<1>6. f \in Frame /\ m \in DOMAIN messages
  BY <1>1, <1>2, <1>5, Innermost
<1>7. list \in Seq(Nat)
  <2>1. Given \subseteq Nat
    BY DEF Given, TableInv, IdsInv
  <2> QED
    BY <1>3, <2>1, IdsList, SeqMonotonic
<1>8. /\ g \in Frame /\ g.message = m /\ g.callbacks = list /\ g.stage = "copying"
  BY <1>2, <1>4, <1>6, <1>7 DEF Frame, Stages
<1>9. replaced(frames', frames, t, Len(frames[t]), g)
  BY <1>1, <1>2, <1>3, <1>4 DEF replaced, replaceInnermost, copyCallbacks, callbacks
<1>10. UNCHANGED <<messages, called, subscribers>>
  BY DEF copyCallbacks, history, table
<1>11. called' \in Seq(Seq(Nat)) /\ Len(called') = Len(called)
  BY <1>10 DEF FramesInv
<1>12. /\ FramesInv' /\ framesIn(frames', g.message) = {g}
       /\ \A k : k # g.message => framesIn(frames', k) = framesIn(frames, k)
  BY <1>1, <1>2, <1>5, <1>8, <1>9, <1>10, <1>11, StageStep
<1>13. postsNow[m] = [topic |-> messages[m], taken |-> FALSE,
                      owed |-> f.callbacks, done |-> called[m]]
  BY <1>1, <1>2, <1>5, InnermostPost
<1>14. PICK p : p = [topic |-> messages[m], taken |-> TRUE,
                     owed |-> list, done |-> called[m]]
  OBVIOUS
<1>15. postOf(messages, frames', called', m) = p
  <2>1. framesIn(frames', m) = {g}
    BY <1>8, <1>12
  <2>2. postOf(messages, frames', called', m) =
            [topic |-> messages[m], taken |-> g.stage # "entering",
             owed |-> g.callbacks, done |-> called'[m]]
    BY ONLY <2>1, PostUnderWay
  <2> QED
    BY <1>8, <1>10, <1>14, <2>2
<1>16. postsNow' = [postsNow EXCEPT ![m] = p]
  BY <1>6, <1>8, <1>10, <1>12, <1>15, OnePost
<1>17. DOMAIN postsNow = DOMAIN messages
  BY PostsNow
<1>18. membersNow[messages[m]] = list
  <2>1. messages[m] \in topics
    BY <1>6 DEF FramesInv
  <2> QED
    BY <1>3, <2>1 DEF membersNow
<1>19. postsNow' = [postsNow EXCEPT ![m].taken = TRUE,
                                    ![m].owed = membersNow[postsNow[m].topic]]
  <2>1. postsNow[m].topic = messages[m]
    BY <1>13
  <2>2. [postsNow[m] EXCEPT !.taken = TRUE, !.owed = list] = p
    <3>1. PICK old : old = postsNow[m]
      OBVIOUS
    <3>2. old = [topic |-> messages[m], taken |-> FALSE,
                 owed |-> f.callbacks, done |-> called[m]]
      BY <1>13, <3>1
    <3>3. PICK r : r = [old EXCEPT !.taken = TRUE, !.owed = list]
      OBVIOUS
    <3>4. r = [z \in {"topic", "taken", "owed", "done"} |-> r[z]]
      BY ONLY <3>2, <3>3
    <3>5. r.topic = messages[m] /\ r.taken = TRUE /\ r.owed = list /\ r.done = called[m]
      BY ONLY <3>2, <3>3
    <3>6. r = p
      BY ONLY <1>14, <3>4, <3>5
    <3> QED
      BY <3>1, <3>3, <3>6
  <2> QED
    BY <1>6, <1>16, <1>17, <1>18, <2>1, <2>2
<1>20. membersNow' = membersNow
  BY <1>10, MembersStay
<1>21. ~ postsNow[m].taken
  BY <1>13
<1>22. m \in DOMAIN postsNow
  BY <1>6, <1>17
<1>23. Users!Take(m)
  BY ONLY <1>19, <1>20, <1>21 DEF Users!Take
<1> QED
  BY <1>12, <1>22, <1>23

\* callback: the next subscriber gets the message.
LEMMA CallbackRefines ==
    ASSUME FramesInv, NEW t \in Threads, callback(t)
    PROVE  /\ FramesInv'
           /\ \E m \in DOMAIN postsNow : Users!Hand(m)
<1>1. PICK f : f = innermost(t)
  OBVIOUS
<1>2. PICK m : m = f.message
  OBVIOUS
<1>3. PICK list : list = f.callbacks
  OBVIOUS
<1>4. PICK g : g = [f EXCEPT !.stage = "running", !.callbacks = Tail(list)]
  OBVIOUS
<1>5. frames[t] # << >> /\ f.stage = "calling" /\ list # << >>
  BY <1>1, <1>3 DEF callback, at
<1>6. f \in Frame /\ m \in DOMAIN messages
  BY <1>1, <1>2, <1>5, Innermost
<1>7. list \in Seq(Nat) /\ Tail(list) \in Seq(Nat) /\ Head(list) \in Nat
  BY <1>3, <1>5, <1>6 DEF Frame
<1>8. /\ g \in Frame /\ g.message = m /\ g.callbacks = Tail(list) /\ g.stage = "running"
  BY <1>2, <1>4, <1>6, <1>7 DEF Frame, Stages
<1>9. replaced(frames', frames, t, Len(frames[t]), g)
  BY <1>1, <1>3, <1>4 DEF replaced, replaceInnermost, callback
<1>10. UNCHANGED <<messages, subscribers>>
  BY DEF callback, table
<1>11. PICK done : done = Append(called[m], Head(list))
  OBVIOUS
<1>12. called' = [called EXCEPT ![m] = done]
  BY <1>1, <1>2, <1>3, <1>11 DEF callback
<1>13. called \in Seq(Seq(Nat)) /\ m \in 1 .. Len(called)
  BY <1>6 DEF FramesInv
<1>14. done \in Seq(Nat)
  <2>1. called[m] \in Seq(Nat)
    BY <1>13
  <2> QED
    BY <1>7, <1>11, <2>1
<1>15. called' \in Seq(Seq(Nat)) /\ Len(called') = Len(called)
  BY <1>12, <1>13, <1>14, ExceptSeq
<1>16. called'[m] = done /\ \A k \in DOMAIN messages : k # m => called'[k] = called[k]
  <2>1. DOMAIN messages = DOMAIN called
    BY DEF FramesInv
  <2> QED
    BY <1>12, <1>13, <2>1
<1>17. /\ FramesInv' /\ framesIn(frames', g.message) = {g}
       /\ \A k : k # g.message => framesIn(frames', k) = framesIn(frames, k)
  BY <1>1, <1>2, <1>5, <1>8, <1>9, <1>10, <1>15, StageStep
<1>18. postsNow[m] = [topic |-> messages[m], taken |-> TRUE,
                      owed |-> list, done |-> called[m]]
  BY <1>1, <1>2, <1>3, <1>5, InnermostPost
<1>19. PICK p : p = [topic |-> messages[m], taken |-> TRUE,
                     owed |-> Tail(list), done |-> done]
  OBVIOUS
<1>20. postOf(messages, frames', called', m) = p
  <2>1. framesIn(frames', m) = {g}
    BY <1>8, <1>17
  <2>2. postOf(messages, frames', called', m) =
            [topic |-> messages[m], taken |-> g.stage # "entering",
             owed |-> g.callbacks, done |-> called'[m]]
    BY ONLY <2>1, PostUnderWay
  <2> QED
    BY <1>8, <1>16, <1>19, <2>2
<1>21. postsNow' = [postsNow EXCEPT ![m] = p]
  BY <1>6, <1>8, <1>10, <1>16, <1>17, <1>20, OnePost
<1>22. DOMAIN postsNow = DOMAIN messages
  BY PostsNow
<1>23. postsNow' = [postsNow EXCEPT ![m].owed = Tail(@),
                                    ![m].done = Append(@, Head(postsNow[m].owed))]
  <2>1. postsNow[m].owed = list /\ postsNow[m].done = called[m]
    BY <1>18
  <2>2. [postsNow[m] EXCEPT !.owed = Tail(list), !.done = done] = p
    <3>1. PICK old : old = postsNow[m]
      OBVIOUS
    <3>2. old = [topic |-> messages[m], taken |-> TRUE,
                 owed |-> list, done |-> called[m]]
      BY <1>18, <3>1
    <3>3. PICK r : r = [old EXCEPT !.owed = Tail(list), !.done = done]
      OBVIOUS
    <3>4. r = [z \in {"topic", "taken", "owed", "done"} |-> r[z]]
      BY ONLY <3>2, <3>3
    <3>5. r.topic = messages[m] /\ r.taken = TRUE /\ r.owed = Tail(list) /\ r.done = done
      BY ONLY <3>2, <3>3
    <3>6. r = p
      BY ONLY <1>19, <3>4, <3>5
    <3> QED
      BY <3>1, <3>3, <3>6
  <2> QED
    BY <1>6, <1>11, <1>21, <1>22, <2>1, <2>2
<1>24. membersNow' = membersNow
  BY <1>10, MembersStay
<1>25. postsNow[m].owed # << >>
  BY <1>5, <1>18
<1> QED
  BY <1>6, <1>17, <1>22, <1>23, <1>24, <1>25 DEF Users!Hand

\* A function on 1 .. n + 1 is one on 1 .. n and a last value.
LEMMA AppendFunction ==
    ASSUME NEW p, NEW q, NEW n \in Nat, DOMAIN p = 1 .. n, DOMAIN q = 1 .. n + 1,
           p = [i \in 1 .. n |-> p[i]], q = [i \in 1 .. n + 1 |-> q[i]],
           \A i \in 1 .. n : q[i] = p[i]
    PROVE  q = Append(p, q[n + 1])
<1> DEFINE S == {q[i] : i \in 1 .. n + 1}
<1>1. p \in Seq(S) /\ Len(p) = n
  <2>1. \A i \in 1 .. n : p[i] \in S
    <3> SUFFICES ASSUME NEW i \in 1 .. n PROVE p[i] \in S
      OBVIOUS
    <3>1. i \in 1 .. n + 1 /\ p[i] = q[i]
      OBVIOUS
    <3> QED
      BY <3>1
  <2> HIDE DEF S
  <2>2. p \in [1 .. n -> S]
    BY <2>1
  <2> QED
    BY <2>2
<1>2. q[n + 1] \in S
  OBVIOUS
<1> HIDE DEF S
<1>3. PICK e : e = q[n + 1]
  OBVIOUS
<1>4. PICK r : r = Append(p, e)
  OBVIOUS
<1>5. /\ DOMAIN r = 1 .. n + 1 /\ r[n + 1] = e /\ \A i \in 1 .. n : r[i] = p[i]
      /\ r = [i \in 1 .. n + 1 |-> r[i]]
  BY <1>1, <1>2, <1>3, <1>4
<1>6. \A i \in 1 .. n + 1 : r[i] = q[i]
  <2> SUFFICES ASSUME NEW i \in 1 .. n + 1 PROVE r[i] = q[i]
    OBVIOUS
  <2>1. CASE i = n + 1
    BY <1>3, <1>5, <2>1
  <2>2. CASE i # n + 1
    <3>1. i \in 1 .. n
      BY <2>2
    <3>2. r[i] = p[i] /\ q[i] = p[i]
      BY <1>5, <3>1
    <3> QED
      BY <3>2
  <2> QED
    BY <2>1, <2>2
<1>7. r = q
  BY <1>5, <1>6
<1> QED
  BY <1>3, <1>4, <1>7

\* publish up to the mutex: a new post.
LEMMA PublishRefines ==
    ASSUME FramesInv, NEW t \in Threads, NEW f \in Requests, publish(t, f)
    PROVE  FramesInv' /\ f \in topics /\ Users!Post(f)
<1>1. f \in topics
  BY DEF publish, topics
<1>2. PICK n : n = Len(messages)
  OBVIOUS
<1>3. /\ messages \in Seq(topics) /\ n \in Nat /\ DOMAIN messages = 1 .. n
      /\ called \in Seq(Seq(Nat)) /\ Len(called) = n
      /\ frames \in Stacks /\ unique(frames)
  BY <1>2 DEF FramesInv
<1>4. PICK g : g = [message |-> n + 1, stage |-> "entering", callbacks |-> << >>]
  OBVIOUS
<1>5. /\ g \in Frame /\ g.message = n + 1 /\ g.stage = "entering" /\ g.callbacks = << >>
  BY <1>3, <1>4 DEF Frame, Stages
<1>6. pushed(frames', frames, t, g)
  BY <1>2, <1>4 DEF publish, pushed
<1>7. \A u \in Threads : \A i \in DOMAIN frames[u] : frames[u][i].message # g.message
  <2>1. n + 1 \notin 1 .. n
    BY <1>3
  <2> QED
    BY <1>3, <1>5, <2>1 DEF FramesInv
<1>8. /\ frames' \in Stacks /\ unique(frames')
      /\ \A u \in Threads : \A i \in DOMAIN frames'[u] :
            frames'[u][i] = g \/ (i \in DOMAIN frames[u] /\ frames'[u][i] = frames[u][i])
      /\ framesIn(frames', g.message) = {g}
      /\ \A m : m # g.message => framesIn(frames', m) = framesIn(frames, m)
  <2>1. frames' \in Stacks /\ unique(frames')
    BY <1>3, <1>5, <1>6, <1>7, PushFrame
  <2>2. \A u \in Threads : \A i \in DOMAIN frames'[u] :
            frames'[u][i] = g \/ (i \in DOMAIN frames[u] /\ frames'[u][i] = frames[u][i])
    BY <1>3, <1>5, <1>6, <1>7, PushFrame
  <2>3. framesIn(frames', g.message) = {g}
    <3>1. \E i \in DOMAIN frames'[t] : frames'[t][i] = g
      BY <1>3, <1>5, <1>6, <1>7, PushFrame
    <3>2. PICK i \in DOMAIN frames'[t] : frames'[t][i] = g
      BY <3>1
    <3>3. framesIn(frames', frames'[t][i].message) = {frames'[t][i]}
      BY ONLY t \in Threads, <2>1, <3>2, OneFrame, Zenon
    <3> QED
      BY <3>2, <3>3
  <2>4. \A m : m # g.message => framesIn(frames', m) = framesIn(frames, m)
    BY <1>3, <1>5, <1>6, <1>7, PushFrame
  <2> QED
    BY <2>1, <2>2, <2>3, <2>4
<1>9. /\ messages' \in Seq(topics) /\ DOMAIN messages' = 1 .. n + 1
      /\ Len(messages') = n + 1
      /\ messages'[n + 1] = f /\ \A i \in 1 .. n : messages'[i] = messages[i]
  BY <1>1, <1>3 DEF publish
<1>10. /\ called' \in Seq(Seq(Nat)) /\ Len(called') = n + 1
       /\ called'[n + 1] = << >> /\ \A i \in 1 .. n : called'[i] = called[i]
  BY <1>3 DEF publish
<1>11. FramesInv'
  <2> SUFFICES ASSUME NEW u \in Threads, NEW i \in DOMAIN frames'[u]
               PROVE  /\ frames'[u][i].message \in DOMAIN messages'
                      /\ frames'[u][i].stage = "entering" => frames'[u][i].callbacks = << >>
    <3>1. (topics)' = topics
      BY DEF topics
    <3> QED
      BY <1>8, <1>9, <1>10, <3>1 DEF FramesInv
  <2>1. n + 1 \in 1 .. n + 1 /\ \A k \in 1 .. n : k \in 1 .. n + 1
    BY <1>3
  <2>2. CASE frames'[u][i] = g
    BY <1>5, <1>9, <2>1, <2>2
  <2>3. CASE i \in DOMAIN frames[u] /\ frames'[u][i] = frames[u][i]
    <3>1. /\ frames[u][i].message \in 1 .. n
          /\ frames[u][i].stage = "entering" => frames[u][i].callbacks = << >>
      BY <1>3, <2>3 DEF FramesInv
    <3> QED
      BY <1>9, <2>1, <2>3, <3>1
  <2> QED
    BY <1>8, <2>2, <2>3
<1>12. PICK p : p = postsNow
  OBVIOUS
<1>13. PICK q : q = postsNow'
  OBVIOUS
<1>14. p = [i \in 1 .. n |-> postOf(messages, frames, called, i)]
  BY <1>3, <1>12, PostsNow
<1>15. q = [i \in 1 .. n + 1 |-> postOf(messages', frames', called', i)]
  BY <1>9, <1>13, PostsNow
<1>16. \A i \in 1 .. n : q[i] = p[i]
  <2> SUFFICES ASSUME NEW i \in 1 .. n PROVE q[i] = p[i]
    OBVIOUS
  <2>1. i \in 1 .. n + 1 /\ i # n + 1
    BY <1>3
  <2>2. postOf(messages', frames', called', i) = postOf(messages, frames, called, i)
    <3>1. /\ framesIn(frames', i) = framesIn(frames, i)
          /\ messages'[i] = messages[i] /\ called'[i] = called[i]
      BY <1>5, <1>8, <1>9, <1>10, <2>1
    <3> QED
      BY <3>1, SamePost
  <2> QED
    BY <1>14, <1>15, <2>1, <2>2
<1>17. q[n + 1] = [topic |-> f, taken |-> FALSE, owed |-> << >>, done |-> << >>]
  <2>1. n + 1 \in 1 .. n + 1
    BY <1>3
  <2>2. postOf(messages', frames', called', n + 1) =
            [topic |-> messages'[n + 1], taken |-> g.stage # "entering",
             owed |-> g.callbacks, done |-> called'[n + 1]]
    BY <1>5, <1>8, PostUnderWay
  <2>3. q[n + 1] = postOf(messages', frames', called', n + 1)
    BY <1>15, <2>1
  <2> QED
    BY <1>5, <1>9, <1>10, <2>2, <2>3
<1>18. q = Append(p, q[n + 1])
  <2>1. n \in Nat /\ DOMAIN p = 1 .. n /\ DOMAIN q = 1 .. n + 1
    BY <1>3, <1>14, <1>15
  <2>2. p = [i \in 1 .. n |-> p[i]]
    BY <1>14
  <2>3. q = [i \in 1 .. n + 1 |-> q[i]]
    BY <1>15
  <2> QED
    BY ONLY <1>16, <2>1, <2>2, <2>3, AppendFunction, Zenon
<1>19. membersNow' = membersNow
  BY MembersStay DEF publish, table
<1> QED
  BY <1>1, <1>11, <1>12, <1>13, <1>17, <1>18, <1>19 DEF Users!Post

\* publish returns: all its callbacks have been called, and the users see nothing.
LEMMA PublishReturnsRefines ==
    ASSUME FramesInv, NEW t \in Threads, publishReturns(t)
    PROVE  FramesInv' /\ postsNow' = postsNow
<1>1. PICK f : f = innermost(t)
  OBVIOUS
<1>2. frames[t] # << >> /\ f.stage = "calling" /\ f.callbacks = << >>
  BY <1>1 DEF publishReturns, at
<1>3. f.message \in DOMAIN messages
  BY <1>1, <1>2, Innermost
<1>4. popped(frames', frames, t, f)
  BY <1>1 DEF publishReturns, popped, innermost
<1>5. UNCHANGED <<messages, called>>
  BY DEF publishReturns, history
<1>6. frames \in Stacks /\ unique(frames)
  BY DEF FramesInv
<1>7. /\ frames' \in Stacks /\ unique(frames')
      /\ \A u \in Threads : \A i \in DOMAIN frames'[u] :
            i \in DOMAIN frames[u] /\ frames'[u][i] = frames[u][i]
      /\ framesIn(frames', f.message) = {}
      /\ \A m : m # f.message => framesIn(frames', m) = framesIn(frames, m)
  <2>1. frames' \in Stacks /\ unique(frames')
    BY <1>2, <1>4, <1>6, PopFrame
  <2>2. \A u \in Threads : \A i \in DOMAIN frames'[u] :
            i \in DOMAIN frames[u] /\ frames'[u][i] = frames[u][i]
    BY <1>2, <1>4, <1>6, PopFrame
  <2>3. framesIn(frames', f.message) = {}
    BY ONLY t \in Threads, <1>2, <1>4, <1>6, PopFrame, Zenon
  <2>4. \A m : m # f.message => framesIn(frames', m) = framesIn(frames, m)
    BY <1>2, <1>4, <1>6, PopFrame
  <2> QED
    BY <2>1, <2>2, <2>3, <2>4
<1>8. FramesInv'
  BY <1>5, <1>7 DEF FramesInv
<1>9. PICK p : p = postsNow[f.message]
  OBVIOUS
<1>10. p = [topic |-> messages[f.message], taken |-> TRUE,
            owed |-> << >>, done |-> called[f.message]]
  BY <1>1, <1>2, <1>9, InnermostPost
<1>11. postOf(messages, frames', called', f.message) = p
  <2>1. framesIn(frames', f.message) = {}
    BY <1>7
  <2>2. postOf(messages, frames', called', f.message) =
            [topic |-> messages[f.message], taken |-> TRUE,
             owed |-> << >>, done |-> called'[f.message]]
    BY <2>1 DEF postOf
  <2> QED
    BY <1>5, <1>10, <2>2
<1>12. postsNow' = [postsNow EXCEPT ![f.message] = p]
  BY <1>3, <1>5, <1>7, <1>11, OnePost
<1> QED
  BY <1>3, <1>8, <1>9, <1>12, PostsNow

\* Every step of the transport is a step of the broadcast, or changes nothing its users
\* see.
LEMMA BroadcastStep ==
    ASSUME TableInv, FramesInv, [Next]_vars
    PROVE  FramesInv' /\ [Users!Next]_(Users!vars)
<1> USE DEF Users!vars
<1>1. ASSUME NEW t \in Threads, NEW f \in Requests, subscribe(t, f)
      PROVE  FramesInv' /\ Users!Next
  <2>1. UNCHANGED <<messages, frames, called>>
    BY <1>1 DEF subscribe
  <2> QED
    BY <1>1, <2>1, SubscribeRefines, PostsStay DEF Users!Next
<1>2. ASSUME NEW t \in Threads, NEW f \in Requests, publish(t, f)
      PROVE  FramesInv' /\ Users!Next
  BY <1>2, PublishRefines DEF Users!Next
<1>3. ASSUME NEW t \in Threads, NEW h \in handles, NEW destroyed \in BOOLEAN,
             unsubscribe(t, h, destroyed)
      PROVE  FramesInv' /\ [Users!Next]_(Users!vars)
  <2>1. UNCHANGED <<messages, frames, called>>
    BY <1>3 DEF unsubscribe
  <2>2. (\E c \in topics : Users!Leave(c)) \/ UNCHANGED <<membersNow, postsNow>>
    BY <1>3, UnsubscribeRefines
  <2> QED
    BY <2>1, <2>2, PostsStay DEF Users!Next
<1>4. ASSUME NEW t \in Threads, copyCallbacks(t)
      PROVE  FramesInv' /\ Users!Next
  BY <1>4, CopyRefines DEF Users!Next
<1>5. ASSUME NEW t \in Threads, leaveBlock(t) \/ CallbackReturns(t)
      PROVE  FramesInv' /\ UNCHANGED <<membersNow, postsNow>>
  <2>1. /\ frames[t] # << >> /\ innermost(t).stage # "entering"
        /\ frames' = replaceInnermost(t, [innermost(t) EXCEPT !.stage = "calling"])
        /\ UNCHANGED <<messages, called, subscribers>>
    BY <1>5 DEF leaveBlock, CallbackReturns, at, table, history
  <2> QED
    BY <2>1, QuietStageRefines, MembersStay
<1>6. ASSUME NEW t \in Threads, callback(t)
      PROVE  FramesInv' /\ Users!Next
  BY <1>6, CallbackRefines DEF Users!Next
<1>7. ASSUME NEW t \in Threads, publishReturns(t)
      PROVE  FramesInv' /\ UNCHANGED <<membersNow, postsNow>>
  <2>1. UNCHANGED subscribers
    BY <1>7 DEF publishReturns, table
  <2> QED
    BY <1>7, <2>1, PublishReturnsRefines, MembersStay
<1>8. ASSUME destroy
      PROVE  FramesInv' /\ Users!Next
  <2>1. UNCHANGED <<messages, frames, called>>
    BY <1>8 DEF destroy, history
  <2>2. \A k : ids(k)' = << >>
    BY <1>8 DEF destroy, ids
  <2>3. membersNow' = [c \in topics |-> << >>]
    BY <2>2 DEF membersNow
  <2>4. Users!Close
    BY <2>1, <2>3, PostsStay DEF Users!Close
  <2> QED
    BY <2>1, <2>4, PostsStay DEF Users!Next
<1>9. ASSUME UNCHANGED vars
      PROVE  FramesInv' /\ UNCHANGED <<membersNow, postsNow>>
  <2>1. UNCHANGED <<messages, frames, called, subscribers>>
    BY <1>9 DEF vars, table, history
  <2> QED
    BY <2>1, PostsStay, MembersStay
<1> QED
  BY <1>1, <1>2, <1>3, <1>4, <1>5, <1>6, <1>7, <1>8, <1>9 DEF Next

\* Before anything happens nobody is a member and nothing is posted.
LEMMA BroadcastInit ==
    ASSUME Init
    PROVE  FramesInv /\ Users!Init
<1>1. FramesInv
  <2>1. messages = << >> /\ called = << >> /\ frames = [t \in Threads |-> << >>]
    BY DEF Init
  <2>2. frames \in Stacks /\ \A t \in Threads : frames[t] = << >>
    BY <2>1 DEF Stacks
  <2>3. \A t \in Threads : DOMAIN frames[t] = {}
    BY <2>2
  <2> QED
    BY <2>1, <2>2, <2>3 DEF FramesInv, unique
<1>2. membersNow = [c \in topics |-> << >>]
  BY DEF Init, membersNow, ids
<1>3. postsNow = << >>
  BY DEF Init, postsNow
<1> QED
  BY <1>1, <1>2, <1>3 DEF Users!Init

\* Every run of the threads over the table is a run of the broadcast: a message goes to
\* those who are subscribed at the one instant at which publish copies the callbacks,
\* to each once, in the order in which they subscribed, whatever the callbacks and the
\* other threads do meanwhile, and to nobody who asked for other fields.
THEOREM BroadcastCorrect == Spec => IsBroadcast
<1>1. Init => FramesInv /\ Users!Init
  BY BroadcastInit
<1>2. TableInv /\ FramesInv /\ [Next]_vars => FramesInv' /\ [Users!Next]_(Users!vars)
  BY BroadcastStep
<1> QED
  BY <1>1, <1>2, TableInvariant, PTL DEF Spec, IsBroadcast, Users!Spec

=============================================================================
