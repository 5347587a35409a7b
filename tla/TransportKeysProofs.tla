------------------------- MODULE TransportKeysProofs -------------------------
(***************************************************************************)
(* Proofs about the keys samples are published under: a key that is built  *)
(* is valid just when its fields are legal, and it determines them.  The   *)
(* start-up of the node and the transport both rest on this.               *)
(***************************************************************************)
EXTENDS TransportKeys, SequenceTheorems, TLAPS

\* A sequence with one more element at its end.
snoc(k, x) == k \o <<x>>

\* What is where in such a sequence.
LEMMA SnocPrefix ==
    ASSUME NEW S, NEW k \in Seq(S), NEW x \in S, NEW i \in 1 .. Len(k)
    PROVE  snoc(k, x)[i] = k[i]
<1> DEFINE y == <<x>>
<1>1. y \in Seq(S) /\ Len(y) = 1
  OBVIOUS
<1> HIDE DEF y
<1>2. Len(k) \in Nat
  OBVIOUS
<1>3. \A j \in 1 .. Len(k) + Len(y) :
          (k \o y)[j] = IF j <= Len(k) THEN k[j] ELSE y[j - Len(k)]
  BY <1>1, ConcatProperties, Zenon
<1>4. (k \o y)[i] = k[i]
  BY <1>1, <1>2, <1>3
<1> QED
  BY <1>4 DEF y, snoc

\* What was appended is at the end.
LEMMA SnocLast ==
    ASSUME NEW S, NEW k \in Seq(S), NEW x \in S
    PROVE  /\ snoc(k, x) \in Seq(S)
           /\ Len(snoc(k, x)) = Len(k) + 1
           /\ snoc(k, x)[Len(k) + 1] = x
<1> DEFINE y == <<x>>
<1>1. y \in Seq(S) /\ Len(y) = 1 /\ y[1] = x
  OBVIOUS
<1> HIDE DEF y
<1>2. Len(k) \in Nat
  OBVIOUS
<1>3. /\ k \o y \in Seq(S)
      /\ Len(k \o y) = Len(k) + 1
      /\ \A i \in 1 .. Len(k) + 1 : (k \o y)[i] = IF i <= Len(k) THEN k[i] ELSE y[i - Len(k)]
  BY <1>1, ConcatProperties
<1>4. (k \o y)[Len(k) + 1] = x
  BY <1>1, <1>2, <1>3
<1> QED
  BY <1>3, <1>4 DEF y, snoc

\* A key built from legal fields has ten pieces, the fields among them at fixed
\* places, and is valid (buildTaskSampleKey, validateTaskSampleKey).
LEMMA KeyPieces ==
    ASSUME NEW f, validateField(f.session_id), validateField(f.task_id),
           validateField(f.channel), validateField(f.schema_id)
    PROVE  /\ validateTaskSampleKey(buildTaskSampleKey(f))
           /\ f.session_id = <<buildTaskSampleKey(f)[4]>>
           /\ f.task_id = <<buildTaskSampleKey(f)[6]>>
           /\ f.channel = <<buildTaskSampleKey(f)[8]>>
           /\ f.schema_id = <<buildTaskSampleKey(f)[10]>>
<1>1. PICK s \in LegalNames, t \in LegalNames, c \in LegalNames, d \in LegalNames :
          f.session_id = <<s>> /\ f.task_id = <<t>> /\ f.channel = <<c>> /\ f.schema_id = <<d>>
  BY DEF validateField
<1> DEFINE S == LegalNames \cup {"swarm_sync", "v1", "session", "task", "channel", "schema"}
           k3 == <<"swarm_sync", "v1", "session">>
           k4 == snoc(k3, s)
           k5 == snoc(k4, "task")
           k6 == snoc(k5, t)
           k7 == snoc(k6, "channel")
           k8 == snoc(k7, c)
           k9 == snoc(k8, "schema")
           k10 == snoc(k9, d)
<1>2. buildTaskSampleKey(f) = k10
  BY <1>1 DEF buildTaskSampleKey, taskSampleKey, snoc
<1>3. k3 \in Seq(S) /\ Len(k3) = 3 /\ k3[1] = "swarm_sync" /\ k3[2] = "v1" /\ k3[3] = "session"
  OBVIOUS
<1>4. /\ k4 \in Seq(S) /\ Len(k4) = 4 /\ k4[4] = s
      /\ \A j \in 1 .. 3 : k4[j] = k3[j]
  <2>1. s \in S
    OBVIOUS
  <2> HIDE DEF S, k3
  <2>2. k4 \in Seq(S) /\ Len(k4) = Len(k3) + 1 /\ k4[Len(k3) + 1] = s
    BY <1>3, <2>1, SnocLast
  <2>3. \A j \in 1 .. Len(k3) : k4[j] = k3[j]
    BY <1>3, <2>1, SnocPrefix
  <2> HIDE DEF k4
  <2> QED
    BY <1>3, <2>2, <2>3
<1>5. /\ k5 \in Seq(S) /\ Len(k5) = 5 /\ k5[5] = "task"
      /\ \A j \in 1 .. 4 : k5[j] = k4[j]
  <2>1. "task" \in S
    OBVIOUS
  <2> HIDE DEF S, k4
  <2>2. k5 \in Seq(S) /\ Len(k5) = Len(k4) + 1 /\ k5[Len(k4) + 1] = "task"
    BY <1>4, <2>1, SnocLast
  <2>3. \A j \in 1 .. Len(k4) : k5[j] = k4[j]
    BY <1>4, <2>1, SnocPrefix
  <2> HIDE DEF k5
  <2> QED
    BY <1>4, <2>2, <2>3
<1>6. /\ k6 \in Seq(S) /\ Len(k6) = 6 /\ k6[6] = t
      /\ \A j \in 1 .. 5 : k6[j] = k5[j]
  <2>1. t \in S
    OBVIOUS
  <2> HIDE DEF S, k5
  <2>2. k6 \in Seq(S) /\ Len(k6) = Len(k5) + 1 /\ k6[Len(k5) + 1] = t
    BY <1>5, <2>1, SnocLast
  <2>3. \A j \in 1 .. Len(k5) : k6[j] = k5[j]
    BY <1>5, <2>1, SnocPrefix
  <2> HIDE DEF k6
  <2> QED
    BY <1>5, <2>2, <2>3
<1>7. /\ k7 \in Seq(S) /\ Len(k7) = 7 /\ k7[7] = "channel"
      /\ \A j \in 1 .. 6 : k7[j] = k6[j]
  <2>1. "channel" \in S
    OBVIOUS
  <2> HIDE DEF S, k6
  <2>2. k7 \in Seq(S) /\ Len(k7) = Len(k6) + 1 /\ k7[Len(k6) + 1] = "channel"
    BY <1>6, <2>1, SnocLast
  <2>3. \A j \in 1 .. Len(k6) : k7[j] = k6[j]
    BY <1>6, <2>1, SnocPrefix
  <2> HIDE DEF k7
  <2> QED
    BY <1>6, <2>2, <2>3
<1>8. /\ k8 \in Seq(S) /\ Len(k8) = 8 /\ k8[8] = c
      /\ \A j \in 1 .. 7 : k8[j] = k7[j]
  <2>1. c \in S
    OBVIOUS
  <2> HIDE DEF S, k7
  <2>2. k8 \in Seq(S) /\ Len(k8) = Len(k7) + 1 /\ k8[Len(k7) + 1] = c
    BY <1>7, <2>1, SnocLast
  <2>3. \A j \in 1 .. Len(k7) : k8[j] = k7[j]
    BY <1>7, <2>1, SnocPrefix
  <2> HIDE DEF k8
  <2> QED
    BY <1>7, <2>2, <2>3
<1>9. /\ k9 \in Seq(S) /\ Len(k9) = 9 /\ k9[9] = "schema"
      /\ \A j \in 1 .. 8 : k9[j] = k8[j]
  <2>1. "schema" \in S
    OBVIOUS
  <2> HIDE DEF S, k8
  <2>2. k9 \in Seq(S) /\ Len(k9) = Len(k8) + 1 /\ k9[Len(k8) + 1] = "schema"
    BY <1>8, <2>1, SnocLast
  <2>3. \A j \in 1 .. Len(k8) : k9[j] = k8[j]
    BY <1>8, <2>1, SnocPrefix
  <2> HIDE DEF k9
  <2> QED
    BY <1>8, <2>2, <2>3
<1>10. /\ k10 \in Seq(S) /\ Len(k10) = 10 /\ k10[10] = d
      /\ \A j \in 1 .. 9 : k10[j] = k9[j]
  <2>1. d \in S
    OBVIOUS
  <2> HIDE DEF S, k9
  <2>2. k10 \in Seq(S) /\ Len(k10) = Len(k9) + 1 /\ k10[Len(k9) + 1] = d
    BY <1>9, <2>1, SnocLast
  <2>3. \A j \in 1 .. Len(k9) : k10[j] = k9[j]
    BY <1>9, <2>1, SnocPrefix
  <2> HIDE DEF k10
  <2> QED
    BY <1>9, <2>2, <2>3
<1> HIDE DEF S, k3, k4, k5, k6, k7, k8, k9, k10
<1>11. /\ k10[1] = "swarm_sync" /\ k10[2] = "v1" /\ k10[3] = "session" /\ k10[4] = s
       /\ k10[5] = "task" /\ k10[6] = t /\ k10[7] = "channel" /\ k10[8] = c
       /\ k10[9] = "schema" /\ k10[10] = d
  BY <1>3, <1>4, <1>5, <1>6, <1>7, <1>8, <1>9, <1>10
<1>12. validateTaskSampleKey(k10)
  <2>1. /\ validateField(<<s>>) /\ validateField(<<t>>)
        /\ validateField(<<c>>) /\ validateField(<<d>>)
    BY DEF validateField
  <2> QED
    BY <1>10, <1>11, <2>1 DEF validateTaskSampleKey
<1> QED
  BY <1>1, <1>2, <1>11, <1>12

legalFields(f) ==
    /\ validateField(f.session_id) /\ validateField(f.task_id)
    /\ validateField(f.channel) /\ validateField(f.schema_id)

\* A key is valid just when it was built from legal fields: the empty string that
\* stands for a refusal is no key (buildTaskSampleKey, validateTaskSampleKey).
THEOREM ValidIffLegal ==
    \A f : validateTaskSampleKey(buildTaskSampleKey(f)) <=> legalFields(f)
<1> SUFFICES ASSUME NEW f
             PROVE  validateTaskSampleKey(buildTaskSampleKey(f)) <=> legalFields(f)
  OBVIOUS
<1>1. CASE legalFields(f)
  BY <1>1, KeyPieces DEF legalFields
<1>2. CASE ~ legalFields(f)
  <2>1. buildTaskSampleKey(f) = EmptyString
    BY <1>2 DEF legalFields, buildTaskSampleKey
  <2>2. Len(EmptyString) # 10
    BY DEF EmptyString
  <2> QED
    BY <1>2, <2>1, <2>2 DEF validateTaskSampleKey
<1> QED
  BY <1>1, <1>2

\* Valid keys that are equal were built from the same four fields, so two users share
\* a key only when they ask for the same session, task, channel and schema.
THEOREM KeyDeterminesFields ==
    ASSUME NEW f, NEW g, buildTaskSampleKey(f) = buildTaskSampleKey(g),
           validateTaskSampleKey(buildTaskSampleKey(f))
    PROVE  /\ f.session_id = g.session_id /\ f.task_id = g.task_id
           /\ f.channel = g.channel /\ f.schema_id = g.schema_id
<1>1. legalFields(f) /\ legalFields(g)
  BY ValidIffLegal
<1>2. /\ f.session_id = <<buildTaskSampleKey(f)[4]>> /\ f.task_id = <<buildTaskSampleKey(f)[6]>>
      /\ f.channel = <<buildTaskSampleKey(f)[8]>> /\ f.schema_id = <<buildTaskSampleKey(f)[10]>>
  BY <1>1, KeyPieces DEF legalFields
<1>3. /\ g.session_id = <<buildTaskSampleKey(g)[4]>> /\ g.task_id = <<buildTaskSampleKey(g)[6]>>
      /\ g.channel = <<buildTaskSampleKey(g)[8]>> /\ g.schema_id = <<buildTaskSampleKey(g)[10]>>
  BY <1>1, KeyPieces DEF legalFields
<1> QED
  BY <1>2, <1>3

=============================================================================
