-------------------------- MODULE LinkHealthProofs --------------------------
(***************************************************************************)
(* Proofs about the state machines of the links, for every set of peers,   *)
(* every length of the windows and all samples.                            *)
(*                                                                         *)
(* update looks at the window of now and, for two states only, at the      *)
(* state before.  What makes its transitions sound is that a window        *)
(* changes by one sample per cycle (ObserveChangesByOne), so that it is    *)
(* close to the one that justified the state before.  The inductive        *)
(* invariant (evidence) keeps that justification, and one fact that        *)
(* StateHasEvidence does not need to state: a link is recovering for one   *)
(* cycle, in which its window is at most one sample more than half fresh.  *)
(***************************************************************************)
EXTENDS LinkHealth, FiniteSetTheorems, TLAPS

freshIn(w) == {i \in DOMAIN w : w[i].status = "Fresh"}

\* What the present window says for the present state.
evidence(state, w) ==
    LET fresh == count(w, "Fresh")
        n     == Len(w)
    IN  /\ state \in {"Good", "Degraded"} =>
               10 * fresh >= 9 * n /\ (MaxSamples >= 5 => ~ slowP99(w))
        /\ state = "Partitioned" => n >= 3 /\ 2 * fresh <= n
        /\ state = "Recovering" => n >= 3 /\ 2 * fresh > n /\ 2 * fresh <= n + 2

States == {"Good", "Degraded", "Congested", "Partitioned", "Recovering"}

window(w) == w \in Seq(LinkHealthSample) /\ Len(w) <= MaxSamples

LinkInv ==
    \A p \in Peers :
        /\ window(samples[p])
        /\ current[p] \in States
        /\ evidence(current[p], samples[p])

-----------------------------------------------------------------------------
\* The fresh samples of a window are counted by a number up to its length.
LEMMA CountBounds ==
    ASSUME NEW w \in Seq(LinkHealthSample)
    PROVE  /\ IsFiniteSet(freshIn(w))
           /\ count(w, "Fresh") = Cardinality(freshIn(w))
           /\ count(w, "Fresh") \in Nat /\ count(w, "Fresh") <= Len(w)
<1>1. Len(w) \in Nat /\ DOMAIN w = 1 .. Len(w)
  OBVIOUS
<1>2. IsFiniteSet(1 .. Len(w)) /\ Cardinality(1 .. Len(w)) = Len(w)
  <2>1. 1 \in Int /\ Len(w) \in Int
    BY <1>1
  <2> QED
    BY <1>1, <2>1, FS_Interval
<1>3. freshIn(w) \in SUBSET (1 .. Len(w))
  BY <1>1 DEF freshIn
<1>4. IsFiniteSet(freshIn(w)) /\ Cardinality(freshIn(w)) <= Len(w)
  BY <1>2, <1>3, FS_Subset
<1>5. Cardinality(freshIn(w)) \in Nat
  BY <1>4, FS_CardinalityType
<1> QED
  BY <1>4, <1>5 DEF count, freshIn

\* A sample that is appended adds itself to the fresh ones or nothing.
LEMMA AppendCount ==
    ASSUME NEW w \in Seq(LinkHealthSample), NEW s \in LinkHealthSample
    PROVE  LET v == Append(w, s)
           IN  /\ v \in Seq(LinkHealthSample) /\ Len(v) = Len(w) + 1
               /\ count(v, "Fresh") \in {count(w, "Fresh"), count(w, "Fresh") + 1}
<1> DEFINE v == Append(w, s)
           n == Len(w) + 1
<1>1. /\ v \in Seq(LinkHealthSample) /\ Len(v) = n /\ Len(w) \in Nat
      /\ DOMAIN w = 1 .. Len(w) /\ DOMAIN v = 1 .. n
      /\ v[n] = s /\ \A i \in 1 .. Len(w) : v[i] = w[i]
  OBVIOUS
<1> HIDE DEF v
<1>2. \A i \in 1 .. n : i # n => i \in 1 .. Len(w)
  BY <1>1
<1>3. n \notin freshIn(w) /\ n \in 1 .. n /\ \A i \in 1 .. Len(w) : i \in 1 .. n
  BY <1>1 DEF freshIn
<1>4. CASE s.status = "Fresh"
  <2>1. freshIn(v) = freshIn(w) \cup {n}
    <3> SUFFICES ASSUME NEW i PROVE i \in freshIn(v) <=> i \in freshIn(w) \cup {n}
      OBVIOUS
    <3>1. CASE i = n
      BY <1>1, <1>3, <1>4, <3>1 DEF freshIn
    <3>2. CASE i # n
      BY <1>1, <1>2, <1>3, <3>2 DEF freshIn
    <3> QED
      BY <3>1, <3>2
  <2>2. Cardinality(freshIn(v)) = Cardinality(freshIn(w)) + 1
    BY <1>3, <2>1, CountBounds, FS_AddElement
  <2> QED
    BY <1>1, <2>2, CountBounds DEF v
<1>5. CASE s.status # "Fresh"
  <2>1. freshIn(v) = freshIn(w)
    <3> SUFFICES ASSUME NEW i PROVE i \in freshIn(v) <=> i \in freshIn(w)
      OBVIOUS
    <3>1. CASE i = n
      BY <1>1, <1>3, <1>5, <3>1 DEF freshIn
    <3>2. CASE i # n
      BY <1>1, <1>2, <1>3, <3>2 DEF freshIn
    <3> QED
      BY <3>1, <3>2
  <2> QED
    BY <1>1, <2>1, CountBounds DEF v
<1> QED
  BY <1>4, <1>5

\* The oldest sample, when it is dropped, takes itself off the fresh ones or nothing.
LEMMA TailCount ==
    ASSUME NEW w \in Seq(LinkHealthSample), w # << >>
    PROVE  LET v == Tail(w)
           IN  /\ v \in Seq(LinkHealthSample) /\ Len(v) = Len(w) - 1
               /\ count(v, "Fresh") \in {count(w, "Fresh"), count(w, "Fresh") - 1}
<1> DEFINE v == Tail(w)
           T == freshIn(w) \ {1}
           f == [i \in freshIn(v) |-> i + 1]
<1>1. /\ v \in Seq(LinkHealthSample) /\ Len(v) = Len(w) - 1 /\ Len(w) \in Nat \ {0}
      /\ DOMAIN w = 1 .. Len(w) /\ DOMAIN v = 1 .. Len(w) - 1
      /\ \A i \in 1 .. Len(w) - 1 : v[i] = w[i + 1]
  OBVIOUS
<1> HIDE DEF v
<1>2. f \in Bijection(freshIn(v), T)
  <2>1. \A i \in freshIn(v) : i \in 1 .. Len(w) - 1 /\ i + 1 \in T
    BY <1>1 DEF freshIn
  <2>2. f \in [freshIn(v) -> T]
    BY <2>1
  <2>3. \A i, j \in freshIn(v) : f[i] = f[j] => i = j
    BY <1>1, <2>1
  <2>4. \A j \in T : \E i \in freshIn(v) : f[i] = j
    <3> SUFFICES ASSUME NEW j \in T PROVE \E i \in freshIn(v) : f[i] = j
      OBVIOUS
    <3>1. j \in 1 .. Len(w) /\ j # 1 /\ w[j].status = "Fresh"
      BY <1>1 DEF freshIn
    <3>2. j - 1 \in 1 .. Len(w) - 1 /\ (j - 1) + 1 = j
      BY <1>1, <3>1
    <3>3. j - 1 \in freshIn(v)
      BY <1>1, <3>1, <3>2 DEF freshIn
    <3> QED
      BY <3>2, <3>3
  <2> HIDE DEF f, T
  <2> QED
    BY <2>2, <2>3, <2>4 DEF Bijection, Injection, Surjection, IsInjective
<1>3. IsFiniteSet(T) /\ Cardinality(T) \in {Cardinality(freshIn(w)), Cardinality(freshIn(w)) - 1}
  BY CountBounds, FS_RemoveElement
<1> HIDE DEF T, f
<1>4. ExistsBijection(freshIn(v), T)
  BY <1>2 DEF ExistsBijection
<1>5. Cardinality(freshIn(v)) = Cardinality(T)
  BY <1>1, <1>4, CountBounds, FS_Bijection
<1> QED
  BY <1>1, <1>3, <1>5, CountBounds DEF v

\* In a cycle a window grows by a sample while it is not full, and in any case the
\* number of its fresh samples changes by at most one (observe).
LEMMA ObserveChangesByOne ==
    ASSUME NEW w, window(w), NEW s \in LinkHealthSample
    PROVE  LET v == observe(w, s)
               m == count(w, "Fresh")
               n == count(v, "Fresh")
           IN  /\ window(v)
               /\ Len(w) \in Nat /\ Len(v) \in Nat /\ m \in Nat /\ n \in Nat
               /\ m <= Len(w) /\ n <= Len(v)
               /\ Len(v) = IF Len(w) < MaxSamples THEN Len(w) + 1 ELSE Len(w)
               /\ Len(v) >= 1
               /\ n <= m + 1 /\ m <= n + 1
<1> DEFINE g == Append(w, s)
           v == observe(w, s)
<1>1. w \in Seq(LinkHealthSample) /\ Len(w) \in Nat /\ Len(w) <= MaxSamples
  BY DEF window
<1>2. MaxSamples \in Nat \ {0}
  BY LinkAssumption
<1>3. /\ g \in Seq(LinkHealthSample) /\ Len(g) = Len(w) + 1
      /\ count(g, "Fresh") \in {count(w, "Fresh"), count(w, "Fresh") + 1}
  BY <1>1, AppendCount
<1>4. count(w, "Fresh") \in Nat /\ count(w, "Fresh") <= Len(w)
  BY <1>1, CountBounds
<1> HIDE DEF g
<1>5. CASE Len(w) < MaxSamples
  <2>1. v = g
    BY <1>1, <1>2, <1>3, <1>5 DEF observe, g
  <2>2. count(g, "Fresh") \in Nat /\ count(g, "Fresh") <= Len(g)
    BY <1>3, CountBounds
  <2> HIDE DEF v
  <2>3. window(v)
    BY <1>1, <1>2, <1>3, <1>5, <2>1 DEF window
  <2> QED
    BY <1>1, <1>3, <1>4, <1>5, <2>1, <2>2, <2>3 DEF v
<1>6. CASE ~ (Len(w) < MaxSamples)
  <2>1. v = Tail(g) /\ Len(w) = MaxSamples
    BY <1>1, <1>2, <1>3, <1>6 DEF observe, g
  <2>2. g # << >>
    BY <1>1, <1>3
  <2>3. /\ v \in Seq(LinkHealthSample) /\ Len(v) = Len(g) - 1
        /\ count(v, "Fresh") \in {count(g, "Fresh"), count(g, "Fresh") - 1}
    BY <1>3, <2>1, <2>2, TailCount
  <2>4. count(v, "Fresh") \in Nat /\ count(v, "Fresh") <= Len(v)
    BY <2>3, CountBounds
  <2> HIDE DEF v
  <2>5. window(v)
    BY <1>1, <1>2, <1>3, <2>1, <2>3 DEF window
  <2> QED
    BY <1>1, <1>2, <1>3, <1>4, <1>6, <2>1, <2>3, <2>4, <2>5 DEF v
<1> QED
  BY <1>5, <1>6

-----------------------------------------------------------------------------
\* The state that update gives a link is backed by the window it was given, if the
\* state before was backed by the window of the cycle before.
LEMMA UpdateHasEvidence ==
    ASSUME NEW state, NEW w, window(w), NEW s \in LinkHealthSample, evidence(state, w)
    PROVE  evidence(update(state, observe(w, s)), observe(w, s))
<1> DEFINE v == observe(w, s)
           m == count(w, "Fresh")
           n == count(v, "Fresh")
<1>1. /\ Len(w) \in Nat /\ Len(v) \in Nat /\ m \in Nat /\ n \in Nat
      /\ m <= Len(w) /\ n <= Len(v)
      /\ Len(v) = IF Len(w) < MaxSamples THEN Len(w) + 1 ELSE Len(w)
      /\ Len(v) >= 1 /\ Len(w) <= MaxSamples /\ MaxSamples \in Nat
      /\ n <= m + 1 /\ m <= n + 1
  BY ObserveChangesByOne, LinkAssumption DEF window
<1>2. /\ state = "Partitioned" => Len(w) >= 3 /\ 2 * m <= Len(w)
      /\ state = "Recovering" => Len(w) >= 3 /\ 2 * m > Len(w) /\ 2 * m <= Len(w) + 2
  BY DEF evidence
<1> HIDE DEF v
<1>3. CASE state = "Partitioned"
  <2>1. CASE mostlyFresh(v)
    <3>1. update(state, v) = "Recovering"
      BY <1>3, <2>1 DEF update
    <3>2. Len(v) >= 3 /\ 2 * n > Len(v) /\ 2 * n <= Len(v) + 2
      BY <1>1, <1>2, <1>3, <2>1 DEF mostlyFresh
    <3> QED
      BY <3>1, <3>2 DEF evidence, v
  <2>2. CASE ~ mostlyFresh(v)
    <3>1. update(state, v) = "Partitioned"
      BY <1>3, <2>2 DEF update
    <3>2. Len(v) >= 3 /\ 2 * n <= Len(v)
      BY <1>1, <1>2, <1>3, <2>2 DEF mostlyFresh
    <3> QED
      BY <3>1, <3>2 DEF evidence, v
  <2> QED
    BY <2>1, <2>2
<1>4. CASE state = "Recovering" /\ stable(v)
  <2>1. update(state, v) = "Good"
    BY <1>4 DEF update
  <2>2. 200 * n > 199 * Len(v)
    BY <1>4 DEF stable
  <2>3. 10 * n >= 9 * Len(v)
    BY <1>1, <2>2
  <2>4. ~ (MaxSamples >= 5)
    BY <1>1, <1>2, <1>4, <2>2
  <2> QED
    BY <2>1, <2>3, <2>4 DEF evidence, v
<1>5. CASE state # "Partitioned" /\ ~ (state = "Recovering" /\ stable(v))
  <2>1. update(state, v) = summarize(v)
    BY <1>5 DEF update
  <2>2. CASE Len(v) = 0 \/ (n = 0 /\ Len(v) >= 3)
    <3>1. summarize(v) = "Partitioned"
      BY <2>2 DEF summarize
    <3> QED
      BY <1>1, <2>1, <2>2, <3>1 DEF evidence, v
  <2>3. CASE ~ (Len(v) = 0 \/ (n = 0 /\ Len(v) >= 3))
    <3>1. CASE 10 * n < 9 * Len(v) \/ slowP99(v)
      <4>1. summarize(v) = "Congested"
        BY <2>3, <3>1 DEF summarize
      <4> QED
        BY <2>1, <4>1 DEF evidence, v
    <3>2. CASE ~ (10 * n < 9 * Len(v) \/ slowP99(v))
      <4>1. summarize(v) \in {"Good", "Degraded"}
        BY <2>3, <3>2 DEF summarize
      <4>2. 10 * n >= 9 * Len(v)
        BY <1>1, <3>2
      <4> QED
        BY <2>1, <3>2, <4>1, <4>2 DEF evidence, v
    <3> QED
      BY <3>1, <3>2
  <2> QED
    BY <2>2, <2>3
<1> QED
  BY <1>3, <1>4, <1>5

\* What a snapshot does to one link (publishWeaknet).
LEMMA LinkStep ==
    ASSUME Next, NEW p \in Peers
    PROVE  \E s \in LinkHealthSample :
              /\ samples'[p] = observe(samples[p], s)
              /\ current'[p] = update(current[p], observe(samples[p], s))
<1>1. PICK view \in [Peers -> Samples] : publishWeaknet(view)
  BY DEF Next
<1>2. view[p] \in LinkHealthSample
  BY LinkAssumption
<1> QED
  BY <1>1, <1>2 DEF publishWeaknet

\* Every link always has the evidence for its state.
LEMMA LinkInvariant == Spec => []LinkInv
<1>1. Init => LinkInv
  <2> SUFFICES ASSUME Init, NEW p \in Peers
               PROVE  /\ window(samples[p])
                      /\ current[p] \in States
                      /\ evidence(current[p], samples[p])
    BY DEF LinkInv
  <2>1. samples[p] = << >> /\ current[p] = "Good"
    BY DEF Init
  <2>2. window(<< >>)
    BY LinkAssumption DEF window
  <2>3. count(<< >>, "Fresh") = 0
    BY FS_EmptySet DEF count
  <2>4. ~ slowP99(<< >>)
    <3>1. {i \in DOMAIN << >> : << >>[i].status \in {"Fresh", "Late"}} = {}
      OBVIOUS
    <3> QED
      BY <3>1, FS_EmptySet DEF slowP99
  <2>5. evidence("Good", << >>)
    BY <2>3, <2>4 DEF evidence
  <2> QED
    BY <2>1, <2>2, <2>5 DEF States
<1>2. LinkInv /\ [Next]_vars => LinkInv'
  <2> SUFFICES ASSUME LinkInv, [Next]_vars
               PROVE  LinkInv'
    OBVIOUS
  <2>1. CASE Next
    <3> SUFFICES ASSUME NEW p \in Peers
                 PROVE  /\ window(samples'[p])
                        /\ current'[p] \in States
                        /\ evidence(current'[p], samples'[p])
      BY DEF LinkInv
    <3>1. PICK s \in LinkHealthSample :
              /\ samples'[p] = observe(samples[p], s)
              /\ current'[p] = update(current[p], observe(samples[p], s))
      BY <2>1, LinkStep
    <3>2. window(samples[p]) /\ evidence(current[p], samples[p])
      BY DEF LinkInv
    <3>3. window(observe(samples[p], s))
      BY <3>2, ObserveChangesByOne
    <3>4. evidence(update(current[p], observe(samples[p], s)), observe(samples[p], s))
      BY <3>2, UpdateHasEvidence
    <3>5. \A state, w : update(state, w) \in States
      BY DEF update, summarize, States
    <3> QED
      BY <3>1, <3>3, <3>4, <3>5
  <2>2. CASE UNCHANGED vars
    BY <2>2 DEF vars, LinkInv
  <2> QED
    BY <2>1, <2>2
<1> QED
  BY <1>1, <1>2, PTL DEF Spec

\* The state of every link is backed by its present window: update, which looks at no
\* latency on the way from RECOVERING to GOOD, never takes that way in a window of five
\* or more.
THEOREM EvidenceCorrect == Spec => []StateHasEvidence
<1>1. LinkInv => StateHasEvidence
  BY DEF LinkInv, StateHasEvidence, evidence
<1> QED
  BY <1>1, LinkInvariant, PTL

\* The one way into PARTITIONED is from CONGESTED, as specs/state_machine.yaml has it,
\* for windows of every length, though update tests no such thing.
THEOREM PartitionCorrect == Spec => PartitionedOnlyAfterCongested
<1> DEFINE A == \A p \in Peers : current'[p] = "Partitioned" =>
                    current[p] \in {"Congested", "Partitioned"}
<1>1. LinkInv /\ Next => A
  <2> SUFFICES ASSUME LinkInv, Next, NEW p \in Peers, current'[p] = "Partitioned",
                      current[p] # "Partitioned"
               PROVE  current[p] = "Congested"
    OBVIOUS
  <2> DEFINE w == samples[p]
  <2>1. PICK s \in LinkHealthSample : current'[p] = update(current[p], observe(w, s))
    BY LinkStep
  <2> DEFINE v == observe(w, s)
             m == count(w, "Fresh")
             n == count(v, "Fresh")
  <2>2. window(w) /\ current[p] \in States /\ evidence(current[p], w)
    BY DEF LinkInv
  <2>3. /\ Len(w) \in Nat /\ Len(v) \in Nat /\ m \in Nat /\ n \in Nat
        /\ Len(v) = IF Len(w) < MaxSamples THEN Len(w) + 1 ELSE Len(w)
        /\ Len(v) >= 1 /\ m <= n + 1
    BY <2>2, ObserveChangesByOne
  <2> HIDE DEF v, w
  <2>4. n = 0 /\ Len(v) >= 3
    <3>1. summarize(v) = "Partitioned"
      BY <2>1 DEF update, v
    <3> QED
      BY <2>3, <3>1 DEF summarize
  <2>5. m <= 1 /\ Len(w) >= 2
    BY <2>3, <2>4
  <2>6. /\ current[p] \in {"Good", "Degraded"} => 10 * m >= 9 * Len(w)
        /\ current[p] = "Recovering" => 2 * m > Len(w)
    BY <2>2 DEF evidence
  <2>7. current[p] \notin {"Good", "Degraded", "Recovering"}
    BY <2>3, <2>5, <2>6
  <2> QED
    BY <2>2, <2>7 DEF States
<1> QED
  BY <1>1, LinkInvariant, PTL DEF Spec, PartitionedOnlyAfterCongested

=============================================================================
