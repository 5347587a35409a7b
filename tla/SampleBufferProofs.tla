-------------------------- MODULE SampleBufferProofs --------------------------
(***************************************************************************)
(* Proofs about the sample buffer, for every set of streams and cycles,    *)
(* every capacity and every deadline.                                      *)
(*                                                                         *)
(* What the buffer shows of a sample depends on the order in which samples *)
(* arrived, which the buffer itself forgets.  The inductive invariants tie *)
(* it to the history of the deliveries: what is kept was delivered and is  *)
(* not newer than the last number seen (KeptWasDelivered), a cycle that    *)
(* was pruned never comes back (NewestInv), a cycle holds a sample         *)
(* of the latest session that delivered one for it (ArrivalsLeaveTraces),  *)
(* and a cycle is on time by a sample that is not late while it is kept    *)
(* and the only one delivered for it (OnTimeBySome).                       *)
(***************************************************************************)
EXTENDS SampleBuffer, FiniteSetTheorems, TLAPS

Envelope == [seq : Nat, session : Nat, target_cycle : Cycles, t_publish_ns : Nat,
             defects : SUBSET Defect]

Types ==
    /\ sent \in [Streams -> Seq(Envelope)]
    /\ stream_state \in [Streams -> [has_seq : BOOLEAN, last_seq : Nat, gap_count : Nat]]
    /\ session \in Nat /\ epoch_ns \in Nat /\ now \in Nat
    /\ DOMAIN samples \subseteq Streams \X Cycles
    /\ \A k \in DOMAIN samples :
          samples[k] \in [envelope : Envelope, local_receive_ns : Nat]
    /\ stored \subseteq Streams \X Cycles
    /\ arrived \subseteq Streams \X Nat /\ newest \subseteq arrived
    /\ on_time \subseteq Streams \X Cycles

\* Samples are numbered from one, and none is of a session to come.
SentInOrder ==
    \A st \in Streams : \A q \in DOMAIN sent[st] :
        sent[st][q].seq = q /\ sent[st][q].session <= session

\* What is kept for a cycle was sent for it and delivered.
KeptWasDelivered ==
    \A k \in DOMAIN samples :
        LET e == samples[k].envelope
        IN  /\ <<k[1], e.seq>> \in arrived
            /\ e = sent[k[1]][e.seq]
            /\ e.target_cycle = k[2]
            /\ samples[k].local_receive_ns <= now

\* A delivered sample was sent, its stream has seen its number, its cycle was stored,
\* and the cycle, when it is kept, holds no sample of an earlier session.
ArrivalsLeaveTraces ==
    \A st \in Streams, q \in Nat : <<st, q>> \in arrived =>
        /\ q \in DOMAIN sent[st]
        /\ stream_state[st].has_seq /\ q <= stream_state[st].last_seq
        /\ <<st, sent[st][q].target_cycle>> \in stored
        /\ <<st, sent[st][q].target_cycle>> \in DOMAIN samples =>
              samples[<<st, sent[st][q].target_cycle>>].envelope.session
                  >= sent[st][q].session

\* The last number of a stream is the newest one that arrived.
LastSeqArrived ==
    \A st \in Streams : stream_state[st].has_seq =>
        <<st, stream_state[st].last_seq>> \in newest

\* q was delivered in this session for this cycle.
deliveredFor(k, q) ==
    /\ <<k[1], q>> \in arrived
    /\ sent[k[1]][q].session = session
    /\ sent[k[1]][q].target_cycle = k[2]

\* A sample without defects was delivered in this session for a cycle that is on time;
\* if it is the only one and still kept, it is not late.
OnTimeBySome ==
    \A k \in on_time :
        \E q \in Nat :
            /\ deliveredFor(k, q)
            /\ sent[k[1]][q].defects = {}
            /\ k \in DOMAIN samples /\ (\A r \in Nat : deliveredFor(k, r) => r = q) =>
                  ~ isLate(samples[k], cycleStart(k[2]))

\* A kept sample of this session that is sound and not late put its cycle on time.
FreshIsOnTime ==
    \A k \in ofThisSession :
        viewStatus(k[1], k[2]) = "Fresh" => k \in on_time

TraceInv ==
    /\ Types
    /\ SentInOrder
    /\ KeptWasDelivered
    /\ ArrivalsLeaveTraces
    /\ LastSeqArrived

FreshInv == FreshIsOnTime /\ OnTimeBySome

-----------------------------------------------------------------------------
(* Sets of cycles                                                          *)

\* A set of numbers that is not empty has a least element.
LEMMA LeastElement ==
    ASSUME NEW S \in SUBSET Nat, S # {}
    PROVE  \E m \in S : \A x \in S : m <= x
<1>1. PICK m \in S : \A y \in S : ~ (<<y, m>> \in OpToRel(<, Nat))
  BY NatLessThanWellFounded, WFMin
<1>2. \A y \in S : ~ (y < m)
  BY <1>1 DEF OpToRel
<1>. QED
  BY <1>2

\* The cycles pruneStream keeps of cs: those with fewer than MaxSamples newer ones.
newestOf(cs) == {c \in cs : Cardinality({d \in cs : d > c}) < MaxSamples}

\* Up to MaxSamples cycles are all kept; of one more, the oldest goes.
LEMMA NewestOf ==
    ASSUME NEW cs \in SUBSET Nat, IsFiniteSet(cs), Cardinality(cs) <= MaxSamples + 1
    PROVE  \/ Cardinality(cs) <= MaxSamples /\ newestOf(cs) = cs
           \/ \E m \in cs : /\ \A x \in cs : m <= x
                            /\ newestOf(cs) = cs \ {m}
                            /\ Cardinality(newestOf(cs)) = MaxSamples
<1>0. MaxSamples \in Nat \ {0} /\ Cardinality(cs) \in Nat
  BY BufferAssumption, FS_CardinalityType
<1>. DEFINE newer(c) == {d \in cs : d > c}
<1>1. \A c \in cs : /\ IsFiniteSet(newer(c)) /\ Cardinality(newer(c)) \in Nat
                    /\ Cardinality(newer(c)) <= Cardinality(cs) - 1
  <2>. SUFFICES ASSUME NEW c \in cs
                PROVE  /\ IsFiniteSet(newer(c)) /\ Cardinality(newer(c)) \in Nat
                       /\ Cardinality(newer(c)) <= Cardinality(cs) - 1
    OBVIOUS
  <2>1. newer(c) \in SUBSET (cs \ {c})
    OBVIOUS
  <2>2. IsFiniteSet(cs \ {c}) /\ Cardinality(cs \ {c}) = Cardinality(cs) - 1
    BY FS_RemoveElement
  <2>3. IsFiniteSet(newer(c)) /\ Cardinality(newer(c)) <= Cardinality(cs \ {c})
    BY <2>1, <2>2, FS_Subset
  <2>. QED
    BY <2>2, <2>3, FS_CardinalityType
<1>2. CASE Cardinality(cs) <= MaxSamples
  <2>1. \A c \in cs : Cardinality(newer(c)) < MaxSamples
    BY <1>0, <1>1, <1>2
  <2>. QED
    BY <2>1, <1>2 DEF newestOf
<1>3. CASE ~ (Cardinality(cs) <= MaxSamples)
  <2>1. Cardinality(cs) = MaxSamples + 1
    BY <1>0, <1>3
  <2>2. cs # {}
    BY <1>0, <2>1, FS_EmptySet
  <2>3. PICK m \in cs : \A x \in cs : m <= x
    BY <2>2, LeastElement
  <2>4. IsFiniteSet(cs \ {m}) /\ Cardinality(cs \ {m}) = MaxSamples
    BY <1>0, <2>1, FS_RemoveElement
  <2>5. newer(m) = cs \ {m}
    <3>1. \A d \in cs : d > m <=> d # m
      BY <2>3
    <3>. QED
      BY <3>1
  <2>6. \A c \in cs \ {m} : Cardinality(newer(c)) < MaxSamples
    <3>. SUFFICES ASSUME NEW c \in cs \ {m} PROVE Cardinality(newer(c)) < MaxSamples
      OBVIOUS
    <3>1. newer(c) \in SUBSET ((cs \ {m}) \ {c})
      BY <2>3
    <3>2. IsFiniteSet((cs \ {m}) \ {c}) /\ Cardinality((cs \ {m}) \ {c}) = MaxSamples - 1
      BY <2>4, FS_RemoveElement
    <3>3. Cardinality(newer(c)) <= MaxSamples - 1
      BY <3>1, <3>2, FS_Subset
    <3>. QED
      BY <1>0, <1>1, <3>3
  <2>7. newestOf(cs) = cs \ {m}
    <3>1. Cardinality({d \in cs : d > m}) = MaxSamples
      BY <2>4, <2>5
    <3>2. \A c \in cs \ {m} : Cardinality({d \in cs : d > c}) < MaxSamples
      BY <2>6
    <3>3. m \notin newestOf(cs) /\ newestOf(cs) \subseteq cs
      BY <1>0, <3>1 DEF newestOf
    <3>4. cs \ {m} \subseteq newestOf(cs)
      BY <3>2 DEF newestOf
    <3>. QED
      BY <3>3, <3>4
  <2>. QED
    BY <2>3, <2>4, <2>7
<1>. QED
  BY <1>2, <1>3

\* kept are the newest of the cycles ever given.
NewestKept(kept, ever) ==
    /\ kept \subseteq ever /\ IsFiniteSet(kept)
    /\ kept # ever => Cardinality(kept) = MaxSamples
    /\ Cardinality(kept) <= MaxSamples
    /\ \A c \in ever \ kept, d \in kept : c < d

\* Giving one more cycle and pruning keeps the newest, and a cycle that was pruned
\* before is pruned again.
LEMMA PruneKeepsNewest ==
    ASSUME NEW ever \in SUBSET Nat, NEW kept, NewestKept(kept, ever), NEW c \in Nat
    PROVE  LET after == newestOf(kept \cup {c})
           IN  /\ NewestKept(after, ever \cup {c})
               /\ c \in ever \ kept => after = kept
<1>. DEFINE cs == kept \cup {c}
            after == newestOf(cs)
<1>0. MaxSamples \in Nat \ {0} /\ Cardinality(kept) \in Nat /\ IsFiniteSet(kept)
      /\ kept \subseteq ever /\ Cardinality(kept) <= MaxSamples
  BY BufferAssumption, FS_CardinalityType DEF NewestKept
<1>1. cs \in SUBSET Nat /\ IsFiniteSet(cs)
      /\ Cardinality(cs) = IF c \in kept THEN Cardinality(kept) ELSE Cardinality(kept) + 1
  BY <1>0, FS_AddElement
<1>2. Cardinality(cs) <= MaxSamples + 1
  BY <1>0, <1>1
<1>3. CASE Cardinality(cs) <= MaxSamples /\ after = cs
  <2>1. c \notin ever \ kept
    <3>. SUFFICES ASSUME c \in ever \ kept PROVE FALSE
      OBVIOUS
    <3>1. Cardinality(kept) = MaxSamples
      BY DEF NewestKept
    <3>. QED
      BY <1>0, <1>1, <1>3, <3>1
  <2>2. after # ever \cup {c} => kept # ever /\ Cardinality(cs) = MaxSamples
    <3>. SUFFICES ASSUME after # ever \cup {c} PROVE kept # ever /\ Cardinality(cs) = MaxSamples
      OBVIOUS
    <3>1. kept # ever
      BY <1>3
    <3>2. Cardinality(kept) = MaxSamples
      BY <3>1 DEF NewestKept
    <3>. QED
      BY <1>0, <1>1, <1>3, <3>1, <3>2
  <2>3. \A x \in (ever \cup {c}) \ after, d \in after : x < d
    <3>. SUFFICES ASSUME NEW x \in (ever \cup {c}) \ after, NEW d \in after PROVE x < d
      OBVIOUS
    <3>1. x \in ever \ kept /\ kept # ever
      BY <1>3
    <3>2. Cardinality(kept) = MaxSamples
      BY <3>1 DEF NewestKept
    <3>3. d \in kept
      BY <1>0, <1>1, <1>3, <3>2
    <3>. QED
      BY <3>1, <3>3 DEF NewestKept
  <2>. QED
    BY <1>0, <1>1, <1>3, <2>1, <2>2, <2>3 DEF NewestKept
<1>4. ASSUME NEW m \in cs, \A x \in cs : m <= x, after = cs \ {m},
             Cardinality(after) = MaxSamples
      PROVE  NewestKept(after, ever \cup {c}) /\ (c \in ever \ kept => after = kept)
  <2>1. IsFiniteSet(after)
    <3>1. IsFiniteSet(cs \ {m})
      BY <1>1, FS_RemoveElement
    <3>. QED
      BY <3>1, <1>4
  <2>2. c \in ever \ kept => m = c
    <3>. SUFFICES ASSUME c \in ever \ kept, m # c PROVE FALSE
      OBVIOUS
    <3>1. m \in kept /\ c < m
      BY DEF NewestKept
    <3>. QED
      BY <1>0, <1>1, <1>4, <3>1
  <2>3. \A x \in (ever \cup {c}) \ after, d \in after : x < d
    <3>. SUFFICES ASSUME NEW x \in (ever \cup {c}) \ after, NEW d \in after PROVE x < d
      OBVIOUS
    <3>0. x \in Nat /\ d \in Nat /\ m \in Nat /\ d \in cs /\ d # m /\ m <= d
      BY <1>0, <1>1, <1>4
    <3>1. CASE x \in cs
      BY <1>4, <3>0, <3>1
    <3>2. CASE x \notin cs
      <4>1. x \in ever \ kept
        BY <3>2
      <4>2. CASE m \in kept
        BY <4>1, <4>2, <3>0 DEF NewestKept
      <4>3. CASE m \notin kept
        BY <4>1, <4>3, <3>0 DEF NewestKept
      <4>. QED
        BY <4>2, <4>3
    <3>. QED
      BY <3>1, <3>2
  <2>4. after \subseteq ever \cup {c} /\ (c \in ever \ kept => after = kept)
    BY <1>0, <1>4, <2>2
  <2>5. Cardinality(after) <= MaxSamples
    BY <1>0, <1>4
  <2>. HIDE DEF after
  <2>. QED
    BY <1>4, <2>1, <2>3, <2>4, <2>5 DEF NewestKept
<1>. HIDE DEF cs, after
<1>5. \/ Cardinality(cs) <= MaxSamples /\ after = cs
      \/ \E m \in cs : /\ \A x \in cs : m <= x
                       /\ after = cs \ {m}
                       /\ Cardinality(after) = MaxSamples
  BY <1>1, <1>2, NewestOf DEF after
<1>. QED
  BY <1>3, <1>4, <1>5 DEF after, cs

-----------------------------------------------------------------------------
(* The cycles a stream has and ever had                                    *)

everOf(st) == {k[2] : k \in {j \in stored : j[1] = st}}

NewestInv == \A st \in Streams : NewestKept(cyclesOf(samples, st), everOf(st))

\* cyclesOf lists the keys of a stream.
LEMMA CyclesOf ==
    ASSUME NEW smp, DOMAIN smp \subseteq Streams \X Cycles, NEW st \in Streams, NEW c
    PROVE  c \in cyclesOf(smp, st) <=> <<st, c>> \in DOMAIN smp
<1>1. ASSUME c \in cyclesOf(smp, st) PROVE <<st, c>> \in DOMAIN smp
  <2>1. PICK k \in DOMAIN smp : k[1] = st /\ k[2] = c
    BY <1>1 DEF cyclesOf
  <2>. QED
    BY <2>1
<1>2. ASSUME <<st, c>> \in DOMAIN smp PROVE c \in cyclesOf(smp, st)
  <2>. DEFINE k == <<st, c>>
  <2>1. k \in {j \in DOMAIN smp : j[1] = st} /\ k[2] = c
    BY <1>2
  <2>. QED
    BY <2>1 DEF cyclesOf
<1>. QED
  BY <1>1, <1>2

\* everOf lists the keys of a stream that were ever stored.
LEMMA EverOf ==
    ASSUME stored \subseteq Streams \X Cycles, NEW st \in Streams, NEW c
    PROVE  c \in everOf(st) <=> <<st, c>> \in stored
<1>1. ASSUME c \in everOf(st) PROVE <<st, c>> \in stored
  <2>1. PICK k \in stored : k[1] = st /\ k[2] = c
    BY <1>1 DEF everOf
  <2>. QED
    BY <2>1
<1>2. ASSUME <<st, c>> \in stored PROVE c \in everOf(st)
  <2>. DEFINE k == <<st, c>>
  <2>1. k \in {j \in stored : j[1] = st} /\ k[2] = c
    BY <1>2
  <2>. QED
    BY <2>1 DEF everOf
<1>. QED
  BY <1>1, <1>2

\* What an insertion leaves in the buffer: the sample itself or what was there before,
\* and of its own stream the newest cycles.
LEMMA AddNewSamples ==
    ASSUME Types, NEW st \in Streams, NEW e \in Envelope, addNew(st, e)
    PROVE  LET key == <<st, e.target_cycle>>
           IN  /\ DOMAIN samples' \subseteq DOMAIN samples \cup {key}
               /\ \A k \in DOMAIN samples' :
                     samples'[k] = IF k = key THEN [envelope |-> e, local_receive_ns |-> now]
                                   ELSE samples[k]
               /\ cyclesOf(samples', st) = newestOf(cyclesOf(samples, st) \cup {e.target_cycle})
               /\ \A u \in Streams \ {st} : cyclesOf(samples', u) = cyclesOf(samples, u)
               /\ DOMAIN samples' \subseteq Streams \X Cycles
<1>. DEFINE key == <<st, e.target_cycle>>
            s == [envelope |-> e, local_receive_ns |-> now]
            put == [k \in DOMAIN samples \cup {key} |-> IF k = key THEN s ELSE samples[k]]
            cs == cyclesOf(put, st)
<1>0. e.target_cycle \in Cycles /\ DOMAIN samples \subseteq Streams \X Cycles
      /\ key \in Streams \X Cycles
  BY DEF Envelope, Types
<1>1. samples' = pruneStream(put, st)
  BY DEF addNew
<1>2. DOMAIN put = DOMAIN samples \cup {key}
      /\ \A k \in DOMAIN put : put[k] = IF k = key THEN s ELSE samples[k]
  OBVIOUS
<1>. HIDE DEF put
<1>3. DOMAIN samples' = {j \in DOMAIN put : j[1] = st => j[2] \in newestOf(cs)}
      /\ \A k \in DOMAIN samples' : samples'[k] = put[k]
  BY <1>1 DEF pruneStream, newestOf
<1>. HIDE DEF cs
<1>4. DOMAIN samples' \subseteq Streams \X Cycles /\ DOMAIN put \subseteq Streams \X Cycles
  BY <1>0, <1>2, <1>3
<1>5. cs = cyclesOf(samples, st) \cup {e.target_cycle}
  <2>. SUFFICES ASSUME NEW c PROVE c \in cs <=> c \in cyclesOf(samples, st) \cup {e.target_cycle}
    OBVIOUS
  <2>1. c \in cs <=> <<st, c>> \in DOMAIN put
    BY <1>4, CyclesOf DEF cs
  <2>2. c \in cyclesOf(samples, st) <=> <<st, c>> \in DOMAIN samples
    BY <1>0, CyclesOf
  <2>. QED
    BY <1>2, <2>1, <2>2
<1>6. cyclesOf(samples', st) = newestOf(cs)
  <2>. SUFFICES ASSUME NEW c PROVE c \in cyclesOf(samples', st) <=> c \in newestOf(cs)
    OBVIOUS
  <2>1. c \in cyclesOf(samples', st) <=> <<st, c>> \in DOMAIN samples'
    BY <1>4, CyclesOf
  <2>2. c \in newestOf(cs) => c \in cs
    BY DEF newestOf
  <2>3. c \in cs <=> <<st, c>> \in DOMAIN put
    BY <1>4, CyclesOf DEF cs
  <2>4. <<st, c>> \in DOMAIN samples' <=> <<st, c>> \in DOMAIN put /\ c \in newestOf(cs)
    BY <1>3
  <2>. QED
    BY <2>1, <2>2, <2>3, <2>4
<1>7. ASSUME NEW u \in Streams \ {st}
      PROVE  cyclesOf(samples', u) = cyclesOf(samples, u)
  <2>. SUFFICES ASSUME NEW c PROVE c \in cyclesOf(samples', u) <=> c \in cyclesOf(samples, u)
    OBVIOUS
  <2>1. c \in cyclesOf(samples', u) <=> <<u, c>> \in DOMAIN samples'
    BY <1>4, <1>7, CyclesOf
  <2>2. c \in cyclesOf(samples, u) <=> <<u, c>> \in DOMAIN samples
    BY <1>0, <1>7, CyclesOf
  <2>3. <<u, c>> # key /\ <<u, c>>[1] # st
    BY <1>7
  <2>4. <<u, c>> \in DOMAIN samples' <=> <<u, c>> \in DOMAIN samples
    BY <1>2, <1>3, <2>3
  <2>. QED
    BY <2>1, <2>2, <2>4
<1>. QED
  BY <1>2, <1>3, <1>4, <1>5, <1>6, <1>7

\* An insertion keeps the newest cycles of every stream, and a cycle that was pruned
\* does not come back.
LEMMA AddNewCycles ==
    ASSUME Types, NewestInv, NEW st \in Streams, NEW e \in Envelope, addNew(st, e)
    PROVE  /\ NewestInv'
           /\ <<st, e.target_cycle>> \in stored \ DOMAIN samples =>
                 <<st, e.target_cycle>> \notin DOMAIN samples'
<1>. DEFINE c == e.target_cycle
            key == <<st, c>>
<1>0. c \in Cycles /\ c \in Nat /\ DOMAIN samples \subseteq Streams \X Cycles
      /\ stored \subseteq Streams \X Cycles /\ Cycles \subseteq Nat
  BY BufferAssumption DEF Envelope, Types
<1>1. stored' = stored \cup {key}
  BY DEF addNew
<1>2. stored' \subseteq Streams \X Cycles
  BY <1>0, <1>1
<1>3. \A u \in Streams : \A d : d \in everOf(u) <=> <<u, d>> \in stored
  BY <1>0, EverOf
<1>4. \A u \in Streams : \A d : d \in everOf(u)' <=> <<u, d>> \in stored'
  <2>. SUFFICES ASSUME NEW u \in Streams, NEW d PROVE d \in everOf(u)' <=> <<u, d>> \in stored'
    OBVIOUS
  <2>1. ASSUME d \in everOf(u)' PROVE <<u, d>> \in stored'
    <3>1. PICK k \in stored' : k[1] = u /\ k[2] = d
      BY <2>1 DEF everOf
    <3>. QED
      BY <3>1, <1>2
  <2>2. ASSUME <<u, d>> \in stored' PROVE d \in everOf(u)'
    <3>. DEFINE k == <<u, d>>
    <3>1. k \in {j \in stored' : j[1] = u} /\ k[2] = d
      BY <2>2
    <3>. QED
      BY <3>1 DEF everOf
  <2>. QED
    BY <2>1, <2>2
<1>5. everOf(st)' = everOf(st) \cup {c} /\ \A u \in Streams \ {st} : everOf(u)' = everOf(u)
  <2>. HIDE DEF c
  <2>1. ASSUME NEW d PROVE d \in everOf(st)' <=> d \in everOf(st) \cup {c}
    <3>1. (d \in everOf(st) <=> <<st, d>> \in stored)
          /\ (d \in everOf(st)' <=> <<st, d>> \in stored')
      BY <1>3, <1>4
    <3>2. <<st, d>> = key <=> d = c
      OBVIOUS
    <3>. QED
      BY <1>1, <3>1, <3>2
  <2>2. \A u \in Streams \ {st} : \A d : d \in everOf(u)' <=> d \in everOf(u)
    <3>. SUFFICES ASSUME NEW u \in Streams \ {st}, NEW d
                  PROVE  d \in everOf(u)' <=> d \in everOf(u)
      OBVIOUS
    <3>1. <<u, d>> # key
      OBVIOUS
    <3>. QED
      BY <1>1, <1>3, <1>4, <3>1
  <2>3. everOf(st)' = everOf(st) \cup {c}
    BY <2>1
  <2>4. \A u \in Streams \ {st} : everOf(u)' = everOf(u)
    BY <2>2
  <2>. QED
    BY <2>3, <2>4
<1>6. everOf(st) \in SUBSET Nat
  <2>. SUFFICES ASSUME NEW d \in everOf(st) PROVE d \in Nat
    OBVIOUS
  <2>1. <<st, d>> \in stored
    BY <1>3
  <2>. QED
    BY <1>0, <2>1
<1>7. cyclesOf(samples', st) = newestOf(cyclesOf(samples, st) \cup {c})
      /\ (\A u \in Streams \ {st} : cyclesOf(samples', u) = cyclesOf(samples, u))
      /\ DOMAIN samples' \subseteq Streams \X Cycles
  BY AddNewSamples
<1>. HIDE DEF c
<1>8. NewestKept(cyclesOf(samples', st), everOf(st) \cup {c})
      /\ (c \in everOf(st) \ cyclesOf(samples, st) =>
             cyclesOf(samples', st) = cyclesOf(samples, st))
  BY <1>0, <1>6, <1>7, PruneKeepsNewest DEF NewestInv
<1>9. NewestInv'
  <2>. SUFFICES ASSUME NEW u \in Streams PROVE NewestKept(cyclesOf(samples', u), everOf(u)')
    BY DEF NewestInv
  <2>1. CASE u = st
    BY <2>1, <1>5, <1>8
  <2>2. CASE u # st
    BY <2>2, <1>5, <1>7 DEF NewestInv
  <2>. QED
    BY <2>1, <2>2
<1>10. ASSUME key \in stored \ DOMAIN samples PROVE key \notin DOMAIN samples'
  <2>1. c \in everOf(st) /\ c \notin cyclesOf(samples, st)
    BY <1>0, <1>3, <1>10, CyclesOf
  <2>2. c \notin cyclesOf(samples', st)
    BY <1>8, <2>1
  <2>. QED
    BY <1>7, <2>2, CyclesOf
<1>. QED
  BY <1>9, <1>10 DEF c

-----------------------------------------------------------------------------
(* The trace of the deliveries                                             *)

\* What was sent is an envelope with its own number.
LEMMA SentEnvelope ==
    ASSUME Types, SentInOrder, NEW st \in Streams, NEW q \in DOMAIN sent[st]
    PROVE  /\ sent[st][q] \in Envelope
           /\ q \in Nat /\ sent[st][q].seq = q
           /\ sent[st][q].session \in Nat /\ sent[st][q].session <= session
           /\ sent[st][q].target_cycle \in Cycles
<1>1. sent[st] \in Seq(Envelope)
  BY DEF Types
<1>2. sent[st][q] \in Envelope /\ q \in Nat
  BY <1>1
<1>. QED
  BY <1>2 DEF SentInOrder, Envelope

\* What an insertion makes of the state of its stream.
LEMMA AddNewStream ==
    ASSUME Types, NEW st \in Streams, NEW e \in Envelope, addNew(st, e)
    PROVE  LET ss == stream_state[st]
               gap == seqGap(ss, e)
           IN  /\ gap \in Nat
               /\ stream_state' \in
                     [Streams -> [has_seq : BOOLEAN, last_seq : Nat, gap_count : Nat]]
               /\ stream_state'[st].has_seq
               /\ stream_state'[st].last_seq =
                     IF ~ ss.has_seq \/ e.seq > ss.last_seq THEN e.seq ELSE ss.last_seq
               /\ stream_state'[st].gap_count = ss.gap_count + gap
               /\ \A u \in Streams \ {st} : stream_state'[u] = stream_state[u]
<1>. DEFINE ss == stream_state[st]
            gap == seqGap(ss, e)
            new == seeSeq(countGap(ss, e), e)
<1>1. ss \in [has_seq : BOOLEAN, last_seq : Nat, gap_count : Nat] /\ e.seq \in Nat
  BY DEF Types, Envelope
<1>. HIDE DEF ss
<1>2. gap \in Nat
  BY <1>1 DEF seqGap
<1>3. countGap(ss, e) = [ss EXCEPT !.gap_count = @ + gap]
  BY DEF countGap
<1>. HIDE DEF gap
<1>4. countGap(ss, e) \in [has_seq : BOOLEAN, last_seq : Nat, gap_count : Nat]
      /\ countGap(ss, e).has_seq = ss.has_seq /\ countGap(ss, e).last_seq = ss.last_seq
      /\ countGap(ss, e).gap_count = ss.gap_count + gap
  BY <1>1, <1>2, <1>3
<1>5. new \in [has_seq : BOOLEAN, last_seq : Nat, gap_count : Nat]
      /\ new.has_seq
      /\ new.last_seq = (IF ~ ss.has_seq \/ e.seq > ss.last_seq THEN e.seq ELSE ss.last_seq)
      /\ new.gap_count = ss.gap_count + gap
  BY <1>1, <1>4 DEF seeSeq
<1>6. stream_state' = [stream_state EXCEPT ![st] = new]
  BY DEF addNew, ss
<1>. HIDE DEF new
<1>. QED
  BY <1>2, <1>5, <1>6 DEF Types, ss, gap

\* An add that finds a duplicate changes nothing: a kept number is not newer than the
\* last one, so its gap is zero.
LEMMA DuplicateLeavesNothing ==
    ASSUME TraceInv, NEW st \in Streams, NEW q \in DOMAIN sent[st],
           addDuplicate(st, sent[st][q])
    PROVE  UNCHANGED <<buffer, stored, arrived, newest>>
<1>. DEFINE e == sent[st][q]
            ss == stream_state[st]
<1>1. e \in Envelope /\ ss \in [has_seq : BOOLEAN, last_seq : Nat, gap_count : Nat]
      /\ DOMAIN samples \subseteq Streams \X Cycles
  BY DEF TraceInv, Types
<1>2. UNCHANGED <<samples, last_good, stored, arrived, newest>>
  BY DEF addDuplicate
<1>3. CASE repeatsLastSeq(ss, e)
  BY <1>2, <1>3 DEF addDuplicate, buffer
<1>4. CASE ~ repeatsLastSeq(ss, e)
  <2>1. isKept(samples, st, e)
        /\ stream_state' = [stream_state EXCEPT ![st] = countGap(ss, e)]
    BY <1>4 DEF addDuplicate
  <2>. DEFINE k == <<st, e.target_cycle>>
  <2>2. k \in DOMAIN samples /\ samples[k].envelope.seq = e.seq /\ k[1] = st
    BY <2>1 DEF isKept
  <2>3. <<st, e.seq>> \in arrived /\ e.seq \in Nat
    BY <1>1, <2>2 DEF TraceInv, KeptWasDelivered, Envelope
  <2>4. e.seq <= ss.last_seq
    BY <2>3 DEF TraceInv, ArrivalsLeaveTraces
  <2>5. seqGap(ss, e) = 0
    BY <1>1, <2>3, <2>4 DEF seqGap
  <2>6. countGap(ss, e) = ss
    BY <1>1, <2>5 DEF countGap
  <2>7. stream_state' = stream_state
    BY <2>1, <2>6 DEF TraceInv, Types
  <2>. QED
    BY <1>2, <2>7 DEF buffer
<1>. QED
  BY <1>3, <1>4

\* An insertion keeps the traces.
LEMMA AddNewKeepsTraces ==
    ASSUME TraceInv, NEW st \in Streams, NEW q \in DOMAIN sent[st],
           sent[st][q].session = session, addNew(st, sent[st][q]),
           UNCHANGED <<session, epoch_ns, now, sent>>, on_time' \subseteq Streams \X Cycles
    PROVE  TraceInv'
<1>. DEFINE e == sent[st][q]
            c == e.target_cycle
            key == <<st, c>>
            new == [envelope |-> e, local_receive_ns |-> now]
<1>0. Types /\ SentInOrder /\ KeptWasDelivered /\ ArrivalsLeaveTraces /\ LastSeqArrived
  BY DEF TraceInv
<1>1. e \in Envelope /\ e.seq = q /\ q \in Nat /\ c \in Cycles /\ now \in Nat /\ session \in Nat
  BY <1>0, SentEnvelope DEF Types
<1>2. stored' = stored \cup {key} /\ arrived' = arrived \cup {<<st, q>>}
      /\ newest' = IF \A k \in arrived : k[1] = st => k[2] < q
                   THEN newest \cup {<<st, q>>} ELSE newest
  BY <1>1 DEF addNew
<1>3. /\ DOMAIN samples' \subseteq DOMAIN samples \cup {key}
      /\ \A k \in DOMAIN samples' : samples'[k] = IF k = key THEN new ELSE samples[k]
      /\ DOMAIN samples' \subseteq Streams \X Cycles
  BY <1>0, <1>1, AddNewSamples
<1>4. /\ stream_state' \in [Streams -> [has_seq : BOOLEAN, last_seq : Nat, gap_count : Nat]]
      /\ stream_state'[st].has_seq
      /\ stream_state'[st].last_seq =
            IF ~ stream_state[st].has_seq \/ q > stream_state[st].last_seq
            THEN q ELSE stream_state[st].last_seq
      /\ \A u \in Streams \ {st} : stream_state'[u] = stream_state[u]
  BY <1>0, <1>1, AddNewStream
<1>. HIDE DEF e, c, key, new
<1>5. new \in [envelope : Envelope, local_receive_ns : Nat]
      /\ new.envelope = e /\ new.local_receive_ns = now
  BY <1>1 DEF new
<1>6. Types'
  <2>1. \A k \in DOMAIN samples' :
          samples'[k] \in [envelope : Envelope, local_receive_ns : Nat]
    BY <1>0, <1>3, <1>5 DEF Types
  <2>2. stored' \subseteq Streams \X Cycles /\ arrived' \subseteq Streams \X Nat
        /\ newest' \subseteq arrived'
    BY <1>0, <1>1, <1>2 DEF Types, key
  <2>. QED
    BY <1>0, <1>3, <1>4, <2>1, <2>2 DEF Types
<1>7. SentInOrder'
  BY <1>0 DEF SentInOrder
<1>8. KeptWasDelivered'
  <2>. SUFFICES ASSUME NEW k \in DOMAIN samples'
                PROVE  /\ <<k[1], samples'[k].envelope.seq>> \in arrived'
                       /\ samples'[k].envelope = sent[k[1]][samples'[k].envelope.seq]
                       /\ samples'[k].envelope.target_cycle = k[2]
                       /\ samples'[k].local_receive_ns <= now
    BY DEF KeptWasDelivered
  <2>1. CASE k = key
    <3>1. samples'[k] = new /\ k[1] = st /\ k[2] = c
      BY <1>3, <2>1 DEF key
    <3>. QED
      BY <1>1, <1>2, <1>5, <3>1 DEF e, c
  <2>2. CASE k # key
    <3>1. k \in DOMAIN samples /\ samples'[k] = samples[k]
      BY <1>3, <2>2
    <3>. QED
      BY <1>0, <1>2, <3>1 DEF KeptWasDelivered
  <2>. QED
    BY <2>1, <2>2
<1>9. ArrivalsLeaveTraces'
  <2>. SUFFICES ASSUME NEW u \in Streams, NEW r \in Nat, <<u, r>> \in arrived'
                PROVE  /\ r \in DOMAIN sent[u]
                       /\ stream_state'[u].has_seq /\ r <= stream_state'[u].last_seq
                       /\ <<u, sent[u][r].target_cycle>> \in stored'
                       /\ <<u, sent[u][r].target_cycle>> \in DOMAIN samples' =>
                             samples'[<<u, sent[u][r].target_cycle>>].envelope.session
                                 >= sent[u][r].session
    BY DEF ArrivalsLeaveTraces
  <2>. DEFINE k == <<u, sent[u][r].target_cycle>>
  <2>0. <<u, r>> \in arrived \/ (u = st /\ r = q)
    BY <1>2
  <2>1. r \in DOMAIN sent[u] /\ k \in stored'
    BY <1>0, <1>2, <2>0 DEF ArrivalsLeaveTraces, key, c, e
  <2>2. stream_state'[u].has_seq /\ r <= stream_state'[u].last_seq
    <3>1. CASE u # st
      BY <1>0, <1>4, <2>0, <3>1 DEF ArrivalsLeaveTraces
    <3>2. CASE u = st
      <4>1. stream_state[st].last_seq \in Nat
        BY <1>0 DEF Types
      <4>2. CASE <<u, r>> \in arrived
        <5>1. stream_state[st].has_seq /\ r <= stream_state[st].last_seq
          BY <1>0, <3>2, <4>2 DEF ArrivalsLeaveTraces
        <5>. QED
          BY <1>1, <1>4, <3>2, <4>1, <5>1
      <4>3. CASE r = q
        BY <1>1, <1>4, <3>2, <4>1, <4>3
      <4>. QED
        BY <2>0, <4>2, <4>3
    <3>. QED
      BY <3>1, <3>2
  <2>3. ASSUME k \in DOMAIN samples' PROVE samples'[k].envelope.session >= sent[u][r].session
    <3>0. sent[u][r].session \in Nat /\ sent[u][r].session <= session
      BY <1>0, <2>1, SentEnvelope
    <3>1. CASE k = key
      <4>1. samples'[k].envelope = e
        BY <1>3, <1>5, <2>3, <3>1
      <4>. QED
        BY <1>1, <3>0, <4>1 DEF e
    <3>2. CASE k # key
      <4>1. k \in DOMAIN samples /\ samples'[k] = samples[k]
        BY <1>3, <2>3, <3>2
      <4>2. <<u, r>> \in arrived
        BY <2>0, <3>2 DEF key, c, e
      <4>. QED
        BY <1>0, <4>1, <4>2 DEF ArrivalsLeaveTraces
    <3>. QED
      BY <3>1, <3>2
  <2>. QED
    BY <2>1, <2>2, <2>3
<1>10. LastSeqArrived'
  <2>. SUFFICES ASSUME NEW u \in Streams, stream_state'[u].has_seq
                PROVE  <<u, stream_state'[u].last_seq>> \in newest'
    BY DEF LastSeqArrived
  <2>1. newest \subseteq newest'
    BY <1>2
  <2>2. CASE u # st
    BY <1>0, <1>4, <2>1, <2>2 DEF LastSeqArrived
  <2>3. CASE u = st /\ ~ (~ stream_state[st].has_seq \/ q > stream_state[st].last_seq)
    BY <1>0, <1>4, <2>1, <2>3 DEF LastSeqArrived
  <2>4. CASE u = st /\ (~ stream_state[st].has_seq \/ q > stream_state[st].last_seq)
    <3>1. \A k \in arrived : k[1] = st => k[2] < q
      <4>. SUFFICES ASSUME NEW k \in arrived, k[1] = st PROVE k[2] < q
        OBVIOUS
      <4>1. k = <<st, k[2]>> /\ k[2] \in Nat
        BY <1>0 DEF Types
      <4>2. stream_state[st].has_seq /\ k[2] <= stream_state[st].last_seq
        BY <1>0, <4>1 DEF ArrivalsLeaveTraces
      <4>3. stream_state[st].last_seq \in Nat
        BY <1>0 DEF Types
      <4>. QED
        BY <1>1, <2>4, <4>1, <4>2, <4>3
    <3>. QED
      BY <1>2, <1>4, <2>4, <3>1
  <2>. QED
    BY <2>2, <2>3, <2>4
<1>. QED
  BY <1>6, <1>7, <1>8, <1>9, <1>10 DEF TraceInv

\* A step that adds nothing to the buffer keeps the traces, while peers publish, time
\* passes and sessions start.
LEMMA OtherStepsKeepTraces ==
    ASSUME TraceInv, UNCHANGED <<buffer, stored, arrived, newest>>,
           sent' \in [Streams -> Seq(Envelope)], SentInOrder',
           \A u \in Streams : \A r \in DOMAIN sent[u] :
               r \in DOMAIN sent'[u] /\ sent'[u][r] = sent[u][r],
           session' \in Nat, epoch_ns' \in Nat, now' \in Nat, now' >= now,
           on_time' \subseteq Streams \X Cycles
    PROVE  TraceInv'
<1>0. Types /\ SentInOrder /\ KeptWasDelivered /\ ArrivalsLeaveTraces /\ LastSeqArrived
  BY DEF TraceInv
<1>1. UNCHANGED <<samples, stream_state, stored, arrived, newest>>
  BY DEF buffer
<1>2. Types'
  BY <1>0, <1>1 DEF Types
<1>3. ArrivalsLeaveTraces'
  <2>. SUFFICES ASSUME NEW u \in Streams, NEW r \in Nat, <<u, r>> \in arrived
                PROVE  /\ r \in DOMAIN sent'[u]
                       /\ stream_state[u].has_seq /\ r <= stream_state[u].last_seq
                       /\ <<u, sent'[u][r].target_cycle>> \in stored
                       /\ <<u, sent'[u][r].target_cycle>> \in DOMAIN samples =>
                             samples[<<u, sent'[u][r].target_cycle>>].envelope.session
                                 >= sent'[u][r].session
    BY <1>1 DEF ArrivalsLeaveTraces
  <2>1. r \in DOMAIN sent[u]
    BY <1>0 DEF ArrivalsLeaveTraces
  <2>2. r \in DOMAIN sent'[u] /\ sent'[u][r] = sent[u][r]
    BY <2>1
  <2>. QED
    BY <1>0, <2>2 DEF ArrivalsLeaveTraces
<1>4. KeptWasDelivered'
  <2>. SUFFICES ASSUME NEW k \in DOMAIN samples
                PROVE  /\ <<k[1], samples[k].envelope.seq>> \in arrived
                       /\ samples[k].envelope = sent'[k[1]][samples[k].envelope.seq]
                       /\ samples[k].envelope.target_cycle = k[2]
                       /\ samples[k].local_receive_ns <= now'
    BY <1>1 DEF KeptWasDelivered
  <2>0. samples[k] \in [envelope : Envelope, local_receive_ns : Nat] /\ now \in Nat
        /\ k \in Streams \X Cycles
    BY <1>0 DEF Types
  <2>1. /\ <<k[1], samples[k].envelope.seq>> \in arrived
        /\ samples[k].envelope = sent[k[1]][samples[k].envelope.seq]
        /\ samples[k].envelope.target_cycle = k[2]
        /\ samples[k].local_receive_ns <= now
    BY <1>0 DEF KeptWasDelivered
  <2>2. k[1] \in Streams /\ samples[k].envelope.seq \in Nat
    BY <2>0 DEF Envelope
  <2>3. samples[k].envelope.seq \in DOMAIN sent[k[1]]
    BY <1>0, <2>1, <2>2 DEF ArrivalsLeaveTraces
  <2>4. sent'[k[1]][samples[k].envelope.seq] = sent[k[1]][samples[k].envelope.seq]
    BY <2>2, <2>3
  <2>. QED
    BY <2>0, <2>1, <2>4
<1>5. LastSeqArrived'
  BY <1>0, <1>1 DEF LastSeqArrived
<1>. QED
  BY <1>2, <1>3, <1>4, <1>5 DEF TraceInv

\* What a delivery leaves alone, and the two ways it can go.
LEMMA DeliverSteps ==
    ASSUME TraceInv, NEW st \in Streams, NEW q \in DOMAIN sent[st], Deliver(st, q)
    PROVE  /\ UNCHANGED <<session, epoch_ns, now, sent>>
           /\ sent[st][q].session = session
           /\ on_time' \subseteq on_time \cup {<<st, sent[st][q].target_cycle>>}
           /\ on_time' \subseteq Streams \X Cycles
           /\ \/ addDuplicate(st, sent[st][q]) /\ UNCHANGED <<buffer, stored, arrived, newest>>
              \/ addNew(st, sent[st][q])
<1>1. UNCHANGED <<session, epoch_ns, now, sent>> /\ sent[st][q].session = session
      /\ on_time' \subseteq on_time \cup {<<st, sent[st][q].target_cycle>>}
      /\ (addDuplicate(st, sent[st][q]) \/ addNew(st, sent[st][q]))
  BY DEF Deliver
<1>2. sent[st][q].target_cycle \in Cycles /\ on_time \subseteq Streams \X Cycles
  BY SentEnvelope DEF TraceInv, Types
<1>. QED
  BY <1>1, <1>2, DuplicateLeavesNothing

\* A peer's next sample goes to the end of what it sent.
LEMMA PublishAppends ==
    ASSUME TraceInv, NEW st \in Streams, NEW c \in Cycles, NEW d \in DefectSets[st],
           Publish(st, c, d)
    PROVE  /\ UNCHANGED <<buffer, session, epoch_ns, now, stored, arrived, newest, on_time>>
           /\ sent' \in [Streams -> Seq(Envelope)]
           /\ SentInOrder'
           /\ \A u \in Streams : \A r \in DOMAIN sent[u] :
                 r \in DOMAIN sent'[u] /\ sent'[u][r] = sent[u][r]
<1>. DEFINE s == sent[st]
            e == [seq |-> Len(s) + 1, session |-> session, target_cycle |-> c,
                  t_publish_ns |-> now, defects |-> d]
<1>0. Types /\ SentInOrder
  BY DEF TraceInv
<1>1. s \in Seq(Envelope) /\ sent \in [Streams -> Seq(Envelope)]
      /\ session \in Nat /\ now \in Nat /\ Len(s) \in Nat
  BY <1>0 DEF Types
<1>2. d \in SUBSET Defect
  BY BufferAssumption
<1>. HIDE DEF s
<1>3. e \in Envelope /\ e.seq = Len(s) + 1 /\ e.session = session
  BY <1>1, <1>2 DEF Envelope
<1>4. sent' = [sent EXCEPT ![st] = Append(s, e)]
      /\ UNCHANGED <<buffer, session, epoch_ns, now, stored, arrived, newest, on_time>>
  BY DEF Publish, history, s
<1>. HIDE DEF e
<1>5. Append(s, e) \in Seq(Envelope) /\ Len(Append(s, e)) = Len(s) + 1
      /\ DOMAIN Append(s, e) = 1 .. Len(s) + 1 /\ DOMAIN s = 1 .. Len(s)
      /\ (\A r \in DOMAIN s : Append(s, e)[r] = s[r]) /\ Append(s, e)[Len(s) + 1] = e
  BY <1>1, <1>3
<1>6. sent' \in [Streams -> Seq(Envelope)]
  BY <1>1, <1>4, <1>5
<1>7. sent'[st] = Append(s, e) /\ \A u \in Streams \ {st} : sent'[u] = sent[u]
  BY <1>1, <1>4
<1>8. ASSUME NEW u \in Streams, NEW r \in DOMAIN sent[u]
      PROVE  r \in DOMAIN sent'[u] /\ sent'[u][r] = sent[u][r]
  <2>1. CASE u = st
    BY <1>1, <1>5, <1>7, <1>8, <2>1 DEF s
  <2>2. CASE u # st
    BY <1>7, <1>8, <2>2
  <2>. QED
    BY <2>1, <2>2
<1>9. SentInOrder'
  <2>. SUFFICES ASSUME NEW u \in Streams, NEW r \in DOMAIN sent'[u]
                PROVE  sent'[u][r].seq = r /\ sent'[u][r].session <= session
    BY <1>4 DEF SentInOrder
  <2>1. CASE u = st
    <3>1. r \in DOMAIN s \/ r = Len(s) + 1
      BY <1>1, <1>5, <1>7, <2>1
    <3>2. CASE r \in DOMAIN s
      BY <1>0, <1>5, <1>7, <2>1, <3>2 DEF SentInOrder, s
    <3>3. CASE r = Len(s) + 1
      BY <1>1, <1>3, <1>5, <1>7, <2>1, <3>3
    <3>. QED
      BY <3>1, <3>2, <3>3
  <2>2. CASE u # st
    BY <1>0, <1>7, <2>2 DEF SentInOrder
  <2>. QED
    BY <2>1, <2>2
<1>. QED
  BY <1>4, <1>6, <1>8, <1>9

\* Every step keeps the traces and the newest cycles.
LEMMA NextTraces ==
    TraceInv /\ NewestInv /\ [Next]_vars => TraceInv' /\ NewestInv'
<1>. SUFFICES ASSUME TraceInv, NewestInv, [Next]_vars PROVE TraceInv' /\ NewestInv'
  OBVIOUS
<1>0. Types /\ SentInOrder
  BY DEF TraceInv
<1>1. ASSUME UNCHANGED <<buffer, stored>> PROVE NewestInv'
  BY <1>1 DEF NewestInv, everOf, buffer
<1>2. ASSUME NEW st \in Streams, NEW q \in DOMAIN sent[st], Deliver(st, q)
      PROVE  TraceInv' /\ NewestInv'
  <2>1. UNCHANGED <<session, epoch_ns, now, sent>> /\ sent[st][q].session = session
        /\ on_time' \subseteq Streams \X Cycles /\ sent[st][q] \in Envelope
    BY <1>0, <1>2, DeliverSteps, SentEnvelope
  <2>2. CASE addNew(st, sent[st][q])
    <3>1. TraceInv'
      BY <1>2, <2>1, <2>2, AddNewKeepsTraces
    <3>2. NewestInv'
      BY <1>0, <1>2, <2>1, <2>2, AddNewCycles
    <3>. QED
      BY <3>1, <3>2
  <2>3. CASE UNCHANGED <<buffer, stored, arrived, newest>>
    <3>1. sent' \in [Streams -> Seq(Envelope)] /\ SentInOrder'
          /\ session' \in Nat /\ epoch_ns' \in Nat /\ now' \in Nat /\ now' >= now
          /\ (\A u \in Streams : \A r \in DOMAIN sent[u] :
                r \in DOMAIN sent'[u] /\ sent'[u][r] = sent[u][r])
      BY <1>0, <2>1 DEF Types, SentInOrder
    <3>2. TraceInv'
      BY <2>1, <2>3, <3>1, OtherStepsKeepTraces
    <3>. QED
      BY <1>1, <2>3, <3>2
  <2>. QED
    BY <1>2, <2>2, <2>3, DeliverSteps
<1>3. ASSUME NEW st \in Streams, NEW c \in Cycles, NEW d \in DefectSets[st], Publish(st, c, d)
      PROVE  TraceInv' /\ NewestInv'
  <2>1. UNCHANGED <<buffer, session, epoch_ns, now, stored, arrived, newest, on_time>>
        /\ sent' \in [Streams -> Seq(Envelope)] /\ SentInOrder'
        /\ (\A u \in Streams : \A r \in DOMAIN sent[u] :
              r \in DOMAIN sent'[u] /\ sent'[u][r] = sent[u][r])
    BY <1>3, PublishAppends
  <2>2. session' \in Nat /\ epoch_ns' \in Nat /\ now' \in Nat /\ now' >= now
        /\ on_time' \subseteq Streams \X Cycles
    BY <1>0, <2>1 DEF Types
  <2>3. TraceInv'
    BY <2>1, <2>2, OtherStepsKeepTraces
  <2>. QED
    BY <1>1, <2>1, <2>3
<1>4. ASSUME UNCHANGED <<buffer, stored, arrived, newest, sent>>,
             session' \in Nat, session' >= session, epoch_ns' \in Nat, now' \in Nat,
             now' >= now, on_time' \subseteq Streams \X Cycles
      PROVE  TraceInv' /\ NewestInv'
  <2>1. SentInOrder'
    <3>. SUFFICES ASSUME NEW u \in Streams, NEW r \in DOMAIN sent[u]
                  PROVE  sent[u][r].seq = r /\ sent[u][r].session <= session'
      BY <1>4 DEF SentInOrder
    <3>1. sent[u][r].seq = r /\ sent[u][r].session <= session /\ sent[u][r].session \in Nat
      BY <1>0, SentEnvelope
    <3>2. session \in Nat
      BY <1>0 DEF Types
    <3>. QED
      BY <1>4, <3>1, <3>2
  <2>2. sent' \in [Streams -> Seq(Envelope)]
        /\ (\A u \in Streams : \A r \in DOMAIN sent[u] :
              r \in DOMAIN sent'[u] /\ sent'[u][r] = sent[u][r])
    BY <1>0, <1>4 DEF Types
  <2>3. TraceInv'
    BY <1>4, <2>1, <2>2, OtherStepsKeepTraces
  <2>. QED
    BY <1>1, <1>4, <2>3
<1>5. CASE NewSession
  <2>1. UNCHANGED <<buffer, stored, arrived, newest, sent>> /\ session' = session + 1
        /\ epoch_ns' = now /\ now' = now /\ on_time' = {}
    BY <1>5 DEF NewSession
  <2>. QED
    BY <1>0, <1>4, <2>1 DEF Types
<1>6. CASE Advance
  <2>1. UNCHANGED <<buffer, stored, arrived, newest, sent>> /\ session' = session
        /\ epoch_ns' = epoch_ns /\ now' = now + 1 /\ on_time' = on_time
    BY <1>6 DEF Advance, history
  <2>. QED
    BY <1>0, <1>4, <2>1 DEF Types
<1>7. CASE UNCHANGED vars
  <2>1. UNCHANGED <<buffer, stored, arrived, newest, sent, session, epoch_ns, now, on_time>>
    BY <1>7 DEF vars, history
  <2>. QED
    BY <1>0, <1>4, <2>1 DEF Types
<1>. QED
  BY <1>2, <1>3, <1>5, <1>6, <1>7 DEF Next

\* The reachable states satisfy the invariants.
LEMMA TraceInvariant == Spec => [](TraceInv /\ NewestInv)
<1>1. Init => TraceInv /\ NewestInv
  <2>. SUFFICES ASSUME Init PROVE TraceInv /\ NewestInv
    OBVIOUS
  <2>1. DOMAIN samples = {} /\ stored = {} /\ arrived = {} /\ newest = {} /\ on_time = {}
        /\ (\A st \in Streams : sent[st] = << >>)
        /\ sent = [st \in Streams |-> << >>]
        /\ stream_state = [st \in Streams |->
                              [has_seq |-> FALSE, last_seq |-> 0, gap_count |-> 0]]
        /\ session = 1 /\ epoch_ns = 0 /\ now = 0
    BY DEF Init
  <2>2. << >> \in Seq(Envelope) /\ DOMAIN << >> = {}
    OBVIOUS
  <2>3. sent \in [Streams -> Seq(Envelope)]
    BY <2>1, <2>2
  <2>4. Types
    BY <2>1, <2>3 DEF Types
  <2>5. SentInOrder
    BY <2>1, <2>2 DEF SentInOrder
  <2>6. KeptWasDelivered /\ ArrivalsLeaveTraces /\ LastSeqArrived
    BY <2>1 DEF KeptWasDelivered, ArrivalsLeaveTraces, LastSeqArrived
  <2>7. NewestInv
    <3>. SUFFICES ASSUME NEW st \in Streams PROVE NewestKept(cyclesOf(samples, st), everOf(st))
      BY DEF NewestInv
    <3>1. cyclesOf(samples, st) = {} /\ everOf(st) = {}
      BY <2>1 DEF cyclesOf, everOf
    <3>. QED
      BY <3>1, FS_EmptySet, BufferAssumption DEF NewestKept
  <2>. QED
    BY <2>4, <2>5, <2>6, <2>7 DEF TraceInv
<1>. QED
  BY <1>1, NextTraces, PTL DEF Spec

-----------------------------------------------------------------------------
(* What the buffer keeps                                                   *)

\* deliveredNow lists the cycles of the samples of this session that arrived, and keptNow
\* the keys of a stream that hold one.
LEMMA CyclesNow ==
    ASSUME Types, NEW st \in Streams, NEW c
    PROVE  /\ c \in deliveredNow(st) <=>
                 \E q \in DOMAIN sent[st] : /\ <<st, q>> \in arrived
                                            /\ sent[st][q].session = session
                                            /\ sent[st][q].target_cycle = c
           /\ c \in keptNow(st) <=> /\ <<st, c>> \in DOMAIN samples
                                    /\ samples[<<st, c>>].envelope.session = session
<1>1. c \in deliveredNow(st) <=>
          \E q \in DOMAIN sent[st] : /\ <<st, q>> \in arrived
                                     /\ sent[st][q].session = session
                                     /\ sent[st][q].target_cycle = c
  BY DEF deliveredNow
<1>2. ASSUME c \in keptNow(st)
      PROVE  <<st, c>> \in DOMAIN samples /\ samples[<<st, c>>].envelope.session = session
  <2>1. PICK k \in DOMAIN samples :
            samples[k].envelope.session = session /\ k[1] = st /\ k[2] = c
    BY <1>2 DEF keptNow, ofThisSession
  <2>2. k = <<st, c>>
    BY <2>1 DEF Types
  <2>. QED
    BY <2>1, <2>2
<1>3. ASSUME <<st, c>> \in DOMAIN samples, samples[<<st, c>>].envelope.session = session
      PROVE  c \in keptNow(st)
  <2>. DEFINE k == <<st, c>>
  <2>1. k \in {j \in ofThisSession : j[1] = st} /\ k[2] = c
    BY <1>3 DEF ofThisSession
  <2>. QED
    BY <2>1 DEF keptNow
<1>. QED
  BY <1>1, <1>2, <1>3

\* Of the samples of one session a stream drops the oldest cycles only, and only when it
\* is full: no order of arrival, no duplicate and no sample of another stream makes
\* pruneStream drop a newer cycle of the session and keep an older one.  NewestInv says so
\* of all samples of all sessions; ArrivalsLeaveTraces adds that a cycle that is kept and
\* was delivered in this session holds a sample of this session.
THEOREM NewestCyclesCorrect == Spec => []KeepsNewestCycles
<1>1. ASSUME TraceInv, NewestInv PROVE KeepsNewestCycles
  <2>. SUFFICES ASSUME NEW st \in Streams
                PROVE  /\ keptNow(st) \subseteq deliveredNow(st)
                       /\ \A c \in deliveredNow(st) \ keptNow(st), d \in keptNow(st) : c < d
                       /\ keptNow(st) # deliveredNow(st) =>
                              Cardinality(cyclesOf(samples, st)) = MaxSamples
                       /\ Cardinality(cyclesOf(samples, st)) <= MaxSamples
    BY DEF KeepsNewestCycles
  <2>0. Types /\ SentInOrder /\ KeptWasDelivered /\ ArrivalsLeaveTraces
        /\ DOMAIN samples \subseteq Streams \X Cycles /\ stored \subseteq Streams \X Cycles
        /\ session \in Nat
    BY <1>1 DEF TraceInv, Types
  <2>. DEFINE held == cyclesOf(samples, st)
              ever == everOf(st)
  <2>1. NewestKept(held, ever)
    BY <1>1 DEF NewestInv
  <2>2. ASSUME NEW c \in keptNow(st) PROVE c \in deliveredNow(st) /\ c \in held
    <3>. DEFINE k == <<st, c>>
                e == samples[k].envelope
    <3>1. k \in DOMAIN samples /\ e.session = session /\ k[1] = st /\ k[2] = c
      BY <2>0, <2>2, CyclesNow
    <3>2. e \in Envelope /\ e.seq \in Nat
      BY <2>0, <3>1 DEF Types, Envelope
    <3>3. <<st, e.seq>> \in arrived /\ e = sent[st][e.seq] /\ e.target_cycle = c
      BY <2>0, <3>1 DEF KeptWasDelivered
    <3>4. e.seq \in DOMAIN sent[st]
      BY <2>0, <3>2, <3>3 DEF ArrivalsLeaveTraces
    <3>5. c \in deliveredNow(st)
      BY <2>0, <3>1, <3>3, <3>4, CyclesNow
    <3>. QED
      BY <2>0, <3>1, <3>5, CyclesOf
  <2>3. ASSUME NEW c \in deliveredNow(st) \ keptNow(st) PROVE c \in ever \ held
    <3>1. PICK q \in DOMAIN sent[st] : /\ <<st, q>> \in arrived
                                       /\ sent[st][q].session = session
                                       /\ sent[st][q].target_cycle = c
      BY <2>0, <2>3, CyclesNow
    <3>2. q \in Nat
      BY <2>0, <3>1, SentEnvelope
    <3>3. /\ <<st, c>> \in stored
          /\ <<st, c>> \in DOMAIN samples =>
                samples[<<st, c>>].envelope.session >= session
      BY <2>0, <3>1, <3>2 DEF ArrivalsLeaveTraces
    <3>4. c \in ever
      BY <2>0, <3>3, EverOf
    <3>5. ASSUME <<st, c>> \in DOMAIN samples PROVE FALSE
      <4>. DEFINE k == <<st, c>>
                  e == samples[k].envelope
      <4>1. e \in Envelope /\ e.seq \in Nat /\ e.session \in Nat /\ k[1] = st
        BY <2>0, <3>5 DEF Types, Envelope
      <4>2. <<st, e.seq>> \in arrived /\ e = sent[st][e.seq]
        BY <2>0, <3>5, <4>1 DEF KeptWasDelivered
      <4>3. e.seq \in DOMAIN sent[st]
        BY <2>0, <4>1, <4>2 DEF ArrivalsLeaveTraces
      <4>4. sent[st][e.seq].session <= session
        BY <2>0, <4>3 DEF SentInOrder
      <4>5. e.session = session
        BY <2>0, <3>3, <3>5, <4>1, <4>2, <4>4
      <4>. QED
        BY <2>0, <2>3, <3>5, <4>5, CyclesNow
    <3>. QED
      BY <2>0, <3>4, <3>5, CyclesOf
  <2>4. \A c \in deliveredNow(st) \ keptNow(st), d \in keptNow(st) : c < d
    BY <2>1, <2>2, <2>3 DEF NewestKept
  <2>5. ASSUME keptNow(st) # deliveredNow(st) PROVE Cardinality(held) = MaxSamples
    <3>1. PICK c : c \in deliveredNow(st) \ keptNow(st)
      BY <2>2, <2>5
    <3>2. held # ever
      BY <2>3, <3>1
    <3>. QED
      BY <2>1, <3>2 DEF NewestKept
  <2>6. Cardinality(held) <= MaxSamples
    BY <2>1 DEF NewestKept
  <2>. QED
    BY <2>2, <2>4, <2>5, <2>6
<1>. QED
  BY <1>1, TraceInvariant, PTL

\* A redelivery that is recognised leaves no trace: an add that reports a duplicate changes
\* neither the buffer nor the gap count, and whatever stays kept keeps the time of its
\* arrival (add).
THEOREM DuplicatesCorrect == Spec => NoTraceOfDuplicates
<1>. DEFINE NoTrace ==
        /\ result'.duplicate => UNCHANGED buffer
        /\ \A k \in DOMAIN samples \cap DOMAIN samples' :
              samples'[k].envelope = samples[k].envelope => samples'[k] = samples[k]
<1>1. ASSUME TraceInv, Next PROVE NoTrace
  <2>0. Types /\ SentInOrder
    BY <1>1 DEF TraceInv
  <2>1. ASSUME UNCHANGED buffer PROVE NoTrace
    BY <2>1 DEF buffer
  <2>2. ASSUME NEW st \in Streams, NEW q \in DOMAIN sent[st], Deliver(st, q)
        PROVE  NoTrace
    <3>1. CASE UNCHANGED buffer
      BY <2>1, <3>1
    <3>2. CASE addNew(st, sent[st][q])
      <4>. DEFINE e == sent[st][q]
                  key == <<st, e.target_cycle>>
      <4>1. e \in Envelope
        BY <2>0, SentEnvelope
      <4>2. ~ result'.duplicate /\ ~ isKept(samples, st, e)
        BY <3>2 DEF addNew
      <4>3. \A k \in DOMAIN samples' :
              samples'[k] = IF k = key THEN [envelope |-> e, local_receive_ns |-> now]
                            ELSE samples[k]
        BY <2>0, <3>2, <4>1, AddNewSamples
      <4>. HIDE DEF e
      <4>4. ASSUME NEW k \in DOMAIN samples \cap DOMAIN samples',
                   samples'[k].envelope = samples[k].envelope
            PROVE  samples'[k] = samples[k]
        <5>1. CASE k = key
          <6>1. samples[k].envelope = e
            BY <4>3, <4>4, <5>1
          <6>. QED
            BY <4>2, <4>4, <5>1, <6>1 DEF isKept
        <5>2. CASE k # key
          BY <4>3, <4>4, <5>2
        <5>. QED
          BY <5>1, <5>2
      <4>. QED
        BY <4>2, <4>4
    <3>. QED
      BY <1>1, <2>2, <3>1, <3>2, DeliverSteps
  <2>3. ASSUME NEW st \in Streams, NEW c \in Cycles, NEW d \in DefectSets[st],
               Publish(st, c, d)
        PROVE  NoTrace
    BY <2>1, <2>3 DEF Publish
  <2>4. CASE NewSession \/ Advance
    BY <2>1, <2>4 DEF NewSession, Advance
  <2>. QED
    BY <1>1, <2>2, <2>3, <2>4 DEF Next
<1>2. TraceInv /\ [Next]_vars => [NoTrace]_vars
  BY <1>1
<1>. QED
  BY <1>2, TraceInvariant, PTL DEF Spec, NoTraceOfDuplicates

\* Snapshot and window agree on every kept sample of the session, when a cutoff is in
\* force that comes no later than the time to live: what the snapshot uses is usable in
\* the window, what belongs in the late pocket is Late, and a defect is called the same.
THEOREM WindowCorrect == Spec => []WindowAgrees
<1>1. TraceInv => WindowAgrees
  <2>. SUFFICES ASSUME TraceInv, valid, ReceiveCutoff > 0, Ttl > 0 => ReceiveCutoff <= Ttl,
                       NEW k \in ofThisSession
                PROVE  LET s == samples[k]
                           v == viewStatus(k[1], k[2])
                           w == classify(k[2], cycleStart(k[2]),
                                         [target_cycle |-> s.envelope.target_cycle,
                                          local_receive_ns |-> s.local_receive_ns,
                                          defects |-> s.envelope.defects,
                                          duplicate |-> FALSE])
                       IN  /\ v = "Fresh" => w.usable_for_cycle
                           /\ w.record_in_late_pocket => v = "Late"
                           /\ s.envelope.defects # {} => v = w.status
    BY DEF WindowAgrees
  <2>. DEFINE s == samples[k]
              d == s.envelope.defects
              t == s.local_receive_ns
              start == cycleStart(k[2])
              timing == [target_cycle |-> s.envelope.target_cycle, local_receive_ns |-> t,
                         defects |-> d, duplicate |-> FALSE]
              v == viewStatus(k[1], k[2])
              w == classify(k[2], start, timing)
  <2>1. k \in DOMAIN samples /\ k = <<k[1], k[2]>> /\ k[2] \in Nat
        /\ s \in [envelope : Envelope, local_receive_ns : Nat] /\ epoch_ns \in Nat
    <3>1. Types /\ k \in DOMAIN samples
      BY DEF TraceInv, ofThisSession
    <3>2. k \in Streams \X Cycles /\ Cycles \subseteq Nat
      BY <3>1, BufferAssumption DEF Types
    <3>3. k = <<k[1], k[2]>>
      BY <3>2
    <3>4. k[2] \in Nat
      BY <3>2
    <3>5. s \in [envelope : Envelope, local_receive_ns : Nat] /\ epoch_ns \in Nat
      BY <3>1 DEF Types
    <3>. QED
      BY <3>1, <3>3, <3>4, <3>5
  <2>2. v = checkReceivedSample(s, k[2], start)
    BY <2>1 DEF viewStatus
  <2>3. d \in SUBSET Defect /\ t \in Nat /\ s.envelope.t_publish_ns \in Nat
        /\ s.envelope.target_cycle = k[2]
    BY <2>1 DEF Envelope, TraceInv, KeptWasDelivered
  <2>4. start \in Nat
    BY <2>1, BufferAssumption DEF cycleStart
  <2>5. timing.defects = d /\ ~ timing.duplicate /\ timing.target_cycle = k[2]
        /\ timing.local_receive_ns = t
    BY <2>3
  <2>. HIDE DEF s, d, t, start, timing
  <2>6. CASE d # {}
    <3>1. \/ "clock" \in d \/ "producer" \in d \/ d \cap {"type", "schema"} # {}
          \/ d \cap {"empty", "crc"} # {}
      BY <2>3, <2>6 DEF Defect
    <3>2. v = w.status /\ ~ w.record_in_late_pocket /\ v # "Fresh"
      BY <2>2, <2>5, <3>1 DEF checkReceivedSample, classify, decision, d
    <3>. QED
      BY <3>2 DEF s, d, t, start, timing
  <2>7. CASE d = {}
    <3>1. v = (IF isLate(s, start) THEN "Late" ELSE "Fresh")
      BY <2>2, <2>3, <2>7 DEF checkReceivedSample, d
    <3>2. w = IF afterCutoff(start, t)
              THEN decision("Late", IF inLatePocket(start, t) THEN "LatePocket" ELSE "Expired")
              ELSE IF Ttl > 0 /\ t > start + Ttl THEN decision("Late", "Expired")
              ELSE decision("Fresh", "NotLate")
      BY <2>5, <2>7 DEF classify
    <3>3. afterCutoff(start, t) => isLate(s, start)
      BY DEF afterCutoff, isLate, t
    <3>4. ~ afterCutoff(start, t) => ~ (Ttl > 0 /\ t > start + Ttl)
      BY <2>3, <2>4, BufferAssumption DEF afterCutoff
    <3>. HIDE DEF v, w
    <3>5. (v = "Fresh" => w.usable_for_cycle) /\ (w.record_in_late_pocket => v = "Late")
      BY <3>1, <3>2, <3>3, <3>4 DEF decision
    <3>. QED
      BY <2>7, <3>5 DEF s, d, t, start, timing, v, w
  <2>. QED
    BY <2>6, <2>7
<1>. QED
  BY <1>1, TraceInvariant, PTL

-----------------------------------------------------------------------------
(* The gaps                                                                *)

\* The numbers of a stream that were newer than all before, and those between two of
\* them that were not.
seenOf(st) == {k[2] : k \in {j \in newest : j[1] = st}}
between(st, seen) ==
    {q \in (1 .. MaxSeq[st]) \ seen : \E a, b \in seen : a < q /\ q < b}

GapInv ==
    \A st \in Streams :
        /\ Len(sent[st]) <= MaxSeq[st]
        /\ stream_state[st].gap_count = Cardinality(between(st, seenOf(st)))

\* The numbers a stream has seen are those of its newest samples.
LEMMA SeenOf ==
    ASSUME newest \subseteq Streams \X Nat, NEW st \in Streams, NEW q
    PROVE  q \in seenOf(st) <=> <<st, q>> \in newest
<1>1. ASSUME q \in seenOf(st) PROVE <<st, q>> \in newest
  <2>1. PICK k \in newest : k[1] = st /\ k[2] = q
    BY <1>1 DEF seenOf
  <2>. QED
    BY <2>1
<1>2. ASSUME <<st, q>> \in newest PROVE q \in seenOf(st)
  <2>. DEFINE k == <<st, q>>
  <2>1. k \in {j \in newest : j[1] = st} /\ k[2] = q
    BY <1>2
  <2>. QED
    BY <2>1 DEF seenOf
<1>. QED
  BY <1>1, <1>2

\* A number beyond the last one adds the numbers between the two to the gaps.
LEMMA GapGrows ==
    ASSUME NEW st \in Streams, NEW seen \in SUBSET Nat, NEW last \in seen, NEW q \in Nat,
           \A a \in seen : a <= last, q > last, q <= MaxSeq[st]
    PROVE  /\ IsFiniteSet(between(st, seen))
           /\ Cardinality(between(st, seen \cup {q}))
                = Cardinality(between(st, seen)) + (q - last - 1)
<1>. DEFINE G == between(st, seen)
            H == between(st, seen \cup {q})
            I == last + 1 .. q - 1
<1>0. MaxSeq[st] \in Nat /\ last \in Nat
  BY BufferAssumption
<1>1. G \in SUBSET (1 .. MaxSeq[st])
  BY DEF between
<1>2. IsFiniteSet(G)
  <2>1. IsFiniteSet(1 .. MaxSeq[st])
    BY <1>0, FS_Interval
  <2>. QED
    BY <1>1, <2>1, FS_Subset
<1>3. IsFiniteSet(I) /\ Cardinality(I) = q - last - 1
  <2>1. last + 1 \in Int /\ q - 1 \in Int
    BY <1>0
  <2>2. IsFiniteSet(I)
        /\ Cardinality(I) = (IF last + 1 > q - 1 THEN 0 ELSE (q - 1) - (last + 1) + 1)
    BY <2>1, FS_Interval
  <2>. QED
    BY <1>0, <2>2
<1>4. G \cap I = {}
  <2>. SUFFICES ASSUME NEW x \in G, x \in I PROVE FALSE
    OBVIOUS
  <2>1. PICK b \in seen : x < b
    BY DEF between
  <2>2. b \in Nat /\ x \in Nat /\ b <= last /\ x > last
    BY <1>0, <1>1
  <2>. QED
    BY <1>0, <2>1, <2>2
<1>5. H = G \cup I
  <2>1. ASSUME NEW x \in H PROVE x \in G \cup I
    <3>1. x \in Nat /\ x \in 1 .. MaxSeq[st] /\ x \notin seen /\ x # q
      BY <1>0, <2>1 DEF between
    <3>2. PICK a \in seen \cup {q}, b \in seen \cup {q} : a < x /\ x < b
      BY <2>1 DEF between
    <3>3. a \in Nat /\ b \in Nat /\ b <= q
      BY <1>0
    <3>4. x < q
      BY <3>1, <3>2, <3>3
    <3>5. a \in seen
      BY <3>1, <3>2, <3>3, <3>4
    <3>6. x # last
      BY <3>1
    <3>7. CASE x < last
      BY <3>1, <3>2, <3>5, <3>7 DEF between
    <3>8. CASE x > last
      BY <1>0, <3>1, <3>4, <3>8
    <3>. QED
      BY <1>0, <3>1, <3>6, <3>7, <3>8
  <2>2. ASSUME NEW x \in G PROVE x \in H
    <3>1. x \in 1 .. MaxSeq[st] /\ x \notin seen
      BY <2>2 DEF between
    <3>2. PICK a \in seen, b \in seen : a < x /\ x < b
      BY <2>2 DEF between
    <3>3. a \in Nat /\ b \in Nat /\ b <= last /\ x \in Nat
      BY <1>0, <3>1
    <3>4. x # q
      BY <1>0, <3>2, <3>3
    <3>. QED
      BY <3>1, <3>2, <3>4 DEF between
  <2>3. ASSUME NEW x \in I PROVE x \in H
    <3>1. x \in Nat /\ x > last /\ x < q
      BY <1>0, <2>3
    <3>2. x \in 1 .. MaxSeq[st] /\ x \notin seen /\ x # q
      BY <1>0, <3>1
    <3>. QED
      BY <3>1, <3>2 DEF between
  <2>. QED
    BY <2>1, <2>2, <2>3
<1>. HIDE DEF G, H, I
<1>6. Cardinality(G \cup I) = Cardinality(G) + Cardinality(I) - Cardinality(G \cap I)
  BY <1>2, <1>3, FS_Union
<1>7. Cardinality(G) \in Nat /\ Cardinality(G \cap I) = 0
  BY <1>2, <1>4, FS_CardinalityType, FS_EmptySet
<1>8. Cardinality(H) = Cardinality(G) + (q - last - 1)
  BY <1>0, <1>3, <1>5, <1>6, <1>7
<1>. QED
  BY <1>2, <1>8 DEF G, H

\* An insertion counts the gap it opens.
LEMMA AddNewKeepsGaps ==
    ASSUME TraceInv, GapInv, NEW st \in Streams, NEW q \in DOMAIN sent[st],
           addNew(st, sent[st][q]), sent' = sent
    PROVE  GapInv'
<1>. DEFINE e == sent[st][q]
            ss == stream_state[st]
            gap == seqGap(ss, e)
<1>0. Types /\ SentInOrder /\ ArrivalsLeaveTraces /\ LastSeqArrived
  BY DEF TraceInv
<1>1. e \in Envelope /\ e.seq = q /\ q \in Nat
  BY <1>0, SentEnvelope
<1>2. newest \subseteq Streams \X Nat /\ MaxSeq[st] \in Nat
  BY <1>0, BufferAssumption DEF Types
<1>3. newest' = IF \A k \in arrived : k[1] = st => k[2] < q
                THEN newest \cup {<<st, q>>} ELSE newest
  BY <1>1 DEF addNew
<1>4. /\ stream_state'[st].gap_count = ss.gap_count + gap
      /\ \A u \in Streams \ {st} : stream_state'[u] = stream_state[u]
  BY <1>0, <1>1, AddNewStream
<1>5. gap = IF ss.has_seq /\ q > ss.last_seq + 1 THEN q - ss.last_seq - 1 ELSE 0
  BY <1>1 DEF seqGap
<1>6. ss.has_seq \in BOOLEAN /\ ss.last_seq \in Nat
  BY <1>0 DEF Types
<1>7. q <= MaxSeq[st]
  <2>1. sent[st] \in Seq(Envelope)
    BY <1>0 DEF Types
  <2>2. q <= Len(sent[st]) /\ Len(sent[st]) \in Nat /\ Len(sent[st]) <= MaxSeq[st]
    BY <2>1 DEF GapInv
  <2>. QED
    BY <1>1, <1>2, <2>2
<1>. HIDE DEF e, ss, gap
<1>8. \A r \in seenOf(st) : r \in Nat /\ ss.has_seq /\ r <= ss.last_seq
  <2>. SUFFICES ASSUME NEW r \in seenOf(st)
                PROVE  r \in Nat /\ ss.has_seq /\ r <= ss.last_seq
    OBVIOUS
  <2>1. <<st, r>> \in newest
    BY <1>2, SeenOf
  <2>2. <<st, r>> \in arrived /\ r \in Nat
    BY <1>0, <1>2, <2>1 DEF Types
  <2>. QED
    BY <1>0, <2>2 DEF ArrivalsLeaveTraces, ss
<1>9. newest' \subseteq Streams \X Nat
  BY <1>1, <1>2, <1>3
<1>10. \A u \in Streams : \A r : r \in seenOf(u)' <=> <<u, r>> \in newest'
  <2>. SUFFICES ASSUME NEW u \in Streams, NEW r PROVE r \in seenOf(u)' <=> <<u, r>> \in newest'
    OBVIOUS
  <2>1. ASSUME r \in seenOf(u)' PROVE <<u, r>> \in newest'
    <3>1. PICK k \in newest' : k[1] = u /\ k[2] = r
      BY <2>1 DEF seenOf
    <3>. QED
      BY <3>1, <1>9
  <2>2. ASSUME <<u, r>> \in newest' PROVE r \in seenOf(u)'
    <3>. DEFINE k == <<u, r>>
    <3>1. k \in {j \in newest' : j[1] = u} /\ k[2] = r
      BY <2>2
    <3>. QED
      BY <3>1 DEF seenOf
  <2>. QED
    BY <2>1, <2>2
<1>11. ASSUME NEW u \in Streams \ {st} PROVE seenOf(u)' = seenOf(u)
  <2>. SUFFICES ASSUME NEW r PROVE r \in seenOf(u)' <=> r \in seenOf(u)
    OBVIOUS
  <2>1. (r \in seenOf(u)' <=> <<u, r>> \in newest') /\ (r \in seenOf(u) <=> <<u, r>> \in newest)
    BY <1>2, <1>10, <1>11, SeenOf
  <2>2. <<u, r>> # <<st, q>>
    BY <1>11
  <2>. QED
    BY <1>3, <2>1, <2>2
<1>12. seenOf(st)' = IF ~ ss.has_seq \/ q > ss.last_seq
                     THEN seenOf(st) \cup {q} ELSE seenOf(st)
  <2>1. (\A k \in arrived : k[1] = st => k[2] < q) <=> (~ ss.has_seq \/ q > ss.last_seq)
    <3>1. ASSUME ~ ss.has_seq \/ q > ss.last_seq, NEW k \in arrived, k[1] = st
          PROVE  k[2] < q
      <4>1. k = <<st, k[2]>> /\ k[2] \in Nat
        BY <1>0, <3>1 DEF Types
      <4>2. ss.has_seq /\ k[2] <= ss.last_seq
        BY <1>0, <3>1, <4>1 DEF ArrivalsLeaveTraces, ss
      <4>. QED
        BY <1>1, <1>6, <3>1, <4>1, <4>2
    <3>2. ASSUME ss.has_seq, ~ (q > ss.last_seq)
          PROVE  \E k \in arrived : k[1] = st /\ ~ (k[2] < q)
      <4>. DEFINE k == <<st, ss.last_seq>>
      <4>1. k \in arrived
        BY <1>0, <3>2 DEF LastSeqArrived, Types, ss
      <4>2. k[1] = st /\ ~ (k[2] < q)
        BY <1>1, <1>6, <3>2
      <4>. QED
        BY <4>1, <4>2
    <3>. QED
      BY <3>1, <3>2
  <2>. SUFFICES ASSUME NEW r
                PROVE  r \in seenOf(st)' <=>
                         r \in IF ~ ss.has_seq \/ q > ss.last_seq
                               THEN seenOf(st) \cup {q} ELSE seenOf(st)
    OBVIOUS
  <2>2. (r \in seenOf(st)' <=> <<st, r>> \in newest')
        /\ (r \in seenOf(st) <=> <<st, r>> \in newest)
    BY <1>2, <1>10, SeenOf
  <2>3. <<st, r>> = <<st, q>> <=> r = q
    OBVIOUS
  <2>. QED
    BY <1>3, <2>1, <2>2, <2>3
<1>13. stream_state'[st].gap_count = Cardinality(between(st, seenOf(st)'))
  <2>0. ss.gap_count = Cardinality(between(st, seenOf(st))) /\ ss.gap_count \in Nat
    BY <1>0 DEF GapInv, ss, Types
  <2>1. CASE ~ ss.has_seq
    <3>1. seenOf(st) = {}
      BY <1>8, <2>1
    <3>2. seenOf(st)' = {q}
      BY <1>12, <2>1, <3>1
    <3>3. between(st, {}) = {} /\ between(st, {q}) = {}
      BY <1>1, <1>2 DEF between
    <3>4. gap = 0
      BY <1>5, <2>1
    <3>5. Cardinality(between(st, seenOf(st)')) = ss.gap_count
      BY <2>0, <3>1, <3>2, <3>3
    <3>. QED
      BY <1>4, <2>0, <3>4, <3>5
  <2>2. CASE ss.has_seq /\ q > ss.last_seq
    <3>1. ss.last_seq \in seenOf(st)
      BY <1>0, <1>2, <2>2, SeenOf DEF LastSeqArrived, ss
    <3>2. Cardinality(between(st, seenOf(st) \cup {q}))
            = Cardinality(between(st, seenOf(st))) + (q - ss.last_seq - 1)
      BY <1>1, <1>7, <1>8, <2>2, <3>1, GapGrows
    <3>3. gap = q - ss.last_seq - 1
      BY <1>1, <1>5, <1>6, <2>2
    <3>. QED
      BY <1>4, <1>12, <2>0, <2>2, <3>2, <3>3
  <2>3. CASE ss.has_seq /\ ~ (q > ss.last_seq)
    <3>1. gap = 0
      BY <1>1, <1>5, <1>6, <2>3
    <3>. QED
      BY <1>4, <1>12, <2>0, <2>3, <3>1
  <2>. QED
    BY <1>6, <2>1, <2>2, <2>3
<1>. QED
  <2>. SUFFICES ASSUME NEW u \in Streams
                PROVE  /\ Len(sent[u]) <= MaxSeq[u]
                       /\ stream_state'[u].gap_count = Cardinality(between(u, seenOf(u)'))
    BY DEF GapInv, between
  <2>1. CASE u = st
    BY <1>13, <2>1 DEF GapInv
  <2>2. CASE u # st
    BY <1>4, <1>11, <2>2 DEF GapInv
  <2>. QED
    BY <2>1, <2>2

\* The gap count of a stream is the number of its sequence numbers that were lost or
\* overtaken, each counted once, whatever arrives again or late (add).
THEOREM GapsCorrect == Spec => []GapsCountedOnce
<1>1. Init => GapInv
  <2>. SUFFICES ASSUME Init, NEW st \in Streams
                PROVE  /\ Len(sent[st]) <= MaxSeq[st]
                       /\ stream_state[st].gap_count = Cardinality(between(st, seenOf(st)))
    BY DEF GapInv
  <2>1. sent[st] = << >> /\ stream_state[st].gap_count = 0 /\ newest = {}
    BY DEF Init
  <2>2. Len(<< >>) = 0 /\ MaxSeq[st] \in Nat
    BY BufferAssumption
  <2>3. seenOf(st) = {}
    BY <2>1 DEF seenOf
  <2>4. between(st, {}) = {}
    BY DEF between
  <2>5. Cardinality(between(st, seenOf(st))) = 0
    BY <2>3, <2>4, FS_EmptySet
  <2>6. Len(sent[st]) <= MaxSeq[st]
    BY <2>1, <2>2
  <2>. QED
    BY <2>1, <2>5, <2>6
<1>2. TraceInv /\ GapInv /\ [Next]_vars => GapInv'
  <2>. SUFFICES ASSUME TraceInv, GapInv, [Next]_vars PROVE GapInv'
    OBVIOUS
  <2>1. ASSUME UNCHANGED <<stream_state, newest, sent>> PROVE GapInv'
    BY <2>1 DEF GapInv, seenOf, between
  <2>2. ASSUME NEW st \in Streams, NEW q \in DOMAIN sent[st], Deliver(st, q)
        PROVE  GapInv'
    <3>1. CASE UNCHANGED <<buffer, stored, arrived, newest>>
      BY <2>1, <2>2, <3>1, DeliverSteps DEF buffer
    <3>2. CASE addNew(st, sent[st][q])
      BY <2>2, <3>2, DeliverSteps, AddNewKeepsGaps
    <3>. QED
      BY <2>2, <3>1, <3>2, DeliverSteps
  <2>3. ASSUME NEW st \in Streams, NEW c \in Cycles, NEW d \in DefectSets[st],
               Publish(st, c, d)
        PROVE  GapInv'
    <3>. DEFINE e == [seq |-> Len(sent[st]) + 1, session |-> session, target_cycle |-> c,
                      t_publish_ns |-> now, defects |-> d]
    <3>1. Len(sent[st]) < MaxSeq[st] /\ sent' = [sent EXCEPT ![st] = Append(sent[st], e)]
          /\ UNCHANGED <<stream_state, newest>>
      BY <2>3 DEF Publish, buffer, history
    <3>2. sent \in [Streams -> Seq(Envelope)] /\ MaxSeq[st] \in Nat
      BY BufferAssumption DEF TraceInv, Types
    <3>. HIDE DEF e
    <3>3. Len(Append(sent[st], e)) = Len(sent[st]) + 1 /\ Len(sent[st]) \in Nat
      BY <3>2
    <3>4. \A u \in Streams : Len(sent'[u]) <= MaxSeq[u]
      BY <3>1, <3>2, <3>3 DEF GapInv
    <3>. QED
      BY <3>1, <3>4 DEF GapInv, seenOf, between
  <2>4. CASE NewSession
    BY <2>1, <2>4 DEF NewSession, buffer
  <2>5. CASE Advance
    BY <2>1, <2>5 DEF Advance, buffer, history
  <2>6. CASE UNCHANGED vars
    BY <2>1, <2>6 DEF vars, buffer, history
  <2>. QED
    BY <2>2, <2>3, <2>4, <2>5, <2>6 DEF Next
<1>3. GapInv => GapsCountedOnce
  BY DEF GapInv, GapsCountedOnce, seenOf, between
<1>. QED
  BY <1>1, <1>2, <1>3, TraceInvariant, PTL DEF Spec

-----------------------------------------------------------------------------
(* Freshness                                                               *)

\* A sample for this cycle is Fresh just when it has no defects and is not late.
LEMMA CheckFresh ==
    ASSUME NEW s \in [envelope : Envelope, local_receive_ns : Nat], NEW c, NEW start,
           s.envelope.target_cycle = c
    PROVE  checkReceivedSample(s, c, start) = "Fresh" <=>
             s.envelope.defects = {} /\ ~ isLate(s, start)
<1>. DEFINE d == s.envelope.defects
<1>1. d \in SUBSET Defect
  BY DEF Envelope
<1>2. CASE d = {}
  BY <1>2 DEF checkReceivedSample
<1>3. CASE d # {}
  <2>1. \/ "clock" \in d \/ "producer" \in d \/ d \cap {"type", "schema"} # {}
        \/ d \cap {"empty", "crc"} # {}
    BY <1>1, <1>3 DEF Defect
  <2>. QED
    BY <1>3, <2>1 DEF checkReceivedSample
<1>. QED
  BY <1>2, <1>3

\* The key of a kept sample is a stream and a cycle; its view is the check of it.
LEMMA ViewFresh ==
    ASSUME TraceInv, NEW k \in DOMAIN samples
    PROVE  /\ k = <<k[1], k[2]>> /\ k[1] \in Streams /\ k[2] \in Cycles
           /\ viewStatus(k[1], k[2]) = "Fresh" <=>
                 /\ samples[k].envelope.defects = {}
                 /\ ~ isLate(samples[k], cycleStart(k[2]))
<1>1. k \in Streams \X Cycles /\ samples[k] \in [envelope : Envelope, local_receive_ns : Nat]
  BY DEF TraceInv, Types
<1>2. k = <<k[1], k[2]>> /\ k[1] \in Streams /\ k[2] \in Cycles
  BY <1>1
<1>3. samples[k].envelope.target_cycle = k[2]
  BY DEF TraceInv, KeptWasDelivered
<1>4. viewStatus(k[1], k[2]) = checkReceivedSample(samples[k], k[2], cycleStart(k[2]))
  BY <1>2 DEF viewStatus
<1>. QED
  BY <1>1, <1>2, <1>3, <1>4, CheckFresh

\* A delivery puts its cycle on time just when the sample is sound and not late now.
LEMMA DeliverOnTime ==
    ASSUME TraceInv, NEW st \in Streams, NEW q \in DOMAIN sent[st], Deliver(st, q)
    PROVE  LET e == sent[st][q]
               new == [envelope |-> e, local_receive_ns |-> now]
           IN  on_time' = IF e.defects = {} /\ ~ isLate(new, cycleStart(e.target_cycle))
                          THEN on_time \cup {<<st, e.target_cycle>>} ELSE on_time
<1>. DEFINE e == sent[st][q]
            new == [envelope |-> e, local_receive_ns |-> now]
            start == cycleStart(e.target_cycle)
            inTime == /\ PublishDeadline > 0 => e.t_publish_ns <= start + PublishDeadline
                      /\ ReceiveCutoff > 0 => now <= start + ReceiveCutoff
                      /\ Ttl > 0 => now <= e.t_publish_ns + Ttl
<1>1. e \in Envelope /\ now \in Nat /\ epoch_ns \in Nat
  BY SentEnvelope DEF TraceInv, Types
<1>2. e.t_publish_ns \in Nat /\ e.target_cycle \in Nat
  BY <1>1, BufferAssumption DEF Envelope
<1>3. start \in Nat
  BY <1>1, <1>2, BufferAssumption DEF cycleStart
<1>4. on_time' = IF e.defects = {} /\ inTime
                 THEN on_time \cup {<<st, e.target_cycle>>} ELSE on_time
  BY DEF Deliver
<1>5. new.envelope = e /\ new.local_receive_ns = now
  OBVIOUS
<1>. HIDE DEF e, new, start
<1>6. inTime <=> ~ isLate(new, start)
  BY <1>1, <1>2, <1>3, <1>5, BufferAssumption DEF isLate
<1>. QED
  BY <1>4, <1>6 DEF e, new, start

\* When something was delivered for a kept cycle in this session, so was what is kept.
LEMMA KeptIsDelivered ==
    ASSUME TraceInv, NEW k \in DOMAIN samples, NEW q \in Nat, deliveredFor(k, q)
    PROVE  /\ samples[k].envelope.seq \in Nat
           /\ deliveredFor(k, samples[k].envelope.seq)
           /\ samples[k].envelope = sent[k[1]][samples[k].envelope.seq]
<1>. DEFINE e == samples[k].envelope
<1>0. Types /\ SentInOrder
  BY DEF TraceInv
<1>1. k = <<k[1], k[2]>> /\ k[1] \in Streams /\ session \in Nat /\ e \in Envelope
  BY <1>0, ViewFresh DEF Types
<1>2. <<k[1], e.seq>> \in arrived /\ e = sent[k[1]][e.seq] /\ e.target_cycle = k[2]
  BY DEF TraceInv, KeptWasDelivered
<1>3. e.seq \in Nat /\ e.session \in Nat
  BY <1>1 DEF Envelope
<1>4. e.seq \in DOMAIN sent[k[1]] /\ q \in DOMAIN sent[k[1]]
  BY <1>1, <1>2, <1>3 DEF TraceInv, ArrivalsLeaveTraces, deliveredFor
<1>. HIDE DEF e
<1>5. e.session <= session
  BY <1>0, <1>1, <1>2, <1>4, SentEnvelope
<1>6. e.session >= session
  <2>1. <<k[1], sent[k[1]][q].target_cycle>> = k /\ sent[k[1]][q].session = session
        /\ <<k[1], q>> \in arrived
    BY <1>1 DEF deliveredFor
  <2>. QED
    BY <1>1, <2>1 DEF TraceInv, ArrivalsLeaveTraces, e
<1>7. e.session = session
  BY <1>1, <1>3, <1>5, <1>6
<1>. QED
  BY <1>2, <1>3, <1>7 DEF deliveredFor, e

\* The rest of what FreshIffOnTime rests on: an insertion keeps it.
LEMMA AddNewKeepsFresh ==
    ASSUME TraceInv, NewestInv, FreshInv, TraceInv',
           NEW st \in Streams, NEW q \in DOMAIN sent[st],
           Deliver(st, q), addNew(st, sent[st][q])
    PROVE  FreshInv'
<1>. DEFINE e == sent[st][q]
            c == e.target_cycle
            key == <<st, c>>
            new == [envelope |-> e, local_receive_ns |-> now]
            ok == e.defects = {} /\ ~ isLate(new, cycleStart(c))
<1>0. Types /\ SentInOrder /\ ArrivalsLeaveTraces /\ FreshIsOnTime /\ OnTimeBySome
  BY DEF TraceInv, FreshInv
<1>1. e \in Envelope /\ e.seq = q /\ q \in Nat /\ c \in Cycles
  BY <1>0, SentEnvelope
<1>2. UNCHANGED <<session, epoch_ns, now, sent>> /\ e.session = session
  BY DeliverSteps
<1>3. on_time' = IF ok THEN on_time \cup {key} ELSE on_time
  BY DeliverOnTime
<1>4. arrived' = arrived \cup {<<st, q>>} /\ ~ isKept(samples, st, e)
  BY <1>1 DEF addNew
<1>5. /\ DOMAIN samples' \subseteq DOMAIN samples \cup {key}
      /\ \A k \in DOMAIN samples' : samples'[k] = IF k = key THEN new ELSE samples[k]
      /\ DOMAIN samples' \subseteq Streams \X Cycles
  BY <1>0, <1>1, AddNewSamples
<1>6. key \in stored \ DOMAIN samples => key \notin DOMAIN samples'
  BY <1>0, <1>1, AddNewCycles
<1>7. \A x : cycleStart(x)' = cycleStart(x)
  BY <1>2 DEF cycleStart
<1>8. \A s, start : isLate(s, start)' = isLate(s, start)
  BY DEF isLate
<1>9. new.envelope = e
  OBVIOUS
<1>. HIDE DEF e, c, key, new
<1>10. ASSUME NEW k \in Streams \X Cycles, NEW r \in Nat
       PROVE  deliveredFor(k, r)' <=> deliveredFor(k, r) \/ (k = key /\ r = q)
  <2>1. k = <<k[1], k[2]>>
    OBVIOUS
  <2>2. deliveredFor(k, r)' <=> /\ <<k[1], r>> \in arrived \/ (k[1] = st /\ r = q)
                                /\ sent[k[1]][r].session = session
                                /\ sent[k[1]][r].target_cycle = k[2]
    BY <1>2, <1>4 DEF deliveredFor
  <2>3. k[1] = st /\ r = q =>
          (sent[k[1]][r].session = session
             /\ (sent[k[1]][r].target_cycle = k[2] <=> k = key))
    BY <1>2, <2>1 DEF e, c, key
  <2>4. k = key => k[1] = st
    BY DEF key
  <2>. QED
    BY <2>2, <2>3, <2>4 DEF deliveredFor
<1>11. key \in Streams \X Cycles /\ key[2] = c /\ key[1] = st
  BY <1>1 DEF key
<1>12. FreshIsOnTime'
  <2>. SUFFICES ASSUME NEW k \in ofThisSession', (viewStatus(k[1], k[2]) = "Fresh")'
                PROVE  k \in on_time'
    BY DEF FreshIsOnTime
  <2>1. k \in DOMAIN samples' /\ samples'[k].envelope.session = session
    BY <1>2 DEF ofThisSession
  <2>2. samples'[k].envelope.defects = {}
        /\ ~ isLate(samples'[k], cycleStart(k[2]))
    <3>1. k = <<k[1], k[2]>>
      BY <1>5, <2>1
    <3>2. viewStatus(k[1], k[2])' = checkReceivedSample(samples'[k], k[2], cycleStart(k[2]))
      BY <1>7, <2>1, <3>1 DEF viewStatus
    <3>3. samples'[k] \in [envelope : Envelope, local_receive_ns : Nat]
          /\ samples'[k].envelope.target_cycle = k[2]
      BY <2>1 DEF TraceInv, Types, KeptWasDelivered
    <3>. QED
      BY <3>2, <3>3, CheckFresh
  <2>3. CASE k = key
    <3>1. samples'[k] = new
      BY <1>5, <2>1, <2>3
    <3>2. ok
      BY <1>9, <1>11, <2>2, <2>3, <3>1
    <3>. QED
      BY <1>3, <2>3, <3>2
  <2>4. CASE k # key
    <3>1. k \in DOMAIN samples /\ samples'[k] = samples[k]
      BY <1>5, <2>1, <2>4
    <3>2. k \in ofThisSession
      BY <2>1, <3>1 DEF ofThisSession
    <3>3. viewStatus(k[1], k[2]) = "Fresh"
      BY <2>2, <3>1, ViewFresh
    <3>. QED
      BY <1>0, <1>3, <3>2, <3>3 DEF FreshIsOnTime
  <2>. QED
    BY <2>3, <2>4
<1>13. OnTimeBySome'
  <2>. SUFFICES ASSUME NEW k \in on_time'
                PROVE  \E r \in Nat :
                         /\ deliveredFor(k, r)'
                         /\ sent[k[1]][r].defects = {}
                         /\ k \in DOMAIN samples'
                            /\ (\A p \in Nat : deliveredFor(k, p)' => p = r) =>
                              ~ isLate(samples'[k], cycleStart(k[2]))
    BY <1>2, <1>7 DEF OnTimeBySome
  <2>0. k \in Streams \X Cycles
    BY <1>0, <1>3, <1>11 DEF Types
  <2>1. CASE k \in on_time
    <3>1. PICK r \in Nat :
            /\ deliveredFor(k, r)
            /\ sent[k[1]][r].defects = {}
            /\ k \in DOMAIN samples /\ (\A p \in Nat : deliveredFor(k, p) => p = r) =>
                  ~ isLate(samples[k], cycleStart(k[2]))
      BY <1>0, <2>1 DEF OnTimeBySome
    <3>2. deliveredFor(k, r)'
      BY <1>10, <2>0, <3>1
    <3>3. ASSUME k \in DOMAIN samples', \A p \in Nat : deliveredFor(k, p)' => p = r
          PROVE  ~ isLate(samples'[k], cycleStart(k[2]))
      <4>1. \A p \in Nat : deliveredFor(k, p) => p = r
        BY <1>10, <2>0, <3>3
      <4>2. CASE k # key
        <5>1. k \in DOMAIN samples /\ samples'[k] = samples[k]
          BY <1>5, <3>3, <4>2
        <5>. QED
          BY <3>1, <4>1, <5>1
      <4>3. CASE k = key
        <5>1. q = r
          BY <1>1, <1>10, <2>0, <3>3, <4>3
        <5>2. <<st, q>> \in arrived
          BY <1>11, <3>1, <4>3, <5>1 DEF deliveredFor
        <5>3. key \in stored
          BY <1>0, <1>1, <5>2 DEF ArrivalsLeaveTraces, key, c, e
        <5>4. key \in DOMAIN samples
          BY <1>6, <3>3, <4>3, <5>3
        <5>5. samples[key].envelope.seq = q
          BY <3>1, <4>1, <4>3, <5>1, <5>4, KeptIsDelivered
        <5>6. isKept(samples, st, e)
          BY <1>1, <5>4, <5>5 DEF isKept, key, c
        <5>. QED
          BY <1>4, <5>6
      <4>. QED
        BY <4>2, <4>3
    <3>. QED
      BY <3>1, <3>2, <3>3
  <2>2. CASE k \notin on_time
    <3>1. k = key /\ ok
      BY <1>3, <2>2
    <3>2. deliveredFor(k, q)'
      BY <1>1, <1>10, <2>0, <3>1
    <3>3. sent[k[1]][q].defects = {}
      BY <1>11, <3>1 DEF e
    <3>4. k \in DOMAIN samples' => ~ isLate(samples'[k], cycleStart(k[2]))
      BY <1>5, <1>11, <3>1
    <3>. QED
      BY <1>1, <3>2, <3>3, <3>4
  <2>. QED
    BY <2>1, <2>2
<1>. QED
  BY <1>12, <1>13 DEF FreshInv

\* A duplicate keeps it too: it can put its cycle on time only if the sample was in time
\* when it arrived first, because the clock does not go back.
LEMMA DuplicateKeepsFresh ==
    ASSUME TraceInv, FreshInv, NEW st \in Streams, NEW q \in DOMAIN sent[st],
           Deliver(st, q), addDuplicate(st, sent[st][q]), UNCHANGED <<samples, arrived>>
    PROVE  FreshInv'
<1>. DEFINE e == sent[st][q]
            c == e.target_cycle
            key == <<st, c>>
            new == [envelope |-> e, local_receive_ns |-> now]
            ok == e.defects = {} /\ ~ isLate(new, cycleStart(c))
<1>0. Types /\ SentInOrder /\ FreshIsOnTime /\ OnTimeBySome
  BY DEF TraceInv, FreshInv
<1>1. e \in Envelope /\ e.seq = q /\ q \in Nat /\ c \in Cycles /\ now \in Nat
  BY <1>0, SentEnvelope DEF Types
<1>2. UNCHANGED <<session, epoch_ns, now, sent>> /\ e.session = session
  BY DeliverSteps
<1>3. on_time' = IF ok THEN on_time \cup {key} ELSE on_time
  BY DeliverOnTime
<1>4. <<st, q>> \in arrived
  <2>1. CASE repeatsLastSeq(stream_state[st], e)
    BY <1>0, <1>1, <2>1 DEF repeatsLastSeq, TraceInv, LastSeqArrived, Types
  <2>2. CASE isKept(samples, st, e)
    <3>1. key \in DOMAIN samples /\ samples[key].envelope.seq = q /\ key[1] = st
      BY <1>1, <2>2 DEF isKept
    <3>. QED
      BY <3>1 DEF TraceInv, KeptWasDelivered
  <2>. QED
    BY <2>1, <2>2 DEF addDuplicate
<1>5. deliveredFor(key, q)
  BY <1>2, <1>4 DEF deliveredFor
<1>6. ASSUME ok, key \in DOMAIN samples, \A p \in Nat : deliveredFor(key, p) => p = q
      PROVE  ~ isLate(samples[key], cycleStart(c))
  <2>1. samples[key].envelope = e
    <3>1. samples[key].envelope.seq = q /\ samples[key].envelope = sent[key[1]][q]
      BY <1>1, <1>5, <1>6, KeptIsDelivered
    <3>. QED
      BY <3>1
  <2>2. samples[key].local_receive_ns <= now /\ samples[key].local_receive_ns \in Nat
    BY <1>0, <1>6 DEF TraceInv, KeptWasDelivered, Types
  <2>3. e.t_publish_ns \in Nat /\ e.target_cycle \in Nat /\ epoch_ns \in Nat
    BY <1>0, <1>1, BufferAssumption DEF Envelope, Types
  <2>4. cycleStart(c) \in Nat
    BY <2>3, BufferAssumption DEF cycleStart
  <2>5. new.envelope = e /\ new.local_receive_ns = now
    OBVIOUS
  <2>. HIDE DEF e, c, key, new
  <2>. QED
    BY <1>1, <1>6, <2>1, <2>2, <2>3, <2>4, <2>5, BufferAssumption DEF isLate
<1>7. sent[key[1]][q].defects = {} <=> e.defects = {}
  OBVIOUS
<1>8. key[2] = c
  OBVIOUS
<1>. HIDE DEF e, c, key, new
<1>9. FreshIsOnTime'
  BY <1>0, <1>2, <1>3
  DEF FreshIsOnTime, ofThisSession, viewStatus, cycleStart
<1>10. OnTimeBySome'
  <2>. SUFFICES ASSUME NEW k \in on_time'
                PROVE  \E r \in Nat :
                         /\ deliveredFor(k, r)
                         /\ sent[k[1]][r].defects = {}
                         /\ k \in DOMAIN samples
                            /\ (\A p \in Nat : deliveredFor(k, p) => p = r) =>
                              ~ isLate(samples[k], cycleStart(k[2]))
    BY <1>2 DEF OnTimeBySome, deliveredFor, cycleStart
  <2>1. CASE k \in on_time
    BY <1>0, <2>1 DEF OnTimeBySome
  <2>2. CASE k \notin on_time
    <3>1. k = key /\ ok
      BY <1>3, <2>2
    <3>. QED
      BY <1>1, <1>5, <1>6, <1>7, <1>8, <3>1
  <2>. QED
    BY <2>1, <2>2
<1>. QED
  BY <1>9, <1>10 DEF FreshInv

\* Every step keeps what FreshIffOnTime rests on.
LEMMA NextFresh ==
    TraceInv /\ NewestInv /\ FreshInv /\ [Next]_vars => FreshInv'
<1>. SUFFICES ASSUME TraceInv, NewestInv, FreshInv, [Next]_vars PROVE FreshInv'
  OBVIOUS
<1>0. Types /\ SentInOrder /\ ArrivalsLeaveTraces /\ FreshIsOnTime /\ OnTimeBySome /\ TraceInv'
  BY NextTraces DEF TraceInv, FreshInv
<1>1. ASSUME NEW st \in Streams, NEW q \in DOMAIN sent[st], Deliver(st, q)
      PROVE  FreshInv'
  <2>1. CASE addNew(st, sent[st][q])
    BY <1>0, <1>1, <2>1, AddNewKeepsFresh
  <2>2. CASE addDuplicate(st, sent[st][q]) /\ UNCHANGED <<buffer, stored, arrived, newest>>
    BY <1>1, <2>2, DuplicateKeepsFresh DEF buffer
  <2>. QED
    BY <1>1, <2>1, <2>2, DeliverSteps
<1>2. ASSUME UNCHANGED <<samples, session, epoch_ns, arrived, on_time>>,
             \A u \in Streams : \A r \in DOMAIN sent[u] :
                 r \in DOMAIN sent'[u] /\ sent'[u][r] = sent[u][r]
      PROVE  FreshInv'
  <2>1. FreshIsOnTime'
    BY <1>0, <1>2 DEF FreshIsOnTime, ofThisSession, viewStatus, cycleStart
  <2>2. OnTimeBySome'
    <3>. SUFFICES ASSUME NEW k \in on_time
                  PROVE  \E r \in Nat :
                           /\ deliveredFor(k, r)'
                           /\ sent'[k[1]][r].defects = {}
                           /\ k \in DOMAIN samples
                              /\ (\A p \in Nat : deliveredFor(k, p)' => p = r) =>
                                ~ isLate(samples[k], cycleStart(k[2]))
      BY <1>2 DEF OnTimeBySome, cycleStart
    <3>1. k[1] \in Streams
      BY <1>0 DEF Types
    <3>2. \A p \in Nat : /\ deliveredFor(k, p)' <=> deliveredFor(k, p)
                         /\ deliveredFor(k, p) => sent'[k[1]][p] = sent[k[1]][p]
      <4>. SUFFICES ASSUME NEW p \in Nat
                    PROVE  /\ deliveredFor(k, p)' <=> deliveredFor(k, p)
                           /\ deliveredFor(k, p) => sent'[k[1]][p] = sent[k[1]][p]
        OBVIOUS
      <4>1. <<k[1], p>> \in arrived => sent'[k[1]][p] = sent[k[1]][p]
        BY <1>0, <1>2, <3>1 DEF ArrivalsLeaveTraces
      <4>. QED
        BY <1>2, <4>1 DEF deliveredFor
    <3>3. PICK r \in Nat :
            /\ deliveredFor(k, r)
            /\ sent[k[1]][r].defects = {}
            /\ k \in DOMAIN samples /\ (\A p \in Nat : deliveredFor(k, p) => p = r) =>
                  ~ isLate(samples[k], cycleStart(k[2]))
      BY <1>0 DEF OnTimeBySome
    <3>. QED
      BY <3>2, <3>3
  <2>. QED
    BY <2>1, <2>2 DEF FreshInv
<1>3. ASSUME NEW st \in Streams, NEW c \in Cycles, NEW d \in DefectSets[st], Publish(st, c, d)
      PROVE  FreshInv'
  BY <1>2, <1>3, PublishAppends DEF buffer
<1>4. CASE NewSession
  <2>1. session' = session + 1 /\ samples' = samples /\ on_time' = {} /\ session \in Nat
    BY <1>0, <1>4 DEF NewSession, buffer, Types
  <2>2. \A k \in DOMAIN samples : samples[k].envelope.session # session + 1
    <3>. SUFFICES ASSUME NEW k \in DOMAIN samples
                  PROVE  samples[k].envelope.session # session + 1
      OBVIOUS
    <3>. DEFINE e == samples[k].envelope
    <3>1. k[1] \in Streams /\ e \in Envelope
      BY <1>0, ViewFresh DEF Types
    <3>2. e.seq \in Nat /\ e.session \in Nat
      BY <3>1 DEF Envelope
    <3>3. <<k[1], e.seq>> \in arrived /\ e = sent[k[1]][e.seq]
      BY DEF TraceInv, KeptWasDelivered
    <3>4. e.seq \in DOMAIN sent[k[1]]
      BY <1>0, <3>1, <3>2, <3>3 DEF ArrivalsLeaveTraces
    <3>. HIDE DEF e
    <3>5. e.session <= session
      BY <1>0, <3>1, <3>3, <3>4, SentEnvelope
    <3>6. e.session # session + 1
      BY <2>1, <3>2, <3>5
    <3>. QED
      BY <3>6 DEF e
  <2>3. FreshIsOnTime'
    BY <2>1, <2>2 DEF FreshIsOnTime, ofThisSession
  <2>4. OnTimeBySome'
    BY <2>1 DEF OnTimeBySome
  <2>. QED
    BY <2>3, <2>4 DEF FreshInv
<1>5. CASE Advance
  BY <1>2, <1>5 DEF Advance, buffer, history
<1>6. CASE UNCHANGED vars
  BY <1>2, <1>6 DEF vars, buffer, history
<1>. QED
  BY <1>1, <1>3, <1>4, <1>5, <1>6 DEF Next

\* No late sample is taken for fresh, in any session and after any reordering and
\* repetition: a sample of the present session whose view is Fresh has no defects and
\* arrived in time; and the only sample a peer sent for a cycle, when it arrived in time
\* and is still kept, is Fresh (checkReceivedSample, add).
THEOREM FreshnessCorrect == Spec => []FreshIffOnTime
<1>1. Init => FreshInv
  BY DEF Init, FreshInv, FreshIsOnTime, OnTimeBySome, ofThisSession
<1>2. TraceInv /\ FreshInv => FreshIffOnTime
  <2>. SUFFICES ASSUME TraceInv, FreshInv, NEW k \in ofThisSession
                PROVE  LET sentFor == {q \in DOMAIN sent[k[1]] :
                                          sent[k[1]][q].target_cycle = k[2]
                                          /\ sent[k[1]][q].session = session}
                       IN  /\ viewStatus(k[1], k[2]) = "Fresh" => k \in on_time
                           /\ k \in on_time /\ Cardinality(sentFor) = 1 =>
                                viewStatus(k[1], k[2]) = "Fresh"
    BY DEF FreshIffOnTime
  <2>. DEFINE sentFor == {q \in DOMAIN sent[k[1]] :
                             sent[k[1]][q].target_cycle = k[2]
                             /\ sent[k[1]][q].session = session}
  <2>0. k \in DOMAIN samples /\ k[1] \in Streams
    BY ViewFresh DEF ofThisSession
  <2>1. viewStatus(k[1], k[2]) = "Fresh" => k \in on_time
    BY DEF FreshInv, FreshIsOnTime
  <2>2. ASSUME k \in on_time, Cardinality(sentFor) = 1
        PROVE  viewStatus(k[1], k[2]) = "Fresh"
    <3>1. PICK q \in Nat :
            /\ deliveredFor(k, q)
            /\ sent[k[1]][q].defects = {}
            /\ k \in DOMAIN samples /\ (\A r \in Nat : deliveredFor(k, r) => r = q) =>
                  ~ isLate(samples[k], cycleStart(k[2]))
      BY <2>2 DEF FreshInv, OnTimeBySome
    <3>2. PICK x : sentFor = {x}
      <4>1. sent[k[1]] \in Seq(Envelope)
        BY <2>0 DEF TraceInv, Types
      <4>2. DOMAIN sent[k[1]] = 1 .. Len(sent[k[1]]) /\ Len(sent[k[1]]) \in Nat
        BY <4>1
      <4>3. IsFiniteSet(1 .. Len(sent[k[1]]))
        BY <4>2, FS_Interval
      <4>4. IsFiniteSet(DOMAIN sent[k[1]])
        BY <4>2, <4>3
      <4>5. sentFor \in SUBSET DOMAIN sent[k[1]]
        OBVIOUS
      <4>. HIDE DEF sentFor
      <4>6. IsFiniteSet(sentFor)
        BY <4>4, <4>5, FS_Subset
      <4>. QED
        BY <2>2, <4>6, FS_Singleton
    <3>3. \A r \in Nat : deliveredFor(k, r) => r \in sentFor
      BY <2>0 DEF deliveredFor, TraceInv, ArrivalsLeaveTraces
    <3>4. \A r \in Nat : deliveredFor(k, r) => r = q
      BY <3>1, <3>2, <3>3
    <3>5. ~ isLate(samples[k], cycleStart(k[2]))
      BY <2>0, <3>1, <3>4
    <3>6. samples[k].envelope = sent[k[1]][q]
      BY <2>0, <3>1, <3>4, KeptIsDelivered
    <3>. QED
      BY <2>0, <3>1, <3>5, <3>6, ViewFresh
  <2>. QED
    BY <2>1, <2>2
<1>. QED
  BY <1>1, <1>2, NextFresh, TraceInvariant, PTL DEF Spec

=============================================================================
