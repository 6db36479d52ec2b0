----------------------------- MODULE RingProofs -----------------------------
(***************************************************************************)
(* Proofs about Ring.tla for every size, every number of threads and every *)
(* gate configuration.  The inductive invariant speaks of positions, so    *)
(* that the steps of both builds preserve it but for one: the empty test   *)
(* of uta_ring_extract may be deceived by an index that is not wrapped     *)
(* yet.  The theorems are about the build which stores an index once       *)
(* (SplitIndex is FALSE); RcvRingProofs takes up the other one.            *)
(***************************************************************************)
EXTENDS Ring, TLAPS

-----------------------------------------------------------------------------
(* The inductive invariant.                                                *)

\* The positions head and tail stand for.
Hd == Norm(head)
Tl == Norm(tail)

\* An index is past the slots only between its increment and its wrap, and
\* only in the build which stores it twice.
IndexInv ==
  /\ head = NElements => \E p \in Producers : ppc[p] = "wrap"
  /\ tail = NElements => \E c \in Consumers : cpc[c] = "wrap"
  /\ ~SplitIndex => /\ \A p \in Producers : ppc[p] # "wrap"
                    /\ \A c \in Consumers : cpc[c] # "wrap"

\* Where uta_ring_extract owns the read gate, if the ring has one.
InGate == {"recheck", "bump", "wrap", "read", "take", "clear"}

GateInv ==
  /\ WGate => \A p \in Producers : ppc[p] # "idle" => wgate = p
  /\ RGate # "none" => \A c \in Consumers : cpc[c] \in InGate => rgate = c
  /\ RGate = "none" => \A c \in Consumers : cpc[c] # "lock"

\* The full test still holds when the producer stores and moves head.
ProducerInv ==
  \A p \in Producers :
    /\ ppc[p] \in {"store", "bump"} => Succ(Hd) # Tl
    /\ ppc[p] \in {"check", "store", "bump"} => new[p] # NIL
    /\ ppc[p] = "bump" => data[head] = new[p]

\* The empty test still holds when the consumer moves tail; the slot it
\* empties is the one just behind tail.
ConsumerInv ==
  \A c \in Consumers :
    /\ cpc[c] = "bump" => Tl # Hd
    /\ cpc[c] \in {"wrap", "read", "take", "clear"} => Succ(ti[c]) = Tl
    /\ cpc[c] \in {"wrap", "read", "take"} => data[ti[c]] # NIL
    /\ cpc[c] = "clear" => res[c] # NIL

IInv ==
  /\ TypeOK
  /\ IndexInv
  /\ GateInv
  /\ ProducerInv
  /\ ConsumerInv
  /\ LiveSlots
  /\ NothingStranded

-----------------------------------------------------------------------------
(* Positions.                                                              *)

\* The position after a position is a position, no position follows itself,
\* and two positions with the same successor are equal.
LEMMA SuccFacts ==
  /\ \A i \in Slots : Succ(i) \in Slots /\ Succ(i) # i
  /\ \A i, j \in Slots : Succ(i) = Succ(j) => i = j
  BY SizeAssumption DEF Slots, Succ, Norm

\* When head moves, exactly the slot it was on joins the live slots.
LEMMA HeadMoves ==
  ASSUME NEW h \in Slots, NEW t \in Slots, NEW i \in Slots, Succ(h) # t
  PROVE  (IF t <= Succ(h) THEN t <= i /\ i < Succ(h) ELSE t <= i \/ i < Succ(h))
           <=> (i = h \/ (IF t <= h THEN t <= i /\ i < h ELSE t <= i \/ i < h))
  BY SizeAssumption DEF Slots, Succ, Norm

\* When tail moves off a live slot, exactly that slot leaves the live slots.
LEMMA TailMoves ==
  ASSUME NEW h \in Slots, NEW t \in Slots, NEW i \in Slots, h # t
  PROVE  (IF Succ(t) <= h THEN Succ(t) <= i /\ i < h ELSE Succ(t) <= i \/ i < h)
           <=> (i # t /\ (IF t <= h THEN t <= i /\ i < h ELSE t <= i \/ i < h))
  BY SizeAssumption DEF Slots, Succ, Norm

\* The slot behind tail, and the slot at head, are not live.
LEMMA DeadSlots ==
  ASSUME TypeOK
  PROVE  /\ ~InRing(Hd)
         /\ \A i \in Slots : Succ(i) = Tl => ~InRing(i)
  BY SizeAssumption DEF TypeOK, Slots, Succ, Norm, InRing, Hd, Tl

\* When the test of uta_ring_insert is false head has not reached the slot
\* behind tail, even if it reads a tail that is not wrapped yet.  It is
\* exact when both indices are positions.
LEMMA FullTest ==
  ASSUME TypeOK, head \in Slots
  PROVE  /\ ~FullSeen => Succ(Hd) # Tl
         /\ tail \in Slots => (FullSeen <=> Succ(Hd) = Tl)
  BY SizeAssumption DEF TypeOK, Slots, Succ, Norm, FullSeen, Hd, Tl

\* Unless the positions meet, the slot at tail is live.
LEMMA LiveTail ==
  ASSUME TypeOK, Tl # Hd
  PROVE  InRing(Tl)
  BY SizeAssumption DEF TypeOK, Slots, Norm, InRing, Hd, Tl

-----------------------------------------------------------------------------
(* Exclusion.                                                              *)

\* At most one thread is in uta_ring_insert past its gate, and at most one
\* in uta_ring_extract: by the gate, or because there is only one thread.
LEMMA Exclusion ==
  ASSUME TypeOK, GateInv
  PROVE  /\ \A p, q \in Producers : ppc[p] # "idle" /\ ppc[q] # "idle" => p = q
         /\ \A c, d \in Consumers : cpc[c] \in InGate /\ cpc[d] \in InGate => c = d
  BY GateAssumption DEF TypeOK, GateInv

\* What a thread past its gate reads in its own index is a position, unless
\* it has just incremented it.
LEMMA Positions ==
  ASSUME TypeOK, IndexInv, GateInv
  PROVE  /\ Hd \in Slots /\ Tl \in Slots
         /\ \A p \in Producers :
              ppc[p] \in {"check", "store", "bump", "post"} => head \in Slots /\ Hd = head
         /\ \A c \in Consumers :
              cpc[c] \in InGate \ {"wrap"} => tail \in Slots /\ Tl = tail
<1>1. /\ Hd \in Slots /\ Tl \in Slots
      /\ head # NElements => head \in Slots /\ Hd = head
      /\ tail # NElements => tail \in Slots /\ Tl = tail
  BY SizeAssumption DEF TypeOK, Hd, Tl, Norm, Slots
<1>2. ASSUME NEW p \in Producers, ppc[p] \in {"check", "store", "bump", "post"}
      PROVE  head # NElements
  BY <1>2, Exclusion DEF IndexInv
<1>3. ASSUME NEW c \in Consumers, cpc[c] \in InGate \ {"wrap"}
      PROVE  tail # NElements
  BY <1>3, Exclusion DEF IndexInv, InGate
<1> QED
  BY <1>1, <1>2, <1>3

-----------------------------------------------------------------------------
\* The ring starts in a state of the inductive invariant (uta_mk_ring).
LEMMA InitInv == Init => IInv
  BY SizeAssumption, EventfdAssumption DEF Init, IInv, TypeOK, IndexInv, GateInv,
     ProducerInv, ConsumerInv, LiveSlots, NothingStranded, InRing, Norm, Slots, InGate

-----------------------------------------------------------------------------
(* One lemma for the steps of uta_ring_insert, one for uta_ring_extract.   *)

\* Every step of uta_ring_insert preserves the invariant, in both builds.
LEMMA InsertInv ==
  ASSUME IInv, NEW p \in Producers, Insert(p) \/ InsertWrap(p)
  PROVE  IInv'
<1>a. \A q \in Producers : ppc[p] # "idle" /\ ppc[q] # "idle" => p = q
  BY Exclusion DEF IInv
<1>b. /\ Hd \in Slots /\ Tl \in Slots
      /\ ppc[p] \in {"check", "store", "bump", "post"} => head \in Slots /\ Hd = head
  BY Positions DEF IInv
<1>1. CASE \E m \in Msg : InsertEnter(p, m)
  <2> PICK m \in Msg : InsertEnter(p, m)
    BY <1>1
  <2>0. Hd' = Hd /\ Tl' = Tl
    BY DEF InsertEnter, consumerVars, Hd, Tl
  <2>1. TypeOK'
    BY NilAssumption DEF InsertEnter, PGoto, consumerVars, IInv, TypeOK
  <2>2. IndexInv' /\ GateInv'
    BY <1>a, NilAssumption DEF InsertEnter, PGoto, consumerVars, IInv, TypeOK,
       IndexInv, GateInv, InGate
  <2>3. ProducerInv' /\ ConsumerInv'
    BY <2>0, <1>a, NilAssumption DEF InsertEnter, PGoto, consumerVars, IInv,
       TypeOK, ProducerInv, ConsumerInv, InGate
  <2>4. \A i \in Slots : InRing(i)' <=> InRing(i)
    BY <2>0 DEF InRing, Hd, Tl
  <2>5. LiveSlots' /\ NothingStranded'
    BY <2>4, <1>a DEF InsertEnter, PGoto, consumerVars, IInv, TypeOK,
       ConsumerInv, InGate, LiveSlots, NothingStranded, Emptying
  <2> QED
    BY <2>1, <2>2, <2>3, <2>5 DEF IInv
<1>2. CASE InsertFull(p)
  <2>0. Hd' = Hd /\ Tl' = Tl
    BY <1>2 DEF InsertFull, consumerVars, Hd, Tl
  <2>1. TypeOK'
    BY <1>2 DEF InsertFull, PGoto, consumerVars, IInv, TypeOK
  <2>2. IndexInv' /\ GateInv'
    BY <1>2, <1>a DEF InsertFull, PGoto, consumerVars, IInv, TypeOK, IndexInv,
       GateInv, InGate
  <2>3. ProducerInv' /\ ConsumerInv'
    BY <2>0, <1>2, <1>a DEF InsertFull, PGoto, consumerVars, IInv, TypeOK,
       ProducerInv, ConsumerInv, InGate
  <2>4. \A i \in Slots : InRing(i)' <=> InRing(i)
    BY <2>0 DEF InRing, Hd, Tl
  <2>5. LiveSlots' /\ NothingStranded'
    BY <2>4, <1>2, <1>a DEF InsertFull, PGoto, consumerVars, IInv, TypeOK,
       ConsumerInv, InGate, LiveSlots, NothingStranded, Emptying
  <2> QED
    BY <2>1, <2>2, <2>3, <2>5 DEF IInv
<1>3. CASE InsertRoom(p)
  <2>0. Hd' = Hd /\ Tl' = Tl
    BY <1>3 DEF InsertRoom, consumerVars, Hd, Tl
  <2>1. TypeOK'
    BY <1>3 DEF InsertRoom, PGoto, consumerVars, IInv, TypeOK
  <2>2. IndexInv' /\ GateInv'
    BY <1>3, <1>a DEF InsertRoom, PGoto, consumerVars, IInv, TypeOK, IndexInv,
       GateInv, InGate
  <2>3. ProducerInv' /\ ConsumerInv'
    BY <2>0, <1>3, <1>a, <1>b, FullTest DEF InsertRoom, PGoto, consumerVars,
       IInv, TypeOK, ProducerInv, ConsumerInv, InGate
  <2>4. \A i \in Slots : InRing(i)' <=> InRing(i)
    BY <2>0 DEF InRing, Hd, Tl
  <2>5. LiveSlots' /\ NothingStranded'
    BY <2>4, <1>3, <1>a DEF InsertRoom, PGoto, consumerVars, IInv, TypeOK,
       ConsumerInv, InGate, LiveSlots, NothingStranded, Emptying
  <2> QED
    BY <2>1, <2>2, <2>3, <2>5 DEF IInv
<1>4. CASE InsertStore(p)
  <2>0. Hd' = Hd /\ Tl' = Tl
    BY <1>4 DEF InsertStore, consumerVars, Hd, Tl
  <2>1. TypeOK'
    BY <1>4, <1>b DEF InsertStore, PGoto, consumerVars, IInv, TypeOK
  <2>2. IndexInv' /\ GateInv'
    BY <1>4, <1>a DEF InsertStore, PGoto, consumerVars, IInv, TypeOK,
       IndexInv, GateInv, InGate
  <2>c. ProducerInv'
    BY <2>0, <1>4, <1>a, <1>b, SuccFacts DEF InsertStore, PGoto, consumerVars,
       IInv, TypeOK, ProducerInv, InGate
  <2>d. ConsumerInv'
    BY <2>0, <1>4, <1>a, <1>b, SuccFacts DEF InsertStore, PGoto, consumerVars,
       IInv, TypeOK, ConsumerInv, InGate, ProducerInv
  <2>3. ProducerInv' /\ ConsumerInv'
    BY <2>c, <2>d
  <2>4. \A i \in Slots : InRing(i)' <=> InRing(i)
    BY <2>0 DEF InRing, Hd, Tl
  <2>5. LiveSlots' /\ NothingStranded'
    BY <2>4, <1>4, <1>a, <1>b DEF InsertStore, PGoto, consumerVars, IInv,
       TypeOK, ConsumerInv, InGate, LiveSlots, NothingStranded, Emptying,
       ProducerInv
  <2> QED
    BY <2>1, <2>2, <2>3, <2>5 DEF IInv
<1>5. CASE InsertBump(p)
  <2>a. head \in Slots
    BY <1>5, <1>b DEF InsertBump, PGoto, InGate
  <2>0. Hd' = Succ(Hd) /\ Tl' = Tl /\ head' \in 0 .. NElements /\ (head' = NElements => SplitIndex)
    BY <1>5, <2>a, SizeAssumption DEF InsertBump, consumerVars, Hd, Tl, Succ,
       Norm, Slots
  <2>1. TypeOK'
    BY <2>0, <1>5, SizeAssumption DEF InsertBump, PGoto, consumerVars, IInv,
       TypeOK
  <2>2. IndexInv' /\ GateInv'
    BY <2>0, <1>5, <1>a DEF InsertBump, PGoto, consumerVars, IInv, TypeOK,
       IndexInv, GateInv, InGate
  <2>c. ProducerInv'
    BY <2>0, <1>5, <1>a, <1>b, SuccFacts DEF InsertBump, PGoto, consumerVars,
       IInv, TypeOK, ProducerInv, InGate
  <2>d. ConsumerInv'
    BY <2>0, <1>5, <1>a, <1>b, SuccFacts DEF InsertBump, PGoto, consumerVars,
       IInv, TypeOK, ConsumerInv, InGate, ProducerInv
  <2>3. ProducerInv' /\ ConsumerInv'
    BY <2>c, <2>d
  <2>e. Hd = head /\ Succ(Hd) # Tl
    BY <1>5, <1>b DEF InsertBump, PGoto, IInv, ProducerInv
  <2>4. \A i \in Slots : InRing(i)' <=> i = head \/ InRing(i)
    BY <2>0, <2>e, <1>b, HeadMoves DEF InRing, Hd, Tl
  <2>5. LiveSlots' /\ NothingStranded'
    BY <2>4, <1>5, <1>a DEF InsertBump, PGoto, consumerVars, IInv, TypeOK,
       ConsumerInv, InGate, LiveSlots, NothingStranded, Emptying, ProducerInv
  <2> QED
    BY <2>1, <2>2, <2>3, <2>5 DEF IInv
<1>6. CASE InsertWrap(p)
  <2>0. Hd' = Hd /\ Tl' = Tl /\ head' \in Slots /\ head' # NElements
    BY <1>6, SizeAssumption DEF InsertWrap, consumerVars, Hd, Tl, Norm, IInv,
       TypeOK, Slots
  <2>1. TypeOK'
    BY <2>0, <1>6, SizeAssumption DEF InsertWrap, PGoto, consumerVars, IInv,
       TypeOK, Slots
  <2>2. IndexInv' /\ GateInv'
    BY <2>0, <1>6, <1>a DEF InsertWrap, PGoto, consumerVars, IInv, TypeOK,
       IndexInv, GateInv, InGate
  <2>c. ProducerInv'
    BY <2>0, <1>6, <1>a DEF InsertWrap, PGoto, consumerVars, IInv, TypeOK,
       ProducerInv, InGate
  <2>d. ConsumerInv'
    BY <2>0, <1>6, <1>a DEF InsertWrap, PGoto, consumerVars, IInv, TypeOK,
       ConsumerInv, InGate, ProducerInv
  <2>3. ProducerInv' /\ ConsumerInv'
    BY <2>c, <2>d
  <2>4. \A i \in Slots : InRing(i)' <=> InRing(i)
    BY <2>0 DEF InRing, Hd, Tl
  <2>5. LiveSlots' /\ NothingStranded'
    BY <2>4, <1>6, <1>a DEF InsertWrap, PGoto, consumerVars, IInv, TypeOK,
       ConsumerInv, InGate, LiveSlots, NothingStranded, Emptying
  <2> QED
    BY <2>1, <2>2, <2>3, <2>5 DEF IInv
<1>7. CASE InsertPost(p)
  <2>0. Hd' = Hd /\ Tl' = Tl
    BY <1>7 DEF InsertPost, consumerVars, Hd, Tl
  <2>1. TypeOK'
    BY <1>7, EventfdAssumption DEF InsertPost, PGoto, consumerVars, IInv,
       TypeOK
  <2>2. IndexInv' /\ GateInv'
    BY <1>7, <1>a DEF InsertPost, PGoto, consumerVars, IInv, TypeOK, IndexInv,
       GateInv, InGate
  <2>3. ProducerInv' /\ ConsumerInv'
    BY <2>0, <1>7, <1>a DEF InsertPost, PGoto, consumerVars, IInv, TypeOK,
       ProducerInv, ConsumerInv, InGate
  <2>4. \A i \in Slots : InRing(i)' <=> InRing(i)
    BY <2>0 DEF InRing, Hd, Tl
  <2>5. LiveSlots' /\ NothingStranded'
    BY <2>4, <1>7, <1>a DEF InsertPost, PGoto, consumerVars, IInv, TypeOK,
       ConsumerInv, InGate, LiveSlots, NothingStranded, Emptying
  <2> QED
    BY <2>1, <2>2, <2>3, <2>5 DEF IInv
<1> QED
  BY <1>1, <1>2, <1>3, <1>4, <1>5, <1>6, <1>7 DEF Insert

\* Every step of uta_ring_extract preserves the invariant, in both builds,
\* when its test of an index that is not wrapped yet is not deceived.
LEMMA ExtractInv ==
  ASSUME IInv, NEW c \in Consumers, Extract(c) \/ ExtractWrap(c),
         PeekSome(c) \/ RecheckSome(c) => Tl # Hd
  PROVE  IInv'
<1>a. \A d \in Consumers : cpc[c] \in InGate /\ cpc[d] \in InGate => c = d
  BY Exclusion DEF IInv
<1>b. /\ Hd \in Slots /\ Tl \in Slots
      /\ cpc[c] \in InGate \ {"wrap"} => tail \in Slots /\ Tl = tail
  BY Positions DEF IInv
<1>c. PeekSome(c) \/ RecheckSome(c) => Tl # Hd
  OBVIOUS
<1>1. CASE ExtractEnter(c)
  <2>0. Hd' = Hd /\ Tl' = Tl
    BY <1>1 DEF ExtractEnter, producerVars, Hd, Tl
  <2>1. TypeOK'
    BY <1>1 DEF ExtractEnter, CGoto, producerVars, IInv, TypeOK
  <2>2. IndexInv' /\ GateInv'
    BY <1>1, <1>a DEF ExtractEnter, CGoto, producerVars, IInv, TypeOK,
       IndexInv, GateInv, InGate
  <2>3. ProducerInv' /\ ConsumerInv'
    BY <2>0, <1>1, <1>a DEF ExtractEnter, CGoto, producerVars, IInv, TypeOK,
       ProducerInv, ConsumerInv, InGate
  <2>4. \A i \in Slots : InRing(i)' <=> InRing(i)
    BY <2>0 DEF InRing, Hd, Tl
  <2>5. LiveSlots' /\ NothingStranded'
    BY <2>4, <1>1, <1>a DEF ExtractEnter, CGoto, producerVars, IInv, TypeOK,
       ConsumerInv, InGate, LiveSlots, NothingStranded, Emptying
  <2> QED
    BY <2>1, <2>2, <2>3, <2>5 DEF IInv
<1>2. CASE PeekEmpty(c)
  <2>0. Hd' = Hd /\ Tl' = Tl
    BY <1>2 DEF PeekEmpty, producerVars, Hd, Tl
  <2>1. TypeOK'
    BY <1>2 DEF PeekEmpty, CGoto, producerVars, IInv, TypeOK
  <2>2. IndexInv' /\ GateInv'
    BY <1>2, <1>a DEF PeekEmpty, CGoto, producerVars, IInv, TypeOK, IndexInv,
       GateInv, InGate
  <2>3. ProducerInv' /\ ConsumerInv'
    BY <2>0, <1>2, <1>a DEF PeekEmpty, CGoto, producerVars, IInv, TypeOK,
       ProducerInv, ConsumerInv, InGate
  <2>4. \A i \in Slots : InRing(i)' <=> InRing(i)
    BY <2>0 DEF InRing, Hd, Tl
  <2>5. LiveSlots' /\ NothingStranded'
    BY <2>4, <1>2, <1>a DEF PeekEmpty, CGoto, producerVars, IInv, TypeOK,
       ConsumerInv, InGate, LiveSlots, NothingStranded, Emptying
  <2> QED
    BY <2>1, <2>2, <2>3, <2>5 DEF IInv
<1>3. CASE PeekSome(c)
  <2>0. Hd' = Hd /\ Tl' = Tl
    BY <1>3 DEF PeekSome, producerVars, Hd, Tl
  <2>1. TypeOK'
    BY <1>3 DEF PeekSome, CGoto, producerVars, IInv, TypeOK
  <2>2. IndexInv' /\ GateInv'
    BY <1>3, <1>a DEF PeekSome, CGoto, producerVars, IInv, TypeOK, IndexInv,
       GateInv, InGate
  <2>3. ProducerInv' /\ ConsumerInv'
    BY <2>0, <1>3, <1>a, <1>c DEF PeekSome, CGoto, producerVars, IInv, TypeOK,
       ProducerInv, ConsumerInv, InGate
  <2>4. \A i \in Slots : InRing(i)' <=> InRing(i)
    BY <2>0 DEF InRing, Hd, Tl
  <2>5. LiveSlots' /\ NothingStranded'
    BY <2>4, <1>3, <1>a DEF PeekSome, CGoto, producerVars, IInv, TypeOK,
       ConsumerInv, InGate, LiveSlots, NothingStranded, Emptying
  <2> QED
    BY <2>1, <2>2, <2>3, <2>5 DEF IInv
<1>4. CASE ReadLock(c)
  <2>0. Hd' = Hd /\ Tl' = Tl
    BY <1>4 DEF ReadLock, producerVars, Hd, Tl
  <2>1. TypeOK'
    BY <1>4, NilAssumption DEF ReadLock, CGoto, producerVars, IInv, TypeOK
  <2>2. IndexInv' /\ GateInv'
    BY <1>4, <1>a, NilAssumption DEF ReadLock, CGoto, producerVars, IInv,
       TypeOK, IndexInv, GateInv, InGate
  <2>3. ProducerInv' /\ ConsumerInv'
    BY <2>0, <1>4, <1>a DEF ReadLock, CGoto, producerVars, IInv, TypeOK,
       ProducerInv, ConsumerInv, InGate
  <2>4. \A i \in Slots : InRing(i)' <=> InRing(i)
    BY <2>0 DEF InRing, Hd, Tl
  <2>5. LiveSlots' /\ NothingStranded'
    BY <2>4, <1>4, <1>a DEF ReadLock, CGoto, producerVars, IInv, TypeOK,
       ConsumerInv, InGate, LiveSlots, NothingStranded, Emptying
  <2> QED
    BY <2>1, <2>2, <2>3, <2>5 DEF IInv
<1>5. CASE ReadTryFail(c)
  <2>0. Hd' = Hd /\ Tl' = Tl
    BY <1>5 DEF ReadTryFail, producerVars, Hd, Tl
  <2>1. TypeOK'
    BY <1>5 DEF ReadTryFail, CGoto, producerVars, IInv, TypeOK
  <2>2. IndexInv' /\ GateInv'
    BY <1>5, <1>a DEF ReadTryFail, CGoto, producerVars, IInv, TypeOK,
       IndexInv, GateInv, InGate
  <2>3. ProducerInv' /\ ConsumerInv'
    BY <2>0, <1>5, <1>a DEF ReadTryFail, CGoto, producerVars, IInv, TypeOK,
       ProducerInv, ConsumerInv, InGate
  <2>4. \A i \in Slots : InRing(i)' <=> InRing(i)
    BY <2>0 DEF InRing, Hd, Tl
  <2>5. LiveSlots' /\ NothingStranded'
    BY <2>4, <1>5, <1>a DEF ReadTryFail, CGoto, producerVars, IInv, TypeOK,
       ConsumerInv, InGate, LiveSlots, NothingStranded, Emptying
  <2> QED
    BY <2>1, <2>2, <2>3, <2>5 DEF IInv
<1>6. CASE RecheckEmpty(c)
  <2>0. Hd' = Hd /\ Tl' = Tl
    BY <1>6 DEF RecheckEmpty, producerVars, Hd, Tl
  <2>1. TypeOK'
    BY <1>6 DEF RecheckEmpty, CGoto, producerVars, IInv, TypeOK
  <2>2. IndexInv' /\ GateInv'
    BY <1>6, <1>a DEF RecheckEmpty, CGoto, producerVars, IInv, TypeOK,
       IndexInv, GateInv, InGate
  <2>3. ProducerInv' /\ ConsumerInv'
    BY <2>0, <1>6, <1>a DEF RecheckEmpty, CGoto, producerVars, IInv, TypeOK,
       ProducerInv, ConsumerInv, InGate
  <2>4. \A i \in Slots : InRing(i)' <=> InRing(i)
    BY <2>0 DEF InRing, Hd, Tl
  <2>5. LiveSlots' /\ NothingStranded'
    BY <2>4, <1>6, <1>a DEF RecheckEmpty, CGoto, producerVars, IInv, TypeOK,
       ConsumerInv, InGate, LiveSlots, NothingStranded, Emptying
  <2> QED
    BY <2>1, <2>2, <2>3, <2>5 DEF IInv
<1>7. CASE RecheckSome(c)
  <2>0. Hd' = Hd /\ Tl' = Tl
    BY <1>7 DEF RecheckSome, producerVars, Hd, Tl
  <2>1. TypeOK'
    BY <1>7 DEF RecheckSome, CGoto, producerVars, IInv, TypeOK
  <2>2. IndexInv' /\ GateInv'
    BY <1>7, <1>a DEF RecheckSome, CGoto, producerVars, IInv, TypeOK,
       IndexInv, GateInv, InGate
  <2>3. ProducerInv' /\ ConsumerInv'
    BY <2>0, <1>7, <1>a, <1>c DEF RecheckSome, CGoto, producerVars, IInv,
       TypeOK, ProducerInv, ConsumerInv, InGate
  <2>4. \A i \in Slots : InRing(i)' <=> InRing(i)
    BY <2>0 DEF InRing, Hd, Tl
  <2>5. LiveSlots' /\ NothingStranded'
    BY <2>4, <1>7, <1>a DEF RecheckSome, CGoto, producerVars, IInv, TypeOK,
       ConsumerInv, InGate, LiveSlots, NothingStranded, Emptying
  <2> QED
    BY <2>1, <2>2, <2>3, <2>5 DEF IInv
<1>8. CASE ExtractBump(c)
  <2>a. tail \in Slots
    BY <1>8, <1>b DEF ExtractBump, CGoto, InGate
  <2>0. Hd' = Hd /\ Tl' = Succ(Tl) /\ tail' \in 0 .. NElements /\ (tail' = NElements => SplitIndex)
    BY <1>8, <2>a, SizeAssumption DEF ExtractBump, producerVars, Hd, Tl, Succ,
       Norm, Slots
  <2>1. TypeOK'
    BY <2>0, <2>a, <1>8, SizeAssumption DEF ExtractBump, CGoto, producerVars,
       IInv, TypeOK
  <2>2. IndexInv' /\ GateInv'
    BY <2>0, <2>a, <1>8, <1>a DEF ExtractBump, CGoto, producerVars, IInv,
       TypeOK, IndexInv, GateInv, InGate
  <2>b. data[tail] # NIL /\ Tl = tail /\ Tl # Hd
    BY <1>8, <2>a, <1>b, LiveTail DEF ExtractBump, CGoto, IInv, ConsumerInv,
       InGate, LiveSlots
  <2>c. ProducerInv'
    BY <2>0, <2>b, <1>b, SuccFacts, <1>8 DEF ExtractBump, producerVars, IInv,
       ProducerInv
  <2>d. ConsumerInv'
    BY <2>0, <2>b, <1>8, <1>a DEF ExtractBump, CGoto, producerVars, IInv,
       TypeOK, ConsumerInv, InGate
  <2>3. ProducerInv' /\ ConsumerInv'
    BY <2>c, <2>d
  <2>4. \A i \in Slots : InRing(i)' <=> i # tail /\ InRing(i)
    BY <2>0, <2>b, <1>b, TailMoves DEF InRing, Hd, Tl
  <2>5. LiveSlots' /\ NothingStranded'
    BY <2>4, <1>8, <1>a, <1>b, <2>a DEF ExtractBump, CGoto, producerVars,
       IInv, TypeOK, ConsumerInv, InGate, LiveSlots, NothingStranded, Emptying
  <2> QED
    BY <2>1, <2>2, <2>3, <2>5 DEF IInv
<1>9. CASE ExtractWrap(c)
  <2>0. Hd' = Hd /\ Tl' = Tl /\ tail' \in Slots /\ tail' # NElements
    BY <1>9, SizeAssumption DEF ExtractWrap, producerVars, Hd, Tl, Norm, IInv,
       TypeOK, Slots
  <2>1. TypeOK'
    BY <2>0, <1>9, SizeAssumption DEF ExtractWrap, CGoto, producerVars, IInv,
       TypeOK, Slots
  <2>2. IndexInv' /\ GateInv'
    BY <2>0, <1>9, <1>a DEF ExtractWrap, CGoto, producerVars, IInv, TypeOK,
       IndexInv, GateInv, InGate
  <2>c. ProducerInv'
    BY <2>0, <1>9, <1>a DEF ExtractWrap, CGoto, producerVars, IInv, TypeOK,
       ProducerInv, InGate, ConsumerInv
  <2>d. ConsumerInv'
    BY <2>0, <1>9, <1>a DEF ExtractWrap, CGoto, producerVars, IInv, TypeOK,
       ConsumerInv, InGate
  <2>3. ProducerInv' /\ ConsumerInv'
    BY <2>c, <2>d
  <2>4. \A i \in Slots : InRing(i)' <=> InRing(i)
    BY <2>0 DEF InRing, Hd, Tl
  <2>5. LiveSlots' /\ NothingStranded'
    BY <2>4, <1>9, <1>a DEF ExtractWrap, CGoto, producerVars, IInv, TypeOK,
       ConsumerInv, InGate, LiveSlots, NothingStranded, Emptying
  <2> QED
    BY <2>1, <2>2, <2>3, <2>5 DEF IInv
<1>10. CASE ExtractRead(c)
  <2>0. Hd' = Hd /\ Tl' = Tl
    BY <1>10 DEF ExtractRead, producerVars, Hd, Tl
  <2>1. TypeOK'
    BY <1>10, EventfdAssumption DEF ExtractRead, CGoto, producerVars, IInv,
       TypeOK
  <2>2. IndexInv' /\ GateInv'
    BY <1>10, <1>a DEF ExtractRead, CGoto, producerVars, IInv, TypeOK,
       IndexInv, GateInv, InGate
  <2>3. ProducerInv' /\ ConsumerInv'
    BY <2>0, <1>10, <1>a DEF ExtractRead, CGoto, producerVars, IInv, TypeOK,
       ProducerInv, ConsumerInv, InGate
  <2>4. \A i \in Slots : InRing(i)' <=> InRing(i)
    BY <2>0 DEF InRing, Hd, Tl
  <2>5. LiveSlots' /\ NothingStranded'
    BY <2>4, <1>10, <1>a DEF ExtractRead, CGoto, producerVars, IInv, TypeOK,
       ConsumerInv, InGate, LiveSlots, NothingStranded, Emptying
  <2> QED
    BY <2>1, <2>2, <2>3, <2>5 DEF IInv
<1>11. CASE ExtractTake(c)
  <2>0. Hd' = Hd /\ Tl' = Tl
    BY <1>11 DEF ExtractTake, producerVars, Hd, Tl
  <2>1. TypeOK'
    BY <1>11 DEF ExtractTake, CGoto, producerVars, IInv, TypeOK
  <2>2. IndexInv' /\ GateInv'
    BY <1>11, <1>a DEF ExtractTake, CGoto, producerVars, IInv, TypeOK,
       IndexInv, GateInv, InGate
  <2>c. ProducerInv'
    BY <2>0, <1>11, <1>a DEF ExtractTake, CGoto, producerVars, IInv, TypeOK,
       ProducerInv, InGate, ConsumerInv
  <2>d. ConsumerInv'
    BY <2>0, <1>11, <1>a DEF ExtractTake, CGoto, producerVars, IInv, TypeOK,
       ConsumerInv, InGate
  <2>3. ProducerInv' /\ ConsumerInv'
    BY <2>c, <2>d
  <2>4. \A i \in Slots : InRing(i)' <=> InRing(i)
    BY <2>0 DEF InRing, Hd, Tl
  <2>5. LiveSlots' /\ NothingStranded'
    BY <2>4, <1>11, <1>a DEF ExtractTake, CGoto, producerVars, IInv, TypeOK,
       ConsumerInv, InGate, LiveSlots, NothingStranded, Emptying
  <2> QED
    BY <2>1, <2>2, <2>3, <2>5 DEF IInv
<1>12. CASE ExtractClear(c)
  <2>0. Hd' = Hd /\ Tl' = Tl
    BY <1>12 DEF ExtractClear, producerVars, Hd, Tl
  <2>1. TypeOK'
    BY <1>12 DEF ExtractClear, CGoto, producerVars, IInv, TypeOK
  <2>2. IndexInv' /\ GateInv'
    BY <1>12, <1>a DEF ExtractClear, CGoto, producerVars, IInv, TypeOK,
       IndexInv, GateInv, InGate
  <2>a. \A p \in Producers : ppc[p] = "bump" => head # ti[c]
    BY <1>12, Positions DEF ExtractClear, CGoto, IInv, ProducerInv,
       ConsumerInv
  <2>c. ProducerInv'
    BY <2>0, <2>a, <1>12 DEF ExtractClear, producerVars, IInv, TypeOK,
       ProducerInv
  <2>d. ConsumerInv'
    BY <2>0, <1>12, <1>a DEF ExtractClear, CGoto, producerVars, IInv, TypeOK,
       ConsumerInv, InGate
  <2>3. ProducerInv' /\ ConsumerInv'
    BY <2>c, <2>d
  <2>4. \A i \in Slots : InRing(i)' <=> InRing(i)
    BY <2>0 DEF InRing, Hd, Tl
  <2>5. LiveSlots' /\ NothingStranded'
    BY <2>4, <1>12, <1>a, DeadSlots DEF ExtractClear, CGoto, producerVars,
       IInv, TypeOK, ConsumerInv, InGate, LiveSlots, NothingStranded, Emptying
  <2> QED
    BY <2>1, <2>2, <2>3, <2>5 DEF IInv
<1> QED
  BY <1>1, <1>2, <1>3, <1>4, <1>5, <1>6, <1>7, <1>8, <1>9, <1>10, <1>11, <1>12
     DEF Extract

\* The invariant is inductive in a build which stores an index once.
LEMMA StepInv == ~SplitIndex /\ IInv /\ [Next]_vars => IInv'
<1> SUFFICES ASSUME ~SplitIndex, IInv, [Next]_vars
             PROVE  IInv'
  OBVIOUS
<1>1. head \in Slots /\ tail \in Slots
  BY SizeAssumption DEF IInv, TypeOK, IndexInv, Slots
<1>2. Hd = head /\ Tl = tail
  BY <1>1, SizeAssumption DEF Hd, Tl, Norm, Slots
<1>3. CASE \E p \in Producers : Insert(p)
  BY <1>3, InsertInv
<1>4. CASE \E c \in Consumers : Extract(c)
  <2>1. \A c \in Consumers : PeekSome(c) \/ RecheckSome(c) => Tl # Hd
    BY <1>2 DEF PeekSome, RecheckSome
  <2> QED
    BY <1>4, <2>1, ExtractInv
<1>5. CASE UNCHANGED vars
  BY <1>5 DEF vars, IInv, TypeOK, IndexInv, GateInv, ProducerInv, ConsumerInv,
     LiveSlots, NothingStranded, InRing, Emptying, Hd, Tl
<1> QED
  BY <1>3, <1>4, <1>5 DEF Next

\* The inductive invariant holds in every reachable state.
LEMMA AlwaysInv ==
  ASSUME ~SplitIndex
  PROVE  Spec => []IInv
<1>1. IInv /\ [Next]_vars => IInv'
  BY StepInv
<1> QED
  BY <1>1, InitInv, PTL DEF Spec

-----------------------------------------------------------------------------
(* How many pointers are queued, and where.                                *)

\* Pointers between two positions.
Dist(t, h) == IF t <= h THEN h - t ELSE h + NElements - t

\* The slot of the k-th pointer from position t on.
At(t, k) == (t + k - 1) % NElements

\* The ring is empty exactly when the positions meet; a moving head adds one
\* pointer, unless the ring is full, and a moving tail takes one away.
LEMMA DistFacts ==
  ASSUME NEW h \in Slots, NEW t \in Slots
  PROVE  /\ Dist(t, h) \in 0 .. NElements - 1
         /\ Dist(t, h) = 0 <=> t = h
         /\ Succ(h) # t => Dist(t, Succ(h)) = Dist(t, h) + 1 /\ Dist(t, h) < NElements - 1
         /\ Succ(h) = t => Dist(t, h) = NElements - 1
         /\ h # t => Dist(Succ(t), h) = Dist(t, h) - 1
  BY SizeAssumption DEF Slots, Succ, Norm, Dist

\* The remainder in terms of a comparison, for the arguments At gives it.
LEMMA ModFacts ==
  ASSUME NEW a \in Nat
  PROVE  /\ a < NElements => a % NElements = a
         /\ NElements <= a /\ a < NElements + NElements => a % NElements = a - NElements
  BY SizeAssumption

\* The queued pointers are in live slots, the first one at tail; the next one
\* goes to head; when tail moves every pointer is one nearer to it.
LEMMA AtFacts ==
  ASSUME NEW h \in Slots, NEW t \in Slots
  PROVE  /\ \A k \in 1 .. Dist(t, h) :
              /\ At(t, k) \in Slots
              /\ At(t, k) # h
              /\ IF t <= h THEN t <= At(t, k) /\ At(t, k) < h ELSE t <= At(t, k) \/ At(t, k) < h
         /\ At(t, 1) = t
         /\ At(t, Dist(t, h) + 1) = h
         /\ h # t => \A k \in 1 .. Dist(t, h) - 1 : At(Succ(t), k) = At(t, k + 1)
<1> USE SizeAssumption DEF Slots
<1>1. \A a \in Slots, k \in 1 .. NElements :
        At(a, k) = IF a + k - 1 < NElements THEN a + k - 1 ELSE a + k - 1 - NElements
  BY ModFacts DEF At
<1>2. \A k \in 1 .. NElements - 1 : At(Succ(t), k) = At(t, k + 1)
  <2>1. SUFFICES ASSUME NEW k \in 1 .. NElements - 1
                 PROVE  At(Succ(t), k) = At(t, k + 1)
    OBVIOUS
  <2>2. At(t, k + 1) = IF t + k < NElements THEN t + k ELSE t + k - NElements
    BY <1>1
  <2>4. k \in 1 .. NElements
    OBVIOUS
  <2>3. Succ(t) \in Slots /\ Succ(t) = IF t + 1 >= NElements THEN 0 ELSE t + 1
    BY DEF Succ, Norm
  <2>5. At(Succ(t), k) = IF Succ(t) + k - 1 < NElements THEN Succ(t) + k - 1
                                                       ELSE Succ(t) + k - 1 - NElements
    BY <1>1, <2>3, <2>4, Zenon
  <2>6. CASE t + 1 >= NElements
    <3>1. Succ(t) = 0 /\ t = NElements - 1
      BY <2>3, <2>6
    <3>2. At(Succ(t), k) = k - 1
      BY <2>5, <3>1
    <3> QED
      BY <2>2, <3>1, <3>2
  <2>7. CASE ~(t + 1 >= NElements)
    <3>1. Succ(t) = t + 1
      BY <2>3, <2>7
    <3>2. At(t + 1, k) = IF t + k < NElements THEN t + k ELSE t + k - NElements
      BY <1>1, <2>4, <2>7
    <3> QED
      BY <2>2, <3>1, <3>2, Zenon
  <2> QED
    BY <2>6, <2>7
<1>3. Dist(t, h) \in 0 .. NElements - 1
  BY DistFacts
<1>4. At(t, 1) = t
  BY <1>1
<1>5. At(t, Dist(t, h) + 1) = h
  BY <1>1, <1>3 DEF Dist
<1>6. ASSUME NEW k \in 1 .. Dist(t, h)
      PROVE  /\ At(t, k) \in Slots
             /\ At(t, k) # h
             /\ IF t <= h THEN t <= At(t, k) /\ At(t, k) < h ELSE t <= At(t, k) \/ At(t, k) < h
  BY <1>1, <1>3 DEF Dist
<1> QED
  BY <1>2, <1>3, <1>4, <1>5, <1>6

\* Count and Contents in these terms, before and after a step.
LEMMA CountIsDist ==
  /\ Count = Dist(Tl, Hd)
  /\ Count' = Dist(Tl', Hd')
  /\ Contents = [k \in 1 .. Dist(Tl, Hd) |-> data[At(Tl, k)]]
  /\ Contents' = [k \in 1 .. Dist(Tl', Hd') |-> data'[At(Tl', k)]]
  BY DEF Count, Contents, Dist, At, Tl, Hd

\* Sequences which differ by an element at the end, or at the front.
LEMMA SeqFacts ==
  ASSUME NEW S, NEW n \in Nat, NEW f \in [1 .. n -> S], NEW g \in [1 .. n + 1 -> S]
  PROVE  /\ (\A k \in 1 .. n : g[k] = f[k]) => g = Append(f, g[n + 1])
         /\ (\A k \in 1 .. n : f[k] = g[k + 1]) => f = Tail(g)
         /\ g # <<>> /\ Head(g) = g[1]
  OBVIOUS

\* The queued pointers are pointers.
LEMMA ContentsType ==
  ASSUME IInv
  PROVE  /\ Count \in 0 .. NElements - 1
         /\ Contents \in [1 .. Count -> Msg]
         /\ Contents \in Seq(Msg) /\ Len(Contents) = Count
         /\ \A k \in 1 .. Count : Contents[k] = data[At(Tl, k)] /\ InRing(At(Tl, k))
                                  /\ At(Tl, k) \in Slots /\ At(Tl, k) # Hd
<1>1. Hd \in Slots /\ Tl \in Slots
  BY Positions DEF IInv
<1>2. Count \in 0 .. NElements - 1
  BY <1>1, CountIsDist, DistFacts
<1>3. \A k \in 1 .. Count : /\ At(Tl, k) \in Slots /\ At(Tl, k) # Hd
                            /\ InRing(At(Tl, k))
  BY <1>1, CountIsDist, AtFacts DEF InRing, Tl, Hd
<1>4. \A k \in 1 .. Count : data[At(Tl, k)] \in Msg
  BY <1>3 DEF IInv, TypeOK, LiveSlots
<1>5. \A k \in 1 .. Count : Contents[k] = data[At(Tl, k)]
  BY CountIsDist
<1>6. Contents \in [1 .. Count -> Msg]
  BY <1>4, CountIsDist
<1>7. Contents \in Seq(Msg) /\ Len(Contents) = Count
  BY <1>2, <1>6, SizeAssumption
<1> QED
  BY <1>2, <1>3, <1>5, <1>6, <1>7

-----------------------------------------------------------------------------
(* The bounded FIFO.                                                       *)

\* Nothing happens in the FIFO while the positions, the live slots and what
\* the extracts have removed stay as they are.
LEMMA FifoSame ==
  ASSUME IInv, Hd' = Hd, Tl' = Tl,
         \A i \in Slots : InRing(i) => data'[i] = data[i],
         \A c \in Consumers : TakenBy(c)' = TakenBy(c)
  PROVE  UNCHANGED Queue!fifoVars
<1>1. \A k \in 1 .. Dist(Tl, Hd) : data'[At(Tl, k)] = data[At(Tl, k)]
  BY ContentsType, CountIsDist
<1>2. Contents' = [k \in 1 .. Dist(Tl, Hd) |-> data'[At(Tl, k)]]
  BY CountIsDist
<1>4. Contents' = Contents
  BY <1>1, <1>2, CountIsDist
<1>5. [c \in Consumers |-> TakenBy(c)]' = [c \in Consumers |-> TakenBy(c)]
  OBVIOUS
<1> QED
  BY <1>4, <1>5 DEF Queue!fifoVars

\* uta_ring_insert: the pointer is queued when head moves.
LEMMA InsertFifo ==
  ASSUME IInv, NEW p \in Producers, Insert(p) \/ InsertWrap(p)
  PROVE  (\E m \in Msg : Queue!FifoInsert(m)) \/ UNCHANGED Queue!fifoVars
<1>1. CASE InsertBump(p)
  <2>1. head \in Slots /\ Hd = head /\ Hd \in Slots /\ Tl \in Slots
    BY <1>1, Positions DEF IInv, InsertBump, PGoto
  <2>2. Succ(Hd) # Tl /\ data[head] = new[p] /\ new[p] \in Msg
    BY <1>1 DEF IInv, TypeOK, ProducerInv, InsertBump, PGoto
  <2>3. Hd' = Succ(Hd) /\ Tl' = Tl /\ data' = data
        /\ \A c \in Consumers : TakenBy(c)' = TakenBy(c)
    <3>1. Hd' = Succ(Hd)
      BY <1>1, <2>1, SizeAssumption DEF InsertBump, Hd, Succ, Norm, Slots
    <3> QED
      BY <1>1, <3>1 DEF InsertBump, consumerVars, Tl, TakenBy
  <2>4. Dist(Tl, Hd') = Dist(Tl, Hd) + 1 /\ Dist(Tl, Hd) < NElements - 1
    BY <2>1, <2>2, <2>3, DistFacts
  <2>5. /\ Dist(Tl, Hd) = Count /\ Count \in Nat /\ Contents \in [1 .. Count -> Msg]
        /\ \A k \in 1 .. Count : Contents[k] = data[At(Tl, k)]
    BY ContentsType, CountIsDist, SizeAssumption
  <2>6. Contents' = [k \in 1 .. Count + 1 |-> data[At(Tl, k)]]
    BY <2>3, <2>4, <2>5, CountIsDist
  <2>7. Contents' = Append(Contents, new[p])
    <3>0. At(Tl, Dist(Tl, Hd) + 1) = Hd
      BY <2>1, AtFacts
    <3>1. data[At(Tl, Count + 1)] = new[p]
      BY <2>1, <2>2, <2>5, <3>0, Zenon
    <3>2. \A k \in 1 .. Count + 1 : data[At(Tl, k)] \in Msg
      BY <2>2, <2>5, <3>1
    <3>3. Contents' \in [1 .. Count + 1 -> Msg]
      BY <2>6, <3>2
    <3>4. \A k \in 1 .. Count : Contents'[k] = Contents[k]
      BY <2>5, <2>6
    <3>5. Contents'[Count + 1] = new[p]
      BY <2>5, <2>6, <3>1
    <3>6. Contents' = Append(Contents, Contents'[Count + 1])
      BY <2>5, <3>3, <3>4, SeqFacts
    <3> QED
      BY <3>5, <3>6, Zenon
  <2>8. Len(Contents) < NElements - 1
    BY <2>4, <2>5, ContentsType
  <2>9. [c \in Consumers |-> TakenBy(c)]' = [c \in Consumers |-> TakenBy(c)]
    BY <2>3
  <2> QED
    BY <2>2, <2>7, <2>8, <2>9 DEF Queue!FifoInsert
<1>2. CASE InsertStore(p)
  <2>1. head \in Slots /\ Hd = head /\ Succ(Hd) # Tl
    BY <1>2, Positions DEF IInv, ProducerInv, InsertStore, PGoto
  <2>2. \A i \in Slots : i # head => data'[i] = data[i]
    BY <1>2, <2>1 DEF IInv, TypeOK, InsertStore
  <2>3. ~InRing(head)
    BY <2>1, DeadSlots DEF IInv
  <2>4. \A c \in Consumers : TakenBy(c)' = TakenBy(c)
    <3>1. SUFFICES ASSUME NEW c \in Consumers
                   PROVE  TakenBy(c)' = TakenBy(c)
      OBVIOUS
    <3>2. UNCHANGED <<cpc, ti, res>>
      BY <1>2 DEF InsertStore, consumerVars
    <3>3. cpc[c] \in {"wrap", "read", "take"} => ti[c] \in Slots /\ ti[c] # head
      BY <2>1 DEF IInv, TypeOK, ConsumerInv
    <3> QED
      BY <2>2, <3>2, <3>3 DEF TakenBy
  <2> QED
    BY <1>2, <2>2, <2>3, <2>4, FifoSame DEF InsertStore, consumerVars, Hd, Tl
<1>3. CASE InsertWrap(p)
  <2>1. Hd' = Hd
    BY <1>3, SizeAssumption DEF InsertWrap, Hd, Norm, IInv, TypeOK
  <2> QED
    BY <1>3, <2>1, FifoSame DEF InsertWrap, consumerVars, TakenBy, Tl
<1>4. CASE (\E m \in Msg : InsertEnter(p, m)) \/ InsertFull(p) \/ InsertRoom(p) \/ InsertPost(p)
  <2>1. UNCHANGED <<data, head, consumerVars>>
    BY <1>4 DEF InsertEnter, InsertFull, InsertRoom, InsertPost
  <2> QED
    BY <2>1, FifoSame DEF consumerVars, TakenBy, Hd, Tl
<1> QED
  BY <1>1, <1>2, <1>3, <1>4 DEF Insert

\* uta_ring_extract: the oldest pointer is removed when tail moves, and the
\* late read of the slot returns that very pointer.
LEMMA ExtractFifo ==
  ASSUME IInv, NEW c \in Consumers, Extract(c) \/ ExtractWrap(c)
  PROVE  Queue!FifoExtract(c) \/ Queue!FifoReturn(c) \/ UNCHANGED Queue!fifoVars
<1>0. /\ cpc \in [Consumers -> {"idle", "peek", "lock", "recheck", "bump", "wrap",
                              "read", "take", "clear"}]
      /\ ti \in [Consumers -> Slots]
      /\ res \in [Consumers -> Msg \cup {NIL}]
  BY DEF IInv, TypeOK
<1>1. CASE ExtractBump(c)
  <2>1. tail \in Slots /\ Tl = tail /\ Hd \in Slots /\ Tl \in Slots
    BY <1>1, Positions DEF IInv, ExtractBump, CGoto, InGate
  <2>2. Tl # Hd /\ cpc[c] = "bump"
    BY <1>1 DEF IInv, ConsumerInv, ExtractBump, CGoto
  <2>3. Hd' = Hd /\ Tl' = Succ(Tl) /\ data' = data
    <3>1. Tl' = Succ(Tl)
      BY <1>1, <2>1, SizeAssumption DEF ExtractBump, Tl, Succ, Norm, Slots
    <3> QED
      BY <1>1, <3>1 DEF ExtractBump, producerVars, Hd
  <2>4. Dist(Tl', Hd') = Dist(Tl, Hd) - 1 /\ Dist(Tl, Hd) \in Nat \ {0}
    BY <2>1, <2>2, <2>3, DistFacts, SizeAssumption
  <2>5. /\ Dist(Tl, Hd) = Count /\ Contents \in [1 .. Count -> Msg]
        /\ \A k \in 1 .. Count : Contents[k] = data[At(Tl, k)]
    BY ContentsType, CountIsDist
  <2>6. \A k \in 1 .. Count - 1 : At(Tl', k) = At(Tl, k + 1)
    BY <2>1, <2>2, <2>3, <2>5, AtFacts
  <2>7. Contents # <<>> /\ Contents' = Tail(Contents) /\ Head(Contents) = data[tail]
    <3> DEFINE n == Count - 1
    <3>1. n \in Nat /\ Count = n + 1
      BY <2>4, <2>5
    <3>2. Contents' = [k \in 1 .. n |-> data[At(Tl', k)]]
      BY <2>3, <2>4, <2>5, CountIsDist
    <3>3. \A k \in 1 .. n : data[At(Tl', k)] = Contents[k + 1] /\ Contents[k + 1] \in Msg
      BY <2>5, <2>6, <3>1
    <3>4. Contents' \in [1 .. n -> Msg] /\ \A k \in 1 .. n : Contents'[k] = Contents[k + 1]
      BY <3>2, <3>3
    <3>5. Contents \in [1 .. n + 1 -> Msg]
      BY <2>5, <3>1, Zenon
    <3>6. Contents[1] = data[tail]
      BY <2>1, <2>5, <3>1, AtFacts
    <3> HIDE DEF n
    <3> QED
      BY <3>1, <3>4, <3>5, <3>6, SeqFacts
  <2>8. TakenBy(c) = NIL
    BY <2>2 DEF TakenBy
  <2>9. [d \in Consumers |-> TakenBy(d)]'
          = [[d \in Consumers |-> TakenBy(d)] EXCEPT ![c] = data[tail]]
    <3>1. \A d \in Consumers : TakenBy(d)' = IF d = c THEN data[tail] ELSE TakenBy(d)
      BY <1>0, <1>1, <2>3 DEF ExtractBump, CGoto, TakenBy
    <3> QED
      BY <3>1, Zenon
  <2> QED
    BY <2>7, <2>8, <2>9, Zenon DEF Queue!FifoExtract
<1>2. CASE ExtractClear(c)
  <2>1. cpc[c] = "clear" /\ Succ(ti[c]) = Tl /\ res[c] # NIL /\ ti[c] \in Slots
    BY <1>0, <1>2 DEF IInv, ConsumerInv, ExtractClear, CGoto
  <2>2. Hd' = Hd /\ Tl' = Tl
    BY <1>2 DEF ExtractClear, producerVars, Hd, Tl
  <2>3. ~InRing(ti[c])
    BY <2>1, DeadSlots DEF IInv
  <2>4. \A i \in Slots : i # ti[c] => data'[i] = data[i]
    BY <1>2 DEF IInv, TypeOK, ExtractClear
  <2>5. Contents' = Contents
    <3>1. \A k \in 1 .. Dist(Tl, Hd) : data'[At(Tl, k)] = data[At(Tl, k)]
      BY <2>3, <2>4, ContentsType, CountIsDist
    <3>2. Contents' = [k \in 1 .. Dist(Tl, Hd) |-> data'[At(Tl, k)]]
      BY <2>2, CountIsDist
    <3> QED
      BY <3>1, <3>2, CountIsDist
  <2>6. \A d \in Consumers : cpc[d] \notin {"wrap", "read", "take"}
    BY <2>1, Exclusion DEF IInv, InGate
  <2>7. \A d \in Consumers : TakenBy(d)' = IF d = c THEN NIL ELSE TakenBy(d)
    <3>1. SUFFICES ASSUME NEW d \in Consumers
                   PROVE  TakenBy(d)' = IF d = c THEN NIL ELSE TakenBy(d)
      OBVIOUS
    <3>2. /\ cpc'[d] = IF d = c THEN "idle" ELSE cpc[d]
          /\ res'[d] = IF d = c THEN NIL ELSE res[d]
      BY <1>0, <1>2 DEF ExtractClear, CGoto
    <3> QED
      BY <2>6, <3>2 DEF TakenBy
  <2>8. TakenBy(c) # NIL
    BY <2>1 DEF TakenBy
  <2>9. [d \in Consumers |-> TakenBy(d)]'
          = [[d \in Consumers |-> TakenBy(d)] EXCEPT ![c] = NIL]
    BY <2>7, Zenon
  <2> QED
    BY <2>5, <2>8, <2>9 DEF Queue!FifoReturn
<1>3. CASE ExtractTake(c) \/ ExtractRead(c) \/ ExtractWrap(c)
  <2>0. tail' = tail \/ tail' = Norm(tail)
    BY <1>3 DEF ExtractTake, ExtractRead, ExtractWrap
  <2>1. Tl' = Tl
    <3>1. tail \in 0 .. NElements
      BY DEF IInv, TypeOK
    <3>2. Norm(Norm(tail)) = Norm(tail)
      BY <3>1, SizeAssumption DEF Norm
    <3> QED
      BY <2>0, <3>2, Zenon DEF Tl
  <2>2. Hd' = Hd /\ data' = data
    BY <1>3 DEF ExtractTake, ExtractRead, ExtractWrap, producerVars, Hd
  <2>3. \A d \in Consumers : TakenBy(d)' = TakenBy(d)
    BY <1>0, <1>3, <2>2 DEF ExtractTake, ExtractRead, ExtractWrap, CGoto, TakenBy
  <2> QED
    BY <2>1, <2>2, <2>3, FifoSame
<1>4. CASE \/ ExtractEnter(c) \/ PeekEmpty(c) \/ PeekSome(c) \/ ReadLock(c)
           \/ ReadTryFail(c) \/ RecheckEmpty(c) \/ RecheckSome(c)
  <2>1. UNCHANGED <<data, head, tail, ti, res>>
    BY <1>4 DEF ExtractEnter, PeekEmpty, PeekSome, ReadLock, ReadTryFail, RecheckEmpty,
       RecheckSome, producerVars
  <2>2. \A d \in Consumers :
          \/ cpc'[d] = cpc[d]
          \/ {cpc[d], cpc'[d]} \subseteq {"idle", "peek", "lock", "recheck", "bump"}
    BY <1>0, <1>4 DEF ExtractEnter, PeekEmpty, PeekSome, ReadLock, ReadTryFail, RecheckEmpty,
       RecheckSome, CGoto
  <2>3. \A d \in Consumers : TakenBy(d)' = TakenBy(d)
    BY <2>1, <2>2 DEF TakenBy
  <2> QED
    BY <2>1, <2>3, FifoSame DEF Hd, Tl
<1> QED
  BY <1>1, <1>2, <1>3, <1>4 DEF Extract

\* The FIFO starts empty.
LEMMA FifoStart == Init => Queue!FifoInit
<1> SUFFICES ASSUME Init PROVE Queue!FifoInit
  OBVIOUS
<1>1. Count = 0
  BY SizeAssumption DEF Init, Count, Norm
<1>2. Contents = <<>>
  BY <1>1 DEF Contents
<1>3. \A c \in Consumers : TakenBy(c) = NIL
  BY DEF Init, TakenBy
<1> QED
  BY <1>2, <1>3 DEF Queue!FifoInit

-----------------------------------------------------------------------------
(* Theorems.                                                               *)

\* Type correctness of the ring: in particular head and tail never leave the
\* slots, whatever the threads do.
THEOREM TypeCorrect ==
  ASSUME ~SplitIndex
  PROVE  Spec => []TypeOK
  BY AlwaysInv, PTL DEF IInv

\* A slot that a consumer left behind is not the one at head while there is
\* room for another pointer.
LEMMA NoOverwriteInv == IInv => NoOverwrite
<1> SUFFICES ASSUME IInv, NEW p \in Producers, NEW c \in Consumers,
                    ppc[p] = "store", c \in Emptying
             PROVE  ti[c] # head
  BY DEF NoOverwrite
<1>1. Hd = head /\ Succ(Hd) # Tl
  BY Positions DEF IInv, ProducerInv
<1>2. Succ(ti[c]) = Tl
  BY DEF IInv, ConsumerInv, Emptying
<1> QED
  BY <1>1, <1>2

\* No slot is filled while a consumer still has to read or clear it, although
\* uta_ring_extract moves tail first.
THEOREM NoOverwriteHolds ==
  ASSUME ~SplitIndex
  PROVE  Spec => []NoOverwrite
  BY NoOverwriteInv, AlwaysInv, PTL

\* Between tail and head every slot holds a pointer.
THEOREM LiveSlotsHold ==
  ASSUME ~SplitIndex
  PROVE  Spec => []LiveSlots
  BY AlwaysInv, PTL DEF IInv

\* No pointer is left behind in a slot that no thread will visit.
THEOREM NothingStrandedHolds ==
  ASSUME ~SplitIndex
  PROVE  Spec => []NothingStranded
  BY AlwaysInv, PTL DEF IInv

\* An extract returns nil only when the ring is empty at its test: one that
\* saw a pointer returns a pointer.
THEOREM NilOnlyWhenEmptyHolds ==
  ASSUME ~SplitIndex
  PROVE  Spec => NilOnlyWhenEmpty
<1> DEFINE ReturnsNil(c) == \/ PeekEmpty(c)
                            \/ RecheckEmpty(c)
                            \/ ExtractClear(c) /\ res[c] = NIL
<1>1. ASSUME IInv, NEW c \in Consumers, ReturnsNil(c)
      PROVE  Count = 0
  <2>1. CASE tail = head
    BY <2>1, <1>1, SizeAssumption DEF IInv, TypeOK, Count, Norm
  <2>2. CASE ExtractClear(c) /\ res[c] = NIL
    BY <2>2, <1>1 DEF IInv, ConsumerInv, ExtractClear, CGoto
  <2> QED
    BY <2>1, <2>2, <1>1 DEF PeekEmpty, RecheckEmpty
<1>2. IInv => [\A c \in Consumers : ReturnsNil(c) => Count = 0]_vars
  BY <1>1
<1> QED
  BY <1>2, AlwaysInv, PTL DEF NilOnlyWhenEmpty

\* The ring implements a bounded FIFO of NElements-1 pointers: every step of a
\* thread is an insert, an extract or a return of the FIFO, or nothing.
THEOREM ImplementsFifoHolds ==
  ASSUME ~SplitIndex
  PROVE  Spec => ImplementsFifo
<1>1. IInv /\ [Next]_vars => [Queue!FifoNext]_(Queue!fifoVars)
  <2> SUFFICES ASSUME IInv, [Next]_vars
               PROVE  [Queue!FifoNext]_(Queue!fifoVars)
    OBVIOUS
  <2>1. CASE \E p \in Producers : Insert(p)
    BY <2>1, InsertFifo DEF Queue!FifoNext
  <2>2. CASE \E c \in Consumers : Extract(c)
    BY <2>2, ExtractFifo DEF Queue!FifoNext
  <2>3. CASE UNCHANGED vars
    BY <2>3, FifoSame DEF vars, Hd, Tl, TakenBy
  <2> QED
    BY <2>1, <2>2, <2>3 DEF Next
<1> QED
  BY <1>1, FifoStart, AlwaysInv, PTL DEF Spec, ImplementsFifo, Queue!FifoSpec
=============================================================================
