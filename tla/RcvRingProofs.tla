--------------------------- MODULE RcvRingProofs ----------------------------
(***************************************************************************)
(* What the ring and its users count: the eventfd of a ring, the semaphore *)
(* of the receive path, and the pointers of a full ring.  The theorems     *)
(* about RcvRing hold in both builds: the semaphore keeps a receiver away  *)
(* from the index that is not wrapped yet, which deceives a thread that    *)
(* polls the ring.                                                         *)
(***************************************************************************)
EXTENDS RcvRing, RingProofs, FiniteSetTheorems

\* Producers which moved head and have not written the eventfd.
Posting == {p \in Producers : ppc[p] \in {"wrap", "post"}}

\* Consumers which moved tail and have not read the eventfd.
Reading == {c \in Consumers : cpc[c] \in {"wrap", "read"}}

\* The cardinality of a set of at most one element.
LEMMA OneOrNone ==
  ASSUME NEW S, \A x, y \in S : x = y
  PROVE  Cardinality(S) = IF S = {} THEN 0 ELSE 1
<1>1. CASE S = {}
  BY <1>1, FS_EmptySet
<1>2. CASE S # {}
  <2>1. PICK x \in S : TRUE
    BY <1>2
  <2>2. S = {x}
    BY <2>1
  <2> QED
    BY <1>2, <2>2, FS_Singleton
<1> QED
  BY <1>1, <1>2

\* Few threads are between an index and the eventfd.
LEMMA Between ==
  ASSUME IInv
  PROVE  /\ Count \in 0 .. NElements - 1
         /\ Count = 0 <=> Tl = Hd
         /\ Cardinality(Posting) = IF Posting = {} THEN 0 ELSE 1
         /\ Cardinality(Reading) = IF Reading = {} THEN 0 ELSE 1
<1>1. \A p, q \in Posting : p = q
  BY Exclusion DEF IInv, Posting
<1>2. \A c, d \in Reading : c = d
  BY Exclusion DEF IInv, Reading, InGate
<1>3. Hd \in Slots /\ Tl \in Slots
  BY Positions DEF IInv
<1>4. Count \in 0 .. NElements - 1 /\ (Count = 0 <=> Tl = Hd)
  BY <1>3, DistFacts, CountIsDist
<1> QED
  BY <1>1, <1>2, <1>4, OneOrNone

-----------------------------------------------------------------------------
(* What each step of the ring does to the counts.                          *)

\* uta_ring_insert.
LEMMA InsertCounts ==
  ASSUME IInv, NEW p \in Producers, Insert(p) \/ InsertWrap(p)
  PROVE  /\ UNCHANGED <<Holders, Reading>>
         /\ \/ /\ InsertBump(p)
               /\ Count' = Count + 1 /\ Count < NElements - 1
               /\ Posting = {} /\ Posting' = {p} /\ pfd' = pfd
            \/ /\ InsertPost(p)
               /\ Count' = Count
               /\ Posting = {p} /\ Posting' = {}
               /\ pfd' = IF pfd < EventfdMax THEN pfd + 1 ELSE pfd
            \/ /\ ~InsertPost(p)
               /\ UNCHANGED <<Count, Posting, pfd>>
<1>0. ppc \in [Producers -> {"idle", "check", "store", "bump", "wrap", "post"}]
  BY DEF IInv, TypeOK
<1>1. \A q \in Producers : ppc[p] # "idle" /\ ppc[q] # "idle" => p = q
  BY Exclusion DEF IInv
<1>2. UNCHANGED <<tail, cpc>>
  BY DEF Insert, InsertEnter, InsertFull, InsertRoom, InsertStore, InsertBump, InsertWrap,
     InsertPost, consumerVars
<1>3. UNCHANGED <<Holders, Reading>>
  BY <1>2 DEF Holders, Reading
<1>4. Tl' = Tl
  BY <1>2 DEF Tl
<1>5. CASE InsertBump(p)
  <2>1. head \in Slots /\ Hd = head /\ Hd \in Slots /\ Tl \in Slots /\ Succ(Hd) # Tl
    BY <1>5, Positions DEF IInv, ProducerInv, InsertBump, PGoto
  <2>2. Hd' = Succ(Hd)
    BY <1>5, <2>1, SizeAssumption DEF InsertBump, Hd, Succ, Norm, Slots
  <2>3. Count' = Count + 1 /\ Count < NElements - 1
    BY <1>4, <2>1, <2>2, DistFacts, CountIsDist
  <2>4. \A q \in Producers :
          /\ ppc[q] \notin {"wrap", "post"}
          /\ ppc'[q] \in {"wrap", "post"} <=> q = p
    BY <1>0, <1>1, <1>5 DEF InsertBump, PGoto
  <2> QED
    BY <1>3, <1>5, <2>3, <2>4 DEF Posting, InsertBump
<1>6. CASE InsertPost(p)
  <2>1. Hd' = Hd
    BY <1>6 DEF InsertPost, Hd
  <2>2. \A q \in Producers :
          /\ ppc[q] \in {"wrap", "post"} <=> q = p
          /\ ppc'[q] \notin {"wrap", "post"}
    BY <1>0, <1>1, <1>6 DEF InsertPost, PGoto
  <2> QED
    BY <1>3, <1>4, <1>6, <2>1, <2>2, CountIsDist DEF Posting, InsertPost
<1>7. CASE \/ (\E m \in Msg : InsertEnter(p, m)) \/ InsertFull(p) \/ InsertRoom(p)
           \/ InsertStore(p) \/ InsertWrap(p)
  <2>1. head' = head \/ head' = Norm(head)
    BY <1>7 DEF InsertEnter, InsertFull, InsertRoom, InsertStore, InsertWrap
  <2>2. Norm(Norm(head)) = Norm(head)
    BY SizeAssumption DEF Norm, IInv, TypeOK
  <2>3. Hd' = Hd
    BY <2>1, <2>2, Zenon DEF Hd
  <2>4. \A q \in Producers : ppc'[q] \in {"wrap", "post"} <=> ppc[q] \in {"wrap", "post"}
    BY <1>0, <1>7 DEF InsertEnter, InsertFull, InsertRoom, InsertStore, InsertWrap, PGoto
  <2>5. pfd' = pfd /\ ~InsertPost(p)
    BY <1>7 DEF InsertEnter, InsertFull, InsertRoom, InsertStore, InsertWrap, InsertPost, PGoto
  <2> QED
    BY <1>3, <1>4, <2>3, <2>4, <2>5, CountIsDist DEF Posting
<1> QED
  BY <1>5, <1>6, <1>7 DEF Insert

\* uta_ring_extract.
LEMMA ExtractCounts ==
  ASSUME IInv, NEW c \in Consumers, Extract(c) \/ ExtractWrap(c)
  PROVE  /\ UNCHANGED Posting
         /\ \/ /\ ExtractBump(c)
               /\ Count' = Count - 1 /\ Count > 0
               /\ Reading = {} /\ Reading' = {c} /\ pfd' = pfd
               /\ c \in Holders /\ Holders' = Holders \ {c}
            \/ /\ ExtractRead(c)
               /\ Reading = {c} /\ Reading' = {}
               /\ pfd' = IF pfd > 0 THEN pfd - 1 ELSE 0
               /\ UNCHANGED <<Count, Holders>>
            \/ /\ ExtractEnter(c)
               /\ c \notin Holders /\ Holders' = Holders \cup {c}
               /\ UNCHANGED <<Count, Reading, pfd>>
            \/ /\ PeekEmpty(c) \/ ReadTryFail(c) \/ RecheckEmpty(c)
               /\ c \in Holders
               /\ UNCHANGED <<Count, Reading, pfd>>
            \/ /\ ~ExtractEnter(c) /\ ~ExtractBump(c)
               /\ UNCHANGED <<Count, Reading, pfd, Holders>>
<1>0. cpc \in [Consumers -> {"idle", "peek", "lock", "recheck", "bump", "wrap",
                             "read", "take", "clear"}]
  BY DEF IInv, TypeOK
<1>1. \A d \in Consumers : cpc[c] \in InGate /\ cpc[d] \in InGate => c = d
  BY Exclusion DEF IInv
<1>2. UNCHANGED <<head, ppc>>
  BY DEF Extract, ExtractEnter, PeekEmpty, PeekSome, ReadLock, ReadTryFail, RecheckEmpty,
     RecheckSome, ExtractBump, ExtractWrap, ExtractRead, ExtractTake, ExtractClear, producerVars
<1>3. UNCHANGED Posting
  BY <1>2 DEF Posting
<1>4. Hd' = Hd
  BY <1>2 DEF Hd
<1>5. CASE ExtractBump(c)
  <2>1. tail \in Slots /\ Tl = tail /\ Hd \in Slots /\ Tl \in Slots /\ Tl # Hd
    BY <1>5, Positions DEF IInv, ConsumerInv, ExtractBump, CGoto, InGate
  <2>2. Tl' = Succ(Tl)
    BY <1>5, <2>1, SizeAssumption DEF ExtractBump, Tl, Succ, Norm, Slots
  <2>3. Count' = Count - 1 /\ Count > 0
    BY <1>4, <2>1, <2>2, DistFacts, CountIsDist, SizeAssumption
  <2>4. \A d \in Consumers :
          /\ cpc[d] \notin {"wrap", "read"}
          /\ cpc'[d] \in {"wrap", "read"} <=> d = c
    BY <1>0, <1>1, <1>5 DEF ExtractBump, CGoto, InGate
  <2>5. cpc[c] = "bump" /\ \A d \in Consumers :
          cpc'[d] \in {"peek", "lock", "recheck", "bump"}
            <=> cpc[d] \in {"peek", "lock", "recheck", "bump"} /\ d # c
    BY <1>0, <1>5 DEF ExtractBump, CGoto
  <2>6. Reading = {} /\ Reading' = {c}
    BY <2>4 DEF Reading
  <2>7. c \in Holders /\ Holders' = Holders \ {c}
    BY <2>5 DEF Holders
  <2> QED
    BY <1>3, <1>5, <2>3, <2>6, <2>7 DEF ExtractBump
<1>6. CASE ~ExtractBump(c)
  <2>1. tail' = tail \/ tail' = Norm(tail)
    BY <1>6 DEF Extract, ExtractEnter, PeekEmpty, PeekSome, ReadLock, ReadTryFail,
       RecheckEmpty, RecheckSome, ExtractWrap, ExtractRead, ExtractTake, ExtractClear
  <2>2. Norm(Norm(tail)) = Norm(tail)
    BY SizeAssumption DEF Norm, IInv, TypeOK
  <2>3. Tl' = Tl
    BY <2>1, <2>2, Zenon DEF Tl
  <2>4. Count' = Count
    BY <1>4, <2>3, CountIsDist, Zenon
  <2>5. CASE ExtractRead(c)
    <3>1. \A d \in Consumers :
            /\ cpc[d] \in {"wrap", "read"} <=> d = c
            /\ cpc'[d] \notin {"wrap", "read"}
      BY <1>0, <1>1, <2>5 DEF ExtractRead, CGoto, InGate
    <3>2. \A d \in Consumers : cpc'[d] \in {"peek", "lock", "recheck", "bump"}
                                 <=> cpc[d] \in {"peek", "lock", "recheck", "bump"}
      BY <1>0, <2>5 DEF ExtractRead, CGoto
    <3>3. Reading = {c} /\ Reading' = {}
      BY <3>1 DEF Reading
    <3>4. Holders' = Holders
      BY <3>2 DEF Holders
    <3> QED
      BY <1>3, <2>4, <2>5, <3>3, <3>4 DEF ExtractRead
  <2>6. CASE ExtractEnter(c)
    <3>1. \A d \in Consumers : cpc'[d] \in {"wrap", "read"} <=> cpc[d] \in {"wrap", "read"}
      BY <1>0, <2>6 DEF ExtractEnter, CGoto
    <3>2. cpc[c] = "idle" /\ \A d \in Consumers :
            cpc'[d] \in {"peek", "lock", "recheck", "bump"}
              <=> cpc[d] \in {"peek", "lock", "recheck", "bump"} \/ d = c
      BY <1>0, <2>6 DEF ExtractEnter, CGoto
    <3>3. Reading' = Reading
      BY <3>1 DEF Reading
    <3>4. c \notin Holders /\ Holders' = Holders \cup {c}
      BY <3>2 DEF Holders
    <3> QED
      BY <1>3, <2>4, <2>6, <3>3, <3>4 DEF ExtractEnter
  <2>7. CASE PeekEmpty(c) \/ ReadTryFail(c) \/ RecheckEmpty(c)
    <3>1. \A d \in Consumers : cpc'[d] \in {"wrap", "read"} <=> cpc[d] \in {"wrap", "read"}
      BY <1>0, <2>7 DEF PeekEmpty, ReadTryFail, RecheckEmpty, CGoto
    <3>2. cpc[c] \in {"peek", "lock", "recheck"} /\ pfd' = pfd
      BY <2>7 DEF PeekEmpty, ReadTryFail, RecheckEmpty, CGoto
    <3>3. Reading' = Reading /\ c \in Holders
      BY <3>1, <3>2 DEF Reading, Holders
    <3> QED
      BY <1>3, <2>4, <2>7, <3>2, <3>3
  <2>8. CASE \/ PeekSome(c) \/ ReadLock(c) \/ RecheckSome(c) \/ ExtractWrap(c)
             \/ ExtractTake(c) \/ ExtractClear(c)
    <3>1. \A d \in Consumers : cpc'[d] \in {"wrap", "read"} <=> cpc[d] \in {"wrap", "read"}
      BY <1>0, <2>8 DEF PeekSome, ReadLock, RecheckSome, ExtractWrap, ExtractTake,
         ExtractClear, CGoto
    <3>2. \A d \in Consumers : cpc'[d] \in {"peek", "lock", "recheck", "bump"}
                                 <=> cpc[d] \in {"peek", "lock", "recheck", "bump"}
      BY <1>0, <2>8 DEF PeekSome, ReadLock, RecheckSome, ExtractWrap, ExtractTake,
         ExtractClear, CGoto
    <3>3. Reading' = Reading /\ Holders' = Holders
      BY <3>1, <3>2 DEF Reading, Holders
    <3>4. pfd' = pfd /\ ~ExtractEnter(c)
      BY <2>8 DEF PeekSome, ReadLock, RecheckSome, ExtractWrap, ExtractTake, ExtractClear,
         ExtractEnter, CGoto
    <3> QED
      BY <1>3, <1>6, <2>4, <3>3, <3>4
  <2> QED
    BY <1>6, <2>5, <2>6, <2>7, <2>8 DEF Extract
<1> QED
  BY <1>5, <1>6

-----------------------------------------------------------------------------
(* The eventfd of a ring.                                                  *)

\* PfdCovers in terms of these sets, before and after a step.
LEMMA PfdDef ==
  /\ PfdCovers <=> pfd + Cardinality(Posting) >= Count + Cardinality(Reading)
  /\ PfdCovers' <=> pfd' + Cardinality(Posting') >= Count' + Cardinality(Reading')
  BY DEF PfdCovers, Posting, Reading

\* A write of the eventfd is lost only at its limit, where the value covers
\* a full ring and an extract.
LEMMA PfdInsert ==
  ASSUME IInv, PfdCovers, NEW p \in Producers, Insert(p) \/ InsertWrap(p)
  PROVE  PfdCovers'
<1> DEFINE np == Cardinality(Posting)
           nr == Cardinality(Reading)
<1>1. /\ Count \in 0 .. NElements - 1 /\ pfd \in 0 .. EventfdMax
      /\ np \in {0, 1} /\ nr \in {0, 1} /\ (Posting = {} => np = 0) /\ (Posting = {p} => np = 1)
  <2>1. pfd \in 0 .. EventfdMax
    BY DEF IInv, TypeOK
  <2> QED
    BY <2>1, Between
<1>2. pfd + np >= Count + nr
  BY PfdDef
<1>3. Cardinality({}) = 0 /\ Cardinality({p}) = 1
  BY FS_EmptySet, FS_Singleton
<1>4. Reading' = Reading
  BY InsertCounts
<1> HIDE DEF np, nr
<1>5. pfd' + Cardinality(Posting') >= Count' + nr
  <2>1. CASE /\ Count' = Count + 1 /\ Posting = {} /\ Posting' = {p} /\ pfd' = pfd
    BY <1>1, <1>2, <1>3, <2>1, SizeAssumption, EventfdAssumption
  <2>2. CASE /\ Count' = Count /\ Posting = {p} /\ Posting' = {}
             /\ pfd' = IF pfd < EventfdMax THEN pfd + 1 ELSE pfd
    BY <1>1, <1>2, <1>3, <2>2, SizeAssumption, EventfdAssumption
  <2>3. CASE UNCHANGED <<Count, Posting, pfd>>
    BY <1>2, <2>3 DEF np
  <2> QED
    BY <2>1, <2>2, <2>3, InsertCounts
<1> QED
  BY <1>4, <1>5, PfdDef DEF nr

\* A read of the eventfd that finds 0 leaves 0, which still covers the rest.
LEMMA PfdExtract ==
  ASSUME IInv, PfdCovers, NEW c \in Consumers, Extract(c) \/ ExtractWrap(c)
  PROVE  PfdCovers'
<1> DEFINE np == Cardinality(Posting)
           nr == Cardinality(Reading)
<1>1. /\ Count \in 0 .. NElements - 1 /\ pfd \in 0 .. EventfdMax
      /\ np \in {0, 1} /\ nr \in {0, 1} /\ (Reading = {} => nr = 0) /\ (Reading = {c} => nr = 1)
  <2>1. pfd \in 0 .. EventfdMax
    BY DEF IInv, TypeOK
  <2> QED
    BY <2>1, Between
<1>2. pfd + np >= Count + nr
  BY PfdDef
<1>3. Cardinality({}) = 0 /\ Cardinality({c}) = 1
  BY FS_EmptySet, FS_Singleton
<1>4. Posting' = Posting
  BY ExtractCounts
<1> HIDE DEF np, nr
<1>5. pfd' + np >= Count' + Cardinality(Reading')
  <2>1. CASE /\ Count' = Count - 1 /\ Reading = {} /\ Reading' = {c} /\ pfd' = pfd
    BY <1>1, <1>2, <1>3, <2>1, SizeAssumption, EventfdAssumption
  <2>2. CASE /\ Count' = Count /\ Reading = {c} /\ Reading' = {}
             /\ pfd' = IF pfd > 0 THEN pfd - 1 ELSE 0
    BY <1>1, <1>2, <1>3, <2>2, SizeAssumption, EventfdAssumption
  <2>3. CASE UNCHANGED <<Count, Reading, pfd>>
    BY <1>2, <2>3 DEF nr
  <2> QED
    BY <2>1, <2>2, <2>3, ExtractCounts
<1> QED
  BY <1>4, <1>5, PfdDef DEF np

\* A new ring has an empty eventfd and nothing queued.
LEMMA PfdStart == Init => PfdCovers
<1> SUFFICES ASSUME Init PROVE PfdCovers
  OBVIOUS
<1>1. Posting = {} /\ Reading = {} /\ Count = 0 /\ pfd = 0
  BY SizeAssumption DEF Init, Posting, Reading, Count, Norm
<1> QED
  BY <1>1, PfdDef, FS_EmptySet

\* The eventfd covers every queued pointer and every extract in progress:
\* the descriptor of rmr_get_rcvfd polls readable while there is a message.
THEOREM PfdCoversHolds ==
  ASSUME ~SplitIndex
  PROVE  Spec => []PfdCovers
<1>2. IInv /\ PfdCovers /\ [Next]_vars => PfdCovers'
  <2> SUFFICES ASSUME IInv, PfdCovers, [Next]_vars PROVE PfdCovers'
    OBVIOUS
  <2>1. CASE Next
    BY <2>1, PfdInsert, PfdExtract DEF Next
  <2>2. CASE UNCHANGED vars
    BY <2>2 DEF vars, PfdCovers, Count
  <2> QED
    BY <2>1, <2>2
<1> QED
  BY <1>2, PfdStart, AlwaysInv, PTL DEF Spec

-----------------------------------------------------------------------------
(* The full ring.                                                          *)

\* uta_ring_insert refuses a pointer only when all slots but one hold one.
THEOREM RefusedOnlyWhenFullHolds ==
  ASSUME ~SplitIndex
  PROVE  Spec => RefusedOnlyWhenFull
<1> DEFINE Used == {i \in Slots : data[i] # NIL}
<1>1. ASSUME IInv, NEW p \in Producers, InsertFull(p)
      PROVE  Cardinality(Used) >= NElements - 1
  <2>1. head \in Slots /\ tail \in Slots /\ Hd = head /\ Tl = tail
    <3>1. head \in Slots /\ tail \in Slots
      BY <1>1, SizeAssumption DEF IInv, TypeOK, IndexInv, Slots
    <3> QED
      BY <3>1, SizeAssumption DEF Hd, Tl, Norm, Slots
  <2>2. Succ(head) = tail
    BY <1>1, <2>1, FullTest DEF IInv, InsertFull
  <2>3. \A i \in Slots \ {head} : InRing(i)
    BY <2>1, <2>2, SizeAssumption DEF InRing, Norm, Succ, Slots
  <2>4. Slots \ {head} \subseteq Used
    BY <1>1, <2>3 DEF IInv, LiveSlots
  <2>5. IsFiniteSet(Slots) /\ Cardinality(Slots) = NElements
    BY FS_Interval, SizeAssumption DEF Slots
  <2>6. Cardinality(Slots \ {head}) = NElements - 1
    BY <2>1, <2>5, FS_RemoveElement
  <2>7. IsFiniteSet(Used)
    BY <2>5, FS_Subset
  <2>8. Cardinality(Slots \ {head}) <= Cardinality(Used)
    BY <2>4, <2>7, FS_Subset
  <2>9. Cardinality(Used) \in Nat
    BY <2>7, FS_CardinalityType
  <2> QED
    BY <2>6, <2>8, <2>9, SizeAssumption
<1>2. IInv => [\A p \in Producers : InsertFull(p) => Cardinality(Used) >= NElements - 1]_vars
  BY <1>1
<1> QED
  BY <1>2, AlwaysInv, PTL DEF RefusedOnlyWhenFull

-----------------------------------------------------------------------------
(* The semaphore of the receive path, for receivers which all wait for it. *)

\* The types of the receive path's own state; a mt_receive thread that has a
\* count to post has left uta_ring_insert.
PostInv ==
  /\ sem \in Nat
  /\ mpc \subseteq Producers
  /\ \A p \in mpc : ppc[p] = "idle"

\* The inductive invariant: the ring's, and the count of the semaphore.
RcvInv == IInv /\ PostInv /\ SemCounts

\* SemCounts in terms of these sets, before and after a step.
LEMMA SemDef ==
  /\ SemCounts <=> sem + Cardinality(mpc) + Cardinality(Posting) = Count - Cardinality(Holders)
  /\ SemCounts' <=> sem' + Cardinality(mpc') + Cardinality(Posting')
                      = Count' - Cardinality(Holders')
  BY DEF SemCounts, Posting

\* The numbers SemCounts adds up, and how the sets' changes change them.
LEMMA SemNumbers ==
  ASSUME RcvInv
  PROVE  /\ sem \in Nat /\ Count \in Nat
         /\ Cardinality(mpc) \in Nat /\ Cardinality(Posting) \in Nat
         /\ Cardinality(Holders) \in Nat
         /\ Cardinality({}) = 0 /\ \A x : Cardinality({x}) = 1
         /\ \A p \in mpc : Cardinality(mpc \ {p}) = Cardinality(mpc) - 1
         /\ \A p : p \notin mpc => Cardinality(mpc \cup {p}) = Cardinality(mpc) + 1
         /\ \A c \in Holders : /\ Cardinality(Holders \ {c}) = Cardinality(Holders) - 1
                               /\ Cardinality(Holders) > 0
         /\ \A c : c \notin Holders => Cardinality(Holders \cup {c}) = Cardinality(Holders) + 1
<1>1. IsFiniteSet(mpc)
  BY ThreadsAssumption, FS_Subset DEF RcvInv, PostInv
<1>2. IsFiniteSet(Holders)
  BY ThreadsAssumption, FS_Subset DEF Holders
<1>3. sem \in Nat /\ Count \in Nat /\ Cardinality(Posting) \in Nat
  BY Between, SizeAssumption DEF RcvInv, PostInv
<1>4. Cardinality(mpc) \in Nat /\ Cardinality(Holders) \in Nat
  BY <1>1, <1>2, FS_CardinalityType
<1>5. Cardinality({}) = 0 /\ \A x : Cardinality({x}) = 1
  BY FS_EmptySet, FS_Singleton
<1>6. /\ \A p \in mpc : Cardinality(mpc \ {p}) = Cardinality(mpc) - 1
      /\ \A p : p \notin mpc => Cardinality(mpc \cup {p}) = Cardinality(mpc) + 1
  BY <1>1, FS_RemoveElement, FS_AddElement
<1>7. /\ \A c \in Holders : Cardinality(Holders \ {c}) = Cardinality(Holders) - 1
      /\ \A c : c \notin Holders => Cardinality(Holders \cup {c}) = Cardinality(Holders) + 1
  BY <1>2, FS_RemoveElement, FS_AddElement
<1>8. \A c \in Holders : Cardinality(Holders) > 0
  <2>1. ASSUME NEW c \in Holders PROVE Cardinality(Holders) # 0
    BY <1>2, FS_EmptySet
  <2> QED
    BY <1>4, <2>1
<1> QED
  BY <1>3, <1>4, <1>5, <1>6, <1>7, <1>8, Zenon

\* A receiver which holds a count finds the ring non-empty, in both builds:
\* the positions differ, whatever has not been wrapped yet.
LEMMA HolderFinds ==
  ASSUME RcvInv, NEW c \in Holders
  PROVE  Tl # Hd /\ tail # head
<1> DEFINE nm == Cardinality(mpc)
           np == Cardinality(Posting)
           nh == Cardinality(Holders)
<1>a. sem \in Nat /\ Count \in Nat /\ nm \in Nat /\ np \in Nat /\ nh \in Nat /\ nh > 0
  BY SemNumbers, Zenon
<1>b. sem + nm + np = Count - nh
  BY SemDef, Zenon DEF RcvInv
<1>1. Count > 0
  <2> HIDE DEF nm, np, nh
  <2> QED
    BY <1>a, <1>b
<1>2. Tl # Hd
  BY <1>1, Between DEF RcvInv
<1> QED
  BY <1>2 DEF Tl, Hd

\* The receive path starts in a state of the invariant.
LEMMA RcvInitInv == RcvInit => RcvInv
<1> SUFFICES ASSUME RcvInit PROVE RcvInv
  OBVIOUS
<1>1. IInv
  BY InitInv DEF RcvInit
<1>2. PostInv
  BY DEF RcvInit, PostInv
<1>3. Posting = {} /\ Holders = {} /\ Count = 0 /\ sem = 0 /\ mpc = {}
  BY SizeAssumption DEF RcvInit, Init, Posting, Holders, Count, Norm
<1>4. SemCounts
  BY <1>3, SemDef, FS_EmptySet
<1> QED
  BY <1>1, <1>2, <1>4 DEF RcvInv

\* A step outside of the ring.
LEMMA RingStutter ==
  ASSUME IInv, UNCHANGED vars
  PROVE  IInv' /\ UNCHANGED <<Count, Posting, Holders>>
<1>0. UNCHANGED <<data, head, tail, pfd, rgate, wgate, ppc, new, cpc, ti, res>>
  BY DEF vars
<1>1. UNCHANGED <<Count, Posting, Holders, Hd, Tl>>
  BY <1>0 DEF Count, Posting, Holders, Hd, Tl
<1>2. TypeOK' /\ IndexInv' /\ GateInv'
  BY <1>0 DEF IInv, TypeOK, IndexInv, GateInv
<1>3. ProducerInv' /\ ConsumerInv'
  BY <1>0, <1>1 DEF IInv, ProducerInv, ConsumerInv
<1>4. LiveSlots' /\ NothingStranded'
  BY <1>0 DEF IInv, LiveSlots, NothingStranded, InRing, Emptying
<1> QED
  BY <1>1, <1>2, <1>3, <1>4 DEF IInv

\* queue_normal: a message in the ring and its count to post are added
\* together, and the post turns the one into a count of the semaphore.
LEMMA QueueingInv ==
  ASSUME RcvInv, NEW p \in Producers, Queueing(p)
  PROVE  RcvInv'
<1> DEFINE nm == Cardinality(mpc)
           np == Cardinality(Posting)
           nh == Cardinality(Holders)
<1>0. IInv /\ PostInv /\ sem + nm + np = Count - nh
  BY SemDef DEF RcvInv
<1>n. /\ sem \in Nat /\ Count \in Nat /\ nm \in Nat /\ np \in Nat /\ nh \in Nat
      /\ Cardinality({}) = 0 /\ Cardinality({p}) = 1
      /\ p \in mpc => Cardinality(mpc \ {p}) = nm - 1
      /\ p \notin mpc => Cardinality(mpc \cup {p}) = nm + 1
  BY SemNumbers, Zenon
<1>t. ppc \in [Producers -> {"idle", "check", "store", "bump", "wrap", "post"}]
  BY <1>0 DEF IInv, TypeOK
<1> HIDE DEF nm, nh
<1>1. CASE QueueEnter(p) \/ QueueStep(p)
  <2>1. Insert(p) \/ InsertWrap(p)
    BY <1>1 DEF QueueEnter, QueueStep, Insert
  <2>2. ~InsertPost(p) /\ p \notin mpc /\ UNCHANGED <<sem, mpc>>
    <3>1. CASE QueueEnter(p)
      BY <3>1 DEF QueueEnter, InsertEnter, InsertPost, PGoto, rcvVars
    <3>2. CASE QueueStep(p)
      <4>1. ppc[p] \notin {"idle", "post"}
        BY <3>2 DEF QueueStep, InsertFull, InsertRoom, InsertStore, InsertBump, InsertWrap, PGoto
      <4> QED
        BY <1>0, <3>2, <4>1 DEF PostInv, QueueStep, InsertPost, PGoto, rcvVars
    <3> QED
      BY <1>1, <3>1, <3>2
  <2>3. \A q \in Producers : q # p => ppc'[q] = ppc[q]
    BY <1>t, <2>1 DEF Insert, InsertEnter, InsertFull, InsertRoom, InsertStore, InsertBump,
       InsertWrap, InsertPost, PGoto
  <2>4. PostInv'
    BY <1>0, <2>2, <2>3 DEF PostInv
  <2>5. sem + nm + Cardinality(Posting') = Count' - nh
    <3>1. CASE Count' = Count + 1 /\ Posting = {} /\ Posting' = {p}
      BY <1>0, <1>n, <3>1
    <3>2. CASE UNCHANGED <<Count, Posting>>
      BY <1>0, <3>2
    <3> QED
      BY <1>0, <2>1, <2>2, <3>1, <3>2, InsertCounts
  <2>6. Holders' = Holders
    BY <1>0, <2>1, InsertCounts
  <2>7. SemCounts'
    BY <2>2, <2>5, <2>6, SemDef DEF nm, nh
  <2> QED
    BY <1>0, <2>1, <2>4, <2>7, InsertInv DEF RcvInv
<1>2. CASE QueueInserted(p)
  <2>1. InsertPost(p) /\ mpc' = mpc \cup {p} /\ sem' = sem
    BY <1>2 DEF QueueInserted
  <2>2. ppc[p] = "post" /\ ppc' = [ppc EXCEPT ![p] = "idle"]
    BY <2>1 DEF InsertPost, PGoto
  <2>3. p \notin mpc
    BY <1>0, <2>2 DEF PostInv
  <2>4. PostInv'
    BY <1>0, <1>t, <2>1, <2>2 DEF PostInv
  <2>5. Insert(p)
    BY <2>1 DEF Insert
  <2>6. Count' = Count /\ Posting = {p} /\ Posting' = {} /\ Holders' = Holders
    <3>1. ~InsertBump(p)
      BY <2>2 DEF InsertBump, PGoto
    <3> QED
      BY <1>0, <2>1, <2>5, <3>1, InsertCounts
  <2>7. sem' + Cardinality(mpc') + Cardinality(Posting') = Count' - nh
    BY <1>0, <1>n, <2>1, <2>3, <2>6
  <2>8. SemCounts'
    BY <2>6, <2>7, SemDef DEF nh
  <2> QED
    BY <1>0, <2>4, <2>5, <2>8, InsertInv DEF RcvInv
<1>3. CASE QueuePost(p)
  <2>1. p \in mpc /\ mpc' = mpc \ {p} /\ sem' = sem + 1 /\ UNCHANGED vars
    BY <1>3 DEF QueuePost
  <2>2. IInv' /\ UNCHANGED <<Count, Posting, Holders>>
    BY <1>0, <2>1, RingStutter
  <2>3. PostInv'
    BY <1>0, <1>n, <2>1 DEF PostInv, vars
  <2>4. sem' + Cardinality(mpc') + np = Count - nh
    BY <1>0, <1>n, <2>1
  <2>5. SemCounts'
    BY <2>2, <2>4, SemDef DEF np, nh
  <2> QED
    BY <2>2, <2>3, <2>5 DEF RcvInv
<1> QED
  BY <1>1, <1>2, <1>3 DEF Queueing

\* The steps of uta_ring_extract that a waiting receiver takes.
LEMMA ExtractSem ==
  ASSUME RcvInv, NEW c \in Consumers, PostInv',
         \/ /\ ExtractEnter(c) /\ sem > 0
            /\ sem' = sem - 1 /\ mpc' = mpc
         \/ /\ \/ PeekSome(c) \/ ReadLock(c) \/ RecheckSome(c) \/ ExtractBump(c)
               \/ ExtractWrap(c) \/ ExtractRead(c) \/ ExtractTake(c) \/ ExtractClear(c)
            /\ UNCHANGED <<sem, mpc>>
  PROVE  RcvInv'
<1> DEFINE nm == Cardinality(mpc)
           np == Cardinality(Posting)
           nh == Cardinality(Holders)
<1>0. IInv /\ sem + nm + np = Count - nh
  BY SemDef, Zenon DEF RcvInv
<1>n. /\ sem \in Nat /\ Count \in Nat /\ nm \in Nat /\ np \in Nat /\ nh \in Nat
      /\ c \in Holders => Cardinality(Holders \ {c}) = nh - 1
      /\ c \notin Holders => Cardinality(Holders \cup {c}) = nh + 1
  BY SemNumbers, Zenon
<1>1. Extract(c) \/ ExtractWrap(c)
  BY DEF Extract
<1>2. PeekSome(c) \/ RecheckSome(c) => Tl # Hd
  <2>1. PeekSome(c) \/ RecheckSome(c) => c \in Holders
    BY DEF PeekSome, RecheckSome, CGoto, Holders
  <2> QED
    BY <2>1, HolderFinds
<1>3. IInv'
  BY <1>0, <1>1, <1>2, ExtractInv
<1>4. UNCHANGED <<mpc, Posting>>
  BY <1>0, <1>1, ExtractCounts
<1>5. ~(PeekEmpty(c) \/ ReadTryFail(c) \/ RecheckEmpty(c))
  <2>1. ~PeekEmpty(c)
    BY DEF ExtractEnter, PeekSome, ReadLock, RecheckSome, ExtractBump, ExtractWrap,
       ExtractRead, ExtractTake, ExtractClear, PeekEmpty, CGoto
  <2>2. ~ReadTryFail(c)
    BY <1>0 DEF IInv, TypeOK, ExtractEnter, PeekSome, ReadLock, RecheckSome, ExtractBump,
       ExtractWrap, ExtractRead, ExtractTake, ExtractClear, ReadTryFail, CGoto
  <2>3. ~RecheckEmpty(c)
    BY DEF ExtractEnter, PeekSome, ReadLock, RecheckSome, ExtractBump, ExtractWrap,
       ExtractRead, ExtractTake, ExtractClear, RecheckEmpty, CGoto
  <2> QED
    BY <2>1, <2>2, <2>3
<1>6. sem' + nm + np = Count' - Cardinality(Holders')
  <2> HIDE DEF nm, np
  <2>1. CASE ExtractEnter(c)
    <3>1. sem' = sem - 1
      BY <2>1 DEF ExtractEnter, PeekSome, ReadLock, RecheckSome, ExtractBump, ExtractWrap,
         ExtractRead, ExtractTake, ExtractClear, CGoto
    <3>2. Count' = Count /\ c \notin Holders /\ Holders' = Holders \cup {c}
      <4>1. cpc[c] = "idle" /\ c \notin Holders
        BY <2>1 DEF ExtractEnter, CGoto, Holders
      <4>2. ~ExtractBump(c) /\ ~ExtractRead(c)
        BY <4>1 DEF ExtractBump, ExtractRead, CGoto
      <4> QED
        BY <1>0, <1>1, <1>5, <2>1, <4>1, <4>2, ExtractCounts
    <3> QED
      BY <1>0, <1>n, <3>1, <3>2
  <2>2. CASE ExtractBump(c)
    <3>1. cpc[c] = "bump"
      BY <2>2 DEF ExtractBump, CGoto
    <3>2. sem' = sem
      BY <3>1 DEF ExtractEnter, CGoto
    <3>3. Count' = Count - 1 /\ c \in Holders /\ Holders' = Holders \ {c}
      <4>1. c \in Holders /\ ~ExtractEnter(c) /\ ~ExtractRead(c)
        BY <3>1 DEF Holders, ExtractEnter, ExtractRead, CGoto
      <4> QED
        BY <1>0, <1>1, <1>5, <2>2, <4>1, ExtractCounts
    <3> QED
      BY <1>0, <1>n, <3>2, <3>3
  <2>3. CASE ~ExtractEnter(c) /\ ~ExtractBump(c)
    <3>1. sem' = sem
      BY <2>3
    <3>2. Count' = Count /\ Holders' = Holders
      BY <1>0, <1>1, <1>5, <2>3, ExtractCounts
    <3> QED
      BY <1>0, <3>1, <3>2
  <2> QED
    BY <2>1, <2>2, <2>3
<1>7. SemCounts'
  BY <1>4, <1>6, SemDef
<1> QED
  BY <1>3, <1>7 DEF RcvInv

\* A receiver with a count never gets nil from uta_ring_extract.
LEMMA NeverNil ==
  ASSUME RcvInv, NEW c \in Consumers
  PROVE  ~GotNil(c)
<1>1. ~PeekEmpty(c) /\ ~RecheckEmpty(c)
  <2>1. PeekEmpty(c) \/ RecheckEmpty(c) => c \in Holders /\ tail = head
    BY DEF PeekEmpty, RecheckEmpty, CGoto, Holders
  <2> QED
    BY <2>1, HolderFinds
<1>2. ~(ExtractClear(c) /\ res[c] = NIL)
  BY DEF RcvInv, IInv, ConsumerInv, ExtractClear, CGoto
<1> QED
  BY <1>1, <1>2 DEF GotNil

\* rmr_mt_rcv, for a receive that waits.
LEMMA ReceivingInv ==
  ASSUME RcvInv, NEW c \in Consumers, Receiving(c)
  PROVE  RcvInv'
<1>0. PostInv
  BY DEF RcvInv
<1>1. CASE SemTake(c)
  <2>1. ExtractEnter(c) /\ sem > 0 /\ sem' = sem - 1 /\ mpc' = mpc
    BY <1>1 DEF SemTake
  <2>2. PostInv'
    BY <1>0, <2>1 DEF PostInv, ExtractEnter, producerVars
  <2> QED
    BY <2>1, <2>2, ExtractSem
<1>2. CASE RcvStep(c) \/ RcvReturn(c)
  <2>1. /\ \/ PeekSome(c) \/ ReadLock(c) \/ RecheckSome(c) \/ ExtractBump(c)
           \/ ExtractWrap(c) \/ ExtractRead(c) \/ ExtractTake(c) \/ ExtractClear(c)
        /\ UNCHANGED <<sem, mpc>>
    BY <1>2, NeverNil DEF RcvStep, RcvReturn, rcvVars
  <2>2. ppc' = ppc
    BY <2>1 DEF PeekSome, ReadLock, RecheckSome, ExtractBump, ExtractWrap, ExtractRead,
       ExtractTake, ExtractClear, producerVars
  <2>3. PostInv'
    BY <1>0, <2>1, <2>2 DEF PostInv
  <2> QED
    BY <2>1, <2>3, ExtractSem
<1> QED
  BY <1>1, <1>2 DEF Receiving

\* Every step of the receive path preserves the invariant.
LEMMA RcvStepInv == RcvInv /\ [RcvNext]_allVars => RcvInv'
<1> SUFFICES ASSUME RcvInv, [RcvNext]_allVars PROVE RcvInv'
  OBVIOUS
<1>1. CASE \E p \in Producers : Queueing(p)
  BY <1>1, QueueingInv
<1>2. CASE \E c \in Consumers : Receiving(c)
  BY <1>2, ReceivingInv
<1>3. CASE UNCHANGED <<vars, sem, mpc>>
  <2>1. IInv' /\ UNCHANGED <<Count, Posting, Holders>>
    BY <1>3, RingStutter DEF RcvInv
  <2>2. PostInv'
    BY <1>3 DEF RcvInv, PostInv, vars, producerVars
  <2>3. SemCounts'
    BY <1>3, <2>1, SemDef DEF RcvInv
  <2> QED
    BY <2>1, <2>2, <2>3 DEF RcvInv
<1> QED
  BY <1>1, <1>2, <1>3 DEF RcvNext, Calling, RcvWait, SemTimeout, allVars, rcvVars

\* The invariant holds in every state of the receive path.
LEMMA RcvAlways == RcvSpec => []RcvInv
  BY RcvInitInv, RcvStepInv, PTL DEF RcvSpec

\* A step of the receive path is a step of its ring, in either build.
LEMMA RcvIsRing ==
  ASSUME [RcvNext]_allVars
  PROVE  \/ \E p \in Producers : Insert(p) \/ InsertWrap(p)
         \/ \E c \in Consumers : Extract(c) \/ ExtractWrap(c)
         \/ UNCHANGED vars
<1>1. ASSUME NEW p \in Producers, Queueing(p)
      PROVE  Insert(p) \/ InsertWrap(p) \/ UNCHANGED vars
  BY <1>1 DEF Queueing, QueueEnter, QueueStep, QueueInserted, QueuePost, Insert
<1>2. ASSUME NEW c \in Consumers, Receiving(c)
      PROVE  Extract(c) \/ ExtractWrap(c)
  BY <1>2 DEF Receiving, SemTake, RcvStep, RcvReturn, GotNil, Extract
<1>3. ASSUME NEW c \in Consumers, Calling(c) \/ SemTimeout(c)
      PROVE  UNCHANGED vars
  BY <1>3 DEF Calling, RcvWait, SemTimeout
<1>4. UNCHANGED allVars => UNCHANGED vars
  BY DEF allVars
<1> QED
  BY <1>1, <1>2, <1>3, <1>4 DEF RcvNext

-----------------------------------------------------------------------------
(* The theorems about the receive path.                                    *)

\* SemCounts: the count of the chute 0 semaphore and the counts about to be
\* posted are always the queued messages nobody is about to take, however
\* many threads call rmr_rcv_msg and rmr_torcv_msg, and in both builds of
\* the index update.
THEOREM SemCountsHolds == RcvSpec => []SemCounts
  BY RcvAlways, PTL DEF RcvInv

\* WaitGetsMessage: a receive that took a count from the semaphore always
\* gets a message from uta_ring_extract, although the indexes are read
\* outside of the ring's lock.
THEOREM WaitGetsMessageHolds == RcvSpec => WaitGetsMessage
<1>1. RcvInv => [\A c \in Consumers : GotNil(c) => mode[c] = "poll"]_allVars
  BY NeverNil
<1> QED
  BY <1>1, RcvAlways, PTL DEF WaitGetsMessage

\* NoOverwrite for the receive path: no insert stores a message in a slot an
\* extract is still emptying, even when the index is stored before it is
\* wrapped.
THEOREM RcvNoOverwrite == RcvSpec => []NoOverwrite
  BY RcvAlways, NoOverwriteInv, PTL DEF RcvInv

\* PfdCovers for the receive path: the eventfd of mring covers the queued
\* messages, in both builds.
THEOREM RcvPfdCovers == RcvSpec => []PfdCovers
<1>1. RcvInit => PfdCovers
  <2>1. RcvInit => Init
    BY DEF RcvInit
  <2> QED
    BY <2>1, PfdStart
<1>2. RcvInv /\ PfdCovers /\ [RcvNext]_allVars => PfdCovers'
  <2> SUFFICES ASSUME IInv, PfdCovers, [RcvNext]_allVars PROVE PfdCovers'
    BY DEF RcvInv
  <2>1. CASE UNCHANGED vars
    BY <2>1 DEF vars, PfdCovers, Count
  <2> QED
    BY <2>1, RcvIsRing, PfdInsert, PfdExtract
<1> QED
  BY <1>1, <1>2, RcvAlways, PTL DEF RcvSpec

\* ImplementsFifo for the receive path: mring hands every message to one
\* receiver, in the order of queueing, in both builds of the index update.
THEOREM RcvImplementsFifo == RcvSpec => ImplementsFifo
<1>1. RcvInv /\ [RcvNext]_allVars => [Queue!FifoNext]_(Queue!fifoVars)
  <2> SUFFICES ASSUME IInv, [RcvNext]_allVars
               PROVE  [Queue!FifoNext]_(Queue!fifoVars)
    BY DEF RcvInv
  <2>1. CASE \E p \in Producers : Insert(p) \/ InsertWrap(p)
    BY <2>1, InsertFifo DEF Queue!FifoNext
  <2>2. CASE \E c \in Consumers : Extract(c) \/ ExtractWrap(c)
    BY <2>2, ExtractFifo DEF Queue!FifoNext
  <2>3. CASE UNCHANGED vars
    BY <2>3, FifoSame DEF vars, Hd, Tl, TakenBy
  <2> QED
    BY <2>1, <2>2, <2>3, RcvIsRing
<1>2. RcvInit => Queue!FifoInit
  BY FifoStart DEF RcvInit
<1> QED
  BY <1>1, <1>2, RcvAlways, PTL DEF RcvSpec, ImplementsFifo, Queue!FifoSpec
=============================================================================
