-------------------------------- MODULE Ring --------------------------------
(***************************************************************************)
(* The pointer ring of common/src/ring_static.c, at the granularity of its *)
(* shared loads and stores: uta_ring_insert by the producers and           *)
(* uta_ring_extract by the consumers, with the optional write gate (wgate) *)
(* and read gate (rgate), and the eventfd counter (pfd) that makes the     *)
(* ring pollable.                                                          *)
(*                                                                         *)
(* Loads and stores of one thread are seen by the others in program order; *)
(* one test reads head and tail at once.  The increment of an index and    *)
(* its wrap race with the tests of the other side: the default build (-g,  *)
(* no -O) stores twice, and the value NElements is visible in between; an  *)
(* optimised one (OPT_LEVEL) stores the wrapped value once.  SplitIndex    *)
(* chooses the build.                                                      *)
(***************************************************************************)
EXTENDS Naturals, Sequences, FiniteSets

CONSTANTS
  NElements,  \* r->nelements; the ring is full with NElements-1 pointers
  Producers,  \* threads which call uta_ring_insert
  Consumers,  \* threads which call uta_ring_extract
  Msg,        \* pointers
  NIL,        \* nil pointer, and "no thread" for the gates
  EventfdMax, \* largest value an eventfd counter takes
  RGate,      \* "none", "block" (RING_RLOCK) or "try" (RING_FRLOCK)
  WGate,      \* TRUE when the ring was configured with RING_WLOCK
  SplitIndex  \* TRUE when the build stores an index before wrapping it

ASSUME SizeAssumption == NElements \in Nat /\ NElements >= 2

ASSUME EventfdAssumption == EventfdMax \in Nat /\ EventfdMax >= NElements

ASSUME NilAssumption == NIL \notin Msg \cup Producers \cup Consumers

\* The users of a ring configure the gates they need: without a gate there
\* is a single thread on that side.
ASSUME GateAssumption ==
  /\ RGate \in {"none", "block", "try"}
  /\ WGate \in BOOLEAN
  /\ SplitIndex \in BOOLEAN
  /\ RGate = "none" => \A a, b \in Consumers : a = b
  /\ ~WGate => \A a, b \in Producers : a = b

VARIABLES
  data,   \* r->data, slots 0..NElements-1
  head,   \* next slot to fill
  tail,   \* next slot to empty
  pfd,    \* value of the eventfd (semaphore mode)
  rgate,  \* owner of the read gate
  wgate,  \* owner of the write gate
  ppc,    \* where each producer is in uta_ring_insert
  new,    \* new_data of the producer's call
  cpc,    \* where each consumer is in uta_ring_extract
  ti,     \* consumer's local ti
  res     \* consumer's local data

vars == <<data, head, tail, pfd, rgate, wgate, ppc, new, cpc, ti, res>>

Slots == 0 .. NElements - 1

\* The position an index stands for: NElements is seen before the wrap.
Norm(i) == IF i >= NElements THEN 0 ELSE i

\* The position after a position.
Succ(i) == Norm(i + 1)

-----------------------------------------------------------------------------
(* Ring contents.                                                          *)

\* Slots between tail and head.
InRing(i) ==
  LET t == Norm(tail)
      h == Norm(head)
  IN  IF t <= h THEN t <= i /\ i < h ELSE t <= i \/ i < h

Count ==
  LET t == Norm(tail)
      h == Norm(head)
  IN  IF t <= h THEN h - t ELSE h + NElements - t

Contents == [k \in 1 .. Count |-> data[(Norm(tail) + k - 1) % NElements]]

InUse == {data[i] : i \in Slots} \cup {new[p] : p \in Producers}
                                 \cup {res[c] : c \in Consumers}

-----------------------------------------------------------------------------
(* uta_mk_ring and uta_ring_config.                                        *)
Init ==
  /\ data = [i \in Slots |-> NIL]
  /\ head = 0
  /\ tail = 0
  /\ pfd = 0
  /\ rgate = NIL
  /\ wgate = NIL
  /\ ppc = [p \in Producers |-> "idle"]
  /\ new = [p \in Producers |-> NIL]
  /\ cpc = [c \in Consumers |-> "idle"]
  /\ ti = [c \in Consumers |-> 0]
  /\ res = [c \in Consumers |-> NIL]

-----------------------------------------------------------------------------
(* uta_ring_insert.                                                        *)

PGoto(p, from, to) ==
  /\ ppc[p] = from
  /\ ppc' = [ppc EXCEPT ![p] = to]

consumerVars == <<tail, rgate, cpc, ti, res>>

\* Call with a pointer nobody else has queued; take the write gate if any.
InsertEnter(p, m) ==
  /\ PGoto(p, "idle", "check")
  /\ m \notin InUse
  /\ WGate => wgate = NIL
  /\ wgate' = IF WGate THEN p ELSE wgate
  /\ new' = [new EXCEPT ![p] = m]
  /\ UNCHANGED <<data, head, pfd, consumerVars>>

\* Variant of the full test: the last slot is refused whatever tail is.
FullSeenEarly == head + 1 = tail \/ head + 1 >= NElements

\* The test for a full ring, as written: tail may be NElements or 0 here.
FullSeen == head + 1 = tail \/ (head + 1 >= NElements /\ tail = 0)

InsertFull(p) ==
  /\ PGoto(p, "check", "idle")
  /\ FullSeen
  /\ wgate' = IF WGate THEN NIL ELSE wgate
  /\ new' = [new EXCEPT ![p] = NIL]
  /\ UNCHANGED <<data, head, pfd, consumerVars>>

InsertRoom(p) ==
  /\ PGoto(p, "check", "store")
  /\ ~FullSeen
  /\ UNCHANGED <<data, head, pfd, wgate, new, consumerVars>>

InsertStore(p) ==
  /\ PGoto(p, "store", "bump")
  /\ data' = [data EXCEPT ![head] = new[p]]
  /\ UNCHANGED <<head, pfd, wgate, new, consumerVars>>

InsertBump(p) ==
  /\ PGoto(p, "bump", IF SplitIndex THEN "wrap" ELSE "post")
  /\ head' = IF SplitIndex THEN head + 1 ELSE Succ(head)
  /\ new' = [new EXCEPT ![p] = NIL]
  /\ UNCHANGED <<data, pfd, wgate, consumerVars>>

InsertWrap(p) ==
  /\ PGoto(p, "wrap", "post")
  /\ head' = Norm(head)
  /\ UNCHANGED <<data, pfd, wgate, new, consumerVars>>

\* Variant: the eventfd is not written.
InsertPostSilent(p) ==
  /\ PGoto(p, "post", "idle")
  /\ wgate' = IF WGate THEN NIL ELSE wgate
  /\ UNCHANGED <<data, head, pfd, new, consumerVars>>

\* Write 1 to the non-blocking eventfd (it fails, unnoticed, at its limit),
\* release the write gate and return 1.
InsertPost(p) ==
  /\ PGoto(p, "post", "idle")
  /\ pfd' = IF pfd < EventfdMax THEN pfd + 1 ELSE pfd
  /\ wgate' = IF WGate THEN NIL ELSE wgate
  /\ UNCHANGED <<data, head, new, consumerVars>>

-----------------------------------------------------------------------------
(* uta_ring_extract.                                                       *)

CGoto(c, from, to) ==
  /\ cpc[c] = from
  /\ cpc' = [cpc EXCEPT ![c] = to]

producerVars == <<head, wgate, ppc, new>>

ExtractEnter(c) ==
  /\ CGoto(c, "idle", "peek")
  /\ UNCHANGED <<data, tail, pfd, rgate, ti, res, producerVars>>

\* Quick exit on an empty ring, before any gate.
PeekEmpty(c) ==
  /\ CGoto(c, "peek", "idle")
  /\ tail = head
  /\ UNCHANGED <<data, tail, pfd, rgate, ti, res, producerVars>>

PeekSome(c) ==
  /\ CGoto(c, "peek", IF RGate = "none" THEN "bump" ELSE "lock")
  /\ tail # head
  /\ UNCHANGED <<data, tail, pfd, rgate, ti, res, producerVars>>

\* Variant: the gate excludes nobody.
ReadLockShared(c) ==
  /\ CGoto(c, "lock", "recheck")
  /\ rgate' = c
  /\ UNCHANGED <<data, tail, pfd, ti, res, producerVars>>

ReadLock(c) ==
  /\ CGoto(c, "lock", "recheck")
  /\ rgate = NIL
  /\ rgate' = c
  /\ UNCHANGED <<data, tail, pfd, ti, res, producerVars>>

\* pthread_mutex_trylock failed: nil is returned.
ReadTryFail(c) ==
  /\ CGoto(c, "lock", "idle")
  /\ RGate = "try"
  /\ rgate # NIL
  /\ UNCHANGED <<data, tail, pfd, rgate, ti, res, producerVars>>

RecheckEmpty(c) ==
  /\ CGoto(c, "recheck", "idle")
  /\ tail = head
  /\ rgate' = NIL
  /\ UNCHANGED <<data, tail, pfd, ti, res, producerVars>>

RecheckSome(c) ==
  /\ CGoto(c, "recheck", "bump")
  /\ tail # head
  /\ UNCHANGED <<data, tail, pfd, rgate, ti, res, producerVars>>

\* Variant: ti is read after the increment.
ExtractBumpLate(c) ==
  /\ CGoto(c, "bump", IF SplitIndex THEN "wrap" ELSE "read")
  /\ ti' = [ti EXCEPT ![c] = Succ(tail)]
  /\ tail' = IF SplitIndex THEN tail + 1 ELSE Succ(tail)
  /\ UNCHANGED <<data, pfd, rgate, res, producerVars>>

ExtractBump(c) ==
  /\ CGoto(c, "bump", IF SplitIndex THEN "wrap" ELSE "read")
  /\ ti' = [ti EXCEPT ![c] = tail]
  /\ tail' = IF SplitIndex THEN tail + 1 ELSE Succ(tail)
  /\ UNCHANGED <<data, pfd, rgate, res, producerVars>>

ExtractWrap(c) ==
  /\ CGoto(c, "wrap", "read")
  /\ tail' = Norm(tail)
  /\ UNCHANGED <<data, pfd, rgate, ti, res, producerVars>>

\* Non-blocking read of the eventfd: it fails, unnoticed, when the value is 0.
ExtractRead(c) ==
  /\ CGoto(c, "read", "take")
  /\ pfd' = IF pfd > 0 THEN pfd - 1 ELSE 0
  /\ UNCHANGED <<data, tail, rgate, ti, res, producerVars>>

\* Variant: the slot at tail is taken, not the one tail left.
ExtractTakeTail(c) ==
  /\ CGoto(c, "take", "clear")
  /\ res' = [res EXCEPT ![c] = data[Norm(tail)]]
  /\ UNCHANGED <<data, tail, pfd, rgate, ti, producerVars>>

ExtractTake(c) ==
  /\ CGoto(c, "take", "clear")
  /\ res' = [res EXCEPT ![c] = data[ti[c]]]
  /\ UNCHANGED <<data, tail, pfd, rgate, ti, producerVars>>

\* Clear the slot, release the read gate and return the pointer.
ExtractClear(c) ==
  /\ CGoto(c, "clear", "idle")
  /\ data' = [data EXCEPT ![ti[c]] = NIL]
  /\ res' = [res EXCEPT ![c] = NIL]
  /\ rgate' = IF RGate = "none" THEN rgate ELSE NIL
  /\ UNCHANGED <<tail, pfd, ti, producerVars>>

-----------------------------------------------------------------------------
Insert(p) ==
  \/ \E m \in Msg : InsertEnter(p, m)
  \/ InsertFull(p)
  \/ InsertRoom(p)
  \/ InsertStore(p)
  \/ InsertBump(p)
  \/ InsertPost(p)

Extract(c) ==
  \/ ExtractEnter(c)
  \/ PeekEmpty(c)
  \/ PeekSome(c)
  \/ ReadLock(c)
  \/ ReadTryFail(c)
  \/ RecheckEmpty(c)
  \/ RecheckSome(c)
  \/ ExtractBump(c)
  \/ ExtractRead(c)
  \/ ExtractTake(c)
  \/ ExtractClear(c)

Next ==
  \/ \E p \in Producers : Insert(p)
  \/ \E c \in Consumers : Extract(c)

Spec == Init /\ [][Next]_vars

\* The build which wraps an index in a second store (SplitIndex).
SplitNext ==
  \/ Next
  \/ \E p \in Producers : InsertWrap(p)
  \/ \E c \in Consumers : ExtractWrap(c)

SplitSpec == Init /\ [][SplitNext]_vars

-----------------------------------------------------------------------------
(* Properties.                                                             *)

\* Types; head and tail stay within the slots, or one past them in between the
\* two stores of the default build, and ti always names a slot.
TypeOK ==
  /\ data \in [Slots -> Msg \cup {NIL}]
  /\ head \in 0 .. NElements
  /\ tail \in 0 .. NElements
  /\ pfd \in 0 .. EventfdMax
  /\ rgate \in Consumers \cup {NIL}
  /\ wgate \in Producers \cup {NIL}
  /\ ppc \in [Producers -> {"idle", "check", "store", "bump", "wrap", "post"}]
  /\ new \in [Producers -> Msg \cup {NIL}]
  /\ cpc \in [Consumers -> {"idle", "peek", "lock", "recheck", "bump", "wrap",
                            "read", "take", "clear"}]
  /\ ti \in [Consumers -> Slots]
  /\ res \in [Consumers -> Msg \cup {NIL}]

\* Consumers which moved tail past a slot they have not read or cleared yet.
Emptying == {c \in Consumers : cpc[c] \in {"wrap", "read", "take", "clear"}}

\* uta_ring_extract moves tail before it reads the slot.  A producer never
\* stores into a slot a consumer still has to read or to clear, because the
\* full test keeps one slot free and the read gate lets one extract finish
\* before the next moves tail.
NoOverwrite ==
  \A p \in Producers, c \in Consumers :
    ppc[p] = "store" /\ c \in Emptying => ti[c] # head

\* Every slot between tail and head holds a pointer, so an extract that saw
\* the ring non-empty returns one.
LiveSlots == \A i \in Slots : InRing(i) => data[i] # NIL

\* No queued pointer is lost: outside of the live slots a pointer is only in
\* the slot being filled, before head moves, or in the one being emptied.
NothingStranded ==
  \A i \in Slots :
    data[i] # NIL =>
      \/ InRing(i)
      \/ \E c \in Emptying : ti[c] = i
      \/ \E p \in Producers : ppc[p] = "bump" /\ i = head

\* A thread waiting on rmr_get_rcvfd's descriptor misses nothing: counting
\* the inserts which have not written the eventfd yet, its value covers
\* every queued pointer and every extract which has not read it yet.
PfdCovers ==
  pfd + Cardinality({p \in Producers : ppc[p] \in {"wrap", "post"}})
    >= Count + Cardinality({c \in Consumers : cpc[c] \in {"wrap", "read"}})

\* An insert is refused (EXFULL) only when NElements-1 pointers sit in the
\* ring, whatever half advanced index its test reads.
RefusedOnlyWhenFull ==
  [][\A p \in Producers :
       InsertFull(p) =>
         Cardinality({i \in Slots : data[i] # NIL}) >= NElements - 1]_vars

\* Without a try gate, an extract returns nil only when no pointer is queued
\* at the moment of its test.
NilOnlyWhenEmpty ==
  [][\A c \in Consumers :
       \/ PeekEmpty(c)
       \/ RecheckEmpty(c)
       \/ ExtractClear(c) /\ res[c] = NIL
       => Count = 0]_vars

\* The pointer an extract has removed from the queue and not returned yet.
TakenBy(c) ==
  IF cpc[c] \in {"wrap", "read", "take"} THEN data[ti[c]]
  ELSE IF cpc[c] = "clear" THEN res[c] ELSE NIL

Queue == INSTANCE Fifo WITH
           Capacity <- NElements - 1,
           queue <- Contents,
           taken <- [c \in Consumers |-> TakenBy(c)]

\* The ring implements a bounded FIFO: an insert takes effect when head
\* moves, an extract when tail moves, and the pointer uta_ring_extract returns
\* is the one that was oldest when tail moved, in spite of the late read.
ImplementsFifo == Queue!FifoSpec
=============================================================================
