------------------------------ MODULE RcvRing -------------------------------
(***************************************************************************)
(* The normal receive path of a context: the mt_receive thread queues each *)
(* message on mring and posts the semaphore of chute 0 (queue_normal in    *)
(* mt_call_si_static.c); user threads receive with rmr_mt_rcv (rmr_si.c),  *)
(* which rmr_rcv_msg and rmr_torcv_msg call.  A receive with max_wait 0    *)
(* ("poll") extracts first and takes the semaphore afterwards; the others  *)
(* ("block" for -1, "timed" for a positive max_wait) wait on the semaphore *)
(* and then extract.  The ring is the one of Ring.tla, step by step.       *)
(*                                                                         *)
(* An interrupted semaphore wait (EINTR) is retried by the code and is a   *)
(* stuttering step here.                                                   *)
(***************************************************************************)
EXTENDS Ring

CONSTANT Modes   \* the kinds of receive the application uses

ASSUME ModesAssumption == Modes \subseteq {"poll", "block", "timed"}

\* A process has finitely many threads.
ASSUME ThreadsAssumption == IsFiniteSet(Producers) /\ IsFiniteSet(Consumers)

VARIABLES
  sem,    \* count of chutes[0].barrier
  mpc,    \* mt_receive threads which queued a message and must post sem
  rpc,    \* where each receiver is in rmr_mt_rcv
  mode    \* max_wait of its call

rcvVars == <<sem, mpc, rpc, mode>>
allVars == <<vars, rcvVars>>

RGoto(c, from, to) ==
  /\ rpc[c] = from
  /\ rpc' = [rpc EXCEPT ![c] = to]

RcvInit ==
  /\ Init
  /\ sem = 0
  /\ mpc = {}
  /\ rpc = [c \in Consumers |-> "user"]
  /\ mode \in [Consumers -> Modes]

-----------------------------------------------------------------------------
(* queue_normal.                                                           *)

QueueEnter(p) ==
  /\ p \notin mpc
  /\ \E m \in Msg : InsertEnter(p, m)
  /\ UNCHANGED rcvVars

\* Inside uta_ring_insert; a refused message is freed and counted as a drop.
QueueStep(p) ==
  /\ InsertFull(p) \/ InsertRoom(p) \/ InsertStore(p) \/ InsertBump(p) \/ InsertWrap(p)
  /\ UNCHANGED rcvVars

QueueInserted(p) ==
  /\ InsertPost(p)
  /\ mpc' = mpc \cup {p}
  /\ UNCHANGED <<sem, rpc, mode>>

\* Variants: the post is forgotten, or done twice.
QueuePostLost(p) ==
  /\ p \in mpc
  /\ mpc' = mpc \ {p}
  /\ UNCHANGED <<vars, sem, rpc, mode>>

QueuePostTwice(p) ==
  /\ p \in mpc
  /\ mpc' = mpc \ {p}
  /\ sem' = sem + 2
  /\ UNCHANGED <<vars, rpc, mode>>

QueuePost(p) ==
  /\ p \in mpc
  /\ mpc' = mpc \ {p}
  /\ sem' = sem + 1
  /\ UNCHANGED <<vars, rpc, mode>>

-----------------------------------------------------------------------------
(* rmr_mt_rcv.                                                             *)

\* max_wait is 0: extract without looking at the semaphore.
RcvPoll(c) ==
  /\ RGoto(c, "user", "extract")
  /\ mode' = [mode EXCEPT ![c] = "poll"]
  /\ ExtractEnter(c)
  /\ UNCHANGED <<sem, mpc>>

RcvWait(c, w) ==
  /\ w \in Modes \ {"poll"}
  /\ RGoto(c, "user", "wait")
  /\ mode' = [mode EXCEPT ![c] = w]
  /\ UNCHANGED <<vars, sem, mpc>>

\* Variant: a wait which leaves the count.
SemTakeKeeps(c) ==
  /\ RGoto(c, "wait", "extract")
  /\ sem > 0
  /\ ExtractEnter(c)
  /\ UNCHANGED <<sem, mpc, mode>>

\* sem_wait or sem_timedwait succeeds; uta_ring_extract is called.
SemTake(c) ==
  /\ RGoto(c, "wait", "extract")
  /\ sem > 0
  /\ sem' = sem - 1
  /\ ExtractEnter(c)
  /\ UNCHANGED <<mpc, mode>>

\* sem_timedwait reports ETIMEDOUT; the caller's buffer is returned.
SemTimeout(c) ==
  /\ RGoto(c, "wait", "user")
  /\ mode[c] = "timed"
  /\ sem = 0
  /\ UNCHANGED <<vars, sem, mpc, mode>>

RcvStep(c) ==
  /\ \/ PeekSome(c)
     \/ ReadLock(c)
     \/ RecheckSome(c)
     \/ ExtractBump(c)
     \/ ExtractWrap(c)
     \/ ExtractRead(c)
     \/ ExtractTake(c)
  /\ UNCHANGED rcvVars

\* uta_ring_extract returns nil.
GotNil(c) ==
  \/ PeekEmpty(c)
  \/ RecheckEmpty(c)
  \/ ExtractClear(c) /\ res[c] = NIL

\* rmr_mt_rcv returns with what uta_ring_extract gave it; without a message
\* it reports ETIMEDOUT.  A poll that got one still has its count to take.
RcvReturn(c) ==
  /\ GotNil(c) \/ ExtractClear(c)
  /\ RGoto(c, "extract", IF mode[c] = "poll" /\ res[c] # NIL THEN "pop" ELSE "user")
  /\ UNCHANGED <<sem, mpc, mode>>

\* sem_timedwait with the current time: takes the count if there is one.
RcvPop(c) ==
  /\ RGoto(c, "pop", "user")
  /\ sem' = IF sem > 0 THEN sem - 1 ELSE sem
  /\ UNCHANGED <<vars, mpc, mode>>

-----------------------------------------------------------------------------
Queueing(p) == QueueEnter(p) \/ QueueStep(p) \/ QueueInserted(p) \/ QueuePost(p)

Receiving(c) ==
  \/ SemTake(c)
  \/ RcvStep(c)
  \/ RcvReturn(c)

Calling(c) == \E w \in Modes : RcvWait(c, w)

RcvNext ==
  \/ \E p \in Producers : Queueing(p)
  \/ \E c \in Consumers : Calling(c) \/ Receiving(c) \/ SemTimeout(c)

RcvSpec == RcvInit /\ [][RcvNext]_allVars

\* An application which also polls.
MixedNext == RcvNext \/ \E c \in Consumers : RcvPoll(c) \/ RcvPop(c)

MixedSpec == RcvInit /\ [][MixedNext]_allVars

\* mt_receive finishes the message it is queueing, and the threads of the
\* application call a receive function again and again.
RcvFairSpec ==
  /\ RcvSpec
  /\ \A p \in Producers : WF_allVars(QueueStep(p) \/ QueueInserted(p) \/ QueuePost(p))
  /\ \A c \in Consumers : WF_allVars(Calling(c)) /\ WF_allVars(Receiving(c))

-----------------------------------------------------------------------------
(* Properties.                                                             *)

\* A receive that waited for the semaphore and got it returns a message: it
\* never finds the ring empty (rmr_mt_rcv with max_wait -1 "blocks until a
\* message is ready on the ring").
WaitGetsMessage ==
  [][\A c \in Consumers : GotNil(c) => mode[c] = "poll"]_allVars

\* Receivers which took a count from the semaphore and no message yet.
Holders == {c \in Consumers : cpc[c] \in {"peek", "lock", "recheck", "bump"}}

\* The semaphore counts the messages nobody is about to take: every queued
\* message has its count, posted, held, or about to be posted by mt_receive.
SemCounts ==
  sem + Cardinality(mpc) + Cardinality({p \in Producers : ppc[p] \in {"wrap", "post"}})
    = Count - Cardinality(Holders)

\* No message is stranded: when mt_receive has nothing left to do and a
\* receiver is asleep on an exhausted semaphore, no message is queued but
\* the ones other receivers are already taking.
NotStranded ==
  /\ mpc = {}
  /\ \A p \in Producers : ppc[p] = "idle"
  /\ \E c \in Consumers : rpc[c] = "wait"
  /\ sem = 0
  => Count <= Cardinality(Holders)

\* A queued message is received, whatever the interleaving of the receivers.
Queued(m) == \E i \in Slots : data[i] = m /\ InRing(i)

\* Every message queued on mring is eventually taken by a receiver.
MessageReceived == \A m \in Msg : Queued(m) ~> ~Queued(m)
=============================================================================
