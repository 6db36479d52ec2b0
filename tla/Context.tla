------------------------------ MODULE Context ------------------------------
(***************************************************************************)
(* The life of a context (si/src/rmr_si.c): init and the ways it fails,    *)
(* the threads it starts, and the calls that only look at the context.     *)
(* The application makes one context; its collector thread makes a private *)
(* one with the same function (rtc_static.c), but no collector for it.     *)
(* A context is never freed once it was returned.                          *)
(*                                                                         *)
(* The second half is rmr_rcv_specific, which puts messages it does not    *)
(* want back on the ring that mt_receive fills, here a sequence.           *)
(***************************************************************************)
EXTENDS Integers, Sequences, FiniteSets

CONSTANTS
  Tries,         \* bound: calls of init for one context
  MaxCallId,     \* MAX_CALL_ID
  RingSize,      \* messages that mring can hold
  MaxArrivals,   \* bound: messages that arrive
  Allow          \* allow2queue of rmr_rcv_specific

ASSUME CallIdAssumption == MaxCallId \in Nat \ {0}

Ctxs == {"user", "pvt"}

VARIABLES
  stage,         \* per context: where init is, "done", or "nil" after a failure
  owned,         \* per context: what it points to
  lost,          \* allocated by an init that failed, and never freed
  port,          \* per context: "free", or "bound" to a listener
  tries,         \* per context: calls of init
  threads,       \* running: <<context, "rtc" or "mtc">>
  rtable_ready,
  chutes,        \* per context: chutes that were initialised
  mring, sem,    \* the application's ring, and the count of chute 0
  requeued,      \* messages that were put back on it
  arrived,
  spec           \* rmr_rcv_specific: at, queued, and the message in hand

xvars == <<stage, owned, lost, port, tries, threads, rtable_ready, chutes,
           mring, sem, requeued, arrived, spec>>
queueVars == <<mring, sem, requeued, arrived, spec>>

(* what init allocates, in its order *)
Early == {"rivers", "river_hash", "mring", "zcb_mring", "chutes", "fd2ep"}
Names == {"my_name", "ip_list", "my_ip"}

(* what the calls of the API use *)
Needed == Early \cup Names \cup {"si_ctx", "rtgate", "ephash", "rtable"}

(* free_ctx: what it frees of a context *)
FreeCtx(c) == owned[c] \cap {"mring", "zcb_mring", "chutes", "fd2ep", "my_name",
                             "my_ip", "rtable", "ephash"}

NotCalled == [at |-> "user", queued |-> 0, hold |-> "none"]

ContextInit ==
  /\ stage = [c \in Ctxs |-> "none"] /\ owned = [c \in Ctxs |-> {}]
  /\ lost = {} /\ port = [c \in Ctxs |-> "free"] /\ tries = [c \in Ctxs |-> 0]
  /\ threads = {} /\ rtable_ready = [c \in Ctxs |-> "no"]
  /\ chutes = [c \in Ctxs |-> {}]
  /\ mring = <<>> /\ sem = 0 /\ requeued = 0 /\ arrived = 0 /\ spec = NotCalled

-----------------------------------------------------------------------------
(* init                                                                    *)

(* init_err: nil is returned *)
InitErr(c) ==
  /\ lost' = lost \cup (owned[c] \ FreeCtx(c))
  /\ owned' = [owned EXCEPT ![c] = {}]
  /\ stage' = [stage EXCEPT ![c] = "nil"]

Go(c, from, to, more) ==
  /\ stage[c] = from
  /\ stage' = [stage EXCEPT ![c] = to]
  /\ owned' = [owned EXCEPT ![c] = @ \cup more]

(* rmr_init by the application, init by its collector thread, which does    *)
(* not try twice                                                            *)
Caller(c) ==
  IF c = "user" THEN stage[c] \in {"none", "nil"}
  ELSE <<"user", "rtc">> \in threads /\ stage[c] = "none"

(* init_mtcall: the loop leaves out the last chute *)
InitMtcall == 0 .. MaxCallId - 1

InitAlloc(c) ==
  /\ Caller(c) /\ tries[c] < Tries
  /\ tries' = [tries EXCEPT ![c] = @ + 1]
  /\ stage' = [stage EXCEPT ![c] = "si"]
  /\ owned' = [owned EXCEPT ![c] = Early]
  /\ chutes' = [chutes EXCEPT ![c] = InitMtcall]
  /\ UNCHANGED <<lost, port, threads, rtable_ready, queueVars>>

(* no memory for the port's name or the context *)
InitNoMem(c) ==
  /\ Caller(c) /\ tries[c] < Tries
  /\ tries' = [tries EXCEPT ![c] = @ + 1]
  /\ stage' = [stage EXCEPT ![c] = "nil"]
  /\ UNCHANGED <<owned, lost, port, threads, rtable_ready, chutes, queueVars>>

InitSi(c) ==
  /\ Go(c, "si", "name", {"si_ctx"})
  /\ UNCHANGED <<lost, port, tries, threads, rtable_ready, chutes, queueVars>>

(* our name is known and not too long; the addresses *)
InitName(c) ==
  /\ Go(c, "name", "listen", Names)
  /\ UNCHANGED <<lost, port, tries, threads, rtable_ready, chutes, queueVars>>

(* SIlisten_prep: a socket is bound to the port, or given back              *)
ListenPrep(c) == port[c] = "free" /\ port' = [port EXCEPT ![c] = "bound"]

InitListen(c) ==
  /\ Go(c, "listen", "ephash", {"rtgate"})
  /\ ListenPrep(c)
  /\ UNCHANGED <<lost, tries, threads, rtable_ready, chutes, queueVars>>

(* SIlistener when LISTEN fails: the block and its bound socket stay        *)
ListenFails(c) ==
  /\ stage[c] = "listen"
  /\ ListenPrep(c)
  /\ stage' = [stage EXCEPT ![c] = "nil"]
  /\ lost' = lost \cup (owned[c] \ FreeCtx(c)) \cup {"tp_blk"}
  /\ owned' = [owned EXCEPT ![c] = {}]
  /\ UNCHANGED <<tries, threads, rtable_ready, chutes, queueVars>>

(* Variant: the receiver is started before the last thing that can fail. *)
InitEphashLate(c) ==
  /\ \/ Go(c, "ephash", "rtc", {"ephash", "rtable"}) /\ UNCHANGED lost
     \/ stage[c] = "ephash" /\ InitErr(c)
  /\ threads' = threads \cup {<<c, "mtc">>}
  /\ rtable_ready' = [rtable_ready EXCEPT ![c] = IF c = "pvt" THEN "yes" ELSE "no"]
  /\ UNCHANGED <<port, tries, chutes, queueVars>>

(* the endpoints' table and an empty route table; a context without a       *)
(* collector is ready at once                                               *)
InitEphash(c) ==
  /\ Go(c, "ephash", "rtc", {"ephash", "rtable"})
  /\ rtable_ready' = [rtable_ready EXCEPT ![c] = IF c = "pvt" THEN "yes" ELSE "no"]
  /\ UNCHANGED <<lost, port, tries, threads, chutes, queueVars>>

(* SIinitialise, gethostname, a name too long, SIlistener, rmr_sym_alloc;   *)
(* a listener stays                                                         *)
InitFails(c) ==
  /\ stage[c] \in {"si", "name", "listen", "ephash"}
  /\ InitErr(c)
  /\ UNCHANGED <<port, tries, threads, rtable_ready, chutes, queueVars>>

(* pthread_create may fail, which is only noted in the log *)
InitRtc(c) ==
  /\ Go(c, "rtc", "mtc", {})
  /\ threads' = threads \/ (c = "user" /\ threads' = threads \cup {<<c, "rtc">>})
  /\ UNCHANGED <<lost, port, tries, rtable_ready, chutes, queueVars>>

InitMtc(c) ==
  /\ Go(c, "mtc", "done", {})
  /\ threads' \in {threads, threads \cup {<<c, "mtc">>}}
  /\ UNCHANGED <<lost, port, tries, rtable_ready, chutes, queueVars>>

(* the collector thread installs its first table *)
FirstTable ==
  /\ <<"user", "rtc">> \in threads
  /\ rtable_ready["user"] = "no"
  /\ rtable_ready' = [rtable_ready EXCEPT !["user"] = "yes"]
  /\ UNCHANGED <<stage, owned, lost, port, tries, threads, chutes, queueVars>>

(* rmr_close, then the end of the collector thread: nothing is freed *)
Closed ==
  /\ stage["user"] = "done" /\ stage["pvt"] = "done"
  /\ threads' = threads \ {<<"user", "rtc">>}
  /\ UNCHANGED <<stage, owned, lost, port, tries, rtable_ready, chutes, queueVars>>

-----------------------------------------------------------------------------
(* Calls on a context                                                      *)

Usable == stage["user"] = "done"

RmrReady(c) == rtable_ready[c] = "yes"

(* ids that rmr_mt_call takes, and the reserved one of rmr_call *)
CallIds == {1} \cup 2 .. MaxCallId

-----------------------------------------------------------------------------
(* Receiving                                                               *)

(* Variant: a message that is dropped is announced like the others. *)
ArrivePosts(m) ==
  /\ mring' = IF Len(mring) < RingSize THEN Append(mring, m) ELSE mring
  /\ sem' = sem + 1

(* queue_normal: dropped if the ring is full *)
Arrive(m) ==
  IF Len(mring) < RingSize THEN mring' = Append(mring, m) /\ sem' = sem + 1
  ELSE UNCHANGED <<mring, sem>>

Arrives ==
  /\ <<"user", "mtc">> \in threads /\ arrived < MaxArrivals
  /\ arrived' = arrived + 1
  /\ \E m \in {"expected", "other"} : Arrive(m)
  /\ UNCHANGED <<stage, owned, lost, port, tries, threads, rtable_ready, chutes,
                 requeued, spec>>

(* rmr_mt_rcv without a limit: the semaphore, then the ring *)
Take ==
  /\ sem > 0 /\ sem' = sem - 1
  /\ mring' = IF mring = <<>> THEN mring ELSE Tail(mring)

RcvMsg1 ==
  /\ Usable /\ spec.at = "user"
  /\ Take
  /\ UNCHANGED <<stage, owned, lost, port, tries, threads, rtable_ready, chutes,
                 requeued, arrived, spec>>

RcvSpecific ==
  /\ Usable /\ spec.at = "user"
  /\ spec' = [NotCalled EXCEPT !.at = "wait"]
  /\ UNCHANGED <<stage, owned, lost, port, tries, threads, rtable_ready, chutes,
                 mring, sem, requeued, arrived>>

(* the next message: the one expected is returned *)
SpecificTake ==
  /\ spec.at = "wait" /\ Take
  /\ spec' = IF mring = <<>> THEN spec
             ELSE IF Head(mring) = "expected" THEN NotCalled
             ELSE [spec EXCEPT !.at = "queue", !.hold = Head(mring)]
  /\ UNCHANGED <<stage, owned, lost, port, tries, threads, rtable_ready, chutes,
                 requeued, arrived>>

(* another one goes to the end of the ring, but nothing is posted for it;   *)
(* a full ring (ENOBUFS) loses it                                           *)
SpecificQueue ==
  /\ spec.at = "queue"
  /\ IF Len(mring) < RingSize
     THEN /\ mring' = Append(mring, spec.hold)
          /\ requeued' = requeued + 1
          /\ spec' = IF spec.queued + 1 < Allow
                     THEN [at |-> "wait", queued |-> spec.queued + 1, hold |-> "none"]
                     ELSE NotCalled
     ELSE spec' = NotCalled /\ UNCHANGED <<mring, requeued>>
  /\ UNCHANGED <<stage, owned, lost, port, tries, threads, rtable_ready, chutes,
                 sem, arrived>>

ContextNext ==
  \/ \E c \in Ctxs :
       \/ InitAlloc(c) \/ InitNoMem(c) \/ InitSi(c) \/ InitName(c) \/ InitListen(c)
       \/ ListenFails(c) \/ InitEphash(c) \/ InitFails(c) \/ InitRtc(c) \/ InitMtc(c)
  \/ FirstTable \/ Closed
  \/ Arrives \/ RcvMsg1 \/ RcvSpecific \/ SpecificTake \/ SpecificQueue

ContextSpec == ContextInit /\ [][ContextNext]_xvars

(* init gives a context that has all that the calls use, or nil; and after  *)
(* nil no thread runs on the memory that free_ctx gave back, and only the   *)
(* socket of an init that failed in LISTEN or after it keeps the port.      *)
(* (What is lost is what free_ctx does not know.)  A thread can therefore   *)
(* rely on the whole context, even while init is still running, rmr_ready   *)
(* never says yes of less, and each call id that rmr_mt_call takes has its  *)
(* chute, but for the largest one, which init_mtcall leaves out.            *)
InitOrNothing ==
  /\ \A c \in Ctxs :
       /\ stage[c] = "done" => Needed \subseteq owned[c] /\ port[c] = "bound"
       /\ stage[c] = "nil" => owned[c] = {}
       /\ port[c] = "bound" /\ stage[c] = "nil" => lost \cap {"rtgate", "tp_blk"} # {}
       /\ RmrReady(c) => Needed \subseteq owned[c]
       /\ stage[c] = "done" => CallIds \ {MaxCallId} \subseteq chutes[c]
  /\ \A t \in threads : Needed \subseteq owned[t[1]]

(* The semaphore counts the messages on the ring but for those that         *)
(* rmr_rcv_specific has put back: as many as these are left behind for ever *)
(* in a ring that is received from with a wait, the expected message among  *)
(* them perhaps.  Without them a receiver that sleeps has nothing to        *)
(* receive.                                                                 *)
RequeueCounted ==
  Len(mring) = sem + requeued
=============================================================================
