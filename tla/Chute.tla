------------------------------- MODULE Chute --------------------------------
(***************************************************************************)
(* A call and its response through one chute: mt_call (rmr_si.c), which    *)
(* rmr_mt_call, rmr_call and rmr_wh_call use, in the thread that owns the  *)
(* call id, and buf2mbuf (mt_call_si_static.c) in the mt_receive thread,   *)
(* which stores each response bearing the call id into the chute and posts *)
(* its semaphore.  Shared accesses to chute->mbuf are separate steps.      *)
(*                                                                         *)
(* A transaction id stands for the request and for its response; at says   *)
(* where the message is.  Each call uses a new id, the peer answers a      *)
(* request once, late or never.                                            *)
(***************************************************************************)
EXTENDS Naturals

CONSTANTS
  Xid,         \* transaction ids, one per call: bounds the number of calls
  NIL,
  Waits,       \* kinds of max_wait: "forever" (< 0), "zero", "timed" (> 0)
  Interrupts   \* TRUE when a signal may interrupt a semaphore wait

ASSUME NilAssumption == NIL \notin Xid

ASSUME WaitsAssumption ==
  /\ Waits \subseteq {"forever", "zero", "timed"}
  /\ Waits # {}
  /\ Interrupts \in BOOLEAN

VARIABLES
  mbuf,    \* chute->mbuf
  expect,  \* chute->expect
  sem,     \* count of chute->barrier
  pc,      \* where the caller is in mt_call
  xact,    \* mbuf->xaction of the caller's message
  wait,    \* max_wait of the call
  state,   \* local state: whether the last semaphore wait failed (-1)
  errno,   \* the caller's errno: "none" stands for 0
  got,     \* the response mt_call is about to return
  rpc,     \* "post" between the receiver's store and its post
  hist,    \* history: whether a wait has timed out or been interrupted so far
  at       \* where the message of each transaction is

vars == <<mbuf, expect, sem, pc, xact, wait, state, errno, got, rpc, hist, at>>

Init ==
  /\ mbuf = NIL
  /\ expect = NIL
  /\ sem = 0
  /\ pc = "user"
  /\ xact = NIL
  /\ wait \in Waits
  /\ state = "ok"
  /\ errno = "none"
  /\ got = NIL
  /\ rpc = "idle"
  /\ hist = "quiet"
  /\ at = [x \in Xid |-> "new"]

-----------------------------------------------------------------------------
(* The peer and the receive thread.                                        *)

callerVars == <<expect, pc, xact, wait, state, errno, got, hist>>

\* External: the peer returns the message to its sender (rmr_rts_msg).
PeerAnswers(x) ==
  /\ at[x] = "peer"
  /\ at' = [at EXCEPT ![x] = "net"]
  /\ UNCHANGED <<mbuf, sem, rpc, callerVars>>

\* buf2mbuf for a response with a call id: the pointer in the chute is
\* replaced whether or not there is one, and whatever its transaction.
ChuteStore(x) ==
  /\ at[x] = "net"
  /\ rpc = "idle"
  /\ mbuf' = x
  /\ rpc' = "post"
  /\ at' = [at EXCEPT ![x] = "chute"]
  /\ UNCHANGED <<sem, callerVars>>

\* Variant: the semaphore is not posted.
ChutePostLost ==
  /\ rpc = "post"
  /\ rpc' = "idle"
  /\ UNCHANGED <<mbuf, sem, at, callerVars>>

ChutePost ==
  /\ rpc = "post"
  /\ rpc' = "idle"
  /\ sem' = sem + 1
  /\ UNCHANGED <<mbuf, at, callerVars>>

-----------------------------------------------------------------------------
(* mt_call.                                                                *)

Goto(from, to) == pc = from /\ pc' = to

restVars == <<sem, rpc, hist>>

Release(m) == at' = [at EXCEPT ![m] = "freed"]

Call(x, w) ==
  /\ Goto("user", "check")
  /\ at[x] = "new"
  /\ xact' = x
  /\ wait' = w
  /\ at' = [at EXCEPT ![x] = "call"]
  /\ UNCHANGED <<mbuf, expect, state, errno, got, restVars>>

\* A response left in the chute by an earlier call is freed, then forgotten.
CheckChute ==
  /\ Goto("check", IF mbuf = NIL THEN "arm" ELSE "free")
  /\ UNCHANGED <<mbuf, expect, xact, wait, state, errno, got, at, restVars>>

FreeOld ==
  /\ Goto("free", "forget")
  /\ Release(mbuf)
  /\ UNCHANGED <<mbuf, expect, xact, wait, state, errno, got, restVars>>

\* Variant: the freed response stays in the chute.
ForgetOldNot ==
  /\ Goto("forget", "arm")
  /\ UNCHANGED <<mbuf, expect, xact, wait, state, errno, got, at, restVars>>

ForgetOld ==
  /\ Goto("forget", "arm")
  /\ mbuf' = NIL
  /\ UNCHANGED <<expect, xact, wait, state, errno, got, at, restVars>>

Arm ==
  /\ Goto("arm", "send")
  /\ expect' = xact
  /\ UNCHANGED <<mbuf, xact, wait, state, errno, got, at, restVars>>

\* mtosend_msg or send_msg succeeded; state and errno are reset.
SendOk ==
  /\ Goto("send", "test")
  /\ at' = [at EXCEPT ![xact] = "peer"]
  /\ state' = "ok"
  /\ errno' = "none"
  /\ UNCHANGED <<mbuf, expect, xact, wait, got, restVars>>

\* The message could not be sent and is returned with its error state.
SendFails ==
  /\ Goto("send", "user")
  /\ at' = [at EXCEPT ![xact] = "app"]
  /\ UNCHANGED <<mbuf, expect, xact, wait, state, errno, got, restVars>>

\* Variants: the caller does not wait, or empties the chute after the send.
TestChuteNoWait ==
  /\ Goto("test", "done")
  /\ UNCHANGED <<mbuf, expect, xact, wait, state, errno, got, at, restVars>>

TestChuteForgets ==
  /\ Goto("test", IF errno = "none" THEN "wait" ELSE "done")
  /\ mbuf' = NIL
  /\ UNCHANGED <<expect, xact, wait, state, errno, got, at, restVars>>

\* The test of the wait loop, before the first wait and after each vetting.
TestChute ==
  /\ Goto("test", IF mbuf = NIL /\ errno = "none" THEN "wait" ELSE "done")
  /\ UNCHANGED <<mbuf, expect, xact, wait, state, errno, got, at, restVars>>

WaitPosted ==
  /\ Goto("wait", "vet")
  /\ sem > 0
  /\ sem' = sem - 1
  /\ state' = "ok"
  /\ UNCHANGED <<mbuf, expect, xact, wait, errno, got, rpc, hist, at>>

\* Variant: errno does not tell the timeout.
WaitTimesOutUnseen ==
  /\ Goto("wait", "vet")
  /\ wait # "forever"
  /\ sem = 0
  /\ state' = "failed"
  /\ hist' = IF hist = "quiet" THEN "timeout" ELSE hist
  /\ UNCHANGED <<mbuf, expect, xact, wait, errno, got, at, sem, rpc>>

\* A deadline is set for max_wait >= 0: 0 is a deadline already passed.
WaitTimesOut ==
  /\ Goto("wait", "vet")
  /\ wait # "forever"
  /\ sem = 0
  /\ state' = "failed"
  /\ errno' = "timedout"
  /\ hist' = IF hist = "quiet" THEN "timeout" ELSE hist
  /\ UNCHANGED <<mbuf, expect, xact, wait, got, at, sem, rpc>>

\* EINTR: errno is cleared, state is not.
WaitInterrupted ==
  /\ Goto("wait", "vet")
  /\ Interrupts
  /\ state' = "failed"
  /\ hist' = "signal"
  /\ UNCHANGED <<mbuf, expect, xact, wait, errno, got, at, sem, rpc>>

\* A response with another transaction id is freed, then forgotten.
Vet ==
  /\ Goto("vet", IF mbuf # NIL /\ mbuf # expect THEN "reject" ELSE "test")
  /\ UNCHANGED <<mbuf, expect, xact, wait, state, errno, got, at, restVars>>

Reject ==
  /\ Goto("reject", "drop")
  /\ Release(mbuf)
  /\ UNCHANGED <<mbuf, expect, xact, wait, state, errno, got, restVars>>

Drop ==
  /\ Goto("drop", "test")
  /\ mbuf' = NIL
  /\ errno' = "none"
  /\ UNCHANGED <<expect, xact, wait, state, got, at, restVars>>

\* state < 0 after the loop: nil is returned and the chute is left alone.
ReturnNil ==
  /\ Goto("done", "user")
  /\ state = "failed"
  /\ UNCHANGED <<mbuf, expect, xact, wait, state, errno, got, at, restVars>>

Take ==
  /\ Goto("done", "clear")
  /\ state = "ok"
  /\ got' = mbuf
  /\ UNCHANGED <<mbuf, expect, xact, wait, state, errno, at, restVars>>

\* The chute is emptied and the response returned.
Return ==
  /\ Goto("clear", "user")
  /\ mbuf' = NIL
  /\ at' = [at EXCEPT ![got] = "app"]
  /\ got' = NIL
  /\ UNCHANGED <<expect, xact, wait, state, errno, restVars>>

-----------------------------------------------------------------------------
Receiver == ChutePost \/ \E x \in Xid : ChuteStore(x)

Caller ==
  \/ CheckChute
  \/ FreeOld
  \/ ForgetOld
  \/ Arm
  \/ SendOk
  \/ SendFails
  \/ TestChute
  \/ WaitPosted
  \/ WaitTimesOut
  \/ Vet
  \/ Reject
  \/ Drop
  \/ ReturnNil
  \/ Take
  \/ Return

Next ==
  \/ \E x \in Xid : PeerAnswers(x)
  \/ Receiver
  \/ \E x \in Xid, w \in Waits : Call(x, w)
  \/ Caller
  \/ WaitInterrupted

Spec == Init /\ [][Next]_vars

\* The receive thread and a thread inside mt_call keep running.  No signal has
\* to come, and signals do not interrupt every wait that could have ended.
FairSpec ==
  /\ Spec
  /\ WF_vars(Receiver)
  /\ WF_vars(Caller)
  /\ SF_vars(WaitPosted \/ WaitTimesOut)

-----------------------------------------------------------------------------
(* Properties.                                                             *)

\* Types; mt_call never consumes a post that buf2mbuf has not made.
TypeOK ==
  /\ mbuf \in Xid \cup {NIL}
  /\ expect \in Xid \cup {NIL}
  /\ sem \in Nat
  /\ pc \in {"user", "check", "free", "forget", "arm", "send", "test", "wait",
             "vet", "reject", "drop", "done", "clear"}
  /\ xact \in Xid \cup {NIL}
  /\ wait \in Waits
  /\ state \in {"ok", "failed"}
  /\ errno \in {"none", "timedout"}
  /\ got \in Xid \cup {NIL}
  /\ rpc \in {"idle", "post"}
  /\ hist \in {"quiet", "timeout", "signal"}
  /\ at \in [Xid -> {"new", "call", "peer", "net", "chute", "freed", "app"}]

\* A call returns the response to its own request, and no other message.
ResponseIsOwn == pc = "clear" => got = xact

\* As long as no wait was cut short, a call returns the response to its own
\* request, which mt_call does not compare with expect on every path.
ResponseMatches == hist = "quiet" => ResponseIsOwn

\* As long as no wait was cut short, every response stored in the chute is
\* still there until mt_call returns it: none is overwritten or forgotten by
\* the clean-up at the start of the next call.
NoResponseLost ==
  hist = "quiet" => \A x \in Xid : at[x] = "chute" => mbuf = x

\* mt_call reads, frees and returns only responses that are still allocated;
\* a freed one is in the chute only until the next store of the caller.
NoUseAfterFree ==
  /\ mbuf # NIL /\ pc \notin {"forget", "drop"} => at[mbuf] = "chute"
  /\ got # NIL => at[got] = "chute"

\* Without a timeout mt_call comes back empty handed from a request it sent
\* only if a signal interrupted a wait, however many timed calls left late
\* responses and surplus posts behind on the chute.
ForeverGetsResponse == [][ReturnNil /\ wait = "forever" => hist = "signal"]_vars

\* A response that reached the process is returned to its caller, unless a
\* wait was cut short.
ResponseReturned ==
  \A x \in Xid : at[x] = "net" ~> at[x] = "app" \/ hist # "quiet"

\* A call with a timeout returns, whatever arrives late.
TimedCallReturns == wait = "timed" /\ pc # "user" ~> pc = "user"
=============================================================================
