---------------------------- MODULE SendProofs ------------------------------
(***************************************************************************)
(* Proofs about Chute.tla, where a call waits for its response, for any    *)
(* number of calls, any kinds of waits, with or without signals: MemInv is *)
(* inductive by itself; CallInv says what a chute looks like as long as no *)
(* wait was cut short, and needs MemInv; ForeverInv ties a failed wait to  *)
(* a signal.                                                               *)
(*                                                                         *)
(* Proofs about Send.tla, part 2: the groups and the attempts of a send    *)
(* preserve SendInv, and what follows from it: what a send reports, that a *)
(* payload fits, and where a returned message goes.                        *)
(***************************************************************************)
EXTENDS SendInvariant, Chute

-----------------------------------------------------------------------------
(* Memory safety of the chute, in every configuration.                     *)

Waiting == {"test", "wait", "vet", "reject", "drop", "done"}

MemInv ==
  /\ TypeOK
  /\ NoUseAfterFree
  /\ pc \in {"check", "free", "forget", "arm", "send"} => xact # NIL /\ at[xact] = "call"
  /\ pc \in {"free", "reject"} => mbuf # NIL
  /\ pc \in Waiting /\ errno # "none" => state = "failed"
  /\ pc = "wait" => errno = "none"
  /\ pc = "done" /\ state = "ok" => mbuf # NIL
  /\ got # NIL <=> pc = "clear"

\* A new context has empty chutes (init_mtcall).
LEMMA InitMem == Init => MemInv
  BY NilAssumption DEF Init, MemInv, TypeOK, NoUseAfterFree, Waiting

\* Every step of the receive thread, of the peer and of mt_call preserves it.
LEMMA StepMem == MemInv /\ [Next]_vars => MemInv'
<1> SUFFICES ASSUME MemInv, [Next]_vars
             PROVE  MemInv'
  OBVIOUS
<1> USE NilAssumption DEF MemInv, TypeOK, NoUseAfterFree, Waiting
<1>1. ASSUME NEW x \in Xid, PeerAnswers(x) \/ ChuteStore(x)
      PROVE  MemInv'
  BY <1>1 DEF PeerAnswers, ChuteStore, callerVars
<1>2. CASE ChutePost
  BY <1>2 DEF ChutePost, callerVars
<1>3. ASSUME NEW x \in Xid, NEW w \in Waits, Call(x, w)
      PROVE  MemInv'
  BY <1>3 DEF Call, Goto, restVars
<1>4. CASE CheckChute \/ FreeOld \/ ForgetOld
  BY <1>4 DEF CheckChute, FreeOld, ForgetOld, Release, Goto, restVars
<1>5. CASE Arm \/ SendOk \/ SendFails
  BY <1>5 DEF Arm, SendOk, SendFails, Goto, restVars
<1>6. CASE TestChute \/ WaitPosted \/ WaitTimesOut \/ WaitInterrupted
  BY <1>6 DEF TestChute, WaitPosted, WaitTimesOut, WaitInterrupted, Goto, restVars
<1>7. CASE Vet \/ Reject \/ Drop
  BY <1>7 DEF Vet, Reject, Drop, Release, Goto, restVars
<1>8. CASE ReturnNil \/ Take \/ Return
  BY <1>8 DEF ReturnNil, Take, Return, Goto, restVars
<1>9. CASE UNCHANGED vars
  BY <1>9 DEF vars
<1> QED
  BY <1>1, <1>2, <1>3, <1>4, <1>5, <1>6, <1>7, <1>8, <1>9 DEF Next, Receiver, Caller

\* MemInv holds in every reachable state.
LEMMA AlwaysMem == Spec => []MemInv
  BY InitMem, StepMem, PTL DEF Spec

\* Type correctness of the chute and its caller.
THEOREM TypeCorrect == Spec => []TypeOK
  BY AlwaysMem, PTL DEF MemInv

\* However late responses arrive, mt_call never reads, frees or returns a
\* response that has been freed or returned before.
THEOREM NoUseAfterFreeHolds == Spec => []NoUseAfterFree
  BY AlwaysMem, PTL DEF MemInv

-----------------------------------------------------------------------------
(* Calls before any wait was cut short.                                    *)

\* The only message under way is the one of the call in progress, and the
\* chute holds nothing else.
QuietCall ==
  /\ state = "ok" /\ errno = "none"
  /\ pc \notin {"free", "forget", "reject", "drop"}
  /\ pc \in {"user", "check", "arm", "send"} =>
       mbuf = NIL /\ \A x \in Xid : at[x] \notin {"peer", "net", "chute"}
  /\ pc \in {"test", "wait", "vet", "done", "clear"} =>
       /\ xact # NIL
       /\ expect = xact
       /\ at[xact] \in {"peer", "net", "chute"}
       /\ mbuf = (IF at[xact] = "chute" THEN xact ELSE NIL)
       /\ \A x \in Xid : at[x] \in {"peer", "net", "chute"} => x = xact
  /\ pc = "send" => expect = xact
  /\ pc = "clear" => got = mbuf

CallInv == hist = "quiet" => QuietCall

\* It holds initially and every step preserves it.
LEMMA AlwaysCall == Spec => []CallInv
<1> USE NilAssumption
<1>1. Init => CallInv
  BY DEF Init, CallInv, QuietCall
<1>2. MemInv /\ CallInv /\ [Next]_vars => CallInv'
  <2> SUFFICES ASSUME MemInv, CallInv, [Next]_vars
               PROVE  CallInv'
    OBVIOUS
  <2> USE DEF CallInv, QuietCall, MemInv, TypeOK
  <2>1. ASSUME NEW x \in Xid, PeerAnswers(x) \/ ChuteStore(x)
        PROVE  CallInv'
    BY <2>1 DEF PeerAnswers, ChuteStore, callerVars
  <2>2. CASE ChutePost
    BY <2>2 DEF ChutePost, callerVars
  <2>3. ASSUME NEW x \in Xid, NEW w \in Waits, Call(x, w)
        PROVE  CallInv'
    BY <2>3 DEF Call, Goto, restVars
  <2>4. CASE CheckChute \/ FreeOld \/ ForgetOld
    BY <2>4 DEF CheckChute, FreeOld, ForgetOld, Release, Goto, restVars
  <2>5. CASE Arm \/ SendOk \/ SendFails
    BY <2>5 DEF Arm, SendOk, SendFails, Goto, restVars
  <2>6. CASE TestChute \/ WaitPosted \/ WaitTimesOut \/ WaitInterrupted
    BY <2>6 DEF TestChute, WaitPosted, WaitTimesOut, WaitInterrupted, Goto, restVars
  <2>7. CASE Vet \/ Reject \/ Drop
    BY <2>7 DEF Vet, Reject, Drop, Release, Goto, restVars
  <2>8. CASE ReturnNil \/ Take \/ Return
    BY <2>8 DEF ReturnNil, Take, Return, Goto, restVars
  <2>9. CASE UNCHANGED vars
    BY <2>9 DEF vars
  <2> QED
    BY <2>1, <2>2, <2>3, <2>4, <2>5, <2>6, <2>7, <2>8, <2>9 DEF Next, Receiver, Caller
<1> QED
  BY <1>1, <1>2, AlwaysMem, PTL DEF Spec

\* Until a wait is cut short, mt_call returns the response to its request
\* and no other, although a response may be in the chute before it waits.
THEOREM ResponseMatchesHolds == Spec => []ResponseMatches
<1>1. MemInv /\ CallInv => ResponseMatches
  BY DEF MemInv, CallInv, QuietCall, ResponseMatches, ResponseIsOwn
<1> QED
  BY <1>1, AlwaysMem, AlwaysCall, PTL

\* Until a wait is cut short, no response is overwritten or forgotten in the
\* chute.
THEOREM NoResponseLostHolds == Spec => []NoResponseLost
<1>1. MemInv /\ CallInv => NoResponseLost
  BY DEF MemInv, CallInv, QuietCall, NoResponseLost, TypeOK
<1> QED
  BY <1>1, AlwaysMem, AlwaysCall, PTL

-----------------------------------------------------------------------------
(* Calls without a timeout.                                                *)

\* Only a signal makes a wait without a deadline fail.
ForeverInv ==
  wait = "forever" /\ pc \in Waiting /\ state = "failed" => hist = "signal"

\* SendOk resets state, and timed waits of other calls do not disturb it.
LEMMA AlwaysForever == Spec => []ForeverInv
<1>1. Init => ForeverInv
  BY DEF Init, ForeverInv, Waiting
<1>2. MemInv /\ ForeverInv /\ [Next]_vars => ForeverInv'
  BY DEF ForeverInv, Waiting, Next, Receiver, Caller, vars, PeerAnswers, ChuteStore,
     ChutePost, callerVars, Call, CheckChute, FreeOld, ForgetOld, Arm, SendOk,
     SendFails, TestChute, WaitPosted, WaitTimesOut, WaitInterrupted, Vet, Reject,
     Drop, ReturnNil, Take, Return, Release, Goto, restVars
<1> QED
  BY <1>1, <1>2, AlwaysMem, PTL DEF Spec

\* A call without a timeout whose request was sent comes back without a
\* response only if some wait was interrupted, whatever earlier calls left.
THEOREM ForeverGetsResponseHolds == Spec => ForeverGetsResponse
<1>1. ForeverInv => [ReturnNil /\ wait = "forever" => hist = "signal"]_vars
  BY DEF ForeverInv, ReturnNil, Goto, Waiting
<1> QED
  BY <1>1, AlwaysForever, PTL DEF ForeverGetsResponse

-----------------------------------------------------------------------------
(* The groups of mtosend_msg.                                              *)

\* The send goes on with the next group.
LEMMA NextGroup ==
  ASSUME SendInv, More, NEW b, Buffer(b), Outgoing(b),
         NEW o, Sending(o), o.kind \in {"route", "call"}, Kept(b, o),
         Proceed(b, o), spare' = Nil, live' = 1, WireInv'
  PROVE  SendInv'
<1>1. mb' = b /\ ended' = ended /\ op' = [o EXCEPT !.pc = "select", !.group = @ + 1]
  BY DEF Proceed
<1>2. /\ DOMAIN op' = OpFields /\ op'.pc = "select" /\ op'.kind = o.kind
      /\ op'.entry = o.entry /\ op'.ok = o.ok /\ op'.out = o.out /\ op'.tally = o.tally
      /\ op'.to = o.to /\ op'.left = o.left /\ op'.lost = o.lost
  BY <1>1 DEF Sending, OpFields
<1>3. Sending(op') /\ Kept(mb', op')
  BY <1>1, <1>2 DEF Sending, Kept
<1>4. AppInv' /\ SelectInv' /\ TryInv'
  BY <1>1, <1>2, <1>3 DEF AppInv, SelectInv, TryInv, InApp, Trying
<1> QED
  BY <1>1, <1>2, <1>4 DEF SendInv

\* The send returns, with a buffer or without.
LEMMA LastGroup ==
  ASSUME SendInv, ~More, NEW b, NEW o, Proceed(b, o), spare' = Nil, WireInv',
         o.kind \in {"route", "call"}, o.ok \in Nat, o.out \in Nat,
         o.kind = "route" /\ o.lost = "no" /\ o.left = "no" => o.tally[1] = o.out,
         \/ b = Nil /\ live' = 0 /\ o.out > 0 /\ (o.kind = "call" \/ o.left = "yes")
         \/ /\ Buffer(b) /\ Returnable(b) /\ live' = 1 /\ b.state # "NIL"
            /\ o.ok > 0 \/ b.state = "OK" <=> o.out > 0
  PROVE  SendInv'
<1>1. Returns(b, o)
  BY DEF Proceed
<1>2. op' = Idle /\ op'.pc = "idle"
  BY <1>1, IdleFacts DEF Returns
<1>3. SelectInv' /\ TryInv'
  BY <1>2 DEF SelectInv, TryInv, Trying
<1>4. CASE b = Nil /\ live' = 0 /\ o.out > 0 /\ (o.kind = "call" \/ o.left = "yes")
  <2>1. mb' = Nil /\ ended' = Outcome(o, "NIL")
    BY <1>1, <1>4 DEF Returns
  <2>2. AppInv'
    BY <1>4, <2>1 DEF AppInv
  <2>3. Reported(ended')
    BY <1>4, <2>1, OutcomeFacts DEF Reported
  <2> QED
    BY <1>2, <1>3, <2>2, <2>3 DEF SendInv
<1>5. CASE /\ Buffer(b) /\ Returnable(b) /\ live' = 1 /\ b.state # "NIL"
           /\ o.ok > 0 \/ b.state = "OK" <=> o.out > 0
  <2> DEFINE f == Final(b, o)
  <2>1. b # Nil
    BY <1>5, NotNil
  <2>2. /\ mb' = IF o.kind = "call" /\ f.state = "OK" THEN Nil ELSE f
        /\ ended' = Outcome(o, f.state)
    BY <1>1, <2>1 DEF Returns
  <2>3. /\ Buffer(f) /\ f.past = b.past /\ f.from = b.from /\ f.src = b.src /\ f.ip = b.ip
        /\ f.rts = b.rts /\ f.call = b.call
        /\ f.state = IF o.ok > 0 THEN "OK" ELSE b.state
    BY <1>5 DEF Final, Buffer, Fields
  <2> HIDE DEF f
  <2>4. Returnable(f)
    BY <1>5, <2>3 DEF Returnable
  <2>5. /\ ended'.kind = o.kind /\ ended'.out = o.out /\ ended'.lost = o.lost
        /\ ended'.tally = o.tally /\ ended'.st = f.state /\ ended'.left = o.left
    BY <2>2, OutcomeFacts
  <2>6. AppInv'
    <3>1. CASE o.kind = "call" /\ f.state = "OK"
      BY <2>2, <2>5, <3>1 DEF AppInv
    <3>2. CASE ~(o.kind = "call" /\ f.state = "OK")
      BY <1>5, <2>2, <2>3, <2>4, <3>2, NotNil DEF AppInv
    <3> QED
      BY <3>1, <3>2
  <2>7. Reported(ended')
    <3>1. f.state # "NIL" /\ (f.state = "OK" <=> o.out > 0)
      BY <1>5, <2>3
    <3> QED
      BY <2>5, <3>1 DEF Reported
  <2> QED
    BY <1>2, <1>3, <2>6, <2>7 DEF SendInv
<1> QED
  BY <1>4, <1>5

\* No endpoint of the group can be used.
LEMMA SelectNoneStep ==
  ASSUME SendInv, SelectNone
  PROVE  SendInv'
<1> DEFINE b == [mb EXCEPT !.state = "NOENDPT"]
<1>1. Proceed(b, op) /\ UNCHANGED <<spare, live, wire>> /\ op.pc = "select"
  BY DEF SelectNone
<1>2. /\ Sending(op) /\ op.kind \in {"route", "call"} /\ Buffer(mb) /\ Outgoing(mb)
      /\ Kept(mb, op) /\ spare = Nil /\ live = 1
  BY <1>1 DEF SendInv, SelectInv
<1>3. WireInv'
  BY <1>1 DEF SendInv, WireInv
<1>4. /\ Buffer(b) /\ b.state = "NOENDPT" /\ b.flags = mb.flags /\ b.past = mb.past
      /\ b.call = mb.call
  BY <1>2, StateBuffer
<1> HIDE DEF b
<1>5. Outgoing(b) /\ Kept(b, op) /\ Returnable(b)
  BY <1>2, <1>4 DEF Outgoing, Kept, Returnable
<1>6. CASE More
  BY <1>1, <1>2, <1>3, <1>4, <1>5, <1>6, NextGroup
<1>7. CASE ~More
  <2>1. /\ op.ok \in Nat /\ op.out \in Nat /\ (op.ok > 0 \/ b.state = "OK" <=> op.out > 0)
        /\ op.kind = "route" /\ op.lost = "no" /\ op.left = "no" => op.tally[1] = op.out
        /\ b.state # "NIL"
    BY <1>2, <1>4 DEF Sending
  <2> QED
    BY <1>1, <1>2, <1>3, <1>4, <1>5, <1>7, <2>1, LastGroup
<1> QED
  BY <1>6, <1>7

\* An endpoint with a socket: with more groups to come the message is cloned.
LEMMA SelectSockStep ==
  ASSUME SendInv, SelectSock
  PROVE  SendInv'
<1> DEFINE b == IF More THEN [mb EXCEPT !.flags = @ \cup {"NOALLOC"}] ELSE mb
<1>1. Attempt(op, b) /\ UNCHANGED <<wire, ended>> /\ op.pc = "select"
  BY DEF SelectSock
<1>2. /\ Sending(op) /\ op.kind \in {"route", "call"} /\ Buffer(mb) /\ Outgoing(mb)
      /\ Kept(mb, op) /\ spare = Nil /\ live = 1
  BY <1>1 DEF SendInv, SelectInv
<1>3. /\ Buffer(b) /\ Outgoing(b)
      /\ b.flags = IF More THEN mb.flags \cup {"NOALLOC"} ELSE mb.flags
  BY <1>2, FlagBuffer DEF Outgoing
<1> HIDE DEF b
<1>4. /\ Sending(op') /\ op'.pc = "try" /\ Buffer(mb') /\ mb'.plen = mb'.len
      /\ "clone" \notin mb'.past => mb'.src = "me" /\ mb'.ip = "me"
      /\ mb'.flags = b.flags /\ Outgoing(mb')
      /\ op'.kind = op.kind /\ op'.entry = op.entry /\ op'.group = op.group
      /\ op'.left = op.left
  BY <1>1, <1>2, <1>3, AttemptFacts DEF Outgoing
<1>5. More' <=> More
  BY <1>4 DEF More
<1>6. CASE More
  <2>1. spare' = CloneMsg(mb) /\ live' = 2
    BY <1>2, <1>6 DEF SelectSock
  <2>2. Buffer(spare') /\ Outgoing(spare') /\ spare'.flags = mb.flags
    BY <1>2, <2>1, CloneBuffer
  <2>3. Kept(spare', op') /\ "NOALLOC" \in mb'.flags
    BY <1>2, <1>3, <1>4, <1>6, <2>2 DEF Kept
  <2> QED
    BY <1>2, <1>4, <1>5, <1>6, <2>1, <2>2, <2>3 DEF TryInv, SendInv, AppInv, SelectInv, InApp,
       Trying, WireInv, SelectSock
<1>7. CASE ~More
  <2>1. spare' = Nil /\ live' = 1
    BY <1>2, <1>7 DEF SelectSock
  <2>2. Kept(mb', op')
    BY <1>2, <1>3, <1>4, <1>7 DEF Kept
  <2> QED
    BY <1>2, <1>4, <1>5, <1>7, <2>1, <2>2 DEF TryInv, SendInv, AppInv, SelectInv, InApp,
       Trying, WireInv, SelectSock
<1> QED
  BY <1>6, <1>7

-----------------------------------------------------------------------------
(* The attempts of send_msg.                                               *)

\* incr_ep_counts changes the counters only.
LEMMA CountFacts ==
  ASSUME NEW o, DOMAIN o = OpFields, o.tally[1] \in Nat, NEW st
  PROVE  LET n == Count(o, st)
         IN  /\ DOMAIN n = OpFields
             /\ n.tally[1] = IF st = "OK" THEN o.tally[1] + 1 ELSE o.tally[1]
             /\ n.kind = o.kind /\ n.entry = o.entry /\ n.ok = o.ok /\ n.out = o.out
             /\ n.to = o.to /\ n.left = o.left /\ n.lost = o.lost
<1> DEFINE n == Count(o, st)
<1>1. /\ DOMAIN n = OpFields
      /\ n.tally = IF st = "OK" THEN <<o.tally[1] + 1, o.tally[2]>>
                   ELSE <<o.tally[1], o.tally[2] + 1>>
      /\ n.kind = o.kind /\ n.entry = o.entry /\ n.ok = o.ok /\ n.out = o.out
      /\ n.to = o.to /\ n.left = o.left /\ n.lost = o.lost
  BY DEF Count, OpFields
<1> HIDE DEF n
<1>2. n.tally[1] = IF st = "OK" THEN o.tally[1] + 1 ELSE o.tally[1]
  BY <1>1
<1> QED
  BY <1>1, <1>2 DEF n

\* A frame of a buffer on its way fits its receiver, and leads back.
LEMMA FrameFacts ==
  ASSUME SendInv, Trying
  PROVE  Fits(Frame(mb, op.to)) /\ Back(Frame(mb, op.to))
<1> DEFINE w == Frame(mb, op.to)
<1>1. /\ Sending(op) /\ Buffer(mb) /\ mb.plen = mb.len
      /\ "clone" \notin mb.past => mb.src = "me" /\ mb.ip = "me"
      /\ IF op.kind = "rts" THEN Returning ELSE Outgoing(mb)
  BY DEF SendInv, TryInv
<1>2. /\ w.tot = TotLen(mb) /\ w.plen = mb.len /\ w.tr = mb.tr /\ w.src = mb.src
      /\ w.ip = mb.ip /\ w.call = mb.call /\ w.to = op.to /\ w.from = mb.from
      /\ w.past = mb.past /\ w.known = IF mb.len <= PayloadSize(mb) THEN "yes" ELSE "no"
  <2>1. /\ w.tot = TotLen(mb) /\ w.plen = mb.plen /\ w.tr = mb.tr /\ w.src = mb.src
        /\ w.ip = mb.ip /\ w.call = mb.call /\ w.to = op.to /\ w.from = mb.from
        /\ w.past = mb.past
        /\ w.known = IF mb.len <= PayloadSize(mb) THEN "yes" ELSE "no"
    BY Zenon DEF Frame
  <2> QED
    BY <1>1, <2>1
<1> HIDE DEF w
<1>3. Back(w)
  BY <1>1, <1>2 DEF Back, Sending, Returning, Outgoing
<1>4. ASSUME w.known = "yes"
      PROVE  LET rcvd == Received(w.tot, w.plen, w.tr, w.call)
             IN /\ rcvd # Nil /\ rcvd.len = w.plen /\ rcvd.state = "OK"
                /\ Tp + HdrLen(w.tr) + w.plen <= w.tot
  <2> DEFINE h == HdrLen(mb.tr)
             room == IF w.tot > Ibm THEN w.tot + Slack ELSE Ibm
             rcvd == Received(w.tot, w.plen, w.tr, w.call)
  <2>1. h \in Int /\ mb.len \in Int /\ mb.tr \in Int /\ mb.alloc \in Int
    BY <1>1, HdrLenInt DEF Buffer
  <2>2. mb.len <= mb.alloc - h - Tp
    BY <1>2, <1>4 DEF PayloadSize
  <2>3. w.tot = Smaller(mb.len + h + Tp, mb.alloc)
    BY <1>2 DEF TotLen
  <2> HIDE DEF h
  <2>4. w.tot = mb.len + h + Tp
    BY <2>1, <2>2, <2>3, LengthsAssumption DEF Smaller
  <2>5. w.tot \in Int /\ h + Tp + w.plen <= w.tot /\ Tp + h + w.plen <= w.tot
    BY <1>2, <2>1, <2>4, LengthsAssumption
  <2>6. h + Tp + w.plen <= room
    BY <1>2, <2>1, <2>4, LengthsAssumption
  <2>7. rcvd # Nil /\ rcvd.len = w.plen /\ rcvd.state = "OK"
    <3>1. w.plen \in Int /\ w.tr \in Int /\ h = HdrLen(w.tr)
      BY <1>2, <2>1 DEF h
    <3> QED
      BY <2>5, <2>6, <3>1, ReceivedBuffer, NotNil
  <2> QED
    BY <1>2, <2>5, <2>7 DEF h
<1> QED
  BY <1>3, <1>4 DEF Fits, w

\* A return or a wormhole send is over.
LEMMA SingleEnd ==
  ASSUME SendInv, op' = Idle, spare' = Nil, WireInv', NEW o, NEW st,
         ended' = Outcome(o, st), o.kind \in {"rts", "wh"}, o.out \in Nat,
         st \in {"OK", "NIL"} <=> o.out > 0, st = "NIL" => o.left = "yes",
         \/ mb' = Nil /\ live' = 0
         \/ Buffer(mb') /\ Returnable(mb') /\ live' = 1
  PROVE  SendInv'
<1>1. op'.pc = "idle"
  BY IdleFacts
<1>2. SelectInv' /\ TryInv'
  BY <1>1 DEF SelectInv, TryInv, Trying
<1>3. /\ ended'.kind = o.kind /\ ended'.out = o.out /\ ended'.st = st
      /\ ended'.left = o.left
  BY OutcomeFacts
<1>4. AppInv'
  BY <1>3, NotNil DEF AppInv
<1>5. Reported(ended')
  BY <1>3 DEF Reported
<1> QED
  BY <1>1, <1>2, <1>4, <1>5 DEF SendInv

\* rmr_rts_msg puts the sender back.
LEMMA Restored ==
  ASSUME SendInv, Trying, op.kind = "rts", NEW b, Buffer(b),
         \/ b.from = "none" /\ b.flags = {} /\ b.rts = "none" /\ b.past \subseteq {"shrunk"}
         \/ b.past = mb.past /\ b.call = mb.call /\ b.rts = mb.rts
  PROVE  LET n == [b EXCEPT !.src = op.src, !.ip = op.ip, !.flags = @ \cup {"ADDSRC"},
                            !.from = mb.from,
                            !.past = (@ \cup (mb.past \cap {"sent"})) \ {"clone"}]
         IN  Buffer(n) /\ Returnable(n)
<1> DEFINE n == [b EXCEPT !.src = op.src, !.ip = op.ip, !.flags = @ \cup {"ADDSRC"},
                          !.from = mb.from,
                          !.past = (@ \cup (mb.past \cap {"sent"})) \ {"clone"}]
<1>1. Returning /\ Buffer(mb)
  BY DEF SendInv, TryInv
<1>2. /\ DOMAIN n = Fields /\ n.src = op.src /\ n.ip = op.ip
      /\ n.flags = b.flags \cup {"ADDSRC"} /\ n.from = mb.from
      /\ n.past = (b.past \cup (mb.past \cap {"sent"})) \ {"clone"}
      /\ n.real = b.real /\ n.alloc = b.alloc /\ n.tr = b.tr /\ n.len = b.len
      /\ n.plen = b.plen /\ n.rts = b.rts /\ n.call = b.call
  BY DEF Buffer, Fields
<1> HIDE DEF n
<1>3. "ADDSRC" \in n.flags /\ ("shrunk" \in n.past <=> "shrunk" \in b.past)
  BY <1>2
<1>4. Buffer(n)
  BY <1>1, <1>2, <1>3 DEF Buffer, Returning
<1>5. /\ "sent" \notin n.past => "sent" \notin mb.past
      /\ "asked" \in n.past => "asked" \in b.past
  BY <1>2
<1>6. Returnable(n)
  <2>1. CASE b.from = "none" /\ b.flags = {} /\ b.rts = "none" /\ b.past \subseteq {"shrunk"}
    BY <1>1, <1>2, <1>5, <2>1 DEF Returnable, Returning
  <2>2. CASE b.past = mb.past /\ b.call = mb.call /\ b.rts = mb.rts
    BY <1>1, <1>2, <1>5, <2>2 DEF Returnable, Returning
  <2> QED
    BY <2>1, <2>2
<1> QED
  BY <1>4, <1>6 DEF n

\* The message goes out.
LEMMA TryOkStep ==
  ASSUME SendInv, TryOk
  PROVE  SendInv'
<1>0. Trying /\ wire' = Frame(mb, op.to) /\ spare' = Nil
  BY DEF TryOk
<1>1. /\ Sending(op) /\ Buffer(mb) /\ (op.kind = "rts" => Returning)
      /\ IF More THEN /\ live = 2 /\ "NOALLOC" \in mb.flags
                      /\ Buffer(spare) /\ Outgoing(spare) /\ Kept(spare, op)
         ELSE live = 1 /\ spare = Nil /\ Kept(mb, op)
  BY <1>0 DEF SendInv, TryInv
<1>2. WireInv'
  BY <1>0, FrameFacts DEF WireInv
<1> DEFINE o == [op EXCEPT !.ok = IF More THEN @ + 1 ELSE @, !.out = @ + 1]
<1>3. /\ DOMAIN o = OpFields /\ o.kind = op.kind /\ o.entry = op.entry /\ o.to = op.to
      /\ o.tally = op.tally /\ o.left = op.left /\ o.lost = op.lost
      /\ o.ok = (IF More THEN op.ok + 1 ELSE op.ok) /\ o.out = op.out + 1
  BY <1>1 DEF Sending, OpFields
<1>4. o.ok \in Nat /\ o.out \in Nat /\ o.out > 0 /\ o.tally[1] \in Nat
  BY <1>1, <1>3 DEF Sending
<1>5. CASE More
  <2> DEFINE b == [spare EXCEPT !.state = "OK"]
             k == Count(o, b.state)
  <2>1. /\ Buffer(b) /\ b.state = "OK" /\ b.flags = spare.flags /\ b.past = spare.past
        /\ b.call = spare.call
    BY <1>1, <1>5, StateBuffer
  <2>2. live' = 1 /\ Settled(b, o)
    <3>1. live' = live - 1 /\ Settled(IF More THEN b ELSE Nil, [op EXCEPT !.ok = IF More THEN @ + 1 ELSE @, !.out = @ + 1])
      BY <1>1, <1>5 DEF TryOk
    <3> QED
      BY <1>1, <1>5, <3>1
  <2> HIDE DEF b, o
  <2>3. op.kind \in {"route", "call"} /\ b # Nil
    BY <1>1, <1>5, <2>1, NotNil DEF Sending, More
  <2>4. Proceed(b, k)
    BY <2>2, <2>3, Zenon DEF Settled
  <2>5. /\ DOMAIN k = OpFields /\ k.tally[1] = op.tally[1] + 1 /\ k.kind = op.kind
        /\ k.entry = op.entry /\ k.ok = op.ok + 1 /\ k.out = op.out + 1 /\ k.to = op.to
        /\ k.left = op.left /\ k.lost = op.lost
    BY <1>3, <1>4, <1>5, <2>1, CountFacts
  <2> HIDE DEF k
  <2>6. Sending(k) /\ Kept(b, k) /\ Outgoing(b)
    <3>1. Sending(k)
      BY <1>1, <2>3, <2>5 DEF Sending
    <3>2. Kept(b, k) /\ Outgoing(b)
      BY <1>1, <1>5, <2>1, <2>5 DEF Kept, Outgoing
    <3> QED
      BY <3>1, <3>2
  <2> QED
    BY <1>0, <1>2, <1>5, <2>1, <2>2, <2>3, <2>4, <2>5, <2>6, NextGroup
<1>6. CASE ~More /\ "NOALLOC" \in mb.flags
  <2>1. live' = 0 /\ Settled(Nil, o)
    BY <1>1, <1>6 DEF TryOk
  <2> HIDE DEF o
  <2>2. op.kind = "call" \/ op.left = "yes"
    BY <1>1, <1>6 DEF Kept, Sending
  <2>3. CASE op.kind \in {"route", "call"}
    <3>1. Proceed(Nil, o)
      BY <2>1, <2>3, Zenon DEF Settled
    <3> QED
      BY <1>0, <1>2, <1>3, <1>4, <1>6, <2>1, <2>2, <2>3, <3>1, LastGroup
  <2>4. CASE op.kind \in {"rts", "wh"}
    <3>1. Bare(o)
      BY <2>1, <2>4, Zenon DEF Settled
    <3>2. mb' = Nil /\ op' = Idle /\ ended' = Outcome(o, "NIL")
      BY <3>1 DEF Bare
    <3> QED
      BY <1>0, <1>2, <1>3, <1>4, <2>1, <2>2, <2>4, <3>2, SingleEnd
  <2> QED
    BY <1>1, <2>3, <2>4 DEF Sending
<1>7. CASE ~More /\ "NOALLOC" \notin mb.flags
  <2> DEFINE b == AllocZcmsg(mb, 0, mb.tr, "OK")
             k == Count(o, b.state)
  <2>1. /\ Buffer(b) /\ Returnable(b) /\ b.state = "OK" /\ b.flags = {} /\ b.from = "none"
        /\ b.rts = "none" /\ b.past \subseteq {"shrunk"}
    <3>1. mb.tr \in Int
      BY <1>1 DEF Buffer
    <3>2. b.rts = "none" /\ b.past \subseteq {"shrunk"}
      BY DEF AllocZcmsg
    <3>3. Buffer(mb) /\ 0 \in Int
      BY <1>1
    <3>4. Buffer(b) /\ Returnable(b) /\ b.state = "OK" /\ b.flags = {} /\ b.from = "none"
      BY <3>1, <3>3, AllocBuffer
    <3> QED
      BY <3>2, <3>4, Zenon
  <2>2. live' = 1 /\ Settled(b, [op EXCEPT !.out = @ + 1])
    BY <1>1, <1>7 DEF TryOk
  <2>3. o = [op EXCEPT !.out = @ + 1]
    BY <1>1, <1>7, Zenon DEF Sending, OpFields
  <2>4. Settled(b, o)
    BY <2>2, <2>3
  <2>5. b # Nil
    BY <2>1, NotNil
  <2> HIDE DEF b, o
  <2>6. /\ DOMAIN k = OpFields /\ k.tally[1] = op.tally[1] + 1 /\ k.kind = op.kind
        /\ k.ok = op.ok /\ k.out = op.out + 1 /\ k.left = op.left /\ k.lost = op.lost
    <3>1. /\ DOMAIN k = OpFields
          /\ k.tally[1] = IF b.state = "OK" THEN o.tally[1] + 1 ELSE o.tally[1]
          /\ k.kind = o.kind /\ k.ok = o.ok /\ k.out = o.out /\ k.left = o.left
          /\ k.lost = o.lost
      <4>1. DOMAIN o = OpFields /\ o.tally[1] \in Nat
        BY <1>3, <1>4, Zenon
      <4> QED
        BY <4>1, CountFacts, Zenon
    <3> HIDE DEF k
    <3> QED
      BY <1>3, <1>7, <2>1, <3>1
  <2> HIDE DEF k
  <2>7. CASE op.kind \in {"route", "call"}
    <3>1. Proceed(b, k)
      BY <2>4, <2>5, <2>7, Zenon DEF Settled, k
    <3>2. /\ k.ok \in Nat /\ k.out \in Nat /\ k.out > 0 /\ k.kind \in {"route", "call"}
          /\ k.kind = "route" /\ k.lost = "no" /\ k.left = "no" => k.tally[1] = k.out
      <4>1. Sending(op)
        BY <1>1
      <4> QED
        BY <2>6, <2>7, <4>1 DEF Sending
    <3> QED
      BY <1>0, <1>2, <1>7, <2>1, <2>2, <3>1, <3>2, LastGroup
  <2>8. CASE op.kind = "rts"
    <3>1. /\ mb' = [b EXCEPT !.src = op.src, !.ip = op.ip, !.flags = @ \cup {"ADDSRC"},
                             !.from = mb.from,
                             !.past = (@ \cup (mb.past \cap {"sent"})) \ {"clone"}]
          /\ op' = Idle /\ ended' = Outcome(k, "OK")
      BY <2>1, <2>4, <2>5, <2>8 DEF Settled, k
    <3>2. Buffer(mb') /\ Returnable(mb')
      BY <1>0, <2>1, <2>8, <3>1, Restored, Zenon
    <3>3. k.out \in Nat /\ k.out > 0 /\ k.kind \in {"rts", "wh"}
      BY <1>1, <2>6, <2>8 DEF Sending
    <3> QED
      BY <1>0, <1>2, <2>2, <3>1, <3>2, <3>3, SingleEnd
  <2>9. CASE op.kind = "wh"
    <3>1. mb' = b /\ op' = Idle /\ ended' = Outcome(o, "OK")
      BY <2>1, <2>4, <2>5, <2>9 DEF Settled
    <3> QED
      BY <1>0, <1>2, <1>3, <1>4, <2>1, <2>2, <2>9, <3>1, SingleEnd
  <2> QED
    BY <1>1, <2>7, <2>8, <2>9 DEF Sending
<1> QED
  BY <1>5, <1>6, <1>7


\* SIsendt would block, and the retry loop of send_msg turns.
LEMMA TryAgainStep ==
  ASSUME SendInv, TryAgain
  PROVE  SendInv'
<1>1. Sending(op) /\ op.pc = "try" /\ UNCHANGED <<mb, spare, live, wire, ended>>
  BY DEF SendInv, TryInv, Trying, TryAgain
<1>2. /\ DOMAIN op' = OpFields /\ op'.pc = op.pc /\ op'.kind = op.kind
      /\ op'.entry = op.entry /\ op'.group = op.group /\ op'.to = op.to
      /\ op'.ok = op.ok /\ op'.out = op.out /\ op'.tally = op.tally
      /\ op'.left = op.left /\ op'.lost = op.lost /\ op'.src = op.src /\ op'.ip = op.ip
  <2>1. CASE op.spin > 1
    BY <1>1, <2>1 DEF TryAgain, Sending, OpFields
  <2>2. CASE ~(op.spin > 1)
    BY <1>1, <2>2 DEF TryAgain, Sending, OpFields
  <2> QED
    BY <2>1, <2>2
<1>3. (More <=> More') /\ Trying /\ Trying'
  BY <1>1, <1>2 DEF More, Trying
<1>4. Sending(op')
  BY <1>1, <1>2 DEF Sending
<1>5. /\ Returning => Returning'
      /\ Kept(spare, op) => Kept(spare', op')
      /\ Kept(mb, op) => Kept(mb', op')
  BY <1>1, <1>2 DEF Returning, Kept
<1>6. TryInv'
  <2>1. TryInv
    BY DEF SendInv
  <2> QED
    BY <1>1, <1>2, <1>3, <1>4, <1>5, <2>1 DEF TryInv
<1>7. AppInv' /\ SelectInv'
  BY <1>1, <1>2 DEF AppInv, SelectInv, InApp
<1>8. Reported(ended') /\ WireInv'
  BY <1>1 DEF SendInv, WireInv
<1> QED
  BY <1>1, <1>2, <1>6, <1>7, <1>8 DEF SendInv

\* The message does not go out.
LEMMA FailedStep ==
  ASSUME SendInv, Trying, UNCHANGED wire,
         NEW st \in {"RETRY", "SENDFAILED"}, Failed(st)
  PROVE  SendInv'
<1>0. spare' = Nil
  BY DEF Failed
<1>1. /\ Sending(op) /\ Buffer(mb)
      /\ IF op.kind = "rts" THEN Returning ELSE Outgoing(mb)
      /\ IF More THEN /\ live = 2 /\ "NOALLOC" \in mb.flags
                      /\ Buffer(spare) /\ Outgoing(spare) /\ Kept(spare, op)
         ELSE live = 1 /\ spare = Nil /\ Kept(mb, op)
  BY DEF SendInv, TryInv
<1>2. WireInv'
  BY DEF SendInv, WireInv
<1>3. CASE More
  <2> DEFINE o == [op EXCEPT !.lost = "yes"]
             k == Count(o, spare.state)
  <2>1. live' = 1 /\ Settled(spare, o)
    BY <1>1, <1>3 DEF Failed
  <2>2. /\ DOMAIN o = OpFields /\ o.kind = op.kind /\ o.entry = op.entry /\ o.to = op.to
        /\ o.tally = op.tally /\ o.left = op.left /\ o.lost = "yes"
        /\ o.ok = op.ok /\ o.out = op.out
    BY <1>1 DEF Sending, OpFields
  <2> HIDE DEF o
  <2>3. op.kind \in {"route", "call"} /\ spare # Nil
    BY <1>1, <1>3, NotNil DEF Sending, More
  <2>4. Proceed(spare, k)
    BY <2>1, <2>3, Zenon DEF Settled
  <2>5. o.tally[1] \in Nat
    BY <1>1, <2>2 DEF Sending
  <2>6. /\ DOMAIN k = OpFields /\ k.tally[1] \in Nat /\ k.kind = op.kind
        /\ k.entry = op.entry /\ k.ok = op.ok /\ k.out = op.out /\ k.to = op.to
        /\ k.left = op.left /\ k.lost = "yes"
    <3>1. /\ DOMAIN k = OpFields
          /\ k.tally[1] = IF spare.state = "OK" THEN o.tally[1] + 1 ELSE o.tally[1]
          /\ k.kind = o.kind /\ k.entry = o.entry /\ k.ok = o.ok /\ k.out = o.out
          /\ k.to = o.to /\ k.left = o.left /\ k.lost = o.lost
      BY <2>2, <2>5, CountFacts, Zenon
    <3> HIDE DEF k
    <3> QED
      BY <2>2, <2>5, <3>1
  <2> HIDE DEF k
  <2>7. Sending(k) /\ Kept(spare, k)
    <3>1. Sending(k)
      BY <1>1, <2>3, <2>6 DEF Sending
    <3>2. Kept(spare, k)
      BY <1>1, <1>3, <2>6 DEF Kept
    <3> QED
      BY <3>1, <3>2
  <2> QED
    BY <1>0, <1>1, <1>2, <1>3, <2>1, <2>3, <2>4, <2>6, <2>7, NextGroup
<1>4. CASE ~More
  <2> DEFINE b == [mb EXCEPT !.state = st]
             k == Count(op, b.state)
  <2>1. /\ Buffer(b) /\ b.state = st /\ b.flags = mb.flags /\ b.past = mb.past
        /\ b.call = mb.call
    BY <1>1, StateBuffer
  <2>2. b.rts = mb.rts /\ b.src = mb.src /\ b.ip = mb.ip /\ b.from = mb.from
    BY <1>1 DEF Buffer, Fields
  <2>3. live' = 1 /\ Settled(b, op)
    BY <1>1, <1>4 DEF Failed
  <2> HIDE DEF b
  <2>4. b # Nil /\ b.state # "OK" /\ b.state # "NIL"
    BY <2>1, NotNil
  <2>5. /\ k.tally[1] = op.tally[1] /\ k.kind = op.kind /\ k.ok = op.ok /\ k.out = op.out
        /\ k.left = op.left /\ k.lost = op.lost
    <3>1. DOMAIN op = OpFields /\ op.tally[1] \in Nat /\ b.state # "OK"
      BY <1>1, <2>4 DEF Sending
    <3> QED
      BY <3>1, CountFacts
  <2> HIDE DEF k
  <2>6. CASE op.kind \in {"route", "call"}
    <3>1. Proceed(b, k)
      BY <2>3, <2>4, <2>6, Zenon DEF Settled, k
    <3>2. Returnable(b)
      BY <1>1, <2>1, <2>2, <2>6 DEF Outgoing, Returnable
    <3>3. /\ k.ok \in Nat /\ k.out \in Nat /\ k.kind \in {"route", "call"}
          /\ k.kind = "route" /\ k.lost = "no" /\ k.left = "no" => k.tally[1] = k.out
          /\ k.ok > 0 <=> k.out > 0
      BY <1>1, <2>5, <2>6 DEF Sending
    <3> QED
      BY <1>0, <1>2, <1>4, <2>1, <2>3, <2>4, <3>1, <3>2, <3>3, LastGroup
  <2>7. op.kind \in {"rts", "wh"} => op.out = 0
    BY <1>1 DEF Sending
  <2>8. CASE op.kind = "rts"
    <3>1. /\ mb' = [b EXCEPT !.src = op.src, !.ip = op.ip, !.flags = @ \cup {"ADDSRC"},
                             !.from = mb.from,
                             !.past = (@ \cup (mb.past \cap {"sent"})) \ {"clone"}]
          /\ op' = Idle /\ ended' = Outcome(k, b.state)
      BY <2>3, <2>4, <2>8, Zenon DEF Settled, k
    <3>2. Buffer(mb') /\ Returnable(mb')
      BY <2>1, <2>2, <2>8, <3>1, Restored, Zenon
    <3> QED
      BY <1>0, <1>2, <2>3, <2>4, <2>5, <2>7, <2>8, <3>1, <3>2, SingleEnd
  <2>9. CASE op.kind = "wh"
    <3>1. mb' = b /\ op' = Idle /\ ended' = Outcome(op, b.state)
      BY <2>3, <2>4, <2>9, Zenon DEF Settled
    <3>2. Returnable(b)
      BY <1>1, <2>1, <2>2, <2>9 DEF Outgoing, Returnable
    <3> QED
      BY <1>0, <1>2, <2>1, <2>3, <2>4, <2>7, <2>9, <3>1, <3>2, SingleEnd
  <2> QED
    BY <1>1, <2>6, <2>8, <2>9 DEF Sending
<1> QED
  BY <1>3, <1>4

-----------------------------------------------------------------------------
(* The invariant and what follows from it.                                 *)

\* Every step of a send, of a return and of the application keeps SendInv.
LEMMA SendStep ==
  ASSUME SendInv, [SendNext]_svars
  PROVE  SendInv'
<1>1. CASE AllocMsg \/ TrallocMsg \/ RcvMsg \/ RcvTimeout \/ Retrace \/ Fill \/ Resize
             \/ FreeMsg \/ NoRoute \/ RtsNone
  BY <1>1, BufferStep, Zenon
<1>2. CASE SendMsg \/ CallMsg
  BY <1>2, RoutedStep, Zenon
<1>3. CASE RtsMsg
  BY <1>3, ReturnStep, Zenon
<1>4. CASE WhSendMsg
  BY <1>4, WormholeStep, Zenon
<1>5. CASE SelectNone
  BY <1>5, SelectNoneStep, Zenon
<1>6. CASE SelectSock
  BY <1>6, SelectSockStep, Zenon
<1>7. CASE TryOk
  BY <1>7, TryOkStep, Zenon
<1>8. CASE TryAgain
  BY <1>8, TryAgainStep, Zenon
<1>9. CASE TryBlocked
  <2> DEFINE st == IF op.retries > 0 THEN "RETRY" ELSE "SENDFAILED"
  <2>1. Trying /\ UNCHANGED wire /\ Failed(st)
    BY <1>9, Zenon DEF TryBlocked
  <2>2. st \in {"RETRY", "SENDFAILED"}
    OBVIOUS
  <2> HIDE DEF st
  <2> QED
    BY <2>1, <2>2, FailedStep, Zenon
<1>10. CASE TryFails
  <2>1. PICK st \in {"RETRY", "SENDFAILED"} : Failed(st)
    BY <1>10, Zenon DEF TryFails
  <2>2. Trying /\ UNCHANGED wire
    BY <1>10, Zenon DEF TryFails
  <2> QED
    BY <2>1, <2>2, FailedStep, Zenon
<1>11. CASE UNCHANGED svars
  <2>1. UNCHANGED <<mb, spare, op, live, wire, ended>>
    BY <1>11, Zenon DEF svars
  <2>2. AppInv' /\ SelectInv'
    BY <2>1, Zenon DEF SendInv, AppInv, SelectInv, InApp
  <2>3. TryInv'
    BY <2>1, Zenon DEF SendInv, TryInv, Trying, Returning, More
  <2>4. WireInv'
    BY <2>1, Zenon DEF SendInv, WireInv
  <2> QED
    BY <2>1, <2>2, <2>3, <2>4, Zenon DEF SendInv
<1> QED
  BY <1>1, <1>2, <1>3, <1>4, <1>5, <1>6, <1>7, <1>8, <1>9, <1>10, <1>11, Zenon DEF SendNext

\* SendInv is an invariant.
LEMMA SendAlways == SendSpec => []SendInv
<1>1. ASSUME SendInit PROVE SendInv
  <2>1. mb = Nil /\ spare = Nil /\ op.pc = "idle" /\ live = 0 /\ wire = NoFrame
    BY <1>1, IdleFacts DEF SendInit
  <2>2. Reported(ended)
    BY <1>1, IdleFacts DEF SendInit
  <2> QED
    BY <2>1, <2>2, Zenon DEF SendInv, AppInv, SelectInv, TryInv, WireInv, InApp, Trying
<1> QED
  BY <1>1, SendStep, PTL DEF SendSpec

\* For all buffer sizes, route entries, timeouts and group counts: what rmr_send_msg,
\* rmr_call, rmr_rts_msg and rmr_wh_send_msg report is what happened to the message,
\* the endpoint counters agree with it, and no buffer or clone is left over.
THEOREM SendReportedHolds == SendSpec => []SendReported
<1>1. ASSUME SendInv PROVE SendReported
  <2>1. Reported(ended)
    BY <1>1 DEF SendInv
  <2>2. InApp => spare = Nil
    BY <1>1 DEF SendInv, AppInv
  <2>3. InApp /\ ~(ended.kind = "call" /\ ended.st = "OK") =>
          live = IF mb = Nil THEN 0 ELSE 1
    BY <1>1 DEF SendInv, AppInv
  <2> QED
    BY <2>1, <2>2, <2>3, Zenon DEF SendReported, Reported
<1> QED
  BY <1>1, SendAlways, PTL

\* For all buffer sizes: the payload space that rmr_payload_size reports lies in the
\* transport buffer that alloc_zcmsg and its like made, and a payload that fits in it
\* arrives whole.
THEOREM PayloadFitsHolds == SendSpec => []PayloadFits
<1>1. ASSUME SendInv PROVE PayloadFits
  <2>1. mb # Nil => Buffer(mb)
    BY <1>1 DEF SendInv, AppInv, SelectInv, TryInv, InApp, Trying
  <2>2. mb # Nil /\ "shrunk" \notin mb.past => mb.alloc <= mb.real
    BY <2>1 DEF Buffer
  <2>3. wire # NoFrame => Fits(wire)
    BY <1>1 DEF SendInv, WireInv
  <2> QED
    BY <2>2, <2>3, Zenon DEF PayloadFits, Fits
<1> QED
  BY <1>1, SendAlways, PTL

\* For all buffer sizes and route entries: every frame names its sender, and a message
\* that rmr_rts_msg returns, also a second time, goes back to where it came from.
THEOREM ReturnPathHolds == SendSpec => []ReturnPath
<1>1. ASSUME SendInv PROVE ReturnPath
  <2>1. wire # NoFrame => Back(wire)
    BY <1>1 DEF SendInv, WireInv
  <2> QED
    BY <2>1, Zenon DEF ReturnPath, Back
<1> QED
  BY <1>1, SendAlways, PTL
=============================================================================
