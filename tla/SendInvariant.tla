--------------------------- MODULE SendInvariant ----------------------------
(***************************************************************************)
(* Proofs about Send.tla, part 1: what the calls on a buffer leave of it,  *)
(* the inductive invariant SendInv, and that the calls of the application  *)
(* and the beginning of a send preserve it.                                *)
(***************************************************************************)
EXTENDS Send, TLAPS

Fields == {"real", "alloc", "tr", "len", "plen", "src", "ip", "rts", "flags", "state",
           "call", "from", "past"}

\* A buffer: the payload space lies in it unless a trace area was shrunk, and
\* a header that does not name us gets our name when it is sent, but for a
\* clone made by rmr_realloc_payload.
Buffer(b) ==
  /\ DOMAIN b = Fields
  /\ b.real \in Int /\ b.alloc \in Int /\ b.tr \in Int /\ b.len \in Int /\ b.plen \in Int
  /\ b.src \in {"me", "peer"} /\ b.ip \in {"me", "peer"} /\ b.from \in {"none", "peer"}
  /\ "shrunk" \notin b.past => b.alloc <= b.real
  /\ "ADDSRC" \notin b.flags /\ "clone" \notin b.past => b.src = "me" /\ b.ip = "me"

\* A received message that was not given to a send leads back to its sender.
Returnable(b) ==
  b.from = "peer" /\ "sent" \notin b.past =>
    /\ b.src = "peer" /\ b.ip = "peer" /\ b.rts # "zero"
    /\ "asked" \in b.past => b.call \in {"ask", "id"}

\* A message given to a send by route, to a call or to a wormhole.
Outgoing(b) == "sent" \in b.past /\ b.call \in {"no", "ask"}

-----------------------------------------------------------------------------
(* What the calls of mbuf_api.c and sr_si_static.c make of a buffer.       *)

\* A buffer is not nil.
LEMMA NotNil ==
  ASSUME NEW b, Buffer(b)
  PROVE  b # Nil
  BY DEF Buffer, Fields, Nil

\* The lengths of a header are integers.
LEMMA HdrLenInt ==
  ASSUME NEW t \in Int
  PROVE  HdrLen(t) \in Int /\ HdrLen(t) + Tp \in Int
<1>1. Hdr \in Int /\ D1 \in Int /\ Tp \in Int
  BY LengthsAssumption
<1> QED
  BY <1>1 DEF HdrLen

\* alloc_zcmsg, from nothing or over a buffer.
LEMMA AllocBuffer ==
  ASSUME NEW b, b = Nil \/ Buffer(b), NEW size \in Int, NEW tr \in Int, NEW st
  PROVE  LET n == AllocZcmsg(b, size, tr, st)
         IN  Buffer(n) /\ Returnable(n) /\ n.state = st /\ n.flags = {} /\ n.from = "none"
<1> DEFINE n == AllocZcmsg(b, size, tr, st)
           mlen == HdrLen(IF tr > 0 THEN tr ELSE CtxTr)
                     + (IF size > 0 THEN size ELSE MaxPlen) + Tp
           fresh == IF b = Nil THEN TRUE ELSE mlen > b.alloc
<1>1. mlen \in Int
  <2> DEFINE x == IF tr > 0 THEN tr ELSE CtxTr
             y == IF size > 0 THEN size ELSE MaxPlen
  <2>1. x \in Int /\ y \in Int
    <3>1. CtxTr \in Int /\ MaxPlen \in Int
      BY LengthsAssumption
    <3> QED
      BY <3>1, Zenon
  <2> HIDE DEF x, y
  <2>2. HdrLen(x) + y + Tp \in Int
    <3>1. HdrLen(x) \in Int
      BY <2>1, HdrLenInt, Zenon
    <3> QED
      BY <2>1, <3>1, LengthsAssumption
  <2> QED
    BY <2>2 DEF x, y
<1> HIDE DEF mlen
<1>2. /\ DOMAIN n = Fields
      /\ n.real = (IF fresh THEN mlen ELSE b.real)
      /\ n.alloc = (IF fresh THEN mlen ELSE b.alloc)
      /\ n.past = (IF fresh THEN {} ELSE b.past \cap {"shrunk"})
      /\ n.tr = CtxTr /\ n.len = 0 /\ n.plen = 0 /\ n.src = "me" /\ n.ip = "me"
      /\ n.flags = {} /\ n.state = st /\ n.from = "none"
  BY DEF AllocZcmsg, Fields, mlen
<1> HIDE DEF n
<1>3. n.real \in Int /\ n.alloc \in Int /\ ("shrunk" \notin n.past => n.alloc <= n.real)
  <2>1. CASE fresh
    BY <1>1, <1>2, <2>1
  <2>2. CASE ~fresh
    <3>1. Buffer(b) /\ n.real = b.real /\ n.alloc = b.alloc
          /\ ("shrunk" \in n.past <=> "shrunk" \in b.past)
      BY <1>2, <2>2
    <3> QED
      BY <3>1 DEF Buffer
  <2> QED
    BY <2>1, <2>2
<1>4. Buffer(n) /\ Returnable(n)
  BY <1>2, <1>3, LengthsAssumption DEF Buffer, Returnable
<1> QED
  BY <1>2, <1>4 DEF n

\* rmr_set_trace.
LEMMA TraceBuffer ==
  ASSUME NEW b, Buffer(b), Returnable(b), NEW size \in Int
  PROVE  Buffer(SetTrace(b, size)) /\ Returnable(SetTrace(b, size))
<1> DEFINE n == SetTrace(b, size)
<1>1. CASE size <= 0 \/ size = b.tr
  BY <1>1 DEF SetTrace
<1>2. CASE ~(size <= 0 \/ size = b.tr)
  <2>1. /\ DOMAIN n = Fields
        /\ n.real = b.alloc + (size - b.tr) + Tp /\ n.tr = size
        /\ n.past = (IF b.tr - size > Tp THEN b.past \cup {"shrunk"} ELSE b.past)
        /\ n.alloc = b.alloc /\ n.len = b.len /\ n.plen = b.plen /\ n.src = b.src
        /\ n.ip = b.ip /\ n.rts = b.rts /\ n.flags = b.flags /\ n.call = b.call
        /\ n.from = b.from
    BY <1>2 DEF SetTrace, Buffer, Fields
  <2> HIDE DEF n
  <2>2. /\ "shrunk" \notin n.past => n.alloc <= n.real
        /\ n.real \in Int
    BY <2>1, LengthsAssumption DEF Buffer
  <2>3. \A x \in {"sent", "asked", "clone"} : x \in n.past <=> x \in b.past
    BY <2>1
  <2> QED
    BY <2>1, <2>2, <2>3 DEF Buffer, Returnable, n
<1> QED
  BY <1>1, <1>2

\* rmr_realloc_payload.
LEMMA ReallocBuffer ==
  ASSUME NEW b, Buffer(b), Returnable(b), NEW size \in Int, NEW copy, NEW clone
  PROVE  /\ Buffer(ReallocPayload(b, size, copy, clone))
         /\ Returnable(ReallocPayload(b, size, copy, clone))
<1> DEFINE n == ReallocPayload(b, size, copy, clone)
           mlen == HdrLen(b.tr) + Tp + Larger(size, PayloadSize(b))
           c == [b EXCEPT !.real = mlen]
           ref == RefTpbuf(c, mlen)
<1>0. mlen \in Int /\ mlen - HdrLen(b.tr) \in Int
  BY LengthsAssumption DEF Buffer, HdrLen, Larger, PayloadSize
<1>1. CASE clone = "no" /\ size <= PayloadSize(b)
  BY <1>1 DEF ReallocPayload
<1>2. CASE ~(clone = "no" /\ size <= PayloadSize(b))
  <2>1. n = [ref EXCEPT !.len = IF copy = "yes" THEN b.len ELSE 0,
                        !.flags = IF clone = "yes" THEN {} ELSE @,
                        !.past = (@ \ {"shrunk"}) \cup IF clone = "yes" THEN {"clone"} ELSE {}]
    BY <1>2 DEF ReallocPayload
  <2> HIDE DEF n, mlen
  <2>2. /\ DOMAIN c = Fields /\ c.real = mlen
        /\ c.tr = b.tr /\ c.plen = b.plen /\ c.src = b.src /\ c.ip = b.ip /\ c.rts = b.rts
        /\ c.flags = b.flags /\ c.call = b.call /\ c.from = b.from /\ c.past = b.past
    BY DEF Buffer, Fields
  <2> HIDE DEF c
  <2>3. /\ DOMAIN ref = Fields /\ ref.real = mlen /\ ref.alloc = mlen
        /\ ref.tr = b.tr /\ ref.plen = b.plen /\ ref.src = b.src /\ ref.ip = b.ip
        /\ ref.rts = b.rts /\ ref.flags = b.flags /\ ref.call = b.call /\ ref.from = b.from
        /\ ref.past = b.past
    BY <2>2 DEF RefTpbuf, Fields
  <2> HIDE DEF ref
  <2>4. /\ DOMAIN n = Fields /\ n.real = mlen /\ n.alloc = mlen
        /\ n.tr = b.tr /\ n.plen = b.plen /\ n.src = b.src /\ n.ip = b.ip
        /\ n.rts = b.rts /\ n.call = b.call /\ n.from = b.from
        /\ n.len = (IF copy = "yes" THEN b.len ELSE 0)
        /\ n.flags = (IF clone = "yes" THEN {} ELSE b.flags)
        /\ n.past = (b.past \ {"shrunk"}) \cup IF clone = "yes" THEN {"clone"} ELSE {}
    BY <2>1, <2>3 DEF Fields
  <2>5. /\ \A x \in {"sent", "asked"} : x \in n.past <=> x \in b.past
        /\ "clone" \notin n.past => clone # "yes" /\ "clone" \notin b.past
    BY <2>4
  <2>6. Buffer(n)
    BY <1>0, <2>4, <2>5 DEF Buffer
  <2>7. Returnable(n)
    BY <2>4, <2>5 DEF Returnable
  <2> QED
    BY <2>6, <2>7 DEF n
<1> QED
  BY <1>1, <1>2

\* rmr_bytes2payload.
LEMMA BytesBuffer ==
  ASSUME NEW b, Buffer(b), Returnable(b), NEW k \in Int
  PROVE  Buffer(BytesToPayload(b, k)) /\ Returnable(BytesToPayload(b, k))
<1> DEFINE n == BytesToPayload(b, k)
<1>1. /\ DOMAIN n = Fields /\ n.len \in Int
      /\ n.real = b.real /\ n.alloc = b.alloc /\ n.tr = b.tr /\ n.plen = b.plen
      /\ n.src = b.src /\ n.ip = b.ip /\ n.rts = b.rts /\ n.flags = b.flags
      /\ n.call = b.call /\ n.from = b.from /\ n.past = b.past
  BY LengthsAssumption DEF BytesToPayload, Buffer, Fields, Smaller
<1> HIDE DEF n
<1> QED
  BY <1>1 DEF Buffer, Returnable, n

\* buf2mbuf: a message of a peer.
LEMMA ReceivedBuffer ==
  ASSUME NEW tot \in Int, NEW plen \in Int, NEW tr \in Int, NEW call
  PROVE  LET n == Received(tot, plen, tr, call)
             room == IF tot > Ibm THEN tot + Slack ELSE Ibm
         IN  /\ HdrLen(tr) + Tp + plen <= room =>
                  /\ Buffer(n) /\ Returnable(n)
                  /\ n.len = plen /\ n.state = "OK"
             /\ ~(HdrLen(tr) + Tp + plen <= room) => n = Nil
<1> DEFINE n == Received(tot, plen, tr, call)
           room == IF tot > Ibm THEN tot + Slack ELSE Ibm
           raw == [AllocMbuf("UNSET") EXCEPT
                     !.real = room, !.tr = tr, !.plen = plen, !.call = call,
                     !.src = "peer", !.ip = "peer", !.rts = "conn", !.from = "peer",
                     !.past = IF call = "ask" THEN {"asked"} ELSE {}]
           ref == RefTpbuf(raw, room)
<1>0. room \in Int /\ HdrLen(tr) \in Int
  BY LengthsAssumption DEF HdrLen
<1>1. n = IF HdrLen(tr) + Tp + plen > room THEN Nil ELSE [ref EXCEPT !.flags = {"ADDSRC"}]
  BY DEF Received
<1> HIDE DEF n, room
<1>2. /\ DOMAIN raw = Fields /\ raw.real = room /\ raw.tr = tr /\ raw.plen = plen
      /\ raw.src = "peer" /\ raw.ip = "peer" /\ raw.rts = "conn" /\ raw.from = "peer"
      /\ raw.call = call /\ raw.past = (IF call = "ask" THEN {"asked"} ELSE {})
  BY Zenon DEF AllocMbuf, Fields
<1> HIDE DEF raw
<1>3. CASE HdrLen(tr) + Tp + plen <= room
  <2>1. plen <= room - HdrLen(tr)
    BY <1>0, <1>3, LengthsAssumption
  <2>2. ref = [raw EXCEPT !.alloc = room, !.len = plen, !.state = "OK"]
    BY <1>2, <2>1 DEF RefTpbuf
  <2> HIDE DEF ref
  <2>3. n = [ref EXCEPT !.flags = {"ADDSRC"}]
    BY <1>0, <1>1, <1>3, LengthsAssumption
  <2>4. /\ DOMAIN n = Fields /\ n.real = room /\ n.alloc = room /\ n.tr = tr /\ n.plen = plen
        /\ n.src = "peer" /\ n.ip = "peer" /\ n.rts = "conn" /\ n.from = "peer"
        /\ n.call = call /\ n.past = (IF call = "ask" THEN {"asked"} ELSE {})
        /\ n.len = plen /\ n.state = "OK" /\ n.flags = {"ADDSRC"}
    BY <1>2, <2>2, <2>3 DEF Fields
  <2>5. Buffer(n) /\ Returnable(n)
    BY <1>0, <2>4 DEF Buffer, Returnable
  <2> QED
    BY <1>3, <2>4, <2>5 DEF n, room
<1>4. CASE ~(HdrLen(tr) + Tp + plen <= room)
  BY <1>0, <1>1, <1>4, LengthsAssumption DEF n, room
<1> QED
  BY <1>3, <1>4

\* rmr_clone_msg.
LEMMA CloneBuffer ==
  ASSUME NEW b, Buffer(b), Outgoing(b)
  PROVE  /\ Buffer(CloneMsg(b)) /\ Outgoing(CloneMsg(b))
         /\ CloneMsg(b).flags = b.flags
<1> DEFINE n == CloneMsg(b)
<1>1. /\ DOMAIN n = Fields /\ n.real = b.alloc + Tp
      /\ n.alloc = b.alloc /\ n.tr = b.tr /\ n.len = b.len /\ n.plen = b.plen
      /\ n.src = b.src /\ n.ip = b.ip /\ n.flags = b.flags
      /\ n.call = b.call /\ n.from = b.from /\ n.past = b.past
  BY DEF CloneMsg, Buffer, Fields
<1> HIDE DEF n
<1>2. n.real \in Int /\ n.alloc <= n.real
  BY <1>1, LengthsAssumption DEF Buffer
<1> QED
  BY <1>1, <1>2 DEF Buffer, Outgoing, n

\* What send_msg stores in the header before the first attempt.
LEMMA StampBuffer ==
  ASSUME NEW b, Buffer(b)
  PROVE  /\ Buffer(Stamp(b)) /\ Stamp(b).plen = Stamp(b).len
         /\ "clone" \notin b.past => Stamp(b).src = "me" /\ Stamp(b).ip = "me"
         /\ Stamp(b).flags = b.flags /\ Stamp(b).past = b.past
         /\ Stamp(b).call = b.call /\ Stamp(b).from = b.from
<1> DEFINE n == Stamp(b)
<1>1. /\ DOMAIN n = Fields /\ n.plen = b.len
      /\ n.real = b.real /\ n.alloc = b.alloc /\ n.tr = b.tr /\ n.len = b.len
      /\ n.src = (IF "ADDSRC" \in b.flags THEN "me" ELSE b.src)
      /\ n.ip = (IF "ADDSRC" \in b.flags THEN "me" ELSE b.ip)
      /\ n.flags = b.flags /\ n.call = b.call /\ n.from = b.from /\ n.past = b.past
  BY DEF Stamp, Buffer, Fields
<1> HIDE DEF n
<1> QED
  BY <1>1 DEF Buffer, n

\* A buffer whose state is set.
LEMMA StateBuffer ==
  ASSUME NEW b, Buffer(b), NEW st
  PROVE  LET n == [b EXCEPT !.state = st]
         IN  /\ Buffer(n) /\ n.state = st /\ n.flags = b.flags /\ n.past = b.past
             /\ n.call = b.call /\ n.from = b.from /\ n.src = b.src /\ n.ip = b.ip
             /\ n.rts = b.rts
  BY DEF Buffer, Fields

\* What rmr_send_msg, rmr_wh_send_msg and mt_call do to the call id.
LEMMA CallBuffer ==
  ASSUME NEW b, Buffer(b), NEW n, n \in {NoCall(b), AsCall(b)}
  PROVE  /\ Buffer(n) /\ n.call \in {"no", "ask"} /\ n.past = b.past \ {"asked"}
         /\ n.from = b.from /\ n.src = b.src /\ n.ip = b.ip /\ n.rts = b.rts
         /\ n = NoCall(b) => n.flags = b.flags
<1>1. /\ DOMAIN n = Fields /\ n.call \in {"no", "ask"}
      /\ n.flags = b.flags \/ n.flags = b.flags \cup {"NOALLOC"}
      /\ n.past = b.past \ {"asked"}
      /\ n.real = b.real /\ n.alloc = b.alloc /\ n.tr = b.tr /\ n.len = b.len
      /\ n.plen = b.plen /\ n.src = b.src /\ n.ip = b.ip /\ n.from = b.from
      /\ n.rts = b.rts
  <2>1. CASE n = NoCall(b)
    BY <2>1 DEF Buffer, Fields, NoCall
  <2>2. CASE n = AsCall(b)
    BY <2>2 DEF Buffer, Fields, AsCall
  <2> QED
    BY <2>1, <2>2
<1>2. n = NoCall(b) => n.flags = b.flags
  BY DEF Buffer, Fields, NoCall
<1>3. /\ \A x \in {"shrunk", "clone"} : x \in n.past <=> x \in b.past
      /\ "ADDSRC" \in n.flags <=> "ADDSRC" \in b.flags
  BY <1>1
<1> QED
  BY <1>1, <1>2, <1>3 DEF Buffer

\* A buffer that a send has taken.
LEMMA SentBuffer ==
  ASSUME NEW b, Buffer(b), b.call \in {"no", "ask"}
  PROVE  LET n == [b EXCEPT !.past = @ \cup {"sent"}]
         IN  Buffer(n) /\ Outgoing(n) /\ n.flags = b.flags /\ n.from = b.from
<1> DEFINE n == [b EXCEPT !.past = @ \cup {"sent"}]
<1>1. /\ DOMAIN n = Fields /\ n.past = b.past \cup {"sent"}
      /\ n.real = b.real /\ n.alloc = b.alloc /\ n.tr = b.tr /\ n.len = b.len
      /\ n.plen = b.plen /\ n.src = b.src /\ n.ip = b.ip /\ n.from = b.from
      /\ n.flags = b.flags /\ n.call = b.call
  BY DEF Buffer, Fields
<1> HIDE DEF n
<1>2. \A x \in {"shrunk", "clone"} : x \in n.past <=> x \in b.past
  BY <1>1
<1> QED
  BY <1>1, <1>2 DEF Buffer, Outgoing, n

\* A buffer whose flags change, but for MFL_ADDSRC.
LEMMA FlagBuffer ==
  ASSUME NEW b, Buffer(b), NEW fl, "ADDSRC" \in b.flags => "ADDSRC" \in fl
  PROVE  LET n == [b EXCEPT !.flags = fl]
         IN  /\ Buffer(n) /\ n.flags = fl /\ n.past = b.past /\ n.call = b.call
             /\ n.from = b.from /\ n.src = b.src /\ n.ip = b.ip /\ n.rts = b.rts
             /\ n.state = b.state
  BY DEF Buffer, Fields

-----------------------------------------------------------------------------
(* The invariant.                                                          *)

OpFields == {"pc", "kind", "entry", "group", "max", "retries", "spin", "ok", "tally",
             "src", "ip", "to", "out", "lost", "st", "left"}

\* A send that has not returned: so far it went out as often as ok_sends
\* says, and the endpoints' counters agree if no clone was lost.
Sending(o) ==
  /\ DOMAIN o = OpFields
  /\ o.kind \in {"route", "call", "rts", "wh"}
  /\ o.ok \in Nat /\ o.out = o.ok
  /\ o.tally[1] \in Nat
  /\ o.kind = "route" /\ o.lost = "no" => o.tally[1] = o.out
  /\ o.kind \in {"rts", "wh"} => o.entry = <<>> /\ o.ok = 0
  /\ o.kind # "rts" => o.to = "endpoint"
  /\ o.left \in {"no", "yes"}

\* Only a call, or a buffer that came with it, has MFL_NOALLOC in its last
\* group.
Kept(b, o) == o.kind # "call" /\ o.left = "no" => "NOALLOC" \notin b.flags

\* What SendReported says of a send that returned.
Reported(e) ==
  /\ e.kind # "none" => (e.st \in {"OK", "NIL"} <=> e.out > 0)
  /\ e.st = "NIL" => e.kind = "call" \/ e.left = "yes"
  /\ e.kind = "route" /\ e.lost = "no" /\ e.left = "no" => e.tally[1] = e.out

AppInv ==
  InApp =>
    /\ spare = Nil
    /\ mb # Nil => Buffer(mb) /\ Returnable(mb) /\ live = 1
    /\ mb = Nil /\ ~(ended.kind = "call" /\ ended.st = "OK") => live = 0

SelectInv ==
  op.pc = "select" =>
    /\ Sending(op) /\ op.kind \in {"route", "call"}
    /\ Buffer(mb) /\ Outgoing(mb) /\ Kept(mb, op)
    /\ spare = Nil /\ live = 1

\* A message on its way back to its sender.
Returning ==
  /\ op.to # "endpoint" /\ op.src \in {"me", "peer"} /\ op.ip \in {"me", "peer"}
  /\ mb.from = "peer" /\ "sent" \notin mb.past =>
       /\ op.to = "peer" /\ op.src = "peer" /\ op.ip = "peer" /\ mb.rts # "zero"
       /\ "asked" \in mb.past => mb.call = "id"

TryInv ==
  Trying =>
    /\ Sending(op)
    /\ Buffer(mb) /\ mb.plen = mb.len
    /\ "clone" \notin mb.past => mb.src = "me" /\ mb.ip = "me"
    /\ IF op.kind = "rts" THEN Returning ELSE Outgoing(mb)
    /\ IF More THEN /\ live = 2 /\ "NOALLOC" \in mb.flags
                    /\ Buffer(spare) /\ Outgoing(spare) /\ Kept(spare, op)
       ELSE live = 1 /\ spare = Nil /\ Kept(mb, op)

\* What PayloadFits and ReturnPath say of a frame.
Fits(w) ==
  w.known = "yes" =>
    LET got == Received(w.tot, w.plen, w.tr, w.call)
    IN /\ got # Nil /\ got.len = w.plen /\ got.state = "OK"
       /\ Tp + HdrLen(w.tr) + w.plen <= w.tot

Back(w) ==
  /\ "clone" \notin w.past => w.src = "me" /\ w.ip = "me"
  /\ w.to = "endpoint" => w.call \in {"no", "ask"}
  /\ w.to # "endpoint" /\ w.from = "peer" /\ "sent" \notin w.past =>
       w.to = "peer" /\ ("asked" \in w.past => w.call = "id")

WireInv == wire # NoFrame => Fits(wire) /\ Back(wire)

SendInv ==
  /\ op.pc \in {"idle", "select", "try"}
  /\ AppInv /\ SelectInv /\ TryInv
  /\ Reported(ended) /\ WireInv

-----------------------------------------------------------------------------
(* The application.                                                        *)

\* A thread that is not in a send.
LEMMA IdleFacts ==
  /\ Idle.pc = "idle" /\ Idle.kind = "none" /\ Idle.st = "none"
  /\ Reported(Idle)
  BY DEF Idle, Reported

\* What an outcome keeps of a send.
LEMMA OutcomeFacts ==
  ASSUME NEW o, NEW st
  PROVE  LET e == Outcome(o, st)
         IN  /\ e.kind = o.kind /\ e.out = o.out /\ e.lost = o.lost
             /\ e.tally = o.tally /\ e.st = st /\ e.left = o.left
  BY DEF Outcome, Idle

\* The application has another buffer, or none, and has looked at the last
\* send.
LEMMA AppStep ==
  ASSUME SendInv, InApp, Forget, UNCHANGED <<spare, op>>,
         \/ Buffer(mb') /\ Returnable(mb') /\ live' = 1
         \/ mb' = Nil /\ live' = 0
  PROVE  SendInv'
<1>1. op.pc = "idle" /\ op' = op /\ spare = Nil /\ spare' = Nil
  BY DEF SendInv, AppInv, InApp
<1>2. AppInv' /\ SelectInv' /\ TryInv' /\ op'.pc = "idle"
  BY <1>1, NotNil DEF AppInv, SelectInv, TryInv, InApp, Trying
<1>3. Reported(ended') /\ WireInv'
  BY IdleFacts DEF Forget, WireInv
<1> QED
  BY <1>2, <1>3 DEF SendInv

\* Allocating, receiving, changing and freeing a buffer.
LEMMA BufferStep ==
  ASSUME SendInv,
         \/ AllocMsg \/ TrallocMsg \/ RcvMsg \/ RcvTimeout \/ Retrace \/ Fill \/ Resize
         \/ FreeMsg \/ NoRoute \/ RtsNone
  PROVE  SendInv'
<1>1. InApp /\ Forget /\ UNCHANGED <<spare, op>>
  BY DEF AllocMsg, TrallocMsg, RcvMsg, RcvTimeout, Retrace, Fill, Resize, FreeMsg,
     NoRoute, RtsNone, Swap, Change
<1>2. mb # Nil => Buffer(mb) /\ Returnable(mb) /\ live = 1
  BY <1>1 DEF SendInv, AppInv
<1>3. CASE AllocMsg
  <2>1. PICK size \in Sizes : Swap(AllocZcmsg(Nil, size, -1, "OK"))
    BY <1>3 DEF AllocMsg
  <2>2. size \in Int
    BY AskedAssumption
  <2>3. Buffer(mb') /\ Returnable(mb') /\ live' = 1
    BY <2>1, <2>2, AllocBuffer DEF Swap
  <2> QED
    BY <1>1, <2>3, AppStep
<1>4. CASE TrallocMsg
  <2>1. PICK size \in Sizes, tr \in Traces : Swap(SetTrace(AllocZcmsg(Nil, size, tr, "OK"), tr))
    BY <1>4 DEF TrallocMsg
  <2> DEFINE n == AllocZcmsg(Nil, size, tr, "OK")
  <2>2. size \in Int /\ tr \in Int
    BY AskedAssumption
  <2>3. Buffer(n) /\ Returnable(n)
    BY <2>2, AllocBuffer
  <2>4. mb' = SetTrace(n, tr) /\ live' = 1
    BY <2>1 DEF Swap
  <2> HIDE DEF n
  <2>5. Buffer(mb') /\ Returnable(mb')
    BY <2>2, <2>3, <2>4, TraceBuffer
  <2> QED
    BY <1>1, <2>4, <2>5, AppStep
<1>5. CASE RcvMsg
  <2>1. PICK plen \in Lens, tr \in Traces, call \in {"no", "ask", "id"} :
          LET b == Received(HdrLen(tr) + Tp + plen, plen, tr, call)
          IN  b # Nil /\ Swap(b)
    BY <1>5 DEF RcvMsg
  <2> DEFINE tot == HdrLen(tr) + Tp + plen
             b == Received(tot, plen, tr, call)
  <2>2. plen \in Int /\ tr \in Int
    BY AskedAssumption
  <2>3. tot \in Int
    <3>1. HdrLen(tr) + Tp \in Int
      BY <2>2, HdrLenInt
    <3> QED
      BY <2>2, <3>1
  <2>4. b # Nil /\ mb' = b /\ live' = 1
    BY <2>1 DEF Swap
  <2> HIDE DEF tot
  <2>5. Buffer(b) /\ Returnable(b)
    BY <2>2, <2>3, <2>4, ReceivedBuffer
  <2> HIDE DEF b
  <2> QED
    BY <1>1, <2>4, <2>5, AppStep
<1>6. CASE RcvTimeout
  <2>1. mb # Nil /\ live' = live /\ mb' = [mb EXCEPT !.state = "TIMEOUT", !.len = 0]
    BY <1>6 DEF RcvTimeout
  <2>2. Buffer(mb') /\ Returnable(mb')
    BY <1>2, <2>1 DEF Buffer, Returnable, Fields
  <2> QED
    BY <1>1, <1>2, <2>1, <2>2, AppStep
<1>7. CASE Retrace
  <2>1. PICK tr \in Traces : mb' = SetTrace(mb, tr)
    BY <1>7 DEF Retrace, Change
  <2>2. mb # Nil /\ live' = live /\ tr \in Int
    BY <1>7, AskedAssumption DEF Retrace, Change
  <2>3. Buffer(mb') /\ Returnable(mb')
    BY <1>2, <2>1, <2>2, TraceBuffer
  <2> QED
    BY <1>1, <1>2, <2>2, <2>3, AppStep
<1>8. CASE Fill
  <2>1. PICK n \in Lens : mb' = BytesToPayload(mb, n)
    BY <1>8 DEF Fill, Change
  <2>2. mb # Nil /\ live' = live /\ n \in Int
    BY <1>8, AskedAssumption DEF Fill, Change
  <2>3. Buffer(mb') /\ Returnable(mb')
    BY <1>2, <2>1, <2>2, BytesBuffer
  <2> QED
    BY <1>1, <1>2, <2>2, <2>3, AppStep
<1>9. CASE Resize
  <2>1. PICK n \in Sizes, copy \in {"yes", "no"}, clone \in {"yes", "no"} :
          mb' = ReallocPayload(mb, n, copy, clone)
    BY <1>9 DEF Resize, Change
  <2>2. mb # Nil /\ live' = live /\ n \in Int
    BY <1>9, AskedAssumption DEF Resize, Change
  <2>3. Buffer(mb') /\ Returnable(mb')
    BY <1>2, <2>1, <2>2, ReallocBuffer
  <2> QED
    BY <1>1, <1>2, <2>2, <2>3, AppStep
<1>10. CASE FreeMsg
  <2>1. mb' = Nil /\ live' = 0
    BY <1>10 DEF FreeMsg
  <2> QED
    BY <1>1, <2>1, AppStep
<1>11. CASE NoRoute
  <2>1. PICK b \in {NoCall(mb), AsCall(mb)} : mb' = [b EXCEPT !.state = "NOENDPT"]
    BY <1>11 DEF NoRoute
  <2>2. mb # Nil /\ live' = live
    BY <1>11 DEF NoRoute
  <2>3. /\ Buffer(b) /\ b.past = mb.past \ {"asked"}
        /\ b.from = mb.from /\ b.src = mb.src /\ b.ip = mb.ip /\ b.rts = mb.rts
    BY <1>2, <2>2, CallBuffer
  <2>4. /\ Buffer(mb') /\ mb'.past = b.past /\ mb'.from = b.from /\ mb'.src = b.src
        /\ mb'.ip = b.ip /\ mb'.rts = b.rts
    BY <2>1, <2>3, StateBuffer
  <2>5. Returnable(mb')
    BY <1>2, <2>2, <2>3, <2>4 DEF Returnable
  <2> QED
    BY <1>1, <1>2, <2>2, <2>4, <2>5, AppStep
<1>12. CASE RtsNone
  <2>1. mb # Nil /\ live' = live /\ mb' = [mb EXCEPT !.state = "NOENDPT"]
    BY <1>12 DEF RtsNone
  <2>2. Buffer(mb') /\ Returnable(mb')
    BY <1>2, <2>1, StateBuffer DEF Returnable
  <2> QED
    BY <1>1, <1>2, <2>1, <2>2, AppStep
<1> QED
  BY <1>3, <1>4, <1>5, <1>6, <1>7, <1>8, <1>9, <1>10, <1>11, <1>12

-----------------------------------------------------------------------------
(* Starting a send.                                                        *)

\* rmr_send_msg, rmr_mtosend_msg and mt_call with a route.
LEMMA RoutedStep ==
  ASSUME SendInv, SendMsg \/ CallMsg
  PROVE  SendInv'
<1>1. InApp /\ mb # Nil /\ Forget /\ UNCHANGED <<spare, live>>
  BY DEF SendMsg, CallMsg
<1>2. Buffer(mb) /\ live = 1 /\ spare = Nil
  BY <1>1 DEF SendInv, AppInv
<1>3. Outgoing(mb') /\ Buffer(mb')
  <2>1. PICK b \in {NoCall(mb), AsCall(mb)} : mb' = [b EXCEPT !.past = @ \cup {"sent"}]
    BY DEF SendMsg, CallMsg
  <2>2. Buffer(b) /\ b.call \in {"no", "ask"}
    BY <1>2, CallBuffer
  <2> QED
    BY <2>1, <2>2, SentBuffer
<1>4. SendMsg => mb'.flags = mb.flags
  <2>1. SUFFICES ASSUME SendMsg PROVE mb'.flags = mb.flags
    OBVIOUS
  <2> DEFINE b == NoCall(mb)
  <2>2. mb' = [b EXCEPT !.past = @ \cup {"sent"}]
    BY <2>1 DEF SendMsg
  <2>3. Buffer(b) /\ b.call \in {"no", "ask"} /\ b.flags = mb.flags
    BY <1>2, CallBuffer
  <2> HIDE DEF b
  <2> QED
    BY <2>2, <2>3, SentBuffer
<1>5. \E kind \in {"route", "call"} : \E e, max :
        op' = Routed(kind, e, max) /\ (kind = "route" => SendMsg)
  BY DEF SendMsg, CallMsg
<1>6. PICK kind \in {"route", "call"} : \E e, max :
        op' = Routed(kind, e, max) /\ (kind = "route" => SendMsg)
  BY <1>5
<1>7. /\ DOMAIN op' = OpFields /\ op'.pc = "select" /\ op'.kind = kind
      /\ op'.ok = 0 /\ op'.out = 0 /\ op'.tally = <<0, 0>> /\ op'.to = "endpoint"
      /\ op'.left = (IF "NOALLOC" \in mb.flags THEN "yes" ELSE "no")
  BY <1>6 DEF Routed, Idle, OpFields
<1>8. Sending(op') /\ Kept(mb', op')
  BY <1>4, <1>6, <1>7 DEF Sending, Kept
<1>9. AppInv' /\ SelectInv' /\ TryInv'
  BY <1>1, <1>2, <1>3, <1>7, <1>8 DEF AppInv, SelectInv, TryInv, InApp, Trying
<1>10. Reported(ended') /\ WireInv'
  BY <1>1, IdleFacts DEF Forget, WireInv
<1> QED
  BY <1>7, <1>9, <1>10 DEF SendInv

\* The state that the first attempt of send_msg starts from.
LEMMA AttemptFacts ==
  ASSUME NEW o, Sending(o), NEW b, Buffer(b), Attempt(o, b)
  PROVE  /\ Sending(op') /\ op'.pc = "try" /\ Buffer(mb') /\ mb'.plen = mb'.len
         /\ "clone" \notin b.past => mb'.src = "me" /\ mb'.ip = "me"
         /\ mb'.flags = b.flags /\ mb'.past = b.past /\ mb'.call = b.call /\ mb'.from = b.from
         /\ op'.kind = o.kind /\ op'.entry = o.entry /\ op'.group = o.group
         /\ op'.src = o.src /\ op'.ip = o.ip /\ op'.to = o.to /\ op'.left = o.left
<1>1. /\ Buffer(mb') /\ mb'.plen = mb'.len
      /\ "clone" \notin b.past => mb'.src = "me" /\ mb'.ip = "me"
      /\ mb'.flags = b.flags /\ mb'.past = b.past /\ mb'.call = b.call /\ mb'.from = b.from
  BY StampBuffer DEF Attempt
<1>2. /\ DOMAIN op' = OpFields /\ op'.pc = "try" /\ op'.kind = o.kind /\ op'.entry = o.entry
      /\ op'.group = o.group /\ op'.ok = o.ok /\ op'.out = o.out /\ op'.tally = o.tally
      /\ op'.src = o.src /\ op'.ip = o.ip /\ op'.to = o.to /\ op'.left = o.left
      /\ op'.lost = o.lost
  BY DEF Attempt, Sending, OpFields
<1> QED
  BY <1>1, <1>2 DEF Sending

\* rmr_wh_send_msg.
LEMMA WormholeStep ==
  ASSUME SendInv, WhSendMsg
  PROVE  SendInv'
<1> DEFINE o == [Idle EXCEPT !.kind = "wh", !.max = -1,
                             !.left = IF "NOALLOC" \in mb.flags THEN "yes" ELSE "no"]
           c == NoCall(mb)
           b == [c EXCEPT !.past = @ \cup {"sent"}]
<1>1. InApp /\ mb # Nil /\ Forget /\ UNCHANGED <<spare, live>> /\ Attempt(o, b)
  BY DEF WhSendMsg
<1>2. Buffer(mb) /\ live = 1 /\ spare = Nil
  BY <1>1 DEF SendInv, AppInv
<1>3. Buffer(c) /\ c.call \in {"no", "ask"} /\ c.flags = mb.flags
  BY <1>2, CallBuffer
<1> HIDE DEF c
<1>4. Buffer(b) /\ Outgoing(b) /\ b.flags = mb.flags
  BY <1>3, SentBuffer
<1>5. /\ Sending(o) /\ o.kind = "wh" /\ o.entry = <<>>
      /\ o.left = (IF "NOALLOC" \in mb.flags THEN "yes" ELSE "no")
  BY DEF Sending, Idle, OpFields
<1> HIDE DEF o, b
<1>6. /\ Sending(op') /\ op'.pc = "try" /\ Buffer(mb') /\ mb'.plen = mb'.len
      /\ "clone" \notin mb'.past => mb'.src = "me" /\ mb'.ip = "me"
      /\ mb'.flags = mb.flags /\ Outgoing(mb')
      /\ op'.kind = "wh" /\ op'.entry = <<>> /\ op'.left = o.left
  BY <1>1, <1>4, <1>5, AttemptFacts DEF Outgoing
<1>7. ~More' /\ Kept(mb', op')
  BY <1>5, <1>6 DEF More, Kept
<1>8. TryInv'
  BY <1>1, <1>2, <1>6, <1>7 DEF TryInv
<1>9. AppInv' /\ SelectInv'
  BY <1>6 DEF AppInv, SelectInv, InApp
<1>10. Reported(ended') /\ WireInv'
  BY <1>1, IdleFacts DEF Forget, WireInv
<1> QED
  BY <1>6, <1>8, <1>9, <1>10 DEF SendInv

\* rmr_rts_msg.
LEMMA ReturnStep ==
  ASSUME SendInv, RtsMsg
  PROVE  SendInv'
<1>1. InApp /\ mb # Nil /\ Forget /\ UNCHANGED <<spare, live>>
  BY DEF RtsMsg
<1>2. Buffer(mb) /\ Returnable(mb) /\ live = 1 /\ spare = Nil
  BY <1>1 DEF SendInv, AppInv
<1>3. PICK to \in ReturnTo(mb) :
        Attempt([Idle EXCEPT !.kind = "rts", !.src = mb.src, !.ip = mb.ip,
                             !.to = to, !.max = -1,
                             !.left = IF "NOALLOC" \in mb.flags THEN "yes" ELSE "no"],
                [mb EXCEPT !.src = "me", !.call = IF @ = "ask" THEN "id" ELSE @])
  BY Zenon DEF RtsMsg
<1> DEFINE o == [Idle EXCEPT !.kind = "rts", !.src = mb.src, !.ip = mb.ip,
                             !.to = to, !.max = -1,
                             !.left = IF "NOALLOC" \in mb.flags THEN "yes" ELSE "no"]
           b == [mb EXCEPT !.src = "me", !.call = IF @ = "ask" THEN "id" ELSE @]
<1>4. Attempt(o, b)
  BY <1>3
<1>5. /\ Sending(o) /\ o.kind = "rts" /\ o.entry = <<>> /\ o.src = mb.src /\ o.ip = mb.ip
      /\ o.to = to /\ o.left = (IF "NOALLOC" \in mb.flags THEN "yes" ELSE "no")
  BY DEF Sending, Idle, OpFields
<1>6. /\ Buffer(b) /\ b.flags = mb.flags /\ b.past = mb.past /\ b.from = mb.from
      /\ b.rts = mb.rts /\ b.call = (IF mb.call = "ask" THEN "id" ELSE mb.call)
  BY <1>2 DEF Buffer, Fields
<1>7. to # "endpoint"
  BY <1>2 DEF ReturnTo, Buffer
<1>8. mb.from = "peer" /\ "sent" \notin mb.past => to = "peer"
  BY <1>2 DEF ReturnTo, Returnable
<1> HIDE DEF o, b
<1>9. /\ Sending(op') /\ op'.pc = "try" /\ Buffer(mb') /\ mb'.plen = mb'.len
      /\ "clone" \notin mb'.past => mb'.src = "me" /\ mb'.ip = "me"
      /\ mb'.flags = mb.flags /\ mb'.past = mb.past /\ mb'.from = mb.from
      /\ mb'.call = b.call
      /\ op'.kind = "rts" /\ op'.entry = <<>> /\ op'.left = o.left
      /\ op'.src = mb.src /\ op'.ip = mb.ip /\ op'.to = to
  <2>1. Sending(o) /\ Buffer(b)
    BY <1>5, <1>6, Zenon
  <2>2. /\ Sending(op') /\ op'.pc = "try" /\ Buffer(mb') /\ mb'.plen = mb'.len
        /\ "clone" \notin b.past => mb'.src = "me" /\ mb'.ip = "me"
        /\ mb'.flags = b.flags /\ mb'.past = b.past /\ mb'.call = b.call
        /\ mb'.from = b.from
        /\ op'.kind = o.kind /\ op'.entry = o.entry /\ op'.left = o.left
        /\ op'.src = o.src /\ op'.ip = o.ip /\ op'.to = o.to
    BY <1>4, <2>1, AttemptFacts, Zenon
  <2> QED
    BY <1>5, <1>6, <2>2, Zenon
<1>10. mb'.rts = mb.rts
  BY <1>4, <1>6 DEF Attempt, Stamp, Buffer, Fields
<1>11. Returning'
  BY <1>2, <1>6, <1>7, <1>8, <1>9, <1>10 DEF Returning, Returnable, Buffer
<1>12. ~More' /\ Kept(mb', op')
  BY <1>5, <1>9 DEF More, Kept
<1>13. TryInv'
  BY <1>1, <1>2, <1>9, <1>11, <1>12 DEF TryInv
<1>14. AppInv' /\ SelectInv'
  BY <1>9 DEF AppInv, SelectInv, InApp
<1>15. Reported(ended') /\ WireInv'
  BY <1>1, IdleFacts DEF Forget, WireInv
<1> QED
  BY <1>9, <1>13, <1>14, <1>15 DEF SendInv
=============================================================================
