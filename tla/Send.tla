-------------------------------- MODULE Send --------------------------------
(***************************************************************************)
(* One application thread and its message buffer (si/src/sr_si_static.c,   *)
(* si/src/rmr_si.c, common/src/wormholes.c): it allocates, fills, resizes  *)
(* and receives messages, and sends them by route (one endpoint of each    *)
(* round robin group of the route's entry, with a clone for each group but *)
(* the last), back to their sender, through a wormhole, or as a call whose *)
(* answer goes to a chute.  The route table, the connections and the wait  *)
(* for the answer are modelled elsewhere (RouteTable, Endpoint, Chute):    *)
(* here a lookup finds some entry or none, a selected endpoint has a       *)
(* socket or not, and an attempt to write goes out, would block or fails.  *)
(***************************************************************************)
EXTENDS Mbuf, Sequences

CONSTANTS
  Entries,     \* route table entries: endpoints per group; <<>> is a meid route
  Sizes, Traces, Lens,    \* what the application asks for
  Timeouts,    \* what rmr_set_stimeout is given
  Spin, SpinZero          \* 1000 and 100 attempts before a retry is used up

ASSUME AskedAssumption == Sizes \subseteq Int /\ Traces \subseteq Int /\ Lens \subseteq Int

VARIABLES
  mb,          \* the application's buffer
  spare,       \* the clone that the next group will get
  op,          \* the send in progress
  live,        \* buffers allocated since the application got its buffer
  wire,        \* the frame that went out last
  ended        \* what is known of the last send that returned

svars == <<mb, spare, op, live, wire, ended>>

(* ok, tally: ok_sends and the counts of incr_ep_counts, as <<good, other>>; *)
(* out, lost, st: groups it went to, whether an earlier one failed, the      *)
(* state returned, NIL for no buffer; left: the buffer had NOALLOC before    *)
Idle == [pc |-> "idle", kind |-> "none", entry |-> <<>>, group |-> 0, max |-> 0,
         retries |-> 0, spin |-> 0, ok |-> 0, tally |-> <<0, 0>>,
         src |-> "me", ip |-> "me", to |-> "endpoint",
         out |-> 0, lost |-> "no", st |-> "none", left |-> "no"]

NoFrame == [tot |-> 0]

Outcome(o, st) == [Idle EXCEPT !.kind = o.kind, !.out = o.out, !.lost = o.lost,
                               !.tally = o.tally, !.st = st, !.left = o.left]

SendInit ==
  /\ mb = Nil /\ spare = Nil /\ op = Idle /\ live = 0
  /\ wire = NoFrame /\ ended = Idle

InApp == op.pc = "idle"

(* wire and ended are looked at until the application goes on *)
Forget == wire' = NoFrame /\ ended' = Idle

(* the buffer the application had before is freed *)
Swap(b) ==
  /\ mb' = b /\ live' = 1
  /\ Forget /\ UNCHANGED <<spare, op>>

AllocMsg == InApp /\ \E size \in Sizes : Swap(AllocZcmsg(Nil, size, -1, "OK"))

TrallocMsg ==
  /\ InApp
  /\ \E size \in Sizes, tr \in Traces :
       Swap(SetTrace(AllocZcmsg(Nil, size, tr, "OK"), tr))

Answerable == ended.kind = "call" /\ ended.st = "NIL"

(* any message a peer may send that passes the check of buf2mbuf; only a    *)
(* call gets one that comes with a call id                                  *)
RcvMsg ==
  /\ InApp
  /\ \E plen \in Lens, tr \in Traces, call \in {"no", "ask", "id"} :
       LET b == Received(HdrLen(tr) + Tp + plen, plen, tr, call)
       IN b # Nil /\ (call = "id" => Answerable) /\ Swap(b)

RcvTimeout ==
  /\ InApp /\ mb # Nil
  /\ mb' = [mb EXCEPT !.state = "TIMEOUT", !.len = 0]
  /\ Forget /\ UNCHANGED <<spare, op, live>>

Change(b) ==
  /\ mb' = b
  /\ Forget /\ UNCHANGED <<spare, op, live>>

Retrace == InApp /\ mb # Nil /\ \E tr \in Traces : Change(SetTrace(mb, tr))

Fill == InApp /\ mb # Nil /\ \E n \in Lens : Change(BytesToPayload(mb, n))

(* with clone the application frees the original *)
Resize ==
  /\ InApp /\ mb # Nil
  /\ \E n \in Sizes, copy \in {"yes", "no"}, clone \in {"yes", "no"} :
       Change(ReallocPayload(mb, n, copy, clone))

FreeMsg ==
  /\ InApp /\ mb # Nil
  /\ mb' = Nil /\ live' = 0
  /\ Forget /\ UNCHANGED <<spare, op>>

(***************************************************************************)
(* Starting a send.                                                        *)
(***************************************************************************)
(* what rmr_send_msg and rmr_mtosend_msg do first, and mt_call instead *)
NoCall(b) == [b EXCEPT !.call = "no", !.past = @ \ {"asked"}]
AsCall(b) ==
  [b EXCEPT !.call = "ask", !.flags = @ \cup {"NOALLOC"}, !.past = @ \ {"asked"}]

(* NOALLOC stays: a send of this buffer will not give one back *)
NoRoute ==
  /\ InApp /\ mb # Nil
  /\ \E b \in {NoCall(mb), AsCall(mb)} : mb' = [b EXCEPT !.state = "NOENDPT"]
  /\ Forget /\ UNCHANGED <<spare, op, live>>

Stimeout(time) == IF time < 0 THEN 0 ELSE time

Routed(kind, e, max) ==
  [Idle EXCEPT !.pc = "select", !.kind = kind, !.entry = e, !.group = 1, !.max = max,
               !.left = IF "NOALLOC" \in mb.flags THEN "yes" ELSE "no"]

(* with the timeout of the context, which the application has set before *)
SendMsg ==
  /\ InApp /\ mb # Nil
  /\ \E e \in Entries, time \in Timeouts : op' = Routed("route", e, Stimeout(time))
  /\ mb' = [NoCall(mb) EXCEPT !.past = @ \cup {"sent"}]
  /\ Forget /\ UNCHANGED <<spare, live>>

(* rmr_call, rmr_mt_call: without retries *)
CallMsg ==
  /\ InApp /\ mb # Nil
  /\ \E e \in Entries : op' = Routed("call", e, 0)
  /\ mb' = [AsCall(mb) EXCEPT !.past = @ \cup {"sent"}]
  /\ Forget /\ UNCHANGED <<spare, live>>

(* the first attempt of send_msg: no retries is one with few attempts *)
Attempt(o, b) ==
  /\ mb' = Stamp(b)
  /\ op' = [o EXCEPT !.pc = "try",
                     !.retries = IF o.max = 0 THEN 1 ELSE o.max,
                     !.spin = IF o.max = 0 THEN SpinZero ELSE Spin]

(* by the name in the header, else on the connection it came on, else by    *)
(* the address in the header                                                *)
ReturnTo(b) ==
  {b.src} \cup CASE b.rts = "conn" -> {b.from}
                [] b.rts = "zero" -> {"zero"}
                [] OTHER -> {b.ip}

RtsNone ==
  /\ InApp /\ mb # Nil
  /\ mb.rts = "none" /\ mb' = [mb EXCEPT !.state = "NOENDPT"]
  /\ Forget /\ UNCHANGED <<spare, op, live>>

(* the name is ours while the message goes out, the address is not touched; *)
(* without the flag the call id leads to the chute of the caller            *)
RtsMsg ==
  /\ InApp /\ mb # Nil
  /\ \E to \in ReturnTo(mb) :
       Attempt([Idle EXCEPT !.kind = "rts", !.src = mb.src, !.ip = mb.ip,
                            !.to = to, !.max = -1,
                            !.left = IF "NOALLOC" \in mb.flags THEN "yes" ELSE "no"],
               [mb EXCEPT !.src = "me", !.call = IF @ = "ask" THEN "id" ELSE @])
  /\ Forget /\ UNCHANGED <<spare, live>>

WhSendMsg ==
  /\ InApp /\ mb # Nil
  /\ Attempt([Idle EXCEPT !.kind = "wh", !.max = -1,
                           !.left = IF "NOALLOC" \in mb.flags THEN "yes" ELSE "no"],
             [NoCall(mb) EXCEPT !.past = @ \cup {"sent"}])
  /\ Forget /\ UNCHANGED <<spare, live>>

(***************************************************************************)
(* The loop of mtosend_msg over the groups.                                *)
(***************************************************************************)
More == op.entry # <<>> /\ op.group < Len(op.entry)

Members == IF op.entry = <<>> THEN 1 ELSE op.entry[op.group]

(* what mtosend_msg does after its loop: ok_sends overrides the last state *)
FinalLast(b, o) == [b EXCEPT !.flags = @ \ {"NOALLOC"}]
Final(b, o) ==
  [b EXCEPT !.flags = @ \ {"NOALLOC"}, !.state = IF o.ok > 0 THEN "OK" ELSE @]

(* mtosend_msg returns: mt_call gives a failed message back and waits for   *)
(* the answer otherwise, without freeing a buffer that came with OK         *)
Returns(b, o) ==
  LET f == IF b = Nil THEN Nil ELSE Final(b, o)
      st == IF b = Nil THEN "NIL" ELSE f.state
  IN /\ mb' = IF o.kind = "call" /\ st = "OK" THEN Nil ELSE f
     /\ op' = Idle /\ ended' = Outcome(o, st)

(* the next group, or the return *)
Proceed(b, o) ==
  IF More
  THEN mb' = b /\ op' = [o EXCEPT !.pc = "select", !.group = @ + 1] /\ UNCHANGED ended
  ELSE Returns(b, o)

SelectNone ==
  /\ op.pc = "select"
  /\ Proceed([mb EXCEPT !.state = "NOENDPT"], op)
  /\ UNCHANGED <<spare, live, wire>>

SelectSock ==
  /\ op.pc = "select" /\ Members > 0
  /\ spare' = IF More THEN CloneMsg(mb) ELSE Nil
  /\ live' = IF More THEN live + 1 ELSE live
  /\ Attempt(op, IF More THEN [mb EXCEPT !.flags = @ \cup {"NOALLOC"}] ELSE mb)
  /\ UNCHANGED <<wire, ended>>

(***************************************************************************)
(* The attempts of send_msg and what its callers do with the result.       *)
(***************************************************************************)
Trying == op.pc = "try"

(* incr_ep_counts: <<good, other>> of this send *)
Count(o, st) ==
  [o EXCEPT !.tally = IF st = "OK" THEN <<@[1] + 1, @[2]>> ELSE <<@[1], @[2] + 1>>]

Bare(o) == mb' = Nil /\ op' = Idle /\ ended' = Outcome(o, "NIL")

(* rmr_rts_msg puts the sender back, so that the call can be repeated *)
Settled(b, o) ==
  CASE op.kind \in {"route", "call"} ->
         Proceed(b, IF b = Nil THEN o ELSE Count(o, b.state))
    [] op.kind = "rts" ->
         IF b = Nil THEN Bare(o)
         ELSE /\ mb' = [b EXCEPT !.src = op.src, !.ip = op.ip, !.flags = @ \cup {"ADDSRC"},
                                 !.from = mb.from,
                                 !.past = (@ \cup (mb.past \cap {"sent"})) \ {"clone"}]
              /\ op' = Idle /\ ended' = Outcome(Count(o, b.state), b.state)
    [] op.kind = "wh" ->
         IF b = Nil THEN Bare(o)
         ELSE mb' = b /\ op' = Idle /\ ended' = Outcome(o, b.state)

(* with NOALLOC the message is gone and the clone, if any, takes its place *)
TryOk ==
  /\ Trying
  /\ wire' = Frame(mb, op.to)
  /\ IF "NOALLOC" \in mb.flags
     THEN /\ live' = live - 1
          /\ Settled(IF More THEN [spare EXCEPT !.state = "OK"] ELSE Nil,
                     [op EXCEPT !.ok = IF More THEN @ + 1 ELSE @, !.out = @ + 1])
     ELSE /\ UNCHANGED live
          /\ Settled(AllocZcmsg(mb, 0, mb.tr, "OK"), [op EXCEPT !.out = @ + 1])
  /\ spare' = Nil

TryAgain ==
  /\ Trying /\ op.retries > 0
  /\ ~(op.spin = 1 /\ op.retries = 1)
  /\ op' = IF op.spin > 1 THEN [op EXCEPT !.spin = @ - 1]
           ELSE [op EXCEPT !.spin = Spin, !.retries = @ - 1]
  /\ UNCHANGED <<mb, spare, live, wire, ended>>

(* a failed message of an earlier group is freed; the clone keeps the state *)
(* it was made with, and that is the state counted for the endpoint         *)
Failed(st) ==
  IF More
  THEN /\ live' = live - 1 /\ spare' = Nil
       /\ Settled(spare, [op EXCEPT !.lost = "yes"])
  ELSE /\ UNCHANGED live /\ spare' = Nil
       /\ Settled([mb EXCEPT !.state = st], op)

(* the last attempt would block: RETRY, but without retries SENDFAILED *)
TryBlocked ==
  /\ Trying
  /\ op.retries > 0 => op.spin = 1 /\ op.retries = 1
  /\ Failed(IF op.retries > 0 THEN "RETRY" ELSE "SENDFAILED")
  /\ UNCHANGED wire

(* any other error: RETRY only if send() left EAGAIN in errno *)
TryFails ==
  /\ Trying
  /\ \E st \in {"RETRY", "SENDFAILED"} : Failed(st)
  /\ UNCHANGED wire

SendNext ==
  \/ AllocMsg \/ TrallocMsg \/ RcvMsg \/ RcvTimeout \/ Retrace \/ Fill \/ Resize
  \/ FreeMsg \/ NoRoute \/ SendMsg \/ CallMsg \/ RtsNone \/ RtsMsg \/ WhSendMsg
  \/ SelectNone \/ SelectSock \/ TryOk \/ TryAgain \/ TryBlocked \/ TryFails

SendSpec == SendInit /\ [][SendNext]_svars

-----------------------------------------------------------------------------
(* A send reports OK exactly when the message went out to at least one      *)
(* group (mtosend_msg: ok_sends, else the state of the last group), one     *)
(* buffer comes back, a call's excepted, and every clone is used up, and    *)
(* the counters of the endpoints say the same, except that a failed send to *)
(* an earlier group is counted with the state its clone was made with.      *)
(* Not so for a buffer that a call without a route gave back: MFL_NOALLOC   *)
(* is still on, and a send of it that goes out returns nil.  And a call to  *)
(* several groups of which the last failed loses the last clone.            *)
SendReported ==
  /\ ended.kind # "none" => (ended.st \in {"OK", "NIL"} <=> ended.out > 0)
  /\ ended.st = "NIL" => ended.kind = "call" \/ ended.left = "yes"
  /\ ended.kind = "route" /\ ended.lost = "no" /\ ended.left = "no" =>
       ended.tally[1] = ended.out
  /\ InApp => spare = Nil
  /\ InApp /\ ~(ended.kind = "call" /\ ended.st = "OK") =>
       live = IF mb = Nil THEN 0 ELSE 1

(* The payload space that rmr_payload_size reports lies in the transport    *)
(* buffer, and a payload that fits in it arrives whole: the frame holds all *)
(* of it and the receiver takes it with its length.  Not so after           *)
(* rmr_set_trace made the trace area smaller by more than the transport     *)
(* header: alloc_len then exceeds the buffer.                               *)
PayloadFits ==
  /\ mb # Nil /\ "shrunk" \notin mb.past => mb.alloc <= mb.real
  /\ wire # NoFrame /\ wire.known = "yes" =>
       LET got == Received(wire.tot, wire.plen, wire.tr, wire.call)
       IN /\ got # Nil /\ got.len = wire.plen /\ got.state = "OK"
          /\ Tp + HdrLen(wire.tr) + wire.plen <= wire.tot

(* Every frame names us as its sender, so that its receiver can return it,  *)
(* and a message that is returned goes to the one it was received from,     *)
(* also when the return is repeated, and to the chute that waits for it if  *)
(* it was received as a call; no other message of ours gets into a chute.   *)
(* Not so for a clone made by rmr_realloc_payload (MFL_ADDSRC is not        *)
(* copied), and not for a message that was first given to a send, which     *)
(* cleared the call id and stored our name over its sender.                 *)
ReturnPath ==
  wire # NoFrame =>
    /\ "clone" \notin wire.past => wire.src = "me" /\ wire.ip = "me"
    /\ wire.to = "endpoint" => wire.call \in {"no", "ask"}
    /\ wire.to # "endpoint" /\ wire.from = "peer" /\ "sent" \notin wire.past =>
         wire.to = "peer" /\ ("asked" \in wire.past => wire.call = "id")
=============================================================================
