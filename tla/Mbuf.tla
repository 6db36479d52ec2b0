-------------------------------- MODULE Mbuf --------------------------------
(***************************************************************************)
(* Message buffers (si/src/sr_si_static.c, common/src/mbuf_api.c): what    *)
(* each call does to the lengths, the source and the state of a buffer.    *)
(* A buffer is Nil or a record                                             *)
(*   real    bytes of the transport buffer that were allocated             *)
(*   alloc   alloc_len, the bytes that RMR believes it has                 *)
(*   tr      length of the trace area, in the header                       *)
(*   len     payload length in the mbuf        plen   same, in the header  *)
(*   src ip  sender's name and address in the header: "me" or "peer"       *)
(*   rts     "conn" when rts_fd is the connection the message came on      *)
(*   flags   MFL_ADDSRC, MFL_NOALLOC           state  what the caller sees *)
(*   call    "ask": HFL_CALL_MSG is set; else the call id in the data area *)
(*           is "no" (0), "id" (of a chute), "any" (not initialised)       *)
(* and, for the properties only, the sender it was received from (from)    *)
(* and what happened to it (past).                                         *)
(***************************************************************************)
EXTENDS Integers

CONSTANTS
  Hdr,        \* sizeof( uta_mhdr_t )
  Tp,         \* TP_HDR_LEN, the transport header
  D1,         \* d1_len, the header's data area
  CtxTr,      \* trace_data_len of the context
  MaxPlen,    \* default payload size of the context
  Ibm,        \* max_ibm + 1024, the usual size of an accumulator
  Slack       \* spare bytes of an accumulator for a larger message

ASSUME LengthsAssumption ==
  /\ Hdr \in Nat /\ Tp \in Nat /\ D1 \in Nat /\ CtxTr \in Nat
  /\ MaxPlen \in Nat /\ Ibm \in Nat /\ Slack \in Nat

Nil == [real |-> 0]

Larger(m, n) == IF m > n THEN m ELSE n
Smaller(m, n) == IF m < n THEN m ELSE n

(* RMR_HDR_LEN and PAYLOAD_OFFSET: the header with trace and data *)
HdrLen(tr) == Hdr + tr + D1

PayloadSizeNoTp(b) == b.alloc - HdrLen(b.tr)
PayloadSize(b) == b.alloc - HdrLen(b.tr) - Tp

(* the header starts over: our name, the trace length of the CONTEXT even   *)
(* when the space is for another, no flags; the old buffer if large enough; *)
(* the data area, past the header proper, is left as it is                  *)
AllocZcmsg(b, size, trlo, st) ==
  LET mlen  == HdrLen(IF trlo > 0 THEN trlo ELSE CtxTr)
                 + (IF size > 0 THEN size ELSE MaxPlen) + Tp
      fresh == IF b = Nil THEN TRUE ELSE mlen > b.alloc
  IN [real  |-> IF fresh THEN mlen ELSE b.real,
      alloc |-> IF fresh THEN mlen ELSE b.alloc,
      tr |-> CtxTr, len |-> 0, plen |-> 0, src |-> "me", ip |-> "me",
      rts |-> "none", flags |-> {}, state |-> st, call |-> "any", from |-> "none",
      past |-> IF fresh THEN {} ELSE b.past \cap {"shrunk"}]

(* only the mbuf: the transport buffer is the one received *)
AllocMbuf(st) ==
  [real |-> 0, alloc |-> 0, tr |-> 0, len |-> -1, plen |-> 0, src |-> "", ip |-> "",
   rts |-> "zero", flags |-> {}, state |-> st, call |-> "no", from |-> "none",
   past |-> {}]

RefTpbuf(b, alen) ==
  LET fits == b.plen <= alen - HdrLen(b.tr)
  IN [b EXCEPT !.alloc = alen,
               !.len   = IF fits THEN b.plen ELSE alen - HdrLen(b.tr),
               !.state = IF fits THEN "OK" ELSE "TRUNC"]

CloneMsg(b) == [b EXCEPT !.real = b.alloc + Tp, !.rts = "zero"]

(* realloc_msg allocates a transport header too many; rmr_set_trace takes   *)
(* the new transport buffer and leaves alloc_len as it was                  *)
SetTrace(b, size) ==
  IF size <= 0 \/ size = b.tr THEN b
  ELSE [b EXCEPT !.real = b.alloc + (size - b.tr) + Tp, !.tr = size,
                 !.past = IF b.tr - size > Tp THEN @ \cup {"shrunk"} ELSE @]

(* the copy has no flags: MFL_ADDSRC of a received message is not kept *)
ReallocPayload(b, plen, copy, clone) ==
  IF clone = "no" /\ plen <= PayloadSize(b) THEN b
  ELSE LET mlen == HdrLen(b.tr) + Tp + Larger(plen, PayloadSize(b))
           ref  == RefTpbuf([b EXCEPT !.real = mlen], mlen)
       IN [ref EXCEPT !.len   = IF copy = "yes" THEN b.len ELSE 0,
                      !.flags = IF clone = "yes" THEN {} ELSE @,
                      !.past  = (@ \ {"shrunk"})
                                  \cup IF clone = "yes" THEN {"clone"} ELSE {}]

(* the bound leaves out the transport header, trace and data areas *)
BytesToPayload(b, n) ==
  LET room == b.alloc - Hdr
  IN [b EXCEPT !.len   = Smaller(n, room),
               !.state = IF n > room THEN "OVERFLOW" ELSE "OK"]

(* send_msg: the bytes that go out *)
TotLen(b) == Smaller(b.len + HdrLen(b.tr) + Tp, b.alloc)

(* what send_msg stores in the header before the first attempt *)
StampPlain(b) == [b EXCEPT !.plen = b.len, !.state = "OK"]
Stamp(b) ==
  [b EXCEPT !.plen = b.len, !.state = "OK",
            !.src  = IF "ADDSRC" \in b.flags THEN "me" ELSE @,
            !.ip   = IF "ADDSRC" \in b.flags THEN "me" ELSE @]

(* the frame; known: the length was one rmr_payload_size allows *)
Frame(b, to) ==
  [tot |-> TotLen(b), plen |-> b.plen, tr |-> b.tr, src |-> b.src, ip |-> b.ip,
   call |-> b.call, to |-> to, from |-> b.from, past |-> b.past,
   known |-> IF b.len <= PayloadSize(b) THEN "yes" ELSE "no"]

(* buf2mbuf and rmr_mt_rcv at the other side: Nil when the cross-check of   *)
(* the header's lengths fails, else the buffer the application gets         *)
Received(tot, plen, tr, call) ==
  LET nbytes == IF tot > Ibm THEN tot + Slack ELSE Ibm
      raw    == [AllocMbuf("UNSET") EXCEPT
                   !.real = nbytes, !.tr = tr, !.plen = plen, !.call = call,
                   !.src = "peer", !.ip = "peer", !.rts = "conn", !.from = "peer",
                   !.past = IF call = "ask" THEN {"asked"} ELSE {}]
  IN IF HdrLen(tr) + Tp + plen > nbytes THEN Nil
     ELSE [RefTpbuf(raw, nbytes) EXCEPT !.flags = {"ADDSRC"}]
=============================================================================
