------------------------------- MODULE Header -------------------------------
(***************************************************************************)
(* The fields of a message header that applications set and read           *)
(* (common/src/mbuf_api.c, tools_static.c) and the length field in front   *)
(* of it (insert_mlen of si/src/sr_si_static.c, extract_mlen of            *)
(* mt_call_si_static.c).  A field is a fixed number of bytes; Nul ends a   *)
(* string.  What a shorter value does not overwrite is still there.        *)
(* A message is sent and received with its fields as they are.             *)
(***************************************************************************)
EXTENDS Integers, Sequences, SequencesExt

CONSTANTS
  Bytes,         \* bytes that strings are made of
  MaxMeid, MaxXid,         \* RMR_MAX_MEID, RMR_MAX_XID
  MaxSrc,        \* RMR_MAX_SRC
  SrcName, SrcIp,          \* the sender's ctx->my_name, ctx->my_ip
  MaxGiven,      \* bound: bytes an application gives
  Lengths        \* lengths of frames, at most 255 times 256 plus 255

Nul == "nul"

VARIABLES
  head,          \* the header: xid, meid, src, srcip, ver, trace
  mlen,          \* the length field: two sizes and a marker
  given          \* the last call: what was set, and what came of it

hvars == <<head, mlen, given>>

Pad(s, n) == [i \in 1 .. n |-> IF i <= Len(s) THEN s[i] ELSE Nul]

(* memcpy( field, s, len( s ) ) *)
Copy(field, s) == [i \in DOMAIN field |-> IF i <= Len(s) THEN s[i] ELSE field[i]]

(* a C string: what stands before the first Nul *)
CString(s) ==
  LET i == SelectInSeq(s, LAMBDA c : c = Nul) IN IF i = 0 THEN s ELSE SubSeq(s, 1, i - 1)

Cut(s, n) == IF Len(s) <= n THEN s ELSE SubSeq(s, 1, n)

ZtBufFill(s, len) == Append(Cut(CString(s), len - 1), Nul)

(***************************************************************************)
(* Setters: the field afterwards and the error reported.                   *)
(***************************************************************************)
Result(f, e) == [field |-> f, err |-> e]

\* Variant: a shorter id is not ended.
Bytes2MeidOpen(meid, s) ==
  LET b == Cut(s, MaxMeid)
      f == Copy(meid, b)
  IN IF Len(b) = MaxMeid /\ f[MaxMeid] # Nul
     THEN Result([f EXCEPT ![MaxMeid] = Nul], "EOVERFLOW")
     ELSE Result(f, IF Len(s) > MaxMeid THEN "EOVERFLOW" ELSE "none")

(* cut to the field, and always ended within it *)
Bytes2Meid(meid, s) ==
  LET b == Cut(s, MaxMeid)
      f == Copy(meid, b)
  IN IF Len(b) < MaxMeid THEN Result([f EXCEPT ![Len(b) + 1] = Nul], "none")
     ELSE Result([f EXCEPT ![MaxMeid] = Nul],
                 IF Len(s) > MaxMeid \/ f[MaxMeid] # Nul THEN "EOVERFLOW" ELSE "none")

(* a string too long for the field and its end is refused *)
Str2Meid(meid, s) ==
  IF Len(s) > MaxMeid - 1 THEN Result(meid, "EOVERFLOW")
  ELSE Bytes2Meid(meid, Append(s, Nul))

(* cut to the field, and not ended *)
Bytes2Xact(xid, s) ==
  Result(Copy(xid, Cut(s, MaxXid)), IF Len(s) > MaxXid THEN "EOVERFLOW" ELSE "none")

Str2Xact(xid, s) ==
  IF Len(s) > MaxXid - 1 THEN Result(xid, "EOVERFLOW")
  ELSE Bytes2Xact(xid, Append(s, Nul))

(***************************************************************************)
(* Getters: what the caller's buffer holds.                                *)
(***************************************************************************)
GetXact(h) == Cut(h.xid, MaxXid)
GetMeid(h) == Cut(h.meid, MaxMeid)
GetTrlen(h) == Len(h.trace)
TraceRef(h) == IF GetTrlen(h) <= 0 THEN <<>> ELSE h.trace
GetTrace(h, size) == Cut(h.trace, size)
GetSrc(h) == ZtBufFill(h.src, MaxSrc)

(* a header before version 3 has no address *)
GetSrcip(h) == ZtBufFill(IF h.ver > 2 THEN h.srcip ELSE h.src, MaxSrc)

(***************************************************************************)
(* The length field.  A size is two digits, most significant first; what   *)
(* the host stores is the other way round on this kind of host.  (Between  *)
(* hosts of different kinds the first size is misread, and the second one, *)
(* which is different then, is not used.)                                  *)
(***************************************************************************)
Net(n) == <<n \div 256, n % 256>>
Host(n) == <<n % 256, n \div 256>>
NetValue(d) == d[1] * 256 + d[2]
HostValue(d) == d[2] * 256 + d[1]

InsertMlen(n) == [old |-> Host(n), new |-> Net(n), marker |-> "$"]

(* a marked field whose sizes differ was returned by an old sender *)
ReadMlen(f) ==
  IF f.marker = "$"
  THEN LET osize == HostValue(f.old)
           size  == NetValue(f.new)
       IN IF osize # size THEN osize ELSE size
  ELSE HostValue(f.old)

-----------------------------------------------------------------------------
Start == [call |-> "alloc", was |-> <<>>, bytes |-> <<>>, err |-> "none", len |-> 0]

(* alloc_zcmsg: the header is cleared and has the sender's name *)
Cleared ==
  [xid |-> Pad(<<>>, MaxXid), meid |-> Pad(<<>>, MaxMeid), ver |-> 3, trace |-> <<>>,
   src |-> Pad(ZtBufFill(SrcName, MaxSrc), MaxSrc),
   srcip |-> Pad(ZtBufFill(SrcIp, MaxSrc), MaxSrc)]

(* one of our own, or one received from an older version *)
HeaderInit ==
  /\ head \in {Cleared, [Cleared EXCEPT !.ver = 2, !.srcip = Pad(<<>>, MaxSrc)]}
  /\ \E n \in Lengths : mlen = InsertMlen(n) /\ given = [Start EXCEPT !.len = n]

Strings == UNION {[1 .. n -> Bytes] : n \in 0 .. MaxGiven}
ByteStrings == UNION {[1 .. n -> Bytes \cup {Nul}] : n \in 0 .. MaxGiven}

Called(call, was, s, e) ==
  given' = [given EXCEPT !.call = call, !.was = was, !.bytes = s, !.err = e]

MeidCall ==
  \E call \in {"bytes2meid", "str2meid"} :
  \E s \in IF call = "bytes2meid" THEN ByteStrings ELSE Strings :
    LET r == IF call = "bytes2meid" THEN Bytes2Meid(head.meid, s) ELSE Str2Meid(head.meid, s)
    IN /\ head' = [head EXCEPT !.meid = r.field]
       /\ Called(call, head.meid, s, r.err)
       /\ UNCHANGED mlen

XactCall ==
  \E call \in {"bytes2xact", "str2xact"} :
  \E s \in IF call = "bytes2xact" THEN ByteStrings ELSE Strings :
    LET r == IF call = "bytes2xact" THEN Bytes2Xact(head.xid, s) ELSE Str2Xact(head.xid, s)
    IN /\ head' = [head EXCEPT !.xid = r.field]
       /\ Called(call, head.xid, s, r.err)
       /\ UNCHANGED mlen

(* rmr_set_trace: the area gets the size of the data; no data, no change *)
TraceCall ==
  \E s \in Strings :
    /\ head' = [head EXCEPT !.trace = IF s = <<>> THEN @ ELSE s]
    /\ Called("set_trace", head.trace, s, "none")
    /\ UNCHANGED mlen

(* the frame is sent with its real length, by us or, when a peer returns   *)
(* it, by an old version that knows only the first size                    *)
SendLength ==
  \E n \in Lengths :
    /\ mlen' \in {InsertMlen(n), [mlen EXCEPT !.old = Host(n)]}
    /\ given' = [given EXCEPT !.len = n]
    /\ UNCHANGED head

HeaderNext == MeidCall \/ XactCall \/ TraceCall \/ SendLength

-----------------------------------------------------------------------------
(* What an application sets is what is read, or the call that set it said  *)
(* that it did not fit: a transaction and a managed entity's name, also    *)
(* after a longer one was set before; a refused string changes nothing.    *)
(* A name is always ended within its field (epsock_meid looks it up as a   *)
(* string).  The sender is known by its full name, which init bounds, and  *)
(* the length of a frame is read as written last, by a new sender or an    *)
(* old one.                                                                *)
FieldsKept ==
  /\ Contains(GetMeid(head), Nul)
  /\ given.call \in {"bytes2meid", "str2meid"} =>
       \/ given.err # "none"
       \/ CString(GetMeid(head)) = CString(given.bytes)
  /\ given.call = "bytes2xact" =>
       given.err # "none" \/ IsPrefix(given.bytes, GetXact(head))
  /\ given.call = "str2xact" =>
       given.err # "none" \/ CString(GetXact(head)) = given.bytes
  /\ given.call = "str2meid" /\ given.err # "none" => GetMeid(head) = given.was
  /\ given.call = "str2xact" /\ given.err # "none" => GetXact(head) = given.was
  /\ given.call = "set_trace" /\ given.bytes # <<>> =>
       /\ TraceRef(head) = given.bytes /\ GetTrlen(head) = Len(given.bytes)
       /\ \A n \in 1 .. MaxGiven : IsPrefix(GetTrace(head, n), given.bytes)
  /\ CString(GetSrc(head)) = SrcName
  /\ CString(GetSrcip(head)) = IF head.ver > 2 THEN SrcIp ELSE SrcName
  /\ ReadMlen(mlen) = given.len
=============================================================================
