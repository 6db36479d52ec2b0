------------------------------- MODULE River -------------------------------
(***************************************************************************)
(* Inbound bytes of one connection (si/src/mt_call_si_static.c): SIwait    *)
(* hands whatever TCP delivered to mt_data_cb, which cuts the stream into  *)
(* messages again and passes each to buf2mbuf.  A message may come in any  *)
(* number of pieces, its size field included; a piece may hold the end of  *)
(* one message and the start of others.  The river of a descriptor lives   *)
(* longer than a connection: the next connection with the same descriptor  *)
(* inherits it, reset by mt_disc_cb.                                       *)
(*                                                                         *)
(* The peer frames messages with insert_mlen (sr_si_static.c), so its      *)
(* stream is fixed by the sizes it writes; a byte is named by the          *)
(* connection and its place in the stream.  Frame n is Off[n] .. Off[n+1]  *)
(* exclusive.  An iteration of the loop of mt_data_cb is one or two steps. *)
(***************************************************************************)
EXTENDS Integers, Sequences

CONSTANTS
  SzField,       \* TP_SZFIELD_LEN
  Normal,        \* max_ibm + 1024, the bytes of a fresh accumulator
  Fudge,         \* spare bytes of an accumulator made for a large message
  Frames,        \* messages the peer sends on a connection
  Size,          \* per message: the length of its frame
  Bad,           \* messages whose size field reads as a negative number
  Claim,         \* per message: transport header, header and payload lengths
  Off,           \* per message: where its frame starts
  Conns,         \* bound: connections on the descriptor
  MaxRead        \* bound: bytes of one RECV

ASSUME FramesAssumption == Frames \in Nat

ASSUME SizeAssumption ==
  /\ SzField \in Nat \ {0} /\ Normal \in Nat /\ SzField =< Normal
  /\ Fudge \in Nat
  /\ Size \in [1 .. Frames -> Nat]
  /\ \A n \in 1 .. Frames : Size[n] >= SzField
  /\ Claim \in [1 .. Frames -> Nat]

ASSUME OffAssumption ==
  /\ Off \in [1 .. Frames + 1 -> Nat]
  /\ Off[1] = 0
  /\ \A n \in 1 .. Frames : Off[n + 1] = Off[n] + Size[n]
  /\ \A m \in 1 .. Frames, n \in 1 .. Frames + 1 :
       m < n => Off[m] + Size[m] =< Off[n]

VARIABLES
  conn,          \* number of the connection
  wrote,         \* bytes the peer has put on it
  taken,         \* bytes mt_data_cb has dealt with
  at, remain,    \* mt_data_cb: "idle", "top" or "body" of its loop; remain
  state, nbytes, accum, ipt, msg_size,  \* the river_t
  out            \* messages completed on this connection

riverVars == <<state, nbytes, accum, ipt, msg_size>>
rvars == <<conn, wrote, taken, at, remain, riverVars, out>>

\* The byte k places after the next one.
Byte(k) == <<conn, taken + k>>

\* The bytes of frame n of connection c.
FrameBytes(c, n) == [i \in 1 .. Size[n] |-> <<c, Off[n] + i - 1>>]

\* What fits a size field read from garbage: any size at all.
AnySize == -1 .. Normal + Fudge

\* extract_mlen on a size field which starts with byte b.  Of the two sizes
\* insert_mlen writes there the code ends up with the first in every case;
\* where no frame starts it reads garbage.
ExtractMlen(b) ==
  IF b[1] = conn /\ \E n \in 1 .. Frames : Off[n] = b[2]
  THEN {IF n \in Bad THEN -1 ELSE Size[n] :
          n \in {m \in 1 .. Frames : Off[m] = b[2]}}
  ELSE AnySize

\* init: rivers are new and have no accumulator.
RiverInit ==
  /\ conn = 1 /\ wrote = 0 /\ taken = 0
  /\ at = "idle" /\ remain = 0
  /\ state = "new" /\ nbytes = 0 /\ accum = << >>
  /\ ipt = 0 /\ msg_size = 0
  /\ out = << >>

\* The peer's SIsendt: SEND may take part of a message only.
PeerSends ==
  /\ wrote < Off[Frames + 1]
  /\ \E k \in 1 .. Off[Frames + 1] - wrote : wrote' = wrote + k
  /\ UNCHANGED <<conn, taken, at, remain, riverVars, out>>

\* The accumulator with the next k bytes added at the insertion point.
Snarfed(k) ==
  [i \in 1 .. ipt + k |-> IF i =< ipt THEN accum[i] ELSE Byte(i - ipt - 1)]

\* mt_data_cb is called with a buffer of n bytes.
DataCb ==
  /\ at = "idle"
  /\ \E n \in 1 .. MaxRead :
       /\ taken + n =< wrote
       /\ \/ /\ state = "reset"
             /\ taken' = taken + n
             /\ UNCHANGED <<at, remain, riverVars>>
          \/ /\ state = "new"
             /\ state' = "good" /\ nbytes' = Normal /\ accum' = << >>
             /\ ipt' = 0 /\ msg_size' = 0
             /\ at' = "top" /\ remain' = n
             /\ UNCHANGED taken
          \/ /\ state = "good"
             /\ at' = "top" /\ remain' = n
             /\ UNCHANGED <<taken, riverVars>>
  /\ UNCHANGED <<conn, wrote, out>>

\* The size field is not complete with this buffer; keep what there is.
SizeShort ==
  /\ at = "top" /\ msg_size =< 0
  /\ SzField - ipt > remain
  /\ accum' = Snarfed(remain)
  /\ ipt' = ipt + remain
  /\ taken' = taken + remain
  /\ at' = "idle" /\ remain' = 0
  /\ UNCHANGED <<conn, wrote, state, nbytes, msg_size, out>>

\* A message larger than the accumulator gets one of its own.
Grown(s) == IF s > nbytes THEN s + Fudge ELSE nbytes

\* Variant: the first bytes of the size are lost when the field was split.
SizeReadLoses ==
  /\ at = "top" /\ msg_size =< 0
  /\ SzField - ipt =< remain
  /\ \E s \in ExtractMlen(Byte(0)) :
       /\ s >= 0
       /\ msg_size' = s /\ nbytes' = Grown(s)
       /\ at' = "body"
       /\ UNCHANGED <<state, remain, taken, accum, ipt>>
  /\ UNCHANGED <<conn, wrote, out>>

\* The size is known: from the accumulator when part of the field was kept
\* there, straight from the buffer (and copied later) otherwise.
SizeRead ==
  /\ at = "top" /\ msg_size =< 0
  /\ SzField - ipt =< remain
  /\ LET need == IF ipt > 0 THEN SzField - ipt ELSE 0 IN
     \E s \in ExtractMlen(IF ipt > 0 THEN accum[1] ELSE Byte(0)) :
       /\ msg_size' = s
       /\ accum' = Snarfed(need) /\ ipt' = ipt + need
       /\ IF s < 0
          THEN /\ state' = "reset"
               /\ taken' = taken + remain
               /\ at' = "idle" /\ remain' = 0
               /\ UNCHANGED nbytes
          ELSE /\ taken' = taken + need
               /\ at' = "body" /\ remain' = remain - need
               /\ nbytes' = Grown(s)
               /\ UNCHANGED state
  /\ UNCHANGED <<conn, wrote, out>>

InBody == at = "body" \/ (at = "top" /\ msg_size > 0)

\* The message does not end in this buffer.
Accumulate ==
  /\ InBody
  /\ msg_size > ipt + remain
  /\ accum' = Snarfed(remain)
  /\ ipt' = ipt + remain
  /\ taken' = taken + remain
  /\ at' = "idle" /\ remain' = 0
  /\ UNCHANGED <<conn, wrote, state, nbytes, msg_size, out>>

\* buf2mbuf: a message whose lengths exceed the buffer is dropped.
Buf2Mbuf(bytes, claim) ==
  [bytes |-> bytes, to |-> IF claim > nbytes THEN "dropped" ELSE "queued"]

\* What the header of the accumulated message says of its lengths.
ClaimOf(b) ==
  IF \E n \in 1 .. Frames : Off[n] = b[2]
  THEN Claim[CHOOSE n \in 1 .. Frames : Off[n] = b[2]]
  ELSE 0

\* Variant: what follows the message in the buffer is thrown away with it.
DeliverAll ==
  /\ InBody
  /\ msg_size =< ipt + remain
  /\ LET whole == Snarfed(msg_size - ipt) IN
     out' = Append(out, Buf2Mbuf(whole, ClaimOf(whole[1])))
  /\ nbytes' = Normal /\ accum' = << >>
  /\ msg_size' = -1 /\ ipt' = 0
  /\ taken' = taken + remain
  /\ remain' = 0 /\ at' = "idle"
  /\ UNCHANGED <<conn, wrote, state>>

\* The message is complete: it is passed on, and a fresh accumulator made.
Deliver ==
  /\ InBody
  /\ msg_size =< ipt + remain
  /\ LET need == msg_size - ipt
         whole == Snarfed(need) IN
     /\ out' = Append(out, Buf2Mbuf(whole, ClaimOf(whole[1])))
     /\ taken' = taken + need
     /\ remain' = remain - need
     /\ at' = IF remain = need THEN "idle" ELSE "top"
  /\ nbytes' = Normal /\ accum' = << >>
  /\ msg_size' = -1 /\ ipt' = 0
  /\ UNCHANGED <<conn, wrote, state>>

\* The connection is lost (what was not read with it), mt_disc_cb resets the
\* river, and a new connection gets the descriptor.
Disconnect ==
  /\ at = "idle" /\ conn < Conns
  /\ conn' = conn + 1 /\ wrote' = 0 /\ taken' = 0
  /\ out' = << >>
  /\ state' = "new" /\ accum' = << >>
  /\ UNCHANGED <<at, remain, nbytes, ipt, msg_size>>

RiverNext ==
  \/ PeerSends \/ Disconnect
  \/ DataCb \/ SizeShort \/ SizeRead \/ Accumulate \/ Deliver

RiverSpec == RiverInit /\ [][RiverNext]_rvars

-----------------------------------------------------------------------------
(* Properties                                                              *)

\* mt_data_cb hands on exactly the messages of this connection, in order and
\* whole, whatever the pieces they came in and whatever an earlier connection
\* with the same descriptor left behind; a message goes to the application
\* only when its lengths fit the buffer it is in.
FramesIntact ==
  /\ Len(out) =< Frames
  /\ \A n \in 1 .. Len(out) :
       /\ out[n].bytes = FrameBytes(conn, n)
       /\ out[n].to = "queued" =>
            Claim[n] =< IF Size[n] > Normal THEN Size[n] + Fudge ELSE Normal

\* When mt_data_cb returns, every message that is complete in the bytes it
\* was given has been handed on: none waits for bytes of the next one.  Only
\* a river that saw a negative size (RS_RESET) holds anything back.
NothingHeldBack ==
  at = "idle" /\ state # "reset" =>
    \A n \in 1 .. Frames : Off[n + 1] =< taken => n =< Len(out)

\* Bytes are copied only to the allocated accumulator.
AccumInBounds == state = "good" => ipt =< nbytes /\ msg_size =< nbytes

-----------------------------------------------------------------------------
(* The inductive invariant                                                 *)

RiverTypeOK ==
  /\ conn \in Nat /\ wrote \in Nat /\ taken \in Nat /\ remain \in Nat
  /\ at \in {"idle", "top", "body"}
  /\ state \in {"new", "good", "reset"}
  /\ nbytes \in Nat /\ ipt \in Nat /\ msg_size \in Int
  /\ accum \in Seq(Nat \X Nat)
  /\ out \in Seq([bytes : Seq(Nat \X Nat), to : {"queued", "dropped"}])

\* The river stands in frame number Cur, and its accumulator holds the part
\* of that frame which was taken off the stream.
Cur == Len(out) + 1

RiverInv ==
  /\ taken + remain =< wrote
  /\ wrote =< Off[Frames + 1]
  /\ at = "idle" <=> remain = 0 /\ at # "body"
  /\ state = "new" => taken = 0 /\ out = << >> /\ at = "idle"
  /\ state = "reset" => at = "idle"
  /\ state # "reset" => Cur =< Frames + 1
  /\ state = "good" =>
       /\ taken = Off[Cur] + ipt
       /\ accum = [i \in 1 .. ipt |-> <<conn, Off[Cur] + i - 1>>]
       /\ Cur =< Frames => ipt < Size[Cur] \/ at = "body"
       /\ at = "body" => msg_size > 0
       /\ msg_size > 0 => /\ Cur =< Frames
                          /\ msg_size = Size[Cur]
                          /\ ipt =< msg_size
                          /\ nbytes = IF msg_size > Normal
                                      THEN msg_size + Fudge ELSE Normal
       /\ msg_size =< 0 => nbytes = Normal /\ ipt < SzField
============================================================================
