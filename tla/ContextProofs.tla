--------------------------- MODULE ContextProofs ----------------------------
(***************************************************************************)
(* A context: what its connections bring in, its life, and the semaphore   *)
(* beside rmr_rcv_specific.                                                *)
(*                                                                         *)
(* For every sequence of message sizes, every way TCP cuts the stream into *)
(* pieces and every accumulator size, mt_data_cb hands on the messages of  *)
(* the connection whole and in order.  The invariant says where in the     *)
(* stream the river stands: ipt bytes into the frame after the last one    *)
(* that was handed on.                                                     *)
(***************************************************************************)
EXTENDS River, Context, TLAPS

-----------------------------------------------------------------------------
(* The river.                                                              *)

IndInv == RiverTypeOK /\ RiverInv /\ FramesIntact

\* A size field at the start of frame n is read as that frame's size.
LEMMA SizeAtStart ==
  ASSUME NEW n \in 1 .. Frames, NEW c \in Nat, c = conn
  PROVE  ExtractMlen(<<c, Off[n]>>) = {IF n \in Bad THEN -1 ELSE Size[n]}
<1>1. ASSUME NEW m \in 1 .. Frames, m # n
      PROVE  Off[m] # Off[n]
  <2>0. m \in 1 .. Frames + 1 /\ n \in 1 .. Frames + 1
    BY FramesAssumption
  <2>1. /\ Size[m] \in Nat /\ Size[n] \in Nat
        /\ Off[m] \in Nat /\ Off[n] \in Nat
    BY <2>0, SizeAssumption, OffAssumption
  <2>2. Size[m] > 0 /\ Size[n] > 0
    BY <2>1, SizeAssumption
  <2>3. CASE m < n
    <3>1. Off[m] + Size[m] =< Off[n]
      BY <2>0, <2>3, OffAssumption
    <3> QED
      BY <2>1, <2>2, <3>1
  <2>4. CASE n < m
    <3>1. Off[n] + Size[n] =< Off[m]
      BY <2>0, <2>4, OffAssumption
    <3> QED
      BY <2>1, <2>2, <3>1
  <2> QED
    BY <1>1, <2>3, <2>4, FramesAssumption
<1> QED
  BY <1>1, Zenon DEF ExtractMlen

\* Adding the next k bytes to the part of a frame that was accumulated gives
\* a longer part of the same frame.
LEMMA SnarfedBytes ==
  ASSUME NEW k \in Nat, NEW b \in Nat, ipt \in Nat, taken \in Nat, conn \in Nat,
         taken = b + ipt,
         accum = [i \in 1 .. ipt |-> <<conn, b + i - 1>>]
  PROVE  Snarfed(k) = [i \in 1 .. ipt + k |-> <<conn, b + i - 1>>]
<1>1. ASSUME NEW i \in 1 .. ipt + k
      PROVE  (IF i =< ipt THEN accum[i] ELSE Byte(i - ipt - 1))
               = <<conn, b + i - 1>>
  <2>1. CASE i =< ipt
    BY <2>1
  <2>2. CASE ~(i =< ipt)
    <3>1. taken + (i - ipt - 1) = b + i - 1
      OBVIOUS
    <3> QED
      BY <2>2, <3>1 DEF Byte
  <2> QED
    BY <2>1, <2>2
<1> QED
  BY <1>1, Zenon DEF Snarfed

\* A run of bytes of one connection is a sequence of bytes.
LEMMA RunIsSeq ==
  ASSUME NEW k \in Nat, NEW b \in Nat, NEW c \in Nat
  PROVE  [i \in 1 .. k |-> <<c, b + i - 1>>] \in Seq(Nat \X Nat)
<1>1. [i \in 1 .. k |-> <<c, b + i - 1>>] \in [1 .. k -> Nat \X Nat]
  OBVIOUS
<1> QED
  BY <1>1

\* The invariant holds when the river is set up.
LEMMA RiverInitInv == RiverInit => IndInv
<1> SUFFICES ASSUME RiverInit PROVE IndInv
  OBVIOUS
<1>1. Off[Frames + 1] >= 0 /\ Off[1] = 0
  BY FramesAssumption, OffAssumption
<1>2. RiverTypeOK
  BY DEF RiverInit, RiverTypeOK
<1>3. RiverInv
  BY <1>1, FramesAssumption DEF RiverInit, RiverInv, Cur
<1>4. FramesIntact
  BY FramesAssumption DEF RiverInit, FramesIntact
<1> QED
  BY <1>2, <1>3, <1>4 DEF IndInv

\* The peer's writes do not touch the river.
LEMMA PeerSendsInv == IndInv /\ PeerSends => IndInv'
<1> SUFFICES ASSUME IndInv, PeerSends PROVE IndInv'
  OBVIOUS
<1>1. wrote' \in Nat /\ wrote' > wrote /\ wrote' =< Off[Frames + 1]
  BY FramesAssumption, OffAssumption DEF IndInv, RiverTypeOK, PeerSends
<1>2. RiverTypeOK'
  BY <1>1 DEF IndInv, RiverTypeOK, PeerSends, riverVars
<1>3. RiverInv'
  BY <1>1, OffAssumption, FramesAssumption
  DEF IndInv, RiverInv, RiverTypeOK, PeerSends, riverVars, Cur
<1>4. FramesIntact'
  BY DEF IndInv, FramesIntact, PeerSends, FrameBytes
<1> QED
  BY <1>2, <1>3, <1>4 DEF IndInv

\* A call of mt_data_cb leaves the river where it was in the stream.
LEMMA DataCbInv == IndInv /\ DataCb => IndInv'
<1> SUFFICES ASSUME IndInv, DataCb PROVE IndInv'
  OBVIOUS
<1> USE DEF IndInv
<1>0. /\ RiverTypeOK /\ RiverInv /\ at = "idle" /\ remain = 0
      /\ UNCHANGED <<conn, wrote, out>>
  BY DEF DataCb, RiverInv, RiverTypeOK
<1>f. FramesIntact'
  BY <1>0 DEF FramesIntact, FrameBytes
<1>o. Off[1] = 0 /\ 1 \in 1 .. Frames + 1 /\ Off[Frames + 1] \in Nat
  BY FramesAssumption, OffAssumption
<1>1. PICK n \in 1 .. MaxRead :
        /\ taken + n =< wrote
        /\ \/ /\ state = "reset"
              /\ taken' = taken + n
              /\ UNCHANGED <<at, remain, riverVars>>
           \/ /\ state = "new"
              /\ state' = "good" /\ nbytes' = Normal /\ accum' = << >>
              /\ ipt' = 0 /\ msg_size' = 0
              /\ at' = "top" /\ remain' = n
              /\ UNCHANGED taken
           \/ /\ state = "good"
              /\ at' = "top" /\ remain' = n
              /\ UNCHANGED <<taken, riverVars>>
  BY DEF DataCb
<1>2. n \in Nat /\ n > 0
  BY <1>1
<1>3. CASE /\ state = "reset" /\ taken' = taken + n
           /\ UNCHANGED <<at, remain, riverVars>>
  <2>1. RiverTypeOK'
    BY <1>0, <1>2, <1>3 DEF RiverTypeOK, riverVars
  <2>2. RiverInv'
    BY <1>0, <1>1, <1>2, <1>3 DEF RiverTypeOK, RiverInv, riverVars, Cur
  <2> QED
    BY <2>1, <2>2, <1>f
<1>4. CASE /\ state = "new" /\ state' = "good" /\ nbytes' = Normal
           /\ accum' = << >> /\ ipt' = 0 /\ msg_size' = 0
           /\ at' = "top" /\ remain' = n /\ UNCHANGED taken
  <2>1. RiverTypeOK'
    BY <1>0, <1>2, <1>4, SizeAssumption DEF RiverTypeOK
  <2>2. taken = 0 /\ out = << >>
    BY <1>0, <1>4 DEF RiverInv
  <2>3. Cur' = 1
    BY <1>0, <2>2 DEF Cur
  <2>4. accum' = [i \in 1 .. ipt' |-> <<conn', Off[Cur'] + i - 1>>]
    BY <1>4
  <2>5. 1 =< Frames => 0 < Size[1]
    BY SizeAssumption, FramesAssumption
  <2>6. RiverInv'
    BY <1>0, <1>1, <1>2, <1>4, <1>o, <2>2, <2>3, <2>4, <2>5, SizeAssumption,
       FramesAssumption
    DEF RiverTypeOK, RiverInv
  <2> QED
    BY <2>1, <2>6, <1>f
<1>5. CASE /\ state = "good" /\ at' = "top" /\ remain' = n
           /\ UNCHANGED <<taken, riverVars>>
  <2>1. RiverTypeOK'
    BY <1>0, <1>2, <1>5 DEF RiverTypeOK, riverVars
  <2>2. RiverInv'
    BY <1>0, <1>1, <1>2, <1>5 DEF RiverTypeOK, RiverInv, riverVars, Cur
  <2> QED
    BY <2>1, <2>2, <1>f
<1> QED
  BY <1>1, <1>3, <1>4, <1>5

\* Bytes that do not complete the size field, or the message, are kept.
LEMMA KeepInv ==
  ASSUME IndInv, state = "good", at # "idle",
         accum' = Snarfed(remain), ipt' = ipt + remain,
         taken' = taken + remain, at' = "idle", remain' = 0,
         UNCHANGED <<conn, wrote, state, nbytes, msg_size, out>>,
         \/ msg_size =< 0 /\ SzField > ipt + remain
         \/ msg_size > 0 /\ msg_size > ipt + remain
  PROVE  IndInv'
<1> USE DEF IndInv
<1>0. ipt \in Nat /\ remain \in Nat /\ taken \in Nat /\ conn \in Nat /\ wrote \in Nat
  BY DEF RiverTypeOK
<1>1. /\ taken = Off[Cur] + ipt /\ Cur =< Frames + 1 /\ Cur \in Nat \ {0}
      /\ accum = [i \in 1 .. ipt |-> <<conn, Off[Cur] + i - 1>>]
  BY DEF RiverInv, RiverTypeOK, Cur
<1>e. taken = Off[Cur] + ipt /\ taken + remain =< wrote
  BY DEF RiverInv
<1>2. Off[Cur] \in Nat
  BY <1>1, OffAssumption, FramesAssumption
<1>3. accum' = [i \in 1 .. ipt + remain |-> <<conn, Off[Cur] + i - 1>>]
  BY <1>0, <1>1, <1>2, SnarfedBytes
<1>4. Cur' = Cur
  BY DEF Cur
<1>5. accum' \in Seq(Nat \X Nat)
  <2>1. ipt + remain \in Nat
    BY <1>0
  <2>2. [i \in 1 .. ipt + remain |-> <<conn, Off[Cur] + i - 1>>] \in Seq(Nat \X Nat)
    BY <1>0, <1>2, <2>1, RunIsSeq, Zenon
  <2> QED
    BY <1>3, <2>2, Zenon
<1>6. RiverTypeOK'
  BY <1>5 DEF RiverTypeOK
<1>7. Cur =< Frames => ipt + remain < Size[Cur]
  BY <1>1, SizeAssumption, FramesAssumption DEF RiverInv, RiverTypeOK
<1>a. accum' = [i \in 1 .. ipt' |-> <<conn', Off[Cur'] + i - 1>>]
  BY <1>3, <1>4, Zenon
<1>b. /\ taken' = Off[Cur'] + ipt'
      /\ Cur' =< Frames => ipt' < Size[Cur']
      /\ taken' + remain' =< wrote'
  BY <1>0, <1>2, <1>4, <1>7, <1>e
<1>c. msg_size' > 0 => /\ Cur' =< Frames
                       /\ msg_size' = Size[Cur']
                       /\ ipt' =< msg_size'
                       /\ nbytes' = IF msg_size' > Normal
                                    THEN msg_size' + Fudge ELSE Normal
  BY <1>4 DEF RiverTypeOK, RiverInv
<1>d. msg_size' =< 0 => nbytes' = Normal /\ ipt' < SzField
  BY SizeAssumption DEF RiverTypeOK, RiverInv
<1>8. RiverInv'
  BY <1>1, <1>4, <1>a, <1>b, <1>c, <1>d DEF RiverInv
<1>9. FramesIntact'
  BY DEF FramesIntact, FrameBytes
<1> QED
  BY <1>6, <1>8, <1>9

\* While mt_data_cb works on bytes it stands in a frame of the peer's.
LEMMA InFrame ==
  ASSUME IndInv, at # "idle"
  PROVE  /\ state = "good" /\ Cur \in 1 .. Frames
         /\ Off[Cur] \in Nat /\ Size[Cur] \in Nat /\ Size[Cur] >= SzField
         /\ Off[Cur + 1] = Off[Cur] + Size[Cur]
<1> USE DEF IndInv
<1>1. state = "good"
  BY DEF RiverInv, RiverTypeOK
<1>2. Cur \in Nat \ {0} /\ Cur =< Frames + 1
  BY <1>1 DEF RiverInv, RiverTypeOK, Cur
<1>3. Off[Cur] \in Nat
  BY <1>2, OffAssumption, FramesAssumption
<1>4. Cur =< Frames
  <2>1. CASE msg_size > 0
    BY <1>1, <2>1 DEF RiverInv
  <2>2. CASE ~(msg_size > 0)
    <3>1. remain > 0
      BY <1>1, <2>2 DEF RiverInv, RiverTypeOK
    <3>2. taken = Off[Cur] + ipt /\ taken + remain =< wrote /\ wrote =< Off[Frames + 1]
      BY <1>1 DEF RiverInv
    <3>3. ipt \in Nat /\ remain \in Nat /\ wrote \in Nat /\ Off[Frames + 1] \in Nat
      BY OffAssumption, FramesAssumption DEF RiverTypeOK
    <3>4. Off[Cur] < Off[Frames + 1]
      BY <1>3, <3>1, <3>2, <3>3
    <3>5. Cur # Frames + 1
      BY <3>3, <3>4
    <3> QED
      BY <1>2, <3>5, FramesAssumption
  <2> QED
    BY <2>1, <2>2
<1>5. Cur \in 1 .. Frames
  BY <1>2, <1>4, FramesAssumption
<1> QED
  BY <1>1, <1>3, <1>5, SizeAssumption, OffAssumption

\* An incomplete size field is kept.
LEMMA SizeShortInv == IndInv /\ SizeShort => IndInv'
<1> SUFFICES ASSUME IndInv, SizeShort PROVE IndInv'
  OBVIOUS
<1>1. state = "good" /\ at # "idle" /\ msg_size =< 0
  BY InFrame DEF SizeShort
<1>2. SzField > ipt + remain
  BY SizeAssumption DEF SizeShort, IndInv, RiverTypeOK
<1> QED
  BY <1>1, <1>2, KeepInv DEF SizeShort

\* An incomplete message is kept.
LEMMA AccumulateInv == IndInv /\ Accumulate => IndInv'
<1> SUFFICES ASSUME IndInv, Accumulate PROVE IndInv'
  OBVIOUS
<1>1. at # "idle"
  BY DEF Accumulate, InBody
<1>2. state = "good"
  BY <1>1, InFrame
<1>3. msg_size > 0
  BY <1>2 DEF Accumulate, InBody, IndInv, RiverInv
<1> QED
  BY <1>1, <1>2, <1>3, KeepInv DEF Accumulate

\* The size is that of the frame the river stands in.
LEMMA SizeReadInv == IndInv /\ SizeRead => IndInv'
<1> SUFFICES ASSUME IndInv, SizeRead PROVE IndInv'
  OBVIOUS
<1> USE DEF IndInv
<1> DEFINE need == IF ipt > 0 THEN SzField - ipt ELSE 0
<1>1. /\ at = "top" /\ msg_size =< 0 /\ SzField - ipt =< remain
      /\ UNCHANGED <<conn, wrote, out>>
  BY DEF SizeRead
<1>2. /\ state = "good" /\ Cur \in 1 .. Frames
      /\ Off[Cur] \in Nat /\ Size[Cur] \in Nat /\ Size[Cur] >= SzField
  BY <1>1, InFrame
<1>0. ipt \in Nat /\ remain \in Nat /\ taken \in Nat /\ conn \in Nat
  BY DEF RiverTypeOK
<1>3. /\ taken = Off[Cur] + ipt
      /\ accum = [i \in 1 .. ipt |-> <<conn, Off[Cur] + i - 1>>]
      /\ nbytes = Normal /\ ipt < SzField
  BY <1>1, <1>2 DEF RiverInv
<1>e. taken = Off[Cur] + ipt /\ ipt < SzField
  BY <1>3
<1>4. need \in Nat /\ need =< remain
  BY <1>1, <1>3, SizeAssumption DEF RiverTypeOK
<1>5. (IF ipt > 0 THEN accum[1] ELSE Byte(0)) = <<conn, Off[Cur]>>
  <2> HIDE DEF need
  <2>1. CASE ipt > 0
    <3>1. 1 \in 1 .. ipt /\ Off[Cur] + 1 - 1 = Off[Cur]
      BY <1>0, <1>2, <2>1
    <3> QED
      BY <1>3, <2>1, <3>1
  <2>2. CASE ~(ipt > 0)
    <3>1. taken + 0 = Off[Cur]
      BY <1>0, <1>2, <1>e, <2>2
    <3> QED
      BY <2>2, <3>1 DEF Byte
  <2> QED
    BY <2>1, <2>2
<1>6. PICK s \in {IF Cur \in Bad THEN -1 ELSE Size[Cur]} :
        /\ msg_size' = s
        /\ accum' = Snarfed(need) /\ ipt' = ipt + need
        /\ IF s < 0
           THEN /\ state' = "reset"
                /\ taken' = taken + remain
                /\ at' = "idle" /\ remain' = 0
                /\ UNCHANGED nbytes
           ELSE /\ taken' = taken + need
                /\ at' = "body" /\ remain' = remain - need
                /\ nbytes' = Grown(s)
                /\ UNCHANGED state
  <2>1. ExtractMlen(<<conn, Off[Cur]>>)
          = {IF Cur \in Bad THEN -1 ELSE Size[Cur]}
    BY <1>2, SizeAtStart DEF RiverTypeOK
  <2> QED
    BY <1>5, <2>1, Zenon DEF SizeRead
<1>7. s \in Int
  BY <1>2, <1>6
<1>8. accum' = [i \in 1 .. ipt + need |-> <<conn, Off[Cur] + i - 1>>]
  <2> HIDE DEF need
  <2>1. Snarfed(need) = [i \in 1 .. ipt + need |-> <<conn, Off[Cur] + i - 1>>]
    BY <1>0, <1>2, <1>3, <1>4, SnarfedBytes
  <2> QED
    BY <1>6, <2>1, Zenon
<1>9. accum' \in Seq(Nat \X Nat)
  <2> HIDE DEF need
  <2>1. ipt + need \in Nat
    BY <1>0, <1>4
  <2>2. [i \in 1 .. ipt + need |-> <<conn, Off[Cur] + i - 1>>] \in Seq(Nat \X Nat)
    BY <1>0, <1>2, <2>1, RunIsSeq, Zenon
  <2> QED
    BY <1>8, <2>2, Zenon
<1>a. Cur' = Cur
  BY <1>1 DEF Cur
<1>b. FramesIntact'
  BY <1>1 DEF FramesIntact, FrameBytes
<1>c. CASE s < 0
  <2>1. RiverTypeOK'
    BY <1>1, <1>4, <1>6, <1>7, <1>9, <1>c DEF RiverTypeOK
  <2>2. RiverInv'
    BY <1>1, <1>2, <1>6, <1>a, <1>c, FramesAssumption
    DEF RiverInv, RiverTypeOK
  <2> QED
    BY <2>1, <2>2, <1>b
<1>d. CASE ~(s < 0)
  <2> HIDE DEF need
  <2>0. /\ taken' = taken + need /\ remain' = remain - need
        /\ ipt' = ipt + need /\ at' = "body" /\ state' = "good"
        /\ msg_size' = s
    BY <1>2, <1>6, <1>d
  <2>1. s = Size[Cur] /\ s > 0
    BY <1>2, <1>6, <1>d, SizeAssumption
  <2>2. nbytes' = IF s > Normal THEN s + Fudge ELSE Normal
    BY <1>3, <1>6, <1>d DEF Grown
  <2>3. RiverTypeOK'
    <3>1. nbytes' \in Nat
      BY <1>2, <2>1, <2>2, SizeAssumption
    <3> QED
      BY <1>1, <1>4, <1>7, <1>9, <2>0, <3>1 DEF RiverTypeOK
  <2>4. accum' = [i \in 1 .. ipt' |-> <<conn', Off[Cur'] + i - 1>>]
    BY <1>1, <1>6, <1>8, <1>a, Zenon
  <2>5. ipt' =< Size[Cur'] /\ taken' = Off[Cur'] + ipt'
    <3>1. ipt + need =< SzField
      BY <1>3, SizeAssumption DEF need, RiverTypeOK
    <3>2. SzField \in Nat
      BY SizeAssumption
    <3> QED
      BY <1>0, <1>2, <1>4, <1>a, <1>e, <2>0, <3>1, <3>2
  <2>6. taken' + remain' =< wrote' /\ wrote' =< Off[Frames + 1]
    BY <1>1, <1>4, <2>0 DEF RiverInv, RiverTypeOK
  <2>7. /\ state' = "good" /\ at' = "body" /\ msg_size' = s
        /\ Cur' \in 1 .. Frames /\ s = Size[Cur']
    BY <1>2, <1>a, <2>0, <2>1
  <2>8. /\ Cur' =< Frames /\ Cur' =< Frames + 1 /\ ipt' =< msg_size'
        /\ ~(msg_size' =< 0) /\ msg_size' > 0
    BY <1>7, <2>1, <2>5, <2>7, FramesAssumption
  <2>9. RiverInv'
    BY <2>2, <2>4, <2>5, <2>6, <2>7, <2>8 DEF RiverInv
  <2> QED
    BY <2>3, <2>9, <1>b
<1> QED
  BY <1>c, <1>d

\* A complete message is passed on, and the river stands at the next one.
LEMMA DeliverInv == IndInv /\ Deliver => IndInv'
<1> SUFFICES ASSUME IndInv, Deliver PROVE IndInv'
  OBVIOUS
<1> USE DEF IndInv
<1> DEFINE need  == msg_size - ipt
           whole == Snarfed(need)
           msg   == Buf2Mbuf(whole, ClaimOf(whole[1]))
<1>1. /\ at # "idle" /\ InBody /\ msg_size =< ipt + remain
      /\ out' = Append(out, msg) /\ taken' = taken + need
      /\ remain' = remain - need
      /\ at' = IF remain = need THEN "idle" ELSE "top"
      /\ nbytes' = Normal /\ accum' = << >> /\ msg_size' = -1 /\ ipt' = 0
      /\ UNCHANGED <<conn, wrote, state>>
  BY DEF Deliver, InBody
<1>2. /\ state = "good" /\ Cur \in 1 .. Frames
      /\ Off[Cur] \in Nat /\ Size[Cur] \in Nat /\ Size[Cur] >= SzField
      /\ Off[Cur + 1] = Off[Cur] + Size[Cur]
  BY <1>1, InFrame
<1>3. /\ taken = Off[Cur] + ipt
      /\ accum = [i \in 1 .. ipt |-> <<conn, Off[Cur] + i - 1>>]
      /\ msg_size = Size[Cur] /\ ipt =< msg_size
      /\ nbytes = IF msg_size > Normal THEN msg_size + Fudge ELSE Normal
  BY <1>1, <1>2 DEF RiverInv, InBody
<1>4. need \in Nat /\ need =< remain /\ ipt + need = Size[Cur]
  <2>1. ipt \in Nat /\ remain \in Nat
    BY DEF RiverTypeOK
  <2>2. msg_size \in Nat /\ ipt =< msg_size /\ msg_size =< ipt + remain
    BY <1>1, <1>2, <1>3
  <2> QED
    BY <1>3, <2>1, <2>2
<1>5. whole = FrameBytes(conn, Cur)
  <2>1. whole = [i \in 1 .. ipt + need |-> <<conn, Off[Cur] + i - 1>>]
    BY <1>2, <1>3, <1>4, SnarfedBytes DEF RiverTypeOK
  <2> QED
    BY <1>4, <2>1, Zenon DEF FrameBytes
<1>6. whole \in Seq(Nat \X Nat)
  <2>1. conn \in Nat
    BY DEF RiverTypeOK
  <2>2. FrameBytes(conn, Cur) \in Seq(Nat \X Nat)
    BY <1>2, <2>1, RunIsSeq DEF FrameBytes
  <2> QED
    BY <1>5, <2>2, Zenon
<1>7. ClaimOf(whole[1]) = Claim[Cur]
  <2>1. whole[1] = <<conn, Off[Cur]>>
    BY <1>2, <1>5, SizeAssumption DEF FrameBytes
  <2>2. \A n \in 1 .. Frames : Off[n] = Off[Cur] => n = Cur
    <3>1. SUFFICES ASSUME NEW n \in 1 .. Frames, Off[n] = Off[Cur], n # Cur
                   PROVE  FALSE
      OBVIOUS
    <3>2. Off[n] \in Nat /\ Size[n] \in Nat /\ Size[n] > 0 /\ Size[Cur] > 0
      <4>1. n \in 1 .. Frames + 1
        BY <3>1, FramesAssumption
      <4> QED
        BY <1>2, <3>1, <4>1, SizeAssumption, OffAssumption
    <3>3. CASE n < Cur
      <4>1. Off[n] + Size[n] =< Off[Cur]
        BY <1>2, <3>1, <3>3, OffAssumption, FramesAssumption
      <4> QED
        BY <1>2, <3>1, <3>2, <4>1
    <3>4. CASE Cur < n
      <4>1. Off[Cur] + Size[Cur] =< Off[n]
        BY <1>2, <3>4, OffAssumption, FramesAssumption
      <4> QED
        BY <1>2, <3>1, <3>2, <4>1
    <3> QED
      BY <1>2, <3>1, <3>3, <3>4
  <2>3. (CHOOSE n \in 1 .. Frames : Off[n] = Off[Cur]) = Cur
    BY <1>2, <2>2
  <2> QED
    <3> DEFINE b == whole[1]
    <3>1. b[2] = Off[Cur]
      BY <2>1
    <3> HIDE DEF b
    <3>2. ClaimOf(b) = Claim[CHOOSE n \in 1 .. Frames : Off[n] = Off[Cur]]
      BY <1>2, <3>1, Zenon DEF ClaimOf
    <3> QED
      BY <2>3, <3>2, Zenon DEF b
<1>8. /\ msg.bytes = FrameBytes(conn, Cur)
      /\ msg.to \in {"queued", "dropped"}
      /\ msg \in [bytes : Seq(Nat \X Nat), to : {"queued", "dropped"}]
      /\ msg.to = "queued" => ~(Claim[Cur] > nbytes)
  BY <1>5, <1>6, <1>7 DEF Buf2Mbuf
<1> HIDE DEF need, msg
<1>9. /\ Len(out') = Cur /\ Cur' = Cur + 1 /\ out' # << >>
      /\ out'[Cur] = msg
      /\ \A n \in 1 .. Len(out) : out'[n] = out[n]
      /\ out' \in Seq([bytes : Seq(Nat \X Nat), to : {"queued", "dropped"}])
  <2> DEFINE M == [bytes : Seq(Nat \X Nat), to : {"queued", "dropped"}]
  <2>1. out \in Seq(M) /\ msg \in M /\ out' = Append(out, msg)
    BY <1>1, <1>8 DEF RiverTypeOK
  <2> HIDE DEF M
  <2>2. /\ Len(out') = Len(out) + 1 /\ out' # << >>
        /\ out'[Len(out) + 1] = msg
        /\ \A n \in 1 .. Len(out) : out'[n] = out[n]
        /\ out' \in Seq(M)
    BY <2>1
  <2> QED
    BY <2>2 DEF Cur, M
<1>a. RiverTypeOK'
  <2>1. << >> \in Seq(Nat \X Nat)
    OBVIOUS
  <2> QED
    BY <1>1, <1>4, <1>9, <2>1, SizeAssumption DEF RiverTypeOK
<1>b. FramesIntact'
  <2>1. Claim[Cur] \in Nat /\ nbytes \in Nat
    BY <1>2, SizeAssumption DEF RiverTypeOK
  <2>2. out'[Cur].to = "queued" =>
          Claim[Cur] =< IF Size[Cur] > Normal THEN Size[Cur] + Fudge ELSE Normal
    BY <1>3, <1>8, <1>9, <2>1
  <2>3. out'[Cur].bytes = FrameBytes(conn, Cur)
    BY <1>8, <1>9
  <2>4. \A n \in 1 .. Len(out') : n \in 1 .. Len(out) \/ n = Cur
    BY <1>9 DEF Cur, RiverTypeOK
  <2>5. conn' = conn
    BY <1>1
  <2>6. Len(out') =< Frames
    BY <1>2, <1>9
  <2>7. \A n \in 1 .. Len(out') :
          /\ out'[n].bytes = FrameBytes(conn, n)
          /\ out'[n].to = "queued" =>
               Claim[n] =< IF Size[n] > Normal THEN Size[n] + Fudge ELSE Normal
    BY <1>9, <2>2, <2>3, <2>4 DEF FramesIntact
  <2>8. \A n : FrameBytes(conn, n)' = FrameBytes(conn, n)
    BY <2>5 DEF FrameBytes
  <2> QED
    BY <2>5, <2>6, <2>7, <2>8 DEF FramesIntact, FrameBytes
<1>c. RiverInv'
  <2>1. accum' = [i \in 1 .. ipt' |-> <<conn', Off[Cur'] + i - 1>>]
    BY <1>1
  <2>2. taken' = Off[Cur'] + ipt'
    <3>1. Off[Cur'] = Off[Cur] + Size[Cur]
      BY <1>2, <1>9
    <3>2. taken = Off[Cur] + ipt /\ taken' = taken + need /\ ipt' = 0
      BY <1>1, <1>3
    <3>3. ipt \in Nat /\ taken \in Nat
      BY DEF RiverTypeOK
    <3> QED
      BY <1>2, <1>4, <3>1, <3>2, <3>3
  <2>3. taken' + remain' =< wrote' /\ wrote' =< Off[Frames + 1]
    BY <1>1, <1>4 DEF RiverInv, RiverTypeOK
  <2>4. Cur' =< Frames + 1 /\ (Cur' =< Frames => ipt' < Size[Cur'])
    BY <1>1, <1>2, <1>9, SizeAssumption, FramesAssumption
  <2>5. (at' = "idle" <=> remain' = 0) /\ at' # "body"
    BY <1>1, <1>4 DEF RiverTypeOK
  <2>6. /\ state' = "good" /\ nbytes' = Normal /\ ipt' < SzField
        /\ ~(msg_size' > 0)
    BY <1>1, <1>2, SizeAssumption
  <2> QED
    BY <2>1, <2>2, <2>3, <2>4, <2>5, <2>6 DEF RiverInv
<1> QED
  BY <1>a, <1>b, <1>c

\* A new connection finds a new river.
LEMMA DisconnectInv == IndInv /\ Disconnect => IndInv'
<1> SUFFICES ASSUME IndInv, Disconnect PROVE IndInv'
  OBVIOUS
<1> USE DEF IndInv
<1>1. RiverTypeOK'
  BY DEF Disconnect, RiverTypeOK
<1>2. RiverInv'
  BY FramesAssumption, OffAssumption
  DEF Disconnect, RiverInv, RiverTypeOK, Cur
<1>3. FramesIntact'
  BY FramesAssumption DEF Disconnect, FramesIntact
<1> QED
  BY <1>1, <1>2, <1>3

\* The invariant holds in every reachable state of mt_data_cb's loop.
LEMMA IndInvHolds == RiverSpec => []IndInv
<1>1. RiverInit => IndInv
  BY RiverInitInv
<1>2. IndInv /\ [RiverNext]_rvars => IndInv'
  <2>1. ASSUME IndInv, UNCHANGED rvars PROVE IndInv'
    <3>1. RiverTypeOK'
      BY <2>1 DEF IndInv, rvars, riverVars, RiverTypeOK
    <3>2. RiverInv'
      BY <2>1 DEF IndInv, rvars, riverVars, RiverInv, Cur
    <3>3. FramesIntact'
      BY <2>1 DEF IndInv, rvars, FramesIntact, FrameBytes
    <3> QED
      BY <3>1, <3>2, <3>3 DEF IndInv
  <2> QED
    BY <2>1, PeerSendsInv, DataCbInv, SizeShortInv, SizeReadInv,
       AccumulateInv, DeliverInv, DisconnectInv DEF RiverNext
<1> QED
  BY <1>1, <1>2, PTL DEF RiverSpec

\* For every framing of the peer's messages, every way TCP may cut them into
\* pieces and every sequence of disconnects, mt_data_cb hands on exactly the
\* messages of the connection, whole and in order.
THEOREM FramesIntactHolds == RiverSpec => []FramesIntact
<1>1. IndInv => FramesIntact
  BY DEF IndInv
<1> QED
  BY <1>1, IndInvHolds, PTL

\* And it hands each one on in the call that gets its last byte.
THEOREM NothingHeldBackHolds == RiverSpec => []NothingHeldBack
<1>1. IndInv => NothingHeldBack
  <2>1. SUFFICES ASSUME IndInv, at = "idle", state # "reset",
                        NEW n \in 1 .. Frames, Off[n + 1] =< taken
                 PROVE  n =< Len(out)
    BY DEF NothingHeldBack
  <2> USE DEF IndInv
  <2>2. Off[n + 1] \in Nat /\ Off[n + 1] > 0
    <3>1. Off[n] \in Nat /\ Size[n] \in Nat /\ Size[n] > 0
      <4>1. n \in 1 .. Frames + 1
        BY FramesAssumption
      <4> QED
        BY <4>1, SizeAssumption, OffAssumption
    <3> QED
      BY <3>1, OffAssumption
  <2>3. state = "good"
    BY <2>1, <2>2 DEF RiverInv, RiverTypeOK
  <2>4. Cur \in Nat \ {0} /\ Cur =< Frames + 1 /\ Cur = Len(out) + 1
    BY <2>1, <2>3 DEF RiverInv, RiverTypeOK, Cur
  <2>5. SUFFICES ASSUME Cur =< n PROVE FALSE
    BY <2>1, <2>4 DEF RiverTypeOK
  <2>6. Cur \in 1 .. Frames
    BY <2>4, <2>5, FramesAssumption
  <2>7. /\ Off[Cur] \in Nat /\ Size[Cur] \in Nat /\ ipt < Size[Cur]
        /\ taken = Off[Cur] + ipt
    BY <2>1, <2>3, <2>6, SizeAssumption, OffAssumption, FramesAssumption
    DEF RiverInv
  <2>8. Off[Cur] + Size[Cur] =< Off[n + 1]
    <3>1. n + 1 \in 1 .. Frames + 1 /\ Cur < n + 1
      BY <2>5, <2>6, FramesAssumption
    <3> QED
      BY <2>6, <3>1, OffAssumption
  <2> QED
    BY <2>1, <2>2, <2>7, <2>8 DEF RiverTypeOK
<1> QED
  BY <1>1, IndInvHolds, PTL

\* No copy of mt_data_cb leaves the accumulator.
THEOREM AccumInBoundsHolds == RiverSpec => []AccumInBounds
<1>1. IndInv => AccumInBounds
  <2>1. SUFFICES ASSUME IndInv, state = "good"
                 PROVE  ipt =< nbytes /\ msg_size =< nbytes
    BY DEF AccumInBounds
  <2>2. CASE msg_size > 0
    BY <2>1, <2>2, SizeAssumption DEF IndInv, RiverInv, RiverTypeOK
  <2>3. CASE ~(msg_size > 0)
    BY <2>1, <2>3, SizeAssumption DEF IndInv, RiverInv, RiverTypeOK
  <2> QED
    BY <2>2, <2>3
<1> QED
  BY <1>1, IndInvHolds, PTL

-----------------------------------------------------------------------------
(* The life of a context.                                                  *)

Stages == {"none", "nil", "si", "name", "listen", "ephash", "rtc", "mtc", "done"}

\* From where on the context is complete: nothing of init fails after this.
Complete == {"rtc", "mtc", "done"}

\* What the context points to when init has come to a stage.
Has(s) ==
  CASE s = "si"     -> Early
    [] s = "name"   -> Early \cup {"si_ctx"}
    [] s = "listen" -> Early \cup {"si_ctx"} \cup Names
    [] s = "ephash" -> Early \cup {"si_ctx"} \cup Names \cup {"rtgate"}
    [] s \in Complete -> Needed
    [] OTHER        -> {}

\* What a stage of init says about its context.
Fine(c) ==
  /\ Has(stage[c]) \subseteq owned[c]
  /\ stage[c] \in {"none", "nil"} => owned[c] = {}
  /\ stage[c] \in {"ephash"} \cup Complete => port[c] = "bound"
  /\ port[c] = "bound" =>
       stage[c] \in {"ephash"} \cup Complete \/ lost \cap {"rtgate", "tp_blk"} # {}
  /\ stage[c] \notin {"none", "nil"} => chutes[c] = InitMtcall
  /\ RmrReady(c) => stage[c] \in Complete

\* The inductive invariant of init: how far it has come says what there is,
\* a socket that is bound belongs to a listener or is lost with its block,
\* and only a complete context has threads or a table.
LifeInv ==
  /\ stage \in [Ctxs -> Stages]
  /\ DOMAIN owned = Ctxs /\ DOMAIN rtable_ready = Ctxs /\ DOMAIN chutes = Ctxs
  /\ port \in [Ctxs -> {"free", "bound"}]
  /\ \A c \in Ctxs : Fine(c)
  /\ \A t \in threads : t[1] \in Ctxs /\ stage[t[1]] \in Complete

\* The types of the ring, its counts and the call of rmr_rcv_specific.
RingInv ==
  /\ mring \in Seq({"expected", "other", "none"})
  /\ sem \in Nat /\ requeued \in Nat
  /\ spec.hold \in {"expected", "other", "none"}
  /\ RequeueCounted

-----------------------------------------------------------------------------
(* init.                                                                   *)

\* A context nothing was done to is as fine as before: what is lost stays
\* lost.
LEMMA OtherFine ==
  ASSUME NEW d \in Ctxs, Fine(d), lost \subseteq lost',
         stage'[d] = stage[d], owned'[d] = owned[d], port'[d] = port[d],
         chutes'[d] = chutes[d], rtable_ready'[d] = rtable_ready[d]
  PROVE  Fine(d)'
<1>1. lost \cap {"rtgate", "tp_blk"} # {} => lost' \cap {"rtgate", "tp_blk"} # {}
  OBVIOUS
<1>2. RmrReady(d)' <=> RmrReady(d)
  BY DEF RmrReady
<1> QED
  BY <1>1, <1>2 DEF Fine

\* A step of init on the context c.
LEMMA LifeStep ==
  ASSUME LifeInv, NEW c \in Ctxs, lost \subseteq lost',
         stage' \in [Ctxs -> Stages], port' \in [Ctxs -> {"free", "bound"}],
         DOMAIN owned' = Ctxs, DOMAIN rtable_ready' = Ctxs, DOMAIN chutes' = Ctxs,
         \A d \in Ctxs \ {c} : /\ stage'[d] = stage[d] /\ owned'[d] = owned[d]
                               /\ port'[d] = port[d] /\ chutes'[d] = chutes[d]
                               /\ rtable_ready'[d] = rtable_ready[d],
         Fine(c)', stage[c] \in Complete => stage'[c] \in Complete,
         \A t \in threads' : t \in threads \/ (t[1] = c /\ stage'[c] \in Complete)
  PROVE  LifeInv'
<1>1. \A d \in Ctxs : Fine(d)
  BY DEF LifeInv
<1>2. \A d \in Ctxs : Fine(d)'
  BY <1>1, OtherFine
<1>3. \A t \in threads' : t[1] \in Ctxs /\ stage'[t[1]] \in Complete
  BY DEF LifeInv
<1> QED
  BY <1>2, <1>3 DEF LifeInv

\* Every step of init preserves the invariant.
LEMMA InitStepInv ==
  ASSUME LifeInv, NEW c \in Ctxs,
         \/ InitAlloc(c) \/ InitNoMem(c) \/ InitSi(c) \/ InitName(c) \/ InitListen(c)
         \/ ListenFails(c) \/ InitEphash(c) \/ InitFails(c) \/ InitRtc(c) \/ InitMtc(c)
  PROVE  LifeInv'
<1>f. /\ Fine(c) /\ stage \in [Ctxs -> Stages] /\ port \in [Ctxs -> {"free", "bound"}]
      /\ DOMAIN owned = Ctxs /\ DOMAIN chutes = Ctxs /\ DOMAIN rtable_ready = Ctxs
  BY DEF LifeInv
<1>1. CASE InitAlloc(c)
  <2>1. /\ stage' \in [Ctxs -> Stages] /\ port' \in [Ctxs -> {"free", "bound"}]
        /\ DOMAIN owned' = Ctxs /\ DOMAIN rtable_ready' = Ctxs /\ DOMAIN chutes' = Ctxs
    BY <1>f, <1>1 DEF InitAlloc, Caller, Stages
  <2>2. \A d \in Ctxs \ {c} : /\ stage'[d] = stage[d] /\ owned'[d] = owned[d]
                               /\ port'[d] = port[d] /\ chutes'[d] = chutes[d]
                               /\ rtable_ready'[d] = rtable_ready[d]
    BY <1>f, <1>1 DEF InitAlloc, Caller
  <2>3. /\ stage[c] \in {"none", "nil"}
        /\ stage'[c] = "si" /\ owned'[c] = Early
        /\ port'[c] = port[c] /\ chutes'[c] = InitMtcall
        /\ rtable_ready'[c] = rtable_ready[c]
    BY <1>f, <1>1 DEF InitAlloc, Caller
  <2>4. /\ lost \subseteq lost'
        /\ threads' = threads
    BY <1>1 DEF InitAlloc, Caller
  <2>5. Fine(c)'
    BY <1>f, <2>3, <2>4 DEF Fine, Has, Complete, Needed, RmrReady
  <2> QED
    BY <2>1, <2>2, <2>3, <2>4, <2>5, LifeStep DEF Complete
<1>2. CASE InitNoMem(c)
  <2>1. /\ stage' \in [Ctxs -> Stages] /\ port' \in [Ctxs -> {"free", "bound"}]
        /\ DOMAIN owned' = Ctxs /\ DOMAIN rtable_ready' = Ctxs /\ DOMAIN chutes' = Ctxs
    BY <1>f, <1>2 DEF InitNoMem, Caller, Stages
  <2>2. \A d \in Ctxs \ {c} : /\ stage'[d] = stage[d] /\ owned'[d] = owned[d]
                               /\ port'[d] = port[d] /\ chutes'[d] = chutes[d]
                               /\ rtable_ready'[d] = rtable_ready[d]
    BY <1>f, <1>2 DEF InitNoMem, Caller
  <2>3. /\ stage[c] \in {"none", "nil"}
        /\ stage'[c] = "nil" /\ owned'[c] = owned[c]
        /\ port'[c] = port[c] /\ chutes'[c] = chutes[c]
        /\ rtable_ready'[c] = rtable_ready[c]
    BY <1>f, <1>2 DEF InitNoMem, Caller
  <2>4. /\ lost \subseteq lost'
        /\ threads' = threads
    BY <1>2 DEF InitNoMem, Caller
  <2>5. Fine(c)'
    <3>1. port'[c] = "bound" => lost' \cap {"rtgate", "tp_blk"} # {}
      BY <1>f, <1>2, <2>3, <2>4 DEF Fine, Has, Complete, InitNoMem, Caller
    <3>2. ~RmrReady(c)'
      BY <1>f, <2>3 DEF Fine, RmrReady, Complete
    <3>3. Has("nil") = {}
      BY DEF Has, Complete
    <3> QED
      BY <1>f, <2>3, <3>1, <3>2, <3>3 DEF Fine, Complete
  <2> QED
    BY <2>1, <2>2, <2>3, <2>4, <2>5, LifeStep DEF Complete
<1>3. CASE InitSi(c)
  <2>1. /\ stage' \in [Ctxs -> Stages] /\ port' \in [Ctxs -> {"free", "bound"}]
        /\ DOMAIN owned' = Ctxs /\ DOMAIN rtable_ready' = Ctxs /\ DOMAIN chutes' = Ctxs
    BY <1>f, <1>3 DEF InitSi, Go, Stages
  <2>2. \A d \in Ctxs \ {c} : /\ stage'[d] = stage[d] /\ owned'[d] = owned[d]
                               /\ port'[d] = port[d] /\ chutes'[d] = chutes[d]
                               /\ rtable_ready'[d] = rtable_ready[d]
    BY <1>f, <1>3 DEF InitSi, Go
  <2>3. /\ stage[c] = "si"
        /\ stage'[c] = "name" /\ owned'[c] = (owned[c] \cup {"si_ctx"})
        /\ port'[c] = port[c] /\ chutes'[c] = chutes[c]
        /\ rtable_ready'[c] = rtable_ready[c]
    BY <1>f, <1>3 DEF InitSi, Go
  <2>4. /\ lost \subseteq lost'
        /\ threads' = threads
    BY <1>3 DEF InitSi, Go
  <2>5. Fine(c)'
    BY <1>f, <2>3, <2>4 DEF Fine, Has, Complete, Needed, RmrReady
  <2> QED
    BY <2>1, <2>2, <2>3, <2>4, <2>5, LifeStep DEF Complete
<1>4. CASE InitName(c)
  <2>1. /\ stage' \in [Ctxs -> Stages] /\ port' \in [Ctxs -> {"free", "bound"}]
        /\ DOMAIN owned' = Ctxs /\ DOMAIN rtable_ready' = Ctxs /\ DOMAIN chutes' = Ctxs
    BY <1>f, <1>4 DEF InitName, Go, Stages
  <2>2. \A d \in Ctxs \ {c} : /\ stage'[d] = stage[d] /\ owned'[d] = owned[d]
                               /\ port'[d] = port[d] /\ chutes'[d] = chutes[d]
                               /\ rtable_ready'[d] = rtable_ready[d]
    BY <1>f, <1>4 DEF InitName, Go
  <2>3. /\ stage[c] = "name"
        /\ stage'[c] = "listen" /\ owned'[c] = (owned[c] \cup Names)
        /\ port'[c] = port[c] /\ chutes'[c] = chutes[c]
        /\ rtable_ready'[c] = rtable_ready[c]
    BY <1>f, <1>4 DEF InitName, Go
  <2>4. /\ lost \subseteq lost'
        /\ threads' = threads
    BY <1>4 DEF InitName, Go
  <2>5. Fine(c)'
    BY <1>f, <2>3, <2>4 DEF Fine, Has, Complete, Needed, RmrReady
  <2> QED
    BY <2>1, <2>2, <2>3, <2>4, <2>5, LifeStep DEF Complete
<1>5. CASE InitListen(c)
  <2>1. /\ stage' \in [Ctxs -> Stages] /\ port' \in [Ctxs -> {"free", "bound"}]
        /\ DOMAIN owned' = Ctxs /\ DOMAIN rtable_ready' = Ctxs /\ DOMAIN chutes' = Ctxs
    BY <1>f, <1>5 DEF InitListen, Go, ListenPrep, Stages
  <2>2. \A d \in Ctxs \ {c} : /\ stage'[d] = stage[d] /\ owned'[d] = owned[d]
                               /\ port'[d] = port[d] /\ chutes'[d] = chutes[d]
                               /\ rtable_ready'[d] = rtable_ready[d]
    BY <1>f, <1>5 DEF InitListen, Go, ListenPrep
  <2>3. /\ stage[c] = "listen"
        /\ stage'[c] = "ephash" /\ owned'[c] = (owned[c] \cup {"rtgate"})
        /\ port'[c] = "bound" /\ chutes'[c] = chutes[c]
        /\ rtable_ready'[c] = rtable_ready[c]
    BY <1>f, <1>5 DEF InitListen, Go, ListenPrep
  <2>4. /\ lost \subseteq lost'
        /\ threads' = threads
    BY <1>5 DEF InitListen, Go, ListenPrep
  <2>5. Fine(c)'
    BY <1>f, <2>3, <2>4 DEF Fine, Has, Complete, Needed, RmrReady
  <2> QED
    BY <2>1, <2>2, <2>3, <2>4, <2>5, LifeStep DEF Complete
<1>6. CASE ListenFails(c)
  <2>1. /\ stage' \in [Ctxs -> Stages] /\ port' \in [Ctxs -> {"free", "bound"}]
        /\ DOMAIN owned' = Ctxs /\ DOMAIN rtable_ready' = Ctxs /\ DOMAIN chutes' = Ctxs
    BY <1>f, <1>6 DEF ListenFails, ListenPrep, Stages
  <2>2. \A d \in Ctxs \ {c} : /\ stage'[d] = stage[d] /\ owned'[d] = owned[d]
                               /\ port'[d] = port[d] /\ chutes'[d] = chutes[d]
                               /\ rtable_ready'[d] = rtable_ready[d]
    BY <1>f, <1>6 DEF ListenFails, ListenPrep
  <2>3. /\ stage[c] = "listen"
        /\ stage'[c] = "nil" /\ owned'[c] = {}
        /\ port'[c] = "bound" /\ chutes'[c] = chutes[c]
        /\ rtable_ready'[c] = rtable_ready[c]
    BY <1>f, <1>6 DEF ListenFails, ListenPrep
  <2>4. /\ lost \subseteq lost'
        /\ threads' = threads
    BY <1>6 DEF ListenFails, ListenPrep
  <2>5. Fine(c)'
    <3>1. port'[c] = "bound" => lost' \cap {"rtgate", "tp_blk"} # {}
      BY <1>f, <1>6, <2>3, <2>4 DEF Fine, Has, Complete, ListenFails, ListenPrep, FreeCtx
    <3>2. ~RmrReady(c)'
      BY <1>f, <2>3 DEF Fine, RmrReady, Complete
    <3>3. Has("nil") = {}
      BY DEF Has, Complete
    <3> QED
      BY <1>f, <2>3, <3>1, <3>2, <3>3 DEF Fine, Complete
  <2> QED
    BY <2>1, <2>2, <2>3, <2>4, <2>5, LifeStep DEF Complete
<1>7. CASE InitEphash(c)
  <2>1. /\ stage' \in [Ctxs -> Stages] /\ port' \in [Ctxs -> {"free", "bound"}]
        /\ DOMAIN owned' = Ctxs /\ DOMAIN rtable_ready' = Ctxs /\ DOMAIN chutes' = Ctxs
    BY <1>f, <1>7 DEF InitEphash, Go, Stages
  <2>2. \A d \in Ctxs \ {c} : /\ stage'[d] = stage[d] /\ owned'[d] = owned[d]
                               /\ port'[d] = port[d] /\ chutes'[d] = chutes[d]
                               /\ rtable_ready'[d] = rtable_ready[d]
    BY <1>f, <1>7 DEF InitEphash, Go
  <2>3. /\ stage[c] = "ephash"
        /\ stage'[c] = "rtc" /\ owned'[c] = (owned[c] \cup {"ephash", "rtable"})
        /\ port'[c] = port[c] /\ chutes'[c] = chutes[c]
        /\ rtable_ready'[c] = (IF c = "pvt" THEN "yes" ELSE "no")
    BY <1>f, <1>7 DEF InitEphash, Go
  <2>4. /\ lost \subseteq lost'
        /\ threads' = threads
    BY <1>7 DEF InitEphash, Go
  <2>5. Fine(c)'
    BY <1>f, <2>3, <2>4 DEF Fine, Has, Complete, Needed, RmrReady
  <2> QED
    BY <2>1, <2>2, <2>3, <2>4, <2>5, LifeStep DEF Complete
<1>8. CASE InitFails(c)
  <2>1. /\ stage' \in [Ctxs -> Stages] /\ port' \in [Ctxs -> {"free", "bound"}]
        /\ DOMAIN owned' = Ctxs /\ DOMAIN rtable_ready' = Ctxs /\ DOMAIN chutes' = Ctxs
    BY <1>f, <1>8 DEF InitFails, InitErr, Stages
  <2>2. \A d \in Ctxs \ {c} : /\ stage'[d] = stage[d] /\ owned'[d] = owned[d]
                               /\ port'[d] = port[d] /\ chutes'[d] = chutes[d]
                               /\ rtable_ready'[d] = rtable_ready[d]
    BY <1>f, <1>8 DEF InitFails, InitErr
  <2>3. /\ stage[c] \in {"si", "name", "listen", "ephash"}
        /\ stage'[c] = "nil" /\ owned'[c] = {}
        /\ port'[c] = port[c] /\ chutes'[c] = chutes[c]
        /\ rtable_ready'[c] = rtable_ready[c]
    BY <1>f, <1>8 DEF InitFails, InitErr
  <2>4. /\ lost \subseteq lost'
        /\ threads' = threads
    BY <1>8 DEF InitFails, InitErr
  <2>5. Fine(c)'
    <3>1. port'[c] = "bound" => lost' \cap {"rtgate", "tp_blk"} # {}
      BY <1>f, <1>8, <2>3, <2>4 DEF Fine, Has, Complete, InitFails, InitErr, FreeCtx
    <3>2. ~RmrReady(c)'
      BY <1>f, <2>3 DEF Fine, RmrReady, Complete
    <3>3. Has("nil") = {}
      BY DEF Has, Complete
    <3> QED
      BY <1>f, <2>3, <3>1, <3>2, <3>3 DEF Fine, Complete
  <2> QED
    BY <2>1, <2>2, <2>3, <2>4, <2>5, LifeStep DEF Complete
<1>9. CASE InitRtc(c)
  <2>1. /\ stage' \in [Ctxs -> Stages] /\ port' \in [Ctxs -> {"free", "bound"}]
        /\ DOMAIN owned' = Ctxs /\ DOMAIN rtable_ready' = Ctxs /\ DOMAIN chutes' = Ctxs
    BY <1>f, <1>9 DEF InitRtc, Go, Stages
  <2>2. \A d \in Ctxs \ {c} : /\ stage'[d] = stage[d] /\ owned'[d] = owned[d]
                               /\ port'[d] = port[d] /\ chutes'[d] = chutes[d]
                               /\ rtable_ready'[d] = rtable_ready[d]
    BY <1>f, <1>9 DEF InitRtc, Go
  <2>3. /\ stage[c] = "rtc"
        /\ stage'[c] = "mtc" /\ owned'[c] = (owned[c] \cup {})
        /\ port'[c] = port[c] /\ chutes'[c] = chutes[c]
        /\ rtable_ready'[c] = rtable_ready[c]
    BY <1>f, <1>9 DEF InitRtc, Go
  <2>4. /\ lost \subseteq lost'
        /\ \A t \in threads' : t \in threads \/ t[1] = c
    BY <1>9 DEF InitRtc, Go
  <2>5. Fine(c)'
    BY <1>f, <2>3, <2>4 DEF Fine, Has, Complete, Needed, RmrReady
  <2> QED
    BY <2>1, <2>2, <2>3, <2>4, <2>5, LifeStep DEF Complete
<1>10. CASE InitMtc(c)
  <2>1. /\ stage' \in [Ctxs -> Stages] /\ port' \in [Ctxs -> {"free", "bound"}]
        /\ DOMAIN owned' = Ctxs /\ DOMAIN rtable_ready' = Ctxs /\ DOMAIN chutes' = Ctxs
    BY <1>f, <1>10 DEF InitMtc, Go, Stages
  <2>2. \A d \in Ctxs \ {c} : /\ stage'[d] = stage[d] /\ owned'[d] = owned[d]
                               /\ port'[d] = port[d] /\ chutes'[d] = chutes[d]
                               /\ rtable_ready'[d] = rtable_ready[d]
    BY <1>f, <1>10 DEF InitMtc, Go
  <2>3. /\ stage[c] = "mtc"
        /\ stage'[c] = "done" /\ owned'[c] = (owned[c] \cup {})
        /\ port'[c] = port[c] /\ chutes'[c] = chutes[c]
        /\ rtable_ready'[c] = rtable_ready[c]
    BY <1>f, <1>10 DEF InitMtc, Go
  <2>4. /\ lost \subseteq lost'
        /\ \A t \in threads' : t \in threads \/ t[1] = c
    BY <1>10 DEF InitMtc, Go
  <2>5. Fine(c)'
    BY <1>f, <2>3, <2>4 DEF Fine, Has, Complete, Needed, RmrReady
  <2> QED
    BY <2>1, <2>2, <2>3, <2>4, <2>5, LifeStep DEF Complete
<1> QED
  BY <1>1, <1>2, <1>3, <1>4, <1>5, <1>6, <1>7, <1>8, <1>9, <1>10

\* The other steps leave the contexts as they are, but for the first table
\* and the collector's end.
LEMMA UseStepInv ==
  ASSUME LifeInv,
         \/ FirstTable \/ Closed \/ Arrives \/ RcvMsg1 \/ RcvSpecific
         \/ SpecificTake \/ SpecificQueue \/ UNCHANGED xvars
  PROVE  LifeInv'
<1>0. "user" \in Ctxs
  BY DEF Ctxs
<1>1. CASE FirstTable
  <2>1. stage["user"] \in Complete
    <3>1. PICK t \in threads : t = <<"user", "rtc">>
      BY <1>1 DEF FirstTable
    <3> QED
      BY <3>1 DEF LifeInv
  <2>2. /\ UNCHANGED <<stage, owned, lost, port, threads, chutes>>
        /\ DOMAIN rtable_ready' = Ctxs
        /\ \A d \in Ctxs \ {"user"} : rtable_ready'[d] = rtable_ready[d]
    BY <1>1 DEF FirstTable, LifeInv
  <2>3. Fine("user")'
    BY <1>0, <2>1, <2>2 DEF LifeInv, Fine
  <2> QED
    BY <1>0, <2>2, <2>3, LifeStep DEF LifeInv
<1>2. CASE UNCHANGED <<stage, owned, lost, port, chutes, rtable_ready>> /\ threads' \subseteq threads
  <2>1. \A d \in Ctxs : Fine(d)'
    BY <1>2, OtherFine DEF LifeInv
  <2> QED
    BY <1>2, <2>1 DEF LifeInv
<1> QED
  BY <1>1, <1>2 DEF Closed, Arrives, RcvMsg1, RcvSpecific, SpecificTake, SpecificQueue, xvars

\* The invariant of init holds in every state.
LEMMA LifeAlways == ContextSpec => []LifeInv
<1>1. ContextInit => LifeInv
  BY DEF ContextInit, LifeInv, Fine, Has, Complete, Stages, RmrReady
<1>2. LifeInv /\ [ContextNext]_xvars => LifeInv'
  BY InitStepInv, UseStepInv DEF ContextNext
<1> QED
  BY <1>1, <1>2, PTL DEF ContextSpec

\* InitOrNothing: init returns a complete context or nil, whichever of its
\* steps fails and however often it is called; no thread and no rmr_ready
\* relies on less, and only a lost listener keeps a port.
THEOREM InitOrNothingHolds == ContextSpec => []InitOrNothing
<1>1. LifeInv => InitOrNothing
  <2> SUFFICES ASSUME LifeInv PROVE InitOrNothing
    OBVIOUS
  <2>1. ASSUME NEW c \in Ctxs, stage[c] \in Complete
        PROVE  Needed \subseteq owned[c] /\ port[c] = "bound" /\ chutes[c] = InitMtcall
    <3>1. Fine(c) /\ Has(stage[c]) = Needed
      BY <2>1 DEF LifeInv, Has, Complete
    <3> QED
      BY <2>1, <3>1 DEF Fine, Complete
  <2>2. CallIds \ {MaxCallId} \subseteq InitMtcall
    BY CallIdAssumption DEF CallIds, InitMtcall
  <2>3. \A c \in Ctxs : stage[c] = "done" => stage[c] \in Complete
    BY DEF Complete
  <2>4. \A c \in Ctxs : RmrReady(c) => Needed \subseteq owned[c]
    BY <2>1 DEF LifeInv, Fine
  <2>5. \A t \in threads : Needed \subseteq owned[t[1]]
    BY <2>1 DEF LifeInv
  <2>6. \A c \in Ctxs :
          /\ stage[c] = "nil" => owned[c] = {}
          /\ port[c] = "bound" /\ stage[c] = "nil" => lost \cap {"rtgate", "tp_blk"} # {}
    BY DEF LifeInv, Fine, Complete
  <2> QED
    BY <2>1, <2>2, <2>3, <2>4, <2>5, <2>6 DEF InitOrNothing
<1> QED
  BY <1>1, LifeAlways, PTL

-----------------------------------------------------------------------------
(* rmr_rcv_specific.                                                       *)

\* A receive that takes a count finds a message on the ring.
LEMMA TakeFinds ==
  ASSUME RingInv, Take
  PROVE  /\ mring # <<>> /\ mring' = Tail(mring) /\ sem' = sem - 1
         /\ sem' \in Nat /\ mring' \in Seq({"expected", "other", "none"})
         /\ Len(mring') = Len(mring) - 1
         /\ Head(mring) \in {"expected", "other", "none"}
<1>1. Len(mring) > 0
  BY DEF RingInv, RequeueCounted, Take
<1>2. mring # <<>>
  BY <1>1
<1>3. mring' = Tail(mring) /\ sem' = sem - 1 /\ sem > 0
  BY <1>2 DEF Take
<1> QED
  BY <1>2, <1>3 DEF RingInv

\* What appending a message to the ring does to its length.
LEMMA Appended ==
  ASSUME NEW m \in {"expected", "other", "none"}, RingInv
  PROVE  /\ Append(mring, m) \in Seq({"expected", "other", "none"})
         /\ Len(Append(mring, m)) = Len(mring) + 1
         /\ Len(mring) \in Nat
  BY DEF RingInv

\* RequeueCounted: the semaphore is behind the ring by exactly the messages
\* rmr_rcv_specific put back without a post, for every size of the ring and
\* every allow2queue.
THEOREM RequeueCountedHolds == ContextSpec => []RequeueCounted
<1>1. ContextInit => RingInv
  BY DEF ContextInit, RingInv, RequeueCounted, NotCalled
<1>2. RingInv /\ [ContextNext]_xvars => RingInv'
  <2> SUFFICES ASSUME RingInv, [ContextNext]_xvars PROVE RingInv'
    OBVIOUS
  <2>1. CASE UNCHANGED queueVars
    BY <2>1 DEF RingInv, RequeueCounted, queueVars
  <2>2. CASE Arrives
    <3>1. PICK m \in {"expected", "other"} : Arrive(m)
      BY <2>2 DEF Arrives
    <3>2. UNCHANGED <<requeued, spec>>
      BY <2>2 DEF Arrives
    <3>3. CASE mring' = Append(mring, m) /\ sem' = sem + 1
      BY <3>2, <3>3, Appended DEF RingInv, RequeueCounted
    <3>4. CASE UNCHANGED <<mring, sem>>
      BY <3>2, <3>4 DEF RingInv, RequeueCounted
    <3> QED
      BY <3>1, <3>3, <3>4 DEF Arrive
  <2>3. CASE RcvMsg1
    BY <2>3, TakeFinds DEF RingInv, RequeueCounted, RcvMsg1
  <2>4. CASE RcvSpecific
    BY <2>4 DEF RingInv, RequeueCounted, RcvSpecific, NotCalled
  <2>5. CASE SpecificTake
    <3>1. spec'.hold \in {"expected", "other", "none"}
      BY <2>5, TakeFinds DEF RingInv, SpecificTake, NotCalled
    <3> QED
      BY <2>5, <3>1, TakeFinds DEF RingInv, RequeueCounted, SpecificTake
  <2>6. CASE SpecificQueue
    <3>1. sem' = sem
      BY <2>6 DEF SpecificQueue
    <3>2. CASE /\ mring' = Append(mring, spec.hold) /\ requeued' = requeued + 1
               /\ spec'.hold = "none"
      BY <3>1, <3>2, Appended DEF RingInv, RequeueCounted
    <3>3. CASE UNCHANGED <<mring, requeued>> /\ spec'.hold = "none"
      BY <3>1, <3>3 DEF RingInv, RequeueCounted
    <3> QED
      BY <2>6, <3>2, <3>3 DEF SpecificQueue, NotCalled
  <2>7. CASE \E c \in Ctxs :
               \/ InitAlloc(c) \/ InitNoMem(c) \/ InitSi(c) \/ InitName(c) \/ InitListen(c)
               \/ ListenFails(c) \/ InitEphash(c) \/ InitFails(c) \/ InitRtc(c) \/ InitMtc(c)
    BY <2>1, <2>7 DEF InitAlloc, InitNoMem, InitSi, InitName, InitListen, ListenFails,
       InitEphash, InitFails, InitRtc, InitMtc
  <2> QED
    BY <2>1, <2>2, <2>3, <2>4, <2>5, <2>6, <2>7 DEF ContextNext, FirstTable, Closed, xvars,
       queueVars
<1> QED
  BY <1>1, <1>2, PTL DEF ContextSpec, RingInv
=============================================================================
