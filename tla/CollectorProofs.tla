--------------------------- MODULE CollectorProofs --------------------------
(***************************************************************************)
(* Theorems about Collector and Wormholes, for every interleaving of the   *)
(* collector with applications, peers, dropped messages and a close, any   *)
(* number of threads, targets and slots, and any bounds.  Each property    *)
(* has an invariant of its own: UserInv and PvtInv for the wormholes of    *)
(* the two contexts, StashInv for the files, AlarmInv and AnswerInv.       *)
(***************************************************************************)
EXTENDS Collector, WellFoundedInduction, TLAPS

-----------------------------------------------------------------------------
(* Finding a slot.                                                         *)

\* A set of indices has a smallest one, which Scan takes.
LEMMA Smallest ==
  ASSUME NEW s \in SUBSET Nat, s # {}
  PROVE  \E i \in s : \A j \in s : i <= j
<1> DEFINE R == OpToRel(<, Nat)
<1>1. PICK i \in s : \A j \in s : ~(<<j, i>> \in R)
  <2>1. IsWellFoundedOn(R, Nat)
    BY NatLessThanWellFounded, Zenon
  <2> HIDE DEF R
  <2> QED
    BY <2>1, WFMin, Zenon
<1>2. ASSUME NEW j \in s PROVE i <= j
  <2>1. ~(<<j, i>> \in R)
    BY <1>1, Zenon
  <2>2. i \in Nat /\ j \in Nat
    OBVIOUS
  <2>3. ~(j < i)
    BY <2>1, <2>2 DEF OpToRel
  <2> QED
    BY <2>2, <2>3
<1> QED
  BY <1>2

\* The slot is free or the target's own, or one past the end.
LEMMA ScanFacts ==
  ASSUME NEW V, NEW w \in Seq(V), NEW t
  PROVE  /\ Scan(w, t) \in 1 .. Len(w) + 1
         /\ Scan(w, t) \in DOMAIN w => w[Scan(w, t)] \in {t, None}
<1> DEFINE having(x) == {i \in DOMAIN w : w[i] = x}
           first(s) == CHOOSE i \in s : \A j \in s : i <= j
<1>0. DOMAIN w = 1 .. Len(w) /\ Len(w) \in Nat
  OBVIOUS
<1>1. ASSUME NEW x, having(x) # {}
      PROVE  first(having(x)) \in DOMAIN w /\ w[first(having(x))] = x
  <2>1. having(x) \in SUBSET Nat
    BY <1>0
  <2>2. \E i \in having(x) : \A j \in having(x) : i <= j
    BY <1>1, <2>1, Smallest, Zenon
  <2>3. first(having(x)) \in having(x)
    BY <2>2, Zenon
  <2> QED
    BY <2>3, Zenon
<1>2. CASE having(t) # {}
  <2>1. Scan(w, t) = first(having(t))
    BY <1>2, Zenon DEF Scan
  <2>2. Scan(w, t) \in DOMAIN w /\ w[Scan(w, t)] = t
    BY <1>1, <1>2, <2>1, Zenon
  <2> QED
    BY <1>0, <2>2
<1>3. CASE having(t) = {} /\ having(None) # {}
  <2>1. Scan(w, t) = first(having(None))
    BY <1>3, Zenon DEF Scan
  <2>2. Scan(w, t) \in DOMAIN w /\ w[Scan(w, t)] = None
    BY <1>1, <1>3, <2>1, Zenon
  <2> QED
    BY <1>0, <2>2
<1>4. CASE having(t) = {} /\ having(None) = {}
  <2>1. Scan(w, t) = Len(w) + 1
    BY <1>4, Zenon DEF Scan
  <2> QED
    BY <1>0, <2>1
<1> QED
  BY <1>2, <1>3, <1>4, Zenon

\* A list that is made or extended keeps what it has, and has the slot.
LEMMA ExtendFacts ==
  ASSUME NEW V, None \in V, NEW w \in Seq(V), NEW i \in 1 .. Len(WhInit(w)) + 1
  PROVE  LET x == WhExtend(WhInit(w), i)
         IN  /\ WhInit(w) \in Seq(V) /\ x \in Seq(V) /\ i \in DOMAIN x
             /\ \A j \in DOMAIN w : j \in DOMAIN x /\ x[j] = w[j]
             /\ \A j \in DOMAIN w : WhInit(w) = w
             /\ \A j \in DOMAIN x : j \notin DOMAIN WhInit(w) => x[j] = None
             /\ \A j \in DOMAIN WhInit(w) : j \in DOMAIN x /\ x[j] = WhInit(w)[j]
<1> DEFINE v == WhInit(w)
           x == WhExtend(v, i)
<1>1. Empty \in Seq(V) /\ Len(Empty) = Chunk /\ \A j \in 1 .. Chunk : Empty[j] = None
  BY SlotsAssumption DEF Empty
<1>2. v \in Seq(V) /\ (\A j \in DOMAIN w : v = w)
  <2>1. CASE w = <<>>
    BY <1>1, <2>1 DEF WhInit
  <2>2. CASE w # <<>>
    BY <2>2 DEF WhInit
  <2> QED
    BY <2>1, <2>2
<1>3. i \in Nat /\ i <= Len(v) + 1 /\ i >= 1
  BY <1>2
<1> HIDE DEF v
<1>4. CASE i > Len(v)
  <2>1. x = v \o Empty
    BY <1>4 DEF WhExtend
  <2> HIDE DEF x
  <2>2. x \in Seq(V) /\ Len(x) = Len(v) + Chunk
    <3>1. v \in Seq(V) /\ Empty \in Seq(V)
      BY <1>1, <1>2
    <3>2. x \in Seq(V) /\ Len(x) = Len(v) + Len(Empty)
      BY <2>1, <3>1
    <3> QED
      BY <1>1, <3>2, Zenon
  <2>3. \A j \in 1 .. Len(v) : x[j] = v[j]
    BY <1>1, <1>2, <2>1
  <2>4. \A j \in 1 .. Len(x) : j > Len(v) => x[j] = None
    <3> SUFFICES ASSUME NEW j \in 1 .. Len(x), j > Len(v) PROVE x[j] = None
      OBVIOUS
    <3>1. x[j] = Empty[j - Len(v)] /\ j - Len(v) \in 1 .. Chunk
      BY <1>1, <1>2, <2>1, <2>2
    <3> QED
      BY <1>1, <3>1
  <2>5. DOMAIN x = 1 .. Len(x) /\ DOMAIN v = 1 .. Len(v)
    BY <1>2, <2>2
  <2>6. i \in DOMAIN x
    BY <1>2, <1>3, <2>2, <2>5, SlotsAssumption
  <2>7. \A j \in DOMAIN v : j \in DOMAIN x /\ x[j] = v[j]
    BY <1>2, <2>2, <2>3, <2>5, SlotsAssumption
  <2>8. \A j \in DOMAIN x : j \notin DOMAIN v => x[j] = None
    BY <1>2, <2>2, <2>4, <2>5
  <2> QED
    BY <1>2, <2>2, <2>6, <2>7, <2>8 DEF x, v
<1>5. CASE ~(i > Len(v))
  <2>1. x = v
    BY <1>5 DEF WhExtend
  <2>2. i \in DOMAIN v
    BY <1>2, <1>3, <1>5
  <2> QED
    BY <1>2, <2>1, <2>2 DEF x, v
<1> QED
  BY <1>4, <1>5

\* rmr_wh_open of a context that one thread uses: the wormholes that are open
\* keep their slots, and the id it returns is that of the target.
LEMMA OpenKeeps ==
  ASSUME NEW V, None \in V, NEW w \in Seq(V), NEW t \in V, NEW open, NEW linked \in BOOLEAN
  PROVE  LET o == WhOpen(w, t, open, linked)
         IN  /\ o.wh \in Seq(V)
             /\ \A j \in DOMAIN w : w[j] # None => j \in DOMAIN o.wh /\ o.wh[j] = w[j]
             /\ o.id # 0 => o.id \in DOMAIN o.wh /\ o.wh[o.id] = t
<1> DEFINE v == WhInit(w)
           i == Scan(v, t)
           x == WhExtend(v, i)
           o == WhOpen(w, t, open, linked)
<1>0. v \in Seq(V)
  <2>1. CASE w = <<>>
    BY <2>1, SlotsAssumption DEF WhInit, Empty
  <2>2. CASE w # <<>>
    BY <2>2 DEF WhInit
  <2> QED
    BY <2>1, <2>2
<1>1. i \in 1 .. Len(v) + 1 /\ (i \in DOMAIN v => v[i] \in {t, None})
  BY <1>0, ScanFacts
<1>2. /\ x \in Seq(V) /\ i \in DOMAIN x
      /\ \A j \in DOMAIN w : j \in DOMAIN x /\ x[j] = w[j]
      /\ \A j \in DOMAIN w : v = w
  BY <1>1, ExtendFacts
<1>3. o = IF v # x \/ v[i] # t \/ t \notin open
          THEN IF linked THEN [wh |-> [x EXCEPT ![i] = t], id |-> i]
               ELSE [wh |-> x, id |-> 0]
          ELSE [wh |-> v, id |-> i]
  BY Zenon DEF WhOpen
<1> HIDE DEF v, i, x, o
<1>4. ASSUME NEW j \in DOMAIN w, w[j] # None, j = i PROVE w[j] = t
  BY <1>1, <1>2, <1>4
<1>5. CASE o = [wh |-> [x EXCEPT ![i] = t], id |-> i]
  <2>1. o.wh = [x EXCEPT ![i] = t] /\ o.id = i
    BY <1>5
  <2>2. o.wh \in Seq(V) /\ DOMAIN o.wh = DOMAIN x
    BY <1>2, <2>1
  <2>3. \A j \in DOMAIN x : o.wh[j] = IF j = i THEN t ELSE x[j]
    BY <2>1
  <2> QED
    BY <1>2, <1>4, <2>1, <2>2, <2>3 DEF o
<1>6. CASE o = [wh |-> x, id |-> 0]
  BY <1>2, <1>6 DEF o
<1>7. CASE v = x /\ v[i] = t /\ o = [wh |-> v, id |-> i]
  BY <1>2, <1>7 DEF o
<1> QED
  BY <1>3, <1>5, <1>6, <1>7

\* rmr_wh_close frees the one slot.
LEMMA CloseFacts ==
  ASSUME NEW V, None \in V, NEW w \in Seq(V), NEW id
  PROVE  /\ WhClose(w, id) \in Seq(V) /\ DOMAIN WhClose(w, id) = DOMAIN w
         /\ \A j \in DOMAIN w : j # id => WhClose(w, id)[j] = w[j]
         /\ \A j \in DOMAIN w : WhClose(w, id)[j] \in {None, w[j]}
         /\ ~Valid(w, id) => WhClose(w, id) = w
<1>1. CASE Valid(w, id)
  BY <1>1 DEF WhClose, Valid
<1>2. CASE ~Valid(w, id)
  BY <1>2 DEF WhClose
<1> QED
  BY <1>1, <1>2

-----------------------------------------------------------------------------
(* Wormholes of the private context.                                       *)

\* The id of the alarms is that of the alarm manager.
PvtInv ==
  /\ pwh \in Seq(Peers \cup {None})
  /\ "alarm" \notin unsafe /\ alarm_whid # 0 =>
       alarm_whid \in DOMAIN pwh /\ pwh[alarm_whid] = AlarmEndpt

\* An open of the private context keeps the alarms' wormhole.
LEMMA PvtOpens ==
  ASSUME PvtInv, NEW t \in Peers
  PROVE  /\ PvtOpen(t).wh \in Seq(Peers \cup {None})
         /\ "alarm" \notin unsafe /\ alarm_whid # 0 =>
              alarm_whid \in DOMAIN PvtOpen(t).wh /\ PvtOpen(t).wh[alarm_whid] = AlarmEndpt
         /\ PvtOpen(t).id # 0 =>
              PvtOpen(t).id \in DOMAIN PvtOpen(t).wh /\ PvtOpen(t).wh[PvtOpen(t).id] = t
<1>0. PICK linked \in BOOLEAN : linked <=> t \in up
  <2>1. CASE t \in up
    BY <2>1, Zenon
  <2>2. CASE t \notin up
    BY <2>2, Zenon
  <2> QED
    BY <2>1, <2>2
<1> DEFINE V == Peers \cup {None}
           o == WhOpen(pwh, t, popen, linked)
<1>1. None \in V /\ pwh \in Seq(V) /\ t \in V
  BY DEF PvtInv
<1>2. /\ o.wh \in Seq(V)
      /\ \A j \in DOMAIN pwh : pwh[j] # None => j \in DOMAIN o.wh /\ o.wh[j] = pwh[j]
      /\ o.id # 0 => o.id \in DOMAIN o.wh /\ o.wh[o.id] = t
  <2> HIDE DEF V
  <2> QED
    BY <1>1, OpenKeeps
<1>3. o = PvtOpen(t)
  BY <1>0, Zenon DEF PvtOpen
<1> HIDE DEF o
<1>4. AlarmEndpt # None
  BY DEF AlarmEndpt, None
<1> QED
  BY <1>2, <1>3, <1>4 DEF PvtInv

\* A request may open the manager's wormhole.
LEMMA PvtRequest ==
  ASSUME PvtInv, Request
  PROVE  PvtInv'
<1>1. pwh' = PvtOpen("rm").wh \/ pwh' = pwh
  BY DEF Request
<1>2. unsafe' \in {unsafe, unsafe \cup {"closed"}} /\ alarm_whid' = alarm_whid
  BY DEF Request, SendUpdateReq
<1>3. "alarm" \notin unsafe' => "alarm" \notin unsafe
  BY <1>2
<1>4. CASE pwh' = pwh
  BY <1>2, <1>3, <1>4 DEF PvtInv
<1>5. CASE pwh' = PvtOpen("rm").wh
  <2>1. "rm" \in Peers
    BY DEF Peers
  <2>2. /\ pwh' \in Seq(Peers \cup {None})
        /\ "alarm" \notin unsafe /\ alarm_whid # 0 =>
             alarm_whid \in DOMAIN pwh' /\ pwh'[alarm_whid] = AlarmEndpt
    BY <1>5, <2>1, PvtOpens
  <2> QED
    BY <1>2, <1>3, <2>2 DEF PvtInv, AlarmEndpt
<1> QED
  BY <1>1, <1>4, <1>5

\* uta_alarm_send opens the wormhole of the alarms if there is none.
LEMMA PvtAlarm ==
  ASSUME PvtInv, NEW m, Receive(m)
  PROVE  PvtInv'
<1>1. unsafe' = unsafe
  BY Zenon DEF Receive, wvars
<1>2. CASE NoAlarm
  BY <1>1, <1>2 DEF PvtInv, NoAlarm
<1>3. CASE AlarmSend
  <2>1. CASE alarm_whid # 0
    <3>1. pwh' = pwh /\ alarm_whid' = alarm_whid
      BY <1>3, <2>1 DEF AlarmSend
    <3> QED
      BY <1>1, <3>1 DEF PvtInv
  <2>2. CASE alarm_whid = 0
    <3>1. pwh' = PvtOpen(AlarmEndpt).wh /\ alarm_whid' = PvtOpen(AlarmEndpt).id
      BY <1>3, <2>2, Zenon DEF AlarmSend
    <3>2. AlarmEndpt \in Peers
      BY DEF AlarmEndpt, Peers
    <3>3. /\ pwh' \in Seq(Peers \cup {None})
          /\ alarm_whid' # 0 => alarm_whid' \in DOMAIN pwh' /\ pwh'[alarm_whid'] = AlarmEndpt
      BY <3>1, <3>2, PvtOpens
    <3> QED
      BY <3>3 DEF PvtInv
  <2> QED
    BY <2>1, <2>2
<1> QED
  BY <1>2, <1>3, Zenon DEF Receive, AlarmIfDrops, Raise, StillDropping, FirstQuiet, Clear,
                           NothingToDo, UtaAlarm

\* send_rt_ack may close the id it answers through; if it is the alarms', that
\* is noted.
LEMMA PvtAck ==
  ASSUME PvtInv, ParseStart \/ EndWrong \/ EndRight
  PROVE  PvtInv'
<1>1. alarm_whid' = alarm_whid
  BY DEF ParseStart, EndWrong, EndRight
<1>2. CASE UNCHANGED <<pwh, unsafe>>
  BY <1>1, <1>2 DEF PvtInv
<1>3. CASE /\ pwh' = WhClose(pwh, ack_whid)
           /\ unsafe' = IF alarm_whid = ack_whid THEN unsafe \cup {"alarm"} ELSE unsafe
  <2>1. None \in Peers \cup {None} /\ pwh \in Seq(Peers \cup {None})
    BY DEF PvtInv
  <2>2. /\ pwh' \in Seq(Peers \cup {None}) /\ DOMAIN pwh' = DOMAIN pwh
        /\ \A j \in DOMAIN pwh : j # ack_whid => pwh'[j] = pwh[j]
    BY <1>3, <2>1, CloseFacts
  <2>3. "alarm" \notin unsafe' => "alarm" \notin unsafe /\ alarm_whid # ack_whid
    BY <1>3
  <2> QED
    BY <1>1, <2>2, <2>3 DEF PvtInv, AlarmEndpt
<1> QED
  BY <1>2, <1>3, Zenon DEF ParseStart, EndWrong, EndRight, SendRtAck, NoAck

\* Applications use their own list; they can only mark opens that overlap.
LEMMA AppUnsafe ==
  ASSUME AppStep
  PROVE  unsafe' \in {unsafe, unsafe \cup {"overlap"}}
<1>1. CASE \E p \in AppThreads, t \in Targets : WhScan(p, t)
  BY <1>1 DEF WhScan
<1>2. CASE ~(\E p \in AppThreads, t \in Targets : WhScan(p, t))
  <2>1. UNCHANGED unsafe
    BY <1>2, Zenon DEF AppStep, WhStore, WhRefused, WhRelease, WhSendReopens, WhCall, UserDisc
  <2> QED
    BY <2>1
<1> QED
  BY <1>1, <1>2

\* Every step keeps the invariant of the private context's wormholes.
LEMMA PvtStep ==
  ASSUME PvtInv, [CollectorNext]_cvars
  PROVE  PvtInv'
<1>1. CASE UNCHANGED <<pwh, alarm_whid, unsafe>>
  BY <1>1 DEF PvtInv
<1>2. CASE SeedRead \/ PvtInit \/ PvtInitFails \/ FileRead
  BY <1>1, <1>2, Zenon DEF SeedRead, PvtInit, PvtInitFails, FileRead, wvars
<1>3. CASE NoRequest \/ ParseOdd \/ EndOfNone
  BY <1>1, <1>3, Zenon DEF NoRequest, ParseOdd, EndOfNone, wvars
<1>4. CASE CycleUnlink \/ CycleRename \/ CycleCloseFails \/ CycleRenameFails
  BY <1>1, <1>4, Zenon DEF CycleUnlink, CycleRename, CycleCloseFails, CycleRenameFails, wvars
<1>5. CASE \E m : Receive(m)
  BY <1>5, PvtAlarm
<1>6. CASE Thread
  BY <1>2, <1>3, <1>4, <1>5, <1>6, PvtRequest, PvtAck, Zenon DEF Thread, RcvTimeout
<1>7. CASE RcvMessage
  BY <1>5, <1>7, Zenon DEF RcvMessage, RcvRecord, RcvOdd
<1>8. CASE RequestDue \/ QuietMinute \/ DropMsg
  BY <1>1, <1>8, Zenon DEF RequestDue, QuietMinute, DropMsg, wvars
<1>9. CASE PeerDown \/ PeerUp \/ DiscSeen
  BY <1>1, <1>9, Zenon DEF PeerDown, PeerUp, DiscSeen, allButPeers, wvars
<1>10. CASE CloseFree \/ CloseShut
  BY <1>1, <1>10, Zenon DEF CloseFree, CloseShut, allButClose, wvars
<1>11. CASE Applications
  <2>1. UNCHANGED <<pwh, alarm_whid>> /\ AppStep
    BY <1>11, Zenon DEF Applications
  <2>2. "alarm" \notin unsafe' => "alarm" \notin unsafe
    BY <2>1, AppUnsafe
  <2> QED
    BY <2>1, <2>2 DEF PvtInv, AlarmEndpt
<1>12. CASE UNCHANGED cvars
  BY <1>1, <1>12, Zenon DEF cvars, wvars
<1> QED
  BY <1>6, <1>7, <1>8, <1>9, <1>10, <1>11, <1>12, Zenon DEF CollectorNext

-----------------------------------------------------------------------------
(* Wormholes of the applications' context.                                 *)

\* The slot an open has settled on is still free, or its own, when it is
\* filled.
UserInv ==
  /\ uwh \in Seq(Targets \cup {None})
  /\ app \in [AppThreads -> [to : Targets \cup {None}, slot : Nat]]
  /\ held \in [AppThreads -> [to : Targets \cup {None}, id : Nat]]
  /\ \A p \in AppThreads :
       /\ app[p] # Outside => app[p].to \in Targets /\ app[p].slot \in DOMAIN uwh
       /\ held[p] # Nothing => held[p].to \in Targets
  /\ unsafe \cap {"overlap", "closed"} = {} =>
       /\ \A p, q \in AppThreads : app[p] # Outside /\ app[q] # Outside => p = q
       /\ \A p \in AppThreads :
            /\ app[p] # Outside => uwh[app[p].slot] \in {None, app[p].to}
            /\ held[p] # Nothing =>
                 held[p].id \in DOMAIN uwh /\ uwh[held[p].id] = held[p].to

\* What rmr_wh_open finds when it makes, searches and extends the list.
LEMMA ScanUser ==
  ASSUME UserInv, NEW t \in Targets
  PROVE  LET v == WhInit(uwh)
             i == Scan(v, t)
             x == WhExtend(v, i)
         IN  /\ v \in Seq(Targets \cup {None}) /\ x \in Seq(Targets \cup {None})
             /\ i \in Nat /\ i \in DOMAIN x /\ x[i] \in {t, None}
             /\ \A j \in DOMAIN uwh : j \in DOMAIN x /\ x[j] = uwh[j] /\ v = uwh
<1> DEFINE V == Targets \cup {None}
           v == WhInit(uwh)
           i == Scan(v, t)
           x == WhExtend(v, i)
<1>0. None \in V /\ uwh \in Seq(V)
  BY DEF UserInv
<1> HIDE DEF V
<1>1. v \in Seq(V)
  <2>1. CASE uwh = <<>>
    BY <1>0, <2>1, SlotsAssumption DEF WhInit, Empty
  <2>2. CASE uwh # <<>>
    BY <1>0, <2>2 DEF WhInit
  <2> QED
    BY <2>1, <2>2
<1>2. i \in 1 .. Len(v) + 1 /\ (i \in DOMAIN v => v[i] \in {t, None})
  BY <1>1, ScanFacts
<1>3. /\ x \in Seq(V) /\ i \in DOMAIN x
      /\ \A j \in DOMAIN uwh : j \in DOMAIN x /\ x[j] = uwh[j]
      /\ \A j \in DOMAIN uwh : v = uwh
      /\ \A j \in DOMAIN x : j \notin DOMAIN v => x[j] = None
      /\ \A j \in DOMAIN v : j \in DOMAIN x /\ x[j] = v[j]
  BY <1>0, <1>2, ExtendFacts
<1> HIDE DEF v, i, x
<1>4. x[i] \in {t, None}
  BY <1>2, <1>3
<1>5. i \in Nat
  BY <1>1, <1>2
<1> QED
  BY <1>1, <1>3, <1>4, <1>5 DEF V, v, i, x

\* The list may grow: wormholes and slots keep their places.
LEMMA UserGrows ==
  ASSUME UserInv, uwh' \in Seq(Targets \cup {None}),
         \A j \in DOMAIN uwh : j \in DOMAIN uwh' /\ uwh'[j] = uwh[j]
  PROVE  \A p \in AppThreads :
           /\ app[p] # Outside => app[p].slot \in DOMAIN uwh'
           /\ unsafe \cap {"overlap", "closed"} = {} =>
                /\ app[p] # Outside => uwh'[app[p].slot] \in {None, app[p].to}
                /\ held[p] # Nothing =>
                     held[p].id \in DOMAIN uwh' /\ uwh'[held[p].id] = held[p].to
BY DEF UserInv

\* rmr_wh_open up to the connection.
LEMMA UserScan ==
  ASSUME UserInv, NEW p \in AppThreads, NEW t \in Targets, WhScan(p, t)
  PROVE  UserInv'
<1> DEFINE v == WhInit(uwh)
           i == Scan(v, t)
           x == WhExtend(v, i)
<1>1. /\ v \in Seq(Targets \cup {None}) /\ x \in Seq(Targets \cup {None})
      /\ i \in Nat /\ i \in DOMAIN x /\ x[i] \in {t, None}
      /\ \A j \in DOMAIN uwh : j \in DOMAIN x /\ x[j] = uwh[j] /\ v = uwh
  BY ScanUser
<1>2. /\ app \in [AppThreads -> [to : Targets \cup {None}, slot : Nat]]
      /\ held \in [AppThreads -> [to : Targets \cup {None}, id : Nat]]
      /\ \A q \in AppThreads :
           /\ app[q] # Outside => app[q].to \in Targets
           /\ held[q] # Nothing => held[q].to \in Targets
  BY Zenon DEF UserInv
<1>3. CASE /\ i \in DOMAIN v /\ v[i] = t
           /\ uwh' = v /\ Hold(p, t, i) /\ UNCHANGED <<app, unsafe>>
  <2> HIDE DEF v, i, x
  <2>1. \A q \in AppThreads :
          /\ app[q] # Outside => app[q].slot \in DOMAIN uwh'
          /\ unsafe \cap {"overlap", "closed"} = {} =>
               /\ app[q] # Outside => uwh'[app[q].slot] \in {None, app[q].to}
               /\ held[q] # Nothing =>
                    held[q].id \in DOMAIN uwh' /\ uwh'[held[q].id] = held[q].to
    BY <1>1, <1>3, UserGrows
  <2>2. /\ held' \in [AppThreads -> [to : Targets \cup {None}, id : Nat]]
        /\ \A q \in AppThreads : held'[q] = IF q = p THEN [to |-> t, id |-> i] ELSE held[q]
    BY <1>1, <1>2, <1>3 DEF Hold
  <2>3. \A q \in AppThreads : held'[q] # Nothing => held'[q].to \in Targets
    BY <1>2, <2>2
  <2>4. ASSUME unsafe \cap {"overlap", "closed"} = {}, NEW q \in AppThreads, held'[q] # Nothing
        PROVE  held'[q].id \in DOMAIN uwh' /\ uwh'[held'[q].id] = held'[q].to
    <3>1. CASE q = p
      BY <1>3, <2>2, <3>1
    <3>2. CASE q # p
      BY <2>1, <2>2, <2>4, <3>2
    <3> QED
      BY <3>1, <3>2
  <2>5. unsafe \cap {"overlap", "closed"} = {} =>
          \A r, q \in AppThreads : app[r] # Outside /\ app[q] # Outside => r = q
    BY Zenon DEF UserInv
  <2>6. uwh' \in Seq(Targets \cup {None}) /\ app' = app /\ unsafe' = unsafe
    BY <1>1, <1>3
  <2>7. \A q \in AppThreads :
          /\ app'[q] # Outside => app'[q].to \in Targets /\ app'[q].slot \in DOMAIN uwh'
          /\ held'[q] # Nothing => held'[q].to \in Targets
    BY <1>2, <2>1, <2>3, <2>6
  <2>8. unsafe' \cap {"overlap", "closed"} = {} =>
          /\ \A r, q \in AppThreads : app'[r] # Outside /\ app'[q] # Outside => r = q
          /\ \A q \in AppThreads :
               /\ app'[q] # Outside => uwh'[app'[q].slot] \in {None, app'[q].to}
               /\ held'[q] # Nothing =>
                    held'[q].id \in DOMAIN uwh' /\ uwh'[held'[q].id] = held'[q].to
    BY <2>1, <2>4, <2>5, <2>6
  <2>9. app' \in [AppThreads -> [to : Targets \cup {None}, slot : Nat]]
    BY <1>2, <2>6
  <2> QED
    BY <2>2, <2>6, <2>7, <2>8, <2>9, Zenon DEF UserInv
<1>4. CASE /\ uwh' = x
           /\ app' = [app EXCEPT ![p] = [to |-> t, slot |-> i]]
           /\ unsafe' = IF \E q \in AppThreads \ {p} : app[q] # Outside
                        THEN unsafe \cup {"overlap"} ELSE unsafe
           /\ UNCHANGED held
  <2> HIDE DEF v, i, x
  <2>1. \A q \in AppThreads :
          /\ app[q] # Outside => app[q].slot \in DOMAIN uwh'
          /\ unsafe \cap {"overlap", "closed"} = {} =>
               /\ app[q] # Outside => uwh'[app[q].slot] \in {None, app[q].to}
               /\ held[q] # Nothing =>
                    held[q].id \in DOMAIN uwh' /\ uwh'[held[q].id] = held[q].to
    BY <1>1, <1>4, UserGrows
  <2>2. /\ app' \in [AppThreads -> [to : Targets \cup {None}, slot : Nat]]
        /\ \A q \in AppThreads : app'[q] = IF q = p THEN [to |-> t, slot |-> i] ELSE app[q]
    BY <1>1, <1>2, <1>4
  <2>3. \A q \in AppThreads :
          app'[q] # Outside => app'[q].to \in Targets /\ app'[q].slot \in DOMAIN uwh'
    BY <1>1, <1>2, <1>4, <2>1, <2>2
  <2>4. ASSUME unsafe' \cap {"overlap", "closed"} = {}
        PROVE  /\ unsafe \cap {"overlap", "closed"} = {}
               /\ \A q \in AppThreads \ {p} : app[q] = Outside
    BY <1>4, <2>4
  <2>5. ASSUME unsafe' \cap {"overlap", "closed"} = {}
        PROVE  /\ \A r, q \in AppThreads : app'[r] # Outside /\ app'[q] # Outside => r = q
               /\ \A q \in AppThreads :
                    app'[q] # Outside => uwh'[app'[q].slot] \in {None, app'[q].to}
    BY <1>1, <1>4, <2>2, <2>4, <2>5, Zenon
  <2>6. uwh' \in Seq(Targets \cup {None}) /\ held' = held
    BY <1>1, <1>4
  <2>7. /\ held' \in [AppThreads -> [to : Targets \cup {None}, id : Nat]]
        /\ \A q \in AppThreads : held'[q] # Nothing => held'[q].to \in Targets
    BY <1>2, <2>6
  <2>8. unsafe' \cap {"overlap", "closed"} = {} =>
          \A q \in AppThreads : held'[q] # Nothing =>
            held'[q].id \in DOMAIN uwh' /\ uwh'[held'[q].id] = held'[q].to
    BY <2>1, <2>4, <2>6
  <2> QED
    BY <2>2, <2>3, <2>5, <2>6, <2>7, <2>8, Zenon DEF UserInv
<1> QED
  BY <1>3, <1>4, Zenon DEF WhScan

\* rmr_wh_open after the connection: the slot is filled.
LEMMA UserStore ==
  ASSUME UserInv, NEW p \in AppThreads, WhStore(p)
  PROVE  UserInv'
<1> DEFINE t == app[p].to
           i == app[p].slot
<1>1. /\ app[p] # Outside /\ t \in Targets /\ i \in DOMAIN uwh /\ i \in Nat
      /\ uwh \in Seq(Targets \cup {None})
      /\ uwh' = [uwh EXCEPT ![i] = t]
      /\ app' = [app EXCEPT ![p] = Outside]
      /\ held' = [held EXCEPT ![p] = [to |-> t, id |-> i]]
      /\ unsafe' = unsafe
  BY DEF UserInv, WhStore, Hold
<1>2. /\ app \in [AppThreads -> [to : Targets \cup {None}, slot : Nat]]
      /\ held \in [AppThreads -> [to : Targets \cup {None}, id : Nat]]
      /\ \A q \in AppThreads :
           /\ app[q] # Outside => app[q].to \in Targets /\ app[q].slot \in DOMAIN uwh
           /\ held[q] # Nothing => held[q].to \in Targets
  BY DEF UserInv
<1>3. unsafe \cap {"overlap", "closed"} = {} =>
        /\ \A q \in AppThreads : app[q] # Outside => q = p
        /\ uwh[i] \in {None, t}
        /\ \A q \in AppThreads : held[q] # Nothing =>
             held[q].id \in DOMAIN uwh /\ uwh[held[q].id] = held[q].to
  BY <1>1 DEF UserInv
<1> HIDE DEF t, i
<1>4. /\ uwh' \in Seq(Targets \cup {None}) /\ DOMAIN uwh' = DOMAIN uwh
      /\ \A j \in DOMAIN uwh : uwh'[j] = IF j = i THEN t ELSE uwh[j]
  BY <1>1
<1>5. /\ app' \in [AppThreads -> [to : Targets \cup {None}, slot : Nat]]
      /\ \A q \in AppThreads : app'[q] = IF q = p THEN Outside ELSE app[q]
  BY <1>1, <1>2 DEF Outside
<1>6. /\ held' \in [AppThreads -> [to : Targets \cup {None}, id : Nat]]
      /\ \A q \in AppThreads : held'[q] = IF q = p THEN [to |-> t, id |-> i] ELSE held[q]
  BY <1>1, <1>2
<1>7. \A q \in AppThreads :
        /\ app'[q] # Outside => app'[q].to \in Targets /\ app'[q].slot \in DOMAIN uwh'
        /\ held'[q] # Nothing => held'[q].to \in Targets
  BY <1>1, <1>2, <1>4, <1>5, <1>6
<1>8. ASSUME unsafe \cap {"overlap", "closed"} = {}
      PROVE  \A q \in AppThreads : app'[q] = Outside
  BY <1>3, <1>5, <1>8
<1>9. ASSUME unsafe \cap {"overlap", "closed"} = {}, NEW q \in AppThreads, held'[q] # Nothing
      PROVE  held'[q].id \in DOMAIN uwh' /\ uwh'[held'[q].id] = held'[q].to
  <2>1. CASE q = p
    BY <1>1, <1>4, <1>6, <2>1
  <2>2. CASE q # p
    <3>1. held'[q] = held[q] /\ held[q].to \in Targets
      BY <1>2, <1>6, <1>9, <2>2
    <3>2. held[q].id \in DOMAIN uwh /\ uwh[held[q].id] = held[q].to
      BY <1>3, <1>9, <3>1
    <3>3. held[q].id = i => held[q].to = t
      BY <1>3, <1>9, <3>1, <3>2, SlotsAssumption
    <3> QED
      BY <1>4, <3>1, <3>2, <3>3
  <2> QED
    BY <2>1, <2>2
<1> QED
  BY <1>1, <1>4, <1>5, <1>6, <1>7, <1>8, <1>9 DEF UserInv

\* rmr_wh_close by one thread takes the wormhole from those that share it.
LEMMA UserRelease ==
  ASSUME UserInv, NEW p \in AppThreads, WhRelease(p)
  PROVE  UserInv'
<1> DEFINE n == held[p].id
<1>1. /\ uwh' = WhClose(uwh, n)
      /\ held' = [q \in AppThreads |-> IF held[q].id = n THEN Nothing ELSE held[q]]
      /\ UNCHANGED <<app, unsafe>>
  BY DEF WhRelease
<1> HIDE DEF n
<1>2. /\ uwh' \in Seq(Targets \cup {None}) /\ DOMAIN uwh' = DOMAIN uwh
      /\ \A j \in DOMAIN uwh : j # n => uwh'[j] = uwh[j]
      /\ \A j \in DOMAIN uwh : uwh'[j] \in {None, uwh[j]}
  <2>1. None \in Targets \cup {None} /\ uwh \in Seq(Targets \cup {None})
    BY DEF UserInv
  <2> QED
    BY <1>1, <2>1, CloseFacts
<1>3. \A q \in AppThreads : held'[q] # Nothing => held'[q] = held[q] /\ held[q].id # n
  BY <1>1
<1>4. held' \in [AppThreads -> [to : Targets \cup {None}, id : Nat]]
  BY <1>1 DEF UserInv, Nothing
<1>5. \A q \in AppThreads :
        /\ app[q] # Outside => app[q].to \in Targets /\ app[q].slot \in DOMAIN uwh'
        /\ held'[q] # Nothing => held'[q].to \in Targets
  BY <1>2, <1>3 DEF UserInv
<1>6. ASSUME unsafe \cap {"overlap", "closed"} = {}, NEW q \in AppThreads
      PROVE  /\ app[q] # Outside => uwh'[app[q].slot] \in {None, app[q].to}
             /\ held'[q] # Nothing =>
                  held'[q].id \in DOMAIN uwh' /\ uwh'[held'[q].id] = held'[q].to
  BY <1>2, <1>3, <1>6 DEF UserInv
<1>7. /\ app \in [AppThreads -> [to : Targets \cup {None}, slot : Nat]]
      /\ unsafe \cap {"overlap", "closed"} = {} =>
           \A r, q \in AppThreads : app[r] # Outside /\ app[q] # Outside => r = q
  BY DEF UserInv
<1> QED
  BY <1>1, <1>2, <1>4, <1>5, <1>6, <1>7 DEF UserInv

\* What applications do keeps the invariant of their wormholes.
LEMMA UserApps ==
  ASSUME UserInv, AppStep
  PROVE  UserInv'
<1>1. CASE UNCHANGED <<uwh, app, held, unsafe>>
  BY <1>1 DEF UserInv
<1>2. ASSUME NEW p \in AppThreads, WhRefused(p) PROVE UserInv'
  <2>1. /\ app \in [AppThreads -> [to : Targets \cup {None}, slot : Nat]]
        /\ app' = [app EXCEPT ![p] = Outside] /\ UNCHANGED <<uwh, held, unsafe>>
    BY <1>2 DEF WhRefused, UserInv
  <2>2. /\ app' \in [AppThreads -> [to : Targets \cup {None}, slot : Nat]]
        /\ \A q \in AppThreads : app'[q] # Outside => app'[q] = app[q]
    BY <2>1 DEF Outside
  <2> QED
    BY <2>1, <2>2 DEF UserInv
<1> QED
  BY <1>1, <1>2, UserScan, UserStore, UserRelease, Zenon
     DEF AppStep, WhSendReopens, WhCall, UserDisc

\* A failed request closes an id in the applications' context: if it was one
\* of theirs, that is noted.
LEMMA UserRequest ==
  ASSUME UserInv, Request
  PROVE  UserInv'
<1>1. UNCHANGED <<app, held>>
  BY DEF Request
<1>2. CASE UNCHANGED <<uwh, unsafe>>
  BY <1>1, <1>2 DEF UserInv
<1>3. ASSUME NEW id, uwh' = WhClose(uwh, id),
             unsafe' = IF Valid(uwh, id) THEN unsafe \cup {"closed"} ELSE unsafe
      PROVE  UserInv'
  <2>1. CASE ~Valid(uwh, id)
    <3>1. UNCHANGED <<uwh, unsafe>>
      BY <1>3, <2>1 DEF WhClose
    <3> QED
      BY <1>2, <3>1
  <2>2. CASE Valid(uwh, id)
    <3>1. uwh' \in Seq(Targets \cup {None}) /\ DOMAIN uwh' = DOMAIN uwh
      <4>1. None \in Targets \cup {None} /\ uwh \in Seq(Targets \cup {None})
        BY DEF UserInv
      <4> QED
        BY <1>3, <4>1, CloseFacts
    <3>2. unsafe' \cap {"overlap", "closed"} # {}
      BY <1>3, <2>2
    <3> QED
      BY <1>1, <3>1, <3>2 DEF UserInv
  <2> QED
    BY <2>1, <2>2
<1> QED
  BY <1>2, <1>3, Zenon DEF Request, SendUpdateReq

\* Every step keeps the invariant of the applications' wormholes.
LEMMA UserStep ==
  ASSUME UserInv, [CollectorNext]_cvars
  PROVE  UserInv'
<1>0. CASE UNCHANGED wvars
  BY <1>0 DEF UserInv, wvars
<1>1. CASE UNCHANGED <<uwh, app, held>> /\ unsafe' \in {unsafe, unsafe \cup {"alarm"}}
  <2>1. unsafe' \cap {"overlap", "closed"} = unsafe \cap {"overlap", "closed"}
    BY <1>1
  <2> QED
    BY <1>1, <2>1 DEF UserInv
<1>2. CASE SeedRead \/ PvtInit \/ PvtInitFails \/ FileRead \/ NoRequest \/ ParseOdd
  BY <1>0, <1>2, Zenon DEF SeedRead, PvtInit, PvtInitFails, FileRead, NoRequest, ParseOdd
<1>3. CASE CycleUnlink \/ CycleRename \/ CycleCloseFails \/ CycleRenameFails \/ EndOfNone
  BY <1>0, <1>3, Zenon DEF CycleUnlink, CycleRename, CycleCloseFails, CycleRenameFails, EndOfNone
<1>4. CASE \E m : Receive(m)
  BY <1>0, <1>4, Zenon DEF Receive
<1>5. CASE ParseStart \/ EndWrong \/ EndRight
  <2>1. UNCHANGED <<uwh, app, held>>
    BY <1>5, Zenon DEF ParseStart, EndWrong, EndRight
  <2>2. unsafe' \in {unsafe, unsafe \cup {"alarm"}}
    BY <1>5, Zenon DEF ParseStart, EndWrong, EndRight, SendRtAck, NoAck
  <2> QED
    BY <1>1, <2>1, <2>2, Zenon
<1>6. CASE Thread \/ RcvMessage
  BY <1>2, <1>3, <1>4, <1>5, <1>6, UserRequest, Zenon
     DEF Thread, RcvMessage, RcvTimeout, RcvRecord, RcvOdd
<1>7. CASE RequestDue \/ QuietMinute \/ DropMsg
  BY <1>0, <1>7, Zenon DEF RequestDue, QuietMinute, DropMsg
<1>8. CASE PeerDown \/ PeerUp \/ DiscSeen
  BY <1>0, <1>8, Zenon DEF PeerDown, PeerUp, DiscSeen, allButPeers
<1>9. CASE CloseFree \/ CloseShut
  BY <1>0, <1>9, Zenon DEF CloseFree, CloseShut, allButClose
<1>10. CASE Applications
  BY <1>10, UserApps, Zenon DEF Applications
<1>11. CASE UNCHANGED cvars
  BY <1>0, <1>11, Zenon DEF cvars
<1> QED
  BY <1>6, <1>7, <1>8, <1>9, <1>10, <1>11, Zenon DEF CollectorNext

\* An id from rmr_wh_open, and the one of the alarms, keep their endpoint until
\* they are closed, for any number of threads, targets and slots; only what
\* "unsafe" notes breaks this.
THEOREM WormholeKeptHolds == CollectorSpec => []WormholeKept
<1>1. CollectorInit => UserInv /\ PvtInv
  BY DEF CollectorInit, WhStart, UserInv, PvtInv, Outside, Nothing
<1>2. UserInv /\ PvtInv /\ [CollectorNext]_cvars => UserInv' /\ PvtInv'
  BY UserStep, PvtStep
<1>3. UserInv /\ PvtInv => WormholeKept
  <2> SUFFICES ASSUME UserInv, PvtInv PROVE WormholeKept
    OBVIOUS
  <2>1. ASSUME unsafe \cap {"overlap", "closed"} = {}, NEW p \in AppThreads, held[p] # Nothing
        PROVE  Usable(p) /\ uwh[held[p].id] = held[p].to
    <3>1. held[p].id \in DOMAIN uwh /\ uwh[held[p].id] = held[p].to /\ held[p].to \in Targets
      BY <2>1 DEF UserInv
    <3>2. Valid(uwh, held[p].id) /\ uwh # <<>>
      BY <3>1, SlotsAssumption DEF Valid
    <3> QED
      BY <3>1, <3>2 DEF Usable, WhState
  <2>2. "alarm" \notin unsafe /\ alarm_whid # 0 =>
          Valid(pwh, alarm_whid) /\ pwh[alarm_whid] = AlarmEndpt
    BY DEF PvtInv, Valid, AlarmEndpt, None
  <2> QED
    BY <2>1, <2>2, Zenon DEF WormholeKept
<1> QED
  BY <1>1, <1>2, <1>3, PTL DEF CollectorSpec

-----------------------------------------------------------------------------
(* The stash.                                                              *)

\* As long as the files can be handled, the table in progress is in the
\* working file, and after the rename in the stash.
StashInv ==
  /\ full \in {"no", "yes"}
  /\ msg.op = "start" => msg.kind \in Kinds
  /\ new # 0 => kind \in Kinds
  /\ pc \in {"parse", "rename"} /\ msg.op = "end" /\ new # 0 => msg.kind = kind
  /\ new # 0 /\ kind = "update" => full = "yes"
  /\ io = "ok" =>
       /\ pc \in {"top", "rcv", "parse", "rename", "settle"} => snarf = "open"
       /\ new # 0 /\ pc # "settle" => new \in inc
       /\ new # 0 /\ pc = "settle" => stash.end = new /\ new \in stash.tables
  /\ InUseIsStashed

\* What starting up, requests and messages of other types leave alone.
LEMMA StashKept ==
  ASSUME StashInv, UNCHANGED <<tableVars, stashVars, msg>>,
         \/ UNCHANGED pc
         \/ pc \notin {"init", "rename", "settle"} /\ pc' \in {"init", "counting", "seed", "ended"}
         \/ pc = "init" /\ pc' = "counting"
         \/ pc = "top" /\ pc' = "rcv"
         \/ pc = "parse" /\ pc' = "top"
  PROVE  StashInv'
<1>1. UNCHANGED <<full, new, kind, ended, snarf, inc, stash, io, msg>>
  BY Zenon DEF tableVars, stashVars
<1>2. /\ pc' \in {"top", "rcv", "parse", "rename", "settle"} =>
           pc \in {"top", "rcv", "parse", "rename", "settle"}
      /\ pc' = "settle" <=> pc = "settle"
      /\ pc' = "rename" <=> pc = "rename"
      /\ pc' = "parse" => pc = "parse"
  OBVIOUS
<1>3. InUseIsStashed'
  BY <1>1, <1>2 DEF StashInv, InUseIsStashed
<1> QED
  BY <1>1, <1>2, <1>3 DEF StashInv

\* A message comes in: the end of a table is that of the one in progress.
LEMMA StashReceive ==
  ASSUME StashInv, RcvTimeout \/ RcvRecord \/ RcvOdd
  PROVE  StashInv'
<1>1. PICK m \in Records \cup {NoMsg, OddMsg} : Receive(m)
  BY Zenon DEF RcvTimeout, RcvRecord, RcvOdd
<1>2. UNCHANGED <<full, new, kind, ended, snarf, inc, stash, io>>
  BY <1>1, Zenon DEF Receive, tableVars, stashVars
<1>3. pc = "rcv" /\ pc' \in {"top", "parse"} /\ msg' = m
  BY <1>1 DEF Receive
<1>4. /\ m.op = "start" => m.kind \in Kinds
      /\ m.op = "end" /\ new # 0 => m.kind = kind
  BY DEF Records, NoMsg, OddMsg
<1>5. InUseIsStashed'
  BY <1>2, <1>3 DEF StashInv, InUseIsStashed
<1> QED
  BY <1>2, <1>3, <1>4, <1>5 DEF StashInv

\* The beginning of a table is written to the working file.
LEMMA StashStart ==
  ASSUME StashInv, ParseStart
  PROVE  StashInv'
<1>1. /\ pc = "parse" /\ msg.op = "start" /\ pc' \in {"ended", "top"} /\ msg' = NoMsg
      /\ UNCHANGED <<full, ended, snarf, stash, io>>
      /\ inc' = IF snarf = "open" THEN inc \cup {started'} ELSE inc
  BY DEF ParseStart, InHand, Again, Write
<1>2. InUseIsStashed'
  BY <1>1 DEF StashInv, InUseIsStashed
<1>3. CASE UNCHANGED <<new, kind>>
  BY <1>1, <1>2, <1>3 DEF StashInv, NoMsg
<1>4. CASE /\ ~(msg.kind = "update" /\ full = "no")
           /\ new' = started' /\ kind' = msg.kind
  BY <1>1, <1>2, <1>4 DEF StashInv, NoMsg
<1> QED
  BY <1>3, <1>4, Zenon DEF ParseStart

\* cycle_snarfed_rt: the working file, with the table in progress, becomes the
\* stash.
LEMMA StashCycle ==
  ASSUME StashInv, CycleUnlink \/ CycleRename \/ CycleCloseFails \/ CycleRenameFails
  PROVE  StashInv'
<1>1. UNCHANGED <<full, new, kind, ended, msg>>
  BY Zenon DEF CycleUnlink, CycleRename, CycleCloseFails, CycleRenameFails, tableVars
<1>2. pc' = "rename" \/ pc' = "settle"
  BY Zenon DEF CycleUnlink, CycleRename, CycleCloseFails, CycleRenameFails
<1>3. InUseIsStashed'
  BY <1>2 DEF InUseIsStashed
<1>4. CASE CycleUnlink
  <2>1. pc = "parse" /\ pc' = "rename" /\ UNCHANGED <<snarf, inc, io>>
    BY <1>4, Zenon DEF CycleUnlink, InHand
  <2> QED
    BY <1>1, <1>3, <2>1 DEF StashInv
<1>5. CASE CycleRename
  <2>1. pc = "rename" /\ pc' = "settle" /\ stash' = [tables |-> inc, end |-> new]
    BY <1>5, Zenon DEF CycleRename
  <2>2. io' = "ok" => snarf' = "open" /\ io = "ok"
    <3>1. (snarf' = "open" /\ io' = io) \/ io' = "failed"
      BY <1>5, Zenon DEF CycleRename, Reopen
    <3> QED
      BY <3>1
  <2> QED
    BY <1>1, <1>3, <2>1, <2>2 DEF StashInv
<1>6. CASE CycleCloseFails \/ CycleRenameFails
  <2>1. io' = "failed" /\ pc' = "settle"
    BY <1>6, Zenon DEF CycleCloseFails, CycleRenameFails
  <2> QED
    BY <1>1, <1>3, <2>1 DEF StashInv
<1> QED
  BY <1>4, <1>5, <1>6

\* The end of a table: if it is put to use without a cycle of the files, it was
\* no route table or update, or the files could not be handled.
LEMMA StashEnd ==
  ASSUME StashInv, EndWrong \/ EndRight \/ EndOfNone
  PROVE  StashInv'
<1>1. /\ AtEnd /\ msg' = NoMsg /\ new' = 0 /\ (pc' = "ended" \/ pc' = "top")
      /\ kind' = kind /\ snarf' = snarf /\ inc' = inc /\ stash' = stash /\ io' = io
      /\ (full' = full \/ full' = "yes")
  <2>1. CASE EndWrong
    BY <2>1, Zenon DEF EndWrong, Again, stashVars
  <2>2. CASE EndRight
    BY <2>2, Zenon DEF EndRight, Again, stashVars
  <2>3. CASE EndOfNone
    BY <2>3, Zenon DEF EndOfNone, Again, stashVars
  <2> QED
    BY <2>1, <2>2, <2>3, Zenon
<1>2. pc = "parse" \/ pc = "settle"
  BY <1>1, Zenon DEF AtEnd, InHand
<1>3. InUseIsStashed'
  <2>1. CASE EndWrong \/ EndOfNone
    <3>1. ended' = [n |-> new, kind |-> kind, st |-> "ERR"] \/ ended' = NotEnded
      BY <2>1, Zenon DEF EndWrong, EndOfNone
    <3>2. ended'.st # "OK"
      BY <3>1 DEF NotEnded, None
    <3> QED
      BY <3>2, Zenon DEF InUseIsStashed
  <2>2. CASE EndRight
    <3>1. ended' = [n |-> new, kind |-> kind, st |-> "OK"] /\ new # 0
      BY <2>2, Zenon DEF EndRight
    <3>2. CASE pc = "settle"
      BY <1>1, <3>1, <3>2 DEF StashInv, InUseIsStashed
    <3>3. CASE pc = "parse"
      <4>1. msg.op = "end" /\ ~Cycles
        <5>1. pc # "settle"
          BY <3>3
        <5> QED
          BY <1>1, <5>1, Zenon DEF AtEnd, InHand
      <4>2. kind \in Kinds /\ msg.kind = kind /\ (kind = "update" => full = "yes")
            /\ (io = "ok" => snarf = "open")
        BY <3>1, <3>3, <4>1 DEF StashInv
      <4>3. io = "ok" => kind = "meid"
        BY <3>1, <4>1, <4>2 DEF Cycles, Kinds
      <4> QED
        BY <1>1, <3>1, <4>3 DEF InUseIsStashed
    <3> QED
      BY <1>2, <3>2, <3>3
  <2> QED
    BY <2>1, <2>2
<1> QED
  BY <1>1, <1>2, <1>3 DEF StashInv, NoMsg

\* The steps of rtc keep the invariant of the stash.
LEMMA StashThread ==
  ASSUME StashInv, Thread
  PROVE  StashInv'
<1>1. CASE SeedRead \/ PvtInitFails \/ FileRead
  <2>1. UNCHANGED <<tableVars, stashVars, msg>>
    BY <1>1, Zenon DEF SeedRead, PvtInitFails, FileRead
  <2>2. \/ pc = "seed" /\ pc' \in {"init", "ended", "seed"}
        \/ pc = "init" /\ pc' = "counting"
    BY <1>1 DEF SeedRead, PvtInitFails, FileRead
  <2> QED
    BY <2>1, <2>2, StashKept
<1>2. CASE PvtInit
  <2>1. pc = "init" /\ pc' = "top" /\ UNCHANGED <<full, new, kind, ended, msg, inc, stash>>
    BY <1>2 DEF PvtInit, tableVars
  <2>2. io' = "ok" => snarf' = "open" /\ io = "ok"
    <3>1. (snarf' = "open" /\ io' = io) \/ io' = "failed"
      BY <1>2, Zenon DEF PvtInit, Reopen
    <3> QED
      BY <3>1
  <2>3. InUseIsStashed'
    BY <2>1, <2>2 DEF StashInv, InUseIsStashed
  <2> QED
    BY <2>1, <2>2, <2>3 DEF StashInv
<1>3. CASE Request \/ NoRequest
  <2>1. UNCHANGED <<tableVars, stashVars, msg>>
    BY <1>3, Zenon DEF Request, NoRequest
  <2>2. pc = "top" /\ pc' = "rcv"
    BY <1>3, Zenon DEF Request, NoRequest
  <2> QED
    BY <2>1, <2>2, StashKept
<1>4. CASE ParseOdd
  <2>1. UNCHANGED <<tableVars, stashVars, msg>>
    BY <1>4, Zenon DEF ParseOdd
  <2>2. pc = "parse" /\ pc' \in {"parse", "ended", "top"}
    BY <1>4 DEF ParseOdd, Again
  <2> QED
    BY <2>1, <2>2, StashKept
<1> QED
  BY <1>1, <1>2, <1>3, <1>4, StashStart, StashCycle, StashEnd, StashReceive, Zenon DEF Thread

\* Every step keeps the invariant of the stash.
LEMMA StashStep ==
  ASSUME StashInv, [CollectorNext]_cvars
  PROVE  StashInv'
<1>1. CASE UNCHANGED <<tableVars, stashVars, msg, pc>>
  <2>1. UNCHANGED <<tableVars, stashVars, msg>> /\ UNCHANGED pc
    BY <1>1, Zenon
  <2> QED
    BY <2>1, StashKept
<1>2. CASE RequestDue \/ QuietMinute \/ DropMsg \/ Applications
  BY <1>1, <1>2, Zenon DEF RequestDue, QuietMinute, DropMsg, Applications
<1>3. CASE PeerDown \/ PeerUp \/ DiscSeen
  BY <1>1, <1>3, Zenon DEF PeerDown, PeerUp, DiscSeen, allButPeers
<1>4. CASE CloseFree \/ CloseShut
  BY <1>1, <1>4, Zenon DEF CloseFree, CloseShut, allButClose
<1>5. CASE UNCHANGED cvars
  BY <1>1, <1>5, Zenon DEF cvars
<1> QED
  BY <1>2, <1>3, <1>4, <1>5, StashThread, StashReceive, Zenon DEF CollectorNext, RcvMessage

\* A table that parse_rt_rec put to use is in the stash, whole, except while
\* cycle_snarfed_rt renames the files and unless they could not be handled.
THEOREM InUseIsStashedHolds == CollectorSpec => []InUseIsStashed
<1>1. CollectorInit => StashInv
  <2> SUFFICES ASSUME CollectorInit PROVE StashInv
    OBVIOUS
  <2>1. full = "no" /\ msg = NoMsg /\ new = 0 /\ pc = "seed" /\ ended = NotEnded
    BY Zenon DEF CollectorInit
  <2> QED
    BY <2>1 DEF StashInv, InUseIsStashed, NoMsg, NotEnded, None
<1>2. StashInv /\ [CollectorNext]_cvars => StashInv'
  BY StashStep
<1>3. StashInv => InUseIsStashed
  BY DEF StashInv
<1> QED
  BY <1>1, <1>2, <1>3, PTL DEF CollectorSpec

-----------------------------------------------------------------------------
(* The drop alarm.                                                         *)

\* While the clear timer runs, the counter shows the drops, unless a warning
\* restarted it.
AlarmInv ==
  /\ dcount \in Nat /\ lastd \in Nat
  /\ ok2clear # "no" /\ "reset" \notin since =>
       dcount >= lastd /\ ("drop" \in since => dcount > lastd)
  /\ ClearMeansQuiet

\* alarm_if_drops, after a message or a second without one.
LEMMA AlarmReceive ==
  ASSUME AlarmInv, NEW m, Receive(m)
  PROVE  AlarmInv'
<1>0. dcount' = dcount
  BY DEF Receive
<1>1. CASE UNCHANGED alarmVars
  BY <1>0, <1>1 DEF AlarmInv, ClearMeansQuiet, alarmVars
<1>2. CASE Raise
  BY <1>0, <1>2 DEF AlarmInv, ClearMeansQuiet, Raise
<1>3. CASE StillDropping
  BY <1>0, <1>3 DEF AlarmInv, ClearMeansQuiet, StillDropping
<1>4. CASE FirstQuiet
  BY <1>0, <1>4 DEF AlarmInv, ClearMeansQuiet, FirstQuiet
<1>5. CASE Clear
  BY <1>0, <1>5 DEF AlarmInv, ClearMeansQuiet, Clear
<1>6. CASE NothingToDo
  BY <1>0, <1>6 DEF AlarmInv, ClearMeansQuiet, NothingToDo
<1> QED
  BY <1>1, <1>2, <1>3, <1>4, <1>5, <1>6, Zenon DEF Receive, AlarmIfDrops

\* The rest of the loop of rtc leaves the alarm alone.
LEMMA AlarmThread ==
  ASSUME Thread, ~RcvTimeout
  PROVE  UNCHANGED <<alarmVars, dcount>>
<1>1. CASE SeedRead
  BY <1>1, Zenon DEF SeedRead
<1>2. CASE PvtInit
  BY <1>2, Zenon DEF PvtInit
<1>3. CASE PvtInitFails
  BY <1>3, Zenon DEF PvtInitFails
<1>4. CASE FileRead
  BY <1>4, Zenon DEF FileRead
<1>5. CASE Request
  BY <1>5, Zenon DEF Request
<1>6. CASE NoRequest
  BY <1>6, Zenon DEF NoRequest
<1>7. CASE ParseOdd
  BY <1>7, Zenon DEF ParseOdd
<1>8. CASE ParseStart
  BY <1>8, Zenon DEF ParseStart
<1>9. CASE CycleUnlink
  BY <1>9, Zenon DEF CycleUnlink
<1>10. CASE CycleRename
  BY <1>10, Zenon DEF CycleRename
<1>11. CASE CycleCloseFails
  BY <1>11, Zenon DEF CycleCloseFails
<1>12. CASE CycleRenameFails
  BY <1>12, Zenon DEF CycleRenameFails
<1>13. CASE EndWrong
  BY <1>13, Zenon DEF EndWrong
<1>14. CASE EndRight
  BY <1>14, Zenon DEF EndRight
<1>15. CASE EndOfNone
  BY <1>15, Zenon DEF EndOfNone
<1> QED
  BY <1>1, <1>2, <1>3, <1>4, <1>5, <1>6, <1>7, <1>8, <1>9, <1>10, <1>11, <1>12,
     <1>13, <1>14, <1>15, Zenon DEF Thread

\* Every step keeps the alarm's invariant.
LEMMA AlarmStep ==
  ASSUME AlarmInv, [CollectorNext]_cvars
  PROVE  AlarmInv'
<1>1. CASE \E m : Receive(m)
  BY <1>1, AlarmReceive
<1>2. CASE UNCHANGED <<alarmVars, dcount>>
  BY <1>2 DEF AlarmInv, ClearMeansQuiet, alarmVars
<1>3. CASE QuietMinute
  BY <1>3 DEF AlarmInv, ClearMeansQuiet, QuietMinute
<1>4. CASE DropMsg
  BY <1>4 DEF AlarmInv, ClearMeansQuiet, DropMsg
<1>5. CASE Thread
  BY <1>1, <1>2, <1>5, AlarmThread, Zenon DEF RcvTimeout
<1>6. CASE RcvMessage
  BY <1>1, <1>6, Zenon DEF RcvMessage, RcvRecord, RcvOdd
<1>7. CASE RequestDue \/ Applications
  BY <1>2, <1>7, Zenon DEF RequestDue, Applications
<1>8. CASE PeerDown \/ PeerUp \/ DiscSeen
  BY <1>2, <1>8, Zenon DEF PeerDown, PeerUp, DiscSeen, allButPeers
<1>9. CASE CloseFree \/ CloseShut
  BY <1>2, <1>9, Zenon DEF CloseFree, CloseShut, allButClose
<1>10. CASE UNCHANGED cvars
  BY <1>2, <1>10, Zenon DEF cvars
<1> QED
  BY <1>3, <1>4, <1>5, <1>6, <1>7, <1>8, <1>9, <1>10, Zenon DEF CollectorNext

\* The alarm of alarm_if_drops is cleared only after a quiet minute, whatever
\* queue_normal drops and whenever its warning restarts the counter.
THEOREM ClearMeansQuietHolds == CollectorSpec => []ClearMeansQuiet
<1>1. CollectorInit => AlarmInv
  BY DEF CollectorInit, AlarmInv, ClearMeansQuiet
<1>2. AlarmInv /\ [CollectorNext]_cvars => AlarmInv'
  BY AlarmStep
<1>3. AlarmInv => ClearMeansQuiet
  BY DEF AlarmInv
<1> QED
  BY <1>1, <1>2, <1>3, PTL DEF CollectorSpec

-----------------------------------------------------------------------------
(* Answers to the manager.                                                 *)

\* Only the table in progress can get an answer, and its id had none.
AnswerInv ==
  /\ answers \in [0 .. MaxTables -> Seq({"OK", "ERR"})]
  /\ started \in 0 .. MaxTables /\ table_id \in 0 .. started
  /\ pc = "parse" /\ msg.op = "start" => started < MaxTables /\ msg.id \in {"yes", "no"}
  /\ anon = "no" =>
       /\ \A i \in 1 .. MaxTables : Len(answers[i]) =< 1
       /\ \A i \in 1 .. MaxTables : i > started => answers[i] = <<>>
       /\ new # 0 /\ table_id # 0 => answers[table_id] = <<>>

\* send_rt_ack for the table in progress adds at most the first answer to its id.
LEMMA AckOnce ==
  ASSUME AnswerInv, NEW st \in {"OK", "ERR"}, SendRtAck(st), new # 0
  PROVE  /\ answers' \in [0 .. MaxTables -> Seq({"OK", "ERR"})]
         /\ \A i \in 0 .. MaxTables : i # table_id => answers'[i] = answers[i]
         /\ anon = "no" => \A i \in 1 .. MaxTables : Len(answers'[i]) =< 1
<1>0. MaxTables \in Nat /\ table_id \in 0 .. MaxTables
  BY TablesAssumption DEF AnswerInv
<1>1. CASE UNCHANGED answers
  BY <1>1 DEF AnswerInv
<1>2. CASE answers' = [answers EXCEPT ![table_id] = Append(@, st)]
  <2>1. answers \in [0 .. MaxTables -> Seq({"OK", "ERR"})]
    BY DEF AnswerInv
  <2>2. Append(answers[table_id], st) \in Seq({"OK", "ERR"})
    BY <1>0, <2>1
  <2>3. \A i \in 0 .. MaxTables :
          answers'[i] = IF i = table_id THEN Append(answers[table_id], st) ELSE answers[i]
    BY <1>2, <2>1
  <2>4. answers' \in [0 .. MaxTables -> Seq({"OK", "ERR"})]
    BY <1>2, <2>1, <2>2, Zenon
  <2>5. ASSUME anon = "no", NEW i \in 1 .. MaxTables PROVE Len(answers'[i]) =< 1
    <3>1. CASE i = table_id
      <4>1. answers[table_id] = <<>>
        BY <2>5, <3>1 DEF AnswerInv
      <4>2. i \in 0 .. MaxTables
        BY <1>0
      <4>3. answers'[i] = Append(<<>>, st)
        BY <2>3, <3>1, <4>1, <4>2
      <4> QED
        BY <4>3
    <3>2. CASE i # table_id
      <4>1. i \in 0 .. MaxTables
        BY <1>0
      <4>2. answers'[i] = answers[i]
        BY <2>3, <3>2, <4>1, Zenon
      <4>3. Len(answers[i]) =< 1
        BY <2>5, Zenon DEF AnswerInv
      <4> QED
        BY <4>2, <4>3
    <3> QED
      BY <3>1, <3>2
  <2> QED
    BY <2>3, <2>4, <2>5
<1> QED
  BY <1>1, <1>2, Zenon DEF SendRtAck

\* The beginning of a table: the one it replaces is refused.
LEMMA AnswerStart ==
  ASSUME AnswerInv, ParseStart
  PROVE  AnswerInv'
<1>0. /\ MaxTables \in Nat /\ started \in Nat /\ started < MaxTables /\ started' = started + 1
      /\ table_id \in Nat /\ table_id <= started /\ msg.id \in {"yes", "no"}
      /\ ~(pc' = "parse")
  <2>1. pc = "parse" /\ msg.op = "start" /\ started' = started + 1 /\ pc' = Again
    BY Zenon DEF ParseStart, InHand
  <2> QED
    BY <2>1, TablesAssumption DEF AnswerInv, Again
<1>1. CASE UNCHANGED <<new, table_id, anon, answers>>
  BY <1>0, <1>1 DEF AnswerInv
<1>2. CASE /\ IF new # 0 THEN SendRtAck("ERR") ELSE NoAck
           /\ table_id' = IF msg.id = "yes" THEN started'
                          ELSE IF msg.kind = "update" THEN table_id ELSE 0
           /\ anon' = IF msg.kind = "update" /\ msg.id = "no" THEN "yes" ELSE anon
  <2>1. /\ answers' \in [0 .. MaxTables -> Seq({"OK", "ERR"})]
        /\ \A i \in 0 .. MaxTables : i # table_id => answers'[i] = answers[i]
        /\ anon = "no" => \A i \in 1 .. MaxTables : Len(answers'[i]) =< 1
    <3>1. CASE new # 0
      BY <1>2, <3>1, AckOnce
    <3>2. CASE new = 0
      BY <1>2, <3>2 DEF NoAck, AnswerInv
    <3> QED
      BY <3>1, <3>2
  <2>2. table_id' \in 0 .. started' /\ started' \in 0 .. MaxTables
    BY <1>0, <1>2
  <2>3. ASSUME anon' = "no"
        PROVE  /\ anon = "no"
               /\ \A i \in 1 .. MaxTables : i > started' => answers'[i] = <<>>
               /\ table_id' # 0 => answers'[table_id'] = <<>>
    <3>1. anon = "no" /\ ~(msg.kind = "update" /\ msg.id = "no")
      BY <1>2, <2>3
    <3>2. \A i \in 1 .. MaxTables : i > started => answers'[i] = <<>>
      BY <1>0, <2>1, <3>1 DEF AnswerInv
    <3>3. table_id' \in {started', 0}
      BY <1>0, <1>2, <3>1
    <3>4. started' \in 1 .. MaxTables /\ started' > started
      BY <1>0
    <3> QED
      BY <1>0, <3>1, <3>2, <3>3, <3>4
  <2> QED
    BY <1>0, <2>1, <2>2, <2>3, Zenon DEF AnswerInv
<1> QED
  BY <1>1, <1>2, Zenon DEF ParseStart, NoAck

\* The end of a table, which then is no longer in progress.
LEMMA AnswerEnd ==
  ASSUME AnswerInv, EndWrong \/ EndRight
  PROVE  AnswerInv'
<1>1. PICK st \in {"OK", "ERR"} : SendRtAck(st)
  BY Zenon DEF EndWrong, EndRight
<1>2. new # 0 /\ new' = 0 /\ ~(pc' = "parse") /\ UNCHANGED <<started, table_id, anon>>
  <2>1. new # 0 /\ new' = 0 /\ pc' = Again /\ UNCHANGED <<started, table_id, anon>>
    BY Zenon DEF EndWrong, EndRight
  <2> QED
    BY <2>1 DEF Again
<1>3. /\ answers' \in [0 .. MaxTables -> Seq({"OK", "ERR"})]
      /\ \A i \in 0 .. MaxTables : i # table_id => answers'[i] = answers[i]
      /\ anon = "no" => \A i \in 1 .. MaxTables : Len(answers'[i]) =< 1
  BY <1>1, <1>2, AckOnce
<1>4. ASSUME anon = "no", NEW i \in 1 .. MaxTables, i > started PROVE answers'[i] = <<>>
  BY <1>3, <1>4, TablesAssumption DEF AnswerInv
<1> QED
  BY <1>2, <1>3, <1>4 DEF AnswerInv

\* A message comes in: only a beginning that is within the bound.
LEMMA AnswerReceive ==
  ASSUME AnswerInv, RcvTimeout \/ RcvRecord \/ RcvOdd
  PROVE  AnswerInv'
<1>1. UNCHANGED <<answers, started, table_id, anon, new>>
  BY Zenon DEF RcvTimeout, RcvRecord, RcvOdd, Receive, tableVars
<1>2. msg'.op = "start" => started < MaxTables /\ msg'.id \in {"yes", "no"}
  <2>1. CASE RcvRecord
    <3>1. PICK r \in Records : (r.op = "start" => started < MaxTables) /\ msg' = r
      BY <2>1, Zenon DEF RcvRecord, Receive
    <3> QED
      BY <3>1 DEF Records
  <2>2. CASE RcvTimeout \/ RcvOdd
    <3>1. msg' = NoMsg \/ msg' = OddMsg
      BY <2>2, Zenon DEF RcvTimeout, RcvOdd, Receive
    <3> QED
      BY <3>1 DEF NoMsg, OddMsg
  <2> QED
    BY <2>1, <2>2
<1> QED
  BY <1>1, <1>2 DEF AnswerInv

\* The other steps of rtc have no beginning in hand afterwards.
LEMMA AnswerThread ==
  ASSUME AnswerInv, Thread
  PROVE  AnswerInv'
<1>0. ASSUME UNCHANGED tableVars, ~(pc' = "parse" /\ msg'.op = "start") PROVE AnswerInv'
  BY <1>0 DEF AnswerInv, tableVars
<1>1. CASE SeedRead \/ PvtInit \/ PvtInitFails \/ FileRead
  <2>1. UNCHANGED tableVars
    BY <1>1, Zenon DEF SeedRead, PvtInit, PvtInitFails, FileRead
  <2>2. pc' # "parse"
    BY <1>1 DEF SeedRead, PvtInit, PvtInitFails, FileRead
  <2> QED
    BY <1>0, <2>1, <2>2
<1>2. CASE Request \/ NoRequest
  <2>1. UNCHANGED tableVars
    BY <1>2, Zenon DEF Request, NoRequest
  <2>2. pc' # "parse"
    BY <1>2 DEF Request, NoRequest
  <2> QED
    BY <1>0, <2>1, <2>2
<1>3. CASE ParseOdd
  <2>1. UNCHANGED tableVars
    BY <1>3, Zenon DEF ParseOdd
  <2>2. msg'.op # "start"
    BY <1>3 DEF ParseOdd
  <2> QED
    BY <1>0, <2>1, <2>2
<1>4. CASE CycleUnlink \/ CycleRename \/ CycleCloseFails \/ CycleRenameFails
  <2>1. UNCHANGED tableVars
    BY <1>4, Zenon DEF CycleUnlink, CycleRename, CycleCloseFails, CycleRenameFails
  <2>2. pc' # "parse"
    BY <1>4 DEF CycleUnlink, CycleRename, CycleCloseFails, CycleRenameFails
  <2> QED
    BY <1>0, <2>1, <2>2
<1>5. CASE EndOfNone
  BY <1>5 DEF EndOfNone, AnswerInv, Again
<1> QED
  BY <1>1, <1>2, <1>3, <1>4, <1>5, AnswerStart, AnswerEnd, AnswerReceive, Zenon DEF Thread

\* Every step keeps the invariant of the answers.
LEMMA AnswerStep ==
  ASSUME AnswerInv, [CollectorNext]_cvars
  PROVE  AnswerInv'
<1>1. CASE UNCHANGED <<tableVars, pc, msg>>
  BY <1>1 DEF AnswerInv, tableVars
<1>2. CASE RequestDue \/ QuietMinute \/ DropMsg \/ Applications
  BY <1>1, <1>2, Zenon DEF RequestDue, QuietMinute, DropMsg, Applications
<1>3. CASE PeerDown \/ PeerUp \/ DiscSeen
  BY <1>1, <1>3, Zenon DEF PeerDown, PeerUp, DiscSeen, allButPeers
<1>4. CASE CloseFree \/ CloseShut
  BY <1>1, <1>4, Zenon DEF CloseFree, CloseShut, allButClose
<1>5. CASE UNCHANGED cvars
  BY <1>1, <1>5, Zenon DEF cvars
<1> QED
  BY <1>2, <1>3, <1>4, <1>5, AnswerThread, AnswerReceive, Zenon DEF CollectorNext, RcvMessage

\* send_rt_ack never answers twice for a table's id, whatever tables begin,
\* end, or are replaced before their end, if updates come with an id.
THEOREM AnsweredOnceHolds == CollectorSpec => []AnsweredOnce
<1>1. CollectorInit => AnswerInv
  <2> SUFFICES ASSUME CollectorInit PROVE AnswerInv
    OBVIOUS
  <2>1. /\ answers = [i \in 0 .. MaxTables |-> <<>>] /\ started = 0 /\ table_id = 0
        /\ pc = "seed" /\ new = 0
    BY Zenon DEF CollectorInit
  <2> QED
    BY <2>1, TablesAssumption DEF AnswerInv
<1>2. AnswerInv /\ [CollectorNext]_cvars => AnswerInv'
  BY AnswerStep
<1>3. AnswerInv => AnsweredOnce
  BY DEF AnswerInv, AnsweredOnce
<1> QED
  BY <1>1, <1>2, <1>3, PTL DEF CollectorSpec
====
