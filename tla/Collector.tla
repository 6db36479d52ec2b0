----------------------------- MODULE Collector -----------------------------
(***************************************************************************)
(* The route table collector thread (common/src/rtc_static.c and the parts *)
(* of rt_generic_static.c and alarm.c it runs): it reads the seed table,   *)
(* asks the route manager for tables, takes their records, answers for     *)
(* each table, stashes what it receives, and raises and clears the alarm   *)
(* for dropped messages.  Contents of tables and their sharing with        *)
(* senders are RouteTable's; here a table is a number.                     *)
(*                                                                         *)
(* The collector sends through wormholes of its private context, but keeps *)
(* the id of the manager's in two places: requests use the application     *)
(* context's rtg_whid, answers the private context's, which nothing sets.  *)
(***************************************************************************)
EXTENDS Wormholes, FiniteSets

CONSTANTS
  MaxTables,    \* bound: tables the manager starts
  MaxDrops,     \* bound: the drop counter
  MaxDown,      \* bound: times a peer of the collector goes away
  Modes         \* "request", "listen" or "file": what the environment asks for

ASSUME TablesAssumption == MaxTables \in Nat

Peers == {"rm", "am"}          \* the route manager and the alarm manager

VARIABLES
  mode, pc,     \* pc: see CollectorNext
  have, due,    \* RTCFL_HAVE_UPDATE; the next request's time has come
  asked,        \* a request reached the manager
  req_whid,     \* ctx->rtg_whid
  ack_whid,     \* pvt_cx->rtg_whid
  alarm_whid,   \* the static whid of uta_alarm_send
  pwh, popen,   \* the private context's wormholes and connected endpoints
  dead,         \* those whose connection is gone, not yet noticed
  up, downs,    \* peers that can be reached; how often one went away
  msg,          \* the message in hand
  new, kind,    \* the table in progress, 0 if none, and its kind
  table_id,     \* ctx->table_id
  started,      \* tables started so far
  full,         \* CFL_FULLRT
  answers,      \* per id: the answers sent for it
  anon,         \* an update was started without an id
  ended,        \* the last table whose end record came, and its fate
  snarf, inc, stash,  \* snarf_rt_fd; tables in the working file, in the stash
  io,           \* "failed" once the files could not be handled
  raised, ok2clear, lastd, dcount,   \* alarm_if_drops; ctx->dcount
  since,        \* drops and counter resets since the clear timer was set
  cleared,      \* the alarm was cleared in the last step
  name, shutdown   \* ctx->seed_rt_fname, ctx->shutdown

reqVars == <<have, due, asked, req_whid>>
peerVars == <<popen, dead, up, downs>>
tableVars == <<new, kind, table_id, started, full, answers, anon, ended>>
stashVars == <<snarf, inc, stash, io>>
alarmVars == <<raised, ok2clear, lastd, since, cleared>>
closeVars == <<name, shutdown>>
cvars == <<mode, pc, reqVars, ack_whid, alarm_whid, pwh, peerVars, msg,
           tableVars, stashVars, alarmVars, dcount, closeVars, wvars>>

NoFile == [tables |-> {}, end |-> -1]

Kinds == {"newrt", "update", "meid"}

NoMsg == [op |-> "none"]
OddMsg == [op |-> "odd"]

NotEnded == [n |-> 0, kind |-> None, st |-> None]

CollectorInit ==
  /\ WhStart
  /\ mode \in Modes /\ pc = "seed"
  /\ have = "no" /\ due = "yes" /\ asked = "no"
  /\ req_whid = 1 /\ ack_whid = 1 /\ alarm_whid = 0
  /\ pwh = <<>> /\ popen = {} /\ dead = {} /\ up = Peers /\ downs = 0
  /\ msg = NoMsg
  /\ new = 0 /\ kind = None /\ table_id = 0 /\ started = 0
  /\ full = "no"
  /\ answers = [i \in 0 .. MaxTables |-> <<>>]
  /\ anon = "no" /\ ended = NotEnded
  /\ snarf = "closed" /\ inc = {} /\ stash = NoFile /\ io = "ok"
  /\ raised = "no" /\ ok2clear = "no" /\ lastd = 0 /\ dcount = 0
  /\ since = {} /\ cleared = "no"
  /\ name = "none" /\ shutdown = "no"

(***************************************************************************)
(* Start up.                                                               *)
(***************************************************************************)

(* read_static_rt in rtc: whatever the file holds, it is no full table; what *)
(* is read is RouteTable's                                                   *)
SeedRead ==
  /\ pc = "seed" /\ mode # "file"
  /\ name' = IF name = "none" THEN "set" ELSE name
  /\ pc' = "init"
  /\ UNCHANGED <<mode, reqVars, ack_whid, alarm_whid, pwh, peerVars, msg,
                 tableVars,
                 stashVars, alarmVars, dcount, shutdown, wvars>>

(* opening the working file *)
Reopen ==
  \/ snarf' = "open" /\ UNCHANGED io
  \/ snarf' = "closed" /\ io' = "failed"

(* the private context listens; the working file is opened *)
PvtInit ==
  /\ pc = "init"
  /\ have' = IF mode = "listen" THEN "yes" ELSE have
  /\ req_whid' = 0
  /\ Reopen
  /\ pc' = "top"
  /\ UNCHANGED <<mode, due, asked, ack_whid, alarm_whid, pwh, peerVars,
                 msg, tableVars, inc, stash, alarmVars, dcount, closeVars, wvars>>

(* no private context: only counts are written from now on, for ever *)
PvtInitFails ==
  /\ pc = "init"
  /\ pc' = "counting"
  /\ UNCHANGED <<mode, reqVars, ack_whid, alarm_whid, pwh, peerVars, msg,
                 tableVars, stashVars, alarmVars, dcount, closeVars, wvars>>

(* rtc_file: the file is read again and again *)
FileRead ==
  /\ pc = "seed" /\ mode = "file"
  /\ name' = IF name = "none" THEN "set" ELSE name
  /\ pc' = IF shutdown = "yes" THEN "ended" ELSE "seed"
  /\ UNCHANGED <<mode, reqVars, ack_whid, alarm_whid, pwh, peerVars, msg,
                 tableVars,
                 stashVars, alarmVars, dcount, shutdown, wvars>>

(***************************************************************************)
(* Wormholes of the private context; only this thread uses them.           *)
(***************************************************************************)
PvtOpen(t) == WhOpen(pwh, t, popen, t \in up)

(* what rmr_wh_send_msg through id does: connects again if need be, and     *)
(* succeeds if the connection is there                                      *)
Through(w, open, id) ==
  IF ~Valid(w, id) THEN [ok |-> FALSE, open |-> open]
  ELSE IF w[id] \in open THEN [ok |-> w[id] \notin dead, open |-> open]
  ELSE [ok |-> w[id] \in up, open |-> open \cup ({w[id]} \cap up)]

(* send_update_req: after a failure the id is closed, in the application's  *)
(* context, though it is one of the private context                         *)
SendUpdateReq(o, open) ==
  LET s == Through(o.wh, open, o.id)
  IN IF o.id = 0
     THEN req_whid' = 0 /\ popen' = open /\ UNCHANGED <<asked, uwh, unsafe>>
     ELSE /\ popen' = s.open
          /\ IF s.ok THEN asked' = "yes" /\ req_whid' = o.id /\ UNCHANGED <<uwh, unsafe>>
             ELSE /\ req_whid' = 0
                  /\ uwh' = WhClose(uwh, o.id)
                  /\ unsafe' = IF Valid(uwh, o.id) THEN unsafe \cup {"closed"} ELSE unsafe
                  /\ UNCHANGED asked

(* Variant: the wormhole is opened for the first request only. *)
RequestOnce ==
  /\ pc = "top" /\ have = "no" /\ due = "yes"
  /\ LET o == IF req_whid = 0 /\ pwh = <<>> THEN PvtOpen("rm")
              ELSE [wh |-> pwh, id |-> req_whid]
     IN /\ pwh' = o.wh
        /\ SendUpdateReq(o, IF req_whid = 0 /\ o.id # 0 THEN popen \cup {"rm"} ELSE popen)
  /\ due' = "no"
  /\ pc' = "rcv"
  /\ UNCHANGED <<mode, have, ack_whid, alarm_whid, dead, up, downs, msg, tableVars,
                 stashVars, alarmVars, dcount, closeVars, uopen, app, held>>
Request ==
  /\ pc = "top" /\ have = "no" /\ due = "yes"
  /\ LET o == IF req_whid = 0 THEN PvtOpen("rm") ELSE [wh |-> pwh, id |-> req_whid]
     IN /\ pwh' = o.wh
        /\ SendUpdateReq(o, IF req_whid = 0 /\ o.id # 0 THEN popen \cup {"rm"} ELSE popen)
  /\ due' = "no"
  /\ pc' = "rcv"
  /\ UNCHANGED <<mode, have, ack_whid, alarm_whid, dead, up, downs, msg, tableVars,
                 stashVars, alarmVars, dcount, closeVars, uopen, app, held>>

NoRequest ==
  /\ pc = "top" /\ (have = "yes" \/ due = "no")
  /\ pc' = "rcv"
  /\ UNCHANGED <<mode, reqVars, ack_whid, alarm_whid, pwh, peerVars, msg, tableVars,
                 stashVars, alarmVars, dcount, closeVars, wvars>>

(***************************************************************************)
(* The drop alarm.                                                         *)
(***************************************************************************)

(* the name and port in the environment, else the service's *)
AlarmEndpt == "am"

(* uta_alarm_send: the wormhole is opened once *)
AlarmSend ==
  LET o == IF alarm_whid = 0 THEN PvtOpen(AlarmEndpt)
           ELSE [wh |-> pwh, id |-> alarm_whid]
      open == IF alarm_whid = 0 /\ o.id # 0 THEN popen \cup {AlarmEndpt} ELSE popen
  IN /\ pwh' = o.wh /\ alarm_whid' = o.id
     /\ popen' = Through(o.wh, open, o.id).open

(* uta_alarm: there is a message to send, or the process has aborted *)
UtaAlarm == AlarmSend

NoAlarm == UNCHANGED <<pwh, alarm_whid, popen>>

Raise ==
  /\ raised = "no" /\ dcount # lastd
  /\ raised' = "yes" /\ cleared' = "no"
  /\ UtaAlarm
  /\ UNCHANGED <<ok2clear, lastd, since>>

(* Variant: the timer runs on when messages are dropped again. *)
StillDroppingRuns ==
  /\ raised = "yes" /\ dcount # lastd
  /\ lastd' = dcount /\ cleared' = "no"
  /\ NoAlarm /\ UNCHANGED <<raised, ok2clear, since>>
StillDropping ==
  /\ raised = "yes" /\ dcount # lastd
  /\ lastd' = dcount /\ ok2clear' = "no" /\ cleared' = "no"
  /\ NoAlarm /\ UNCHANGED <<raised, since>>

FirstQuiet ==
  /\ raised = "yes" /\ dcount = lastd /\ ok2clear = "no"
  /\ ok2clear' = "set" /\ since' = {} /\ cleared' = "no"
  /\ NoAlarm /\ UNCHANGED <<raised, lastd>>

Clear ==
  /\ raised = "yes" /\ dcount = lastd /\ ok2clear = "over"
  /\ raised' = "no" /\ cleared' = "yes"
  /\ UtaAlarm
  /\ UNCHANGED <<ok2clear, lastd, since>>

NothingToDo ==
  /\ dcount = lastd /\ (raised = "no" \/ ok2clear = "set")
  /\ cleared' = "no"
  /\ NoAlarm /\ UNCHANGED <<raised, ok2clear, lastd, since>>

AlarmIfDrops == Raise \/ StillDropping \/ FirstQuiet \/ Clear \/ NothingToDo

(***************************************************************************)
(* A message, or none within a second, and the chores.                     *)
(***************************************************************************)

(* records of tables; their entries are RouteTable's.  No count is as good  *)
(* as the right one.  An end without a table in progress has no count here: *)
(* see EndLost of RouteTable.                                               *)
Records ==
  [op : {"start"}, kind : Kinds, id : {"yes", "no"}]
    \cup {r \in [op : {"end"}, kind : Kinds, count : {"none", "wrong"}] :
            IF new = 0 THEN r.count = "none" ELSE r.kind = kind}

Receive(m) ==
  /\ pc = "rcv"
  /\ msg' = m
  /\ IF shutdown = "yes"
     THEN pc' = "parse" /\ NoAlarm /\ UNCHANGED alarmVars
     ELSE pc' = (IF m = NoMsg THEN "top" ELSE "parse") /\ AlarmIfDrops
  /\ UNCHANGED <<mode, reqVars, ack_whid, dead, up, downs, tableVars, stashVars,
                 dcount, closeVars, wvars>>

RcvTimeout == Receive(NoMsg)

RcvRecord ==
  \E r \in Records :
    /\ r.op = "start" => started < MaxTables
    /\ Receive(r)

RcvOdd == Receive(OddMsg)

(***************************************************************************)
(* rtc_parse_msg: a record of a table.                                     *)
(***************************************************************************)
InHand(op) == pc = "parse" /\ msg.op = op

(* the test for a shutdown after each message *)
Again == IF shutdown = "yes" THEN "ended" ELSE "top"

(* nothing to parse, or a message of another type: that one stays in hand *)
(* (variant: the test for a shutdown is left out for that message) *)
ParseOddDeaf ==
  /\ pc = "parse" /\ msg.op \in {"none", "odd"}
  /\ pc' = IF msg.op = "odd" THEN "parse" ELSE Again
  /\ UNCHANGED <<mode, reqVars, ack_whid, alarm_whid, pwh, peerVars, msg, tableVars,
                 stashVars, alarmVars, dcount, closeVars, wvars>>
ParseOdd ==
  /\ pc = "parse" /\ msg.op \in {"none", "odd"}
  /\ pc' = IF msg.op = "odd" /\ shutdown # "yes" THEN "parse" ELSE Again
  /\ UNCHANGED <<mode, reqVars, ack_whid, alarm_whid, pwh, peerVars, msg, tableVars,
                 stashVars, alarmVars, dcount, closeVars, wvars>>

(* send_rt_ack: returned to the sender of the record.  After a failure the  *)
(* private context's id is closed and nothing is answered any more; the id  *)
(* may be that of the alarms.                                               *)
SendRtAck(st) ==
  IF ack_whid = 0 THEN UNCHANGED <<answers, ack_whid, pwh, unsafe>>
  ELSE IF "rm" \in up
  THEN /\ answers' = [answers EXCEPT ![table_id] = Append(@, st)]
       /\ UNCHANGED <<ack_whid, pwh, unsafe>>
  ELSE /\ ack_whid' = 0
       /\ pwh' = WhClose(pwh, ack_whid)
       /\ unsafe' = IF alarm_whid = ack_whid THEN unsafe \cup {"alarm"} ELSE unsafe
       /\ UNCHANGED answers

NoAck == UNCHANGED <<answers, ack_whid, pwh, unsafe>>

(* parse_rt_rec writes the record to the working file, used or not *)
Write(n) == inc' = IF snarf = "open" THEN inc \cup {n} ELSE inc

ParseStart ==
  /\ InHand("start")
  /\ started' = started + 1
  /\ Write(started')
  /\ have' = "yes"
  /\ IF msg.kind = "update" /\ full = "no"
     THEN NoAck /\ UNCHANGED <<new, kind, table_id, anon>>
     ELSE /\ IF new # 0 THEN SendRtAck("ERR") ELSE NoAck
          /\ new' = started' /\ kind' = msg.kind
          /\ table_id' = IF msg.id = "yes" THEN started'
                          ELSE IF msg.kind = "update" THEN table_id ELSE 0
          /\ anon' = IF msg.kind = "update" /\ msg.id = "no" THEN "yes" ELSE anon
  /\ msg' = NoMsg /\ pc' = Again
  /\ UNCHANGED <<mode, due, asked, req_whid, alarm_whid, peerVars, full, ended,
                 snarf, stash, io, alarmVars, dcount, closeVars, uwh, uopen, app, held>>

(* cycle_snarfed_rt up to the unlink, at the end of a route table or update *)
Cycles ==
  /\ snarf = "open"
  /\ msg.kind = "newrt" \/ (msg.kind = "update" /\ full = "yes" /\ new # 0)

CycleUnlink ==
  /\ InHand("end") /\ Cycles
  /\ stash' = NoFile
  /\ have' = "yes"
  /\ pc' = "rename"
  /\ UNCHANGED <<mode, due, asked, req_whid, ack_whid, alarm_whid, pwh, peerVars, msg,
                 tableVars, snarf, inc, io, alarmVars, dcount, closeVars, wvars>>

(* Variant: the old file is removed after the rename. *)
CycleRenameFirst ==
  /\ pc = "rename"
  /\ inc' = {}
  /\ Reopen
  /\ pc' = "settle"
  /\ UNCHANGED <<mode, reqVars, ack_whid, alarm_whid, pwh, peerVars, msg, tableVars,
                 stash, alarmVars, dcount, closeVars, wvars>>
(* the working file takes the name and a new one is opened, or not *)
CycleRename ==
  /\ pc = "rename"
  /\ stash' = [tables |-> inc, end |-> new]
  /\ inc' = {}
  /\ Reopen
  /\ pc' = "settle"
  /\ UNCHANGED <<mode, reqVars, ack_whid, alarm_whid, pwh, peerVars, msg, tableVars,
                 alarmVars, dcount, closeVars, wvars>>

(* close fails: the descriptor's number is kept and nothing else is done *)
CycleCloseFails ==
  /\ InHand("end") /\ Cycles
  /\ snarf' = "stale" /\ io' = "failed"
  /\ have' = "yes"
  /\ pc' = "settle"
  /\ UNCHANGED <<mode, due, asked, req_whid, ack_whid, alarm_whid, pwh, peerVars, msg,
                 tableVars, inc, stash, alarmVars, dcount, closeVars, wvars>>

(* rename fails: opening the new working file empties the old one *)
CycleRenameFails ==
  /\ pc = "rename"
  /\ inc' = {}
  /\ snarf' \in {"open", "closed"} /\ io' = "failed"
  /\ pc' = "settle"
  /\ UNCHANGED <<mode, reqVars, ack_whid, alarm_whid, pwh, peerVars, msg, tableVars,
                 stash, alarmVars, dcount, closeVars, wvars>>

AtEnd == pc = "settle" \/ (InHand("end") /\ ~Cycles)

(* Variant: the rejected table stays in progress. *)
EndWrongKeeps ==
  /\ AtEnd /\ new # 0 /\ msg.count = "wrong"
  /\ SendRtAck("ERR")
  /\ ended' = [n |-> new, kind |-> kind, st |-> "ERR"]
  /\ have' = "yes" /\ msg' = NoMsg /\ pc' = Again
  /\ UNCHANGED <<mode, due, asked, req_whid, alarm_whid, peerVars, new, kind,
                 table_id, started, full, anon, stashVars, alarmVars, dcount,
                 closeVars, uwh, uopen, app, held>>
EndWrong ==
  /\ AtEnd /\ new # 0 /\ msg.count = "wrong"
  /\ SendRtAck("ERR")
  /\ new' = 0
  /\ ended' = [n |-> new, kind |-> kind, st |-> "ERR"]
  /\ have' = "yes" /\ msg' = NoMsg /\ pc' = Again
  /\ UNCHANGED <<mode, due, asked, req_whid, alarm_whid, peerVars, kind,
                 table_id, started, full, anon, stashVars, alarmVars, dcount,
                 closeVars, uwh, uopen, app, held>>

EndRight ==
  /\ AtEnd /\ new # 0 /\ msg.count # "wrong"
  /\ SendRtAck("OK")
  /\ new' = 0
  /\ ended' = [n |-> new, kind |-> kind, st |-> "OK"]
  /\ full' = IF kind = "newrt" THEN "yes" ELSE full
  /\ have' = "yes" /\ msg' = NoMsg /\ pc' = Again
  /\ UNCHANGED <<mode, due, asked, req_whid, alarm_whid, peerVars, kind,
                 table_id, started, anon, stashVars, alarmVars, dcount, closeVars,
                 uwh, uopen, app, held>>

EndOfNone ==
  /\ AtEnd /\ new = 0
  /\ ended' = NotEnded
  /\ have' = "yes" /\ msg' = NoMsg /\ pc' = Again
  /\ UNCHANGED <<mode, due, asked, req_whid, ack_whid, alarm_whid, pwh, peerVars,
                 new, kind, table_id, started, full, answers, anon, stashVars, alarmVars, dcount, closeVars, wvars>>

(***************************************************************************)
(* Time, the peers, the receiver thread that drops messages, the close.    *)
(***************************************************************************)
RequestDue ==
  /\ due = "no" /\ have = "no"
  /\ due' = "yes" /\ asked' = "no"
  /\ UNCHANGED <<mode, pc, have, req_whid, ack_whid, alarm_whid, pwh, peerVars, msg,
                 tableVars, stashVars, alarmVars, dcount, closeVars, wvars>>

QuietMinute ==
  /\ ok2clear = "set" /\ ok2clear' = "over"
  /\ UNCHANGED <<mode, pc, reqVars, ack_whid, alarm_whid, pwh, peerVars, msg, tableVars,
                 stashVars, raised, lastd, since, cleared, dcount, closeVars, wvars>>

allButPeers == <<mode, pc, reqVars, ack_whid, alarm_whid, pwh, msg, tableVars,
                 stashVars, alarmVars, dcount, closeVars, wvars>>

PeerDown ==
  /\ downs < MaxDown
  /\ \E p \in up : up' = up \ {p} /\ dead' = dead \cup ({p} \cap popen)
  /\ downs' = downs + 1
  /\ UNCHANGED <<popen, allButPeers>>

PeerUp ==
  /\ \E p \in Peers \ up : up' = up \cup {p}
  /\ UNCHANGED <<popen, dead, downs, allButPeers>>

(* the private context's receiver thread is told of the disconnect *)
DiscSeen ==
  /\ \E p \in dead : popen' = popen \ {p} /\ dead' = dead \ {p}
  /\ UNCHANGED <<up, downs, allButPeers>>

(* queue_normal; its warning, at most one a minute, restarts the counter *)
DropMsg ==
  /\ \/ /\ dcount < MaxDrops /\ dcount' = dcount + 1
        /\ since' = since \cup {"drop"}
     \/ /\ dcount' = 0
        /\ since' = since \cup {"drop", "reset"}
  /\ cleared' = "no"
  /\ UNCHANGED <<mode, pc, reqVars, ack_whid, alarm_whid, pwh, peerVars, msg, tableVars,
                 stashVars, raised, ok2clear, lastd, closeVars, wvars>>

allButClose == <<mode, pc, reqVars, ack_whid, alarm_whid, pwh, peerVars, msg,
                 tableVars, stashVars, alarmVars, dcount, wvars>>

(* rmr_close frees the name of the seed file before it says so *)
CloseFree ==
  /\ shutdown = "no" /\ shutdown' = "closing"
  /\ name' = IF name = "set" THEN "freed" ELSE name
  /\ UNCHANGED allButClose

CloseShut ==
  /\ shutdown = "closing" /\ shutdown' = "yes"
  /\ UNCHANGED <<name, allButClose>>

Applications ==
  /\ AppStep
  /\ UNCHANGED <<mode, pc, reqVars, ack_whid, alarm_whid, pwh, peerVars, msg, tableVars,
                 stashVars, alarmVars, dcount, closeVars>>

(* pc: "seed" and "init" while starting; "top", "rcv" and "parse" are the   *)
(* places in the loop of rtc, "rename" and "settle" inside parse_rt_rec;    *)
(* "counting" and "ended" are final                                         *)
Thread ==
  \/ SeedRead \/ PvtInit \/ PvtInitFails \/ FileRead
  \/ Request \/ NoRequest
  \/ RcvTimeout
  \/ ParseOdd \/ ParseStart
  \/ CycleUnlink \/ CycleRename \/ CycleCloseFails \/ CycleRenameFails
  \/ EndWrong \/ EndRight \/ EndOfNone

RcvMessage == RcvRecord \/ RcvOdd

CollectorNext ==
  \/ Thread \/ RcvMessage \/ RequestDue \/ QuietMinute
  \/ PeerDown \/ PeerUp \/ DiscSeen
  \/ DropMsg \/ CloseFree \/ CloseShut \/ Applications

CollectorSpec == CollectorInit /\ [][CollectorNext]_cvars

-----------------------------------------------------------------------------
(* A wormhole stays where it is: the id a thread got from rmr_wh_open, and  *)
(* the id the alarms use, refer to their endpoint until they are closed,    *)
(* however lists grow and slots are reused.  Three things break this, and   *)
(* only they do: opens that overlap (nothing is locked), a failed request   *)
(* for a table, which closes an id in the wrong context, and a failed       *)
(* answer, which closes an id that is the alarms'.                          *)
WormholeKept ==
  /\ unsafe \cap {"overlap", "closed"} = {} =>
       \A p \in AppThreads :
         held[p] # Nothing => Usable(p) /\ uwh[held[p].id] = held[p].to
  /\ "alarm" \notin unsafe /\ alarm_whid # 0 =>
       Valid(pwh, alarm_whid) /\ pwh[alarm_whid] = AlarmEndpt

(* The drop alarm is cleared only if no message was dropped since the       *)
(* quiet minute began, unless a warning restarted the counter meanwhile     *)
(* (alarm_if_drops only compares counter values).                           *)
ClearMeansQuiet ==
  cleared = "yes" => "drop" \notin since \/ "reset" \in since

(* The manager never gets two answers for one table id, so never an OK and  *)
(* an ERR for it, unless an update came without an id: that one keeps the   *)
(* id of the table before it.                                               *)
AnsweredOnce ==
  anon = "no" => \A i \in 1 .. MaxTables : Len(answers[i]) =< 1

(* A route table or update that was put to use is in the stash from its     *)
(* start to its end, and the stash is missing only between the unlink and   *)
(* the rename of cycle_snarfed_rt, if the files can be handled.             *)
InUseIsStashed ==
  io = "ok" /\ ended.st = "OK" /\ ended.kind # "meid" /\ pc \notin {"rename", "settle"} =>
    stash.end = ended.n /\ ended.n \in stash.tables

(* While no table data has come, requests go out again and again once the   *)
(* manager stays reachable, whatever failed before.  A message of another   *)
(* type ends this: rtc keeps it in hand for ever.                           *)
KeepsAsking ==
  <>[]("rm" \in up) =>
    ((pc = "top" /\ have = "no")
       ~> (asked = "yes" \/ have = "yes" \/ msg.op = "odd" \/ shutdown = "yes"))

(* After rmr_close the collector ends, unless it has no private context.    *)
CollectorEnds == shutdown = "yes" ~> pc \in {"ended", "counting"}
=============================================================================
