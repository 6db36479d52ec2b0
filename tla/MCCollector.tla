---------------------------- MODULE MCCollector ----------------------------
(***************************************************************************)
(* The collector with one kind of company per behaviour: application       *)
(* threads that use wormholes; messages that are dropped, and a meid map;  *)
(* records of all kinds, with all that can happen to the stash; or a       *)
(* message it does not know, a meid map, and a close.  The route manager   *)
(* goes away and comes back in all four.                                   *)
(***************************************************************************)
EXTENDS Collector, TLC

VARIABLE scene

vars == <<cvars, scene>>

Init ==
  /\ CollectorInit
  /\ scene \in {"apps", "drops", "records", "close"}
  /\ mode = "file" => scene = "close"
  /\ mode = "listen" => scene # "apps"
  /\ scene = "records" => mode = "listen"

(* what a scene leaves out *)
Scene ==
  /\ UNCHANGED scene
  /\ scene # "drops" => "am" \in up'
  /\ scene # "records" => snarf' # "open"
  /\ scene # "records" /\ msg'.op = "start" =>
       msg'.kind = "meid" /\ msg'.id = "yes" /\ started = 0

Step ==
  \/ Thread
  \/ RequestDue \/ QuietMinute
  \/ PeerDown \/ PeerUp \/ DiscSeen
  \/ scene = "apps" /\ Applications
  \/ (scene \in {"records", "close"} \/ (scene = "drops" /\ mode = "listen")) /\ RcvRecord
  \/ scene = "drops" /\ DropMsg
  \/ scene = "close" /\ (RcvOdd \/ CloseFree \/ CloseShut)

Next == Step /\ Scene

Spec ==
  /\ Init /\ [][Next]_vars
  /\ WF_vars(Thread /\ Scene)
  /\ WF_vars(RequestDue /\ Scene)
  /\ WF_vars(DiscSeen /\ Scene)
=============================================================================
