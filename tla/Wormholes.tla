----------------------------- MODULE Wormholes -----------------------------
(***************************************************************************)
(* Wormholes (common/src/wormholes.c): a context's list of endpoints an    *)
(* application sends to directly; a wormhole id is an index into it.       *)
(* A list is a sequence of targets and None; the empty one stands for a    *)
(* context without a list.  Ids start at 1 here and at 0 in the code; 0    *)
(* is the code's -1.  The operators are used for both contexts of a        *)
(* process: the application's, and the private one of the collector.       *)
(*                                                                         *)
(* Two application threads open and close wormholes of the application's   *)
(* context.  Nothing is locked: rmr_wh_open looks for a slot, connects,    *)
(* and fills the slot it found.                                            *)
(***************************************************************************)
EXTENDS Integers, Sequences

CONSTANTS
  Chunk,        \* slots of a new list, and of an extension (16)
  AppThreads,
  Targets,      \* what the application opens wormholes to
  MaxSlots      \* bound: slots of a list

None == "none"

ASSUME SlotsAssumption == Chunk \in Nat \ {0} /\ None \notin Targets

Empty == [i \in 1 .. Chunk |-> None]

WhInit(w) == IF w = <<>> THEN Empty ELSE w

(* the slot rmr_wh_open settles on: that of the endpoint, else the first    *)
(* free one, else one past the end                                          *)
\* Variant: whether a slot is taken is not looked at.
ScanFirst(w, t) == 1
Scan(w, t) ==
  LET having(x) == {i \in DOMAIN w : w[i] = x}
      first(s)  == CHOOSE i \in s : \A j \in s : i <= j
  IN IF having(t) # {} THEN first(having(t))
     ELSE IF having(None) # {} THEN first(having(None))
     ELSE Len(w) + 1

WhExtend(w, i) == IF i > Len(w) THEN w \o Empty ELSE w

(* the whole of rmr_wh_open, for a context only one thread uses: the list   *)
(* and the id; linked says whether rt_link2_ep succeeds if it is needed     *)
WhOpen(w, t, open, linked) ==
  LET v == WhInit(w)
      i == Scan(v, t)
      x == WhExtend(v, i)
  IN IF v # x \/ v[i] # t \/ t \notin open
     THEN IF linked THEN [wh |-> [x EXCEPT ![i] = t], id |-> i]
          ELSE [wh |-> x, id |-> 0]
     ELSE [wh |-> v, id |-> i]

Valid(w, id) == id \in DOMAIN w /\ w[id] # None

(* rmr_wh_state *)
WhState(w, open, id) ==
  IF w = <<>> THEN "NOWHOPEN"
  ELSE IF ~Valid(w, id) THEN "WHID"
  ELSE IF w[id] \in open THEN "OK" ELSE "NOENDPT"

WhClose(w, id) == IF Valid(w, id) THEN [w EXCEPT ![id] = None] ELSE w

-----------------------------------------------------------------------------
VARIABLES
  uwh,          \* the list of the application's context
  uopen,        \* its endpoints that are connected
  app,          \* per thread: rmr_wh_open between scan and store
  held,         \* per thread: the wormhole it has open
  unsafe        \* why an id may have lost its endpoint: "overlap" or "closed"

wvars == <<uwh, uopen, app, held, unsafe>>

Outside == [to |-> None, slot |-> 0]
Nothing == [to |-> None, id |-> 0]

WhStart ==
  /\ uwh = <<>> /\ uopen = {}
  /\ app = [p \in AppThreads |-> Outside]
  /\ held = [p \in AppThreads |-> Nothing]
  /\ unsafe = {}

Hold(p, t, i) == held' = [held EXCEPT ![p] = [to |-> t, id |-> i]]

(* the list is made, searched and extended; an open endpoint is returned *)
WhScan(p, t) ==
  LET v == WhInit(uwh)
      i == Scan(v, t)
  IN /\ app[p] = Outside /\ held[p] = Nothing
     /\ Len(WhExtend(v, i)) =< MaxSlots
     /\ IF i \in DOMAIN v /\ v[i] = t /\ t \in uopen
        THEN /\ uwh' = v
             /\ Hold(p, t, i)
             /\ UNCHANGED <<app, unsafe>>
        ELSE /\ uwh' = WhExtend(v, i)
             /\ app' = [app EXCEPT ![p] = [to |-> t, slot |-> i]]
             /\ unsafe' = IF \E q \in AppThreads \ {p} : app[q] # Outside
                          THEN unsafe \cup {"overlap"} ELSE unsafe
             /\ UNCHANGED held
     /\ UNCHANGED uopen

WhStore(p) ==
  /\ app[p] # Outside
  /\ uwh' = [uwh EXCEPT ![app[p].slot] = app[p].to]
  /\ uopen' = uopen \cup {app[p].to}
  /\ Hold(p, app[p].to, app[p].slot)
  /\ app' = [app EXCEPT ![p] = Outside]
  /\ UNCHANGED unsafe

WhRefused(p) ==
  /\ app[p] # Outside
  /\ app[p].to \notin uopen
  /\ app' = [app EXCEPT ![p] = Outside]
  /\ UNCHANGED <<uwh, uopen, held, unsafe>>

(* other threads that hold the id lose it too: it is one wormhole *)
WhRelease(p) ==
  /\ held[p] # Nothing
  /\ uwh' = WhClose(uwh, held[p].id)
  /\ held' = [q \in AppThreads |-> IF held[q].id = held[p].id THEN Nothing ELSE held[q]]
  /\ UNCHANGED <<uopen, app, unsafe>>

Usable(p) == WhState(uwh, uopen, held[p].id) \in {"OK", "NOENDPT"}

(* rmr_wh_send_msg: an endpoint that is closed is opened again, which       *)
(* finds it in its slot                                                     *)
WhSendReopens(p) ==
  /\ Usable(p)
  /\ uopen' = uopen \cup {uwh[held[p].id]}
  /\ UNCHANGED <<uwh, app, held, unsafe>>

(* rmr_wh_call: the same before the message goes to mt_call with the        *)
(* endpoint, not the id; the wait for the answer is Chute's                 *)
WhCall(p) ==
  /\ Usable(p)
  /\ uopen' = uopen \cup {uwh[held[p].id]}
  /\ UNCHANGED <<uwh, app, held, unsafe>>

UserDisc ==
  /\ \E t \in uopen : uopen' = uopen \ {t}
  /\ UNCHANGED <<uwh, app, held, unsafe>>

AppStep ==
  \/ \E p \in AppThreads : \/ \E t \in Targets : WhScan(p, t)
                           \/ WhStore(p) \/ WhRefused(p)
                           \/ WhRelease(p) \/ WhSendReopens(p) \/ WhCall(p)
  \/ UserDisc
=============================================================================
