----------------------------- MODULE RouteView ------------------------------
(***************************************************************************)
(* What the route tables promise to a thread that sends a message: it      *)
(* routes the whole message with one complete set of routes, the one that  *)
(* was current when it started, whatever is installed in the meantime.     *)
(***************************************************************************)
CONSTANTS Key, TypeKey, Val, Meid, Owner, Senders, NIL

VARIABLES
  current,   \* the routes in force
  view,      \* per sender: the routes it works with, or NIL
  found      \* per sender: the route it found for its message, or NIL

viewVars == <<current, view, found>>

Routes == [rt : [Key -> Val \cup {NIL}], me : [Meid -> Owner \cup {NIL}]]

NoRoutes == [rt |-> [k \in Key |-> NIL], me |-> [m \in Meid |-> NIL]]

Route(routes, k) ==
  IF routes.rt[k] # NIL THEN routes.rt[k] ELSE routes.rt[TypeKey]

ViewInit ==
  /\ current = NoRoutes
  /\ view = [s \in Senders |-> NIL]
  /\ found = [s \in Senders |-> NIL]

Install ==
  /\ current' \in Routes
  /\ UNCHANGED <<view, found>>

Begin(s) ==
  /\ view[s] = NIL
  /\ view' = [view EXCEPT ![s] = current]
  /\ UNCHANGED <<current, found>>

Find(s, k) ==
  /\ view[s] # NIL
  /\ found' = [found EXCEPT ![s] = Route(view[s], k)]
  /\ UNCHANGED <<current, view>>

Finish(s) ==
  /\ view[s] # NIL
  /\ view' = [view EXCEPT ![s] = NIL]
  /\ found' = [found EXCEPT ![s] = NIL]
  /\ UNCHANGED current

ViewNext ==
  \/ Install
  \/ \E s \in Senders : Begin(s) \/ Finish(s) \/ \E k \in Key : Find(s, k)

ViewSpec == ViewInit /\ [][ViewNext]_viewVars
=============================================================================
