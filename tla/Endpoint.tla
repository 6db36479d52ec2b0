------------------------------ MODULE Endpoint ------------------------------
(***************************************************************************)
(* Endpoints and their connections (si/src/rtable_si_static.c, the         *)
(* disconnect callback of mt_call_si_static.c) over the transport of Si95. *)
(* Application threads select an endpoint, connect it when it is not open, *)
(* and send on its socket number; the thread in SIwait accepts sessions,   *)
(* notices disconnects and marks endpoints closed.                         *)
(*                                                                         *)
(* A thread selects in one of the ways of the code: "rr" (uta_epsock_rr),  *)
(* "name" (uta_epsock_byname), "meid" (epsock_meid) or "wh" (rt_link2_ep   *)
(* for a wormhole), which differ in what they store after uta_link2.       *)
(***************************************************************************)
EXTENDS Si95

CONSTANTS
  Eps,           \* endpoints
  Senders,       \* application threads
  Rcv,           \* the thread in SIwait
  Uses,          \* per thread: the endpoints and ways it selects
  MaxIn,         \* bound: sessions that peers open
  MaxExcept      \* bound: exceptions a sender finds on its socket

ASSUME ActorsAssumption == Actors = Senders \cup {Rcv} /\ Rcv \notin Senders

VARIABLES
  ep,            \* per endpoint: open, nn_sock
  gate,          \* per endpoint: the thread that holds ep->gate, or "none"
  fd2ep,         \* per number: endpoint or "none"
  pc, my,        \* per sender: where it is; endpoint, way, number, block
  rpc, rb, re,   \* receiver: where it is; block and endpoint it works on
  polled, ready, \* receiver: numbers given to select; those it found ready
  inbound,       \* sessions peers have opened and will still open
  excepts

epvars == <<ep, gate, fd2ep, pc, my>>
rvars == <<rpc, rb, re, polled, ready, inbound>>
vars == <<sivars, epvars, rvars, excepts>>

Nobody == [e |-> "none", way |-> "none", fd |-> -1, b |-> 0]

Init ==
  /\ SiInit
  /\ ep = [e \in Eps |-> [open |-> FALSE, nn_sock |-> -1]]
  /\ gate = [e \in Eps |-> "none"]
  /\ fd2ep = [f \in FDs |-> "none"]
  /\ pc = [s \in Senders |-> "idle"] /\ my = [s \in Senders |-> Nobody]
  /\ rpc = "start" /\ rb = 0 /\ re = "none" /\ polled = {} /\ ready = {}
  /\ inbound = [pending |-> 0, left |-> MaxIn]
  /\ excepts = 0

Goto(s, l) == pc' = [pc EXCEPT ![s] = l]
\* Threads are followed up to the first overlap: afterwards the lists may
\* lead through freed memory.
At(s, l) == raced = {} /\ pc[s] = l
RcvAt(l) == raced = {} /\ rpc = l
Done(s) == Goto(s, "idle") /\ my' = [my EXCEPT ![s] = Nobody]

-----------------------------------------------------------------------------
(* A sender: selection and connection                                      *)

\* Endpoint e is selected: if it is open its number is used, otherwise
\* uta_link2 is called.
Selected(s, e, way) ==
  /\ At(s, "idle")
  /\ IF ep[e].open
     THEN Goto(s, "send") /\ my' = [my EXCEPT ![s] = [Nobody EXCEPT !.fd = ep[e].nn_sock]]
     ELSE Goto(s, "gate") /\ my' = [my EXCEPT ![s] = [Nobody EXCEPT !.e = e, !.way = way]]
  /\ UNCHANGED <<sivars, ep, gate, fd2ep, rvars, excepts>>

Used(s, way) == {e \in Eps : [e |-> e, way |-> way] \in Uses[s]}

\* The next member of a group that has members.
EpsockRr(s) == \E e \in Used(s, "rr") : Selected(s, e, "rr")

\* A name: the table's endpoint, or one that is made now, closed as in Init.
EpsockByname(s) == \E e \in Used(s, "name") : Selected(s, e, "name")

\* The owner of a meid that has one.
EpsockMeid(s) == \E e \in Used(s, "meid") : Selected(s, e, "meid")

\* The target of a wormhole.
RtLink2Ep(s) == \E e \in Used(s, "wh") : Selected(s, e, "wh")

\* Variant: uta_link2 does not look again once it has the gate.
GateBlind(s) ==
  /\ At(s, "gate") /\ gate[my[s].e] = "none"
  /\ Goto(s, "conn") /\ gate' = [gate EXCEPT ![my[s].e] = s]
  /\ UNCHANGED <<sivars, ep, fd2ep, my, rvars, excepts>>

\* uta_link2 has the gate: another thread may have connected meanwhile.
Gate(s) ==
  /\ At(s, "gate") /\ gate[my[s].e] = "none"
  /\ IF ep[my[s].e].open
     THEN Goto(s, "linked") /\ UNCHANGED gate
     ELSE Goto(s, "conn") /\ gate' = [gate EXCEPT ![my[s].e] = s]
  /\ UNCHANGED <<sivars, ep, fd2ep, my, rvars, excepts>>

\* SIconnect fails; so does the send.
ConnectFails(s) ==
  /\ At(s, "conn")
  /\ SIconnectFails(my[s].e)
  /\ ep' = [ep EXCEPT ![my[s].e].nn_sock = -1]
  /\ gate' = [gate EXCEPT ![my[s].e] = "none"]
  /\ Done(s)
  /\ UNCHANGED <<fd2ep, rvars, excepts>>

Connect(s) ==
  /\ At(s, "conn")
  /\ SIconnect(s, my[s].e)
  /\ Goto(s, "push")
  /\ UNCHANGED <<ep, gate, fd2ep, my, rvars, excepts>>

\* SIconnect puts the block on the list and returns the number.
ConnectPush(s) ==
  /\ At(s, "push")
  /\ my' = [my EXCEPT ![s].fd = blk[hand[s].b].fd]
  /\ Push(s)
  /\ Goto(s, "own")
  /\ UNCHANGED <<ep, gate, fd2ep, rvars, excepts>>

\* The number -1 is a key no descriptor has.
Fd2epAdd(f, e) == IF f \in FDs THEN [fd2ep EXCEPT ![f] = e] ELSE fd2ep
Fd2epDel(f) == [fd2ep EXCEPT ![f] = "none"]

\* uta_link2 stores the number, marks the endpoint open, maps the number to
\* it, and gives up the gate.
Own(s) ==
  /\ At(s, "own")
  /\ ep' = [ep EXCEPT ![my[s].e] = [open |-> TRUE, nn_sock |-> my[s].fd]]
  /\ fd2ep' = Fd2epAdd(my[s].fd, my[s].e)
  /\ gate' = [gate EXCEPT ![my[s].e] = "none"]
  /\ Goto(s, "linked")
  /\ UNCHANGED <<sivars, my, rvars, excepts>>

\* rt_link2_ep finds the endpoint closed again.
LinkLost(s) ==
  /\ At(s, "linked") /\ my[s].way = "wh" /\ ~ep[my[s].e].open
  /\ Done(s)
  /\ UNCHANGED <<sivars, ep, gate, fd2ep, rvars, excepts>>

\* The callers of uta_link2, outside the gate, take the number and may store
\* open once more and map the number again.
TakeSock(s, way, open, map) ==
  LET e == my[s].e
      f == ep[e].nn_sock IN
  /\ At(s, "linked") /\ my[s].way = way
  /\ ep' = [ep EXCEPT ![e].open = open]
  /\ fd2ep' = IF map THEN Fd2epAdd(f, e) ELSE fd2ep
  /\ raced' = raced \cup IF rpc = "disc" /\ re = e /\ map THEN {"link"} ELSE {}
  /\ my' = [my EXCEPT ![s] = [Nobody EXCEPT !.fd = f]]
  /\ Goto(s, "send")
  /\ UNCHANGED <<sock, blk, tplist, tp_map, hand, closed, cbtab, gate, rvars, excepts>>

RrLinked(s) == TakeSock(s, "rr", TRUE, TRUE)
BynameLinked(s) == TakeSock(s, "name", TRUE, TRUE)
MeidLinked(s) == TakeSock(s, "meid", TRUE, FALSE)
EpLinked(s) == pc[s] = "linked" /\ ep[my[s].e].open /\ TakeSock(s, "wh", TRUE, FALSE)

-----------------------------------------------------------------------------
(* A sender: SIsendt                                                       *)

\* The block of the number; none, or a number of -1, is an error which leaves
\* the endpoint as it is.
SendLookup(s) ==
  /\ At(s, "send")
  /\ IF my[s].fd \in FDs /\ tp_map[my[s].fd] # 0
     THEN /\ my' = [my EXCEPT ![s] = [Nobody EXCEPT !.b = tp_map[my[s].fd]]]
          /\ Goto(s, "blk")
     ELSE Done(s)
  /\ UNCHANGED <<sivars, ep, gate, fd2ep, rvars, excepts>>

\* The block is used: closed meanwhile, blocked, or written.  SIbldpoll may
\* even have freed it ("freed").
SendWrite(s) ==
  /\ At(s, "blk")
  /\ raced' = raced \cup IF blk[my[s].b].life = "freed" THEN {"freed"} ELSE {}
  /\ Done(s)
  /\ UNCHANGED <<sock, blk, tplist, tp_map, hand, closed, cbtab, ep, gate, fd2ep, rvars, excepts>>

\* An exception on the socket: the sender itself terminates the session.
SendExcept(s) ==
  /\ At(s, "blk") /\ blk[my[s].b].fd \in FDs /\ excepts < MaxExcept
  /\ TermClose(s, my[s].b)
  /\ excepts' = excepts + 1
  /\ Goto(s, "unmap")
  /\ UNCHANGED <<raced, ep, gate, fd2ep, my, rvars>>

SendUnmap(s) ==
  /\ At(s, "unmap")
  /\ TermUnmap(s, my[s].b)
  /\ Done(s)
  /\ UNCHANGED <<raced, ep, gate, fd2ep, rvars, excepts>>

-----------------------------------------------------------------------------
(* The receiver: SIwait and mt_disc_cb                                     *)

\* Blocks of the list with something to read.
AtHand == {b \in ToSet(tplist) : blk[b].fd \in ready}

\* mt_receive registers its callbacks, and calls SIwait.
Register ==
  /\ RcvAt("start")
  /\ cbtab' = SIcbreg(SIcbreg(cbtab, "data"), "disc")
  /\ rpc' = "walk"
  /\ UNCHANGED <<sock, blk, tplist, tp_map, hand, closed, raced, epvars, rb, re,
                 polled, ready, inbound, excepts>>

\* The list has been walked: the next poll is prepared.
Build ==
  /\ RcvAt("walk") /\ AtHand = {}
  /\ Bldpoll
  /\ polled' = Polled /\ ready' = {}
  /\ rpc' = "select"
  /\ UNCHANGED <<epvars, rb, re, inbound, excepts>>

Readable == {f \in polled \ {0} : sock[f].life = "eof"}
            \cup IF inbound.pending > 0 THEN {0} ELSE {}

\* Variant: the read of a closed connection is not noticed.
WaitDeaf ==
  /\ RcvAt("select")
  /\ ready' = {f \in {0} : inbound.pending > 0}
  /\ rpc' = "walk" /\ polled' = {}
  /\ UNCHANGED <<sivars, epvars, rb, re, inbound, excepts>>

\* select: a number that was closed meanwhile is an error which ends SIwait.
Wait ==
  /\ RcvAt("select")
  /\ IF \E f \in polled \ {0} : sock[f].life = "free"
     THEN rpc' = "ended" /\ UNCHANGED ready
     ELSE rpc' = "walk" /\ ready' = Readable
  /\ polled' = {}
  /\ UNCHANGED <<sivars, epvars, rb, re, inbound, excepts>>

\* A listener: SInewsession, ...
Accept ==
  /\ RcvAt("walk") /\ 0 \in ready
  /\ NewSession(Rcv, "client")
  /\ inbound' = [inbound EXCEPT !.pending = @ - 1]
  /\ rpc' = "push" /\ ready' = ready \ {0}
  /\ UNCHANGED <<epvars, rb, re, polled, excepts>>

\* ... which fails in accept, for want of a number, or for want of a block:
\* then the session is closed, ...
AcceptFails ==
  /\ RcvAt("walk") /\ 0 \in ready
  /\ \/ UNCHANGED inbound
     \/ /\ LowestFree # {} /\ Fresh = {}
        /\ inbound' = [inbound EXCEPT !.pending = @ - 1]
  /\ ready' = ready \ {0}
  /\ UNCHANGED <<sivars, epvars, rpc, rb, re, polled, excepts>>

\* ... and puts the block on the list.
AcceptPush ==
  /\ RcvAt("push")
  /\ Push(Rcv)
  /\ rpc' = "walk"
  /\ UNCHANGED <<epvars, rb, re, polled, ready, inbound, excepts>>

\* Nothing to read: mt_disc_cb looks for the endpoint and drops the mapping.
DiscFind ==
  /\ RcvAt("walk") /\ "disc" \in cbtab
  /\ \E b \in AtHand \ {1} :
       LET f == blk[b].fd IN
       /\ rb' = b /\ re' = fd2ep[f]
       /\ fd2ep' = Fd2epDel(f)
       /\ ready' = ready \ {f}
       /\ rpc' = IF fd2ep[f] = "none" THEN "term" ELSE "disc"
       /\ raced' = raced \cup
            IF sock[f].peer \in Eps \ {fd2ep[f]} THEN {"link"} ELSE {}
  /\ UNCHANGED <<sock, blk, tplist, tp_map, hand, closed, cbtab, ep, gate, pc, my,
                 polled, inbound, excepts>>

\* Threads between the gate of uta_link2 for e and their last store.
Linking(e) ==
  {s \in Senders : my[s].e = e /\ pc[s] = "linked" /\ my[s].way # "wh"}

\* Variant: only the number is revoked.
DiscKeepsOpen ==
  /\ RcvAt("disc") /\ gate[re] = "none"
  /\ ep' = [ep EXCEPT ![re].nn_sock = -1]
  /\ rpc' = "term"
  /\ UNCHANGED <<sivars, gate, fd2ep, pc, my, rb, re, polled, ready, inbound, excepts>>

\* mt_disc_cb closes the endpoint, with its gate.
Disc ==
  /\ RcvAt("disc") /\ gate[re] = "none"
  /\ ep' = [ep EXCEPT ![re] = [open |-> FALSE, nn_sock |-> -1]]
  /\ raced' = raced \cup IF Linking(re) # {} THEN {"link"} ELSE {}
  /\ rpc' = "term"
  /\ UNCHANGED <<sock, blk, tplist, tp_map, hand, closed, cbtab, gate, fd2ep, pc, my,
                 rb, re, polled, ready, inbound, excepts>>

\* SIterm, after the callback.
Term ==
  /\ RcvAt("term")
  /\ TermClose(Rcv, rb)
  /\ rpc' = "unmap"
  /\ UNCHANGED <<raced, epvars, rb, re, polled, ready, inbound, excepts>>

Unmap ==
  /\ RcvAt("unmap")
  /\ TermUnmap(Rcv, rb)
  /\ rpc' = "walk" /\ rb' = 0 /\ re' = "none"
  /\ UNCHANGED <<raced, epvars, polled, ready, inbound, excepts>>

-----------------------------------------------------------------------------

PeerConnects ==
  /\ raced = {} /\ inbound.left > 0
  /\ inbound' = [pending |-> inbound.pending + 1, left |-> inbound.left - 1]
  /\ UNCHANGED <<sivars, epvars, rpc, rb, re, polled, ready, excepts>>

Closes == raced = {} /\ PeerCloses /\ UNCHANGED <<epvars, rvars, excepts>>

\* uta_link2 with the gate of the endpoint.
Link(s) == ConnectFails(s) \/ Connect(s) \/ ConnectPush(s) \/ Own(s)

Sender(s) ==
  \/ EpsockRr(s) \/ EpsockByname(s) \/ EpsockMeid(s) \/ RtLink2Ep(s)
  \/ Gate(s) \/ Link(s) \/ LinkLost(s)
  \/ RrLinked(s) \/ BynameLinked(s) \/ MeidLinked(s) \/ EpLinked(s)
  \/ SendLookup(s) \/ SendWrite(s) \/ SendExcept(s) \/ SendUnmap(s)

Receiver ==
  \/ Register \/ Build \/ Wait \/ Accept \/ AcceptFails \/ AcceptPush
  \/ DiscFind \/ Disc \/ Term \/ Unmap

Next ==
  \/ PeerConnects \/ Closes
  \/ Receiver
  \/ \E s \in Senders : Sender(s)

\* mt_receive runs, and a thread that holds a gate goes on until it gives it
\* up.  Nothing is assumed of the peers, or of threads that only send.
Spec == Init /\ [][Next]_vars /\ WF_vars(Receiver)
             /\ \A s \in Senders : WF_vars(Link(s))

-----------------------------------------------------------------------------
(* Properties                                                              *)

\* Somebody is linking or closing endpoint e.
Busy(e) == \/ \E s \in Senders : my[s].e = e /\ pc[s] \in
                {"conn", "push", "own", "linked"}
           \/ re = e

\* An endpoint that is open and not being linked or closed leads to its peer
\* through all the structures: the kernel's socket, the block in tp_map and
\* on the list SIwait polls, and fd2ep, without which a disconnect would leave
\* it open for ever.  Only overlaps of a disconnect with the link of the same
\* endpoint, of SIterm with the reuse of its number, of two changes of the
\* list, and a termination by a sender can break it.
OpenIsLive ==
  raced = {} /\ excepts = 0 =>
    \A e \in Eps :
      ep[e].open /\ ~Busy(e) =>
        LET f == ep[e].nn_sock IN
        /\ f \in FDs
        /\ sock[f].peer = e
        /\ fd2ep[f] = e
        /\ tp_map[f] # 0
        /\ blk[tp_map[f]].fd = f
        /\ Contains(tplist, tp_map[f])

Noticed(f) == rb # 0 /\ blk[rb].fd = f

\* uta_link2's gate and second look: however many threads find an endpoint
\* closed, one connection is made; a second appears only once mt_disc_cb has
\* seen the end of the first.
OneConnection ==
  raced = {} =>
    \A e \in Eps :
      Cardinality({f \in FDs : sock[f].peer = e /\ ~Noticed(f)}) =< 1

\* Every session is on the list that SIwait polls, no block on the list has
\* been freed, and every number in use has its block, unless two threads
\* changed the list at once.  Numbers are lost only by safe_connect, which
\* leaves one open when the target of an even, high port refuses.
AllWatched ==
  raced = {} =>
    /\ \A b \in Blocks :
         /\ blk[b].life = "live" => Contains(tplist, b)
         /\ blk[b].life = "freed" => ~Contains(tplist, b)
    /\ \A f \in FDs :
         sock[f].life \in {"up", "eof"} =>
           \E b \in Blocks : blk[b].life \in {"made", "live"} /\ blk[b].fd = f
    /\ (\E f \in FDs : sock[f] = Left) => \E e \in Eps : NeedSmartc(Target[e])

\* A connection whose peer is gone is noticed and closed, so that the next
\* message makes a new one: mt_receive is never stuck behind a gate.  (SIwait
\* itself ends when a sender closes a number that is being polled.)
DisconnectSeen ==
  \A f \in FDs :
    sock[f].life = "eof" ~> sock[f].life # "eof" \/ raced # {} \/ rpc = "ended"
=============================================================================
