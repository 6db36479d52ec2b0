-------------------------------- MODULE Si95 --------------------------------
(***************************************************************************)
(* The transport blocks of SI95 (si/src/si95): one tp_blk for every socket *)
(* on a list that starts at gptr->tplist, and tp_map from descriptor       *)
(* numbers to blocks.  Application threads connect and send; the thread in *)
(* SIwait accepts, notices disconnects, and is the only one to take blocks *)
(* off the list.  None of this is locked.                                  *)
(*                                                                         *)
(* The kernel is modelled by sock: a number is free, or belongs to a       *)
(* connection with a peer.  The lowest free number is given out, so one is  *)
(* reused as soon as it is closed.                                         *)
(* A block that is neither on the list nor in a thread's hands is lost to  *)
(* SIwait.                                                                 *)
(***************************************************************************)
EXTENDS Integers, Sequences, FiniteSets, SequencesExt

CONSTANTS
  FDs,           \* descriptor numbers the kernel can give (the listener's is 0)
  Blocks,        \* bound: transport blocks allocated, 1 .. n; 1 is the listener
  Actors,        \* threads: the senders and the receiver
  Target         \* per peer: form of its address "name", "v6" or "open" (a [ and
                 \* no ]), and the number after the first colon

VARIABLES
  sock,          \* per number: its peer ("none" if free) and "up", "eof", or
                 \* "left" (neither closed nor known to anybody)
  blk,           \* per block: fd, and life "none", "made", "live" or "freed"
  tplist,        \* blocks on gptr->tplist, head first
  tp_map,        \* per number: block or 0
  hand,          \* per thread: the block it sets up and the head it saw
  closed,        \* per thread: number it has closed and not yet unmapped, or -1
  cbtab,         \* callbacks registered
  raced          \* history: overlaps of two threads that have happened

sivars == <<sock, blk, tplist, tp_map, hand, closed, cbtab, raced>>

Free == [peer |-> "none", life |-> "free"]
Left == [peer |-> "none", life |-> "left"]
Up(p) == [peer |-> p, life |-> "up"]
Empty == [b |-> 0, next |-> 0]

\* SInew, for a transport block and for the context.
TpBlk == [fd |-> -1, del |-> FALSE, life |-> "none"]
GiBlk == [tplist |-> <<>>, cbtab |-> {}]

\* SIlistener: the block of the port goes on the list, but not in the map.
Listener(l, b) == <<b>> \o l

\* SIinitialise and SIlistener.
SiInit ==
  /\ sock = [f \in FDs |-> Free]
  /\ blk = [[b \in Blocks |-> TpBlk] EXCEPT ![1].fd = 0, ![1].life = "live"]
  /\ tplist = Listener(GiBlk.tplist, 1)
  /\ tp_map = [f \in FDs |-> 0]
  /\ hand = [a \in Actors |-> Empty]
  /\ closed = [a \in Actors |-> -1]
  /\ cbtab = GiBlk.cbtab
  /\ raced = {}

Fresh == {b \in Blocks : blk[b].life = "none"}
LowestFree == {f \in FDs : sock[f].life = "free" /\ \A g \in FDs : g < f => sock[g].life # "free"}

\* A connection to peer p, with a new block which points at the present head.
NewSession(a, p) ==
  /\ Fresh # {}
  /\ LET b == CHOOSE x \in Fresh : \A y \in Fresh : x =< y IN
     \E f \in LowestFree :
       /\ sock' = [sock EXCEPT ![f] = Up(p)]
       /\ blk' = [blk EXCEPT ![b] = [TpBlk EXCEPT !.fd = f, !.life = "made"]]
       /\ hand' = [hand EXCEPT ![a] = [b |-> b, next |-> Head(tplist)]]
  /\ UNCHANGED <<tplist, tp_map, closed, cbtab, raced>>

\* SIgenaddr: what can be given to the resolver, which may not know it.
Genaddr(t) == t.form # "open"

\* need_smartc: targets that linux may connect to this very process.  In a v6
\* address the first colon is not the one before the port.
NeedSmartc(t) == t.first >= 32767 /\ t.first % 2 = 0

\* SIconn_prep: a number for the target, none if its address is no good.
ConnPrep(t) == IF Genaddr(t) THEN LowestFree ELSE {}

\* safe_connect: a connection to ourselves is aborted, which closes the
\* number; but after any other failure it stays as it is.
SafeConnect(p) == {Up(p), Free, Left}

\* SIconnect: the connection is made, or the number closed.
Dial(p) == IF NeedSmartc(Target[p]) THEN SafeConnect(p) ELSE {Up(p), Free}

\* SIconnect makes a session ...
SIconnect(a, p) ==
  /\ ConnPrep(Target[p]) # {} /\ Up(p) \in Dial(p)
  /\ NewSession(a, p)

\* ... or fails: SItrash does not close a number that is no longer in the block.
SIconnectFails(p) ==
  /\ sock' \in {sock} \cup {[sock EXCEPT ![f] = r] : f \in ConnPrep(Target[p]), r \in Dial(p) \ {Up(p)}}
  /\ UNCHANGED <<blk, tplist, tp_map, hand, closed, cbtab, raced>>

SIcbreg(tab, type) == tab \cup {type}

\* What hangs on block b of the list; a block taken off it leads nowhere.
From(b) ==
  LET i == SelectInSeq(tplist, LAMBDA x : x = b) IN
  IF i = 0 THEN <<b>> ELSE SubSeq(tplist, i, Len(tplist))

\* Variant: the block is mapped and left off the list.
PushUnlisted(a) ==
  /\ hand[a].b # 0
  /\ tp_map' = [tp_map EXCEPT ![blk[hand[a].b].fd] = hand[a].b]
  /\ blk' = [blk EXCEPT ![hand[a].b].life = "live"]
  /\ hand' = [hand EXCEPT ![a] = Empty]
  /\ UNCHANGED <<sock, tplist, closed, cbtab, raced>>

SImapFd(f, b) == [tp_map EXCEPT ![f] = b]

\* The block becomes the head of the list, and its number is mapped.  A push
\* or a removal by another thread since the head was read is undone ("list");
\* a number whose last owner is still to be unmapped loses its mapping then
\* ("number").
Push(a) ==
  LET b == hand[a].b
      f == blk[b].fd IN
  /\ b # 0
  /\ tplist' = <<b>> \o From(hand[a].next)
  /\ tp_map' = SImapFd(f, b)
  /\ blk' = [blk EXCEPT ![b].life = "live"]
  /\ hand' = [hand EXCEPT ![a] = Empty]
  /\ raced' = raced
       \cup (IF Head(tplist) # hand[a].next THEN {"list"} ELSE {})
       \cup (IF \E o \in Actors : closed[o] = f THEN {"number"} ELSE {})
  /\ UNCHANGED <<sock, closed, cbtab>>

\* SIterm, first half: the number goes back to the kernel.
TermClose(a, b) ==
  /\ sock' = IF blk[b].fd \in FDs THEN [sock EXCEPT ![blk[b].fd] = Free] ELSE sock
  /\ closed' = [closed EXCEPT ![a] = blk[b].fd]
  /\ UNCHANGED <<blk, tplist, tp_map, hand, cbtab>>

\* SIterm, second half: the mapping goes, and the block is marked.
TermUnmap(a, b) ==
  /\ tp_map' = IF closed[a] \in FDs THEN [tp_map EXCEPT ![closed[a]] = 0]
                                    ELSE tp_map
  /\ blk' = [blk EXCEPT ![b].fd = -1, ![b].del = TRUE]
  /\ closed' = [closed EXCEPT ![a] = -1]
  /\ UNCHANGED <<sock, tplist, hand, cbtab>>

\* SIrm_tpb: blocks leave the list and are freed.
RmTpb(dead) ==
  /\ tplist' = SelectSeq(tplist, LAMBDA b : b \notin dead)
  /\ blk' = [b \in Blocks |-> IF b \in dead THEN [blk[b] EXCEPT !.life = "freed"] ELSE blk[b]]

\* SIbldpoll: marked blocks are removed; the numbers of the others are polled.
Bldpoll ==
  /\ RmTpb({b \in ToSet(tplist) : blk[b].del})
  /\ UNCHANGED <<sock, tp_map, hand, closed, cbtab, raced>>

Polled == {blk[b].fd : b \in {x \in ToSet(tplist) : ~blk[x].del}}

-----------------------------------------------------------------------------
(* The environment                                                         *)

PeerCloses ==
  \E f \in FDs :
    /\ sock[f].life = "up"
    /\ sock' = [sock EXCEPT ![f].life = "eof"]
    /\ UNCHANGED <<blk, tplist, tp_map, hand, closed, cbtab, raced>>
=============================================================================
