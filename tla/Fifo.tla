-------------------------------- MODULE Fifo --------------------------------
(***************************************************************************)
(* What a ring (ring_static.c) promises its callers: a bounded FIFO of     *)
(* pointers.  An accepted insert appends at once; an extract removes the   *)
(* head at once and keeps it for the calling thread until it returns.      *)
(* Ring.tla is shown to implement this specification.                      *)
(***************************************************************************)
EXTENDS Naturals, Sequences

CONSTANTS
  Consumers,  \* threads which extract
  Msg,        \* pointers which may be queued
  NIL,        \* the nil pointer
  Capacity    \* pointers the ring can hold

VARIABLES
  queue,      \* the queued pointers, oldest first
  taken       \* per consumer: pointer removed by the extract in progress

fifoVars == <<queue, taken>>

FifoInit ==
  /\ queue = <<>>
  /\ taken = [c \in Consumers |-> NIL]

FifoInsert(m) ==
  /\ Len(queue) < Capacity
  /\ queue' = Append(queue, m)
  /\ UNCHANGED taken

FifoExtract(c) ==
  /\ queue # <<>>
  /\ taken[c] = NIL
  /\ taken' = [taken EXCEPT ![c] = Head(queue)]
  /\ queue' = Tail(queue)

FifoReturn(c) ==
  /\ taken[c] # NIL
  /\ taken' = [taken EXCEPT ![c] = NIL]
  /\ UNCHANGED queue

FifoNext ==
  \/ \E m \in Msg : FifoInsert(m)
  \/ \E c \in Consumers : FifoExtract(c) \/ FifoReturn(c)

FifoSpec == FifoInit /\ [][FifoNext]_fifoVars
=============================================================================
