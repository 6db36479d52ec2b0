\* Two threads, two endpoints, two connections and the listener, two numbers.
SPECIFICATION Spec
CONSTANTS
  FDs <- MCFDs
  Blocks <- MCBlocks
  Actors <- MCActors
  Target <- MCTarget
  Eps = {"e1", "e2"}
  Senders = {"s1", "s2"}
  Rcv = "rcv"
  Uses <- MCUses
  MaxIn = 1
  MaxExcept = 1
CHECK_DEADLOCK FALSE
INVARIANTS OpenIsLive OneConnection 
PROPERTY DisconnectSeen
