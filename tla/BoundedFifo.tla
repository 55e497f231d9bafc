------------------------------ MODULE BoundedFifo ------------------------------
(***************************************************************************)
(* What the message queues of lab5 and lab7/part_1 promise to their        *)
(* producers and consumers: a channel that delivers every message at most  *)
(* once, in the order the messages were put, and never holds more than     *)
(* Capacity of them.  The only loss it allows is a message still (or       *)
(* already) in the hands of a thread that is deleted.                      *)
(***************************************************************************)
EXTENDS Naturals, Sequences

CONSTANTS
  Producers,  \* threads that put messages
  Consumers,  \* threads that get messages
  Message,    \* the messages createMessage can build
  NoMessage,  \* "the thread holds no message"
  Capacity    \* most messages the channel may hold

VARIABLES
  channel,    \* the messages put and not yet got, oldest first
  held        \* held[t]: the message thread t has made and not put, or got and not used

fifoVars == <<channel, held>>

FifoInit ==
  /\ channel = <<>>
  /\ held = [t \in Producers \cup Consumers |-> NoMessage]

Make(p) ==
  /\ held[p] = NoMessage
  /\ \E m \in Message : held' = [held EXCEPT ![p] = m]
  /\ UNCHANGED channel

Put(p) ==
  /\ held[p] # NoMessage
  /\ Len(channel) < Capacity
  /\ channel' = Append(channel, held[p])
  /\ held' = [held EXCEPT ![p] = NoMessage]

Get(c) ==
  /\ held[c] = NoMessage
  /\ channel # <<>>
  /\ held' = [held EXCEPT ![c] = Head(channel)]
  /\ channel' = Tail(channel)

Discard(t) ==
  /\ held' = [held EXCEPT ![t] = NoMessage]
  /\ UNCHANGED channel

FifoNext ==
  \/ \E p \in Producers : Make(p) \/ Put(p)
  \/ \E c \in Consumers : Get(c)
  \/ \E t \in Producers \cup Consumers : Discard(t)

FifoSpec == FifoInit /\ [][FifoNext]_fifoVars
================================================================================
