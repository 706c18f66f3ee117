-------------------------------- MODULE CircBuf --------------------------------
(***************************************************************************)
(* The circular buffer of todo/circ_buf.h, between a producer and a        *)
(* consumer that run at the same time.  The header has the arithmetic on   *)
(* the two indices; who stores to head and tail, and when, is up to its    *)
(* users, modelled here from what the macros are for: the producer alone   *)
(* stores to head, the consumer alone to tail, and each reads the index of *)
(* the other, "so they can change underneath us".                          *)
(*                                                                         *)
(* One read of a shared index, one slot copied, and one store to an index  *)
(* are a step each, in the order of the program (the memory barriers that  *)
(* it takes are the users').                                               *)
(*                                                                         *)
(* No name is one of Xxhash, beside which TodoProofs extends this module.  *)
(***************************************************************************)
EXTENDS Integers, Sequences, FiniteSets

CONSTANTS
  size,   \* the number of slots
  Items   \* what a slot holds

\* CIRC_BUF takes the number of bits of an index.
ASSUME CircBufAssumption == /\ size \in Nat /\ size > 1
                            /\ \E bits \in 1..size : size = 2^bits

VARIABLES
  buf, head, tail,  \* struct circ_buf
  producer,         \* between its look at tail and its store to head: how many
                    \* slots it may use and has used; and which macro it counts with
  consumer,         \* the same, with head and tail exchanged
  got               \* the items the consumer copied since it last looked

bufVars == <<buf, head, tail, producer, consumer, got>>

Slots == 0..size-1

-----------------------------------------------------------------------------
\* & (size - 1) is the remainder, also of a negative number.
CIRC_CNT(h, t) == (h - t) % size

\* A mistake: all slots may be used, and full looks like empty.
CIRC_SPACE_all(h, t) == IF h = t THEN size ELSE CIRC_CNT(t, h)

\* We always leave one free.
CIRC_SPACE(h, t) == CIRC_CNT(t, h + 1)

\* A mistake: the last slot is not to be read.
CIRC_CNT_TO_END_short(h, t) ==
  LET end == size - 1 - t
      n   == CIRC_CNT(h, t)
  IN  IF n < end THEN n ELSE end

CIRC_CNT_TO_END(h, t) ==
  LET end == size - t
      n   == (h + end) % size
  IN  IF n < end THEN n ELSE end

\* A mistake: with room for exactly the slots up to the last, that one counts too.
CIRC_SPACE_TO_END_one_more(h, t) ==
  LET end == size - 1 - h
      n   == (end + t) % size
  IN  IF n < end THEN n ELSE end + 1

CIRC_SPACE_TO_END(h, t) ==
  LET end == size - 1 - h
      n   == (end + t) % size
  IN  IF n <= end THEN n ELSE end + 1

-----------------------------------------------------------------------------
Idle(wrap) == [busy |-> FALSE, room |-> 0, done |-> 0, wrap |-> wrap]

BufInit ==
  /\ buf \in [Slots -> Items] /\ head = 0 /\ tail = 0
  /\ producer \in {Idle(wrap) : wrap \in BOOLEAN}
  /\ consumer \in {Idle(wrap) : wrap \in BOOLEAN}
  /\ got = <<>>

\* The slot that comes i after index: memcpy() goes straight on, a loop over all
\* the room masks each index.
SlotAt(index, i, wrap) == IF wrap THEN (index + i) % size ELSE index + i

\* The producer reads tail once, and counts the room there is.
ProducerLooks ==
  LET room == IF producer.wrap THEN CIRC_SPACE(head, tail) ELSE CIRC_SPACE_TO_END(head, tail)
  IN  /\ ~producer.busy /\ room >= 1
      /\ producer' = [producer EXCEPT !.busy = TRUE, !.room = room]
      /\ UNCHANGED <<buf, head, tail, consumer, got>>

ProducerCopies(item) ==
  /\ producer.done < producer.room
  /\ buf' = [buf EXCEPT ![SlotAt(head, producer.done, producer.wrap)] = item]
  /\ producer' = [producer EXCEPT !.done = @ + 1]
  /\ UNCHANGED <<head, tail, consumer, got>>

\* It may have had less to write than there was room.
ProducerStores ==
  /\ producer.done >= 1
  /\ head' = (head + producer.done) % size
  /\ producer' = Idle(producer.wrap)
  /\ UNCHANGED <<buf, tail, consumer, got>>

\* The consumer reads head once, and counts what there is.
ConsumerLooks ==
  LET room == IF consumer.wrap THEN CIRC_CNT(head, tail) ELSE CIRC_CNT_TO_END(head, tail)
  IN  /\ ~consumer.busy /\ room >= 1
      /\ consumer' = [consumer EXCEPT !.busy = TRUE, !.room = room]
      /\ got' = <<>>
      /\ UNCHANGED <<buf, head, tail, producer>>

ConsumerCopies ==
  /\ consumer.done < consumer.room
  /\ got' = Append(got, buf[SlotAt(tail, consumer.done, consumer.wrap)])
  /\ consumer' = [consumer EXCEPT !.done = @ + 1]
  /\ UNCHANGED <<buf, head, tail, producer>>

ConsumerStores ==
  /\ consumer.done >= 1
  /\ tail' = (tail + consumer.done) % size
  /\ consumer' = Idle(consumer.wrap)
  /\ UNCHANGED <<buf, head, producer, got>>

Producer ==
  \/ ProducerLooks
  \/ \E item \in Items : ProducerCopies(item)
  \/ ProducerStores

Consumer == ConsumerLooks \/ ConsumerCopies \/ ConsumerStores

BufNext == Producer \/ Consumer

BufSpec == BufInit /\ [][BufNext]_bufVars

\* The consumer polls, and has an end to what it copies.
BufFairSpec == BufSpec /\ WF_bufVars(Consumer)

-----------------------------------------------------------------------------
\* The slots a side has yet to copy or has copied since it looked.
Claimed(index, side) == {SlotAt(index, i, side.wrap) : i \in 0..side.room-1}

(***************************************************************************)
(* What a side counted may be out of date by the time it copies: the other *)
(* side has moved on.  Still no slot is the producer's and the consumer's  *)
(* at once, the producer's are free and the consumer's are full, whatever  *)
(* the indices are now, and a copy that goes straight on stays inside the  *)
(* buffer.                                                                 *)
(***************************************************************************)
ClaimsAreApart ==
  LET p    == Claimed(head, producer)
      c    == Claimed(tail, consumer)
      full == {(tail + i) % size : i \in 0..CIRC_CNT(head, tail)-1}
  IN  /\ p \subseteq Slots \ full /\ c \subseteq full
      /\ Cardinality(p) = producer.room /\ Cardinality(c) = consumer.room

(***************************************************************************)
(* The buffer is a queue (Fifo) of size - 1 items, in spite of the steps   *)
(* of the two sides that come between a look and the store that follows:   *)
(* nothing is lost, overwritten, read twice or before it is written.       *)
(***************************************************************************)
Promise == INSTANCE Fifo WITH
  Capacity <- size - 1,
  queue    <- [i \in 1..CIRC_CNT(head, tail) |-> buf[(tail + i - 1) % size]],
  taken    <- IF consumer.busy THEN <<>> ELSE got

KeepsThePromise == Promise!Spec

(***************************************************************************)
(* A consumer that polls gets on as long as there is anything: at every    *)
(* index, the end of the buffer included, what it counts is not 0.         *)
(***************************************************************************)
NothingIsStuck == \A t \in Slots : tail = t /\ head # t ~> tail # t
=============================================================================
