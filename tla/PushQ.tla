------------------------------- MODULE PushQ -------------------------------
(***************************************************************************)
(* The outbound queue behind every front-end's push path (lib/pushq): a    *)
(* ring that doubles when it is full, a byte ceiling that latches, and a   *)
(* one-slot wake signal for its single consumer.  Every operation runs     *)
(* under Q.mu, so each is one function of the queue's value.  (Enqueue and *)
(* Close signal after they unlock; a consumer that saw the item already    *)
(* finds one signal too many and looks again.)                             *)
(***************************************************************************)
EXTENDS Naturals, Sequences

CONSTANTS
  Cap,        \* the byte ceiling
  InitItems,  \* first capacity of the ring
  NoItem      \* a slot that holds nothing

ASSUME PushQAssumption == Cap \in Nat /\ InitItems \in Nat \ {0}

NewQ ==
  [items |-> <<>>, head |-> 0, count |-> 0, bytes |-> 0,
   closed |-> FALSE, overflow |-> FALSE, notify |-> FALSE]

\* Slot of the i-th queued item, from 0: the index wraps once.
Slot(q, i) ==
  LET idx == q.head + i
  IN (IF idx >= Len(q.items) THEN idx - Len(q.items) ELSE idx) + 1

\* The queued items, oldest first.
Contents(q) == [i \in 1..q.count |-> q.items[Slot(q, i - 1)].item]

\* growLocked without moving the oldest item to the front (a mutant).
GrowInPlace(q) ==
  LET n == IF 2 * Len(q.items) < InitItems THEN InitItems ELSE 2 * Len(q.items)
  IN [q EXCEPT !.items = [i \in 1..n |-> IF i <= Len(q.items) THEN q.items[i]
                                         ELSE [item |-> NoItem, size |-> 0]]]

\* growLocked: twice the slots, the items from slot 0 on.
Grow(q) ==
  LET n == IF 2 * Len(q.items) < InitItems THEN InitItems ELSE 2 * Len(q.items)
  IN [q EXCEPT !.head = 0,
               !.items = [i \in 1..n |-> IF i <= q.count THEN q.items[Slot(q, i - 1)]
                                         ELSE [item |-> NoItem, size |-> 0]]]

Refused(q) == q.closed \/ q.overflow

\* Mutant: the ceiling is tested before the item's cost is added.
FitsBefore(q, nbytes) == q.bytes < Cap \/ nbytes = 0

Fits(q, nbytes) == q.bytes + nbytes <= Cap

\* Enqueue returned true.
Accepts(q, nbytes) == ~Refused(q) /\ Fits(q, nbytes)

\* Mutant: the consumer is woken for the first item only.
EnqueueQuiet(q, item, nbytes) ==
  LET g == IF q.count = Len(q.items) THEN Grow(q) ELSE q
  IN IF Refused(q) THEN q
     ELSE IF ~Fits(q, nbytes) THEN [q EXCEPT !.overflow = TRUE]
     ELSE [g EXCEPT !.items[Slot(g, g.count)] = [item |-> item, size |-> nbytes],
                    !.count = @ + 1, !.bytes = @ + nbytes,
                    !.notify = @ \/ q.items = <<>>]

\* The queue after Enqueue.
Enqueue(q, item, nbytes) ==
  LET g == IF q.count = Len(q.items) THEN Grow(q) ELSE q
  IN IF Refused(q) THEN q
     ELSE IF ~Fits(q, nbytes) THEN [q EXCEPT !.overflow = TRUE]
     ELSE [g EXCEPT !.items[Slot(g, g.count)] = [item |-> item, size |-> nbytes],
                    !.count = @ + 1, !.bytes = @ + nbytes, !.notify = TRUE]

Oldest(q) == q.items[Slot(q, 0)].item

\* popLocked.
Pop(q) ==
  [q EXCEPT !.items[Slot(q, 0)] = [item |-> NoItem, size |-> 0],
            !.head = IF @ + 1 = Len(q.items) THEN 0 ELSE @ + 1,
            !.count = @ - 1,
            !.bytes = @ - q.items[Slot(q, 0)].size]

CloseQ(q) == IF q.closed THEN q ELSE [q EXCEPT !.closed = TRUE, !.notify = TRUE]

-----------------------------------------------------------------------------
\* The sizes of the n oldest items, added up.
SizeOf(q, n) ==
  LET sum[i \in 0..q.count] == IF i = 0 THEN 0 ELSE sum[i - 1] + q.items[Slot(q, i - 1)].size
  IN sum[n]

\* QueueShape: the ring never holds more than its slots or its ceiling, the
\* byte count is the sum over the queued items, and free slots hold nothing.
QueueShape(q) ==
  /\ q.count <= Len(q.items) /\ q.bytes <= Cap
  /\ q.bytes = SizeOf(q, q.count)
  /\ q.head = 0 \/ q.head < Len(q.items)
  /\ \A i \in 1..Len(q.items) :
       (q.items[i].item # NoItem) <=> \E k \in 0..(q.count - 1) : Slot(q, k) = i
=============================================================================
