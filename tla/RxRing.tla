------------------------------- MODULE RxRing -------------------------------
(***************************************************************************)
(* The ring of receive buffers of components/libraries/hci/hci_mem_pool.c  *)
(* as functions of its state q.  Three areas follow one another: buffers   *)
(* produced and not yet extracted ("read available"), those extracted and  *)
(* not yet free again ("free available"), and the free window.  free_index *)
(* has a bit for every buffer in use.                                      *)
(***************************************************************************)
EXTENDS Integers

CONSTANT RX_BUF_QUEUE_SIZE   \* buffers in the ring, a power of two

ASSUME RingAssumption == RX_BUF_QUEUE_SIZE \in {2, 4, 8, 16, 32}

Buffers == 0 .. RX_BUF_QUEUE_SIZE - 1
Slot(index) == index % RX_BUF_QUEUE_SIZE   \* "& (RX_BUF_QUEUE_SIZE - 1)"

(* hci_mem_pool_open()                                                     *)
EmptyRing == [free_window_count    |-> RX_BUF_QUEUE_SIZE,
              free_available_count |-> 0,
              read_available_count |-> 0,
              write_index |-> 0, read_index |-> 0, free_index |-> {}]

(* The client's buffer is the one at write_index.                          *)
Produced(q) ==
    [q EXCEPT !.free_window_count = @ - 1,
              !.read_available_count = @ + 1,
              !.free_index = @ \cup {q.write_index},
              !.write_index = Slot(@ + 1)]

(* The client's buffer is the one at read_index.                           *)
Extracted(q) ==
    [q EXCEPT !.read_available_count = @ - 1,
              !.free_available_count = @ + 1,
              !.read_index = Slot(@ + 1)]

(* Mutant: the oldest buffer goes back to the window, used or not.         *)
Reclaimed_Always(q, start, after) ==
    [q EXCEPT !.free_available_count = @ - 1, !.free_window_count = @ + 1]

(* The second loop of consume: from the oldest buffer on, those no longer  *)
(* in use go back to the window.  start_index leaves the oldest buffer     *)
(* once, for the buffer after the consumed one, and then stays there.      *)
Reclaimed(q, start, after) ==
    LET n == IF start \in q.free_index THEN 0
             ELSE IF after \in q.free_index THEN 1
             ELSE q.free_available_count
    IN  [q EXCEPT !.free_available_count = @ - n, !.free_window_count = @ + n]

OldestInUse(q) == Slot(q.read_index - q.free_available_count + RX_BUF_QUEUE_SIZE)

(* The first loop looks for the buffer among the extracted ones.           *)
IsExtracted(q, b) ==
    \E i \in 0 .. q.free_available_count - 1 : b = Slot(OldestInUse(q) + i)

Toggled(bits, b) == IF b \in bits THEN bits \ {b} ELSE bits \cup {b}

Consumed(q, b) ==
    Reclaimed([q EXCEPT !.free_index = Toggled(@, b)],
              OldestInUse(q), Slot(b + 1))

WindowOpen(q) == q.free_window_count # 0

(* Types: the three areas make up the ring.                                *)
IsRing(q) ==
    /\ q \in [free_window_count : 0 .. RX_BUF_QUEUE_SIZE,
              free_available_count : 0 .. RX_BUF_QUEUE_SIZE,
              read_available_count : 0 .. RX_BUF_QUEUE_SIZE,
              write_index : Buffers, read_index : Buffers, free_index : SUBSET Buffers]
    /\ q.free_window_count + q.free_available_count + q.read_available_count
          = RX_BUF_QUEUE_SIZE
=============================================================================
