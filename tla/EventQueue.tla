----------------------------- MODULE EventQueue -----------------------------
(***************************************************************************)
(* What app_scheduler.h promises: app_sched_event_put() "puts an event     *)
(* into the event queue" of at most queue_size entries and                 *)
(* app_sched_execute() runs the events one by one, in the order they were  *)
(* put, each with the handler and the data it was put with.                *)
(* AppScheduler refines this specification.                                *)
(***************************************************************************)
EXTENDS Naturals, Sequences

CONSTANTS Events,      \* the events a client can put
          Capacity     \* queue_size of app_sched_init(), at least 1

VARIABLES queue,       \* the events waiting, oldest first
          active       \* the events whose handlers run, innermost last

vars == <<queue, active>>

Init == queue = <<>> /\ active = <<>>

Put(e) ==
    /\ Len(queue) < Capacity
    /\ queue' = Append(queue, e)
    /\ UNCHANGED active

(* The oldest event leaves the queue and its handler is called with it.    *)
Take ==
    /\ queue # <<>>
    /\ active' = Append(active, Head(queue))
    /\ queue' = Tail(queue)

Return ==
    /\ active # <<>>
    /\ active' = SubSeq(active, 1, Len(active) - 1)
    /\ UNCHANGED queue

Next == Take \/ Return \/ \E e \in Events : Put(e)

Spec == Init /\ [][Next]_vars
=============================================================================
