----------------------------- MODULE FlashQueue -----------------------------
(***************************************************************************)
(* What a queue of flash commands promises ("a simple first in first out   *)
(* algorithm", pstorage_raw.c): commands are executed one round after the  *)
(* other, in the order they were queued, and the client is told of each    *)
(* one when its last round is done.                                        *)
(***************************************************************************)
EXTENDS Integers, Sequences

CONSTANTS Capacity,   \* commands the queue can hold
          Ids,        \* names of commands
          MaxSize     \* the most rounds a command takes

VARIABLES queue,      \* [id, left]: the commands, with the rounds left to do
          executed,   \* [id, round] of the round executed last
          notified    \* [id, result] of all notifications so far

vars == <<queue, executed, notified>>

Commands == [id : Ids, left : 1 .. MaxSize]

Init == queue = <<>> /\ executed \in [id : Ids, round : {0}] /\ notified = <<>>

(* The queue grows at its end, by what there is room for.                  *)
Grows(from, to) ==
    /\ Len(to) \in Len(from) .. Capacity
    /\ SubSeq(to, 1, Len(from)) = from
    /\ \A k \in DOMAIN to : to[k] \in Commands

(* The client may be told that the command at the head cannot go on now.   *)
Told(before, head) ==
    \/ notified' = before
    \/ /\ head # <<>>
       /\ notified' = Append(before, [id |-> head[1].id, result |-> "error"])

Enqueue == Grows(queue, queue') /\ UNCHANGED <<executed, notified>>

(* The rounds of a command are executed in order, none twice.              *)
NextRound(id) ==
    [id |-> id, round |-> IF executed.id = id THEN executed.round + 1 ELSE 0]

Round ==
    /\ queue # <<>> /\ queue[1].left > 1
    /\ executed' = NextRound(queue[1].id)
    /\ queue' = [queue EXCEPT ![1].left = @ - 1]
    /\ Told(notified, queue')

(* The last round: the client is told, and may queue more at once.         *)
LastRound ==
    /\ queue # <<>> /\ queue[1].left = 1
    /\ executed' = NextRound(queue[1].id)
    /\ Grows(Tail(queue), queue')
    /\ Told(Append(notified, [id |-> queue[1].id, result |-> "done"]), queue')

(* A round may fail; the command stays where it is.                        *)
Fail ==
    /\ queue # <<>>
    /\ notified' = Append(notified, [id |-> queue[1].id, result |-> "error"])
    /\ UNCHANGED <<queue, executed>>

Next == Enqueue \/ Round \/ LastRound \/ Fail

Spec == Init /\ [][Next]_vars
=============================================================================
