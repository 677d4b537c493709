----------------------------- MODULE FlashStore -----------------------------
(***************************************************************************)
(* What the persistent storage promises its clients (pstorage.h): commands *)
(* take effect one after the other in the order they were queued, a client *)
(* is told of each when all of it is done, and a command changes the words *)
(* it is given and no others, although flash is erased by the page.        *)
(***************************************************************************)
EXTENDS Integers, Sequences

CONSTANTS Capacity,     \* commands the queue can hold
          Addresses,    \* the words of the store
          Requests,     \* [op, at, size, offset] clients may ask for
          Blank, Junk   \* an erased word, and one written over another

VARIABLES store,        \* the words, as the last command left them
          queue,        \* commands not yet done
          told,         \* [id, result] of all notifications so far
          stalled       \* a command failed for good

vars == <<store, queue, told, stalled>>

(* Word k of the data that comes with command id; that of 0 is there first.*)
Datum(id, k) == (id * 64) + k

(* A bit of flash can be cleared only.                                     *)
Over(old, new) ==
    IF new = Blank THEN old ELSE IF old \in {Blank, new} THEN new ELSE Junk

First(c) == c.at + c.offset
Area(c) == First(c) .. First(c) + c.size - 1

Effect(c) ==
    [a \in Addresses |->
        IF a \notin Area(c) THEN store[a]
        ELSE CASE c.op = "clear"  -> Blank
               [] c.op = "update" -> Datum(c.id, a - First(c))
               [] c.op = "store"  -> Over(store[a], Datum(c.id, a - First(c)))]

Init ==
    /\ store = [a \in Addresses |-> Datum(0, a)]
    /\ queue = <<>> /\ told = <<>> /\ stalled = FALSE

(* The queue grows at its end, by what there is room for.                  *)
Grows(from, to) ==
    /\ Len(to) \in Len(from) .. Capacity
    /\ SubSeq(to, 1, Len(from)) = from
    /\ \A k \in Len(from) + 1 .. Len(to) :
           \E r \in Requests : \A f \in DOMAIN r : to[k][f] = r[f]

(* The flash may refuse to begin, which is the end of all progress.        *)
Begins(before) ==
    \/ told' = before /\ stalled' = stalled
    \/ /\ queue' # <<>> /\ stalled' = TRUE
       /\ told' = Append(before, [id |-> queue'[1].id, result |-> "error"])

Enqueue ==
    /\ Grows(queue, queue') /\ store' = store
    /\ IF stalled THEN UNCHANGED <<told, stalled>> ELSE Begins(told)

Complete ==
    /\ ~stalled /\ queue # <<>>
    /\ store' = Effect(queue[1])
    /\ Grows(Tail(queue), queue')
    /\ Begins(Append(told, [id |-> queue[1].id, result |-> "success"]))

Fail ==
    /\ ~stalled /\ queue # <<>>
    /\ stalled' = TRUE
    /\ told' = Append(told, [id |-> queue[1].id, result |-> "error"])
    /\ Grows(queue, queue') /\ store' = store

Next == Enqueue \/ Complete \/ Fail

Spec == Init /\ [][Next]_vars
=============================================================================
