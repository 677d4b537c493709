------------------------------ MODULE AppTimer ------------------------------
(***************************************************************************)
(* The timers that everything in the application and in the bootloader is  *)
(* clocked by (app_timer.c): a list of running timers, each with the ticks *)
(* from the one before it, and one compare register of a counter (RTC1)    *)
(* that wraps around and is stopped when no timer runs.  Clients queue     *)
(* operations, from the thread and from interrupts of APP_LOW priority;    *)
(* the handler of SWI0 carries them out, and that of RTC1 calls the        *)
(* handlers of the timers that have expired.                               *)
(*                                                                         *)
(* Ticks pass between the steps, some even between two instructions of a   *)
(* handler, for the SoftDevice interrupts them.  There is no clock: `left` *)
(* is what each timer still has to wait, in truth, and goes down with      *)
(* every tick.                                                             *)
(***************************************************************************)
EXTENDS Integers, Sequences, SequencesExt, FiniteSetsExt

CONSTANTS
    Timers,
    Period,               \* of each timer that is repeated, 0 for the others
    Timeouts,             \* ticks that a client may ask for
    MAX_RTC_COUNTER_VAL,
    OpQueueSize,          \* operations that a client may have queued
    Everlasting,          \* timers that are started first and never stopped
    ThreadStarts,         \* timers that the thread starts and stops, too
    Handlers,             \* operations that a handler may queue, in one go
    MaxLatency            \* bound: ticks that pass before work is done

RTC_COMPARE_OFFSET_MIN == 3

AppTimerAssumption ==
    /\ Period \in [Timers -> Nat] /\ Everlasting \subseteq Timers
    /\ Timeouts \subseteq Nat /\ MAX_RTC_COUNTER_VAL \in Nat
    /\ OpQueueSize \in Nat \ {0} /\ MaxLatency \in Nat
    /\ ThreadStarts \subseteq Timers \ Everlasting
    /\ \A t \in Everlasting : Period[t] # 0
    \* The first wait is less than half the way around the counter: every
    \* one is, or there are timers that always run.
    /\ \A n \in {Period[t] : t \in Timers} \cup (IF Everlasting = {} THEN Timeouts ELSE {}) :
           n + 3 * MaxLatency + RTC_COMPARE_OFFSET_MIN < MAX_RTC_COUNTER_VAL \div 2

VARIABLES
    rtc,          \* the counter and compare register, and whether it runs
    list,         \* [id, ticks]: running timers in the order of expiry
    m_ticks_latest,
    m_ticks_elapsed,      \* ticks of expired timers, for SWI0
    ops,          \* operations queued by the thread and at APP_LOW
    pending,      \* interrupts
    handler,      \* the place in compare_reg_update()
    call,         \* the thread's call of app_timer_start()
    left,         \* history: ticks until each running timer is due
    fired,        \* history: timers called and not yet taken off the list
    late          \* ticks that work has been waiting

history == <<left, fired>>
vars == <<rtc, list, m_ticks_latest, m_ticks_elapsed, ops, pending, handler, call, history, late>>

Modulus == MAX_RTC_COUNTER_VAL + 1
ticks_diff_get(now, old) == (now - old) % Modulus

NoTicks == -1
NoCall == [op |-> "none"]
Resting == [pc |-> "rest", pre |-> 0, cc |-> 0]

(***************************************************************************)
(* The list.                                                               *)
(***************************************************************************)
Ids(l) == {l[k].id : k \in DOMAIN l}
SumTo(l, n) ==
    LET sum[k \in 0 .. n] == IF k = 0 THEN 0 ELSE sum[k - 1] + l[k].ticks IN sum[n]
HeadOf(l) == IF l = <<>> THEN {} ELSE {l[1].id}
PlaceOf(l, id) == CHOOSE k \in DOMAIN l : l[k].id = id

(* Mutant: the next timer keeps its ticks.                                 *)
timer_list_insert_NotRelative(l, id, n) ==
    LET k == Min({j \in DOMAIN l : n <= SumTo(l, j)} \cup {Len(l) + 1})
    IN  InsertAt(l, k, [id |-> id, ticks |-> n - SumTo(l, k - 1)])

(* After all timers that are due earlier; the next one waits the rest.     *)
timer_list_insert(l, id, n) ==
    LET k == Min({j \in DOMAIN l : n <= SumTo(l, j)} \cup {Len(l) + 1})
        own == n - SumTo(l, k - 1)
        shorter == IF k > Len(l) THEN l ELSE [l EXCEPT ![k].ticks = @ - own]
    IN  InsertAt(shorter, k, [id |-> id, ticks |-> own])

timer_list_remove(l, id) ==
    LET k == PlaceOf(l, id)
        longer == IF k = Len(l) THEN l ELSE [l EXCEPT ![k + 1].ticks = @ + l[k].ticks]
    IN  RemoveAt(longer, k)

(* How many timers expire within n ticks.                                  *)
ExpiredWithin(l, n) == Max({k \in 0 .. Len(l) : SumTo(l, k) <= n})

(***************************************************************************)
(* Clients.  A call reads the counter; an operation is carried out later.  *)
(***************************************************************************)
Start(id, n) == [op |-> "start", id |-> id, at |-> rtc.counter, n |-> n, age |-> 0]
Stop(id) == [op |-> "stop", id |-> id, at |-> 0, n |-> 0, age |-> 0]
StopAll == [op |-> "stop_all", id |-> CHOOSE t \in Timers : TRUE, at |-> 0, n |-> 0, age |-> 0]

Quiet == pending = {} /\ handler = Resting

(* A start of a repeated timer is for its period.                          *)
Ticks(id) == IF Period[id] = 0 THEN Timeouts ELSE {Period[id]}

(* The operations that a handler may queue: none, or one of `Handlers`.    *)
Operations(kinds) ==
    {[k \in DOMAIN kinds |-> IF kinds[k] = "start" THEN Start(t, n) ELSE Stop(t)] :
        t \in Timers \ Everlasting, n \in Timeouts \cup {Period[u] : u \in Timers}}

Allowed(queued) == \A k \in DOMAIN queued : queued[k].op = "start" => queued[k].n \in Ticks(queued[k].id)

Queues(user, queued) ==
    /\ Len(ops[user]) + Len(queued) <= OpQueueSize
    /\ ops' = [ops EXCEPT ![user] = @ \o queued]

(***************************************************************************)
(* app_timer_start(), app_timer_stop() and app_timer_stop_all() in the     *)
(* thread, where interrupts are handled at once, within the call too.      *)
(***************************************************************************)
ThreadCalls ==
    /\ Quiet /\ call = NoCall
    /\ \E t \in ThreadStarts :
           call' \in {Start(t, n) : n \in Ticks(t)} \cup {Stop(t)}
                         \cup (IF Everlasting = {} THEN {StopAll} ELSE {})
    /\ UNCHANGED <<rtc, list, m_ticks_latest, m_ticks_elapsed, ops, pending, handler, history, late>>

ThreadQueues ==
    /\ Quiet /\ call # NoCall
    /\ Queues("THREAD", <<call>>)
    /\ call' = NoCall /\ pending' = pending \cup {"SWI0"}
    /\ UNCHANGED <<rtc, list, m_ticks_latest, m_ticks_elapsed, handler, left, fired, late>>

(* Another interrupt of APP_LOW priority, of the BLE stack for one.        *)
LowInterrupt ==
    /\ Quiet
    /\ \E kinds \in Handlers : \E queued \in Operations(kinds) :
           Allowed(queued) /\ Queues("LOW", queued)
    /\ pending' = pending \cup {"SWI0"}
    /\ UNCHANGED <<rtc, list, m_ticks_latest, m_ticks_elapsed, handler, call, left, fired, late>>

(***************************************************************************)
(* RTC1_IRQHandler(): call the handlers of what has expired.  They may     *)
(* queue operations; timers stay in the list until SWI0.                   *)
(***************************************************************************)

(* Mutant: a timer expires one tick early.                                 *)
timer_timeouts_check_OneMore == ticks_diff_get(rtc.counter, m_ticks_latest) + 1

timer_timeouts_check == ticks_diff_get(rtc.counter, m_ticks_latest)

Expired == {list[k].id : k \in 1 .. ExpiredWithin(list, timer_timeouts_check)}

RTC1_IRQHandler ==
    /\ "RTC1" \in pending /\ handler = Resting
    /\ IF list = <<>>
       THEN /\ pending' = pending \ {"RTC1"}
            /\ UNCHANGED <<m_ticks_elapsed, ops, history>>
       ELSE /\ pending' = (pending \ {"RTC1"}) \cup {"SWI0"}
            /\ m_ticks_elapsed' = SumTo(list, ExpiredWithin(list, timer_timeouts_check))
            /\ \/ UNCHANGED ops
               \/ Expired # {} /\ \E kinds \in Handlers : \E queued \in Operations(kinds) :
                      Allowed(queued) /\ Queues("LOW", queued)
            /\ left' = [t \in Timers |-> IF t \in Expired THEN left[t] + Period[t] ELSE left[t]]
            /\ fired' = fired \cup Expired
    /\ UNCHANGED <<rtc, list, m_ticks_latest, handler, call, late>>

(***************************************************************************)
(* SWI0_IRQHandler(): operations to stop, expired timers, operations to    *)
(* start, one after the other, as functions of what they change.           *)
(***************************************************************************)
AllOps == ops.THREAD \o ops.LOW

(* The counter starts again from 0 when its last timer is taken off.       *)
Deletion(s, o) ==
    IF o.op = "stop_all" THEN [s EXCEPT !.list = <<>>]
    ELSE IF o.op # "stop" \/ o.id \notin Ids(s.list) THEN s
    ELSE LET l == timer_list_remove(s.list, o.id)
         IN  IF l # <<>> THEN [s EXCEPT !.list = l]
             ELSE [s EXCEPT !.list = l, !.counter = 0, !.latest = 0, !.reset = TRUE]

list_deletions_handler(s) == FoldLeft(Deletion, s, AllOps)

expired_timers_handler(s, elapsed) ==
    LET k == ExpiredWithin(s.list, elapsed)
        rest == SubSeq(s.list, k + 1, Len(s.list))
    IN  IF rest = <<>> THEN [s EXCEPT !.list = rest]
        ELSE [s EXCEPT !.list = [rest EXCEPT ![1].ticks = @ - (elapsed - SumTo(s.list, k))]]

(* Repeated timers start again from when they were due.                    *)
Restarts(s, elapsed, previous) ==
    LET k == ExpiredWithin(s.list, elapsed)
        again == [j \in 1 .. k |->
                     [op |-> "restart", id |-> s.list[j].id, n |-> Period[s.list[j].id],
                      at |-> (previous + SumTo(s.list, j)) % Modulus, age |-> 0]]
    IN  SelectSeq(Reverse(again), LAMBDA o : o.n # 0)

ticks_to_expire(at, n, latest) ==
    IF ticks_diff_get(at, latest) < MAX_RTC_COUNTER_VAL \div 2
    THEN ticks_diff_get(at, latest) + n
    ELSE LET delta == ticks_diff_get(latest, at) IN IF n > delta THEN n - delta ELSE 0

Inserted(s, o) ==
    LET at == IF s.reset /\ o.op = "start" THEN 0 ELSE o.at
    IN  [s EXCEPT !.list = timer_list_insert(@, o.id, ticks_to_expire(at, o.n, s.latest)),
                  !.left[o.id] = IF o.op = "start" THEN o.n - o.age ELSE @]

\* A timer that runs is not started again.
Insertion(s, o) ==
    IF o.op \notin {"start", "restart"} \/ o.id \in Ids(s.list) THEN s ELSE Inserted(s, o)

list_insertions_handler(s, restarts) == FoldLeft(Insertion, s, restarts \o AllOps)

SWI0_IRQHandler ==
    /\ "SWI0" \in pending /\ "RTC1" \notin pending /\ handler = Resting
    /\ LET have == m_ticks_elapsed # NoTicks
           elapsed == IF have THEN m_ticks_elapsed ELSE 0
           s0 == [list |-> list, latest |-> (m_ticks_latest + elapsed) % Modulus,
                  counter |-> rtc.counter, reset |-> FALSE, left |-> left]
           s1 == list_deletions_handler(s0)
           s2 == IF have THEN expired_timers_handler(s1, elapsed) ELSE s1
           s3 == list_insertions_handler(s2,
                     IF have THEN Restarts(s1, elapsed, m_ticks_latest) ELSE <<>>)
           update == HeadOf(s1.list) # HeadOf(list) \/ have \/ HeadOf(s3.list) # HeadOf(s2.list)
           stop == update /\ s3.list = <<>>
       IN  /\ list' = s3.list
           /\ left' = [t \in Timers |-> IF t \in Ids(s3.list) THEN s3.left[t] ELSE 0]
           /\ m_ticks_latest' = IF stop THEN 0 ELSE s3.latest
           /\ rtc' = IF stop THEN [rtc EXCEPT !.on = FALSE, !.counter = 0]
                     ELSE [rtc EXCEPT !.counter = s3.counter]
           /\ handler' = IF update /\ ~stop THEN [Resting EXCEPT !.pc = "read"] ELSE Resting
           /\ pending' = IF stop THEN {} ELSE pending \ {"SWI0"}
    /\ m_ticks_elapsed' = NoTicks
    /\ ops' = [ops EXCEPT !.THREAD = <<>>, !.LOW = <<>>]
    /\ fired' = {}
    /\ UNCHANGED <<call, late>>

(***************************************************************************)
(* compare_reg_update(), between whose steps the counter goes on.          *)
(***************************************************************************)
compare_reg_update(pre) ==
    LET elapsed == ticks_diff_get(pre, m_ticks_latest) + RTC_COMPARE_OFFSET_MIN
    IN  (m_ticks_latest + Max({elapsed, list[1].ticks})) % Modulus

ReadCounter ==
    /\ handler.pc = "read"
    /\ handler' = [pc |-> "set", pre |-> rtc.counter, cc |-> compare_reg_update(rtc.counter)]
    /\ rtc' = [rtc EXCEPT !.on = TRUE]
    /\ UNCHANGED <<list, m_ticks_latest, m_ticks_elapsed, ops, pending, call, history, late>>

(* A value that is only a tick ahead may be missed by the counter.         *)
SetCompare ==
    /\ handler.pc = "set"
    /\ \E missed \in IF ticks_diff_get(handler.cc, rtc.counter) = 1 THEN BOOLEAN ELSE {FALSE} :
           rtc' = [rtc EXCEPT !.cc = handler.cc, !.missed = missed]
    /\ handler' = [handler EXCEPT !.pc = "check"]
    /\ UNCHANGED <<list, m_ticks_latest, m_ticks_elapsed, ops, pending, call, history, late>>

TooClose ==
    ticks_diff_get(rtc.counter, handler.pre) + RTC_COMPARE_OFFSET_MIN
        > ticks_diff_get(handler.cc, handler.pre)

CheckCompare ==
    /\ handler.pc = "check"
    /\ pending' = IF TooClose THEN pending \cup {"RTC1"} ELSE pending
    /\ handler' = Resting
    /\ UNCHANGED <<rtc, list, m_ticks_latest, m_ticks_elapsed, ops, call, history, late>>

(***************************************************************************)
(* Time.  What is begun is done within MaxLatency ticks.                   *)
(***************************************************************************)
Busy == pending # {} \/ handler # Resting \/ call # NoCall

Older(o) == [o EXCEPT !.age = @ + 1]

Tick ==
    /\ late < MaxLatency
    /\ late' = IF Busy THEN late + 1 ELSE 0
    /\ LET c == IF rtc.on THEN (rtc.counter + 1) % Modulus ELSE rtc.counter
           match == rtc.on /\ c = rtc.cc
       IN  /\ rtc' = [rtc EXCEPT !.counter = c, !.missed = @ /\ ~match]
           /\ pending' = IF match /\ ~rtc.missed THEN pending \cup {"RTC1"} ELSE pending
    /\ left' = [t \in Timers |-> IF t \in Ids(list) THEN left[t] - 1 ELSE 0]
    /\ ops' = [u \in DOMAIN ops |-> [k \in DOMAIN ops[u] |-> Older(ops[u][k])]]
    /\ call' = IF call = NoCall THEN call ELSE Older(call)
    /\ UNCHANGED <<list, m_ticks_latest, m_ticks_elapsed, handler, fired>>

(* Work that has been done no longer counts.                               *)
CaughtUp ==
    /\ late # 0 /\ ~Busy
    /\ late' = 0
    /\ UNCHANGED <<rtc, list, m_ticks_latest, m_ticks_elapsed, ops, pending, handler, call, history>>

Init ==
    /\ rtc = [on |-> FALSE, counter |-> 0, cc |-> 0, missed |-> FALSE]
    /\ list = <<>> /\ m_ticks_latest = 0 /\ m_ticks_elapsed = NoTicks
    /\ ops = [THREAD |-> SetToSeq({Start(t, Period[t]) : t \in Everlasting}), LOW |-> <<>>]
    /\ pending = IF Everlasting = {} THEN {} ELSE {"SWI0"}
    /\ handler = Resting /\ call = NoCall
    /\ left = [t \in Timers |-> 0] /\ fired = {}
    /\ late = 0

Next ==
    \/ ThreadCalls \/ ThreadQueues \/ LowInterrupt
    \/ RTC1_IRQHandler \/ SWI0_IRQHandler
    \/ ReadCounter \/ SetCompare \/ CheckCompare
    \/ Tick \/ CaughtUp

Spec == Init /\ [][Next]_vars

(***************************************************************************)
(* Properties.                                                             *)
(***************************************************************************)
(* What the variables hold; a timer is in the list once.                   *)
TypeOK ==
    /\ rtc.counter \in 0 .. MAX_RTC_COUNTER_VAL /\ rtc.cc \in 0 .. MAX_RTC_COUNTER_VAL
    /\ \A k \in DOMAIN list : list[k].id \in Timers /\ list[k].ticks \in Nat
    /\ \A j, k \in DOMAIN list : list[j].id = list[k].id => j = k
    /\ m_ticks_latest \in 0 .. MAX_RTC_COUNTER_VAL
    /\ m_ticks_elapsed \in Nat \cup {NoTicks}
    /\ \A u \in {"THREAD", "LOW"} : Len(ops[u]) <= OpQueueSize
    /\ pending \subseteq {"RTC1", "SWI0"} /\ fired \subseteq Timers
    /\ handler.pc \in {"rest", "read", "set", "check"} /\ late \in 0 .. MaxLatency

(* No handler is called before its time, however often the counter has     *)
(* wrapped around or been set back.                                        *)
CallsNoneEarly == RTC1_IRQHandler => \A t \in Expired : left[t] <= 0

NeverEarly == [][CallsNoneEarly]_vars

(* Nor is any left waiting: a timer that is due is called within 3 ticks,  *)
(* "a positive jitter of maximum 3 ticks" (app_timer.h), and the time that *)
(* passes while the counter is started, the register set and the interrupt *)
(* handled; every other timer that is taken off in front of it may put the *)
(* register off by as much again.                                          *)
NeverLate ==
    LET jitter == RTC_COMPARE_OFFSET_MIN + 2 * MaxLatency
    IN  \A t \in Ids(list) \ fired : left[t] >= -(jitter * Cardinality(Timers) + MaxLatency)
=============================================================================
