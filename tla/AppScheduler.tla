---------------------------- MODULE AppScheduler ----------------------------
(***************************************************************************)
(* The event queue between interrupt context and the main loop             *)
(* (components/libraries/scheduler/app_scheduler.c).                       *)
(*                                                                         *)
(* Level 0 is the main loop, levels 1..Levels are interrupt priorities: a  *)
(* level steps only while every level above it is idle.  A put reserves    *)
(* its slot in a critical region and fills it outside of it, so a put at a *)
(* higher level can come between; a get advances the start index first and *)
(* reads the slot afterwards.                                              *)
(*                                                                         *)
(* Puts are numbered in the order they reserve a slot.  The number stands  *)
(* for the handler and for the data that were passed.                      *)
(***************************************************************************)
EXTENDS Integers, Sequences

CONSTANTS QueueSize,   \* m_queue_size; the ring has QueueSize + 1 slots
          EventSize,   \* m_queue_event_size, the largest event_data_size
          Levels,      \* interrupt priorities that put events
          Nesting,     \* how deep handlers call app_sched_execute() again
          MaxPut       \* bound: accepted puts in a behaviour

ASSUME SchedulerAssumption ==
    /\ QueueSize \in 1 .. 255
    /\ EventSize \in Nat
    /\ Levels \in Nat
    /\ Nesting \in Nat \ {0}
    /\ MaxPut \in Nat

VARIABLES
    m_queue_start_index,   \* slot of the oldest waiting event
    m_queue_end_index,     \* slot the next put reserves
    m_queue_event_headers, \* slot -> [handler, event_data_size]
    m_queue_event_data,    \* slot -> number of the put whose data it holds
    pc,                    \* level -> where it is in event_put / event_get
    event_index,           \* level -> the local event_index of that call
    event_data_size,       \* level -> the argument of the put in progress
    put_number,            \* level -> the number of the put in progress
    running,               \* main: the handlers being executed, innermost last
    loops,                 \* main: the activations of app_sched_execute()
    nput, nget,            \* puts accepted and gets begun so far
    err_code               \* what the last finished put returned

vars == <<m_queue_start_index, m_queue_end_index, m_queue_event_headers,
          m_queue_event_data, pc, event_index, event_data_size, put_number,
          running, loops, nput, nget, err_code>>

Slots == 0 .. QueueSize
Contexts == 0 .. Levels
Main == 0
PutNumbers == 0 .. MaxPut        \* 0: the slot was never filled
PCs == {"idle", "reserved", "handler_set", "got"}
ErrCodes == {"NRF_SUCCESS", "NRF_ERROR_NO_MEM", "NRF_ERROR_INVALID_LENGTH"}
Headers == [handler : PutNumbers, event_data_size : 0 .. EventSize]
Frames == [slot : Slots, handler : PutNumbers, event_data_size : 0 .. EventSize]

-----------------------------------------------------------------------------

(* Mutant: the wrap comes one slot late.                                   *)
next_index_LateWrap(index) == IF index <= QueueSize THEN index + 1 ELSE 0

next_index(index) == IF index < QueueSize THEN index + 1 ELSE 0

(* Mutant: a put never looks whether a slot is free.                       *)
app_sched_queue_full_Never == FALSE

(* Mutant: a count instead of the spare slot tells full from empty.        *)
app_sched_queue_full_LastSlot == nput - nget = QueueSize + 1

app_sched_queue_full == next_index(m_queue_end_index) = m_queue_start_index

(* Mutant: the last event counts as none.                                  *)
app_sched_queue_empty_OffByOne ==
    m_queue_end_index \in {m_queue_start_index, next_index(m_queue_start_index)}

app_sched_queue_empty == m_queue_end_index = m_queue_start_index

(* A level runs only while no level above it is inside a call.             *)
MayRun(l) == \A k \in Contexts : k > l => pc[k] = "idle"

(* Main code other than app_sched_execute() runs: main_loop() or a handler. *)
InClientCode == loops = Len(running)

(* Who may call app_sched_event_put(): any interrupt, and main's own code. *)
MayPut(l) == /\ pc[l] = "idle" /\ MayRun(l)
             /\ l = Main => InClientCode

(* app_sched_init()                                                        *)
Init ==
    /\ m_queue_start_index = 0
    /\ m_queue_end_index = 0
    /\ m_queue_event_headers = [i \in Slots |-> [handler |-> 0, event_data_size |-> 0]]
    /\ m_queue_event_data = [i \in Slots |-> 0]
    /\ pc = [l \in Contexts |-> "idle"]
    /\ event_index = [l \in Contexts |-> 0]
    /\ event_data_size = [l \in Contexts |-> 0]
    /\ put_number = [l \in Contexts |-> 0]
    /\ running = <<>>
    /\ loops = 0
    /\ nput = 0
    /\ nget = 0
    /\ err_code = "NRF_SUCCESS"

(* app_sched_event_put(): the slot is reserved in the critical region.     *)
Reserve(l, size) ==
    /\ MayPut(l)
    /\ nput < MaxPut
    /\ size <= EventSize
    /\ ~app_sched_queue_full
    /\ event_index' = [event_index EXCEPT ![l] = m_queue_end_index]
    /\ m_queue_end_index' = next_index(m_queue_end_index)
    /\ event_data_size' = [event_data_size EXCEPT ![l] = size]
    /\ nput' = nput + 1
    /\ put_number' = [put_number EXCEPT ![l] = nput + 1]
    /\ pc' = [pc EXCEPT ![l] = "reserved"]
    /\ UNCHANGED <<m_queue_start_index, m_queue_event_headers,
                   m_queue_event_data, running, loops, nget, err_code>>

(* No slot is free: NRF_ERROR_NO_MEM, the queue is left alone.             *)
RefuseFull(l, size) ==
    /\ MayPut(l)
    /\ size <= EventSize
    /\ app_sched_queue_full
    /\ err_code' = "NRF_ERROR_NO_MEM"
    /\ UNCHANGED <<m_queue_start_index, m_queue_end_index, m_queue_event_headers,
                   m_queue_event_data, pc, event_index, event_data_size,
                   put_number, running, loops, nput, nget>>

(* The event is larger than a slot.                                        *)
RefuseLong(l, size) ==
    /\ MayPut(l)
    /\ size > EventSize
    /\ err_code' = "NRF_ERROR_INVALID_LENGTH"
    /\ UNCHANGED <<m_queue_start_index, m_queue_end_index, m_queue_event_headers,
                   m_queue_event_data, pc, event_index, event_data_size,
                   put_number, running, loops, nput, nget>>

(* The reserved slot gets its handler ...                                  *)
FillHandler(l) ==
    /\ pc[l] = "reserved" /\ MayRun(l)
    /\ m_queue_event_headers' =
          [m_queue_event_headers EXCEPT ![event_index[l]].handler = put_number[l]]
    /\ pc' = [pc EXCEPT ![l] = "handler_set"]
    /\ UNCHANGED <<m_queue_start_index, m_queue_end_index, m_queue_event_data,
                   event_index, event_data_size, put_number, running, loops, nput,
                   nget, err_code>>

(* Mutant: an event without data does not reset the size of its slot.     *)
FillData_KeepSize(l) ==
    /\ pc[l] = "handler_set" /\ MayRun(l)
    /\ m_queue_event_headers' =
          [m_queue_event_headers EXCEPT
              ![event_index[l]].event_data_size =
                  IF event_data_size[l] > 0 THEN event_data_size[l] ELSE @]
    /\ m_queue_event_data' =
          IF event_data_size[l] > 0
          THEN [m_queue_event_data EXCEPT ![event_index[l]] = put_number[l]]
          ELSE m_queue_event_data
    /\ err_code' = "NRF_SUCCESS"
    /\ pc' = [pc EXCEPT ![l] = "idle"]
    /\ UNCHANGED <<m_queue_start_index, m_queue_end_index, event_index,
                   event_data_size, put_number, running, loops, nput, nget>>

(* ... and its data and size; an event without data leaves the data alone. *)
FillData(l) ==
    /\ pc[l] = "handler_set" /\ MayRun(l)
    /\ m_queue_event_headers' =
          [m_queue_event_headers EXCEPT
              ![event_index[l]].event_data_size = event_data_size[l]]
    /\ m_queue_event_data' =
          IF event_data_size[l] > 0
          THEN [m_queue_event_data EXCEPT ![event_index[l]] = put_number[l]]
          ELSE m_queue_event_data
    /\ err_code' = "NRF_SUCCESS"
    /\ pc' = [pc EXCEPT ![l] = "idle"]
    /\ UNCHANGED <<m_queue_start_index, m_queue_end_index, event_index,
                   event_data_size, put_number, running, loops, nput, nget>>

(* app_sched_execute() is called, by main() or by a running handler ...     *)
ExecuteBegin ==
    /\ pc[Main] = "idle" /\ MayRun(Main)
    /\ InClientCode
    /\ loops < Nesting
    /\ loops' = loops + 1
    /\ UNCHANGED <<m_queue_start_index, m_queue_end_index, m_queue_event_headers,
                   m_queue_event_data, pc, event_index, event_data_size,
                   put_number, running, nput, nget, err_code>>

(* ... and returns only when it finds the queue empty.                      *)
ExecuteEnd ==
    /\ pc[Main] = "idle" /\ MayRun(Main)
    /\ ~InClientCode
    /\ app_sched_queue_empty
    /\ loops' = loops - 1
    /\ UNCHANGED <<m_queue_start_index, m_queue_end_index, m_queue_event_headers,
                   m_queue_event_data, pc, event_index, event_data_size,
                   put_number, running, nput, nget, err_code>>

(* app_sched_event_get(): the start index moves on first.                   *)
GetAdvance ==
    /\ pc[Main] = "idle" /\ MayRun(Main)
    /\ ~InClientCode
    /\ ~app_sched_queue_empty
    /\ event_index' = [event_index EXCEPT ![Main] = m_queue_start_index]
    /\ m_queue_start_index' = next_index(m_queue_start_index)
    /\ nget' = nget + 1
    /\ pc' = [pc EXCEPT ![Main] = "got"]
    /\ UNCHANGED <<m_queue_end_index, m_queue_event_headers, m_queue_event_data,
                   event_data_size, put_number, running, loops, nput, err_code>>

(* The header is read and the handler called; the data stay in the slot.   *)
GetRead ==
    /\ pc[Main] = "got" /\ MayRun(Main)
    /\ running' = Append(running,
          [slot            |-> event_index[Main],
           handler         |-> m_queue_event_headers[event_index[Main]].handler,
           event_data_size |-> m_queue_event_headers[event_index[Main]].event_data_size])
    /\ pc' = [pc EXCEPT ![Main] = "idle"]
    /\ UNCHANGED <<m_queue_start_index, m_queue_end_index, m_queue_event_headers,
                   m_queue_event_data, event_index, event_data_size, put_number,
                   loops, nput, nget, err_code>>

(* The innermost handler returns to the loop of app_sched_execute().       *)
HandlerReturn ==
    /\ pc[Main] = "idle" /\ MayRun(Main)
    /\ InClientCode
    /\ running # <<>>
    /\ running' = SubSeq(running, 1, Len(running) - 1)
    /\ UNCHANGED <<m_queue_start_index, m_queue_end_index, m_queue_event_headers,
                   m_queue_event_data, pc, event_index, event_data_size,
                   put_number, loops, nput, nget, err_code>>

Put(l) ==
    \/ \E size \in 0 .. EventSize + 1 :
          Reserve(l, size) \/ RefuseFull(l, size) \/ RefuseLong(l, size)
    \/ FillHandler(l)
    \/ FillData(l)

Next ==
    \/ \E l \in Contexts : Put(l)
    \/ ExecuteBegin
    \/ ExecuteEnd
    \/ GetAdvance
    \/ GetRead
    \/ HandlerReturn

Spec == Init /\ [][Next]_vars

(* A started put is finished and returned from, and main keeps executing   *)
(* the queue; nobody is obliged to start a put.                            *)
Fairness ==
    /\ \A l \in Contexts : WF_vars(FillHandler(l)) /\ WF_vars(FillData(l))
    /\ WF_vars(ExecuteBegin /\ running = <<>>) /\ WF_vars(ExecuteEnd)
    /\ WF_vars(GetAdvance) /\ WF_vars(GetRead) /\ WF_vars(HandlerReturn)

FairSpec == Spec /\ Fairness

-----------------------------------------------------------------------------
(* Types of the variables: the indices stay inside the ring of             *)
(* QueueSize + 1 slots that APP_SCHED_BUF_SIZE reserves.                   *)
TypeOK ==
    /\ m_queue_start_index \in Slots
    /\ m_queue_end_index \in Slots
    /\ m_queue_event_headers \in [Slots -> Headers]
    /\ m_queue_event_data \in [Slots -> PutNumbers]
    /\ pc \in [Contexts -> PCs]
    /\ event_index \in [Contexts -> Slots]
    /\ event_data_size \in [Contexts -> 0 .. EventSize]
    /\ put_number \in [Contexts -> PutNumbers]
    /\ running \in Seq(Frames)
    /\ loops \in Nat
    /\ nput \in PutNumbers
    /\ nget \in Nat
    /\ err_code \in ErrCodes

(* The event at slot i is the whole event of put number n.                 *)
Holds(i, n) ==
    /\ m_queue_event_headers[i].handler = n
    /\ m_queue_event_headers[i].event_data_size > 0 => m_queue_event_data[i] = n

(* The event main takes is the next one in the order of the puts and has   *)
(* been filled in completely: the get may read without a critical region   *)
(* although the put fills its slot outside of one (the two NOTEs of        *)
(* app_scheduler.c).                                                       *)
TakenIsNext == pc[Main] = "got" => Holds(event_index[Main], nget)

(* While a handler runs, its event's data stay what they were, although    *)
(* its slot was given back before the handler was called and interrupts    *)
(* put on; up to the handler's own use of app_sched_execute().             *)
HandlerKeepsData ==
    (running # <<>> /\ running[Len(running)].handler = nget) =>
        /\ Holds(running[Len(running)].slot, nget)
        /\ running[Len(running)].event_data_size
              = m_queue_event_headers[running[Len(running)].slot].event_data_size

(* A put is refused for lack of memory exactly when QueueSize events are   *)
(* waiting: the vacant slot of the ring costs no capacity.                 *)
FullAtCapacity == app_sched_queue_full <=> nput - nget = QueueSize

(* Every event that was accepted is taken out and its handler called.      *)
AllExecuted == \A n \in 1 .. MaxPut : nput >= n ~> (nget >= n /\ pc[Main] # "got")

-----------------------------------------------------------------------------
(* The abstract queue: a reserved slot counts as its event, filled or not. *)

(* How many slots i is behind the slot start in the ring.                  *)
Away(start, i) == IF i >= start THEN i - start ELSE i - start + QueueSize + 1

(* The slot k places behind the slot start.                                *)
Place(start, k) == IF start + k <= QueueSize THEN start + k ELSE start + k - QueueSize - 1

Occupied == Away(m_queue_start_index, m_queue_end_index)

Event(i) ==
    LET fillers == {l \in Contexts : pc[l] \in {"reserved", "handler_set"} /\ event_index[l] = i}
    IN  IF fillers = {}
        THEN [handler |-> m_queue_event_headers[i].handler,
              event_data_size |-> m_queue_event_headers[i].event_data_size]
        ELSE LET l == CHOOSE k \in fillers : TRUE
             IN  [handler |-> put_number[l], event_data_size |-> event_data_size[l]]

waiting == [k \in 1 .. Occupied |->
               Event(Place(m_queue_start_index, k - 1))]

active ==
    LET called == [k \in 1 .. Len(running) |->
                      [handler         |-> running[k].handler,
                       event_data_size |-> running[k].event_data_size]]
    IN  IF pc[Main] = "got" THEN Append(called, Event(event_index[Main])) ELSE called

Queue == INSTANCE EventQueue WITH
             Events   <- Headers,
             Capacity <- QueueSize,
             queue    <- waiting,
             active   <- active

(* The ring, filled outside its critical region and read after the slot    *)
(* was given back, behaves as a FIFO queue of QueueSize whole events.      *)
ImplementsEventQueue == Queue!Spec
=============================================================================
