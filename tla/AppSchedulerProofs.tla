------------------------- MODULE AppSchedulerProofs -------------------------
(***************************************************************************)
(* AppScheduler for every queue size a u8 index can address, every number  *)
(* of interrupt levels, event size and nesting depth.                      *)
(*                                                                         *)
(* The argument: put number n goes to the slot at distance n - nget - 1    *)
(* from the start index (Fillers, Filled), so the occupied part of the     *)
(* ring holds the puts nget + 1 .. nput in order; a slot that was taken is *)
(* the one just before the start index (Taken, Handled), at distance       *)
(* QueueSize, which no occupied slot is.                                   *)
(*                                                                         *)
(* And AppScheduler implements EventQueue.  The abstract queue takes its   *)
(* event from the arguments of a put while the slot is being filled and    *)
(* from the slot afterwards.  A step of a put must not change the event of *)
(* any other slot: no two puts in progress share one (Unshared), and none  *)
(* fills the slot of a get in progress (the lemma Apart).                  *)
(***************************************************************************)
EXTENDS AppScheduler, SequenceTheorems, TLAPS

Filling(l) == pc[l] \in {"reserved", "handler_set"}

(* The puts nget + 1 .. nput are the ones in the ring.                     *)
Counted == Occupied = nput - nget

(* A put in progress owns the occupied slot of its number.                 *)
Fillers ==
    \A l \in Contexts : Filling(l) =>
        /\ Away(m_queue_start_index, event_index[l]) < Occupied
        /\ put_number[l] = nget + 1 + Away(m_queue_start_index, event_index[l])
        /\ pc[l] = "handler_set" =>
              m_queue_event_headers[event_index[l]].handler = put_number[l]

(* An occupied slot holds its event unless a put is still filling it.      *)
Filled ==
    \A i \in Slots : Away(m_queue_start_index, i) < Occupied =>
        \/ Holds(i, nget + 1 + Away(m_queue_start_index, i))
        \/ \E l \in Contexts : Filling(l) /\ event_index[l] = i

(* The slot being read by a get is the one before the start index.         *)
Taken ==
    pc[Main] = "got" =>
        /\ Away(m_queue_start_index, event_index[Main]) = QueueSize
        /\ Holds(event_index[Main], nget)

(* So is the slot of the handler that was called last.                     *)
Handled ==
    (running # <<>> /\ running[Len(running)].handler = nget) =>
        /\ Away(m_queue_start_index, running[Len(running)].slot) = QueueSize
        /\ Holds(running[Len(running)].slot, nget)
        /\ running[Len(running)].event_data_size
              = m_queue_event_headers[running[Len(running)].slot].event_data_size

(* Handlers below the innermost one were called for earlier events.        *)
Older ==
    \A k \in 1 .. Len(running) :
        /\ running[k].handler <= nget
        /\ (k < Len(running) \/ pc[Main] = "got") => running[k].handler < nget

(* app_sched_execute() and handlers alternate.                             *)
Alternate ==
    /\ loops = Len(running) \/ loops = Len(running) + 1
    /\ pc[Main] = "got" => loops = Len(running) + 1

IInv == /\ TypeOK /\ Counted /\ Fillers /\ Filled
        /\ Taken /\ Handled /\ Older /\ Alternate

-----------------------------------------------------------------------------
(* The initial state satisfies the invariant.                              *)
LEMMA InitInvariant == Init => IInv
<1> SUFFICES ASSUME Init PROVE IInv
  OBVIOUS
<1> USE SchedulerAssumption
<1>1. TypeOK
  BY DEF Init, TypeOK, Slots, Contexts, PutNumbers, PCs, ErrCodes, Headers, Frames
<1>2. Len(running) = 0
  BY DEF Init
<1>3. Occupied = 0
  BY DEF Init, Occupied, Away
<1>4. Counted /\ Filled
  <2>1. \A i \in Slots : ~(Away(m_queue_start_index, i) < 0)
    BY DEF Init, Away, Slots
  <2> QED
    BY <1>3, <2>1 DEF Init, Counted, Filled
<1>5. Fillers /\ Taken
  BY DEF Init, Fillers, Taken, Filling, Contexts, Main
<1>6. Handled /\ Older /\ Alternate
  BY <1>2 DEF Init, Handled, Older, Alternate, Contexts, Main
<1> QED
  BY <1>1, <1>4, <1>5, <1>6 DEF IInv

(* Indices stay in the ring; the distance from the start index is a        *)
(* position in it.                                                         *)
LEMMA Ring ==
    ASSUME TypeOK
    PROVE  /\ \A i \in Slots : next_index(i) \in Slots
           /\ \A i \in Slots : Away(m_queue_start_index, i) \in 0 .. QueueSize
           /\ Occupied \in 0 .. QueueSize
BY SchedulerAssumption DEF TypeOK, Slots, next_index, Away, Occupied

(* A step of the end index lengthens the occupied part by the slot the put *)
(* reserves, unless the queue is full.                                     *)
LEMMA EndStep ==
    ASSUME TypeOK, ~app_sched_queue_full
    PROVE  /\ Away(m_queue_start_index, next_index(m_queue_end_index)) = Occupied + 1
           /\ \A i \in Slots :
                 Away(m_queue_start_index, i) = Occupied => i = m_queue_end_index
BY SchedulerAssumption
DEF TypeOK, Slots, next_index, Away, Occupied, app_sched_queue_full

(* A step of the start index brings every slot one nearer and puts the     *)
(* slot that was taken last.                                               *)
LEMMA StartStep ==
    ASSUME NEW s \in Slots, NEW i \in Slots
    PROVE  Away(next_index(s), i) = IF i = s THEN QueueSize ELSE Away(s, i) - 1
BY SchedulerAssumption DEF Slots, next_index, Away

(* Every step preserves the types.                                         *)
LEMMA TypeStep == ASSUME TypeOK, Alternate, [Next]_vars PROVE TypeOK'
<1> USE SchedulerAssumption DEF TypeOK
<1>r. \A i \in Slots : next_index(i) \in Slots
  BY Ring
<1>1. ASSUME NEW l \in Contexts, NEW size \in 0 .. EventSize + 1, Reserve(l, size)
      PROVE  TypeOK'
  BY <1>1, <1>r DEF Reserve, PutNumbers, PCs
<1>2. ASSUME NEW l \in Contexts, NEW size \in 0 .. EventSize + 1,
             RefuseFull(l, size) \/ RefuseLong(l, size)
      PROVE  TypeOK'
  BY <1>2 DEF RefuseFull, RefuseLong, ErrCodes
<1>3. ASSUME NEW l \in Contexts, FillHandler(l) PROVE TypeOK'
  BY <1>3 DEF FillHandler, PCs, Headers
<1>4. ASSUME NEW l \in Contexts, FillData(l) PROVE TypeOK'
  BY <1>4 DEF FillData, PCs, Headers, ErrCodes
<1>5. CASE ExecuteBegin
  BY <1>5 DEF ExecuteBegin
<1>6. CASE ExecuteEnd
  BY <1>6 DEF ExecuteEnd, Alternate, InClientCode
<1>7. CASE GetAdvance
  BY <1>7, <1>r DEF GetAdvance, PCs, Contexts, Main
<1>8. CASE GetRead
  BY <1>8 DEF GetRead, PCs, Frames, Headers, Contexts, Main
<1>9. CASE HandlerReturn
  BY <1>9 DEF HandlerReturn
<1>10. CASE UNCHANGED vars
  BY <1>10 DEF vars
<1> QED
  BY <1>1, <1>2, <1>3, <1>4, <1>5, <1>6, <1>7, <1>8, <1>9, <1>10 DEF Next, Put

(* The facts about the types that the steps below need.                    *)
LEMMA Types ==
    ASSUME IInv
    PROVE  /\ m_queue_start_index \in Slots /\ m_queue_end_index \in Slots
           /\ pc \in [Contexts -> PCs] /\ event_index \in [Contexts -> Slots]
           /\ put_number \in [Contexts -> PutNumbers]
           /\ event_data_size \in [Contexts -> 0 .. EventSize]
           /\ m_queue_event_headers \in [Slots -> Headers]
           /\ m_queue_event_data \in [Slots -> PutNumbers]
           /\ nget \in Nat /\ nput \in Nat /\ Main \in Contexts
           /\ Occupied = nput - nget /\ Occupied \in 0 .. QueueSize
           /\ \A i \in Slots : Away(m_queue_start_index, i) \in 0 .. QueueSize
           /\ running \in Seq(Frames)
<1>1. TypeOK /\ Counted
  BY DEF IInv
<1>2. Main \in Contexts
  BY SchedulerAssumption DEF Main, Contexts
<1>3. nput \in Nat
  BY <1>1, SchedulerAssumption DEF TypeOK, PutNumbers
<1> QED
  BY <1>1, <1>2, <1>3, Ring DEF TypeOK, Counted

(* The innermost handler has a frame.                                      *)
LEMMA TopFrame ==
    ASSUME NEW s \in Seq(Frames), s # <<>>
    PROVE  Len(s) \in 1 .. Len(s) /\ s[Len(s)] \in Frames
OBVIOUS

(* Slots that are not occupied are not being filled, and the slot that was *)
(* taken last is not occupied.                                             *)
LEMMA Apart ==
    ASSUME IInv, NEW l \in Contexts, Filling(l), NEW i \in Slots,
           Away(m_queue_start_index, i) = QueueSize
    PROVE  event_index[l] # i
<1>1. Occupied \in 0 .. QueueSize /\ event_index[l] \in Slots
  BY Ring DEF IInv, TypeOK
<1>2. Away(m_queue_start_index, event_index[l]) < Occupied
  BY DEF IInv, Fillers
<1>3. Away(m_queue_start_index, event_index[l]) \in 0 .. QueueSize
  BY <1>1, Ring DEF IInv
<1> QED
  BY <1>1, <1>2, <1>3, SchedulerAssumption

(* A reservation lengthens the occupied part by a slot that is being       *)
(* filled.                                                                 *)
LEMMA ReserveStep ==
    ASSUME IInv, TypeOK', NEW l \in Contexts, NEW size \in 0 .. EventSize + 1,
           Reserve(l, size)
    PROVE  IInv'
<1> USE SchedulerAssumption
<1>1. /\ m_queue_start_index' = m_queue_start_index
      /\ m_queue_event_headers' = m_queue_event_headers
      /\ m_queue_event_data' = m_queue_event_data
      /\ running' = running /\ loops' = loops /\ nget' = nget
      /\ nput' = nput + 1
      /\ m_queue_end_index' = next_index(m_queue_end_index)
      /\ pc[l] = "idle"
      /\ pc' = [pc EXCEPT ![l] = "reserved"]
      /\ event_index' = [event_index EXCEPT ![l] = m_queue_end_index]
      /\ put_number' = [put_number EXCEPT ![l] = nput + 1]
  BY DEF Reserve, MayPut
<1>2. /\ Occupied' = Occupied + 1
      /\ \A i \in Slots :
            Away(m_queue_start_index, i) = Occupied => i = m_queue_end_index
  <2>1. ~app_sched_queue_full
    BY DEF Reserve
  <2>2. Occupied' = Away(m_queue_start_index, next_index(m_queue_end_index))
    BY <1>1 DEF Occupied
  <2> QED
    BY <2>1, <2>2, EndStep DEF IInv
<1>3. Counted'
  BY <1>1, <1>2, Types DEF Counted
<1>4. Fillers'
  <2> SUFFICES ASSUME NEW k \in Contexts, Filling(k)'
               PROVE  /\ Away(m_queue_start_index, event_index'[k]) < Occupied + 1
                      /\ put_number'[k]
                            = nget + 1 + Away(m_queue_start_index, event_index'[k])
                      /\ pc'[k] = "handler_set" =>
                            m_queue_event_headers[event_index'[k]].handler = put_number'[k]
    BY <1>1, <1>2 DEF Fillers
  <2>1. CASE k = l
    BY <2>1, <1>1, Types DEF Occupied
  <2>2. CASE k # l
    <3>1. /\ pc'[k] = pc[k] /\ event_index'[k] = event_index[k]
          /\ put_number'[k] = put_number[k] /\ event_index[k] \in Slots
      BY <2>2, <1>1, Types
    <3>2. Filling(k)
      BY <3>1 DEF Filling
    <3>3. /\ Away(m_queue_start_index, event_index[k]) < Occupied
          /\ put_number[k] = nget + 1 + Away(m_queue_start_index, event_index[k])
          /\ pc[k] = "handler_set" =>
                m_queue_event_headers[event_index[k]].handler = put_number[k]
      BY <3>2 DEF IInv, Fillers
    <3> QED
      BY <3>1, <3>3, Types
  <2> QED
    BY <2>1, <2>2
<1>5. Filled'
  <2> SUFFICES ASSUME NEW i \in Slots,
                      Away(m_queue_start_index, i) < Occupied + 1,
                      ~Holds(i, nget + 1 + Away(m_queue_start_index, i))
               PROVE  \E k \in Contexts : Filling(k)' /\ event_index'[k] = i
    BY <1>1, <1>2 DEF Filled, Holds
  <2>1. CASE Away(m_queue_start_index, i) = Occupied
    BY <2>1, <1>1, <1>2, Types DEF Filling
  <2>2. CASE Away(m_queue_start_index, i) # Occupied
    <3>1. Away(m_queue_start_index, i) < Occupied
      BY <2>2, Types
    <3>2. PICK k \in Contexts : Filling(k) /\ event_index[k] = i
      BY <3>1 DEF IInv, Filled
    <3>3. k # l
      BY <3>2, <1>1 DEF Filling
    <3> QED
      BY <3>2, <3>3, <1>1, Types DEF Filling
  <2> QED
    BY <2>1, <2>2
<1>6. Taken'
  <2>1. pc'[Main] = "got" =>
           pc[Main] = "got" /\ event_index'[Main] = event_index[Main]
    BY <1>1, Types
  <2> QED
    BY <2>1, <1>1 DEF IInv, Taken, Holds
<1>7. Handled'
  BY <1>1 DEF IInv, Handled, Holds
<1>8. Older' /\ Alternate'
  <2>1. pc'[Main] = "got" => pc[Main] = "got"
    BY <1>1, Types
  <2> QED
    BY <2>1, <1>1 DEF IInv, Older, Alternate
<1> QED
  BY <1>3, <1>4, <1>5, <1>6, <1>7, <1>8 DEF IInv

(* Giving its handler to a slot that is being filled changes neither the   *)
(* slots that are filled nor the one that was taken.                       *)
LEMMA FillHandlerStep ==
    ASSUME IInv, TypeOK', NEW l \in Contexts, FillHandler(l)
    PROVE  IInv'
<1> USE SchedulerAssumption
<1> DEFINE e == event_index[l]
<1>1. /\ m_queue_start_index' = m_queue_start_index
      /\ m_queue_end_index' = m_queue_end_index
      /\ m_queue_event_headers' = [m_queue_event_headers EXCEPT ![e].handler = put_number[l]]
      /\ m_queue_event_data' = m_queue_event_data
      /\ running' = running /\ loops' = loops /\ nget' = nget /\ nput' = nput
      /\ pc[l] = "reserved"
      /\ pc' = [pc EXCEPT ![l] = "handler_set"]
      /\ event_index' = event_index /\ put_number' = put_number
  BY DEF FillHandler
<1>2. /\ m_queue_event_headers'[e].handler = put_number[l]
      /\ \A i \in Slots \ {e} : m_queue_event_headers'[i] = m_queue_event_headers[i]
      /\ Filling(l) /\ Filling(l)' /\ e \in Slots
      /\ \A k \in Contexts : Filling(k)' <=> Filling(k)
  BY <1>1, Types DEF Filling, Headers
<1>3. /\ Occupied' = Occupied
      /\ \A i \in Slots \ {e}, n \in Nat : Holds(i, n)' <=> Holds(i, n)
  BY <1>1, <1>2 DEF Occupied, Holds
<1>4. \A i \in Slots : Away(m_queue_start_index, i) = QueueSize => e # i
  BY <1>2, Apart
<1>5. Counted'
  BY <1>1, <1>3 DEF IInv, Counted
<1>6. Fillers'
  <2> SUFFICES ASSUME NEW k \in Contexts, Filling(k)
               PROVE  /\ Away(m_queue_start_index, event_index[k]) < Occupied
                      /\ put_number[k]
                            = nget + 1 + Away(m_queue_start_index, event_index[k])
                      /\ pc'[k] = "handler_set" =>
                            m_queue_event_headers'[event_index[k]].handler = put_number[k]
    BY <1>1, <1>2, <1>3 DEF Fillers
  <2>1. /\ Away(m_queue_start_index, event_index[k]) < Occupied
        /\ put_number[k] = nget + 1 + Away(m_queue_start_index, event_index[k])
        /\ put_number[l] = nget + 1 + Away(m_queue_start_index, e)
        /\ pc[k] = "handler_set" =>
              m_queue_event_headers[event_index[k]].handler = put_number[k]
    BY <1>2 DEF IInv, Fillers
  <2>2. CASE event_index[k] = e
    BY <2>1, <2>2, <1>2
  <2>3. CASE event_index[k] # e
    BY <2>1, <2>3, <1>1, <1>2, Types
  <2> QED
    BY <2>1, <2>2, <2>3
<1>7. Filled'
  <2> SUFFICES ASSUME NEW i \in Slots, Away(m_queue_start_index, i) < Occupied
               PROVE  \/ Holds(i, nget + 1 + Away(m_queue_start_index, i))'
                      \/ \E k \in Contexts : Filling(k)' /\ event_index[k] = i
    BY <1>1, <1>3 DEF Filled, Holds
  <2>1. CASE i = e
    BY <2>1, <1>2
  <2>2. CASE i # e
    BY <2>2, <1>1, <1>2 DEF IInv, Filled, Holds
  <2> QED
    BY <2>1, <2>2
<1>8. Taken'
  <2> SUFFICES ASSUME pc'[Main] = "got"
               PROVE  /\ Away(m_queue_start_index, event_index[Main]) = QueueSize
                      /\ Holds(event_index[Main], nget)'
    BY <1>1 DEF Taken, Holds
  <2>1. pc[Main] = "got" /\ event_index[Main] \in Slots
    BY <1>1, Types
  <2>2. /\ Away(m_queue_start_index, event_index[Main]) = QueueSize
        /\ Holds(event_index[Main], nget)
    BY <2>1 DEF IInv, Taken
  <2> QED
    BY <2>1, <2>2, <1>1, <1>2, <1>4 DEF Holds
<1>9. Handled'
  <2> DEFINE top == running[Len(running)]
  <2> SUFFICES ASSUME running # <<>>, top.handler = nget
               PROVE  /\ Away(m_queue_start_index, top.slot) = QueueSize
                      /\ Holds(top.slot, nget)'
                      /\ top.event_data_size
                            = m_queue_event_headers'[top.slot].event_data_size
    BY <1>1 DEF Handled, Holds
  <2>1. top.slot \in Slots
    BY Types, TopFrame DEF Frames
  <2>2. /\ Away(m_queue_start_index, top.slot) = QueueSize
        /\ Holds(top.slot, nget)
        /\ top.event_data_size = m_queue_event_headers[top.slot].event_data_size
    BY DEF IInv, Handled
  <2>3. m_queue_event_headers'[top.slot] = m_queue_event_headers[top.slot]
    BY <2>1, <2>2, <1>2, <1>4
  <2> QED
    BY <2>2, <2>3, <1>1 DEF Holds
<1>10. Older' /\ Alternate'
  <2>1. pc'[Main] = "got" => pc[Main] = "got"
    BY <1>1, Types
  <2> QED
    BY <2>1, <1>1 DEF IInv, Older, Alternate
<1> QED
  BY <1>5, <1>6, <1>7, <1>8, <1>9, <1>10 DEF IInv

(* The last write of a put completes its slot.                             *)
LEMMA FillDataStep ==
    ASSUME IInv, TypeOK', NEW l \in Contexts, FillData(l)
    PROVE  IInv'
<1> USE SchedulerAssumption
<1> DEFINE e == event_index[l]
<1>1. /\ m_queue_start_index' = m_queue_start_index
      /\ m_queue_end_index' = m_queue_end_index
      /\ m_queue_event_headers'
            = [m_queue_event_headers EXCEPT ![e].event_data_size = event_data_size[l]]
      /\ m_queue_event_data' = IF event_data_size[l] > 0
                               THEN [m_queue_event_data EXCEPT ![e] = put_number[l]]
                               ELSE m_queue_event_data
      /\ running' = running /\ loops' = loops /\ nget' = nget /\ nput' = nput
      /\ pc[l] = "handler_set"
      /\ pc' = [pc EXCEPT ![l] = "idle"]
      /\ event_index' = event_index /\ put_number' = put_number
  BY DEF FillData
<1>2. /\ m_queue_event_headers'[e].handler = m_queue_event_headers[e].handler
      /\ m_queue_event_headers'[e].event_data_size = event_data_size[l]
      /\ \A i \in Slots \ {e} : /\ m_queue_event_headers'[i] = m_queue_event_headers[i]
                                /\ m_queue_event_data'[i] = m_queue_event_data[i]
      /\ event_data_size[l] > 0 => m_queue_event_data'[e] = put_number[l]
      /\ Filling(l) /\ e \in Slots
      /\ \A k \in Contexts : Filling(k)' <=> (Filling(k) /\ k # l)
  BY <1>1, Types DEF Filling, Headers
<1>3. /\ put_number[l] = nget + 1 + Away(m_queue_start_index, e)
      /\ m_queue_event_headers[e].handler = put_number[l]
  BY <1>1, <1>2 DEF IInv, Fillers
<1>4. /\ Occupied' = Occupied
      /\ \A i \in Slots \ {e} :
            /\ m_queue_event_headers'[i] = m_queue_event_headers[i]
            /\ m_queue_event_data'[i] = m_queue_event_data[i]
  BY <1>1, <1>2 DEF Occupied
<1>5. \A i \in Slots : Away(m_queue_start_index, i) = QueueSize => e # i
  BY <1>2, Apart
<1>6. Counted'
  BY <1>1, <1>4 DEF IInv, Counted
<1>7. Fillers'
  <2> SUFFICES ASSUME NEW k \in Contexts, Filling(k), k # l
               PROVE  /\ Away(m_queue_start_index, event_index[k]) < Occupied
                      /\ put_number[k]
                            = nget + 1 + Away(m_queue_start_index, event_index[k])
                      /\ pc[k] = "handler_set" =>
                            m_queue_event_headers'[event_index[k]].handler = put_number[k]
    BY <1>1, <1>2, <1>4, Types DEF Fillers
  <2>1. /\ Away(m_queue_start_index, event_index[k]) < Occupied
        /\ put_number[k] = nget + 1 + Away(m_queue_start_index, event_index[k])
        /\ pc[k] = "handler_set" =>
              m_queue_event_headers[event_index[k]].handler = put_number[k]
    BY DEF IInv, Fillers
  <2>2. CASE event_index[k] = e
    BY <2>1, <2>2, <1>2
  <2>3. CASE event_index[k] # e
    BY <2>1, <2>3, <1>2, Types
  <2> QED
    BY <2>1, <2>2, <2>3
<1>8. Filled'
  <2> SUFFICES ASSUME NEW i \in Slots, Away(m_queue_start_index, i) < Occupied
               PROVE  \/ Holds(i, nget + 1 + Away(m_queue_start_index, i))'
                      \/ \E k \in Contexts : Filling(k)' /\ event_index[k] = i
    BY <1>1, <1>4 DEF Filled, Holds
  <2>1. CASE i = e
    BY <2>1, <1>1, <1>2, <1>3 DEF Holds
  <2>2. CASE i # e
    <3>1. CASE Holds(i, nget + 1 + Away(m_queue_start_index, i))
      BY <2>2, <3>1, <1>1, <1>4 DEF Holds
    <3>2. CASE \E k \in Contexts : Filling(k) /\ event_index[k] = i
      BY <2>2, <3>2, <1>2
    <3> QED
      BY <3>1, <3>2 DEF IInv, Filled
  <2> QED
    BY <2>1, <2>2
<1>9. Taken'
  <2> SUFFICES ASSUME pc'[Main] = "got"
               PROVE  /\ Away(m_queue_start_index, event_index[Main]) = QueueSize
                      /\ Holds(event_index[Main], nget)'
    BY <1>1 DEF Taken, Holds
  <2>1. pc[Main] = "got" /\ event_index[Main] \in Slots
    BY <1>1, Types
  <2>2. /\ Away(m_queue_start_index, event_index[Main]) = QueueSize
        /\ Holds(event_index[Main], nget)
    BY <2>1 DEF IInv, Taken
  <2> QED
    BY <2>1, <2>2, <1>1, <1>4, <1>5 DEF Holds
<1>10. Handled'
  <2> DEFINE top == running[Len(running)]
  <2> SUFFICES ASSUME running # <<>>, top.handler = nget
               PROVE  /\ Away(m_queue_start_index, top.slot) = QueueSize
                      /\ Holds(top.slot, nget)'
                      /\ top.event_data_size
                            = m_queue_event_headers'[top.slot].event_data_size
    BY <1>1 DEF Handled, Holds
  <2>1. top.slot \in Slots
    BY Types, TopFrame DEF Frames
  <2>2. /\ Away(m_queue_start_index, top.slot) = QueueSize
        /\ Holds(top.slot, nget)
        /\ top.event_data_size = m_queue_event_headers[top.slot].event_data_size
    BY DEF IInv, Handled
  <2> HIDE DEF top
  <2>3. /\ m_queue_event_headers'[top.slot] = m_queue_event_headers[top.slot]
        /\ m_queue_event_data'[top.slot] = m_queue_event_data[top.slot]
    BY <2>1, <2>2, <1>4, <1>5
  <2>4. nget' = nget /\ top' = top
    BY <1>1 DEF top
  <2> QED
    BY <2>2, <2>3, <2>4 DEF Holds
<1>11. Older' /\ Alternate'
  <2>1. pc'[Main] = "got" => pc[Main] = "got"
    BY <1>1, Types
  <2> QED
    BY <2>1, <1>1 DEF IInv, Older, Alternate
<1> QED
  BY <1>6, <1>7, <1>8, <1>9, <1>10, <1>11 DEF IInv

(* A get happens when no put is in progress: the slot it takes is filled.  *)
LEMMA GetAdvanceStep == ASSUME IInv, TypeOK', GetAdvance PROVE IInv'
<1> USE SchedulerAssumption
<1> DEFINE s == m_queue_start_index
<1>1. /\ m_queue_start_index' = next_index(s)
      /\ m_queue_end_index' = m_queue_end_index
      /\ m_queue_event_headers' = m_queue_event_headers
      /\ m_queue_event_data' = m_queue_event_data
      /\ running' = running /\ loops' = loops /\ nget' = nget + 1 /\ nput' = nput
      /\ pc' = [pc EXCEPT ![Main] = "got"]
      /\ event_index' = [event_index EXCEPT ![Main] = s]
      /\ m_queue_end_index # s
      /\ loops # Len(running)
  BY DEF GetAdvance, app_sched_queue_empty, InClientCode
<1>2. \A k \in Contexts : ~Filling(k) /\ ~Filling(k)'
  <2>1. \A k \in Contexts : pc[k] = "idle"
    BY Types DEF GetAdvance, MayRun, Contexts, Main
  <2> QED
    BY <2>1, <1>1, Types DEF Filling
<1>3. \A i \in Slots : Away(next_index(s), i) = IF i = s THEN QueueSize ELSE Away(s, i) - 1
  BY StartStep, Types
<1>4. Occupied' = Occupied - 1
  BY <1>1, <1>3, Types DEF Occupied
<1>5. /\ Away(s, s) = 0 /\ Occupied > 0
      /\ \A i \in Slots : Away(s, i) < Occupied => Holds(i, nget + 1 + Away(s, i))
  <2>1. Away(s, s) = 0
    BY Types DEF Away, Slots
  <2>2. Occupied > 0
    BY <1>1, Types DEF Occupied, Away, Slots
  <2> QED
    BY <2>1, <2>2, <1>2 DEF IInv, Filled
<1>6. Counted'
  BY <1>1, <1>4, Types DEF Counted
<1>7. Fillers'
  BY <1>2 DEF Fillers
<1>8. Filled'
  <2> SUFFICES ASSUME NEW i \in Slots, Away(next_index(s), i) < Occupied - 1
               PROVE  Holds(i, nget + 1 + 1 + Away(next_index(s), i))
    BY <1>1, <1>4 DEF Filled, Holds
  <2>1. i # s
    BY <1>3, Types
  <2>2. Away(next_index(s), i) = Away(s, i) - 1
    BY <1>3, <2>1
  <2>3. nget + 1 + 1 + Away(next_index(s), i) = nget + 1 + Away(s, i)
    BY <2>2, Types
  <2>4. Away(s, i) < Occupied
    BY <2>2, Types
  <2> QED
    BY <2>3, <2>4, <1>5
<1>9. Taken'
  <2>1. event_index'[Main] = s /\ s \in Slots
    BY <1>1, Types
  <2>2. Holds(s, nget + 1)
    BY <2>1, <1>5, Types
  <2> QED
    BY <2>1, <2>2, <1>1, <1>3 DEF Taken, Holds
<1>10. \A k \in 1 .. Len(running) :
          running[k].handler \in Nat /\ running[k].handler < nget + 1
  <2> TAKE k \in 1 .. Len(running)
  <2>1. running[k] \in Frames
    BY Types
  <2>2. running[k].handler <= nget
    BY DEF IInv, Older
  <2>3. running[k].handler \in Nat
    BY <2>1 DEF Frames, PutNumbers
  <2> QED
    BY <2>2, <2>3, Types
<1>11. Handled'
  <2>1. running # <<>> => running[Len(running)].handler < nget + 1
    BY <1>10, Types, TopFrame
  <2>2. running # <<>> => running[Len(running)].handler \in Nat
    BY <1>10, Types, TopFrame
  <2> QED
    BY <2>1, <2>2, <1>1, Types DEF Handled
<1>12. Older'
  BY <1>1, <1>10, Types DEF Older
<1>13. Alternate'
  BY <1>1 DEF IInv, Alternate
<1> QED
  BY <1>6, <1>7, <1>8, <1>9, <1>11, <1>12, <1>13 DEF IInv

(* The handler is called with the event that was taken.                    *)
LEMMA GetReadStep == ASSUME IInv, TypeOK', GetRead PROVE IInv'
<1> USE SchedulerAssumption
<1> DEFINE e == event_index[Main]
           frame == [slot            |-> e,
                     handler         |-> m_queue_event_headers[e].handler,
                     event_data_size |-> m_queue_event_headers[e].event_data_size]
<1>1. /\ m_queue_start_index' = m_queue_start_index
      /\ m_queue_end_index' = m_queue_end_index
      /\ m_queue_event_headers' = m_queue_event_headers
      /\ m_queue_event_data' = m_queue_event_data
      /\ running' = Append(running, frame)
      /\ loops' = loops /\ nget' = nget /\ nput' = nput
      /\ pc[Main] = "got"
      /\ pc' = [pc EXCEPT ![Main] = "idle"]
      /\ event_index' = event_index /\ put_number' = put_number
  BY DEF GetRead
<1>2. \A k \in Contexts : /\ Filling(k)' <=> Filling(k)
                          /\ pc'[k] = "handler_set" <=> pc[k] = "handler_set"
  BY <1>1, Types DEF Filling
<1>3. /\ Away(m_queue_start_index, e) = QueueSize
      /\ Holds(e, nget)
  BY <1>1 DEF IInv, Taken
<1>4. /\ Len(running') = Len(running) + 1
      /\ running'[Len(running')] = frame
      /\ \A k \in 1 .. Len(running) : running'[k] = running[k]
      /\ Len(running) \in Nat
  <2>1. frame \in Frames
    BY Types DEF Frames, Headers
  <2> HIDE DEF frame
  <2> QED
    BY <2>1, <1>1, Types
<1>5. Counted'
  BY <1>1 DEF IInv, Counted, Occupied
<1>6. Fillers'
  BY <1>1, <1>2 DEF IInv, Fillers, Occupied
<1>7. Filled'
  BY <1>1, <1>2 DEF IInv, Filled, Occupied, Holds
<1>8. Taken'
  BY <1>1, Types DEF Taken
<1>9. Handled'
  BY <1>1, <1>3, <1>4 DEF Handled, Holds
<1>10. Older'
  <2> SUFFICES ASSUME NEW k \in 1 .. Len(running) + 1
               PROVE  /\ running'[k].handler <= nget
                      /\ k < Len(running) + 1 => running'[k].handler < nget
    BY <1>1, <1>4, Types DEF Older
  <2>1. CASE k = Len(running) + 1
    <3>1. running'[k].handler = nget
      BY <2>1, <1>3, <1>4 DEF Holds
    <3> QED
      BY <2>1, <3>1, <1>4, Types
  <2>2. CASE k # Len(running) + 1
    <3>1. k \in 1 .. Len(running)
      BY <2>2, <1>4
    <3> QED
      BY <3>1, <1>1, <1>4 DEF IInv, Older
  <2> QED
    BY <2>1, <2>2
<1>11. Alternate'
  <2>1. loops = Len(running) + 1
    BY <1>1 DEF IInv, Alternate
  <2> QED
    BY <2>1, <1>1, <1>4, Types DEF Alternate
<1> QED
  BY <1>5, <1>6, <1>7, <1>8, <1>9, <1>10, <1>11 DEF IInv

(* A handler that returns leaves older ones, if any.                       *)
LEMMA HandlerReturnStep == ASSUME IInv, TypeOK', HandlerReturn PROVE IInv'
<1> USE SchedulerAssumption
<1>1. /\ m_queue_start_index' = m_queue_start_index
      /\ m_queue_end_index' = m_queue_end_index
      /\ m_queue_event_headers' = m_queue_event_headers
      /\ m_queue_event_data' = m_queue_event_data
      /\ loops' = loops /\ nget' = nget /\ nput' = nput
      /\ pc' = pc /\ event_index' = event_index /\ put_number' = put_number
      /\ running # <<>> /\ loops = Len(running) /\ pc[Main] = "idle"
      /\ running' = SubSeq(running, 1, Len(running) - 1)
  BY DEF HandlerReturn, InClientCode
<1>2. /\ Len(running) \in Nat \ {0}
      /\ Len(running') = Len(running) - 1
      /\ \A k \in 1 .. Len(running) - 1 : running'[k] = running[k]
  BY <1>1, Types
<1>3. \A k \in 1 .. Len(running') :
          running'[k].handler < nget /\ running'[k].handler \in Nat
  <2> SUFFICES ASSUME NEW k \in 1 .. Len(running) - 1
               PROVE  running[k].handler < nget /\ running[k].handler \in Nat
    BY <1>2
  <2>1. k \in 1 .. Len(running) /\ k < Len(running)
    BY <1>2
  <2>2. running[k].handler < nget
    BY <2>1 DEF IInv, Older
  <2>3. running[k] \in Frames
    BY <2>1, Types
  <2> QED
    BY <2>2, <2>3 DEF Frames, PutNumbers
<1>4. /\ \A i \in Slots, n \in Nat : Holds(i, n)' <=> Holds(i, n)
      /\ Occupied' = Occupied
  BY <1>1 DEF Holds, Occupied
<1>5. Counted' /\ Fillers' /\ Filled' /\ Taken'
  BY <1>1, <1>4 DEF IInv, Counted, Fillers, Filled, Taken, Filling, Holds
<1>6. Handled'
  <2>1. running' # <<>> => Len(running') \in 1 .. Len(running')
    BY <1>1, <1>2, Types
  <2>2. running' # <<>> => running'[Len(running')].handler # nget
    BY <2>1, <1>3, Types
  <2> QED
    BY <2>2, <1>1 DEF Handled
<1>7. Older'
  BY <1>1, <1>3, Types DEF Older
<1>8. Alternate'
  BY <1>1, <1>2 DEF Alternate
<1> QED
  BY <1>5, <1>6, <1>7, <1>8 DEF IInv

(* Steps that change neither the ring nor the frames.                      *)
LEMMA OtherStep ==
    ASSUME IInv, TypeOK',
           UNCHANGED <<m_queue_start_index, m_queue_end_index, m_queue_event_headers,
                       m_queue_event_data, pc, event_index, put_number, running,
                       nput, nget>>,
           Alternate'
    PROVE  IInv'
BY DEF IInv, Counted, Fillers, Filled, Taken, Handled, Older, Filling, Holds, Occupied

(* The invariant is inductive.                                             *)
LEMMA InvariantStep == ASSUME IInv, [Next]_vars PROVE IInv'
<1>0. TypeOK'
  BY TypeStep DEF IInv
<1>1. ASSUME NEW l \in Contexts, NEW size \in 0 .. EventSize + 1, Reserve(l, size)
      PROVE  IInv'
  BY <1>0, <1>1, ReserveStep
<1>2. ASSUME NEW l \in Contexts, NEW size \in 0 .. EventSize + 1,
             RefuseFull(l, size) \/ RefuseLong(l, size)
      PROVE  IInv'
  BY <1>0, <1>2, OtherStep DEF RefuseFull, RefuseLong, IInv, Alternate
<1>3. ASSUME NEW l \in Contexts, FillHandler(l) PROVE IInv'
  BY <1>0, <1>3, FillHandlerStep
<1>4. ASSUME NEW l \in Contexts, FillData(l) PROVE IInv'
  BY <1>0, <1>4, FillDataStep
<1>5. CASE ExecuteBegin
  BY <1>0, <1>5, OtherStep DEF ExecuteBegin, InClientCode, Alternate
<1>6. CASE ExecuteEnd
  BY <1>0, <1>6, OtherStep DEF ExecuteEnd, InClientCode, Alternate, IInv, TypeOK
<1>7. CASE GetAdvance
  BY <1>0, <1>7, GetAdvanceStep
<1>8. CASE GetRead
  BY <1>0, <1>8, GetReadStep
<1>9. CASE HandlerReturn
  BY <1>0, <1>9, HandlerReturnStep
<1>10. CASE UNCHANGED vars
  BY <1>0, <1>10, OtherStep DEF vars, IInv, Alternate
<1> QED
  BY <1>1, <1>2, <1>3, <1>4, <1>5, <1>6, <1>7, <1>8, <1>9, <1>10 DEF Next, Put

THEOREM InvariantHolds == Spec => []IInv
<1>1. IInv /\ [Next]_vars => IInv'
  BY InvariantStep
<1> QED
  BY InitInvariant, <1>1, PTL DEF Spec

(* The indices stay inside the ring, whatever the interrupts do.           *)
THEOREM TypeCorrect == Spec => []TypeOK
<1>1. IInv => TypeOK
  BY DEF IInv
<1> QED
  BY <1>1, InvariantHolds, PTL

(* Main takes the events in the order of the puts and never one that is    *)
(* still being filled in: the two NOTEs of app_scheduler.c are right.      *)
THEOREM TakesNextFilled == Spec => []TakenIsNext
<1>1. IInv => TakenIsNext
  BY DEF IInv, Taken, TakenIsNext
<1> QED
  BY <1>1, InvariantHolds, PTL

(* The data a running handler was given are not overwritten by puts.       *)
THEOREM HandlerDataSafe == Spec => []HandlerKeepsData
<1>1. IInv => HandlerKeepsData
  BY DEF IInv, Handled, HandlerKeepsData
<1> QED
  BY <1>1, InvariantHolds, PTL

(* The queue refuses a put exactly when QueueSize events wait.             *)
THEOREM CapacityExact == Spec => []FullAtCapacity
<1>1. IInv => FullAtCapacity
  <2> SUFFICES ASSUME IInv PROVE FullAtCapacity
    OBVIOUS
  <2>1. Occupied = QueueSize <=> next_index(m_queue_end_index) = m_queue_start_index
    <3> DEFINE s == m_queue_start_index
               n == m_queue_end_index
    <3>1. s \in 0 .. QueueSize /\ n \in 0 .. QueueSize
      BY Types DEF Slots
    <3>2. Occupied = IF n >= s THEN n - s ELSE n - s + QueueSize + 1
      BY DEF Occupied, Away
    <3>3. next_index(n) = IF n < QueueSize THEN n + 1 ELSE 0
      BY DEF next_index
    <3> HIDE DEF s, n
    <3>4. Occupied = QueueSize <=> next_index(n) = s
      BY <3>1, <3>2, <3>3, SchedulerAssumption
    <3> QED
      BY <3>4 DEF s, n
  <2> QED
    BY <2>1, Types DEF FullAtCapacity, app_sched_queue_full
<1> QED
  BY <1>1, InvariantHolds, PTL

-----------------------------------------------------------------------------
(* The refinement of EventQueue.                                           *)

(* No two puts in progress fill the same slot.                             *)
Unshared ==
    \A k, l \in Contexts :
        Filling(k) /\ Filling(l) /\ event_index[k] = event_index[l] => k = l

RInv == IInv /\ Unshared

-----------------------------------------------------------------------------
(* A reservation takes a slot that no put in progress has; all others      *)
(* leave slots with whom they are, or give them up.                        *)
LEMMA UnsharedStep == ASSUME RInv, [Next]_vars PROVE Unshared'
<1> USE DEF RInv
<1>1. ASSUME NEW l \in Contexts, NEW size \in 0 .. EventSize + 1, Reserve(l, size)
      PROVE  Unshared'
  <2>1. /\ pc' = [pc EXCEPT ![l] = "reserved"]
        /\ event_index' = [event_index EXCEPT ![l] = m_queue_end_index]
    BY <1>1 DEF Reserve
  <2>2. \A k \in Contexts : Filling(k) => event_index[k] # m_queue_end_index
    <3> SUFFICES ASSUME NEW k \in Contexts, Filling(k)
                 PROVE  event_index[k] # m_queue_end_index
      OBVIOUS
    <3>1. Away(m_queue_start_index, event_index[k]) < Occupied
      BY DEF IInv, Fillers
    <3>2. Occupied \in 0 .. QueueSize
      BY Types
    <3> QED
      BY <3>1, <3>2, SchedulerAssumption DEF Occupied
  <2>3. \A k \in Contexts : k # l =>
           (Filling(k)' <=> Filling(k)) /\ event_index'[k] = event_index[k]
    BY <2>1, Types DEF Filling
  <2>4. event_index'[l] = m_queue_end_index
    BY <2>1, Types
  <2> QED
    BY <2>2, <2>3, <2>4 DEF Unshared
<1>2. ASSUME NEW l \in Contexts, NEW size \in 0 .. EventSize + 1,
             RefuseFull(l, size) \/ RefuseLong(l, size)
      PROVE  Unshared'
  BY <1>2 DEF RefuseFull, RefuseLong, Unshared, Filling
<1>3. ASSUME NEW l \in Contexts, FillHandler(l) \/ FillData(l) PROVE Unshared'
  <2>1. /\ pc' = [pc EXCEPT ![l] = "handler_set"] \/ pc' = [pc EXCEPT ![l] = "idle"]
        /\ Filling(l)
        /\ event_index' = event_index
    BY <1>3 DEF FillHandler, FillData, Filling
  <2>2. \A k \in Contexts : Filling(k)' => Filling(k)
    BY <2>1, Types DEF Filling
  <2> QED
    BY <2>1, <2>2 DEF Unshared
<1>4. CASE ExecuteBegin \/ ExecuteEnd \/ HandlerReturn
  BY <1>4 DEF ExecuteBegin, ExecuteEnd, HandlerReturn, Unshared, Filling
<1>5. CASE GetAdvance
  <2>1. \A k \in Contexts : pc[k] = "idle"
    BY <1>5, Types DEF GetAdvance, MayRun, Contexts, Main
  <2>2. \A k \in Contexts : ~Filling(k)'
    BY <1>5, <2>1, Types DEF GetAdvance, Filling
  <2> QED
    BY <2>2 DEF Unshared
<1>6. CASE GetRead
  <2>1. event_index' = event_index /\ \A k \in Contexts : Filling(k)' => Filling(k)
    BY <1>6, Types DEF GetRead, Filling
  <2> QED
    BY <2>1 DEF Unshared
<1>7. CASE UNCHANGED vars
  BY <1>7 DEF vars, Unshared, Filling
<1> QED
  BY <1>1, <1>2, <1>3, <1>4, <1>5, <1>6, <1>7 DEF Next, Put

(* What is needed of the reachable states.                                 *)
LEMMA RInvariantHolds == Spec => []RInv
<1>1. Init => Unshared
  BY SchedulerAssumption DEF Init, Unshared, Filling
<1>2. RInv /\ [Next]_vars => RInv'
  BY UnsharedStep, InvariantStep DEF RInv
<1>3. Init => RInv
  BY <1>1, InitInvariant DEF RInv
<1> QED
  BY <1>2, <1>3, PTL DEF Spec

-----------------------------------------------------------------------------
(* The event of a slot, as a function of the variables.                    *)
EventIn(p, index, number, size, headers, i) ==
    LET fillers == {l \in Contexts : p[l] \in {"reserved", "handler_set"} /\ index[l] = i}
    IN  IF fillers = {}
        THEN [handler |-> headers[i].handler,
              event_data_size |-> headers[i].event_data_size]
        ELSE LET l == CHOOSE k \in fillers : TRUE
             IN  [handler |-> number[l], event_data_size |-> size[l]]

(* The event in a slot, as the fillers and their arguments say it.          *)
LEMMA EventInState ==
    \A i : /\ Event(i) = EventIn(pc, event_index, put_number, event_data_size,
                                 m_queue_event_headers, i)
           /\ Event(i)' = EventIn(pc', event_index', put_number', event_data_size',
                                  m_queue_event_headers', i)
BY DEF Event, EventIn

(* A slot that no put is filling has the event it holds ...                *)
LEMMA Held ==
    ASSUME NEW p, NEW index, NEW number, NEW size, NEW headers, NEW i,
           \A l \in Contexts : ~(p[l] \in {"reserved", "handler_set"} /\ index[l] = i)
    PROVE  EventIn(p, index, number, size, headers, i)
              = [handler |-> headers[i].handler,
                 event_data_size |-> headers[i].event_data_size]
BY DEF EventIn

(* ... and a slot that one put is filling has that put's event.            *)
LEMMA Coming ==
    ASSUME NEW p, NEW index, NEW number, NEW size, NEW headers, NEW i,
           NEW l \in Contexts,
           \A k \in Contexts :
               p[k] \in {"reserved", "handler_set"} /\ index[k] = i <=> k = l
    PROVE  EventIn(p, index, number, size, headers, i)
              = [handler |-> number[l], event_data_size |-> size[l]]
<1> DEFINE fillers == {k \in Contexts : p[k] \in {"reserved", "handler_set"} /\ index[k] = i}
<1>1. fillers = {l}
  OBVIOUS
<1>2. (CHOOSE k \in fillers : TRUE) = l
  BY <1>1
<1> QED
  BY <1>1, <1>2 DEF EventIn

(* What the types say about the part of the ring that is occupied.         *)
LEMMA Places ==
    ASSUME IInv
    PROVE  /\ Occupied \in 0 .. QueueSize
           /\ \A k \in 1 .. Occupied :
                 /\ Place(m_queue_start_index, k - 1) \in Slots
                 /\ Away(m_queue_start_index, Place(m_queue_start_index, k - 1)) = k - 1
<1>1. Occupied \in 0 .. QueueSize /\ m_queue_start_index \in 0 .. QueueSize
  BY Types DEF Slots
<1> QED
  BY <1>1, SchedulerAssumption DEF Place, Away, Slots

(* A step that leaves the indices and the events between them alone leaves *)
(* the abstract queue alone.                                               *)
LEMMA SameQueue ==
    ASSUME IInv, UNCHANGED <<m_queue_start_index, m_queue_end_index>>,
           \A i \in Slots :
               Away(m_queue_start_index, i) < Occupied => Event(i)' = Event(i)
    PROVE  waiting' = waiting
<1>1. Occupied' = Occupied
  BY DEF Occupied
<1>2. waiting' = [k \in 1 .. Occupied |-> Event(Place(m_queue_start_index, k - 1))']
  BY <1>1 DEF waiting
<1>3. \A k \in 1 .. Occupied :
         Event(Place(m_queue_start_index, k - 1))' = Event(Place(m_queue_start_index, k - 1))
  <2> TAKE k \in 1 .. Occupied
  <2> DEFINE i == Place(m_queue_start_index, k - 1)
  <2>1. i \in Slots /\ Away(m_queue_start_index, i) = k - 1 /\ k - 1 < Occupied
    BY Places
  <2>2. i' = i
    BY DEF Place
  <2> QED
    BY <2>1, <2>2
<1> QED
  BY <1>2, <1>3 DEF waiting

(* Nor does a step change the event at which the innermost get is.         *)
LEMMA SameActive ==
    ASSUME running' = running, pc'[Main] = "got" <=> pc[Main] = "got",
           pc[Main] = "got" =>
              /\ event_index'[Main] = event_index[Main]
              /\ Event(event_index[Main])' = Event(event_index[Main])
    PROVE  active' = active
BY DEF active

(* A slot keeps its event when its fillers, their arguments and its header *)
(* stay.                                                                   *)
LEMMA SameEvent ==
    ASSUME NEW i, m_queue_event_headers'[i] = m_queue_event_headers[i],
           \A k \in Contexts :
               /\ Filling(k)' /\ event_index'[k] = i <=> Filling(k) /\ event_index[k] = i
               /\ Filling(k) /\ event_index[k] = i =>
                     put_number'[k] = put_number[k] /\ event_data_size'[k] = event_data_size[k]
    PROVE  Event(i)' = Event(i)
<1> DEFINE fillers == {k \in Contexts : Filling(k) /\ event_index[k] = i}
           l == CHOOSE k \in fillers : TRUE
<1>1. fillers = {k \in Contexts : Filling(k)' /\ event_index'[k] = i}
  OBVIOUS
<1>2. Event(i) = IF fillers = {}
                 THEN [handler |-> m_queue_event_headers[i].handler,
                       event_data_size |-> m_queue_event_headers[i].event_data_size]
                 ELSE [handler |-> put_number[l], event_data_size |-> event_data_size[l]]
  BY DEF Event, Filling
<1>3. Event(i)' = IF fillers = {}
                  THEN [handler |-> m_queue_event_headers'[i].handler,
                        event_data_size |-> m_queue_event_headers'[i].event_data_size]
                  ELSE [handler |-> put_number'[l], event_data_size |-> event_data_size'[l]]
  BY <1>1 DEF Event, Filling
<1>4. fillers # {} => l \in fillers
  OBVIOUS
<1> HIDE DEF l
<1> QED
  BY <1>2, <1>3, <1>4

-----------------------------------------------------------------------------
(* The steps of a put that fill its slot are none of the abstract queue.   *)
LEMMA FillStutters ==
    ASSUME RInv, NEW l \in Contexts, FillHandler(l) \/ FillData(l)
    PROVE  UNCHANGED <<waiting, active>>
<1> USE DEF RInv
<1> PICK e \in Slots : e = event_index[l]
  BY Types
<1>1. /\ UNCHANGED <<m_queue_start_index, m_queue_end_index, running, event_index,
                     event_data_size, put_number>>
      /\ Filling(l)
      /\ pc' = [pc EXCEPT ![l] = "handler_set"] \/ pc' = [pc EXCEPT ![l] = "idle"]
  BY Types DEF FillHandler, FillData, Filling
<1>2. \A i \in Slots \ {e} : m_queue_event_headers'[i] = m_queue_event_headers[i]
  BY Types DEF FillHandler, FillData
<1>3. \A k \in Contexts \ {l} : pc'[k] = pc[k]
  BY <1>1, Types
<1>4. \A i \in Slots \ {e} : Event(i)' = Event(i)
  <2> TAKE i \in Slots \ {e}
  <2>1. \A k \in Contexts :
           Filling(k)' /\ event_index'[k] = i <=> Filling(k) /\ event_index[k] = i
    BY <1>1, <1>3 DEF Filling
  <2> QED
    BY <2>1, <1>1, <1>2, SameEvent
<1>5. Event(e) = [handler |-> put_number[l], event_data_size |-> event_data_size[l]]
  <2>1. \A k \in Contexts : Filling(k) /\ event_index[k] = e <=> k = l
    BY <1>1 DEF Unshared
  <2>2. EventIn(pc, event_index, put_number, event_data_size, m_queue_event_headers, e)
           = [handler |-> put_number[l], event_data_size |-> event_data_size[l]]
    BY <2>1, Coming DEF Filling
  <2> QED
    BY <2>2, EventInState
<1>6. Event(e)' = [handler |-> put_number[l], event_data_size |-> event_data_size[l]]
  <2>1. \A k \in Contexts : Filling(k)' /\ event_index'[k] = e => k = l
    BY <1>1, <1>3 DEF Unshared, Filling
  <2>2. CASE FillHandler(l)
    <3>1. \A k \in Contexts : Filling(k)' /\ event_index'[k] = e <=> k = l
      BY <2>1, <2>2, Types DEF FillHandler, Filling
    <3>2. EventIn(pc', event_index', put_number', event_data_size',
                  m_queue_event_headers', e)
             = [handler |-> put_number'[l], event_data_size |-> event_data_size'[l]]
      BY <3>1, Coming DEF Filling
    <3> QED
      BY <3>2, <1>1, EventInState
  <2>3. CASE FillData(l)
    <3>1. \A k \in Contexts : ~(Filling(k)' /\ event_index'[k] = e)
      BY <2>1, <2>3, Types DEF FillData, Filling
    <3>2. m_queue_event_headers[e].handler = put_number[l]
      BY <1>1, <2>3 DEF IInv, Fillers, FillData
    <3>3. /\ m_queue_event_headers'[e].handler = put_number[l]
          /\ m_queue_event_headers'[e].event_data_size = event_data_size[l]
      BY <1>1, <2>3, <3>2, Types DEF FillData, Headers
    <3> QED
      BY <3>1, <3>3, <1>1, EventInState, Held DEF Filling
  <2> QED
    BY <2>2, <2>3
<1>7. \A i \in Slots : Event(i)' = Event(i)
  BY <1>4, <1>5, <1>6
<1>8. waiting' = waiting
  BY <1>1, <1>7, SameQueue
<1>9. active' = active
  <2>1. pc'[Main] = "got" <=> pc[Main] = "got"
    BY <1>1, <1>3, Types DEF Filling
  <2>2. event_index[Main] \in Slots
    BY Types
  <2>3. Event(event_index[Main])' = Event(event_index[Main])
    BY <2>2, <1>7, <1>1
  <2> QED
    BY <2>1, <2>3, <1>1, SameActive
<1> QED
  BY <1>8, <1>9

-----------------------------------------------------------------------------
(* The two sequences of the abstract queue, element by element.            *)
Elements ==
    /\ waiting \in Seq(Headers) /\ Len(waiting) = Occupied
    /\ \A k \in 1 .. Occupied : waiting[k] = Event(Place(m_queue_start_index, k - 1))
    /\ active \in Seq(Headers)
    /\ Len(active) = Len(running) + (IF pc[Main] = "got" THEN 1 ELSE 0)
    /\ \A k \in 1 .. Len(running) :
          active[k] = [handler |-> running[k].handler,
                       event_data_size |-> running[k].event_data_size]
    /\ pc[Main] = "got" => active[Len(running) + 1] = Event(event_index[Main])

(* In a state of the invariant the two sequences have these elements ...   *)
LEMMA ElementsHold == IInv => Elements
<1> SUFFICES ASSUME IInv PROVE Elements
  OBVIOUS
<1>1. \A i \in Slots : Event(i) \in Headers
  <2> TAKE i \in Slots
  <2> DEFINE fillers == {k \in Contexts : pc[k] \in {"reserved", "handler_set"} /\ event_index[k] = i}
             l == CHOOSE k \in fillers : TRUE
  <2>1. Event(i) = IF fillers = {}
                   THEN [handler |-> m_queue_event_headers[i].handler,
                         event_data_size |-> m_queue_event_headers[i].event_data_size]
                   ELSE [handler |-> put_number[l], event_data_size |-> event_data_size[l]]
    BY DEF Event
  <2>2. fillers # {} => l \in Contexts
    OBVIOUS
  <2> HIDE DEF fillers, l
  <2> QED
    BY <2>1, <2>2, Types DEF Headers
<1>2. \A k \in 1 .. Occupied : Event(Place(m_queue_start_index, k - 1)) \in Headers
  BY <1>1, Places
<1>3. waiting \in [1 .. Occupied -> Headers]
  BY <1>2 DEF waiting
<1>4. /\ waiting \in Seq(Headers) /\ Len(waiting) = Occupied
      /\ \A k \in 1 .. Occupied : waiting[k] = Event(Place(m_queue_start_index, k - 1))
  <2>1. waiting \in Seq(Headers)
    BY <1>3, Places, SeqDef
  <2>2. \A k \in 1 .. Occupied : waiting[k] = Event(Place(m_queue_start_index, k - 1))
    BY DEF waiting
  <2>3. Len(waiting) = Occupied
    BY <1>3, <2>1, Places, LenProperties
  <2> QED
    BY <2>1, <2>2, <2>3
<1> DEFINE called == [k \in 1 .. Len(running) |->
                        [handler         |-> running[k].handler,
                         event_data_size |-> running[k].event_data_size]]
<1>5. /\ Len(running) \in Nat
      /\ \A k \in 1 .. Len(running) : running[k] \in Frames
  BY Types, LenProperties, ElementOfSeq
<1>6. /\ called \in Seq(Headers) /\ Len(called) = Len(running)
      /\ \A k \in 1 .. Len(running) :
            called[k] = [handler |-> running[k].handler,
                         event_data_size |-> running[k].event_data_size]
  <2>1. called \in [1 .. Len(running) -> Headers]
    BY <1>5 DEF Frames, Headers
  <2>2. called \in Seq(Headers)
    BY <1>5, <2>1, SeqDef
  <2>3. Len(called) = Len(running)
    BY <1>5, <2>1, <2>2, LenProperties
  <2> QED
    BY <2>2, <2>3
<1>7. active = IF pc[Main] = "got" THEN Append(called, Event(event_index[Main])) ELSE called
  BY DEF active
<1>8. Event(event_index[Main]) \in Headers
  BY <1>1, Types
<1> HIDE DEF called
<1>9. /\ active \in Seq(Headers)
      /\ Len(active) = Len(running) + (IF pc[Main] = "got" THEN 1 ELSE 0)
      /\ \A k \in 1 .. Len(running) : active[k] = called[k]
      /\ pc[Main] = "got" => active[Len(running) + 1] = Event(event_index[Main])
  BY <1>5, <1>6, <1>7, <1>8, AppendProperties
<1> QED
  BY <1>4, <1>6, <1>9 DEF Elements

(* ... and in the state after a step from one.                             *)
LEMMA ElementsNext == IInv' => Elements'
BY ElementsHold, PTL

(* Reserving a slot puts the event into the abstract queue.                *)
LEMMA ReservePuts ==
    ASSUME RInv, IInv', NEW l \in Contexts, NEW size \in 0 .. EventSize + 1,
           Reserve(l, size)
    PROVE  \E e \in Headers : Queue!Put(e)
<1> USE DEF RInv
<1> DEFINE e == [handler |-> nput + 1, event_data_size |-> size]
<1> PICK n \in Slots : n = m_queue_end_index
  BY Types
<1>1. /\ m_queue_start_index' = m_queue_start_index
      /\ m_queue_end_index' = next_index(n)
      /\ m_queue_event_headers' = m_queue_event_headers
      /\ running' = running
      /\ pc[l] = "idle" /\ pc' = [pc EXCEPT ![l] = "reserved"]
      /\ event_index' = [event_index EXCEPT ![l] = n]
      /\ put_number' = [put_number EXCEPT ![l] = nput + 1]
      /\ event_data_size' = [event_data_size EXCEPT ![l] = size]
      /\ nput < MaxPut /\ size <= EventSize
      /\ ~app_sched_queue_full
  BY DEF Reserve, MayPut
<1>2. e \in Headers
  <2>1. nput + 1 \in PutNumbers
    <3>1. nput \in Nat /\ nput < MaxPut
      BY <1>1, Types
    <3> QED
      BY <3>1, SchedulerAssumption DEF PutNumbers
  <2>2. size \in 0 .. EventSize
    <3>1. size <= EventSize
      BY <1>1
    <3> QED
      BY <3>1, SchedulerAssumption
  <2> QED
    BY <2>1, <2>2 DEF Headers
<1>3. Occupied' = Occupied + 1 /\ Occupied < QueueSize
  <2>1. Occupied' = Away(m_queue_start_index, next_index(n))
    BY <1>1 DEF Occupied
  <2>2. Away(m_queue_start_index, next_index(n)) = Occupied + 1
    BY <1>1, EndStep DEF IInv
  <2>3. Occupied + 1 \in 0 .. QueueSize
    BY <2>2, Ring DEF IInv
  <2> QED
    BY <2>1, <2>2, <2>3, Types, SchedulerAssumption
<1>4. Away(m_queue_start_index, n) = Occupied
  BY DEF Occupied
<1>5. \A k \in Contexts \ {l} :
         /\ pc'[k] = pc[k] /\ event_index'[k] = event_index[k]
         /\ put_number'[k] = put_number[k] /\ event_data_size'[k] = event_data_size[k]
  BY <1>1, Types
<1>6. ~Filling(l) /\ Filling(l)' /\ event_index'[l] = n
  BY <1>1, Types DEF Filling
<1>7. \A i \in Slots \ {n} : Event(i)' = Event(i)
  <2> TAKE i \in Slots \ {n}
  <2>1. \A k \in Contexts :
           /\ Filling(k)' /\ event_index'[k] = i <=> Filling(k) /\ event_index[k] = i
           /\ Filling(k) /\ event_index[k] = i =>
                 put_number'[k] = put_number[k] /\ event_data_size'[k] = event_data_size[k]
    BY <1>5, <1>6 DEF Filling
  <2> QED
    BY <2>1, <1>1, SameEvent
<1>8. Event(n)' = e
  <2>1. \A k \in Contexts : Filling(k) => event_index[k] # n
    <3> SUFFICES ASSUME NEW k \in Contexts, Filling(k) PROVE event_index[k] # n
      OBVIOUS
    <3>1. Away(m_queue_start_index, event_index[k]) < Occupied
      BY DEF IInv, Fillers
    <3> QED
      BY <3>1, <1>4, Types
  <2>2. \A k \in Contexts : Filling(k)' /\ event_index'[k] = n <=> k = l
    BY <2>1, <1>5, <1>6 DEF Filling
  <2>3. EventIn(pc', event_index', put_number', event_data_size',
                m_queue_event_headers', n)
           = [handler |-> put_number'[l], event_data_size |-> event_data_size'[l]]
    BY <2>2, Coming DEF Filling
  <2>4. put_number'[l] = nput + 1 /\ event_data_size'[l] = size
    BY <1>1, Types
  <2> QED
    BY <2>3, <2>4, EventInState
<1> HIDE DEF e
<1>9. Elements /\ Elements'
  BY ElementsHold, ElementsNext
<1>10. \A k \in 1 .. Occupied + 1 : waiting'[k] = IF k <= Occupied THEN waiting[k] ELSE e
  <2> TAKE k \in 1 .. Occupied + 1
  <2> PICK i : i = Place(m_queue_start_index, k - 1)
    OBVIOUS
  <2>1. waiting'[k] = Event(i)'
    <3>1. Place(m_queue_start_index, k - 1)' = i
      BY <1>1 DEF Place
    <3> QED
      BY <3>1, <1>3, <1>9 DEF Elements
  <2>2. CASE k <= Occupied
    <3>1. /\ k \in 1 .. Occupied /\ i \in Slots
          /\ Away(m_queue_start_index, i) = k - 1
      BY <2>2, Places, Types
    <3>2. i # n
      BY <3>1, <1>4, Types
    <3> QED
      BY <2>1, <2>2, <3>1, <3>2, <1>7, <1>9 DEF Elements
  <2>3. CASE k = Occupied + 1
    <3>1. k - 1 = Away(m_queue_start_index, n)
      BY <2>3, <1>4, Types
    <3>2. m_queue_start_index \in 0 .. QueueSize /\ n \in 0 .. QueueSize
      BY Types DEF Slots
    <3>3. Place(m_queue_start_index, Away(m_queue_start_index, n)) = n
      BY <3>2, SchedulerAssumption DEF Place, Away
    <3>4. ~(k <= Occupied)
      BY <2>3, Types
    <3> QED
      BY <2>1, <3>1, <3>3, <3>4, <1>8
  <2> QED
    BY <2>2, <2>3, Types
<1>11. waiting' = Append(waiting, e)
  <2>1. /\ waiting \in Seq(Headers) /\ waiting' \in Seq(Headers)
        /\ Len(waiting) = Occupied /\ Len(waiting') = Occupied + 1
    BY <1>3, <1>9 DEF Elements
  <2>2. /\ Append(waiting, e) \in Seq(Headers)
        /\ Len(Append(waiting, e)) = Occupied + 1
        /\ \A k \in 1 .. Occupied : Append(waiting, e)[k] = waiting[k]
        /\ Append(waiting, e)[Occupied + 1] = e
    BY <2>1, <1>2, AppendProperties
  <2>3. \A k \in 1 .. Len(waiting') : waiting'[k] = Append(waiting, e)[k]
    BY <2>1, <2>2, <1>10, Types
  <2> QED
    BY <2>1, <2>2, <2>3, SeqEqual
<1>12. active' = active
  <2>1. pc'[Main] = "got" <=> pc[Main] = "got"
    BY <1>1, Types
  <2>2. ASSUME pc[Main] = "got" PROVE event_index[Main] \in Slots \ {n}
    <3>1. Away(m_queue_start_index, event_index[Main]) = QueueSize
      BY <2>2 DEF IInv, Taken
    <3>2. event_index[Main] \in Slots
      BY Types
    <3>3. Occupied # QueueSize
      BY <1>3, Types
    <3> QED
      BY <3>1, <3>2, <3>3, <1>4
  <2>3. pc[Main] = "got" => event_index'[Main] = event_index[Main]
    BY <1>1, Types
  <2>4. pc[Main] = "got" => Event(event_index[Main])' = Event(event_index[Main])
    BY <2>2, <2>3, <1>7
  <2> QED
    BY <2>1, <2>3, <2>4, <1>1, SameActive
<1>13. Len(waiting) < QueueSize
  BY <1>3, <1>9 DEF Elements
<1> QED
  BY <1>2, <1>11, <1>12, <1>13 DEF Queue!Put

(* A get begins when no put is in progress: every slot has the event it    *)
(* holds, and the oldest one becomes the innermost active event.           *)
LEMMA GetAdvanceTakes ==
    ASSUME RInv, IInv', GetAdvance
    PROVE  Queue!Take
<1> USE DEF RInv
<1> PICK s \in Slots : s = m_queue_start_index
  BY Types
<1>1. /\ m_queue_start_index' = next_index(s)
      /\ m_queue_end_index' = m_queue_end_index
      /\ m_queue_event_headers' = m_queue_event_headers
      /\ running' = running
      /\ pc[Main] = "idle" /\ pc' = [pc EXCEPT ![Main] = "got"]
      /\ event_index' = [event_index EXCEPT ![Main] = s]
      /\ m_queue_end_index # s
  BY DEF GetAdvance, app_sched_queue_empty
<1>2. \A k \in Contexts : ~Filling(k) /\ ~Filling(k)'
  <2>1. \A k \in Contexts : pc[k] = "idle"
    BY Types DEF GetAdvance, MayRun, Contexts, Main
  <2> QED
    BY <2>1, <1>1, Types DEF Filling
<1>3. \A i \in Slots : Event(i)' = Event(i)
  BY <1>1, <1>2, SameEvent
<1>4. Occupied' = Occupied - 1 /\ Occupied > 0
  <2>1. Away(next_index(s), m_queue_end_index) = Away(s, m_queue_end_index) - 1
    BY <1>1, StartStep, Types
  <2>2. Occupied > 0
    <3>1. m_queue_end_index \in Slots /\ m_queue_end_index # s
      BY <1>1, Types
    <3> QED
      BY <3>1, SchedulerAssumption DEF Occupied, Away, Slots
  <2> QED
    BY <2>1, <2>2, <1>1 DEF Occupied
<1>5. \A k \in 1 .. Occupied - 1 : Place(next_index(s), k - 1) = Place(s, k)
  <2>1. Occupied \in 0 .. QueueSize /\ s \in 0 .. QueueSize
    BY Types DEF Slots
  <2> QED
    BY <2>1, SchedulerAssumption DEF Place, next_index
<1>6. Elements /\ Elements'
  BY ElementsHold, ElementsNext
<1>7. \A k \in 1 .. Occupied - 1 : waiting'[k] = waiting[k + 1]
  <2> TAKE k \in 1 .. Occupied - 1
  <2> PICK i : i = Place(s, k)
    OBVIOUS
  <2>1. k + 1 \in 1 .. Occupied /\ k + 1 - 1 = k
    BY Types
  <2>2. waiting[k + 1] = Event(i)
    BY <2>1, <1>6 DEF Elements
  <2>3. i \in Slots
    BY <2>1, Places
  <2>4. Place(m_queue_start_index, k - 1)' = i
    BY <1>1, <1>5 DEF Place
  <2>5. waiting'[k] = Event(i)'
    BY <2>4, <1>4, <1>6 DEF Elements
  <2> QED
    BY <2>2, <2>3, <2>5, <1>3
<1>8. /\ waiting \in Seq(Headers) /\ Len(waiting) = Occupied /\ waiting # <<>>
      /\ waiting' \in Seq(Headers) /\ Len(waiting') = Occupied - 1
  BY <1>4, <1>6, EmptySeq DEF Elements
<1>9. waiting' = Tail(waiting)
  <2>1. /\ Tail(waiting) \in Seq(Headers) /\ Len(Tail(waiting)) = Occupied - 1
        /\ \A k \in 1 .. Occupied - 1 : Tail(waiting)[k] = waiting[k + 1]
    BY <1>8, HeadTailProperties
  <2>2. \A k \in 1 .. Len(waiting') : waiting'[k] = Tail(waiting)[k]
    BY <2>1, <1>7, <1>8
  <2> QED
    BY <2>1, <2>2, <1>8, SeqEqual
<1>10. Head(waiting) = Event(s)
  <2>1. Place(s, 0) = s
    BY SchedulerAssumption DEF Place, Slots
  <2>2. waiting[1] = Event(Place(s, 0))
    BY <1>4, <1>6, Types DEF Elements
  <2> QED
    BY <2>1, <2>2, <1>8
<1>11. active' = Append(active, Event(s))
  <2> DEFINE n == Len(running)
  <2>1. /\ pc'[Main] = "got" /\ event_index'[Main] = s
    BY <1>1, Types
  <2>2. Event(event_index[Main])' = Event(s)
    BY <2>1, <1>3
  <2>a. /\ n \in Nat /\ pc[Main] # "got"
        /\ active \in Seq(Headers) /\ active' \in Seq(Headers)
    BY <1>1, <1>6, Types, LenProperties DEF Elements
  <2>b. Len(active) = n
    BY <2>a, <1>6 DEF Elements
  <2>c. Len(active') = n + 1 /\ active'[n + 1] = Event(s)
    BY <2>1, <2>2, <1>1, <1>6 DEF Elements
  <2>d. \A k \in 1 .. n : active'[k] = active[k]
    BY <1>1, <1>6 DEF Elements
  <2>3. /\ active \in Seq(Headers) /\ Len(active) = n /\ n \in Nat
        /\ active' \in Seq(Headers) /\ Len(active') = n + 1
        /\ \A k \in 1 .. n : active'[k] = active[k]
        /\ active'[n + 1] = Event(s)
    BY <2>a, <2>b, <2>c, <2>d
  <2>4. Event(s) \in Headers
    BY <2>3
  <2>5. /\ Append(active, Event(s)) \in Seq(Headers)
        /\ Len(Append(active, Event(s))) = n + 1
        /\ \A k \in 1 .. n : Append(active, Event(s))[k] = active[k]
        /\ Append(active, Event(s))[n + 1] = Event(s)
    BY <2>3, <2>4, AppendProperties
  <2>6. \A k \in 1 .. Len(active') : active'[k] = Append(active, Event(s))[k]
    BY <2>3, <2>5
  <2> QED
    BY <2>3, <2>5, <2>6, SeqEqual
<1> QED
  BY <1>8, <1>9, <1>10, <1>11 DEF Queue!Take

(* Reading the slot is none of the abstract queue's steps: the event has   *)
(* been there since the get began.                                         *)
LEMMA GetReadStutters ==
    ASSUME RInv, IInv', GetRead
    PROVE  UNCHANGED <<waiting, active>>
<1> USE DEF RInv
<1> PICK i \in Slots : i = event_index[Main]
  BY Types
<1>1. /\ UNCHANGED <<m_queue_start_index, m_queue_end_index, m_queue_event_headers,
                     event_index, put_number, event_data_size>>
      /\ running' = Append(running,
            [slot |-> i, handler |-> m_queue_event_headers[i].handler,
             event_data_size |-> m_queue_event_headers[i].event_data_size])
      /\ pc[Main] = "got" /\ pc' = [pc EXCEPT ![Main] = "idle"]
  BY DEF GetRead
<1>2. \A k \in Contexts : Filling(k)' <=> Filling(k)
  BY <1>1, Types DEF Filling
<1>3. \A j \in Slots : Event(j)' = Event(j)
  BY <1>1, <1>2, SameEvent
<1>4. waiting' = waiting
  BY <1>1, <1>3, SameQueue
<1>5. Event(i) = [handler |-> m_queue_event_headers[i].handler,
                  event_data_size |-> m_queue_event_headers[i].event_data_size]
  <2>1. Away(m_queue_start_index, i) = QueueSize
    BY <1>1 DEF IInv, Taken
  <2>2. \A l \in Contexts : ~(Filling(l) /\ event_index[l] = i)
    BY <2>1, Apart
  <2>3. EventIn(pc, event_index, put_number, event_data_size, m_queue_event_headers, i)
           = [handler |-> m_queue_event_headers[i].handler,
              event_data_size |-> m_queue_event_headers[i].event_data_size]
    BY <2>2, Held DEF Filling
  <2> QED
    BY <2>3, EventInState
<1>6. Elements /\ Elements'
  BY ElementsHold, ElementsNext
<1> DEFINE n == Len(running)
           frame == [slot |-> i, handler |-> m_queue_event_headers[i].handler,
                     event_data_size |-> m_queue_event_headers[i].event_data_size]
<1>7. /\ n \in Nat /\ Len(running') = n + 1
      /\ \A k \in 1 .. n : running'[k] = running[k]
      /\ running'[n + 1] = frame
  <2>1. frame \in Frames
    BY Types DEF Frames, Headers
  <2>2. running' = Append(running, frame)
    BY <1>1
  <2> HIDE DEF frame
  <2> QED
    BY <2>1, <2>2, Types, AppendProperties, LenProperties
<1>8. active' = active
  <2>1. pc'[Main] # "got"
    BY <1>1, Types
  <2>a. active \in Seq(Headers) /\ active' \in Seq(Headers)
    BY <1>6 DEF Elements
  <2>b. Len(active) = n + 1
    BY <1>1, <1>6 DEF Elements
  <2>c. Len(active') = n + 1
    BY <2>1, <1>6, <1>7 DEF Elements
  <2>2. /\ active \in Seq(Headers) /\ Len(active) = n + 1
        /\ active' \in Seq(Headers) /\ Len(active') = n + 1
    BY <2>a, <2>b, <2>c
  <2>3. \A k \in 1 .. n : active'[k] = active[k]
    <3> TAKE k \in 1 .. n
    <3>1. active[k] = [handler |-> running[k].handler,
                       event_data_size |-> running[k].event_data_size]
      BY <1>6 DEF Elements
    <3>2. k \in 1 .. Len(running')
      BY <1>7
    <3>3. active'[k] = [handler |-> running'[k].handler,
                        event_data_size |-> running'[k].event_data_size]
      BY <3>2, <1>6 DEF Elements
    <3> QED
      BY <3>1, <3>3, <1>7
  <2>4. active'[n + 1] = active[n + 1]
    <3>1. active[n + 1] = Event(i)
      BY <1>1, <1>6 DEF Elements
    <3>2. active'[n + 1] = [handler |-> frame.handler,
                            event_data_size |-> frame.event_data_size]
      BY <1>6, <1>7 DEF Elements
    <3> QED
      BY <3>1, <3>2, <1>5
  <2>5. \A k \in 1 .. Len(active') : active'[k] = active[k]
    BY <2>2, <2>3, <2>4, <1>7
  <2> QED
    BY <2>2, <2>5, SeqEqual
<1> QED
  BY <1>4, <1>8

(* What is left of a sequence without its last element.                    *)
LEMMA SeqFront ==
    ASSUME NEW S, NEW q \in Seq(S), q # <<>>
    PROVE  /\ Len(q) \in Nat \ {0}
           /\ Len(SubSeq(q, 1, Len(q) - 1)) = Len(q) - 1
           /\ \A k \in 1 .. Len(q) - 1 : SubSeq(q, 1, Len(q) - 1)[k] = q[k]
<1> DEFINE m == Len(q) - 1
<1>1. Len(q) \in Nat /\ q \in [1 .. Len(q) -> S]
  BY LenProperties
<1>2. Len(q) \in Nat \ {0}
  BY EmptySeq
<1>3. m \in Nat /\ m \in Int /\ 1 \in Int
  BY <1>2
<1>4. \A i \in 1 .. m : i \in 1 .. Len(q)
  BY <1>2
<1>5. \A i \in 1 .. m : q[i] \in S
  BY <1>1, <1>4
<1> HIDE DEF m
<1>6. /\ Len(SubSeq(q, 1, m)) = IF 1 <= m THEN m - 1 + 1 ELSE 0
      /\ \A i \in 1 .. m - 1 + 1 : SubSeq(q, 1, m)[i] = q[1 + i - 1]
  BY <1>3, <1>5, SubSeqProperties
<1>7. Len(SubSeq(q, 1, m)) = m
  BY <1>3, <1>6
<1>8. ASSUME NEW k \in 1 .. m
      PROVE  SubSeq(q, 1, m)[k] = q[k]
  <2>1. k \in 1 .. m - 1 + 1 /\ 1 + k - 1 = k
    BY <1>3
  <2> QED
    BY <2>1, <1>6
<1> QED
  BY <1>2, <1>7, <1>8 DEF m

(* The innermost handler returns.                                          *)
LEMMA HandlerReturnReturns ==
    ASSUME RInv, IInv', HandlerReturn
    PROVE  Queue!Return
<1> USE DEF RInv
<1>1. /\ UNCHANGED <<m_queue_start_index, m_queue_end_index, m_queue_event_headers, pc,
                     event_index, put_number, event_data_size>>
      /\ pc[Main] = "idle" /\ pc' = pc
      /\ running # <<>> /\ running' = SubSeq(running, 1, Len(running) - 1)
  BY DEF HandlerReturn
<1>2. \A j \in Slots : Event(j)' = Event(j)
  BY <1>1, SameEvent DEF Filling
<1>3. waiting' = waiting
  BY <1>1, <1>2, SameQueue
<1>4. Elements /\ Elements'
  BY ElementsHold, ElementsNext
<1> DEFINE n == Len(running)
<1>5. /\ n \in Nat \ {0} /\ Len(running') = n - 1
      /\ \A k \in 1 .. n - 1 : running'[k] = running[k]
  <2>1. /\ running \in Seq(Frames) /\ running # <<>>
        /\ running' = SubSeq(running, 1, Len(running) - 1)
    BY <1>1, Types
  <2> QED
    BY <2>1, SeqFront
<1>6. /\ active \in Seq(Headers) /\ Len(active) = n /\ active # <<>>
      /\ active' \in Seq(Headers) /\ Len(active') = n - 1
      /\ \A k \in 1 .. n - 1 : active'[k] = active[k]
  <2>1. /\ active \in Seq(Headers) /\ active' \in Seq(Headers)
        /\ pc[Main] # "got" /\ pc'[Main] # "got"
    BY <1>1, <1>4 DEF Elements
  <2>2. Len(active) = n
    BY <2>1, <1>4, <1>5 DEF Elements
  <2>3. Len(active') = n - 1
    BY <2>1, <1>4, <1>5 DEF Elements
  <2>4. \A k \in 1 .. n - 1 : active'[k] = active[k]
    <3> TAKE k \in 1 .. n - 1
    <3>0. n \in Nat /\ Len(running') = n - 1
      BY <1>5
    <3>a. k \in 1 .. n - 1
      OBVIOUS
    <3>b. k \in 1 .. n
      BY <3>0, <3>a
    <3>c. k \in 1 .. Len(running')
      BY <3>0, <3>a
    <3>1. k \in 1 .. n /\ k \in 1 .. Len(running')
      BY <3>b, <3>c
    <3>2. active[k] = [handler |-> running[k].handler,
                       event_data_size |-> running[k].event_data_size]
      BY <3>1, <1>4 DEF Elements
    <3>3. active'[k] = [handler |-> running'[k].handler,
                        event_data_size |-> running'[k].event_data_size]
      BY <3>1, <1>4 DEF Elements
    <3> QED
      BY <3>2, <3>3, <1>5
  <2>5. active # <<>>
    BY <2>2, <1>5, EmptySeq
  <2> QED
    BY <2>1, <2>2, <2>3, <2>4, <2>5
<1>7. active' = SubSeq(active, 1, Len(active) - 1)
  <2>1. \A k \in 1 .. n - 1 : active[k] \in Headers
    BY <1>5, <1>6, ElementOfSeq
  <2>2. /\ SubSeq(active, 1, n - 1) \in Seq(Headers)
        /\ Len(SubSeq(active, 1, n - 1)) = n - 1
        /\ \A k \in 1 .. n - 1 : SubSeq(active, 1, n - 1)[k] = active[k]
    BY <2>1, <1>5, <1>6
  <2>3. \A k \in 1 .. Len(active') : active'[k] = SubSeq(active, 1, n - 1)[k]
    BY <2>2, <1>6
  <2> QED
    BY <2>2, <2>3, <1>6, SeqEqual
<1> QED
  BY <1>3, <1>6, <1>7 DEF Queue!Return

-----------------------------------------------------------------------------
(* Every step of the ring is one of the abstract queue, or leaves it.      *)
LEMMA StepRefines ==
    ASSUME RInv, IInv', [Next]_vars
    PROVE  [Queue!Next]_(Queue!vars)
<1>1. ASSUME NEW l \in Contexts, NEW size \in 0 .. EventSize + 1, Reserve(l, size)
      PROVE  Queue!Next
  BY <1>1, ReservePuts DEF Queue!Next
<1>2. ASSUME UNCHANGED <<waiting, active>> PROVE UNCHANGED Queue!vars
  BY <1>2 DEF Queue!vars
<1>3. ASSUME UNCHANGED <<m_queue_start_index, m_queue_end_index, m_queue_event_headers,
                         pc, event_index, put_number, event_data_size, running>>
      PROVE  UNCHANGED Queue!vars
  <2>1. \A j \in Slots : Event(j)' = Event(j)
    BY <1>3, SameEvent DEF Filling
  <2>2. waiting' = waiting
    BY <2>1, <1>3, SameQueue DEF RInv
  <2>3. Main \in Contexts /\ event_index[Main] \in Slots
    BY Types DEF RInv
  <2>4. active' = active
    BY <2>1, <2>3, <1>3, SameActive
  <2> QED
    BY <2>2, <2>4, <1>2
<1>4. ASSUME NEW l \in Contexts, NEW size \in 0 .. EventSize + 1,
             RefuseFull(l, size) \/ RefuseLong(l, size)
      PROVE  UNCHANGED Queue!vars
  BY <1>3, <1>4 DEF RefuseFull, RefuseLong
<1>5. ASSUME NEW l \in Contexts, FillHandler(l) \/ FillData(l)
      PROVE  UNCHANGED Queue!vars
  BY <1>2, <1>5, FillStutters
<1>6. CASE ExecuteBegin \/ ExecuteEnd
  BY <1>3, <1>6 DEF ExecuteBegin, ExecuteEnd
<1>7. CASE GetAdvance
  BY <1>7, GetAdvanceTakes DEF Queue!Next
<1>8. CASE GetRead
  BY <1>2, <1>8, GetReadStutters
<1>9. CASE HandlerReturn
  BY <1>9, HandlerReturnReturns DEF Queue!Next
<1>10. CASE UNCHANGED vars
  BY <1>3, <1>10 DEF vars
<1> QED
  BY <1>1, <1>4, <1>5, <1>6, <1>7, <1>8, <1>9, <1>10 DEF Next, Put

(* The empty ring is the empty queue.                                      *)
LEMMA InitRefines == Init => Queue!Init
<1> SUFFICES ASSUME Init PROVE Queue!Init
  OBVIOUS
<1>1. IInv /\ Occupied = 0 /\ running = <<>> /\ pc[Main] # "got"
  BY InitInvariant, SchedulerAssumption DEF Init, Occupied, Away, Contexts, Main
<1>2. Elements
  BY <1>1, ElementsHold
<1>3. Len(waiting) = 0 /\ Len(active) = 0
  BY <1>1, <1>2 DEF Elements
<1> QED
  BY <1>2, <1>3, EmptySeq DEF Elements, Queue!Init

(* The ring of app_scheduler.c, filled outside of its critical region and  *)
(* read after the slot was given back, is a FIFO queue of QueueSize whole  *)
(* events, for every size, number of interrupt levels and nesting.         *)
THEOREM RingIsQueue == Spec => ImplementsEventQueue
<1>1. RInv /\ RInv' /\ [Next]_vars => [Queue!Next]_(Queue!vars)
  BY StepRefines DEF RInv
<1> QED
  BY <1>1, InitRefines, RInvariantHolds, PTL DEF Spec, ImplementsEventQueue, Queue!Spec
=============================================================================
