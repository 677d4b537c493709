------------------------------ MODULE MemPool ------------------------------
(***************************************************************************)
(* The pool of receive buffers of the bootloader's transport               *)
(* (components/libraries/hci/hci_mem_pool.c), with its ring in RxRing.     *)
(*                                                                         *)
(* The client is the transport of the bootloader (dfu_transport_ble.c,     *)
(* app_data_process() and dfu_cb_handler()): it keeps to the order         *)
(* produce, data_size_set, extract, consume, consumes buffers in the order *)
(* in which flash operations finish, and at once the buffer of a packet    *)
(* that is refused; from then on it refuses every packet.                  *)
(*                                                                         *)
(* Packets are numbered; the number stands for the data and for the length.*)
(***************************************************************************)
EXTENDS RxRing, Sequences

CONSTANT MaxPackets   \* bound: packets in a behaviour

ASSUME PoolAssumption == MaxPackets \in Nat

VARIABLES
    m_rx_buffer_queue,   \* the counters and indices of the ring
    rx_buffer,           \* buffer -> the packet whose data it holds
    length,              \* buffer -> the packet whose length was set
    m_is_tx_allocated,   \* the only transmit buffer is taken
    pool_err_code,       \* what the last call returned
    filling,             \* client: a buffer is produced and has no length yet
    held,                \* client: [buffer, packet] extracted and not consumed
    refusing,            \* client: a packet was refused
    produced, extracted  \* client: packets so far

poolVars == <<m_rx_buffer_queue, rx_buffer, length, m_is_tx_allocated, pool_err_code,
              filling, held, refusing, produced, extracted>>
clientVars == <<filling, held, refusing, produced, extracted>>

Packets == 0 .. MaxPackets           \* 0: never written

-----------------------------------------------------------------------------

(* hci_mem_pool_open()                                                     *)
PoolInit ==
    /\ m_rx_buffer_queue = EmptyRing
    /\ rx_buffer = [b \in Buffers |-> 0]
    /\ length = [b \in Buffers |-> 0]
    /\ m_is_tx_allocated = FALSE
    /\ pool_err_code = "NRF_SUCCESS"
    /\ filling = FALSE /\ held = <<>> /\ refusing = FALSE
    /\ produced = 0 /\ extracted = 0

(* hci_mem_pool_tx_alloc(), hci_mem_pool_tx_free()                         *)
TxAlloc ==
    /\ pool_err_code' = IF m_is_tx_allocated THEN "NRF_ERROR_NO_MEM"
                                            ELSE "NRF_SUCCESS"
    /\ m_is_tx_allocated' = TRUE
    /\ UNCHANGED <<m_rx_buffer_queue, rx_buffer, length, clientVars>>

TxFree ==
    /\ m_is_tx_allocated' = FALSE
    /\ pool_err_code' = "NRF_SUCCESS"
    /\ UNCHANGED <<m_rx_buffer_queue, rx_buffer, length, clientVars>>

(* The newest packet extracted must be refused before anything else: the   *)
(* handler of a packet runs to its end.                                    *)
MustRefuse == refusing /\ held # <<>> /\ held[Len(held)].packet = extracted

(* hci_mem_pool_rx_produce(): the client gets a buffer and fills it ...    *)
Produce ==
    /\ ~filling /\ ~MustRefuse
    /\ produced < MaxPackets
    /\ WindowOpen(m_rx_buffer_queue)
    /\ m_rx_buffer_queue' = Produced(m_rx_buffer_queue)
    /\ rx_buffer' = [rx_buffer EXCEPT ![m_rx_buffer_queue.write_index] = produced + 1]
    /\ produced' = produced + 1
    /\ filling' = TRUE
    /\ pool_err_code' = "NRF_SUCCESS"
    /\ UNCHANGED <<length, m_is_tx_allocated, held, refusing, extracted>>

(* ... or is told that there is none, or that the packet is too long.      *)
ProduceFails ==
    /\ ~filling
    /\ pool_err_code' = IF WindowOpen(m_rx_buffer_queue) THEN "NRF_ERROR_DATA_SIZE"
                                                         ELSE "NRF_ERROR_NO_MEM"
    /\ UNCHANGED <<m_rx_buffer_queue, rx_buffer, length, m_is_tx_allocated, clientVars>>

(* hci_mem_pool_rx_data_size_set(): always for the buffer produced last.   *)
DataSizeSet ==
    /\ filling
    /\ length' = [length EXCEPT
          ![Slot(m_rx_buffer_queue.write_index - 1 + RX_BUF_QUEUE_SIZE)] = produced]
    /\ filling' = FALSE
    /\ pool_err_code' = "NRF_SUCCESS"
    /\ UNCHANGED <<m_rx_buffer_queue, rx_buffer, m_is_tx_allocated, held, refusing,
                   produced, extracted>>

(* hci_mem_pool_rx_extract(); a buffer without length is not asked for.    *)
Extract ==
    /\ ~MustRefuse
    /\ m_rx_buffer_queue.read_available_count > (IF filling THEN 1 ELSE 0)
    /\ m_rx_buffer_queue' = Extracted(m_rx_buffer_queue)
    /\ extracted' = extracted + 1
    /\ held' = Append(held, [buffer |-> m_rx_buffer_queue.read_index,
                             packet |-> extracted + 1])
    /\ pool_err_code' = "NRF_SUCCESS"
    /\ UNCHANGED <<rx_buffer, length, m_is_tx_allocated, filling, refusing, produced>>

ExtractFails ==
    /\ m_rx_buffer_queue.read_available_count = 0
    /\ pool_err_code' = "NRF_ERROR_NO_MEM"
    /\ UNCHANGED <<m_rx_buffer_queue, rx_buffer, length, m_is_tx_allocated, clientVars>>

(* hci_mem_pool_rx_consume() of buffer b                                   *)
Consume(b) ==
    IF m_rx_buffer_queue.free_available_count = 0
    THEN /\ pool_err_code' = "NRF_ERROR_NO_MEM"
         /\ UNCHANGED m_rx_buffer_queue
    ELSE IF ~IsExtracted(m_rx_buffer_queue, b)
    THEN /\ pool_err_code' = "NRF_ERROR_INVALID_ADDR"
         /\ m_rx_buffer_queue' = Reclaimed(m_rx_buffer_queue, OldestInUse(m_rx_buffer_queue),
                                           Slot(m_rx_buffer_queue.read_index + 1))
    ELSE /\ pool_err_code' = "NRF_SUCCESS"
         /\ m_rx_buffer_queue' = Consumed(m_rx_buffer_queue, b)

(* The flash operation of the oldest packet has finished.                  *)
ConsumeOldest ==
    /\ ~MustRefuse
    /\ held # <<>>
    /\ Consume(Head(held).buffer)
    /\ held' = Tail(held)
    /\ UNCHANGED <<rx_buffer, length, m_is_tx_allocated, filling, refusing, produced,
                   extracted>>

(* The packet extracted last is refused.                                   *)
RefuseNewest ==
    /\ held # <<>>
    /\ held[Len(held)].packet = extracted
    /\ Consume(held[Len(held)].buffer)
    /\ held' = SubSeq(held, 1, Len(held) - 1)
    /\ refusing' = TRUE
    /\ UNCHANGED <<rx_buffer, length, m_is_tx_allocated, filling, produced, extracted>>

PoolNext ==
    \/ TxAlloc \/ TxFree
    \/ Produce \/ ProduceFails \/ DataSizeSet
    \/ Extract \/ ExtractFails
    \/ ConsumeOldest \/ RefuseNewest

PoolSpec == PoolInit /\ [][PoolNext]_poolVars

-----------------------------------------------------------------------------
(* Types: the counters add up to the size of the ring in every state.      *)
PoolTypeOK ==
    /\ IsRing(m_rx_buffer_queue)
    /\ rx_buffer \in [Buffers -> Packets] /\ length \in [Buffers -> Packets]
    /\ m_is_tx_allocated \in BOOLEAN /\ filling \in BOOLEAN /\ refusing \in BOOLEAN
    /\ held \in Seq([buffer : Buffers, packet : Packets])
    /\ produced \in Packets /\ extracted \in 0 .. produced
    /\ pool_err_code \in {"NRF_SUCCESS", "NRF_ERROR_NO_MEM", "NRF_ERROR_DATA_SIZE",
                     "NRF_ERROR_INVALID_ADDR"}

(* A buffer keeps its packet and its length until it is consumed, however  *)
(* many packets come meanwhile: what a pending flash operation reads is    *)
(* never overwritten by a later packet.                                    *)
DataKept ==
    \A i \in DOMAIN held :
        /\ rx_buffer[held[i].buffer] = held[i].packet
        /\ length[held[i].buffer] = held[i].packet

(* When the client holds no buffer, all of them are free again: neither    *)
(* refusals nor late flash operations lose one.                            *)
NothingLost ==
    (held = <<>> /\ m_rx_buffer_queue.read_available_count = 0) =>
        m_rx_buffer_queue.free_window_count = RX_BUF_QUEUE_SIZE

(* The pool is right: a buffer keeps its packet and its length until it is *)
(* consumed, and none is lost.                                             *)
BufferKept == PoolTypeOK /\ DataKept /\ NothingLost
=============================================================================
