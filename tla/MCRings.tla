------------------------------ MODULE MCRings ------------------------------
(***************************************************************************)
(* The three rings for TLC: the scheduler's queue, the pool of receive     *)
(* buffers and the bootloader's queue for the flash.  They share nothing,  *)
(* so that a behaviour is one of any of them while the others rest in      *)
(* their initial states; ring says which one it is.                        *)
(***************************************************************************)
EXTENDS AppScheduler, MemPool

VARIABLES
    ring,
    m_cmd_queue, m_round_val, flash, executed, notified, ncmd, nerr

Raw == INSTANCE PstorageRaw WITH
           PSTORAGE_CMD_QUEUE_SIZE <- 3, MaxSize <- 2,
           SdResults <- {"NRF_SUCCESS", "NRF_ERROR_BUSY", "NRF_ERROR_FORBIDDEN"},
           CallbackLimit <- 2, CallbackPuts <- 2, MaxCmd <- 5, MaxErrors <- 2,
           nput <- ncmd

flashVars == <<m_cmd_queue, m_round_val, flash, executed, notified, ncmd, nerr>>

ASSUME RingsAssumption == Raw!PstorageAssumption

RingsInit ==
    /\ ring \in {"scheduler", "pool", "flash"}
    /\ Init /\ PoolInit /\ Raw!Init

SchedulerStep == ring = "scheduler" /\ Next /\ UNCHANGED <<ring, poolVars, flashVars>>
PoolStep      == ring = "pool" /\ PoolNext /\ UNCHANGED <<ring, vars, flashVars>>
FlashStep     == ring = "flash" /\ Raw!Next /\ UNCHANGED <<ring, vars, poolVars>>

RingsNext == SchedulerStep \/ PoolStep \/ FlashStep

RingsVars == <<ring, vars, poolVars, flashVars>>

(* The fairness of the scheduler's behaviours.                             *)
RingsSpec ==
    /\ RingsInit /\ [][RingsNext]_RingsVars
    /\ (ring = "scheduler") => Fairness

-----------------------------------------------------------------------------
(* pstorage_raw.c: the ring with its rounds is a FIFO queue of commands,   *)
(* with a busy SoftDevice, failures, and callbacks that queue further ones.*)
ImplementsFlashQueue == Raw!ImplementsFlashQueue
=============================================================================
