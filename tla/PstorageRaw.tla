---------------------------- MODULE PstorageRaw ----------------------------
(***************************************************************************)
(* The queue of flash commands of the bootloader                           *)
(* (components/drivers_nrf/pstorage/pstorage_raw.c): a ring of commands, a *)
(* round counter for commands longer than the SoftDevice takes at a time,  *)
(* and the SoftDevice's events that drive it.  All of it runs in main      *)
(* context, events through the scheduler; only the flash works by itself.  *)
(*                                                                         *)
(* Commands are numbered in the order they are queued; sizes are in rounds.*)
(***************************************************************************)
EXTENDS Integers, Sequences

CONSTANTS PSTORAGE_CMD_QUEUE_SIZE,
          MaxSize,          \* the most rounds of a command
          SdResults,        \* what sd_flash_write/erase may answer
          CallbackLimit,    \* a callback queues only below this many commands
          CallbackPuts,     \* the most commands a callback queues
          MaxCmd,           \* bound: commands in a behaviour
          MaxErrors         \* bound: failures reported in a behaviour

PstorageAssumption ==
    /\ PSTORAGE_CMD_QUEUE_SIZE \in 1 .. 255
    /\ MaxSize \in Nat \ {0}
    /\ SdResults \subseteq {"NRF_SUCCESS", "NRF_ERROR_BUSY", "NRF_ERROR_FORBIDDEN"}
    /\ CallbackLimit \in 0 .. PSTORAGE_CMD_QUEUE_SIZE
    /\ CallbackPuts \in Nat /\ MaxCmd \in Nat /\ MaxErrors \in Nat

VARIABLES m_cmd_queue,   \* [rp, count, flash_access, cmd]
          m_round_val,   \* rounds done of the command at rp
          flash,         \* SoftDevice: the round in progress, or NoOp
          executed,      \* SoftDevice: the round it finished last
          notified,      \* clients: every notification so far
          nput,          \* commands queued so far
          nerr           \* failures so far

vars == <<m_cmd_queue, m_round_val, flash, executed, notified, nput, nerr>>

Slots == 0 .. PSTORAGE_CMD_QUEUE_SIZE - 1
Ids == 0 .. MaxCmd
INVALID == [id |-> 0, size |-> 0]      \* op_code is INVALID_OPCODE
NoOp == [id |-> 0, round |-> 0]

-----------------------------------------------------------------------------
(* The queue, the counter and the flash as one record s, changed by the    *)
(* functions of the module in the order they are called.                   *)

State == [rp |-> m_cmd_queue.rp, count |-> m_cmd_queue.count,
          flash_access |-> m_cmd_queue.flash_access, cmd |-> m_cmd_queue.cmd,
          round |-> m_round_val, flash |-> flash]

Becomes(s) ==
    /\ m_cmd_queue' = [rp |-> s.rp, count |-> s.count,
                       flash_access |-> s.flash_access, cmd |-> s.cmd]
    /\ m_round_val' = s.round
    /\ flash' = s.flash

Wrap(i) == IF i >= PSTORAGE_CMD_QUEUE_SIZE THEN i - PSTORAGE_CMD_QUEUE_SIZE ELSE i

(* What cmd_process() returns when the SoftDevice answers r.               *)
Result(s, r) == IF s.cmd[s.rp] = INVALID THEN "NRF_ERROR_FORBIDDEN" ELSE r

(* Mutant: every round starts at the beginning of the data.                *)
cmd_process_FirstRound(s, r) ==
    IF Result(s, r) = "NRF_SUCCESS"
    THEN [s EXCEPT !.flash_access = TRUE,
                   !.flash = [id |-> s.cmd[s.rp].id, round |-> 0]]
    ELSE s

(* cmd_process(): hand the next round of the command at rp to the flash.   *)
cmd_process(s, r) ==
    IF Result(s, r) = "NRF_SUCCESS"
    THEN [s EXCEPT !.flash_access = TRUE,
                   !.flash = [id |-> s.cmd[s.rp].id, round |-> s.round]]
    ELSE s

(* cmd_queue_enqueue() with room in the queue: the command is counted only *)
(* after cmd_process() was called, and whatever that returned.             *)
cmd_queue_enqueue(s, c, r) ==
    LET t == [s EXCEPT !.cmd[Wrap(s.rp + s.count)] = c]
        u == IF t.flash_access THEN t ELSE cmd_process(t, r)
    IN  [u EXCEPT !.count = @ + 1]

(* cmd_queue_dequeue()                                                     *)
Dequeues(s) == s.count > 0 /\ ~s.flash_access

cmd_queue_dequeue(s, r) == IF Dequeues(s) THEN cmd_process(s, r) ELSE s
DequeueFails(s, r) == Dequeues(s) /\ Result(s, r) = "NRF_ERROR_FORBIDDEN"

(* A callback queues the commands cs, one after the other.                 *)
Callback(s, cs, r) ==
    LET step[k \in 0 .. Len(cs)] ==
            IF k = 0 THEN s ELSE cmd_queue_enqueue(step[k - 1], cs[k], r)
    IN  step[Len(cs)]

(* The command at rp is finished: it is taken out, its client is told and  *)
(* queues cs, and only then is its slot marked free.                       *)
Finished(s, cs, r) ==
    LET t == [s EXCEPT !.round = 0, !.count = @ - 1, !.rp = Wrap(@ + 1)]
    IN  [Callback(t, cs, r) EXCEPT !.cmd[s.rp] = INVALID]

-----------------------------------------------------------------------------

(* pstorage_init()                                                         *)
Init ==
    /\ m_cmd_queue = [rp |-> 0, count |-> 0, flash_access |-> FALSE,
                      cmd |-> [i \in Slots |-> INVALID]]
    /\ m_round_val = 0
    /\ flash = NoOp /\ executed = NoOp
    /\ notified = <<>>
    /\ nput = 0 /\ nerr = 0

(* The commands numbered from the next free number on.                     *)
Fresh(n) == {[k \in 1 .. n |-> [id |-> nput + k, size |-> sizes[k]]]
                : sizes \in [1 .. n -> 1 .. MaxSize]}

HasRoom == m_cmd_queue.count # PSTORAGE_CMD_QUEUE_SIZE

(* pstorage_store(), pstorage_clear(); NRF_ERROR_NO_MEM changes nothing.   *)
Enqueue(r) ==
    /\ HasRoom
    /\ nput < MaxCmd
    /\ \E cs \in Fresh(1) : Becomes(cmd_queue_enqueue(State, cs[1], r))
    /\ nput' = nput + 1
    /\ UNCHANGED <<executed, notified, nerr>>

Head1 == m_cmd_queue.cmd[m_cmd_queue.rp]
Notify(s, before, r) ==
    notified' = IF DequeueFails(s, r)
                THEN Append(before, [id |-> s.cmd[s.rp].id, result |-> "error"])
                ELSE before

LastRound == m_round_val + 1 >= Head1.size

(* NRF_EVT_FLASH_OPERATION_SUCCESS, more rounds to do                      *)
RoundDone(r) ==
    /\ m_cmd_queue.flash_access /\ flash # NoOp
    /\ ~LastRound
    /\ LET s == [State EXCEPT !.flash_access = FALSE, !.flash = NoOp, !.round = @ + 1]
       IN  /\ Becomes(cmd_queue_dequeue(s, r))
           /\ Notify(s, notified, r)
           /\ nerr' = IF DequeueFails(s, r) THEN nerr + 1 ELSE nerr
    /\ executed' = flash
    /\ UNCHANGED nput

(* NRF_EVT_FLASH_OPERATION_SUCCESS, the command is finished                *)
CommandDone(r, n) ==
    /\ m_cmd_queue.flash_access /\ flash # NoOp
    /\ LastRound
    /\ nput + n <= MaxCmd
    /\ n > 0 => m_cmd_queue.count - 1 + n <= CallbackLimit
    /\ \E cs \in Fresh(n) :
          LET s == Finished([State EXCEPT !.flash_access = FALSE, !.flash = NoOp], cs, r)
          IN  /\ Becomes(cmd_queue_dequeue(s, r))
              /\ Notify(s, Append(notified, [id |-> Head1.id, result |-> "done"]), r)
              /\ nerr' = IF DequeueFails(s, r) THEN nerr + 1 ELSE nerr
    /\ executed' = flash
    /\ nput' = nput + n

(* NRF_EVT_FLASH_OPERATION_ERROR: the client is told, the command stays at *)
(* rp and nothing starts it again but the next command queued.             *)
OperationError ==
    /\ m_cmd_queue.flash_access /\ flash # NoOp
    /\ nerr < MaxErrors
    /\ Becomes([State EXCEPT !.flash_access = FALSE, !.flash = NoOp])
    /\ notified' = Append(notified, [id |-> Head1.id, result |-> "error"])
    /\ nerr' = nerr + 1
    /\ UNCHANGED <<executed, nput>>

Answers == IF nerr < MaxErrors THEN SdResults ELSE SdResults \ {"NRF_ERROR_FORBIDDEN"}

Event ==
    \E r \in Answers :
        RoundDone(r) \/ \E n \in 0 .. CallbackPuts : CommandDone(r, n)

Next == Event \/ OperationError \/ \E r \in Answers : Enqueue(r)

Spec == Init /\ [][Next]_vars

(* The SoftDevice reports every operation it was given.                    *)
FairSpec == Spec /\ WF_vars(Event)

-----------------------------------------------------------------------------
Commands == [id : 1 .. MaxCmd, size : 1 .. MaxSize]

(* Types of the variables.                                                 *)
TypeOK ==
    /\ m_cmd_queue \in [rp : Slots, count : 0 .. PSTORAGE_CMD_QUEUE_SIZE,
                        flash_access : BOOLEAN, cmd : [Slots -> Commands \cup {INVALID}]]
    /\ m_round_val \in 0 .. MaxSize - 1
    /\ flash \in [id : Ids, round : 0 .. MaxSize - 1]
    /\ executed \in [id : Ids, round : 0 .. MaxSize - 1]
    /\ notified \in Seq([id : Ids, result : {"done", "error"}])
    /\ nput \in Ids /\ nerr \in 0 .. MaxErrors

pending ==
    [k \in 1 .. m_cmd_queue.count |->
        LET c == m_cmd_queue.cmd[Wrap(m_cmd_queue.rp + k - 1)]
        IN  [id |-> c.id, left |-> c.size - (IF k = 1 THEN m_round_val ELSE 0)]]

Abstract == INSTANCE FlashQueue WITH
                Capacity <- PSTORAGE_CMD_QUEUE_SIZE,
                Ids      <- Ids,
                queue    <- pending

(* The ring with its rounds is a FIFO queue of whole commands, also when   *)
(* callbacks queue commands while the one they are told of is taken out,   *)
(* when the SoftDevice is busy and when operations fail.                   *)
ImplementsFlashQueue == Abstract!Spec
=============================================================================
