------------------------------ MODULE Pstorage ------------------------------
(***************************************************************************)
(* The persistent storage of the application (pstorage.c): a queue of      *)
(* commands, executed one at a time by a state machine that flash events   *)
(* drive.  A part of a page can be erased only by saving the page in the   *)
(* swap page, erasing it, and writing back what lies before (head) and     *)
(* behind (tail) the part; a command may span several pages.               *)
(*                                                                         *)
(* The handlers are functions of the record `p`, the state of the module   *)
(* and of the flash behind it: one turn of an event passes through several *)
(* states of the code's state machine.  One client module is registered,   *)
(* from address 0; addresses and sizes are in words.                       *)
(*                                                                         *)
(* A client queues commands from its thread, and the events come in an     *)
(* interrupt (SOFTDEVICE_HANDLER_INIT without a scheduler): `call` is the  *)
(* thread's place in cmd_queue_enqueue().                                  *)
(***************************************************************************)
EXTENDS Integers, Sequences

CONSTANTS
    PSTORAGE_FLASH_PAGE_SIZE,   \* words of a page
    PSTORAGE_CMD_QUEUE_SIZE,
    SD_CMD_MAX_TRIES,
    block_size, block_count,    \* what the client registered, in words
    Requests,                   \* [op, at, size, offset] it may ask for
    Blank, Junk,                \* an erased word, and one written over another
    Interrupts,                 \* events may interrupt a call of the client
    Refusals,                   \* the flash may refuse an operation
    MaxCommands, MaxErrors,     \* bounds: requests, failed flash operations,
    MaxOthers                   \* flash operations of others

ASSUME PstorageAssumption ==
    /\ PSTORAGE_FLASH_PAGE_SIZE \in Nat \ {0} /\ PSTORAGE_CMD_QUEUE_SIZE \in Nat \ {0}
    /\ SD_CMD_MAX_TRIES \in Nat \ {0}
    /\ block_size \in 1 .. PSTORAGE_FLASH_PAGE_SIZE /\ block_count \in Nat \ {0}
    /\ {Interrupts, Refusals} \subseteq BOOLEAN
    /\ {MaxCommands, MaxErrors, MaxOthers} \subseteq Nat

VARIABLES p,                    \* the module and the flash
          call,                 \* the client's call of cmd_queue_enqueue()
          ncommands, nerrors, nothers

vars == <<p, call, ncommands, nerrors, nothers>>

PageOf(a) == a \div PSTORAGE_FLASH_PAGE_SIZE
OffsetOf(a) == a % PSTORAGE_FLASH_PAGE_SIZE
PageStart(n) == n * PSTORAGE_FLASH_PAGE_SIZE

(* Clients get whole pages; the swap page follows them.                    *)
end_of_storage_address == block_size * block_count
PSTORAGE_SWAP_ADDR ==
    PageStart(PageOf(end_of_storage_address + PSTORAGE_FLASH_PAGE_SIZE - 1))
Addresses == 0 .. PSTORAGE_SWAP_ADDR - 1
Words == 0 .. PSTORAGE_SWAP_ADDR + PSTORAGE_FLASH_PAGE_SIZE - 1

(***************************************************************************)
(* The flash behind the SoftDevice.                                        *)
(***************************************************************************)
Datum(id, k) == (id * 64) + k

Over(old, new) ==
    IF new = Blank THEN old ELSE IF old \in {Blank, new} THEN new ELSE Junk

NoOperation == [kind |-> "none", at |-> 0, words |-> <<>>]
Erase(n) == [kind |-> "erase", at |-> PageStart(n), words |-> <<>>]
Write(a, words) == [kind |-> "write", at |-> a, words |-> words]
OtherOperation == [kind |-> "other", at |-> 0, words |-> <<>>]

Copy(flash, a, n) == [k \in 1 .. n |-> flash[a + k - 1]]
Data(c) == [k \in 1 .. c.size |-> Datum(c.id, k - 1)]

(* The flash after the first n words of an operation.                      *)
Done(flash, o, n) ==
    CASE o.kind = "write" ->
             [a \in Words |-> IF a \in o.at .. o.at + n - 1
                              THEN Over(flash[a], o.words[a - o.at + 1]) ELSE flash[a]]
      [] o.kind = "erase" /\ n > 0 ->
             [a \in Words |-> IF PageOf(a) = PageOf(o.at) THEN Blank ELSE flash[a]]
      [] OTHER -> flash

Length(o) == IF o.kind = "write" THEN Len(o.words) ELSE 1

(***************************************************************************)
(* The queue, a ring of commands.                                          *)
(***************************************************************************)
INVALID == [op |-> "invalid", at |-> 0, size |-> 0, offset |-> 0, id |-> 0]
Slots == 0 .. PSTORAGE_CMD_QUEUE_SIZE - 1
p_cmd(q) == q.cmd[q.rp]
WriteIndex(q) == (q.rp + q.count) % PSTORAGE_CMD_QUEUE_SIZE

command_queue_element_consume(q) ==
    [q EXCEPT !.cmd[q.rp] = INVALID,
              !.count = @ - 1,
              !.rp = IF @ + 1 = PSTORAGE_CMD_QUEUE_SIZE THEN 0 ELSE @ + 1]

(* A client's callback may queue a command; the machine is busy then.      *)
CallbackQueues(q) ==
    IF q.turn.more = INVALID THEN q
    ELSE LET queued == [q EXCEPT !.turn.more = INVALID] IN
         IF q.count = PSTORAGE_CMD_QUEUE_SIZE THEN queued
         ELSE [queued EXCEPT !.cmd[WriteIndex(q)] = q.turn.more, !.count = @ + 1]

app_notify(q, result) ==
    CallbackQueues([q EXCEPT !.told = Append(@, [id |-> p_cmd(q).id, result |-> result])])

app_notify_error_state_transit(q) ==
    [app_notify(q, "error") EXCEPT !.state = "ERROR"]

(* flash_write() and flash_page_erase(): the answer of the SoftDevice.     *)
Flash(q, operation) ==
    IF q.turn.refused THEN app_notify_error_state_transit(q)
    ELSE IF q.operation # NoOperation THEN [q EXCEPT !.busy = TRUE]
    ELSE [q EXCEPT !.operation = operation]

(***************************************************************************)
(* Entry actions of the swap states, and of the main states.               *)
(***************************************************************************)
EndAddress(c) == c.at + c.size + c.offset
last_page_id(c) == PageOf(EndAddress(c) - 1)

swap_sub_state_state_change(q, sub) ==
    LET r == [q EXCEPT !.sub = sub]
        c == p_cmd(q)
    IN  CASE sub = "ERASE_SWAP" -> Flash(r, Erase(PageOf(PSTORAGE_SWAP_ADDR)))
          [] sub = "WRITE_DATA_TO_SWAP" ->
                 Flash(r, Write(PSTORAGE_SWAP_ADDR,
                                Copy(q.flash, PageStart(q.page), PSTORAGE_FLASH_PAGE_SIZE)))
          [] sub = "ERASE_DATA_PAGE" -> Flash(r, Erase(q.page))
          [] sub = "RESTORE_TAIL" ->
                 Flash(r, Write(EndAddress(c),
                                Copy(q.flash, PSTORAGE_SWAP_ADDR + OffsetOf(EndAddress(c)), q.tail)))
          [] sub = "RESTORE_HEAD" ->
                 Flash(r, Write(PageStart(q.page - 1), Copy(q.flash, PSTORAGE_SWAP_ADDR, q.head)))

state_store_entry_run(q) ==
    LET c == p_cmd(q)
    IN  Flash([q EXCEPT !.state = "STORE"], Write(c.at + c.offset, Data(c)))

state_data_erase_entry_run(q) ==
    Flash([q EXCEPT !.state = "DATA_ERASE"], Erase(q.page))

(* The last page is reckoned from the block and the size, not the offset.  *)
state_data_erase_swap_entry_run(q) ==
    LET c == p_cmd(q)
        single == PageOf(c.at) = PageOf(c.at + c.size - 1)
        r == [q EXCEPT !.state = "DATA_ERASE_WITH_SWAP", !.tailDone = FALSE,
                       !.page = PageOf(c.at), !.single = single]
    IN  swap_sub_state_state_change(r,
            IF q.head = 0 /\ ~single THEN "ERASE_DATA_PAGE" ELSE "ERASE_SWAP")

(***************************************************************************)
(* Commands.                                                               *)
(***************************************************************************)
tail_word_size_calculate(end) ==
    IF PageOf(end_of_storage_address) = PageOf(end) THEN end_of_storage_address - end
    ELSE PSTORAGE_FLASH_PAGE_SIZE - OffsetOf(end)

(* No swap is needed for a whole page, or for all there is from a page on. *)
WholePages(c) ==
    /\ OffsetOf(c.at) = 0
    /\ \/ c.size = PSTORAGE_FLASH_PAGE_SIZE
       \/ EndAddress(c) = end_of_storage_address /\ c.offset = 0

clear_operation_execute(q) ==
    LET c == p_cmd(q)
        end == EndAddress(c)
        noTail == end = end_of_storage_address \/ OffsetOf(end) = 0
    IN  IF WholePages(c)
        THEN state_data_erase_entry_run([q EXCEPT !.tail = 0, !.page = PageOf(c.at)])
        ELSE state_data_erase_swap_entry_run(
                 [q EXCEPT !.head = OffsetOf(c.at + c.offset),
                           !.tail = IF noTail THEN 0 ELSE tail_word_size_calculate(end)])

cmd_process(q) ==
    CASE p_cmd(q).op = "store" -> state_store_entry_run(q)
      [] p_cmd(q).op \in {"clear", "update"} -> clear_operation_execute(q)
      [] OTHER -> q

state_idle_entry_run(q) ==
    LET r == [q EXCEPT !.state = "IDLE", !.tries = 0]
    IN  IF r.count # 0 THEN cmd_process(r) ELSE r

(* `kept` remembers what the flash holds whenever a command has ended.     *)
command_end_procedure_run(q) ==
    state_idle_entry_run(
        command_queue_element_consume(
            [app_notify(q, "success") EXCEPT !.kept = [a \in Addresses |-> q.flash[a]]]))

clear_post_processing_run(q) ==
    IF p_cmd(q).op = "update" THEN state_store_entry_run(q) ELSE command_end_procedure_run(q)

(***************************************************************************)
(* An operation of the flash has ended well.                               *)
(***************************************************************************)
is_tail_data_page_swap_required(q) == q.tail # 0 /\ q.page = last_page_id(p_cmd(q))

(* Mutant: the last page is erased without a swap, too.                    *)
is_page_erase_required_Last(q) == q.page <= last_page_id(p_cmd(q))

is_page_erase_required(q) ==
    \/ q.page < last_page_id(p_cmd(q))
    \/ q.page = last_page_id(p_cmd(q)) /\ q.tail = 0

head_restore_state_run(q) ==
    IF is_tail_data_page_swap_required(q)
    THEN swap_sub_state_state_change([q EXCEPT !.head = 0, !.tailDone = TRUE], "ERASE_SWAP")
    ELSE IF is_page_erase_required(q)
    THEN swap_sub_state_state_change([q EXCEPT !.head = 0], "ERASE_DATA_PAGE")
    ELSE IF q.tail # 0 THEN swap_sub_state_state_change(q, "RESTORE_TAIL")
    ELSE clear_post_processing_run(q)

data_page_erase_state_run(q) ==
    LET r == [q EXCEPT !.page = @ + 1]
    IN  IF r.head # 0 THEN swap_sub_state_state_change(r, "RESTORE_HEAD")
        ELSE IF is_page_erase_required(r) THEN swap_sub_state_state_change(r, "ERASE_DATA_PAGE")
        ELSE IF r.tail = 0 THEN clear_post_processing_run(r)
        ELSE IF r.tailDone THEN swap_sub_state_state_change(r, "RESTORE_TAIL")
        ELSE swap_sub_state_state_change([r EXCEPT !.tailDone = TRUE], "ERASE_SWAP")

data_to_swap_write_state_run(q) ==
    swap_sub_state_state_change([q EXCEPT !.tailDone = @ \/ q.single], "ERASE_DATA_PAGE")

swap_sub_state_sm_run(q) ==
    CASE q.sub = "ERASE_SWAP" -> swap_sub_state_state_change(q, "WRITE_DATA_TO_SWAP")
      [] q.sub = "WRITE_DATA_TO_SWAP" -> data_to_swap_write_state_run(q)
      [] q.sub = "ERASE_DATA_PAGE" -> data_page_erase_state_run(q)
      [] q.sub = "RESTORE_TAIL" -> clear_post_processing_run(q)
      [] q.sub = "RESTORE_HEAD" -> head_restore_state_run(q)

erase_sub_state_sm_run(q) ==
    LET r == [q EXCEPT !.page = @ + 1]
    IN  IF is_page_erase_required(r) THEN state_data_erase_entry_run(r)
        ELSE clear_post_processing_run(r)

(* Do again what the flash refused as busy, or what failed.                *)
Reissue(q) ==
    CASE q.state = "STORE" -> state_store_entry_run(q)
      [] q.state = "DATA_ERASE" -> state_data_erase_entry_run(q)
      [] q.state = "DATA_ERASE_WITH_SWAP" -> swap_sub_state_state_change(q, q.sub)

(* Mutant: another client's event counts as one's own.                     *)
flash_operation_success_run_TakesBusy(q) ==
    CASE q.state = "STORE" -> command_end_procedure_run(q)
      [] q.state = "DATA_ERASE" -> erase_sub_state_sm_run(q)
      [] q.state = "DATA_ERASE_WITH_SWAP" -> swap_sub_state_sm_run(q)

flash_operation_success_run(q) ==
    IF q.busy THEN Reissue([q EXCEPT !.busy = FALSE])
    ELSE CASE q.state = "STORE" -> command_end_procedure_run(q)
           [] q.state = "DATA_ERASE" -> erase_sub_state_sm_run(q)
           [] q.state = "DATA_ERASE_WITH_SWAP" -> swap_sub_state_sm_run(q)

flash_operation_failure_run(q) ==
    LET r == [q EXCEPT !.tries = @ + 1]
    IN  IF r.tries # SD_CMD_MAX_TRIES THEN Reissue(r) ELSE app_notify_error_state_transit(r)

pstorage_sys_event_handler(q, event) ==
    IF q.state \in {"IDLE", "ERROR"} THEN q
    ELSE IF event = "ERROR" /\ ~q.busy THEN flash_operation_failure_run(q)
    ELSE flash_operation_success_run(q)

(***************************************************************************)
(* The system.                                                             *)
(***************************************************************************)
NoTurn == [refused |-> FALSE, more |-> INVALID]
NoCall == [pc |-> "out", seen |-> 0]

(* pstorage_init() and pstorage_register().                                *)
Initialized(flash) ==
    [cmd |-> [k \in Slots |-> INVALID], rp |-> 0, count |-> 0,
     state |-> "IDLE", sub |-> "ERASE_SWAP", head |-> 0, tail |-> 0, page |-> 0,
     single |-> FALSE, tailDone |-> FALSE, busy |-> FALSE, tries |-> 0,
     flash |-> flash, operation |-> NoOperation,
     kept |-> [a \in Addresses |-> flash[a]], told |-> <<>>, turn |-> NoTurn]

Init ==
    /\ p = Initialized([a \in Words |-> IF a \in Addresses THEN Datum(0, a) ELSE Blank])
    /\ call = NoCall
    /\ ncommands = 0 /\ nerrors = 0 /\ nothers = 0

Command(r, id) ==
    [op |-> r.op, at |-> r.at, size |-> r.size, offset |-> r.offset, id |-> id]

ProcessIfIdle(q) == IF q.state = "IDLE" THEN cmd_process(q) ELSE q

Handled(q, event) ==
    IF event = "CALL" THEN ProcessIfIdle(q) ELSE pstorage_sys_event_handler(q, event)

(* One turn of the module: what it makes of q.                             *)
Turn(q, event) ==
    \E refused \in IF Refusals THEN BOOLEAN ELSE {FALSE} :
    \E more \in {INVALID} \cup
            {Command(r, ncommands + 1) : r \in IF ncommands < MaxCommands THEN Requests ELSE {}} :
        LET r == Handled([q EXCEPT !.turn = [refused |-> refused, more |-> more]], event)
        IN  /\ r.turn.more = INVALID
            /\ p' = [r EXCEPT !.turn = NoTurn]
            /\ ncommands' = IF more = INVALID THEN ncommands ELSE ncommands + 1

(***************************************************************************)
(* cmd_queue_enqueue(), called by pstorage_store(), pstorage_update() or   *)
(* pstorage_clear().  count++ is a load and a store: an event may be       *)
(* handled between them, and before the state is looked at.                *)
(***************************************************************************)
Queued(q, c) == [q EXCEPT !.cmd[WriteIndex(q)] = c]

Request(r) ==
    /\ call = NoCall /\ ncommands < MaxCommands
    /\ ncommands' = ncommands + 1
    /\ IF p.count = PSTORAGE_CMD_QUEUE_SIZE THEN UNCHANGED <<p, call>>
       ELSE /\ p' = Queued(p, Command(r, ncommands + 1))
            /\ call' = [pc |-> "count", seen |-> p.count]
    /\ UNCHANGED <<nerrors, nothers>>

Count ==
    /\ call.pc = "count"
    /\ p' = [p EXCEPT !.count = call.seen + 1]
    /\ call' = [pc |-> "process", seen |-> 0]
    /\ UNCHANGED <<ncommands, nerrors, nothers>>

Process ==
    /\ call.pc = "process"
    /\ Turn(p, "CALL")
    /\ call' = NoCall
    /\ UNCHANGED <<nerrors, nothers>>

(***************************************************************************)
(* Flash operations end, well or not, and the event is handled.            *)
(***************************************************************************)
MayInterrupt == Interrupts \/ call = NoCall

Ended(o, n) == [p EXCEPT !.flash = Done(@, o, n), !.operation = NoOperation]

FlashSuccess ==
    /\ MayInterrupt /\ p.operation # NoOperation
    /\ Turn(Ended(p.operation, Length(p.operation)), "SUCCESS")
    /\ UNCHANGED <<call, nerrors, nothers>>

FlashError ==
    /\ MayInterrupt /\ p.operation # NoOperation /\ nerrors < MaxErrors
    /\ nerrors' = nerrors + 1
    /\ \E n \in 0 .. Length(p.operation) - 1 : Turn(Ended(p.operation, n), "ERROR")
    /\ UNCHANGED <<call, nothers>>

(* Someone else uses the flash, which does one thing at a time.            *)
OtherBegins ==
    /\ p.operation = NoOperation /\ nothers < MaxOthers
    /\ nothers' = nothers + 1
    /\ p' = [p EXCEPT !.operation = OtherOperation]
    /\ UNCHANGED <<call, ncommands, nerrors>>

Next ==
    \/ \E r \in Requests : Request(r)
    \/ Count \/ Process
    \/ FlashSuccess \/ FlashError \/ OtherBegins

Spec == Init /\ [][Next]_vars

(* The thread goes on, and the flash does not fail for ever.               *)
FairSpec == Spec /\ WF_vars(Count \/ Process) /\ WF_vars(FlashSuccess)

(***************************************************************************)
(* Properties.                                                             *)
(***************************************************************************)
Sizes == 0 .. PSTORAGE_FLASH_PAGE_SIZE
Commands == {Command(r, id) : r \in Requests, id \in 1 .. MaxCommands}

(* What each part holds; head and tail never exceed a page.                *)
TypeOK ==
    /\ p.cmd \in [Slots -> Commands \cup {INVALID}]
    /\ p.rp \in Slots /\ p.count \in 0 .. PSTORAGE_CMD_QUEUE_SIZE
    /\ p.state \in {"IDLE", "STORE", "DATA_ERASE", "DATA_ERASE_WITH_SWAP", "ERROR"}
    /\ p.sub \in {"ERASE_SWAP", "WRITE_DATA_TO_SWAP", "ERASE_DATA_PAGE",
                  "RESTORE_TAIL", "RESTORE_HEAD"}
    /\ p.head \in Sizes /\ p.tail \in Sizes
    /\ p.page \in 0 .. PageOf(PSTORAGE_SWAP_ADDR)
    /\ {p.single, p.tailDone, p.busy} \subseteq BOOLEAN
    /\ p.tries \in 0 .. SD_CMD_MAX_TRIES
    /\ DOMAIN p.flash = Words /\ DOMAIN p.kept = Addresses
    /\ p.operation.kind \in {"none", "write", "erase", "other"}
    /\ p.turn = NoTurn
    /\ call.pc \in {"out", "count", "process"}
    /\ ncommands \in 0 .. MaxCommands /\ nerrors \in 0 .. MaxErrors
    /\ nothers \in 0 .. MaxOthers

(* The words the command in progress may change.                           *)
First(c) == c.at + c.offset
InProgress == IF p.state = "IDLE" THEN {} ELSE First(p_cmd(p)) .. EndAddress(p_cmd(p)) - 1

(* At every moment, with a page erased and not yet written back, in the    *)
(* middle of a retry and when all tries have failed, each word that no     *)
(* command was to change is in its place or in the swap page.              *)
NothingLost ==
    \A a \in Addresses \ InProgress :
        p.kept[a] \in {p.flash[a], p.flash[PSTORAGE_SWAP_ADDR + OffsetOf(a)]}

(* A command takes effect as a whole, in its turn, on its words only.      *)
QueueNow ==
    [k \in 1 .. p.count |-> p.cmd[(p.rp + k - 1) % PSTORAGE_CMD_QUEUE_SIZE]]

Store == INSTANCE FlashStore WITH
    Capacity <- PSTORAGE_CMD_QUEUE_SIZE,
    store <- p.kept, queue <- QueueNow, told <- p.told, stalled <- p.state = "ERROR"
=============================================================================
