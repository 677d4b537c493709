------------------------------ MODULE Settings ------------------------------
(***************************************************************************)
(* What the application keeps in flash across a loss of power or a reset   *)
(* by the watchdog: the balance (blocks 0-3) with its marker (block 65),   *)
(* the time with its own marker (block 64) and data of the phone (block 67 *)
(* on), written by setup_balance_f(), update_wall_clock() and              *)
(* blue_writeflash() and read by INIT(), on top of Pstorage.  Every write  *)
(* is a clear and a store of a block, and the thread waits for the end of  *)
(* each in a loop on pstorage_wait_flag.                                   *)
(*                                                                         *)
(* A page holds three blocks of two words here: the balance and a spare    *)
(* block; the time, the marker and a block of the phone.                   *)
(***************************************************************************)
EXTENDS Pstorage

CONSTANTS MaxBalances, MaxSaves, MaxFails   \* bounds

ASSUME SettingsAssumption ==
    /\ block_size = 2 /\ block_count = 6 /\ PSTORAGE_FLASH_PAGE_SIZE = 6
    /\ {MaxBalances, MaxSaves, MaxFails} \subseteq Nat
    /\ MaxBalances < 10

VARIABLES
    stage,                \* "off", "INIT" or "main"
    todo,                 \* what the thread still has to do to the flash
    pstorage_wait_flag,
    pstorage_flag,        \* what INIT found: 0, 1 (time) or 2 (balance)
    coinbalance,          \* the balance in RAM, by words
    last,                 \* the balance saved last; Unknown after a failure
    overwritten,          \* a balance is, or was left, written over another
    nbalances, nsaves, nfails

memory == <<pstorage_flag, coinbalance>>
history == <<last, overwritten>>
bounds == <<nbalances, nsaves, nfails>>
mine == <<stage, todo, memory, history, bounds>>
allvars == <<vars, stage, todo, pstorage_wait_flag, memory, history, bounds>>

Block(b) == b * block_size
BalanceBlocks == <<0, 1>>
balance_storgeblock == 0
TimeBlock == 3
MarkerBlock == 4
PhoneBlock == 5

(* Tags of the data; a balance has its number.                             *)
TimeTag == 10
MarkerTag == 11
PhoneTag == 12
Unknown == 0 - 1

Clear(b, n) == Command([op |-> "clear", at |-> Block(b), size |-> n * block_size, offset |-> 0], 0)
StoreBlock(b, tag) ==
    Command([op |-> "store", at |-> Block(b), size |-> block_size, offset |-> 0], tag)
Rewrite(b, tag) == <<Clear(b, 1), StoreBlock(b, tag)>>

(* The last word of a block with a marker is written last.                 *)
Marked(flash, b, tag) == flash[Block(b) + 1] = Datum(tag, 1)
BalanceIn(flash) == [k \in 1 .. 2 * block_size |-> flash[Block(balance_storgeblock) + k - 1]]

(* One tag for each block: the words of a block are told apart by address. *)
BalanceWords(v) == <<Datum(v, 0), Datum(v, 1), Datum(v, 0), Datum(v, 1)>>
NoBalance == BalanceWords(0)

SettingsInit ==
    /\ p = Initialized([a \in Words |-> Blank])
    /\ call = NoCall /\ ncommands = 0 /\ nerrors = 0 /\ nothers = 0
    /\ stage = "off" /\ todo = <<>> /\ pstorage_wait_flag = FALSE
    /\ pstorage_flag = 0 /\ coinbalance = NoBalance
    /\ last = 0 /\ overwritten = FALSE
    /\ nbalances = 0 /\ nsaves = 0 /\ nfails = 0

(***************************************************************************)
(* INIT() up to mcuflash_init(): look for the markers, load the balance,   *)
(* and clear everything (but the phone's data) when there is no marker.    *)
(***************************************************************************)
mcuflash_init(flag) == IF flag = 0 THEN <<Clear(0, 5)>> ELSE <<>>

INIT ==
    /\ stage = "off"
    /\ pstorage_flag' = IF Marked(p.flash, MarkerBlock, MarkerTag) THEN 2
                        ELSE IF Marked(p.flash, TimeBlock, TimeTag) THEN 1 ELSE 0
    /\ coinbalance' = IF pstorage_flag' = 2 THEN BalanceIn(p.flash) ELSE NoBalance
    /\ todo' = mcuflash_init(pstorage_flag')
    /\ stage' = IF todo' = <<>> THEN "main" ELSE "INIT"
    /\ UNCHANGED <<vars, pstorage_wait_flag, history, bounds>>

(***************************************************************************)
(* Turns of main that write: what each does to the flash, in order.        *)
(***************************************************************************)

(* Mutant: the marker is written first.                                    *)
setup_balance_f_MarkerFirst(v) ==
    Rewrite(MarkerBlock, MarkerTag) \o Rewrite(0, v) \o Rewrite(1, v)

(* Mutant: no marker is written.                                           *)
setup_balance_f_NoMarker(v) == Rewrite(0, v) \o Rewrite(1, v)

setup_balance_f(v) ==
    Rewrite(BalanceBlocks[1], v) \o Rewrite(BalanceBlocks[2], v)
        \o Rewrite(MarkerBlock, MarkerTag)

update_wall_clock == Rewrite(TimeBlock, TimeTag)
blue_writeflash == Rewrite(PhoneBlock, PhoneTag)

Idle == stage = "main" /\ todo = <<>>

SetBalance ==
    /\ Idle /\ nbalances < MaxBalances
    /\ nbalances' = nbalances + 1
    /\ coinbalance' = BalanceWords(nbalances')
    /\ todo' = setup_balance_f(nbalances')
    /\ overwritten' = (overwritten \/ Marked(p.flash, MarkerBlock, MarkerTag))
    /\ UNCHANGED <<vars, stage, pstorage_wait_flag, pstorage_flag, last, nsaves, nfails>>

Save(commands) ==
    /\ Idle /\ nsaves < MaxSaves
    /\ nsaves' = nsaves + 1
    /\ todo' = commands
    /\ UNCHANGED <<vars, stage, pstorage_wait_flag, memory, history, nbalances, nfails>>

SaveTime == Save(update_wall_clock)
WritePhoneData == Save(blue_writeflash)

(***************************************************************************)
(* The thread queues the next command and waits, also when the queue had   *)
(* no room; example_cb_handler() ends the wait, when the command has       *)
(* succeeded.                                                              *)
(***************************************************************************)
QueueNext ==
    /\ todo # <<>> /\ ~pstorage_wait_flag /\ p.told = <<>>
    /\ pstorage_wait_flag' = TRUE
    /\ IF p.count = PSTORAGE_CMD_QUEUE_SIZE THEN UNCHANGED <<p, call>>
       ELSE /\ call' = [pc |-> "count", seen |-> p.count]
            /\ p' = Queued(p, todo[1])
    /\ UNCHANGED <<ncommands, nerrors, nothers, mine>>

Goes == (Count \/ Process) /\ UNCHANGED <<pstorage_wait_flag, mine>>

(* Mutant: the end of a clear is not noted.                                *)
example_cb_handler_StoresOnly(told, op) ==
    \E k \in DOMAIN told : told[k].result = "success" /\ op = "store"

example_cb_handler(told, op) ==
    \E k \in DOMAIN told : told[k].result = "success" /\ op \in {"store", "clear"}

Flashes ==
    /\ FlashSuccess \/ FlashError
    /\ pstorage_wait_flag' =
           (pstorage_wait_flag /\ ~example_cb_handler(p'.told, todo[1].op))
    /\ UNCHANGED mine

SavesBalance == \E k \in DOMAIN todo : todo[k].id \in (1 .. MaxBalances) \cup {MarkerTag}

(* The wait is over; the history notes a balance that is saved.            *)
WaitEnds ==
    /\ ~pstorage_wait_flag /\ p.told # <<>>
    /\ todo' = Tail(todo)
    /\ p' = [p EXCEPT !.told = <<>>]
    /\ stage' = IF todo' = <<>> THEN "main" ELSE stage
    /\ IF todo' = <<>> /\ SavesBalance THEN last' = nbalances /\ overwritten' = FALSE
       ELSE UNCHANGED history
    /\ UNCHANGED <<call, ncommands, nerrors, nothers, pstorage_wait_flag, memory, bounds>>

(***************************************************************************)
(* Power fails, or the watchdog bites: an operation of the flash may have  *)
(* been done up to any word.                                               *)
(***************************************************************************)
PowerFails ==
    /\ stage # "off" /\ nfails < MaxFails
    /\ nfails' = nfails + 1
    /\ \E n \in 0 .. Length(p.operation) : p' = Initialized(Done(p.flash, p.operation, n))
    /\ call' = NoCall
    /\ stage' = "off" /\ todo' = <<>> /\ pstorage_wait_flag' = FALSE
    /\ coinbalance' = NoBalance
    /\ last' = IF todo = <<>> \/ (last = 0 /\ ~SavesBalance) THEN last ELSE Unknown
    /\ UNCHANGED <<ncommands, nerrors, nothers, pstorage_flag, overwritten, nbalances, nsaves>>

SettingsNext ==
    \/ INIT \/ SetBalance \/ SaveTime \/ WritePhoneData
    \/ QueueNext \/ Goes \/ Flashes \/ WaitEnds
    \/ PowerFails

SettingsSpec == SettingsInit /\ [][SettingsNext]_allvars

(***************************************************************************)
(* Properties.                                                             *)
(***************************************************************************)
(* What the variables hold; the thread waits for one command at a time.    *)
SettingsTypeOK ==
    /\ stage \in {"off", "INIT", "main"}
    /\ Len(todo) \in 0 .. 6
    /\ pstorage_wait_flag \in BOOLEAN /\ overwritten \in BOOLEAN
    /\ pstorage_flag \in 0 .. 2
    /\ last \in 0 .. MaxBalances \cup {Unknown}
    /\ p.count \in 0 .. 1 /\ (p.count = 1 => pstorage_wait_flag)

(* Nothing is ever written over words that are not erased, whatever a loss *)
(* of power has left in the pages, the swap page among them.               *)
NoJunk == \A a \in Words : p.flash[a] # Junk

(* The balance that INIT() loads, when it finds the marker: one balance,   *)
(* whole.  It is not when power fails while a balance is written over      *)
(* another, since the marker of the first is not cleared before.           *)
LoadedWhole ==
    stage # "off" /\ pstorage_flag = 2 => \E v \in 1 .. MaxBalances : coinbalance = BalanceWords(v)

(* What is loaded in any case: of each block a balance, or words of it     *)
(* still erased, but never another block's data; never a newer balance     *)
(* behind an older one, since the blocks are written in order; and a       *)
(* whole balance if power never failed in a second save.                   *)
FromBlock(words, v) == \A k \in 1 .. block_size : words[k] \in {Blank, Datum(v, k - 1)}
LoadedBalance ==
    stage # "off" /\ pstorage_flag = 2 =>
        \E v \in 1 .. MaxBalances : \E w \in 1 .. v :
            /\ FromBlock(SubSeq(coinbalance, 1, block_size), v)
            /\ FromBlock(SubSeq(coinbalance, block_size + 1, 2 * block_size), w)
            /\ ~overwritten => coinbalance = BalanceWords(v)

(* The balance saved last is loaded at the next start, unless power failed *)
(* in a write to flash since; no balance is loaded if none was saved.      *)
Reloaded ==
    [][INIT /\ last # Unknown =>
           IF last = 0 THEN pstorage_flag' # 2 ELSE coinbalance' = BalanceWords(last)]_allvars
=============================================================================
