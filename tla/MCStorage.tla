------------------------------ MODULE MCStorage ------------------------------
(***************************************************************************)
(* Settings, and Pstorage with clients that ask for anything, for TLC.     *)
(* Both have the variables of Pstorage; client says whose behaviour it is. *)
(* The flash of the other clients has pages of four words and blocks of    *)
(* three, some of which straddle two pages.                                *)
(***************************************************************************)
EXTENDS Settings

VARIABLE client

Erased == -1
Spoilt == -2

Clears ==
    {[op |-> "clear", at |-> 3 * b, size |-> 3 * n, offset |-> 0] :
        <<b, n>> \in {c \in (0 .. 3) \X (1 .. 4) : c[1] + c[2] <= 4}}

(* The first word of a block, the other two, and all of it.                *)
Writes ==
    {[op |-> o, at |-> 3 * b, size |-> n, offset |-> k] :
        o \in {"store", "update"}, b \in 0 .. 3,
        <<n, k>> \in {<<1, 0>>, <<2, 1>>, <<3, 0>>}}

(* An update at an offset of a block that lies on two pages loses words,   *)
(* see MCPstorageStraddle.                                                 *)
Straddles(r) == r.op = "update" /\ r.offset # 0 /\ r.at \div 4 # (r.at + 2) \div 4

Any == INSTANCE Pstorage WITH
           PSTORAGE_FLASH_PAGE_SIZE <- 4, SD_CMD_MAX_TRIES <- 2,
           block_size <- 3, block_count <- 4,
           Requests <- {r \in Clears \cup Writes : ~Straddles(r)},
           Interrupts <- FALSE, Refusals <- TRUE,
           MaxCommands <- 2, MaxErrors <- 2, MaxOthers <- 1

(* Tighter bounds for the settings, where fairness is asked for.           *)
Few == INSTANCE Settings WITH
           MaxBalances <- 1, MaxSaves <- 1, MaxErrors <- 3, MaxFails <- 1

StorageInit ==
    \/ client \in {"settings", "few"} /\ SettingsInit
    \/ /\ client = "any" /\ Any!Init
       /\ stage = "off" /\ todo = <<>> /\ pstorage_wait_flag = FALSE
       /\ pstorage_flag = 0 /\ coinbalance = NoBalance
       /\ last = 0 /\ overwritten = FALSE
       /\ nbalances = 0 /\ nsaves = 0 /\ nfails = 0

SettingsStep == client = "settings" /\ SettingsNext /\ UNCHANGED client
FewStep == client = "few" /\ Few!SettingsNext /\ UNCHANGED client
AnyStep ==
    /\ client = "any" /\ Any!Next
    /\ UNCHANGED <<client, stage, todo, pstorage_wait_flag, memory, history, bounds>>

StorageNext == SettingsStep \/ FewStep \/ AnyStep

storageVars == <<allvars, client>>

(* The busy loops and the flash go on; a restart need not come.            *)
StorageSpec ==
    /\ StorageInit /\ [][StorageNext]_storageVars
    /\ WF_storageVars(/\ client = "few"
                      /\ Few!INIT \/ Few!QueueNext \/ Few!Goes \/ Few!WaitEnds
                      /\ UNCHANGED client)
    /\ WF_storageVars(client = "few" /\ Few!Flashes /\ UNCHANGED client)

-----------------------------------------------------------------------------
(* Words that no command was to change are in their place or in the swap   *)
(* page at every moment, and the settings are never written over words     *)
(* that are not erased (with the types of both modules).                   *)
WordsKept ==
    /\ client = "any" => Any!TypeOK /\ Any!NothingLost
    /\ client = "settings" => SettingsTypeOK /\ NoJunk

(* The loops on pstorage_wait_flag end, whatever operations fail and power *)
(* does, unless pstorage has told that a command failed, which it does     *)
(* only after SD_CMD_MAX_TRIES failures: that wait never ends.             *)
GivenUp == \E k \in DOMAIN p.told : p.told[k].result = "error"
LoopsEnd ==
    /\ [](client = "few" /\ GivenUp => nerrors >= SD_CMD_MAX_TRIES)
    /\ (client = "few" /\ todo # <<>>) ~> (todo = <<>> \/ GivenUp)

(* A command takes effect as a whole, in its turn, on its words only: the  *)
(* state machine with its swap page implements FlashStore.                 *)
ActsAsFlashStore ==
    /\ client = "any" => Any!Store!Init
    /\ [][client = "any" => [Any!Store!Next]_(Any!Store!vars)]_storageVars
=============================================================================
