-------------------------------- MODULE Dfu --------------------------------
(***************************************************************************)
(* A firmware update by the bootloader: main() of bootloader/main.c,       *)
(* bootloader.c (settings page, waiting for events), dfu_dual_bank.c (the  *)
(* state machine and its two banks), dfu_transport_ble.c (the phone's      *)
(* writes) and dfu_init_template.c, over the queue of flash commands       *)
(* (PstorageRaw refines the FIFO used here) and the receive buffers        *)
(* (RxRing).  The flash, the settings page, the SoftDevice and the         *)
(* bootloader survive a reset; `ram` is everything that does not.          *)
(*                                                                         *)
(* The phone writes anything at any time.  Power may fail at any step: the *)
(* flash operation in progress is then done in part.  Handlers run in main *)
(* context one after the other and are functions of ram, in the order of   *)
(* their calls.  A failed APP_ERROR_CHECK() resets the chip.               *)
(*                                                                         *)
(* A word of flash is also a page, and an image is a sequence of words: a  *)
(* CRC is taken to tell images apart.  Sizes are in bytes.                 *)
(***************************************************************************)
EXTENDS RxRing, Sequences

CONSTANTS Contents,         \* what a word of an image may hold
          Images,           \* images the phone has, sequences of Contents
          OldImage,         \* the application installed at first
          OldSd, OldBl,     \* the SoftDevice and bootloader installed at first
          BankWords,        \* words of a bank
          StartPackets,     \* [mode, sd, bl, app] the phone may send
          DataPackets,      \* words of a data packet the phone may send
          BL_IMAGE_MAX_SIZE,
          PSTORAGE_CMD_QUEUE_SIZE,
          UINT_MAX,         \* stands for 0xFFFFFFFF
          MaxLate,          \* bound: the phone's writes queued when main leaves
          MaxResets         \* bound: losses of power and failures of the flash

(* Images are not empty and do not read as erased flash; a start packet    *)
(* has the sizes of what it names, in 32 bits; a data packet is short; a   *)
(* page of settings finds room in the queue.                               *)
ASSUME DfuAssumption ==
    /\ Contents \cap {"empty", "bad"} = {}
    /\ Images \subseteq Seq(Contents) \ {<<>>} /\ OldImage \in Seq(Contents)
    /\ {OldSd, OldBl} \subseteq Seq(Contents)
    /\ BankWords \in Nat \ {0} /\ Len(OldImage) \in 1 .. BankWords
    /\ StartPackets \subseteq [mode : SUBSET {"sd", "bl", "app"}, sd : Nat, bl : Nat, app : Nat]
    /\ \A p \in StartPackets :
          /\ p.sd + p.bl + p.app <= UINT_MAX
          /\ \A part \in {"sd", "bl", "app"} \ p.mode : p[part] = 0
    /\ DataPackets \subseteq Seq(Contents) \ {<<>>}
    /\ \A words \in DataPackets : 8 * BankWords + 4 * Len(words) <= UINT_MAX
    /\ UINT_MAX \in Nat /\ (UINT_MAX + 1) % 4 = 0 /\ UINT_MAX > 8 * BankWords
    /\ PSTORAGE_CMD_QUEUE_SIZE \in Nat /\ PSTORAGE_CMD_QUEUE_SIZE >= 2
    /\ MaxLate \in Nat /\ MaxResets \in Nat

VARIABLES
    flash,        \* bank 0 and, after it, bank 1
    settings,     \* the settings page
    sd, bl,       \* SoftDevice and bootloader
    gpregret,     \* GPREGRET is BOOTLOADER_DFU_START
    pc,           \* where main() is
    ram,
    validated,    \* history: the image that passed its check last
    nresets

vars == <<flash, settings, sd, bl, gpregret, pc, ram, validated, nresets>>
persistent == <<flash, settings, sd, bl, gpregret>>

UINT(n) == n % (UINT_MAX + 1)
Addresses == 0 .. 2 * BankWords - 1
BANK_0 == 0
BANK_1 == BankWords
DFU_IMAGE_MAX_SIZE_BANKED == 4 * BankWords
DFU_IMAGE_MAX_SIZE_FULL == 8 * BankWords
EMPTY == "empty"                            \* EMPTY_FLASH_MASK
BAD == "bad"                                \* written in part, or over data
Words == Contents \cup {EMPTY, BAD}

NO_CRC == <<>>                              \* bank_0_crc is 0
NoStart == [mode |-> {}, sd |-> 0, bl |-> 0, app |-> 0]

(* The settings page; BANK_INVALID_APP is what an erased byte reads.       *)
Page(code, crc, size) ==
    [bank_0 |-> code, bank_1 |-> code, bank_0_crc |-> crc, bank_0_size |-> size,
     sd_image_size |-> size, bl_image_size |-> size]
ErasedPage == Page("BANK_INVALID_APP", <<EMPTY>>, UINT_MAX)
BadPage == Page(BAD, <<EMPTY>>, UINT_MAX)
ZeroPage == Page("0", NO_CRC, 0)

NoResponse == <<"none", "none">>

(* The static variables as they are after a reset.                         *)
RamInit ==
    [m_dfu_state |-> "INIT_ERROR", m_start_packet |-> NoStart, m_image_size |-> 0,
     m_functions |-> "none", active |-> BANK_0, m_data_received |-> 0,
     m_init_packet |-> <<>>, m_extended_packet |-> NO_CRC,
     timer |-> "off", timeouts |-> 0, m_dfu_timed_out |-> FALSE,
     m_pkt_type |-> "INVALID", m_update_mode |-> {}, mp_final_packet |-> {},
     m_tear_down_in_progress |-> FALSE, conn |-> "off",
     pool |-> EmptyRing,
     cmds |-> <<>>, done |-> FALSE,         \* flash commands; the first is done
     m_update_status |-> "UPDATING", late |-> 0, settings |-> ZeroPage,
     resp |-> NoResponse,                   \* sent in the last step
     sent |-> <<>>,                         \* history: words accepted
     assert |-> FALSE]

Init ==
    /\ flash = [a \in Addresses |-> IF a < Len(OldImage) THEN OldImage[a + 1] ELSE EMPTY]
    /\ settings = [Page("BANK_INVALID_APP", NO_CRC, 0)
                      EXCEPT !.bank_0 = "BANK_VALID_APP", !.bank_0_size = 4 * Len(OldImage)]
    /\ sd = OldSd /\ bl = OldBl
    /\ gpregret = FALSE
    /\ pc = "app"
    /\ ram = RamInit
    /\ validated = OldImage
    /\ nresets = 0

(* n bytes of the flash, from address a on.                                *)
Content(a, n) == [k \in 1 .. n \div 4 |-> flash[a + k - 1]]

-----------------------------------------------------------------------------
(* What the handlers call.                                                 *)

Assert(r) == [r EXCEPT !.assert = TRUE]     \* APP_ERROR_CHECK() fails

(* nrf_err_code_translate()                                                *)
Translated(err, procedure) ==
    IF err \in {"SUCCESS", "INVALID_STATE", "NOT_SUPPORTED", "DATA_SIZE"} THEN err
    ELSE IF err = "INVALID_DATA" /\ procedure = "VALIDATE" THEN "CRC_ERROR"
    ELSE "OPER_FAILED"

(* ble_dfu_response_send(), which fails without a connection.  The        *)
(* SoftDevice may refuse it, too: PowerLoss stands for that reset.         *)
Respond(r, procedure, err) ==
    IF r.conn \in {"connected", "disconnecting"}
    THEN [r EXCEPT !.resp = <<procedure, Translated(err, procedure)>>]
    ELSE Assert(r)

(* pstorage_clear() and pstorage_store() under an APP_ERROR_CHECK()        *)
IsFull(r) == Len(r.cmds) = PSTORAGE_CMD_QUEUE_SIZE
Put(r, cmd) ==
    IF r.assert \/ IsFull(r) THEN Assert(r) ELSE [r EXCEPT !.cmds = Append(@, cmd)]

(* A command that stores a packet has its words: MemPool shows that the    *)
(* buffer keeps them.                                                      *)
Command(op, a, n) == [op |-> op, at |-> a, size |-> n, buffer |-> 0, words |-> <<>>]
Clear(a, n) == Command("clear", a, n)
Copy(n) == Command("copy", BANK_0, n)
ClearSettings == Command("clear_settings", 0, 0)
StoreSettings == Command("store_settings", 0, 0)
Store(a, b, words) ==
    [Command("store", a, 4 * Len(words)) EXCEPT !.buffer = b, !.words = words]

(* dfu_timer_restart() of a timer that has not fired for main yet          *)
TimerRestarted(r) == [r EXCEPT !.timer = "on"]

(* dfu_transport_close(); the SoftDevice refuses to disconnect twice.      *)
Close(r) ==
    LET t == [r EXCEPT !.m_tear_down_in_progress = TRUE]
    IN  IF r.conn = "disconnecting" THEN Assert(t)
        ELSE [t EXCEPT !.conn = IF @ = "connected" THEN "disconnecting" ELSE "off"]

(* bootloader_settings_save()                                              *)
Save(r, page) == Put(Put([r EXCEPT !.settings = page], ClearSettings), StoreSettings)
Saving(r, page) == Save([r EXCEPT !.m_update_status = "SETTINGS_SAVING"], page)

(* bootloader_dfu_update_process(), one operator per status code           *)
AppComplete(r, crc, size) ==
    Saving(r, [r.settings EXCEPT !.bank_0_crc = crc, !.bank_0_size = size,
                  !.bank_0 = "BANK_VALID_APP", !.bank_1 = "BANK_INVALID_APP"])

SdComplete(r, crc, p) ==
    Saving(r, [bank_0 |-> "BANK_VALID_SD", bank_1 |-> "BANK_INVALID_APP",
               bank_0_crc |-> crc, bank_0_size |-> p.sd + p.bl + p.app,
               sd_image_size |-> p.sd, bl_image_size |-> p.bl])

BootComplete(r, p) ==
    Saving(r, [settings EXCEPT !.bank_1 = "BANK_VALID_BOOT",
                  !.sd_image_size = p.sd, !.bl_image_size = p.bl])

(* Mutant: bank 0 stays marked as a SoftDevice.                            *)
SdSwapped_KeepsBank(r) ==
    Saving(r, [settings EXCEPT !.bank_1 = "BANK_INVALID_APP",
                               !.sd_image_size = 0, !.bl_image_size = 0])

SdSwapped(r) ==
    LET kept == IF settings.bank_0 = "BANK_VALID_SD"
                THEN Page("BANK_INVALID_APP", NO_CRC, 0) ELSE settings
    IN  Saving(r, [kept EXCEPT !.bank_1 = "BANK_INVALID_APP",
                               !.sd_image_size = 0, !.bl_image_size = 0])

TimedOut(r) == [Close(r) EXCEPT !.m_update_status = "TIMEOUT"]

Bank0Erased(r) ==
    Save(r, [r.settings EXCEPT !.bank_0_crc = NO_CRC, !.bank_0_size = 0,
                !.bank_0 = "BANK_INVALID_APP", !.bank_1 = settings.bank_1])

DfuReset(r) == [r EXCEPT !.m_update_status = "RESET"]

-----------------------------------------------------------------------------
(* The state machine of the update (dfu_dual_bank.c).                      *)

(* dfu_prepare_func_app_erase(), dfu_prepare_func_swap_erase()             *)
Prepare(r) ==
    LET t == [r EXCEPT !.m_dfu_state = "PREPARING",
                       !.active = IF r.m_functions = "sd" THEN BANK_0 ELSE BANK_1]
    IN  Put(t, IF r.m_functions = "sd" THEN Clear(BANK_0, r.m_image_size)
               ELSE Clear(BANK_1, DFU_IMAGE_MAX_SIZE_BANKED))

(* dfu_start_pkt_handle(): errors in the order of the checks               *)
ImageSize(p) == UINT(p.sd + p.bl + p.app)
StartError(r, p) ==
    IF "app" \in p.mode /\ p.mode # {"app"} THEN "NOT_SUPPORTED"
    ELSE IF \E n \in {p.sd, p.bl, p.app} : n % 4 # 0 THEN "NOT_SUPPORTED"
    ELSE IF p.bl > BL_IMAGE_MAX_SIZE THEN "DATA_SIZE"
    ELSE IF ImageSize(p) > (IF "sd" \in p.mode THEN DFU_IMAGE_MAX_SIZE_FULL
                            ELSE DFU_IMAGE_MAX_SIZE_BANKED) THEN "DATA_SIZE"
    ELSE IF r.m_dfu_state # "IDLE" \/ r.m_dfu_timed_out THEN "INVALID_STATE"
    ELSE "SUCCESS"

Functions(p) == IF "sd" \in p.mode THEN "sd" ELSE IF "bl" \in p.mode THEN "bl" ELSE "app"

(* The packet replaces the last one, whatever the answer.                  *)
dfu_start_pkt_handle(r, p) ==
    LET err == StartError(r, p)
        t == [r EXCEPT !.m_start_packet = p,
                       !.m_image_size = IF err = "NOT_SUPPORTED" THEN @ ELSE ImageSize(p),
                       !.m_functions = IF err \in {"NOT_SUPPORTED", "DATA_SIZE"}
                                       THEN @ ELSE Functions(p)]
    IN  IF err = "SUCCESS" THEN Prepare(TimerRestarted(t)) ELSE Respond(t, "START", err)

(* dfu_init_pkt_handle()                                                   *)
InitPktTaken(r) ==
    r.m_dfu_state \in {"RDY", "RX_INIT_PKT"} /\ r.m_data_received = 0 /\ ~r.m_dfu_timed_out
dfu_init_pkt_handle(r, image) ==
    LET t == [r EXCEPT !.m_dfu_state = IF @ = "RDY" THEN "RX_INIT_PKT" ELSE @]
    IN  IF InitPktTaken(r)
        THEN [TimerRestarted(t) EXCEPT !.m_init_packet = Append(@, image)]
        ELSE Respond(t, "INIT", "INVALID_STATE")

(* dfu_init_pkt_complete() with dfu_init_prevalidate(); an init packet     *)
(* for another device is <<"foreign">>.                                    *)
InitError(r) ==
    IF r.m_data_received > 0 \/ r.m_dfu_state # "RX_INIT_PKT" THEN "INVALID_STATE"
    ELSE IF r.m_init_packet = <<>> THEN "INVALID_LENGTH"
    ELSE IF Head(r.m_init_packet) = <<"foreign">> THEN "INVALID_DATA"
    ELSE "SUCCESS"
dfu_init_pkt_complete(r) ==
    LET err == InitError(r)
        t == IF err = "SUCCESS"
             THEN [r EXCEPT !.m_dfu_state = "RX_DATA_PKT",
                            !.m_extended_packet = Head(r.m_init_packet)]
             ELSE IF err = "INVALID_STATE" THEN r ELSE [r EXCEPT !.m_init_packet = <<>>]
    IN  Respond(t, "INIT", err)

(* Mutant: the alignment of the offset is not checked.                     *)
IsWordAligned_Always(n) == TRUE

IsWordAligned(n) == n % 4 = 0               \* is_word_aligned() in pstorage_store()

(* dfu_data_pkt_handle(): errors in the order of the checks                *)
DataError(r, words) ==
    LET received == UINT(r.m_data_received + 4 * Len(words))
    IN  IF r.m_dfu_state # "RX_DATA_PKT" THEN "INVALID_STATE"
        ELSE IF received > r.m_image_size THEN "DATA_SIZE"
        ELSE IF r.m_dfu_timed_out THEN "INVALID_STATE"
        ELSE IF ~IsWordAligned(r.m_data_received) THEN "INVALID_ADDR"
        ELSE IF IsFull(r) THEN "NO_MEM"
        ELSE IF received # r.m_image_size THEN "INVALID_LENGTH"
        ELSE "SUCCESS"
Taken == {"SUCCESS", "INVALID_LENGTH"}      \* the data is stored

dfu_data_pkt_handle(r, b, words) ==
    LET err == DataError(r, words)
        t == [r EXCEPT !.timer = IF err \in {"DATA_SIZE", "INVALID_STATE"} THEN @ ELSE "on"]
    IN  IF err \in Taken
        THEN [t EXCEPT !.cmds = Append(@, Store(r.active + r.m_data_received \div 4, b, words)),
                       !.m_data_received = UINT(@ + 4 * Len(words)),
                       !.sent = @ \o words]
        ELSE [t EXCEPT !.m_data_received = IF err = "DATA_SIZE" THEN UINT_MAX ELSE @]

(* app_data_process()                                                      *)
app_data_process(r, words) ==
    LET b == r.pool.write_index
        err == DataError(r, words)
        t == dfu_data_pkt_handle([r EXCEPT !.pool = Extracted(Produced(@))], b, words)
    IN  IF ~WindowOpen(r.pool) THEN Respond(r, "RECEIVE_APP", "NO_MEM")
        ELSE IF err = "SUCCESS" THEN [t EXCEPT !.mp_final_packet = {b}]
        ELSE IF err = "INVALID_LENGTH" THEN t
        ELSE Respond([t EXCEPT !.pool = Consumed(@, b)], "RECEIVE_APP", err)

(* Mutant: the contents of the bank are not compared.                      *)
ValidateError_NoCrc(r) ==
    IF r.m_dfu_state # "RX_DATA_PKT" \/ r.m_data_received # r.m_image_size
    THEN "INVALID_STATE"
    ELSE IF r.m_dfu_timed_out THEN "INVALID_STATE"
    ELSE "SUCCESS"

(* dfu_image_validate() with dfu_init_postvalidate()                       *)
ValidateError(r) ==
    IF r.m_dfu_state # "RX_DATA_PKT" \/ r.m_data_received # r.m_image_size
    THEN "INVALID_STATE"
    ELSE IF r.m_dfu_timed_out THEN "INVALID_STATE"
    ELSE IF Content(r.active, r.m_image_size) # r.m_extended_packet THEN "INVALID_DATA"
    ELSE "SUCCESS"
dfu_image_validate(r) ==
    LET err == ValidateError(r)
        t == IF r.m_dfu_state = "RX_DATA_PKT" /\ r.m_data_received = r.m_image_size
             THEN [r EXCEPT !.m_dfu_state =
                                 IF err = "SUCCESS" THEN "WAIT_4_ACTIVATE" ELSE "VALIDATE",
                            !.timer = IF r.m_dfu_timed_out THEN @ ELSE "on"]
             ELSE r
    IN  Respond(t, "VALIDATE", err)

(* Mutant: the settings are saved before the image is copied.              *)
dfu_activate_app_SettingsFirst(r) ==
    LET size == r.m_start_packet.app
    IN  Put(Put(AppComplete(r, NO_CRC, size), Clear(BANK_0, size)), Copy(size))

(* dfu_activate_app(); m_image_crc is still 0.                             *)
dfu_activate_app(r) ==
    LET size == r.m_start_packet.app
        t == Put(r, Clear(BANK_0, size))
    IN  IF IsFull(t) THEN DfuReset(t) ELSE AppComplete(Put(t, Copy(size)), NO_CRC, size)

(* dfu_image_activate(), and dfu_reset() when it fails                     *)
Activate(r) ==
    LET t == [r EXCEPT !.timer = "off"]
    IN  IF r.m_dfu_state # "WAIT_4_ACTIVATE" THEN DfuReset(r)
        ELSE IF r.m_functions = "sd" THEN SdComplete(t, NO_CRC, r.m_start_packet)
        ELSE IF r.m_functions = "bl" THEN BootComplete(t, r.m_start_packet)
        ELSE dfu_activate_app(t)

-----------------------------------------------------------------------------
(* Flash commands: what one leaves behind, and its callback.               *)

Programmed(old, new) == IF old \in {EMPTY, new} THEN new ELSE BAD

(* The words a command writes, from its first address on                   *)
Source(c) ==
    IF c.op = "store" THEN c.words ELSE Content(BANK_1, c.size)

FlashDone(c) ==
    [a \in Addresses |->
        IF a < c.at \/ a >= c.at + c.size \div 4 THEN flash[a]
        ELSE IF c.op = "clear" THEN EMPTY
        ELSE Programmed(flash[a], Source(c)[a - c.at + 1])]
SettingsDone(c) ==
    IF c.op = "clear_settings" THEN ErasedPage
    ELSE IF c.op # "store_settings" THEN settings
    ELSE IF settings = ErasedPage THEN ram.settings ELSE BadPage

(* Mutant: every packet counts as the final one.                           *)
IsFinal_Any(r, b) == TRUE

IsFinal(r, b) == r.mp_final_packet = {b}

(* dfu_cb_handler() for a data packet in buffer b                          *)
DataPacketCb(r, b, ok) ==
    LET t == [r EXCEPT !.pool = Consumed(@, b)]
    IN  IF ~ok THEN [r EXCEPT !.conn = IF @ = "connected" THEN "disconnecting" ELSE @]
        ELSE IF IsFinal(t, b) THEN Respond(t, "RECEIVE_APP", "SUCCESS")
        ELSE t

(* pstorage_callback_handler() of dfu_dual_bank.c and of bootloader.c      *)
Callback(r, c, ok) ==
    IF c.op \in {"store", "copy"} /\ r.m_dfu_state = "RX_DATA_PKT"
    THEN DataPacketCb(r, c.buffer, ok)
    ELSE IF c.op = "clear" /\ r.m_dfu_state = "PREPARING"
    THEN LET t == IF r.m_functions = "sd" THEN Bank0Erased(r) ELSE r
         IN  Respond([t EXCEPT !.m_dfu_state = "RDY"], "START",
                     IF ok THEN "SUCCESS" ELSE "INTERNAL")
    ELSE IF c.op = "store_settings" /\ r.m_update_status = "SETTINGS_SAVING"
    THEN [r EXCEPT !.m_update_status = "COMPLETE"]
    ELSE r

Quiet == [ram EXCEPT !.resp = NoResponse]
Popped == [Quiet EXCEPT !.cmds = Tail(@), !.done = FALSE]

(* The flash works through the queue ...                                   *)
FlashWrites ==
    /\ ram.cmds # <<>> /\ ~ram.done
    /\ pc \in {"dfu", "finalize"}
    /\ flash' = FlashDone(Head(ram.cmds))
    /\ settings' = SettingsDone(Head(ram.cmds))
    /\ ram' = [Quiet EXCEPT !.done = TRUE]
    /\ UNCHANGED <<sd, bl, gpregret, pc, validated, nresets>>

(* On its way to a reset main does nothing but what the flash has started. *)
Stopped(r) ==
    IF r.done \/ r.cmds = <<>> THEN RamInit
    ELSE [RamInit EXCEPT !.cmds = <<Head(r.cmds)>>, !.settings = r.settings]

(* Main goes on after a handler that leaves r.                             *)
Handled(r) ==
    /\ ram' = IF r.assert THEN Stopped(r) ELSE r
    /\ pc' = IF r.assert THEN "reset" ELSE pc

(* ... and main hears of each command.                                     *)
FlashEvent ==
    /\ ram.cmds # <<>> /\ ram.done
    /\ pc \in {"dfu", "finalize"}
    /\ Handled(Callback(Popped, Head(ram.cmds), TRUE))
    /\ UNCHANGED <<persistent, validated, nresets>>

(* What is left when old becomes new and is cut off: a part of it.         *)
Interrupted(old, new) ==
    {[a \in Addresses |-> IF a < cut THEN new[a] ELSE IF a = cut THEN x ELSE old[a]] :
        cut \in {c \in Addresses : old[c] # new[c]}, x \in Words}
Torn(old, new) ==
    {old, new} \cup
    {f \in Interrupted(old, new) : \A a \in Addresses : f[a] \in {old[a], new[a], BAD}}

InProgress == ram.cmds # <<>> /\ ~ram.done

(* A failed operation: the callback hears of it, and its APP_ERROR_CHECK() *)
(* resets the chip.                                                        *)
FlashError ==
    /\ InProgress
    /\ pc \in {"dfu", "finalize"}
    /\ nresets < MaxResets
    /\ nresets' = nresets + 1
    /\ LET c == Head(ram.cmds)
       IN  /\ flash' \in Torn(flash, FlashDone(c))
           /\ settings' \in {settings, SettingsDone(c)}
           /\ Handled(Assert(Callback(Popped, c, FALSE)))
    /\ UNCHANGED <<sd, bl, gpregret, validated>>

-----------------------------------------------------------------------------
(* The phone's writes (on_dfu_evt(), on_dfu_pkt_write()) and the radio.    *)

Listening ==
    /\ pc = "dfu"
    /\ ram.conn \in {"connected", "disconnecting"}

(* wait_for_events() returns when the scheduler's queue is empty.          *)
Leaving == ram.m_update_status \in {"COMPLETE", "TIMEOUT", "RESET"}

PhoneWrites(r) ==
    /\ Listening
    /\ Leaving => ram.late < MaxLate
    /\ Handled([r EXCEPT !.late = IF Leaving THEN @ + 1 ELSE @])
    /\ UNCHANGED <<persistent, nresets>>

StartMode ==
    /\ \E p \in StartPackets :
          PhoneWrites([Quiet EXCEPT !.m_pkt_type = "START", !.m_update_mode = p.mode])
    /\ UNCHANGED validated

StartPkt ==
    /\ ram.m_pkt_type = "START"
    /\ \E p \in StartPackets :
          /\ p.mode = ram.m_update_mode
          /\ PhoneWrites(dfu_start_pkt_handle(Quiet, p))
    /\ UNCHANGED validated

InitStart ==
    /\ PhoneWrites([Quiet EXCEPT !.m_pkt_type = "INIT"])
    /\ UNCHANGED validated

(* The phone sends one init packet at a time.                              *)
InitPkt ==
    /\ ram.m_pkt_type = "INIT"
    /\ ram.m_init_packet = <<>>
    /\ \E image \in Images \cup {<<"foreign">>} :
          PhoneWrites(dfu_init_pkt_handle(Quiet, image))
    /\ UNCHANGED validated

InitComplete ==
    /\ PhoneWrites(dfu_init_pkt_complete([Quiet EXCEPT !.m_pkt_type = "INIT"]))
    /\ UNCHANGED validated

ReceiveApp ==
    /\ PhoneWrites([Quiet EXCEPT !.m_pkt_type = "FIRMWARE_DATA"])
    /\ UNCHANGED validated

DataPkt ==
    /\ ram.m_pkt_type = "FIRMWARE_DATA"
    /\ \E words \in DataPackets : PhoneWrites(app_data_process(Quiet, words))
    /\ UNCHANGED validated

Validate ==
    /\ PhoneWrites(dfu_image_validate(Quiet))
    /\ validated' = IF ValidateError(Quiet) = "SUCCESS"
                    THEN Content(ram.active, ram.m_image_size) ELSE validated

(* BLE_DFU_ACTIVATE_N_RESET, BLE_DFU_SYS_RESET                             *)
ActivateNReset ==
    /\ LET r == Close(Quiet) IN PhoneWrites(IF r.assert THEN r ELSE Activate(r))
    /\ UNCHANGED validated

SysReset ==
    /\ PhoneWrites(DfuReset(Close(Quiet)))
    /\ UNCHANGED validated

(* on_ble_evt()                                                            *)
Connected ==
    /\ pc = "dfu" /\ ram.conn = "adv" /\ ~Leaving
    /\ ram' = [Quiet EXCEPT !.conn = "connected"]
    /\ UNCHANGED <<persistent, pc, validated, nresets>>

Disconnected ==
    /\ Listening
    /\ ram' = [Quiet EXCEPT !.conn = IF ram.m_tear_down_in_progress THEN "off" ELSE "adv"]
    /\ UNCHANGED <<persistent, pc, validated, nresets>>

(* The timer runs out; main hears of it through the scheduler, perhaps     *)
(* after the timer was started again.                                      *)
TimerExpires ==
    /\ pc = "dfu" /\ ram.timer = "on" /\ ram.timeouts = 0
    /\ ram' = [Quiet EXCEPT !.timer = "off", !.timeouts = 1]
    /\ UNCHANGED <<persistent, pc, validated, nresets>>

(* dfu_timeout_handler()                                                   *)
Timeout ==
    /\ pc = "dfu" /\ ram.timeouts > 0
    /\ Handled(TimedOut([Quiet EXCEPT !.timeouts = 0, !.m_dfu_timed_out = TRUE]))
    /\ UNCHANGED <<persistent, validated, nresets>>

-----------------------------------------------------------------------------
(* main(), and resets.                                                     *)

Goes(to) ==
    /\ pc' = to
    /\ UNCHANGED <<validated, nresets>>

(* The application asks for an update.                                     *)
EnterDfu ==
    /\ pc = "app"
    /\ gpregret' = TRUE
    /\ Goes("boot")
    /\ UNCHANGED <<flash, settings, sd, bl, ram>>

Boot ==
    /\ pc = "boot"
    /\ gpregret' = FALSE
    /\ Goes(IF gpregret THEN "erase_settings" ELSE "check")
    /\ UNCHANGED <<flash, settings, sd, bl, ram>>

(* ble_flash_page_erase(255)                                               *)
EraseSettings ==
    /\ pc = "erase_settings"
    /\ settings' = ErasedPage
    /\ Goes("erase_banks")
    /\ UNCHANGED <<flash, sd, bl, gpregret, ram>>

(* Pages 96 to 221: both banks but the last pages of bank 1                *)
BanksErased == [a \in Addresses |-> IF a < 2 * BankWords - 1 THEN EMPTY ELSE flash[a]]

EraseBanks ==
    /\ pc = "erase_banks"
    /\ flash' = BanksErased
    /\ Goes("check")
    /\ UNCHANGED <<settings, sd, bl, gpregret, ram>>

bootloader_app_is_valid ==
    /\ flash[BANK_0] # EMPTY
    /\ settings.bank_0 = "BANK_VALID_APP"
    /\ \/ settings.bank_0_crc = NO_CRC
       \/ settings.bank_0_crc = Content(BANK_0, settings.bank_0_size)

bootloader_dfu_sd_in_progress ==
    settings.bank_0 = "BANK_VALID_SD" \/ settings.bank_1 = "BANK_VALID_BOOT"

(* dfu_sd_image_validate(), dfu_bl_image_validate()                        *)
NewSd == Content(BANK_0, settings.sd_image_size)
NewBl == Content(IF settings.sd_image_size = 0 THEN BANK_1
                 ELSE BANK_0 + settings.sd_image_size \div 4, settings.bl_image_size)
SdInstalled == settings.sd_image_size = 0 \/ sd = NewSd
BlInstalled == settings.bl_image_size = 0 \/ bl = NewBl

(* Mutant: the bank is marked as used before the image is copied.          *)
CheckSd_MarksFirst ==
    /\ pc = "check" /\ bootloader_dfu_sd_in_progress
    /\ settings' = [settings EXCEPT !.bank_0 = "BANK_INVALID_APP"]
    /\ Goes("swap_sd")
    /\ UNCHANGED <<flash, sd, bl, gpregret, ram>>

(* bootloader_dfu_sd_update_continue()                                     *)
CheckSd ==
    /\ pc = "check" /\ bootloader_dfu_sd_in_progress
    /\ IF SdInstalled /\ BlInstalled
       THEN /\ ram' = SdSwapped(ram)
            /\ Goes("finalize")
       ELSE /\ Goes("swap_sd")
            /\ UNCHANGED ram
    /\ UNCHANGED persistent

(* dfu_sd_image_swap(), in its steps in SdSwap                             *)
SwapSd ==
    /\ pc = "swap_sd"
    /\ sd' = IF settings.sd_image_size = 0 THEN sd ELSE NewSd
    /\ Goes("swap_bl")
    /\ UNCHANGED <<flash, settings, bl, gpregret, ram>>

(* dfu_bl_image_swap(): the MBR copies the bootloader and resets; it       *)
(* finishes by itself what a power loss interrupts.                        *)
SwapBl ==
    /\ pc = "swap_bl"
    /\ IF settings.bl_image_size = 0
       THEN /\ ram' = SdSwapped(ram)
            /\ Goes("finalize")
            /\ UNCHANGED bl
       ELSE /\ bl' = NewBl
            /\ Goes("reset")
            /\ UNCHANGED ram
    /\ UNCHANGED <<flash, settings, sd, gpregret>>

(* The end of main(): the application or a reset                           *)
Leave ==
    LET starts == bootloader_app_is_valid /\ ~bootloader_dfu_sd_in_progress
    IN  /\ Goes(IF starts THEN "app" ELSE "reset")
        /\ ram' = IF starts THEN RamInit ELSE Stopped(ram)

(* bootloader_dfu_start() with dfu_init(); m_update_status keeps its value *)
StartUpdate ==
    /\ Goes("dfu")
    /\ ram' = [ram EXCEPT !.m_dfu_state = "IDLE", !.timer = "on", !.conn = "adv"]

(* An update that was asked for finds no valid application, either.        *)
CheckApp ==
    /\ \/ pc = "check" /\ ~bootloader_dfu_sd_in_progress
       \/ pc = "finalize" /\ ram.m_update_status = "COMPLETE"
    /\ IF bootloader_app_is_valid THEN Leave ELSE StartUpdate
    /\ UNCHANGED persistent

(* wait_for_events() returns.                                              *)
UpdateEnds ==
    /\ pc = "dfu"
    /\ Leaving
    /\ Leave
    /\ UNCHANGED persistent

(* A reset cuts off what is being written.                                 *)
CutOff ==
    /\ flash' \in IF pc = "erase_banks" THEN Torn(flash, BanksErased)
                  ELSE IF InProgress THEN Torn(flash, FlashDone(Head(ram.cmds)))
                  ELSE {flash}
    /\ settings' \in IF pc = "erase_settings" THEN {settings, ErasedPage, BadPage}
                     ELSE IF InProgress /\ SettingsDone(Head(ram.cmds)) # settings
                     THEN {settings, SettingsDone(Head(ram.cmds)), BadPage}
                     ELSE {settings}
    /\ sd' \in IF pc = "swap_sd" /\ settings.sd_image_size # 0 THEN {sd, <<BAD>>, NewSd}
               ELSE {sd}
    /\ ram' = RamInit
    /\ pc' = "boot"
    /\ UNCHANGED <<bl, validated>>

(* NVIC_SystemReset() and failed assertions                                *)
SystemReset ==
    /\ pc = "reset"
    /\ CutOff
    /\ UNCHANGED <<gpregret, nresets>>

PowerLoss ==
    /\ nresets < MaxResets
    /\ nresets' = nresets + 1
    /\ CutOff
    /\ gpregret' = FALSE

Main ==
    \/ Boot \/ EraseSettings \/ EraseBanks
    \/ CheckSd \/ SwapSd \/ SwapBl \/ CheckApp \/ UpdateEnds \/ SystemReset
    \/ FlashWrites \/ FlashEvent

Phone ==
    \/ StartMode \/ StartPkt \/ InitStart \/ InitPkt \/ InitComplete
    \/ ReceiveApp \/ DataPkt \/ Validate \/ ActivateNReset \/ SysReset
    \/ Connected \/ Disconnected

Next ==
    \/ Main \/ Phone
    \/ TimerExpires \/ Timeout
    \/ EnterDfu \/ FlashError \/ PowerLoss

Spec == Init /\ [][Next]_vars

(* What is left to the phone: while an update is under way it sends the    *)
(* start packet again that began it, or none.                              *)
SameStart ==
    pc = "dfu" /\ pc' = "dfu" /\ ram.m_dfu_state # "IDLE" =>
        ram'.m_start_packet = ram.m_start_packet

(* Main goes on, and the flash finishes what it was given.                 *)
FairSpec == Spec /\ WF_vars(Main)

-----------------------------------------------------------------------------
Pages ==
    [bank_0 : {"0", BAD, "BANK_INVALID_APP", "BANK_VALID_APP", "BANK_VALID_SD"},
     bank_1 : {"0", BAD, "BANK_INVALID_APP", "BANK_VALID_BOOT"},
     bank_0_crc : {NO_CRC, <<EMPTY>>}, bank_0_size : 0 .. UINT_MAX,
     sd_image_size : 0 .. UINT_MAX, bl_image_size : 0 .. UINT_MAX]

(* Types; the receive buffers and two commands for the settings are all    *)
(* the queue of flash commands must hold.                                  *)
TypeOK ==
    /\ flash \in [Addresses -> Words]
    /\ settings \in Pages /\ ram.settings \in Pages
    /\ gpregret \in BOOLEAN
    /\ pc \in {"app", "boot", "erase_settings", "erase_banks", "check", "swap_sd",
               "swap_bl", "finalize", "dfu", "reset"}
    /\ IsRing(ram.pool)
    /\ ram.m_data_received \in 0 .. UINT_MAX
    /\ Len(ram.cmds) <= RX_BUF_QUEUE_SIZE + 2
    /\ validated \in Images \cup {OldImage}

Holds(a, words) == Content(a, 4 * Len(words)) = words

(* A bank marked valid on the settings page holds all of the image that    *)
(* passed its check, whenever power is lost.                               *)
MarkedWhole ==
    /\ settings.bank_0 \in {"BANK_VALID_APP", "BANK_VALID_SD"} => Holds(BANK_0, validated)
    /\ settings.bank_1 = "BANK_VALID_BOOT" => Holds(BANK_1, validated)

(* Only a whole application is started, with a whole SoftDevice below it.  *)
AppStartsWhole ==
    pc = "app" => Holds(BANK_0, validated) /\ BAD \notin {sd[k] : k \in DOMAIN sd}

(* A SoftDevice copied in part can be copied again: its image and the mark *)
(* on the settings page are still there.                                   *)
SdRecoverable ==
    BAD \in {sd[k] : k \in DOMAIN sd} =>
        settings.bank_0 = "BANK_VALID_SD" /\ Holds(BANK_0, validated)

(* All of it together: over losses of power, failures of the flash and the *)
(* phone's requests in any order, but for another start packet while its   *)
(* update is under way (SameStart), what is marked is whole, what is       *)
(* started is whole, and a SoftDevice is never left in part without its    *)
(* image.                                                                  *)
WholeStarted == MarkedWhole /\ AppStartsWhole /\ SdRecoverable

(* The phone is told that all data was received only when all of it is in  *)
(* the flash.                                                              *)
FinalTruthful ==
    [][ram'.resp = <<"RECEIVE_APP", "SUCCESS">> =>
          /\ Holds(ram.active, ram.sent)
          /\ 4 * Len(ram.sent) = ram.m_image_size]_vars

(* After too much data nothing more is stored in this session.             *)
OverrunFinal ==
    [][ram.m_data_received = UINT_MAX =>
           ram'.m_data_received = UINT_MAX \/ pc' # "dfu"]_vars

(* Whatever was interrupted, the device gets to run an application or to   *)
(* listen for an update.                                                   *)
Back == pc = "app" \/ (pc = "dfu" /\ ram.m_update_status = "UPDATING")
Recovers == []<>Back
=============================================================================
