# A formal model of the bithd BLE firmware

The firmware runs on an nRF51 next to an STM32. The nRF51 owns the radio, the
battery, the touch key and the power of the STM32; the STM32 owns the display
and the keys. A phone sends commands over BLE; the nRF51 answers some itself
and passes the others on over a UART. The repository holds Nordic's SDK 8
(`components/`) and about 5500 lines of its own
(`ble_app_template_bithd/`). It has no tests and no documents; what it says of
itself is in comments.

The same chip holds a bootloader (`app/bootloader/` with
`components/libraries/bootloader_dfu/`) that replaces the application, the
SoftDevice or itself over BLE.

Paths below are relative to `src/`; `app/` abbreviates
`ble_app_template_bithd/`.

## The system

### Execution

There are two kinds of context. Interrupts: the SoftDevice's events
(`ble_TxRx_on_ble_evt`), the UART's bytes (`uart_event_handle`) and the
`app_timer` handlers, which run to completion and may come between any two
instructions of the main loop. Main: `main()` puts four handlers on the event
scheduler's queue (`main_loop()`), in this order,

1. `Bluetooth_ReciveANDSend` - the BLE transport,
2. `Bluetooth_CmdProcess` - the command dispatcher,
3. `UartDataSendrecive` - the UART protocol,
4. the handler of the current `Main_status`,

executes the queue until it is empty, sleeps, and starts again. Handlers and
interrupts put further events on the same queue (`uart_send()` its bytes, the
timers `Read_CapKey`, `ReadAdc`, `update_wall_clock`), and
`bluetoothupdate_F()` executes the queue from inside a handler. There are no
locks: contexts share global variables, and one buffer, `g_apdu`, holds the
command being received, the reply being sent, and the data of the UART's
frames.

### Components

| Component | Code | State | Operations | Model |
|---|---|---|---|---|
| Event scheduler | `components/libraries/scheduler/app_scheduler.c` | ring of headers and data, two indices | put (any context), execute (main) | `AppScheduler`, `EventQueue` |
| BLE transport | `app/Bluetooth_HWprotocol.c`, `app/ble_TxRx_Service.c` | `g_apdu`, bitmaps of received and missing packets, counters of the reply, timer `T_Connect` | packet received (interrupt), turn of main, connect, disconnect | `BleTransfer`, `BleLink`, `BleLinkProofs`, `BleDeliveryProofs` |
| Command dispatcher | `app/Bluetooth_APPprotocol.c` | label and status word of the last command | `Bluetooth_CmdProcess`, `Send_bluetoothdata`, one function per command | `BleTransfer` (dispatch and reply) |
| UART protocol | `app/Uart_DMWZ.c` | frame buffer, frame number, flags of the sender and of the receiver | byte received (interrupt), `CmdSendUart`, `UartDataSendrecive`, `Uart_close` | `UartLink` |
| Timer interrupts | `app/Timer_Interrupt_Fuction.c` | flags `TimeOpen/TimeOut`, tick counters | one handler per timer | parts in `UartLink`, `BleTransfer`, `AppMode` |
| Application mode | `app/main.c`, `program.c`, `closeoled.c`, `timedis.c`, `bluetoothKEY_dmwz.c`, `GPIO_DMWZ.c` | `Main_status`, shutdown timer, power and boot pin of the STM32 | one handler per mode, commands of the phone, touch, USB, pairing | `AppMode` |
| Touch key | `app/synaot.c` | key, long-touch timer, worked flag | `Read_CapKey` | `AppMode` |
| Battery, USB | `app/ADC_DMWZ.c` | low power, plug | `ReadAdc`, `Chargingandmanagerdisplay` | `AppMode` (what they do to the mode) |
| Wall clock | `app/TimeClock.c` | seconds, date and time, weekday | `update_wall_clock`, `set_system_clock` | `WallClock` |
| Settings in flash | `app/flashmcu_dmwz.c`, parts of `main.c`, `TimeClock.c` and the dispatcher | balance, time, the phone's blocks, `pstorage_wait_flag` | save, load, callback | `Settings` over `Pstorage` |
| Flash storage | `components/drivers_nrf/pstorage/pstorage.c` | queue of commands, state of the swap, flash | store, clear, update, SoftDevice events | `Pstorage`, `FlashStore` |
| Application timers | `components/libraries/timer/app_timer.c` | list of timers, queues of operations, RTC1 | start, stop, stop all, two interrupts | `AppTimer` |
| Bootloader, DFU | `app/bootloader/`, `components/libraries/bootloader_dfu/` | state of the update, settings page, two banks | writes of the phone, flash callbacks, timer, start after a reset | `Dfu`, `SdSwap` |
| Receive buffers | `components/libraries/hci/hci_mem_pool.c` | ring of buffers | produce, extract, consume | `RxRing`, `MemPool` |
| Flash queue of the bootloader | `components/drivers_nrf/pstorage/pstorage_raw.c` | ring of commands, round | store, clear, SoftDevice events | `PstorageRaw`, `FlashQueue` |
| CRC16 | `app/CRC16_DMWZ.c` | none | | as equality of contents |
| Stack set-up, bonding | `app/ble_DMWZ.c`, `appbond.c`, `scheduler_DMWZ.c` | connection, authentication | events; initialisation calls | the events in `AppMode` |

### How they interact

* phone -> transport: write events, in interrupt context, into `g_apdu` and the
  bitmaps; main looks at `Recivedataflag` and `Apdufinsh`.
* transport -> dispatcher: `blueRecivSendflag = bluetoothRecivedata`.
* dispatcher -> transport: the reply in `g_apdu`,
  `blueRecivSendflag = bluetoothSenddata`.
* dispatcher -> mode -> UART: `APDU_blekey`, a pointer into `g_apdu`, then
  `CmdSendUart()`, which sets `uart_send_flag`.
* UART -> transport: `Uart_cmdprogam()` makes the STM32's answer a reply and
  sets `uart_waitack_flag = 1`; the phone's acknowledgement makes it 2 (in
  interrupt context), and the next turn acknowledges the STM32's answer.
* timers -> UART: the display's refresh calls `CmdSendUart()` in interrupt
  context.
* mode, touch, ADC, dispatcher -> mode: each of them assigns `Main_status`,
  switches the STM32's power and calls `CmdSendUart()`. The handler of the mode
  is put on the queue before the others of the turn run.
* dispatcher, clock -> flash: `pstorage_clear()`, `pstorage_store()` and a loop
  on `pstorage_wait_flag`, which the callback clears. In the application the
  SoftDevice's events are handled in interrupt context, or the loop would never
  end; in the bootloader they go through the scheduler.
* application -> bootloader: `GPREGRET` and a reset (`bluetoothupdate_F()`).
* phone -> bootloader: control point and packet characteristic; a data packet
  lives in a buffer of the pool until the flash's callback gives it back.
* bootloader -> next start: the settings page, the only thing that outlives a
  reset beside the images themselves.
* application, bootloader -> timers: `app_timer_start()` and `app_timer_stop()`
  queue operations; SWI0 carries them out, RTC1 calls the handlers.

### What is hard here, and what would make it right

* Interleaving without locks. The scheduler fills its slots outside of the
  critical region and gives them back before the handler runs. The transport's
  interrupt writes what main reads. Right means: nothing is read half written,
  a command is announced whole.
* Loss. Notifications the stack has no buffer for are dropped, and nobody looks
  at the result. Right means: a reply is put together complete, a command is
  worked, and worked once.
* Disconnection at any point. Only main's turn cleans up.
* One buffer for both directions, also for resending. Right means: what is sent
  again is what was sent.
* Acknowledgements without numbers, a one-byte label, a frame number of one
  byte. Right means: an acknowledgement counts for the frame it was meant for.
* Flags that stand for more than they say: `Main_status`, the timer's flag, the
  power of the STM32 and what it shows are set one by one in a dozen places.
  Right means: they agree when the turn is over.
* Loss of power in the middle of a flash operation, or between two of them.
  Flash is erased by the page and cleared by the bit. Right means: what is
  marked valid is whole, what is loaded was saved, no neighbour is lost.
* Rings and counters that wrap around, with callbacks that use them again
  before they are up to date. Right means: nothing is overwritten or skipped.
* Silence. Phone or STM32 may stop at any moment. Right means: the device comes
  to rest, since its one buffer blocks everything else.

`PROJECT.json` lists these hazards one by one with their lines, and for each
the properties that watch it, or why there is none yet.

## The modules

### EventQueue, AppScheduler (MCRings)

`EventQueue` is what `app_scheduler.h` promises: a FIFO queue of whole events
of bounded capacity. `AppScheduler` is the code: a ring of `QueueSize + 1`
slots; a put that reserves its slot (`Reserve`, the critical region), sets the
handler (`FillHandler`) and the data and size (`FillData`); a get that advances
the index (`GetAdvance`) and then reads (`GetRead`); handlers that run, put
events themselves and may call `app_sched_execute()` again (`ExecuteBegin`,
`ExecuteEnd`). Level 0 is main, levels 1 to `Levels` are interrupt priorities; a
level moves only while all above it are idle. Puts are numbered, and the number
stands for handler and data. `ImplementsEventQueue` is the refinement: the
abstract queue counts a reserved slot as its event. `AppSchedulerProofs`
holds the theorems (see "The proofs").

### BleTransfer, BleLink (MCBleLink, MCBleLinkLive, MCBleLinkAnnounced)

`BleTransfer` cuts a turn of main where an interrupt makes a difference (the
header of the module shows the order) and has one action per piece; `PhoneToBle`
is `phone_to_ble_data_parse()`, one disjunct per early return. Lengths are the
code's bytes, so that `g_apdu_length`, `lr`, `Sendlenth` and the numbers of
packets are computed as in the code; the contents of `g_apdu` are one token per
packet, which says whose packet it is and whether it was already moved over the
two length bytes. `SumPackNumber` is a byte and `g_apdu_length` has 16 bits, and wrap
around as such. Bitmaps are sets of packet numbers with the length byte the
code computes, which the retransmission loop depends on. `T_Connect` is what
`CheckTP()` returns. The CRC is: the tokens are those of one command. What
`BluetoothWork()` does is the counter `work` and, for the commands in `Local`,
a reply at once; the others are answered by the STM32, once or several times
(`UartReply`). `MaxParts` is what `g_apdu` has room for: `APDU_MAX_LEN` bytes in packets
of `PackRecive` (`Bluetooth_HWprotocol.h`). `TransferAssumption` asks that commands and
replies fit into it; the code does not compare the index of a packet with the end of
`g_apdu`, so what a phone does that sends more is outside of the model.

Variables of the model that the code does not have: `work` (how often a command
was worked), `resent` (packets of a retransmission round), `losses`,
`toPhone` (the stack's buffers), `pc`.

`BleLink` adds what is around it, which is not in the repository: a link that
keeps the order of packets and loses them at the sender or with the connection,
and a phone that follows the protocol the device's code implies: one command at
a time, retransmission of what is reported missing, acknowledgement or report
after the last packet of a reply, timeouts with a bounded number of retries.

A behaviour belongs to one `session`, which is chosen in the initial state and never
changes: the commands of the phone's user, how many packets and connections may be
lost (`losses`, `drops`), how often the phone may try again in a command (`retries`),
and `timely`. TRUE means that nobody's timeout is shorter than its peer's answer:
timers run out only when nothing is on its way and main has nothing to do, the phone
gives up or repeats only what the device has given up too, main gets a turn between the
loss of a connection and the next one, and the STM32 keeps its next answer back until
the phone has the last one. `TimeOver` is a number of seconds where a turn takes tens
of milliseconds, so this is the ordinary case. FALSE lets every timer run out at every
moment. What the phone still has to send is its `outbox`: jobs, each a set of packets
of the command or one acknowledgement or report.

Where a new reply finds `Sendlenth` of the one before, `Send` computes the index from it
as the code does, and what it sends is then no packet of the reply (`NoToken`, which also
stands for bytes outside of `g_apdu`): `CountersAgree` and `AnswerIntact` say that no such
thing happens in a timely session. In a hasty one it does. `SendBound` is a named bound on
the states: that far beyond the buffer a packet goes out only after the timer has run out.

`AtMostOnce`, the types in `CountersAgree` and the status word in `AcksTruthful` are
claimed for all sessions, the rest for the timely ones. `MCBleLink` takes the hasty
session's steps from an instance of `BleLink` with tighter bounds (`Hasty`: one retry,
one buffer, one packet on the link). `ble_link_announced` checks `AnnouncedWhole`, which
is `DeliveredWhole` without its condition, in a hasty session.

### UartLink (MCExchanges)

The UART protocol with its interrupt receiver byte by byte; `FrameBytes` are the
bytes at which `uart_event_handle()` changes state. `uart_communicate_buf` says
what the frame buffer holds: a command, a partly received frame, or an answer.
A turn of `UartDataSendrecive()` is cut after each of its blocks. What
`uart_send()` puts on the scheduler's queue leaves it (`uart_send_Bty`) behind
the handler of the mode, while acknowledgements go out at once, as in the code.
`Main_status` is reduced to the modes in which the STM32 is off, displays the
time, or works for the phone. The STM32 is external: it acknowledges, refuses,
loses, answers, repeats, and gives up. Ghost variables: `last` (the command sent
last and how often), `accepted` and `acked`, `passed`.

`timely` is chosen in the initial state and never changes. Where it is TRUE the
phone sends no APDU while the last one is under way, the STM32 answers an APDU
only after main has looked at its acknowledgement, the timeout of a second is longer than
an exchange, and a disconnection does not fall into the turn that sends a
command. The protocol does not ask that much of the STM32, so that the interleavings in
which its frames meet a command (`Uart_DMWZ.c:49`, `:95`) are outside of what the timely
properties say; "What the runs show" lists what happens in them. `CountersBounded` speaks
of all behaviours, `SendsRight`, `AnswersRight` and `AcksRight` of the timely ones.
`MCExchanges` gives the others tighter bounds.
`AnswersRight` lets an answer pass twice where the second receive path took it (see
below), and `AcksRight` ends with the 256th command, when the number comes round to
one the STM32 may still know.

One step of the model is still coarser than the processor: the lines of one
block of `UartDataSendrecive()` run without an interrupt between them.

### RxRing, MemPool (MCRings)

`RxRing` is the ring of receive buffers as a record and functions on it, for it
is used twice: `MemPool` has one action per function of `hci_mem_pool.c`, with
the client's view as history (which packet is in which buffer, which were handed
out), `Dfu` uses the same functions. `hci_mem_pool_rx_consume()` looks for the
buffer from the oldest one in use on and reclaims what lies free behind it
(`Reclaimed`). The client is `dfu_transport_ble.c`: it extracts a buffer right
after it was produced, gives the oldest back when it is stored, and the newest
when the packet is refused and nothing else is out (`RefuseNewest`).

### FlashQueue, PstorageRaw (MCRings)

`FlashQueue` is what the bootloader relies on: whole commands done one after the
other, in rounds, and a client told of each. `PstorageRaw` is the code: the ring
with its slots, `cmd_process()` that starts a round (the SoftDevice may answer
that it is busy, or with another error), the SoftDevice's event, and the callback
in the middle of the event's handler, which may queue further commands.
`ImplementsFlashQueue` is the refinement.

### Dfu (MCDfuApp, MCDfuSd)

The bootloader from reset to reset. `flash` are the words of the two banks, `sd`
and `bl` the images in their places, `settings` the settings page; `ram` is a
record of all static variables of the four source files, which a reset puts back
to `RamInit`. Handlers are functions on `ram`, called in the order of the code,
and a failed `APP_ERROR_CHECK` is the field `assert`: what follows it is
not done, and the chip resets (`Handled`, `Stopped`). The order of `pc` is that of
`main()`: `boot` (`GPREGRET`), `erase_settings`, `erase_banks`, `check`,
`swap_sd`, `swap_bl`, `finalize`, `dfu`, `reset`, and `app`. The flash executes
the command at the head of the queue (`FlashWrites`), and main hears of it later
(`FlashEvent`); that the ring of `pstorage_raw.c` is such a queue is shown by
`PstorageRaw`, that a buffer keeps its words by `MemPool`.

The phone (`PhoneWrites`) may send each of its requests at any time, with every
packet of `StartPackets`, `Images` and `DataPackets`, fitting or not. `SameStart` is what
runs and theorems ask of it: no other start packet while its update is under way. `PowerLoss`
may come anywhere; what was being written is then torn: a part of it done, one
word half written (`Torn`). `validated` is history: the image that
`dfu_image_validate()` accepted last.

The CRC is: the words are those of the image. `bank_0_crc` is the image or
`NO_CRC`.

### SdSwap (MCDfuSd)

`dfu_sd_image_swap()` page by page, which `Dfu` has as one step. The recursion of
`dfu_sd_img_block_swap()` is the sequence `todo` of what is left to do: compare a
block, call itself for the block before, erase and write page after page, compare
again. The MBR's copy is an element of `todo` that is erased and written a page at
a time. Pages are <<image, number>>, blank or torn; `like` chooses the pages of the
new image whose contents are as those of the old one at the same place. A loss of
power leaves a page blank or torn and starts again with `PowerOn`. `TakenForOld`
names the images that the code takes to be in place when they are not (below).

### AppMode (MCAppMode, MCExchanges)

All of what the device shows and does: one function per handler of a mode, per
command of the phone that changes the mode, and per event of a timer, over one
record `m` of the shared flags. A turn of main is four actions (`TurnBegins`,
`TurnCommand` or `TurnNoCommand`, `TurnUart`, `TurnMode`); `queued` is the mode
whose handler was put on the queue at its beginning. Events that go through the
scheduler (`Read_CapKey`, `ReadAdc`, `debug_wangnan`) may come between two of
them; interrupts (timeouts, connections, passkey) as well. Of the UART only
whether a command is to be sent and waited for: `CmdSendUart()` writes the frame and sets
the flag (`command`, `uart_send_flag`), also with the STM32 off, and only
`UartDataSendrecive()` sends, when the STM32 has power. `told` is what was sent to be
shown since it was powered; `Telling` is that, or the command that will be sent next.
`ToldUntouched` says of each step that it does not take what is shown from right to wrong
while the key was not touched, and names the two that do: the handler of a mode that
`setup_turnoff` has left, which goes on to timedisplay without power (`TurnedOffLate`),
and an APDU left over in download mode that takes the place of the passkey's command
(`LateApdu`).

### FlashStore, Pstorage (MCStorage, MCPstorageStraddle)

`FlashStore`: an array of words and commands that take effect one after the other
on their own words only. `Pstorage`: the whole state machine of `pstorage.c` with
its swap page; functions named as in the code on one record of the module's
variables and the operation requested, folded into one action per event
(`FlashSuccess`, `FlashError`) and per request of a client, the latter cut where
an interrupt makes a difference when `Interrupts = TRUE`. Words of the flash are
`Datum(command, k)`, blank or junk (written over).

### Settings (MCStorage)

Extends `Pstorage` with what the firmware keeps there: the balance in four blocks
with a marker block, the time, the phone's blocks, all in one page. A save is the
sequence of clears and stores of its function, each followed by the loop on
`pstorage_wait_flag` (`QueueNext`, which as the code does not look whether there was room
in the queue, `WaitEnds`); the callback is
`example_cb_handler()`; a restart is `INIT()` with `mcuflash_init()`. A loss of
power cuts off the operation the flash is doing. Contents are one tag per block.

### WallClock (MCTime)

`set_system_clock()`, `ConvertToUTCTime()` and `get_day_of_week()` as functions,
with the code's widths and its zero-based months, against a reference calendar
(`MonthDays`, `DaysOf`, `Later`) that counts as people do.

### AppTimer (MCTime)

The list of timers with relative ticks, the two queues of operations, the
handlers of SWI0 (`SWI0_IRQHandler`, a chain of functions named as in the code)
and RTC1, and `compare_reg_update()` in the three steps between which the counter
goes on. `Tick` is time; whatever has begun is done within `MaxLatency` ticks.
`left` is the true time each timer has to wait, and refers to no counter.

### The MC modules

A run takes one MC module, and most MC modules check several components, or one
component in several scenarios: it EXTENDS one module, takes the others (or the
same one with other constants) by INSTANCE, and has a variable that says whose
behaviour this is (`ring`, `scenario`, `what`, `swapping`, `client`, `part`, `kind`; in
`MCBleLink` it is the session). `MCRings` extends two modules, the scheduler and the
pool, `MCDfuSd` extends `SdSwap` and `MCBleLink` the transport, whose properties are
proved for all sizes. The variable is
chosen in the initial state and never changes; whoever is not chosen rests in
its initial state. A behaviour of the suite is thus a behaviour of one of its
parts, and a property of the suite, which is the conjunction of the parts' own,
says of each what its module says. Bounds of a part stand at its INSTANCE or, of
the module that is extended, in the `.cfg`.

## The runs

| Run | Question | States |
|---|---|---|
| `rings` | Is the event queue a FIFO queue of whole events, with two interrupt levels, nested execution and wrap-around (`ImplementsEventQueue`, `TakenIsNext`, `HandlerKeepsData`, `TypeOK`), and is every event taken out (`AllExecuted`)? Does a receive buffer of the bootloader keep its packet, and come back (`BufferKept`)? Is the bootloader's flash queue a FIFO queue of whole commands (`ImplementsFlashQueue`)? | 190 000 |
| `ble_link` | Is a command delivered whole (`DeliveredWhole`) and worked once (`AtMostOnce`), is a reply put together from retransmissions (`AnswerIntact`, `ResendComplete`), do the counters fit each other (`CountersAgree`), and is what phone and STM32 are told true (`AcksTruthful`)? | 2.1 million |
| `ble_link_live` | Does the device come to rest whatever the phone does (`ComesToRest`)? Is the command of a phone that keeps trying worked (`EventuallyWorked`)? Do all replies come when nothing is lost (`Answered`)? | 80 000 |
| `ble_link_announced` | (violated) Is an announced command whole when the timer runs out too early? | |
| `exchanges` | UART: is what is sent a command (`SendsRight`), what is passed on the answer that was waited for, once (`AnswersRight`), what is acknowledged accepted (`AcksRight`), all in timely behaviours, and are attempts bounded (`CountersBounded`)? Is every command settled, whatever the STM32 does (`SettlesAlways`)? Modes: does the device turn itself off when left alone (`Rests`)? | 560 000 |
| `dfu_app` | Updates of an application and of a bootloader: is only whole, checked code marked valid and started (`WholeStarted`), whatever the phone sends and wherever power is lost? Does only an announced image pass its check, and the queue of commands have room (`UpdateTypes`)? Does the phone hear of success only when all is in flash (`FinalTruthful`)? Is nothing stored after too much was sent (`OverrunFinal`)? | 1.8 million |
| `dfu_sd` | The same for a SoftDevice with a bootloader (`SdMarkedWhole`), and its swap over its own beginning, page by page and across losses of power: whole (`SwapWhole`). Does the device always come back to an application or to listening, and the swap to its end (`Recovers`)? | 520 000 |
| `app_mode` | Modes, commands, touches, timeouts, plug, pairing, disconnections: are power and boot mode of the STM32 right (`PowerRight`), is each touch worked once (`WorkedOnce`), and does no step but two take what the STM32 shows from right to wrong while nobody touches the key (`ToldUntouched`)? | 4.3 million |
| `storage` | Does pstorage do what each command says, in order (`ActsAsFlashStore`), and lose no word (`WordsKept`)? Is what is loaded the balance saved last when power failed in no save (`Reloaded`), and in any case made of the balances' own words, none newer behind an older one (`LoadedBalance`)? Do the busy loops end, unless an operation failed too often (`LoopsEnd`)? | 730 000 |
| `storage_torn` | (violated) Is what is loaded after a loss of power one balance, whole? | |
| `pstorage_straddle` | (violated) Does an update that lies over the border of two pages lose no word? | |
| `time` | No handler early (`NeverEarly`), none late (`CalledInTime`), at every tick of a counter that wraps around? Date, weekday and the next second for 64 years (`ClockRight`)? | 1.0 million |

Deadlock is checked for the bootloader's updates and for the modes. The other
systems do stop: commands, losses, saves and packets are bounded.

How the scenarios differ, where a property needs an assumption:

* `ble_link` has five sessions (`TheSessions`): two commands with two losses; a reply of
  ten packets with two losses; two commands with two lost connections; three commands, the
  last for the status of the one before, without any fault (what the STM32 is told,
  `AcksTruthful`); one command whose timers run out at any moment. `ble_link_live`: "silent" (timers that run out
  at any moment and a phone that may stop: `ComesToRest`) and "trying" (a phone that
  keeps trying: `EventuallyWorked`, and `Answered` while nothing was lost).
* `exchanges`: where `timely` is FALSE every timeout may come at any moment; then
  only `SettlesAlways` and `CountersBounded` are claimed. `Rests` is checked after a
  command with a touch or plug ("hand"), with a pairing ("pairing"), and after both
  without a command ("both").
* `app_mode`: with the USB plug ("plug") and in longer sequences of the commands that
  switch the power ("call") there are no touches. `ToldUntouched`
  speaks of these behaviours, and of the others as long as nobody touches the key.
* `dfu_app`, `dfu_sd`: `SameStart`.
* `storage`: `Reloaded` ends with a loss of power in a write.

### Bounds, and why they are enough

* Scheduler: a ring of three slots wraps around within four puts; two interrupt
  levels give a put inside a put inside main, and events with and without data
  share slots (the size of an old event must not survive).
* Buffers: a ring of four, ten packets: each slot is used twice and once more.
  Flash queue: three slots, five commands of one or two rounds, two errors.
* BLE: commands of one and of three packets, replies of one, two, three and ten
  packets - the first, the last and a middle packet differ in the code, and the
  bitmap's second byte starts with the ninth packet. Two losses hit a packet and
  its retransmission or its report. `WaitRertyTims` is the code's 3 except where
  timers run out freely, where 1 reaches the limit too.
* UART: `MAX_resend` is 2 in place of 10, so that giving up is reached with two
  faults; three commands, three changes of mode and four faults allow a damaged
  answer, its repetition and a lost acknowledgement in one behaviour. The proofs need
  no bound.
* Modes: all commands of the phone, two of them in a behaviour, with one touch or
  two changes of the plug, one connection, one pairing and one wait: a command
  that crosses the handler of the mode it leaves needs two of these; six of the commands
  that switch the power in the behaviours that have nothing else. `Rests` has two of: a
  command, a pairing, and a touch or change of the plug. A low battery is a choice at every look.
* Bootloader: banks of two words, images of two words (a SoftDevice of two with a
  bootloader of one) in packets of one, one reset or loss of power, which may
  fall into what the update leaves to do after a reset. `UINT_MAX` is 31 bytes,
  so that sums wrap around. Start packets differ in mode and sizes, one too big
  and one with two parts. Requests that come after main has left its loop
  (`MaxLate`) are in the updates of the SoftDevice. The handlers do not depend on
  how long an image is.
* `SdSwap`: a region behind one page of MBR, halves of two pages, images of 3, 5 and
  6 pages (one that fits in place of the old one; two with a tail over their own
  beginning, the first longer than the old one by no more than the MBR), two losses
  of power. The proof needs no bound.
* Flash storage: pages of four words, four blocks of three, so that blocks lie
  inside a page, over its border and at its end; two commands with every block
  and range, two failures, one foreign operation, two tries.
* Settings: a page of six words, two balances, two saves, two failures, three
  losses of power, the code's three tries, and SoftDevice events between the
  steps of a call. For `LoopsEnd` one balance, one save and one loss of power, and three
  failures, which reach `SD_CMD_MAX_TRIES`.
* Wall clock: every day of the 64 years that six bits hold, at midnight and two
  seconds before it, and the seconds after.
* Timers: a counter of 32 values, of which every one is met; the period of 6 is
  more than the compare offset of 3 and no divisor of 32; a wait of 40 takes
  longer than the counter takes to go around.

### Fairness

`FairSpec` of `BleLink` assumes that main's steps are taken (the loop has no
blocking call), that the 200 ms tick comes, that the link delivers, and that the
phone answers packets it received. `TryingFairness` adds a phone that connects and
retries, and an STM32 that answers: strong fairness, since it can answer only in
one place of main's turn, which comes again and again - what it sent waits in
the UART's buffer. `FairSpec` of `UartLink` assumes main's steps, a running
timer and the delivery of bytes; nothing of the STM32. `FairSpec` of
`AppScheduler` assumes that a started put is finished and main executes its
queue; nobody has to put.

`FairSpec` of `Dfu` assumes that main's steps are taken and that the flash
finishes what it was given; the phone and the timer may do nothing at all.
`FairSpec` of `AppMode` assumes main's turn and the timers that run; nothing of
the user, so `Rests` speaks of behaviours in which the user and the phone stop,
as they do when their bounds are reached. `FairSpec` of `PstorageRaw`
and `Pstorage` assumes that the SoftDevice finishes an operation and that
foreign operations end, `MCStorage` for the settings that the busy loop and the
flash go on, `FairSpec` of `SdSwap` that the processor does. Failures and losses
of power are bounded and never fair. Where a run has several parts, its MC module
asks for each part's fairness in the behaviours of that part.

### What the runs show, and what they leave open

The scheduler's two remarks on why no critical region is needed hold. The
transport is right about loss as long as timeouts are longer than a round trip.
The exceptions were found while stating the properties, by loosening the
assumption in question:

* With a timer that runs out early (`ble_link_announced`), a report makes the
  phone send a packet again that is on its way; the second copy arrives after
  `ble_transfer_init()` in line 501 of `Bluetooth_HWprotocol.c` and before
  `Apdufinsh = 0` in line 502 or before the dispatcher looks. The announced
  command then has a wrong length. This contradicts line 5 of that file.
* A phone that reconnects before main's next turn meets the old transfer.
* `remberPackn` is reset by nothing but the end of a round: after a
  disconnection in a round the next round starts in its middle.
* A reply whose packets are all lost is gone: the repeated command has a known
  label and is answered by nothing. `Answered` is therefore stated without
  losses only.
* After an abandoned reply `uart_waitack_flag` stays 1, and the acknowledgement
  of a later reply is passed on to the STM32 (`Stm32AckTruthful` without losses).
* On the UART, every safety property but the types fails when answers cross
  commands, and nothing in the protocol keeps the STM32 from that: a frame received overwrites the command that a retry sends;
  an answer right behind an acknowledgement turns it into a failure; a late
  acknowledgement acknowledges the next command; an answer accepted in the
  second receive path (lines 429 to 437) is not remembered in `CRC_old` and is
  passed on twice if its acknowledgement is lost; a stale answer is refused for
  ever, since every frame resets `ACC_resend`.
* Modes: the handler queued at the beginning of the turn works for a mode that may
  have been left since. Without touches two of them break what is shown. `setup_turnoff` and a
  disconnection in the turn whose queued handler is `BlueUPfirmware()`: it goes on to
  timedisplay and gives a command, but the STM32 is off, and nothing is sent
  (`Uart_DMWZ.c:272`). And an APDU that waits in `APDU_blekey` when a passkey is to be
  shown: sent late, it takes the one frame buffer from the command that shows it.
  `ToldUntouched` excepts these two and no other. With a touch there are more: a passkey that
  comes in the same turn as a touch is replaced on the display by what the handler
  of the old mode tells the STM32, and the phone's turn-off command is undone by a
  handler that finds a key or a timeout to work (`main.c:77`).
* Bootloader: what is marked valid is whole, across losses of power, because the
  settings page is erased first and written last. One request breaks it, and is left
  out by `SameStart`: a start packet that is refused has already replaced
  the sizes (`dfu_dual_bank.c:348`), and activation then marks or copies as much as the
  second packet named of an image of the size the first did. Without `SameStart` TLC
  finds `WholeStarted` violated in a behaviour of 32 steps. Nothing sets `m_image_crc`, so the CRC on the
  settings page is always 0 and the next start checks nothing but the mark
  (line 308); a reset the phone asks for does not wait for the flash
  (`bootloader.c:87`), which the marks survive; after an overrun it is the
  alignment, and not the size, that refuses data (line 456), and `OverrunFinal`
  holds.
* SoftDevice: pages are moved in the right order, from the front to the back, and
  the comparison from the back finds where to go on. The exception is `TakenForOld`:
  `SD_SIZE_GET()` counts the MBR, so that an image longer than the old SoftDevice by no
  more than the MBR does not have that one cleared (`dfu_dual_bank.c:745`). If its second
  block is like the old one's, the comparison of that block takes the first for swapped
  too. `SwapWhole` asks nothing of the pages there; the swap ends all the same. In
  all other images any page may be like the old one's.
* Flash storage: an update keeps its neighbours unless it lies over the border of
  two pages (`pstorage_straddle`). The comment at `pstorage.c:394` argues that the
  offset can be left out. Counting up the queue (line 649) is not safe against events
  in interrupt context, which the application has: `Settings` has one command at a
  time and is not affected.
* The bootloader's own queue would lose a command that a callback puts into a full
  queue (`pstorage_raw.c:315`, `CallbackLimit` keeps callbacks below it); `TypeOK`
  of `Dfu` shows that it holds eight data
  packets and two commands for the settings at most, and no callback of a data
  packet queues anything.
* Settings: the first balance is loaded whole or not at all, since the marker is written
  last. A later one is not (`storage_torn`): its save leaves the old marker in place until
  the four blocks are written (`Bluetooth_APPprotocol.c:109`), and when power is lost
  between them the next start loads blocks of both, or erased ones. `LoadedBalance` says
  what is left: each block's own words, none of a newer balance behind an older one. A
  loss of power in the page's swap may lose a balance, also in the swap for the time,
  every minute. After `SD_CMD_MAX_TRIES` failures of one operation nothing clears
  `pstorage_wait_flag`, and the loop on it does not end (`flashmcu_dmwz.c:72`).
* Timers: neither early nor late, also when the counter wraps, as long as some timer
  always runs; two of the application's do. Otherwise the counter is set back between
  a start's look at it and its operation, and the timer fires late
  (`app_timer.c:827`). A stop right after a start is done before it (line 474).

## The proofs

### The scheduler

`AppSchedulerProofs` proves, for every queue size up to 255, every number of
interrupt levels and every depth of nesting:

* `TypeCorrect`: `Spec => []TypeOK`,
* `TakesNextFilled`: `Spec => []TakenIsNext`,
* `HandlerDataSafe`: `Spec => []HandlerKeepsData`,
* `CapacityExact`: `Spec => []FullAtCapacity`,

all from `InvariantHolds`: `Spec => []IInv`. None of the properties is inductive.
`IInv` is the types and seven named parts:

* `Counted`: the occupied length of the ring is the puts less the gets;
* `Fillers`: a put in progress owns an occupied slot, and its number is `nget + 1`
  plus the slot's distance from the start index (two puts thus never share one);
* `Filled`: an occupied slot holds the event of its number unless a put in
  progress owns it;
* `Taken`, `Handled`: the slot a get reads, and the slot of the handler called
  last, are at distance `QueueSize` from the start index. That is the ring's one
  spare slot, which no put reserves before the next get moves the start index;
* `Older`: handlers under the innermost one run earlier events;
* `Alternate`: calls of `app_sched_execute()` and handlers alternate on the stack.

`Filled`, with main advancing the start index only while no interrupt's put is in
progress, establishes `Taken`, which is `TakenIsNext`; `Handled` is
`HandlerKeepsData`; `Counted` gives `FullAtCapacity`. The proof has one lemma per
action. The assumption is `SchedulerAssumption`: the queue has at least one entry
and the indices fit a byte.

`RingIsQueue` is proved in the same module: `Spec => ImplementsEventQueue`, the
refinement of the abstract queue, under the same assumption. The abstract queue has
an event from the step that reserves its slot on. `Event` takes it from the
arguments of the put while the slot is being filled and from the slot afterwards,
so filling a slot must look like a stutter and must not change any other event. That
needs, besides `IInv`:

* `Unshared`: no two puts in progress fill the same slot (proved with `IInv` as
  `RInvariantHolds`);
* `Apart`: no put in progress fills the slot that a get is reading.

`ElementsHold` describes both sequences of the abstract queue element by element;
each action then has a lemma that it is one of `EventQueue`'s steps (`ReservePuts`,
`GetAdvanceTakes`, `HandlerReturnReturns`) or leaves both sequences as they were.

### The receive buffers

`MemPoolProofs` proves `BuffersKept`: `Spec => []BufferKept`, for every ring size the
header allows (`RingAssumption`) and any number of packets (`PoolAssumption`), from
`PoolInvariant`. Packet p lies in slot p - 1, and the packets fall into three areas:
reclaimed, extracted, and ready to be read. `IInv` is the types and

* `Counted`: the two counters and indices of the code say where the areas end;
* `HeldInOrder`: what the client holds is a row of packets from the oldest one on,
  and the one it is about to refuse;
* `Reach`: everything extracted is held, until a packet is refused; after that
  refused buffers lie behind the row and come back with its last one;
* `Marked`: a slot of the second or third area is marked in use exactly if its packet is;
* `Written`: such a slot has its packet's data and length.

`BufferKept` alone is not inductive: whether a slot may be produced again depends on
`Counted` and `Marked`, and `Marked` after a consumption on `HeldInOrder`, since the
code looks for the buffer from the oldest one in use on.

### The modes

`AppModeProofs` proves, for every set of commands and all bounds,

* `PowerAlwaysRight`: `Spec => []PowerRight`,
* `KeyWorkedOnce`: `Spec => []WorkedOnce`,
* `ToldRight`: `Spec => ToldUntouched`,

from `Invariance`. `IInv` is the types (`Machine`), `Powered`, `KeyOwed` and
`ShownUntouched`. `Powered` adds to the power what it depends on: a timer's flag says
whether the timer runs, and an acknowledgement is waited for only while the STM32
is powered. `KeyOwed` counts touches that are not worked yet: one at most, that of the
finger or of a flag it left behind; a flag that outlives its touch would be a second one.
`ShownUntouched` says what was told for all modes the device may be in, in the middle
of a turn too.

The handlers are functions of the record `m`. Each operator they are made from has a
lemma that says which fields it changes (`...Result`), each handler one that it is
`Right` from any state and in any mode, since main may run it after a command
has changed the mode. A step is then its handler's lemma.

### The UART

`UartLinkProofs` proves, for every `MAX_resend` and all bounds (`UartAssumption`),

* `CountersAlwaysBounded`: `Spec => []CountersBounded`, in all behaviours,
* `AnswersAlwaysRight`: `Spec => []AnswersRight`,
* `AcksAlwaysRight`: `Spec => []AcksRight`, the last two where `timely` is TRUE,

from `LinkInvariant`. `IInv` is the types, `Counted` and, in timely behaviours, eight
parts that say where a command and its answer are:

* `Counted`: the attempts of the command in the buffer and the one that is pending are
  no more than `ACC_resend` allows, and the turns that set it back leave none pending;
* `Holds`: a pending or waiting command is in the buffer, whole, with the current number;
* `Waits`: a command waited for is to be sent again, or on the queue, or on the wire
  (once at most), or its acknowledgement is coming, byte by byte. Nothing else is
  under way, and the timer has run out only where nothing is at all;
* `Fresh`: a new command finds nothing under way;
* `Rests`: otherwise only the answer to the last command may come;
* `Timed`: no timer runs when nothing is waited for;
* `Works`, `Taken`: the STM32 works on the last command, and what it knows by its
  number it has taken;
* `Remembered`: `CRC_old` is that of the last answer as long as it may be repeated.

None of the properties is inductive: an acknowledgement has no number, so that it is
right only because no other can be on its way (`Waits`); the buffer is the command's
only because no answer can come before its acknowledgement was seen (`Rests`,
`Waits`). `AnswerOnce` was first stated of all answers; the model then showed, with five
faults, the repeated answer that the second receive path takes.

### The SoftDevice's swap

`SdSwapProofs` proves `SwapAlwaysWhole`: `Spec => []SwapWhole`, for blocks, MBR and
images of any length that `SdSwapAssumption` allows (the tail is no longer than a block,
since `DFU_IMAGE_MAX_SIZE_FULL` leaves less; the page with the size lies inside the
first block and is not its first) and any number of losses of power, from
`SwapInvariant`. `IInv` is the types, `Bootloader` (a received bootloader lies behind the
image, and is in place when the swap is over) and two halves:

* `Kept`, which a loss of power leaves alone: the image from its second block on is
  unharmed; its first block is, or both blocks are in place; and block 0 is in place, or
  block 1 does not compare, or it is still to be cleared;
* `Working`, one clause for each form `todo` can have (`Compares`, `Copies`, `Checks`,
  `Clears`, `Fits`): what is to be done next, and which pages are in place by then.

`WholeAfter` and `NothingLost` are not inductive: a comparison of contents says
nothing about the block before it. `Kept` has the reason why it does: block 1 can only
be found equal when it was never cleared or when block 0 was copied first. The proof
separates what a page that is written does to the flash (`WriteKeeps`, `Copying`,
`Clearing`) from what a step does to the stack (`Unrolled`, and the `...Head` lemmas,
which tell from the first element what the others are).

### The bootloader

`DfuProofs` proves `AlwaysWhole`: `WholeStarted` holds for banks and images of any
length, any order of the phone's requests but one, any number of losses of power and failures of
the flash (`MaxResets`) and any number of requests that come after main has left its loop
(`MaxLate`). A bank marked valid holds all of an image that passed its check, only a whole
application is started, above a whole SoftDevice, and a SoftDevice copied in part can be
copied again. It assumes

* `DfuAssumption`: images are not empty and no word of theirs reads as erased flash; a start packet has sizes for the parts it names only, and they add up within
  32 bits; a data packet is short against the 32 bits of `m_data_received`; the queue of
  flash commands has room for the two of a settings page.

It is about behaviours in which a phone whose update is under way sends no start packet
but the one that began it: `Spec /\ [][SameStart]_vars => []WholeStarted`. Another one
replaces `m_start_packet` and `m_image_size` although it is refused, and `WholeStarted`
does not hold then (see "What the runs show").

`WholeStarted` is not inductive, not even with the state of the update: a settings page
is written by a command that was queued earlier, and a command that main has queued
before it resets or before power is lost may still be carried out. `IInv` is the types,
`Steady` and one part for where main is:

* `Steady`, from reset to reset: what the page says is there (`Whole`); outside of the
  update `ram` is as after a reset; an application runs only when bank 0 is marked; and a
  SoftDevice is in part copied only while bank 0 is marked as its image;
* `Updating`, one clause for each state of the update. `Idle`: nothing is queued.
  `Preparing`: the bank is being erased. `Ready`, `Receiving`: the part of the bank that
  is still to be filled is erased (`Erased`), and what is queued goes to erased words, in
  order, each word once (`Stores`). `Checked`: the bank holds `validated`, and nothing
  more is to be stored. `Activated`: the list of commands left to do says what is
  already true of bank 0, of bank 1 and of the page. `Refused`: the queue was full.
  Throughout, `Unmarked` or the activation's own clauses say when a page may be marked;
* `Finalizing`: after a swap the page that is to be saved marks nothing, and the old one
  is whole until it is cleared;
* `Stoppable`, where main has stopped: the one command the flash may still be carrying
  out does not touch a marked bank, and stores only a page that is whole.

That a torn page or a torn bank is harmless follows from the clause that holds before the
command and the one that holds after it: the page is cleared before it is stored, and no
bank is written while a page marks it. `UINT_Is`, and the lemmas on `Content` and `Holds`,
say that lengths do not wrap and what a command leaves of a bank it does not reach. Each
action has a lemma, and the phone's
requests one for each state of the update that can take them.

What the phone is told follows from a second invariant, `FInv`, on top of `IInv`:

* `FinalIsTrue`: `FinalTruthful`, at the answer that all data was received the bank
  holds every word that was sent, and they are as many as announced;
* `OverrunIsFinal`: `OverrunFinal`, after too much data no packet is taken until
  main leaves the update.

Both are about the same behaviours, and assume that the queue of flash commands has two places more than
there are receive buffers: it has ten (`PSTORAGE_CMD_QUEUE_SIZE`,
`config/pstorage_platform.h:39` of the bootloader) for eight (`RX_BUF_QUEUE_SIZE`,
`hci_mem_pool_internal.h:28` of its `dfu_dual_bank_ble` builds). The code sends that
answer from the callback of the packet whose buffer is `mp_final_packet`, and nothing
there looks at the flash. It is right because that command is the last of the queue, and
because its buffer is nobody else's:

* `Sent`: each word that was accepted is in the flash, or in a store that is still to be
  done, and `Sends`: what that store writes there is this word. Together with `Stores` and
  `Erased` of `IInv`, each goes to its own erased words;
* `Final`: when `mp_final_packet` is set all announced data was accepted, and no store but
  the last has this buffer;
* while data is still taken, the buffers in use are the last ones before the ring's
  `write_index` (`Ring`), the stores in the queue use them from the oldest on, and at most
  two commands for the settings are before them (`InOrder`). So the buffer of a new packet
  differs from those of all stores that wait (`OrderMore`), each callback gives back the
  oldest (`OrderLess`, `RingGives`), and the queue is never full while a buffer is free:
  this is where its ten places are needed. After an overrun or a timeout a packet may be
  refused with older ones still in use, and the ring loses its order; nothing is accepted
  then, and `Ring` is not claimed.

`FStep` says of a step that it keeps `FInv` and that both properties hold of it; each
action has a lemma that it is an `FStep`.

### The transport

`BleLinkProofs` is about every session `BleAssumption` allows, with any lengths that fit
into `g_apdu`, any number of losses, and timeouts as hasty as they like. From
`GeneralAlways` it concludes

* `WorkedAtMostOnce`: `Spec => []AtMostOnce`, a command is worked at most once;
* `StatusIsTrue`: `Spec => []StatusTruthful`, by an induction of its own on top.

`AtMostOnce` is not inductive: the label in `g_apdu` is compared with the last one only,
so a label that comes back after another would be worked again. `General` has the
reason why none comes back. Labels never decrease along the way from the phone to the
dispatcher: a packet's is at most `current` (`Sent`), those on the link ascend
(`InOrder`), none is below the one in `g_apdu` or below `CMD09_oldlabel` (`Behind`), and
no command above `CMD09_oldlabel` has been worked (`WorkedOnce`). What is announced is
a command and not a reply that was left there (`FirstPacket`, `NoReplyAnnounced`).

`BleDeliveryProofs` is about the sessions whose timeouts are timely, with any losses, lost
connections and retries. From `DeliveryAlways` it concludes

* `DeliveredIsWhole`: `Spec => []DeliveredWhole`, what the dispatcher finds announced is one
  command, the whole of it;
* `AnswersAreIntact`: `Spec => []AnswerIntact`, what the phone has acknowledged is the reply
  to its command, every packet in its place;
* `CountersAlwaysAgree`: `Spec => []CountersAgree`, the counters agree and what is sent next
  is the next packet of the reply in `g_apdu`, on top of the types.

None of the three is inductive, since each looks at one moment of a transfer that has to
be right from its beginning. `Timely` says where that transfer is. The device is in one of
seven places:

* `Resting`: nothing is out or on its way;
* `Receiving`: packets of the phone's command are on their way in ascending order
  (`Coming`), or the report of those that are missing (`Reported`); what has been received
  is in its place in `g_apdu`, and `g_apdu_length` is the sum of its packets' lengths
  (`BytesOf`), because no packet that is on its way has been received before;
* `Whole`: the last packet came, and `Apdufinsh` is 1;
* `ToWork`: announced, while `ble_transfer_init()` and `Apdufinsh = 0` are still to come or
  are done;
* `Queued` and `Taken`: a reply lies in `g_apdu`, and `Send` has not begun with it;
* `Sending`: its first `k` packets are sent; those on their way ascend, and the phone has
  none of them;
* `Waiting`: all of it is sent, and its packets, the phone's report or its
  acknowledgement is on its way (`Outgoing`, `Asks`, `Acks`), or a round of
  retransmission is under way.

In a round, what main still has to send (`Ahead`) depends on `remberPackn`, which a round
that was cut off leaves where it was: `Round` says that the phone has none of the packets
ahead and that none of those on the link is behind them, and `CutOff` that a round whose
bitmap the phone's acknowledgement has cleared sends nothing. `Stm32Works` ties the
STM32's command to the phone's and keeps the first packet of `g_apdu`, from which a
later answer takes its label; `Awaits` and `Answers` say what the phone has. `Linked` holds
in every session: without a connection nothing is on its way. `DeliveryAlways` rests on
`General`, above, and has one lemma for every action. The guards that make a session timely
are used where a packet would otherwise come twice: the phone repeats and gives up only
when the device has given up, `T_Connect` runs out only with an empty link, and main sees
a lost connection before there is a new one. `ble_link_announced` shows that the second
of these is needed.

### What is only model-checked

Of the UART `SendsRight`; of the transport `ResendComplete` and the STM32's part of `AcksTruthful`; of the
bootloader the codes on its pages
and the room in its queue (`UpdateTypes`), and its flash queue; the flash storage, the
settings, the clock and the timers; all liveness (fairness and ENABLED are outside what the prover handles). What `WallClock`
and `AppTimer` compute by functions on functions would need an induction over data, which
it cannot do either.

## Not modelled

The radio stack, the display's contents, the CRC's arithmetic, the bytes of names
and balances. The rest of the SDK, which is nearly all of the repository's lines:
drivers and profiles the firmware does not link, device manager and advertising,
which it calls and does not depend on in its own state. Of the components above:

* `Dfu`: a settings page torn while a SoftDevice or a bootloader is recorded (a torn
  page counts as `BadPage` everywhere), packets whose length is not a multiple of a
  word, receipt notifications, directed advertising and peer data, pages 222 and 223,
  which main's erasure leaves out, and the update screen. Two adjacent requests of
  the phone are two steps; the code takes them from the scheduler's queue one by one.
* `Pstorage`: `pstorage_load()`, which changes nothing, raw mode, the checks of
  parameters (`MCStorage` asks for what they allow), stores longer than a page, and
  interrupts at other places of a call than before and after `count++`.
* `AppTimer`: that the counter needs up to 46 microseconds to be cleared; `MaxLatency`
  covers a tick of it. `app_timer_create()`, scheduler and context of handlers.
* `AppMode`: the UART's contents, screens and averages; `poweronkey_flag` is the power
  of the STM32. The APDU pointer of an old session (`Apdu_len_blekey`) has no contents.
* `Settings`: 16 bytes of a block are one tag; the first half of the marker block is
  uninitialised in the code and read by nothing. A phone that writes beyond its blocks.
* Dispatcher: `blue_readflash()`, power and version are replies without effect.
* Liveness of the UART in the phone's modes with an STM32 that never answers the APDU:
  the session's timeout is the mode's, and `Rests` covers it.

## Plan

Done: the scheduler and its proofs, the transport, the UART, the modes, the clock, the
settings and the flash below them, the timers, the bootloader, its flash queue, its
buffers and the SoftDevice's swap. What is left, in order of importance:

1. `Device`: `BleTransfer` and `UartLink` composed over the one `g_apdu`; today each
   has the other as an environment.
2. `PackBits`: `MarkPackNum`, `NextExpPack` and `CheckExist` on bytes against the sets
   of numbers in `BleTransfer`.
3. Theorems: the refinement of `FlashQueue` by `PstorageRaw`.
