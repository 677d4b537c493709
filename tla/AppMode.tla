------------------------------ MODULE AppMode ------------------------------
(***************************************************************************)
(* What the device shows and does: Main_status and the handlers of its     *)
(* modes (closeoled.c, timedis.c, bluetoothKEY_dmwz.c, program.c,          *)
(* ADC_DMWZ.c), the power and the boot mode of the STM32 (GPIO_DMWZ.c),    *)
(* the commands of the phone that change them (Bluetooth_APPprotocol.c),   *)
(* the touch key (synaot.c), USB, pairing, and the shutdown timer.         *)
(*                                                                         *)
(* main_loop() puts the handler of the mode on the scheduler's queue       *)
(* before the command of the phone is worked: a command that changes the   *)
(* mode is followed by the handler of the mode it left, `queued`.  The     *)
(* timers' events (Read_CapKey, ReadAdc, debug_wangnan) may come between   *)
(* any two events of a turn; connections, timeouts and the passkey come as *)
(* interrupts.                                                             *)
(*                                                                         *)
(* Handlers run one after the other in main: they are functions of `m`,    *)
(* the variables they share.  UartLink has the UART in full; here it is    *)
(* uart_send_flag and Ack_recive_enable.                                   *)
(***************************************************************************)
EXTENDS Integers

CONSTANTS Commands,         \* commands the phone may send
          MaxCommands,      \* bound: commands
          MaxTouches,       \* bound: touches of the key
          MaxPlugs,         \* bound: the USB plug goes in or out
          MaxHands,         \* bound: touches and plugs together
          MaxConnects,      \* bound: connections
          MaxPairings,      \* bound: passkeys shown
          MaxWaits          \* bound: turns an acknowledgement is waited for

AllCommands ==
    {"setup_time", "setup_timeout", "setup_timeout_0", "setup_turnoff", "setup_other",
     "download_start", "download_apdu", "download_exit",
     "key_on", "key_off", "key_apdu", "signed"}

ASSUME AppModeAssumption ==
    /\ Commands \subseteq AllCommands
    /\ MaxCommands \in Nat /\ MaxTouches \in Nat /\ MaxPlugs \in Nat
    /\ MaxHands \in Nat
    /\ MaxConnects \in Nat /\ MaxPairings \in Nat /\ MaxWaits \in Nat

VARIABLES
    m,                  \* what the handlers share, see Start
    queued,             \* the handler of the mode, put by main_loop()
    cmd,                \* the command worked in this turn
    pc,                 \* the next event of the turn
    finger, plug, connected,        \* on the sensor; USB; Ble_ConnnectFlag
    commands, touches, plugs, connects, pairings    \* counters for the bounds

counters == <<commands, touches, plugs, connects, pairings>>
world == <<finger, plug, connected>>
turn == <<queued, cmd, pc>>
vars == <<m, turn, world, counters>>

Modes == {"closeoled", "changbatlowpower", "timedisplay", "firmware",
          "download", "blekey", "ParingDis"}
TimerFlags == {"TimeClose", "TimeOpen", "TimeOut"}

(* What the STM32 is told to show, in mode timedisplay by Time_stuts.      *)
Screens == {"time", "balance", "name"}
Told == Screens \cup {"bluekey", "lowpower", "paring", "nothing"}

(* When INIT() is done.  Pin 29 is not driven before the first power on.   *)
Start(pin) ==
    [Main_status |-> "closeoled",
     Timeout3Sec |-> "TimeClose",   \* the flag of the shutdown timer,
     running3    |-> FALSE,         \* and the timer
     Timeout1Sec |-> "TimeClose",   \* of the low power display
     running1    |-> FALSE,
     Time_stuts  |-> "time",
     KEYwork_flag |-> FALSE,
     stm32       |-> "off",         \* "off", "app" or "update"
     pin29       |-> pin,           \* which of the two it boots into
     uart_send_flag |-> FALSE,
     Ack_recive_enable |-> FALSE,
     command     |-> "nothing",     \* in uart_communicate_buf
     waits       |-> 0,
     told        |-> "nothing",     \* by what was sent since it is on
     Apdu        |-> FALSE,         \* Apdu_len_blekey # 0
     reply       |-> FALSE,         \* blueRecivSendflag = bluetoothSenddata
     touch_key   |-> "LongTouch",
     touch_key_flag |-> FALSE,
     KeyWorkflag |-> FALSE,
     KeepTouch   |-> FALSE,         \* its timer runs
     Touch_timercount |-> 0,        \* 0, or 1 for KeepTouchTime
     USB_connect |-> FALSE, USB_Changed |-> FALSE,
     ParingData  |-> FALSE, Ble_Auth |-> FALSE,
     worked      |-> 0]             \* history: keys that were worked

-----------------------------------------------------------------------------
(***************************************************************************)
(* What the handlers are made of.                                          *)
(***************************************************************************)

(* app_timer_stop(Timeout3Sec_id); Timeout3Sec_StarFlag = TimeClose.       *)
Stop3(s) == [s EXCEPT !.Timeout3Sec = "TimeClose", !.running3 = FALSE]

(* Mutant: the flag is set and the timer not started.                      *)
Start3_FlagOnly(s) == [s EXCEPT !.Timeout3Sec = "TimeOpen"]

Start3(s) == [s EXCEPT !.Timeout3Sec = "TimeOpen", !.running3 = TRUE]
Open3(s) == IF s.Timeout3Sec = "TimeClose" THEN Start3(s) ELSE s
Stop1(s) == [s EXCEPT !.Timeout1Sec = "TimeClose", !.running1 = FALSE]
Start1(s) == [s EXCEPT !.Timeout1Sec = "TimeOpen", !.running1 = TRUE]

(* The command waits in uart_communicate_buf: UartDataSendrecive() sends it, *)
(* if the STM32 has power, and PowerOff_key() drops it only then.          *)
CmdSendUart(s, what) == [s EXCEPT !.uart_send_flag = TRUE, !.command = what]
Tell(s, what) == CmdSendUart(s, what)

(* With SlectPin low and pin 29 high (APP mode) or low (update).           *)
PowerOn_key(s) ==
    [s EXCEPT !.stm32 = IF @ # "off" THEN @
                        ELSE IF s.pin29 = "H" THEN "app" ELSE "update"]
PowerOnApp(s) == PowerOn_key([s EXCEPT !.pin29 = "H"])
(* Uart_close() is called only while the UART is open: what was given to   *)
(* it since the power is off stays, and is sent when it is on again.       *)
PowerOff_key(s) ==
    IF s.stm32 = "off" THEN s
    ELSE [s EXCEPT !.stm32 = "off", !.uart_send_flag = FALSE,
                   !.Ack_recive_enable = FALSE, !.waits = 0, !.told = "nothing"]

Mode(s, mode) == [s EXCEPT !.Main_status = mode]

(* KEYwork_flag = 0 with a mode that is not the phone's.                   *)
Leave(s, mode) == [Mode(s, mode) EXCEPT !.KEYwork_flag = FALSE]
TimeDisplay(s) == Tell(Leave(s, "timedisplay"), "time")

(* Off, 100 ms, and on again in APP mode.                                  *)
PowerCycle(s) == PowerOnApp(PowerOff_key(s))

(* Mutant: the key that was worked counts as not worked.                   *)
Key_Kept(s) == [s EXCEPT !.touch_key = "NO"]

(* touch_key = KEY_NO; KeyWorkflag = 1: the key was worked.                *)
Key(s) == [s EXCEPT !.touch_key = "NO", !.KeyWorkflag = TRUE]
WorkKey(s) == [Key(s) EXCEPT !.worked = @ + 1]

-----------------------------------------------------------------------------
(***************************************************************************)
(* The handlers of the modes.                                              *)
(***************************************************************************)

progam_closeoled(s, low) ==
    IF s.USB_Changed THEN TimeDisplay(PowerOnApp(s))
    ELSE IF s.touch_key = "NO" THEN s
    ELSE WorkKey(IF low /\ ~ s.USB_connect
                 THEN Tell(Mode(PowerOnApp(s), "changbatlowpower"), "lowpower")
                 ELSE TimeDisplay(PowerOnApp(s)))

(* f_TimeDataDisPl(), f_BalanceDisplay() and f_BrodcastnameDisplay().      *)
NextScreen == [time |-> "balance", balance |-> "name", name |-> "time"]
Screen(s) ==
    IF s.touch_key = "KEY_1" /\ ~ s.Ack_recive_enable
    THEN LET next == NextScreen[s.Time_stuts]
         IN  [Tell(WorkKey(Stop3(s)), next) EXCEPT !.Time_stuts = next]
    ELSE s

timedisplay(s) ==
    LET timed == IF s.Timeout3Sec # "TimeOut" THEN Open3(s)
                 ELSE PowerOff_key(Mode([Stop3(s) EXCEPT !.Time_stuts = "time"],
                                        "closeoled"))
        shown == Screen(timed)
    IN  IF shown.Main_status = "timedisplay" THEN shown
        ELSE [Stop3(shown) EXCEPT !.Time_stuts = "time"]

(* An APDU of the phone goes to the STM32.                                 *)
PassApdu(s) == IF s.Apdu THEN [CmdSendUart(s, "apdu") EXCEPT !.Apdu = FALSE] ELSE s

(* Mutant: the STM32 is not told.                                          *)
BlueUPfirmware_Silent(s) ==
    IF connected THEN PassApdu(Stop3(s)) ELSE Leave(Stop3(s), "timedisplay")

BlueUPfirmware(s) ==
    IF connected THEN PassApdu(Stop3(s)) ELSE TimeDisplay(Stop3(s))

(* Mutant: the key stays on when the phone has gone.                       *)
Bluetooyhkeydisplay_StaysOn(s) ==
    IF ~ connected THEN TimeDisplay(PowerCycle(Stop3(s)))
    ELSE IF s.Main_status # "blekey" THEN Stop3(s)
    ELSE LET open == PassApdu(Open3(s))
         IN  IF open.touch_key = "LongTouch"
             THEN WorkKey(Leave(Stop3(open), "closeoled"))
             ELSE IF open.Timeout3Sec = "TimeOut"
             THEN PowerOff_key(Leave(Stop3(open), "closeoled"))
             ELSE open

Bluetooyhkeydisplay(s) ==
    IF ~ connected THEN TimeDisplay(PowerCycle(Stop3(s)))
    ELSE IF s.Main_status # "blekey" THEN Stop3(s)
    ELSE LET open == PassApdu(Open3(s))
             off == PowerOff_key(Leave(Stop3(open), "closeoled"))
         IN  IF open.touch_key = "LongTouch" THEN WorkKey(off)
             ELSE IF open.Timeout3Sec = "TimeOut" THEN off ELSE open

(* blueDisconnect() asks for a disconnection, which comes later.           *)
Bluetooyparingdisplay(s) ==
    LET timed == IF s.Timeout3Sec # "TimeOut" THEN Open3(s)
                 ELSE PowerOff_key(Mode([Stop3(s) EXCEPT !.Ble_Auth = FALSE],
                                        "closeoled"))
        shown == IF connected THEN timed ELSE s
        over == ~ shown.Ack_recive_enable /\ (connected => shown.Ble_Auth)
        left == TimeDisplay(PowerCycle(Stop3(shown)))
    IN  Key(IF ~ over THEN shown
            ELSE IF connected THEN [left EXCEPT !.Ble_Auth = FALSE] ELSE left)

firmwaresigned(s) ==
    LET off == PowerOff_key(Leave(Stop3(s), "closeoled"))
    IN  Key(IF connected
            THEN IF s.Timeout3Sec = "TimeOut" THEN off ELSE Open3(s)
            ELSE IF s.Ack_recive_enable THEN s ELSE off)

Chargingandmanagerdisplay(s) ==
    IF ~ s.USB_connect /\ s.USB_Changed THEN TimeDisplay(PowerOnApp(s))
    ELSE IF s.Timeout1Sec = "TimeClose" THEN Start1(s)
    ELSE IF s.Timeout1Sec = "TimeOut" THEN TimeDisplay(Stop1(s))
    ELSE IF ~ s.USB_connect /\ s.touch_key # "NO"
    THEN WorkKey(TimeDisplay(Stop1(s)))
    ELSE s

Handler(mode, s, low) ==
    CASE mode = "closeoled"        -> progam_closeoled(s, low)
      [] mode = "changbatlowpower" -> Chargingandmanagerdisplay(s)
      [] mode = "timedisplay"      -> timedisplay(s)
      [] mode = "download"         -> BlueUPfirmware(s)
      [] mode = "blekey"           -> Bluetooyhkeydisplay(s)
      [] mode = "ParingDis"        -> Bluetooyparingdisplay(s)
      [] mode = "firmware"         -> firmwaresigned(s)

-----------------------------------------------------------------------------
(***************************************************************************)
(* The commands of the phone: BluetoothWork() stops the shutdown timer,    *)
(* whatever the command is.                                                *)
(***************************************************************************)
Send_bluetoothdata(s) == [s EXCEPT !.reply = TRUE]

setup_time_f(s) ==
    LET on == IF s.stm32 = "off" THEN PowerOnApp(s) ELSE s
    IN  IF s.Main_status # "timedisplay" /\ ~ s.Ack_recive_enable
        THEN TimeDisplay(on) ELSE on

setup_turnoff_f(s) ==
    PowerOff_key(Mode([s EXCEPT !.Time_stuts = "time"], "closeoled"))

DownloadStart(s) ==
    IF s.Main_status = "closeoled"
    THEN [Mode(PowerOn_key([s EXCEPT !.pin29 = "L"]), "download")
             EXCEPT !.KEYwork_flag = TRUE]
    ELSE s

KeyOn(s) ==
    [Tell(Mode(PowerCycle(s), "blekey"), "bluekey") EXCEPT !.KEYwork_flag = TRUE]
KeyOff(s) == [TimeDisplay(PowerCycle(s)) EXCEPT !.Time_stuts = "time"]

BluetoothWork(c, before) ==
    LET s == Stop3(before)
        apdu == [s EXCEPT !.Apdu = TRUE]
        updating == s.Main_status = "download"
    IN  CASE c = "setup_time"     -> Send_bluetoothdata(setup_time_f(s))
          [] c = "setup_timeout"  -> Send_bluetoothdata(Start3(s))
          [] c = "setup_timeout_0" -> s
          [] c = "setup_turnoff"  -> Send_bluetoothdata(setup_turnoff_f(s))
          [] c = "setup_other"    -> Send_bluetoothdata(s)
          [] c = "download_start" -> Send_bluetoothdata(DownloadStart(s))
          [] c = "download_apdu"  -> IF updating THEN apdu ELSE s
          [] c = "download_exit"  ->
                IF updating THEN Send_bluetoothdata(TimeDisplay(PowerCycle(s)))
                            ELSE s
          [] c = "key_apdu"       -> IF ~ updating /\ s.KEYwork_flag THEN apdu ELSE s
          [] c = "key_on"         -> IF updating THEN s ELSE KeyOn(s)
          [] c = "key_off"        ->
                IF updating THEN s ELSE Send_bluetoothdata(KeyOff(s))
          [] c = "signed"         -> Mode(PowerOn_key(s), "firmware")

-----------------------------------------------------------------------------
(***************************************************************************)
(* A turn of main.                                                         *)
(***************************************************************************)
Init ==
    /\ \E pin \in {"H", "L"} : m = Start(pin)
    /\ queued = "closeoled" /\ cmd = "none" /\ pc = "loop"
    /\ finger = FALSE /\ plug = FALSE /\ connected = FALSE
    /\ commands = 0 /\ touches = 0 /\ plugs = 0 /\ connects = 0 /\ pairings = 0

(* main_loop(), and Bluetooth_ReciveANDSend(): a reply that goes out stops *)
(* the shutdown timer of the phone's modes.                                *)
TurnBegins ==
    /\ pc = "loop" /\ pc' = "command"
    /\ queued' = m.Main_status /\ cmd' = "none"
    /\ m' = LET s == [m EXCEPT !.reply = FALSE]
            IN  IF m.reply /\ connected /\ m.Main_status \in {"blekey", "download"}
                THEN Stop3(s) ELSE s
    /\ UNCHANGED <<world, counters>>

(* Bluetooth_CmdProcess(), with and without a command.                     *)
TurnCommand ==
    /\ pc = "command" /\ pc' = "uart"
    /\ connected /\ commands < MaxCommands
    /\ commands' = commands + 1
    /\ \E c \in Commands : cmd' = c /\ m' = BluetoothWork(c, m)
    /\ UNCHANGED <<queued, world, touches, plugs, connects, pairings>>

TurnNoCommand ==
    /\ pc = "command" /\ pc' = "uart"
    /\ UNCHANGED <<m, queued, cmd, world, counters>>

(* UartDataSendrecive(): a command is sent, and its acknowledgement waited *)
(* for until it comes or is given up; meanwhile it may be sent again.  An  *)
(* acknowledgement is passed on to the phone in the phone's modes.         *)
UartDataSendrecive ==
    LET phones == m.Main_status \in {"blekey", "download"}
        s == IF phones THEN Stop3(m) ELSE m
    IN  IF m.stm32 = "off" THEN m' = m
        ELSE IF m.uart_send_flag
        THEN m' = [s EXCEPT !.uart_send_flag = FALSE, !.Ack_recive_enable = TRUE,
                            !.told = IF m.command = "apdu" THEN @ ELSE m.command]
        ELSE IF ~ m.Ack_recive_enable THEN m' = m
        ELSE \/ \E acked \in BOOLEAN :
                  m' = [m EXCEPT !.Ack_recive_enable = FALSE, !.waits = 0,
                                 !.reply = @ \/ (phones /\ acked)]
             \/ /\ m.waits < MaxWaits
                /\ \E again \in BOOLEAN :
                     m' = [m EXCEPT !.waits = @ + 1, !.uart_send_flag = again]

TurnUart ==
    /\ pc = "uart" /\ pc' = "mode"
    /\ UartDataSendrecive
    /\ UNCHANGED <<queued, cmd, world, counters>>

(* low: adc_sample < Warning_Voltage, which is looked at anew every time.  *)
TurnMode ==
    /\ pc = "mode" /\ pc' = "loop"
    /\ \E low \in BOOLEAN : m' = Handler(queued, m, low)
    /\ UNCHANGED <<queued, cmd, world, counters>>

-----------------------------------------------------------------------------
(***************************************************************************)
(* Events of the timers, by way of the scheduler.                          *)
(***************************************************************************)

Touched(s) ==
    IF s.KeyWorkflag THEN s
    ELSE IF ~ s.KeepTouch
    THEN [s EXCEPT !.touch_key_flag = TRUE, !.KeepTouch = TRUE,
                   !.Touch_timercount = 0]
    ELSE IF s.Touch_timercount = 0 THEN [s EXCEPT !.touch_key_flag = TRUE]
    ELSE [s EXCEPT !.touch_key_flag = FALSE, !.KeepTouch = FALSE,
                   !.touch_key = "LongTouch"]

Released(s) ==
    [s EXCEPT !.touch_key = IF /\ s.Main_status \notin {"download", "blekey"}
                               /\ s.touch_key_flag /\ ~ s.KeyWorkflag
                            THEN "KEY_1" ELSE @,
              !.KeepTouch = FALSE, !.touch_key_flag = FALSE,
              !.KeyWorkflag = FALSE]

Read_CapKey ==
    /\ m' = IF finger THEN Touched(m) ELSE Released(m)
    /\ m' # m
    /\ UNCHANGED <<turn, world, counters>>

(* ReadAdc(): a passkey waits to be shown.                                 *)
ReadAdc ==
    /\ m.ParingData /\ ~ m.Ack_recive_enable
    /\ m' = LET on == IF m.stm32 = "off" THEN PowerOnApp(m) ELSE m
                shown == [Tell(Stop1(Stop3(on)), "paring")
                             EXCEPT !.Time_stuts = "time",
                                    !.Main_status = "ParingDis"]
            IN  [IF m.Main_status \in {"download", "blekey"} THEN m ELSE shown
                    EXCEPT !.ParingData = FALSE]
    /\ UNCHANGED <<turn, world, counters>>

(* debug_wangnan(): USBTEST_status(), once a second.                       *)
debug_wangnan ==
    /\ m' = [m EXCEPT !.USB_Changed = plug # m.USB_connect, !.USB_connect = plug]
    /\ m' # m
    /\ UNCHANGED <<turn, world, counters>>

(* TimeOutMain_handler(), TimeOut1sec_handler()                            *)
TimeOutMain_handler ==
    /\ m.running3
    /\ m' = [m EXCEPT !.running3 = FALSE, !.Timeout3Sec = "TimeOut"]
    /\ UNCHANGED <<turn, world, counters>>

TimeOut1sec_handler ==
    /\ m.running1
    /\ m' = [m EXCEPT !.running1 = FALSE, !.Timeout1Sec = "TimeOut"]
    /\ UNCHANGED <<turn, world, counters>>

(* timer_touchkey_handler(): six seconds, of which Read_CapKey looks only  *)
(* whether they are over.                                                  *)
timer_touchkey_handler ==
    /\ m.KeepTouch /\ m.Touch_timercount = 0
    /\ m' = [m EXCEPT !.Touch_timercount = 1]
    /\ UNCHANGED <<turn, world, counters>>

-----------------------------------------------------------------------------
(***************************************************************************)
(* What happens around the device, in interrupt context.                   *)
(***************************************************************************)
Touch ==
    /\ ~ finger /\ touches < MaxTouches /\ touches + plugs < MaxHands
    /\ finger' = TRUE /\ touches' = touches + 1
    /\ UNCHANGED <<m, turn, plug, connected, commands, plugs, connects, pairings>>

Release ==
    /\ finger /\ finger' = FALSE
    /\ UNCHANGED <<m, turn, plug, connected, counters>>

Plug ==
    /\ plugs < MaxPlugs /\ touches + plugs < MaxHands
    /\ plug' = ~ plug /\ plugs' = plugs + 1
    /\ UNCHANGED <<m, turn, finger, connected, commands, touches, connects, pairings>>

Connect ==
    /\ ~ connected /\ connects < MaxConnects
    /\ connected' = TRUE /\ connects' = connects + 1
    /\ UNCHANGED <<m, turn, finger, plug, commands, touches, plugs, pairings>>

(* on_ble_evt(): BLE_GAP_EVT_DISCONNECTED                                  *)
Disconnect ==
    /\ connected /\ connected' = FALSE
    /\ m' = [m EXCEPT !.Ble_Auth = FALSE]
    /\ UNCHANGED <<turn, finger, plug, counters>>

(* BLE_GAP_EVT_PASSKEY_DISPLAY                                             *)
PasskeyDisplay ==
    /\ connected /\ pairings < MaxPairings
    /\ pairings' = pairings + 1
    /\ m' = [m EXCEPT !.ParingData = TRUE]
    /\ UNCHANGED <<turn, world, commands, touches, plugs, connects>>

(* BLE_GAP_EVT_AUTH_STATUS: a failure disconnects, see Disconnect.         *)
AuthStatus ==
    /\ connected /\ pairings > 0 /\ ~ m.Ble_Auth
    /\ m.Main_status = "ParingDis"
    /\ m' = [m EXCEPT !.Ble_Auth = TRUE]
    /\ UNCHANGED <<turn, world, counters>>

Turn == TurnBegins \/ TurnCommand \/ TurnNoCommand \/ TurnUart \/ TurnMode

Environment ==
    \/ Touch \/ Release \/ Plug \/ Connect \/ Disconnect \/ PasskeyDisplay
    \/ AuthStatus

Next ==
    \/ Turn \/ Read_CapKey \/ ReadAdc \/ debug_wangnan \/ TimeOutMain_handler
    \/ TimeOut1sec_handler \/ timer_touchkey_handler \/ Environment

Spec == Init /\ [][Next]_vars

(* Main turns, its repeated timers have their events worked, and a timer   *)
(* that was started runs out.  Nothing is asked of phone, plug and finger. *)
Fairness ==
    /\ WF_vars(Turn)
    /\ WF_vars(Read_CapKey) /\ WF_vars(ReadAdc) /\ WF_vars(debug_wangnan)
    /\ WF_vars(TimeOutMain_handler) /\ WF_vars(TimeOut1sec_handler)

FairSpec == Spec /\ Fairness

-----------------------------------------------------------------------------

TypeOK ==
    /\ m.Main_status \in Modes /\ queued \in Modes
    /\ m.Timeout3Sec \in TimerFlags /\ m.Timeout1Sec \in TimerFlags
    /\ m.running3 <=> m.Timeout3Sec = "TimeOpen"
    /\ m.running1 <=> m.Timeout1Sec = "TimeOpen"
    /\ m.Time_stuts \in Screens /\ m.told \in Told /\ m.command \in Told \cup {"apdu"}
    /\ m.stm32 \in {"off", "app", "update"} /\ m.pin29 \in {"H", "L"}
    /\ m.touch_key \in {"NO", "KEY_1", "LongTouch"}
    /\ m.waits \in 0 .. MaxWaits /\ (m.Ack_recive_enable => m.stm32 # "off")
    /\ cmd \in AllCommands \cup {"none"}
    /\ pc \in {"loop", "command", "uart", "mode"}

(***************************************************************************)
(* In mode closeoled, where the battery must last, the STM32 has no power: *)
(* each of the ways into the mode ends with PowerOff_key(), and none of    *)
(* the handlers of another mode, run late, powers it on and stays.         *)
(***************************************************************************)
OffUnpowered == m.Main_status = "closeoled" => m.stm32 = "off"

(***************************************************************************)
(* In mode download the STM32 runs its update loader: it was powered on    *)
(* with pin 29 low, and not powered on before.                             *)
(***************************************************************************)
DownloadUpdates == m.Main_status = "download" => m.stm32 = "update"

(* Both, with the types.                                                   *)
PowerRight == TypeOK /\ OffUnpowered /\ DownloadUpdates

(***************************************************************************)
(* The STM32 has power in every mode but closeoled, and what it was told   *)
(* last to show, or will be told before anything else, is what the mode    *)
(* shows.                                                                  *)
(***************************************************************************)
Shows ==
    [closeoled |-> Told, changbatlowpower |-> {"lowpower"},
     timedisplay |-> {m.Time_stuts}, firmware |-> Told, download |-> Told,
     blekey |-> {"bluekey"}, ParingDis |-> {"paring"}]
Telling == IF m.uart_send_flag /\ m.command # "apdu" THEN m.command ELSE m.told
ModeTold ==
    m.Main_status # "closeoled" => m.stm32 # "off" /\ Telling \in Shows[m.Main_status]

(* The handler of a mode that the phone's setup_turnoff has left: it goes  *)
(* on to timedisplay and does not power the STM32 on again.                *)
TurnedOffLate ==
    /\ pc = "mode" /\ cmd = "setup_turnoff" /\ m.stm32 = "off"
    /\ queued \in {"download", "changbatlowpower"}

(* An APDU left over from before a passkey is shown takes the place of the *)
(* command that shows it.                                                  *)
LateApdu ==
    /\ pc = "mode" /\ queued = "download" /\ m.Main_status = "ParingDis" /\ m.Apdu

(* No step of commands, passkeys, timeouts, disconnections or the plug     *)
(* takes what is shown from right to wrong, as long as the key was not     *)
(* touched, but for the two handlers above.  With a touch others do: the   *)
(* handler of the mode that was left runs after ReadAdc() and gives its    *)
(* own command over it.                                                    *)
ToldUntouched ==
    [][touches' = 0 /\ ModeTold /\ ~ ModeTold' => TurnedOffLate \/ LateApdu]_vars

(***************************************************************************)
(* A touch is worked once at most, short or long, whatever mode it leads   *)
(* to; INIT() itself counts as the first touch.                            *)
(***************************************************************************)
WorkedOnce == m.worked <= touches + 1

(***************************************************************************)
(* Left alone, the device turns itself off, from every mode and after      *)
(* every interleaving of commands, touches and timeouts; but an update of  *)
(* the STM32 lasts as long as its connection.                              *)
(***************************************************************************)
Rests ==
    <>[](m.Main_status = "closeoled" \/ (m.Main_status = "download" /\ connected))
=============================================================================
