---------------------------- MODULE AppModeProofs ----------------------------
(***************************************************************************)
(* Proofs about AppMode: the power of the STM32 fits the mode, a touch is  *)
(* worked once at most, and what was told is what the mode shows.          *)
(*                                                                         *)
(* The handlers are functions of what they share.  Each operator they are  *)
(* built from has a lemma of its own (...Result) that says which fields it *)
(* changes; from these it is shown that a handler is Right: it goes from a *)
(* state that is Powered to one that is, and works the key once at most,   *)
(* whichever mode it runs in, for main may run it after a command has      *)
(* changed the mode.  A step of the specification is then the handler's    *)
(* lemma and RightStep.  That what is shown stays right is proved apart    *)
(* (...Shown), for two handlers do not keep it when they run late.         *)
(***************************************************************************)
EXTENDS AppMode, TLAPS

(* What the handlers share, field by field.                                *)
Machine ==
    [Main_status : Modes, Timeout3Sec : TimerFlags, running3 : BOOLEAN,
     Timeout1Sec : TimerFlags, running1 : BOOLEAN, Time_stuts : Screens,
     KEYwork_flag : BOOLEAN, stm32 : {"off", "app", "update"}, pin29 : {"H", "L"},
     uart_send_flag : BOOLEAN, Ack_recive_enable : BOOLEAN, waits : 0 .. MaxWaits,
     command : Told \cup {"apdu"}, told : Told, Apdu : BOOLEAN, reply : BOOLEAN,
     touch_key : {"NO", "KEY_1", "LongTouch"}, touch_key_flag : BOOLEAN,
     KeyWorkflag : BOOLEAN, KeepTouch : BOOLEAN, Touch_timercount : {0, 1},
     USB_connect : BOOLEAN, USB_Changed : BOOLEAN, ParingData : BOOLEAN,
     Ble_Auth : BOOLEAN, worked : Nat]

(* t has of s the two timers, the power, the mode, what is shown, the key. *)
SameTimer3(t, s) == t.Timeout3Sec = s.Timeout3Sec /\ t.running3 = s.running3
SameTimer1(t, s) == t.Timeout1Sec = s.Timeout1Sec /\ t.running1 = s.running1
SameTimers(t, s) == SameTimer3(t, s) /\ SameTimer1(t, s)
SamePower(t, s) == t.stm32 = s.stm32 /\ t.Ack_recive_enable = s.Ack_recive_enable
SameMode(t, s) == t.Main_status = s.Main_status
SameShown(t, s) ==
    /\ t.Time_stuts = s.Time_stuts /\ t.told = s.told
    /\ t.uart_send_flag = s.uart_send_flag /\ t.command = s.command
SameKey(t, s) ==
    /\ t.touch_key = s.touch_key /\ t.KeyWorkflag = s.KeyWorkflag
    /\ t.touch_key_flag = s.touch_key_flag /\ t.worked = s.worked

(* The key was worked, whether it is counted or not.                       *)
KeyWorked(t, s) ==
    /\ t.touch_key = "NO" /\ t.KeyWorkflag = TRUE
    /\ t.touch_key_flag = s.touch_key_flag

(* What a handler may do to the key: it is counted only when it had been   *)
(* touched.                                                                *)
KeyStep(t, s) ==
    \/ SameKey(t, s)
    \/ KeyWorked(t, s) /\ t.worked = s.worked
    \/ KeyWorked(t, s) /\ s.touch_key # "NO" /\ t.worked = s.worked + 1

(* The flags of the timers, and the power the mode asks for.  What waits   *)
(* for its acknowledgement is what was told last.                          *)
Powered(s) ==
    /\ s.running3 <=> s.Timeout3Sec = "TimeOpen"
    /\ s.running1 <=> s.Timeout1Sec = "TimeOpen"
    /\ s.Ack_recive_enable => s.stm32 # "off"
    /\ s.Main_status = "closeoled" => s.stm32 = "off"
    /\ s.Main_status = "download" => s.stm32 = "update"
    /\ s.Main_status \notin {"closeoled", "timedisplay"} => s.stm32 # "off"
    /\ ~ s.uart_send_flag /\ s.Ack_recive_enable => s.command \in {"apdu", s.told}

(* The key has not been touched, and no screen but the first is shown.     *)
Untouched(s) ==
    s.Time_stuts = "time" /\ s.touch_key # "KEY_1" /\ s.touch_key_flag = FALSE

(* What a mode shows, and what the STM32 was or will be told to show: then *)
(* Shown is ModeTold, where no screen but the first is shown.              *)
Fits(mode, what) ==
    /\ mode = "timedisplay" => what = "time"
    /\ mode = "changbatlowpower" => what = "lowpower"
    /\ mode = "blekey" => what = "bluekey"
    /\ mode = "ParingDis" => what = "paring"
TellingOf(s) == IF s.uart_send_flag /\ s.command # "apdu" THEN s.command ELSE s.told
Shown(s) ==
    s.Main_status # "closeoled" =>
        s.stm32 # "off" /\ Fits(s.Main_status, TellingOf(s))

(* On the way of a handler, while mode, power and what was told are being  *)
(* changed one after the other.                                            *)
Underway(t, s) ==
    /\ t \in Machine /\ SameKey(t, s)
    /\ t.running3 <=> t.Timeout3Sec = "TimeOpen"
    /\ t.running1 <=> t.Timeout1Sec = "TimeOpen"
    /\ t.Ack_recive_enable => t.stm32 # "off"
    /\ ~ t.uart_send_flag /\ t.Ack_recive_enable => t.command \in {"apdu", t.told}
    /\ Untouched(s) => t.Time_stuts = "time"

(* What every handler does, in whichever mode it runs, before it works the *)
(* key, and when it is done.                                               *)
Sound(t, s) == t \in Machine /\ Powered(t) /\ (Untouched(s) => Untouched(t))
Ready(t, s) == Sound(t, s) /\ SameKey(t, s)
Right(t, s) == Sound(t, s) /\ KeyStep(t, s)

(* Touches that are not worked yet: one at most, the one under way.        *)
Owed(s, touching) ==
    IF s.KeyWorkflag THEN 0
    ELSE IF s.touch_key # "NO" \/ s.touch_key_flag \/ touching THEN 1 ELSE 0

(* The inductive invariant.                                                *)
KeyOwed ==
    /\ m.KeyWorkflag => m.touch_key = "NO"
    /\ m.worked + Owed(m, finger) <= touches + 1
ShownUntouched == touches = 0 => ~ finger /\ Untouched(m)

(* Of the two modes whose handlers go on to timedisplay without power, the *)
(* STM32 has lost it in this turn by setup_turnoff only.                   *)
LateOff ==
    /\ pc = "command" => cmd = "none"
    /\ pc # "loop" /\ queued \in {"download", "changbatlowpower"} /\ m.stm32 = "off"
       => cmd = "setup_turnoff"

(* When the handler of the mode runs, what the mode shows was sent; only a *)
(* passkey comes between UartDataSendrecive() and the handler.             *)
Sent ==
    pc = "mode" /\ m.Main_status \notin {"closeoled", "ParingDis"} /\ Shown(m)
    => Fits(m.Main_status, m.told)

IInv ==
    /\ m \in Machine /\ Powered(m)
    /\ queued \in Modes /\ cmd \in AllCommands \cup {"none"}
    /\ pc \in {"loop", "command", "uart", "mode"}
    /\ finger \in BOOLEAN /\ plug \in BOOLEAN /\ touches \in Nat
    /\ KeyOwed /\ ShownUntouched /\ LateOff /\ Sent

-----------------------------------------------------------------------------
(* A field may be given any value of its type.                             *)
LEMMA MachinePut ==
    ASSUME NEW s \in Machine
    PROVE  /\ \A v \in Modes : [s EXCEPT !.Main_status = v] \in Machine
           /\ \A v \in TimerFlags : [s EXCEPT !.Timeout3Sec = v] \in Machine
           /\ \A v \in BOOLEAN : [s EXCEPT !.running3 = v] \in Machine
           /\ \A v \in TimerFlags : [s EXCEPT !.Timeout1Sec = v] \in Machine
           /\ \A v \in BOOLEAN : [s EXCEPT !.running1 = v] \in Machine
           /\ \A v \in Screens : [s EXCEPT !.Time_stuts = v] \in Machine
           /\ \A v \in BOOLEAN : [s EXCEPT !.KEYwork_flag = v] \in Machine
           /\ \A v \in {"off", "app", "update"} : [s EXCEPT !.stm32 = v] \in Machine
           /\ \A v \in {"H", "L"} : [s EXCEPT !.pin29 = v] \in Machine
           /\ \A v \in BOOLEAN : [s EXCEPT !.uart_send_flag = v] \in Machine
           /\ \A v \in BOOLEAN : [s EXCEPT !.Ack_recive_enable = v] \in Machine
           /\ \A v \in 0 .. MaxWaits : [s EXCEPT !.waits = v] \in Machine
           /\ \A v \in Told : [s EXCEPT !.told = v] \in Machine
           /\ \A v \in Told \cup {"apdu"} : [s EXCEPT !.command = v] \in Machine
           /\ \A v \in BOOLEAN : [s EXCEPT !.Apdu = v] \in Machine
           /\ \A v \in BOOLEAN : [s EXCEPT !.reply = v] \in Machine
           /\ \A v \in {"NO", "KEY_1", "LongTouch"} : [s EXCEPT !.touch_key = v] \in Machine
           /\ \A v \in BOOLEAN : [s EXCEPT !.touch_key_flag = v] \in Machine
           /\ \A v \in BOOLEAN : [s EXCEPT !.KeyWorkflag = v] \in Machine
           /\ \A v \in BOOLEAN : [s EXCEPT !.KeepTouch = v] \in Machine
           /\ \A v \in {0, 1} : [s EXCEPT !.Touch_timercount = v] \in Machine
           /\ \A v \in BOOLEAN : [s EXCEPT !.USB_connect = v] \in Machine
           /\ \A v \in BOOLEAN : [s EXCEPT !.USB_Changed = v] \in Machine
           /\ \A v \in BOOLEAN : [s EXCEPT !.ParingData = v] \in Machine
           /\ \A v \in BOOLEAN : [s EXCEPT !.Ble_Auth = v] \in Machine
           /\ \A v \in Nat : [s EXCEPT !.worked = v] \in Machine
<1>1. \A v \in Modes : [s EXCEPT !.Main_status = v] \in Machine
  BY DEF Machine
<1>2. \A v \in TimerFlags : [s EXCEPT !.Timeout3Sec = v] \in Machine
  BY DEF Machine
<1>3. \A v \in BOOLEAN : [s EXCEPT !.running3 = v] \in Machine
  BY DEF Machine
<1>4. \A v \in TimerFlags : [s EXCEPT !.Timeout1Sec = v] \in Machine
  BY DEF Machine
<1>5. \A v \in BOOLEAN : [s EXCEPT !.running1 = v] \in Machine
  BY DEF Machine
<1>6. \A v \in Screens : [s EXCEPT !.Time_stuts = v] \in Machine
  BY DEF Machine
<1>7. \A v \in BOOLEAN : [s EXCEPT !.KEYwork_flag = v] \in Machine
  BY DEF Machine
<1>8. \A v \in {"off", "app", "update"} : [s EXCEPT !.stm32 = v] \in Machine
  BY DEF Machine
<1>9. \A v \in {"H", "L"} : [s EXCEPT !.pin29 = v] \in Machine
  BY DEF Machine
<1>10. \A v \in BOOLEAN : [s EXCEPT !.uart_send_flag = v] \in Machine
  BY DEF Machine
<1>11. \A v \in BOOLEAN : [s EXCEPT !.Ack_recive_enable = v] \in Machine
  BY DEF Machine
<1>12. \A v \in 0 .. MaxWaits : [s EXCEPT !.waits = v] \in Machine
  BY DEF Machine
<1>13. \A v \in Told : [s EXCEPT !.told = v] \in Machine
  BY DEF Machine
<1>14. \A v \in BOOLEAN : [s EXCEPT !.Apdu = v] \in Machine
  BY DEF Machine
<1>15. \A v \in BOOLEAN : [s EXCEPT !.reply = v] \in Machine
  BY DEF Machine
<1>16. \A v \in {"NO", "KEY_1", "LongTouch"} : [s EXCEPT !.touch_key = v] \in Machine
  BY DEF Machine
<1>17. \A v \in BOOLEAN : [s EXCEPT !.touch_key_flag = v] \in Machine
  BY DEF Machine
<1>18. \A v \in BOOLEAN : [s EXCEPT !.KeyWorkflag = v] \in Machine
  BY DEF Machine
<1>19. \A v \in BOOLEAN : [s EXCEPT !.KeepTouch = v] \in Machine
  BY DEF Machine
<1>20. \A v \in {0, 1} : [s EXCEPT !.Touch_timercount = v] \in Machine
  BY DEF Machine
<1>21. \A v \in BOOLEAN : [s EXCEPT !.USB_connect = v] \in Machine
  BY DEF Machine
<1>22. \A v \in BOOLEAN : [s EXCEPT !.USB_Changed = v] \in Machine
  BY DEF Machine
<1>23. \A v \in BOOLEAN : [s EXCEPT !.ParingData = v] \in Machine
  BY DEF Machine
<1>24. \A v \in BOOLEAN : [s EXCEPT !.Ble_Auth = v] \in Machine
  BY DEF Machine
<1>25. \A v \in Nat : [s EXCEPT !.worked = v] \in Machine
  BY DEF Machine
<1>26. \A v \in Told \cup {"apdu"} : [s EXCEPT !.command = v] \in Machine
  BY DEF Machine
<1> QED
  BY <1>1, <1>2, <1>3, <1>4, <1>5, <1>6, <1>7, <1>8, <1>9, <1>10, <1>11, <1>12,
     <1>13, <1>14, <1>15, <1>16, <1>17, <1>18, <1>19, <1>20, <1>21, <1>22, <1>23, <1>24, <1>25,
     <1>26

(* Stop3() stops the timer and clears its flag, and nothing else.          *)
LEMMA Stop3Result ==
    ASSUME NEW s \in Machine
    PROVE  LET t == Stop3(s)
           IN  /\ t \in Machine
               /\ t.Timeout3Sec = "TimeClose" /\ t.running3 = FALSE
               /\ SameTimer1(t, s) /\ SamePower(t, s) /\ SameMode(t, s)
               /\ SameShown(t, s) /\ SameKey(t, s)
BY DEF Stop3, Machine, TimerFlags, SameTimer1, SamePower, SameMode, SameShown, SameKey

(* Start3() starts it and opens its flag.                                  *)
LEMMA Start3Result ==
    ASSUME NEW s \in Machine
    PROVE  LET t == Start3(s)
           IN  /\ t \in Machine
               /\ t.Timeout3Sec = "TimeOpen" /\ t.running3 = TRUE
               /\ SameTimer1(t, s) /\ SamePower(t, s) /\ SameMode(t, s)
               /\ SameShown(t, s) /\ SameKey(t, s)
BY DEF Start3, Machine, TimerFlags, SameTimer1, SamePower, SameMode, SameShown, SameKey

(* Open3() starts it where it is closed.                                   *)
LEMMA Open3Result ==
    ASSUME NEW s \in Machine
    PROVE  LET t == Open3(s)
           IN  /\ t \in Machine
               /\ \/ t.Timeout3Sec = "TimeOpen" /\ t.running3 = TRUE
                  \/ SameTimer3(t, s)
               /\ SameTimer1(t, s) /\ SamePower(t, s) /\ SameMode(t, s)
               /\ SameShown(t, s) /\ SameKey(t, s)
BY Start3Result DEF Open3, SameTimer3, SameTimer1, SamePower, SameMode, SameShown, SameKey

(* The timer of the low power display, stopped.                            *)
LEMMA Stop1Result ==
    ASSUME NEW s \in Machine
    PROVE  LET t == Stop1(s)
           IN  /\ t \in Machine
               /\ t.Timeout1Sec = "TimeClose" /\ t.running1 = FALSE
               /\ SameTimer3(t, s) /\ SamePower(t, s) /\ SameMode(t, s)
               /\ SameShown(t, s) /\ SameKey(t, s)
BY DEF Stop1, Machine, TimerFlags, SameTimer3, SamePower, SameMode, SameShown, SameKey

(* The same timer, started.                                                *)
LEMMA Start1Result ==
    ASSUME NEW s \in Machine
    PROVE  LET t == Start1(s)
           IN  /\ t \in Machine
               /\ t.Timeout1Sec = "TimeOpen" /\ t.running1 = TRUE
               /\ SameTimer3(t, s) /\ SamePower(t, s) /\ SameMode(t, s)
               /\ SameShown(t, s) /\ SameKey(t, s)
BY DEF Start1, Machine, TimerFlags, SameTimer3, SamePower, SameMode, SameShown, SameKey

(* A command is given to the UART: nothing else changes.                   *)
LEMMA TellResult ==
    ASSUME NEW s \in Machine, NEW what \in Told \cup {"apdu"}
    PROVE  LET t == Tell(s, what)
           IN  /\ t \in Machine
               /\ t.uart_send_flag = TRUE /\ t.command = what /\ t.told = s.told
               /\ t.Time_stuts = s.Time_stuts
               /\ SameTimers(t, s) /\ SamePower(t, s) /\ SameMode(t, s) /\ SameKey(t, s)
<1> DEFINE t == Tell(s, what)
<1>1. t \in Machine
  BY MachinePut DEF Tell, CmdSendUart
<1>2. /\ t.uart_send_flag = TRUE /\ t.command = what /\ t.told = s.told
      /\ t.Time_stuts = s.Time_stuts
  BY DEF Tell, CmdSendUart, Machine
<1>3. SameTimers(t, s)
  BY DEF Tell, CmdSendUart, Machine, SameTimers, SameTimer3, SameTimer1
<1>4. SamePower(t, s) /\ SameMode(t, s)
  BY DEF Tell, CmdSendUart, Machine, SamePower, SameMode
<1>5. SameKey(t, s)
  BY DEF Tell, CmdSendUart, Machine, SameKey
<1> QED
  BY <1>1, <1>2, <1>3, <1>4, <1>5

(* Power on: pin 29 decides what boots; what runs is left to run.          *)
LEMMA PowerOn_keyResult ==
    ASSUME NEW s \in Machine
    PROVE  LET t == PowerOn_key(s)
           IN  /\ t \in Machine
               /\ t.stm32 = IF s.stm32 # "off" THEN s.stm32
                            ELSE IF s.pin29 = "H" THEN "app" ELSE "update"
               /\ t.Ack_recive_enable = s.Ack_recive_enable
               /\ SameTimers(t, s) /\ SameMode(t, s) /\ SameShown(t, s) /\ SameKey(t, s)
<1> DEFINE to == IF s.stm32 # "off" THEN s.stm32
                 ELSE IF s.pin29 = "H" THEN "app" ELSE "update"
           t == [s EXCEPT !.stm32 = to]
<1>1. to \in {"off", "app", "update"}
  BY DEF Machine
<1>2. PowerOn_key(s) = t
  BY DEF PowerOn_key
<1> HIDE DEF to
<1>3. t \in Machine
  BY <1>1, MachinePut
<1>4. /\ t.stm32 = to /\ t.Ack_recive_enable = s.Ack_recive_enable
      /\ SameTimers(t, s) /\ SameMode(t, s) /\ SameShown(t, s) /\ SameKey(t, s)
  BY DEF Machine, SameTimers, SameTimer3, SameTimer1, SameMode, SameShown, SameKey
<1> QED
  BY <1>2, <1>3, <1>4 DEF to

(* Pin 29 alone.                                                           *)
LEMMA PinResult ==
    ASSUME NEW s \in Machine, NEW pin \in {"H", "L"}
    PROVE  LET t == [s EXCEPT !.pin29 = pin]
           IN  /\ t \in Machine /\ t.pin29 = pin
               /\ SameTimers(t, s) /\ SamePower(t, s) /\ SameMode(t, s)
               /\ SameShown(t, s) /\ SameKey(t, s)
BY DEF Machine, SameTimers, SameTimer3, SameTimer1, SamePower, SameMode, SameShown, SameKey

(* Power on in APP mode.                                                   *)
LEMMA PowerOnAppResult ==
    ASSUME NEW s \in Machine
    PROVE  LET t == PowerOnApp(s)
           IN  /\ t \in Machine
               /\ t.stm32 = IF s.stm32 = "off" THEN "app" ELSE s.stm32
               /\ t.Ack_recive_enable = s.Ack_recive_enable
               /\ SameTimers(t, s) /\ SameMode(t, s) /\ SameShown(t, s) /\ SameKey(t, s)
<1> DEFINE u == [s EXCEPT !.pin29 = "H"]
<1>1. /\ u \in Machine /\ u.pin29 = "H"
      /\ SameTimers(u, s) /\ SamePower(u, s) /\ SameMode(u, s)
      /\ SameShown(u, s) /\ SameKey(u, s)
  BY PinResult
<1>2. PowerOnApp(s) = PowerOn_key(u)
  BY DEF PowerOnApp
<1> HIDE DEF u
<1> QED
  BY <1>1, <1>2, PowerOn_keyResult
     DEF SameTimers, SameTimer3, SameTimer1, SamePower, SameMode, SameShown, SameKey

(* Power off: what the STM32 showed and what was waited for is forgotten.  *)
LEMMA PowerOff_keyResult ==
    ASSUME NEW s \in Machine, s.Ack_recive_enable => s.stm32 # "off"
    PROVE  LET t == PowerOff_key(s)
           IN  /\ t \in Machine
               /\ t.stm32 = "off" /\ t.Ack_recive_enable = FALSE
               /\ t.Time_stuts = s.Time_stuts
               /\ SameTimers(t, s) /\ SameMode(t, s) /\ SameKey(t, s)
<1>1. CASE s.stm32 = "off"
  BY <1>1 DEF PowerOff_key, Machine, SameTimers, SameTimer3, SameTimer1, SameMode, SameKey
<1>2. CASE s.stm32 # "off"
  <2> DEFINE t == [s EXCEPT !.stm32 = "off", !.uart_send_flag = FALSE,
                            !.Ack_recive_enable = FALSE, !.waits = 0, !.told = "nothing"]
  <2>1. PowerOff_key(s) = t
    BY <1>2 DEF PowerOff_key
  <2>2. 0 \in 0 .. MaxWaits /\ "nothing" \in Told
    BY AppModeAssumption DEF Told
  <2>3. t \in Machine
    BY <2>2, MachinePut
  <2>4. t.stm32 = "off" /\ t.Ack_recive_enable = FALSE
    BY DEF Machine
  <2>5. t.Time_stuts = s.Time_stuts /\ SameTimers(t, s) /\ SameMode(t, s)
    BY DEF Machine, SameTimers, SameTimer3, SameTimer1, SameMode
  <2>6. SameKey(t, s)
    BY DEF Machine, SameKey
  <2> HIDE DEF t
  <2> QED
    BY <2>1, <2>3, <2>4, <2>5, <2>6
<1> QED
  BY <1>1, <1>2

(* The mode alone.                                                         *)
LEMMA ModeResult ==
    ASSUME NEW s \in Machine, NEW mode \in Modes
    PROVE  LET t == Mode(s, mode)
           IN  /\ t \in Machine /\ t.Main_status = mode
               /\ SameTimers(t, s) /\ SamePower(t, s) /\ SameShown(t, s) /\ SameKey(t, s)
BY DEF Mode, Machine, SameTimers, SameTimer3, SameTimer1, SamePower, SameShown, SameKey

(* The mode, and the phone's flag.                                         *)
LEMMA LeaveResult ==
    ASSUME NEW s \in Machine, NEW mode \in Modes
    PROVE  LET t == Leave(s, mode)
           IN  /\ t \in Machine /\ t.Main_status = mode
               /\ SameTimers(t, s) /\ SamePower(t, s) /\ SameShown(t, s) /\ SameKey(t, s)
<1> DEFINE t == Leave(s, mode)
<1>1. t \in Machine
  BY MachinePut DEF Leave, Mode
<1>2. t.Main_status = mode /\ SameTimers(t, s) /\ SamePower(t, s)
  BY DEF Leave, Mode, Machine, SameTimers, SameTimer3, SameTimer1, SamePower
<1>3. SameShown(t, s) /\ SameKey(t, s)
  BY DEF Leave, Mode, Machine, SameShown, SameKey
<1> QED
  BY <1>1, <1>2, <1>3

(* Into mode timedisplay, and the STM32 is told to show the time.          *)
LEMMA TimeDisplayResult ==
    ASSUME NEW s \in Machine
    PROVE  LET t == TimeDisplay(s)
           IN  /\ t \in Machine
               /\ t.Main_status = "timedisplay"
               /\ t.uart_send_flag = TRUE /\ t.command = "time" /\ t.told = s.told
               /\ t.Time_stuts = s.Time_stuts
               /\ SameTimers(t, s) /\ SamePower(t, s) /\ SameKey(t, s)
<1> DEFINE u == Leave(s, "timedisplay")
           t == Tell(u, "time")
<1>1. "timedisplay" \in Modes /\ "time" \in Told
  BY DEF Modes, Told, Screens
<1>2. /\ u \in Machine /\ u.Main_status = "timedisplay"
      /\ SameTimers(u, s) /\ SamePower(u, s) /\ SameShown(u, s) /\ SameKey(u, s)
  BY <1>1, LeaveResult
<1>3. TimeDisplay(s) = t
  BY DEF TimeDisplay
<1> HIDE DEF u
<1>4. /\ t \in Machine /\ t.uart_send_flag = TRUE /\ t.command = "time"
      /\ t.told = u.told /\ t.Time_stuts = u.Time_stuts
      /\ SameTimers(t, u) /\ SamePower(t, u) /\ SameMode(t, u) /\ SameKey(t, u)
  BY <1>1, <1>2, TellResult
<1> HIDE DEF t
<1> QED
  BY <1>2, <1>3, <1>4
     DEF SameTimers, SameTimer3, SameTimer1, SamePower, SameMode, SameShown, SameKey

(* Off and on again: nothing was told yet.                                 *)
LEMMA PowerCycleResult ==
    ASSUME NEW s \in Machine, s.Ack_recive_enable => s.stm32 # "off"
    PROVE  LET t == PowerCycle(s)
           IN  /\ t \in Machine
               /\ t.stm32 = "app" /\ t.Ack_recive_enable = FALSE
               /\ t.Time_stuts = s.Time_stuts
               /\ SameTimers(t, s) /\ SameMode(t, s) /\ SameKey(t, s)
<1> DEFINE u == PowerOff_key(s)
           t == PowerOnApp(u)
<1>1. /\ u \in Machine /\ u.stm32 = "off" /\ u.Ack_recive_enable = FALSE
      /\ u.Time_stuts = s.Time_stuts
      /\ SameTimers(u, s) /\ SameMode(u, s) /\ SameKey(u, s)
  BY PowerOff_keyResult
<1> HIDE DEF u
<1>2. /\ t \in Machine /\ t.stm32 = "app" /\ t.Ack_recive_enable = u.Ack_recive_enable
      /\ SameTimers(t, u) /\ SameMode(t, u) /\ SameShown(t, u) /\ SameKey(t, u)
  BY <1>1, PowerOnAppResult
<1>3. PowerCycle(s) = t
  BY DEF PowerCycle, u
<1> HIDE DEF t
<1> QED
  BY <1>1, <1>2, <1>3
     DEF SameTimers, SameTimer3, SameTimer1, SameMode, SameShown, SameKey

(* The key was worked: it is not touched any more.                         *)
LEMMA KeyResult ==
    ASSUME NEW s \in Machine
    PROVE  LET t == Key(s)
           IN  /\ t \in Machine /\ KeyWorked(t, s) /\ t.worked = s.worked
               /\ SameTimers(t, s) /\ SamePower(t, s) /\ SameMode(t, s) /\ SameShown(t, s)
<1> DEFINE t == Key(s)
<1>1. t \in Machine
  BY MachinePut DEF Key
<1>2. KeyWorked(t, s) /\ t.worked = s.worked
  BY DEF Key, Machine, KeyWorked
<1>3. SameTimers(t, s) /\ SamePower(t, s)
  BY DEF Key, Machine, SameTimers, SameTimer3, SameTimer1, SamePower
<1>4. SameMode(t, s) /\ SameShown(t, s)
  BY DEF Key, Machine, SameMode, SameShown
<1> QED
  BY <1>1, <1>2, <1>3, <1>4

(* It is counted as well.                                                  *)
LEMMA WorkKeyResult ==
    ASSUME NEW s \in Machine
    PROVE  LET t == WorkKey(s)
           IN  /\ t \in Machine /\ KeyWorked(t, s) /\ t.worked = s.worked + 1
               /\ SameTimers(t, s) /\ SamePower(t, s) /\ SameMode(t, s) /\ SameShown(t, s)
<1> DEFINE u == Key(s)
           t == [u EXCEPT !.worked = @ + 1]
<1>1. /\ u \in Machine /\ KeyWorked(u, s) /\ u.worked = s.worked
      /\ SameTimers(u, s) /\ SamePower(u, s) /\ SameMode(u, s) /\ SameShown(u, s)
  BY KeyResult
<1> HIDE DEF u
<1>2. /\ t \in Machine /\ t.worked = u.worked + 1
      /\ t.touch_key = u.touch_key /\ t.KeyWorkflag = u.KeyWorkflag
      /\ t.touch_key_flag = u.touch_key_flag
  BY <1>1 DEF Machine
<1>3. /\ SameTimers(t, u) /\ SamePower(t, u) /\ SameMode(t, u) /\ SameShown(t, u)
  BY <1>1 DEF Machine, SameTimers, SameTimer3, SameTimer1, SamePower, SameMode, SameShown
<1>4. WorkKey(s) = t
  BY DEF WorkKey, u
<1> HIDE DEF t
<1> QED
  BY <1>1, <1>2, <1>3, <1>4
     DEF KeyWorked, SameTimers, SameTimer3, SameTimer1, SamePower, SameMode, SameShown

-----------------------------------------------------------------------------
(* The handlers of the modes, run in whichever mode the turn left behind.  *)

(* A handler that leaves the key alone.                                    *)
LEMMA ReadyRight ==
    ASSUME NEW s, NEW t, Ready(t, s)
    PROVE  Right(t, s)
BY DEF Ready, Right, KeyStep

(* Doing nothing is right where the power is.                              *)
LEMMA ReadySame ==
    ASSUME NEW s \in Machine, Powered(s)
    PROVE  Ready(s, s)
BY DEF Ready, Sound, SameKey

(* Working the key disturbs nothing else.                                  *)
LEMMA KeyRight ==
    ASSUME NEW s \in Machine, NEW t, Ready(t, s)
    PROVE  Right(Key(t), s)
<1> DEFINE u == Key(t)
<1>1. /\ u \in Machine /\ KeyWorked(u, t) /\ u.worked = t.worked
      /\ SameTimers(u, t) /\ SamePower(u, t) /\ SameMode(u, t) /\ SameShown(u, t)
  BY KeyResult DEF Ready, Sound
<1> HIDE DEF u
<1>2. Powered(u)
  BY <1>1 DEF Ready, Sound, Powered, SameTimers, SameTimer3, SameTimer1, SamePower, SameMode, SameShown
<1>3. Untouched(s) => Untouched(u)
  BY <1>1 DEF Ready, Sound, Untouched, KeyWorked, SameMode, SameShown
<1>4. KeyStep(u, s)
  BY <1>1 DEF Ready, KeyStep, KeyWorked, SameKey
<1> QED
  BY <1>1, <1>2, <1>3, <1>4 DEF Right, Sound, u

(* The same for a key that is counted, where it had been touched.          *)
LEMMA WorkKeyRight ==
    ASSUME NEW s \in Machine, NEW t, Ready(t, s), s.touch_key # "NO"
    PROVE  Right(WorkKey(t), s)
<1> DEFINE u == WorkKey(t)
<1>1. /\ u \in Machine /\ KeyWorked(u, t) /\ u.worked = t.worked + 1
      /\ SameTimers(u, t) /\ SamePower(u, t) /\ SameMode(u, t) /\ SameShown(u, t)
  BY WorkKeyResult DEF Ready, Sound
<1> HIDE DEF u
<1>2. Powered(u)
  BY <1>1 DEF Ready, Sound, Powered, SameTimers, SameTimer3, SameTimer1, SamePower, SameMode, SameShown
<1>3. Untouched(s) => Untouched(u)
  BY <1>1 DEF Ready, Sound, Untouched, KeyWorked, SameMode, SameShown
<1>4. KeyStep(u, s)
  BY <1>1 DEF Ready, KeyStep, KeyWorked, SameKey
<1> QED
  BY <1>1, <1>2, <1>3, <1>4 DEF Right, Sound, u

(* What a handler is built from.                                           *)
LEMMA Stop3Ready ==
    ASSUME NEW s \in Machine, NEW t, Ready(t, s)
    PROVE  Ready(Stop3(t), s)
<1> DEFINE u == Stop3(t)
<1>1. /\ u \in Machine
      /\ u.Timeout3Sec = "TimeClose" /\ u.running3 = FALSE /\ SameTimer1(u, t)
      /\ SamePower(u, t) /\ SameMode(u, t) /\ SameShown(u, t) /\ SameKey(u, t)
  BY Stop3Result DEF Ready, Sound
<1> HIDE DEF u
<1>2. Powered(u)
  BY <1>1 DEF Ready, Sound, Powered, SameTimer3, SameTimer1, SamePower, SameMode, SameShown
<1>3. SameKey(u, s) /\ (Untouched(s) => Untouched(u))
  BY <1>1 DEF Ready, Sound, Untouched, SameKey, SameMode, SameShown
<1> QED
  BY <1>1, <1>2, <1>3 DEF Ready, Sound, u

(* The shutdown timer is started.                                          *)
LEMMA Start3Ready ==
    ASSUME NEW s \in Machine, NEW t, Ready(t, s)
    PROVE  Ready(Start3(t), s)
<1> DEFINE u == Start3(t)
<1>1. /\ u \in Machine
      /\ u.Timeout3Sec = "TimeOpen" /\ u.running3 = TRUE /\ SameTimer1(u, t)
      /\ SamePower(u, t) /\ SameMode(u, t) /\ SameShown(u, t) /\ SameKey(u, t)
  BY Start3Result DEF Ready, Sound
<1> HIDE DEF u
<1>2. Powered(u)
  BY <1>1 DEF Ready, Sound, Powered, SameTimer3, SameTimer1, SamePower, SameMode, SameShown
<1>3. SameKey(u, s) /\ (Untouched(s) => Untouched(u))
  BY <1>1 DEF Ready, Sound, Untouched, SameKey, SameMode, SameShown
<1> QED
  BY <1>1, <1>2, <1>3 DEF Ready, Sound, u

(* It is started where it is closed.                                       *)
LEMMA Open3Ready ==
    ASSUME NEW s \in Machine, NEW t, Ready(t, s)
    PROVE  Ready(Open3(t), s)
<1> DEFINE u == Open3(t)
<1>1. /\ u \in Machine
      /\ \/ u.Timeout3Sec = "TimeOpen" /\ u.running3 = TRUE
         \/ SameTimer3(u, t)
      /\ SameTimer1(u, t)
      /\ SamePower(u, t) /\ SameMode(u, t) /\ SameShown(u, t) /\ SameKey(u, t)
  BY Open3Result DEF Ready, Sound
<1> HIDE DEF u
<1>2. Powered(u)
  BY <1>1 DEF Ready, Sound, Powered, SameTimer3, SameTimer1, SamePower, SameMode, SameShown
<1>3. SameKey(u, s) /\ (Untouched(s) => Untouched(u))
  BY <1>1 DEF Ready, Sound, Untouched, SameKey, SameMode, SameShown
<1> QED
  BY <1>1, <1>2, <1>3 DEF Ready, Sound, u

(* The low power display's timer is stopped.                               *)
LEMMA Stop1Ready ==
    ASSUME NEW s \in Machine, NEW t, Ready(t, s)
    PROVE  Ready(Stop1(t), s)
<1> DEFINE u == Stop1(t)
<1>1. /\ u \in Machine
      /\ u.Timeout1Sec = "TimeClose" /\ u.running1 = FALSE /\ SameTimer3(u, t)
      /\ SamePower(u, t) /\ SameMode(u, t) /\ SameShown(u, t) /\ SameKey(u, t)
  BY Stop1Result DEF Ready, Sound
<1> HIDE DEF u
<1>2. Powered(u)
  BY <1>1 DEF Ready, Sound, Powered, SameTimer3, SameTimer1, SamePower, SameMode, SameShown
<1>3. SameKey(u, s) /\ (Untouched(s) => Untouched(u))
  BY <1>1 DEF Ready, Sound, Untouched, SameKey, SameMode, SameShown
<1> QED
  BY <1>1, <1>2, <1>3 DEF Ready, Sound, u

(* It is started.                                                          *)
LEMMA Start1Ready ==
    ASSUME NEW s \in Machine, NEW t, Ready(t, s)
    PROVE  Ready(Start1(t), s)
<1> DEFINE u == Start1(t)
<1>1. /\ u \in Machine
      /\ u.Timeout1Sec = "TimeOpen" /\ u.running1 = TRUE /\ SameTimer3(u, t)
      /\ SamePower(u, t) /\ SameMode(u, t) /\ SameShown(u, t) /\ SameKey(u, t)
  BY Start1Result DEF Ready, Sound
<1> HIDE DEF u
<1>2. Powered(u)
  BY <1>1 DEF Ready, Sound, Powered, SameTimer3, SameTimer1, SamePower, SameMode, SameShown
<1>3. SameKey(u, s) /\ (Untouched(s) => Untouched(u))
  BY <1>1 DEF Ready, Sound, Untouched, SameKey, SameMode, SameShown
<1> QED
  BY <1>1, <1>2, <1>3 DEF Ready, Sound, u

(* A handler's mode, power and screen are changed on its way.              *)
LEMMA UnderwayReady ==
    ASSUME NEW s \in Machine, NEW t, Ready(t, s)
    PROVE  Underway(t, s)
BY DEF Ready, Sound, Underway, Untouched, Powered

(* Power on, before the mode is changed.                                   *)
LEMMA PowerOnAppUnderway ==
    ASSUME NEW s \in Machine, NEW t, Underway(t, s)
    PROVE  Underway(PowerOnApp(t), s) /\ PowerOnApp(t).stm32 # "off"
<1> DEFINE u == PowerOnApp(t)
<1>1. /\ u \in Machine /\ u.stm32 = IF t.stm32 = "off" THEN "app" ELSE t.stm32
      /\ u.Ack_recive_enable = t.Ack_recive_enable
      /\ SameTimers(u, t) /\ SameMode(u, t) /\ SameShown(u, t) /\ SameKey(u, t)
  BY PowerOnAppResult DEF Underway
<1> HIDE DEF u
<1>2. Underway(u, s) /\ u.stm32 # "off"
  BY <1>1 DEF Underway, SameTimers, SameTimer3, SameTimer1, SameShown, SameKey
<1> QED
  BY <1>2 DEF u

(* Power off, before or after the mode is changed.                         *)
LEMMA PowerOff_keyUnderway ==
    ASSUME NEW s \in Machine, NEW t, Underway(t, s)
    PROVE  /\ Underway(PowerOff_key(t), s)
           /\ PowerOff_key(t).stm32 = "off" /\ PowerOff_key(t).Ack_recive_enable = FALSE
           /\ SameMode(PowerOff_key(t), t)
<1> DEFINE u == PowerOff_key(t)
<1>1. /\ u \in Machine /\ u.stm32 = "off" /\ u.Ack_recive_enable = FALSE
      /\ u.Time_stuts = t.Time_stuts
      /\ SameTimers(u, t) /\ SameMode(u, t) /\ SameKey(u, t)
  BY PowerOff_keyResult DEF Underway
<1> HIDE DEF u
<1>2. Underway(u, s)
  BY <1>1 DEF Underway, SameTimers, SameTimer3, SameTimer1, SameKey
<1> QED
  BY <1>1, <1>2 DEF u

(* Off and on again.                                                       *)
LEMMA PowerCycleUnderway ==
    ASSUME NEW s \in Machine, NEW t, Underway(t, s)
    PROVE  /\ Underway(PowerCycle(t), s)
           /\ PowerCycle(t).stm32 # "off"
BY PowerOff_keyUnderway, PowerOnAppUnderway DEF PowerCycle

(* The mode is changed, the rest follows.                                  *)
LEMMA ModeUnderway ==
    ASSUME NEW s \in Machine, NEW t, Underway(t, s), NEW mode \in Modes
    PROVE  /\ Underway(Mode(t, mode), s) /\ Underway(Leave(t, mode), s)
           /\ Mode(t, mode).Main_status = mode /\ SamePower(Mode(t, mode), t)
           /\ Leave(t, mode).Main_status = mode
<1> DEFINE u == Mode(t, mode)
           v == Leave(t, mode)
<1>1. /\ u \in Machine /\ u.Main_status = mode
      /\ SameTimers(u, t) /\ SamePower(u, t) /\ SameShown(u, t) /\ SameKey(u, t)
  BY ModeResult DEF Underway
<1>2. /\ v \in Machine /\ v.Main_status = mode
      /\ SameTimers(v, t) /\ SamePower(v, t) /\ SameShown(v, t) /\ SameKey(v, t)
  BY LeaveResult DEF Underway
<1> HIDE DEF u, v
<1>3. Underway(u, s)
  BY <1>1
     DEF Underway, SameTimers, SameTimer3, SameTimer1, SamePower, SameShown, SameKey
<1>4. Underway(v, s)
  BY <1>2
     DEF Underway, SameTimers, SameTimer3, SameTimer1, SamePower, SameShown, SameKey
<1> QED
  BY <1>1, <1>2, <1>3, <1>4 DEF u, v

(* The STM32 is told what to show, in a mode that gives it power.          *)
LEMMA TellReady ==
    ASSUME NEW s \in Machine, NEW t, Underway(t, s), NEW what \in Told,
           t.Main_status \notin {"closeoled", "download"},
           t.Main_status # "timedisplay" => t.stm32 # "off"
    PROVE  Ready(Tell(t, what), s)
<1> DEFINE u == Tell(t, what)
<1>1. /\ u \in Machine /\ u.uart_send_flag = TRUE /\ u.Time_stuts = t.Time_stuts
      /\ SameTimers(u, t) /\ SamePower(u, t) /\ SameMode(u, t) /\ SameKey(u, t)
  BY TellResult DEF Underway
<1> HIDE DEF u
<1>2. Powered(u)
  BY <1>1
     DEF Underway, Powered, SameTimers, SameTimer3, SameTimer1, SamePower, SameMode
<1>3. SameKey(u, s) /\ (Untouched(s) => Untouched(u))
  BY <1>1 DEF Underway, Untouched, SameKey
<1> QED
  BY <1>1, <1>2, <1>3 DEF Ready, Sound, u

(* Mode timedisplay may be entered from wherever the handler is.           *)
LEMMA TimeDisplayReady ==
    ASSUME NEW s \in Machine, NEW t, Underway(t, s)
    PROVE  Ready(TimeDisplay(t), s)
<1>1. "timedisplay" \in Modes /\ "time" \in Told
  BY DEF Modes, Told, Screens
<1> QED
  BY <1>1, ModeUnderway, TellReady DEF TimeDisplay

(* The way into mode closeoled ends with PowerOff_key().                   *)
LEMMA CloseReady ==
    ASSUME NEW s \in Machine, NEW t, Underway(t, s), t.Main_status = "closeoled"
    PROVE  Ready(PowerOff_key(t), s)
<1> DEFINE u == PowerOff_key(t)
<1>1. /\ Underway(u, s) /\ u.Main_status = "closeoled"
      /\ u.stm32 = "off" /\ u.Ack_recive_enable = FALSE
  BY PowerOff_keyUnderway DEF SameMode
<1> HIDE DEF u
<1>2. Powered(u)
  BY <1>1 DEF Underway, Powered
<1>3. Untouched(s) => Untouched(u)
  BY <1>1 DEF Underway, Untouched, SameKey
<1> QED
  BY <1>1, <1>2, <1>3 DEF Underway, Ready, Sound, u

(* So the device turns itself off from every mode.                         *)
LEMMA OffReady ==
    ASSUME NEW s \in Machine, NEW t, Underway(t, s)
    PROVE  /\ Ready(PowerOff_key(Mode(t, "closeoled")), s)
           /\ Ready(PowerOff_key(Leave(t, "closeoled")), s)
BY ModeUnderway, CloseReady DEF Modes

(* Flags that none of the properties is about.                             *)
LEMMA PlainReady ==
    ASSUME NEW s \in Machine, NEW t, Ready(t, s), NEW b \in BOOLEAN
    PROVE  /\ Ready([t EXCEPT !.Apdu = b], s) /\ Ready([t EXCEPT !.reply = b], s)
           /\ Ready([t EXCEPT !.KEYwork_flag = b], s)
           /\ Ready([t EXCEPT !.Ble_Auth = b], s)
           /\ Ready([t EXCEPT !.ParingData = b], s)
           /\ Ready([t EXCEPT !.Time_stuts = "time"], s)
<1>1. t \in Machine
  BY DEF Ready, Sound
<1>2. Ready([t EXCEPT !.Apdu = b], s)
  BY <1>1 DEF Ready, Sound, Machine, Powered, Untouched, SameKey
<1>3. Ready([t EXCEPT !.reply = b], s)
  BY <1>1 DEF Ready, Sound, Machine, Powered, Untouched, SameKey
<1>5. Ready([t EXCEPT !.KEYwork_flag = b], s)
  BY <1>1 DEF Ready, Sound, Machine, Powered, Untouched, SameKey
<1>6. Ready([t EXCEPT !.Ble_Auth = b], s)
  BY <1>1 DEF Ready, Sound, Machine, Powered, Untouched, SameKey
<1>7. Ready([t EXCEPT !.ParingData = b], s)
  BY <1>1 DEF Ready, Sound, Machine, Powered, Untouched, SameKey
<1>8. Ready([t EXCEPT !.Time_stuts = "time"], s)
  BY <1>1 DEF Ready, Sound, Machine, Powered, Untouched, SameKey, Screens
<1> QED
  BY <1>2, <1>3, <1>5, <1>6, <1>7, <1>8

(* An APDU for the STM32 changes no mode.                                  *)
LEMMA PassApduReady ==
    ASSUME NEW s \in Machine, NEW t, Ready(t, s)
    PROVE  Ready(PassApdu(t), s)
<1> DEFINE u == Tell(t, "apdu")
<1>1. /\ u \in Machine /\ u.uart_send_flag = TRUE /\ u.Time_stuts = t.Time_stuts
      /\ SameTimers(u, t) /\ SamePower(u, t) /\ SameMode(u, t) /\ SameKey(u, t)
  BY TellResult DEF Ready, Sound
<1>2. PassApdu(t) = IF t.Apdu THEN [u EXCEPT !.Apdu = FALSE] ELSE t
  BY DEF PassApdu, Tell
<1> HIDE DEF u
<1>3. Powered(u)
  BY <1>1
     DEF Ready, Sound, Powered, SameTimers, SameTimer3, SameTimer1, SamePower, SameMode
<1>4. SameKey(u, s) /\ (Untouched(s) => Untouched(u))
  BY <1>1 DEF Ready, Sound, Untouched, SameKey
<1>5. Ready([u EXCEPT !.Apdu = FALSE], s)
  BY <1>1, <1>3, <1>4, PlainReady DEF Ready, Sound
<1> QED
  BY <1>2, <1>5

(* Mode closeoled: on with the plug or a touch.                            *)
LEMMA progam_closeoledRight ==
    ASSUME NEW s \in Machine, Powered(s), NEW low \in BOOLEAN
    PROVE  Right(progam_closeoled(s, low), s)
<1> DEFINE on == PowerOnApp(s)
           time == TimeDisplay(on)
           warn == Tell(Mode(on, "changbatlowpower"), "lowpower")
<1>1. Underway(on, s) /\ on.stm32 # "off"
  BY ReadySame, UnderwayReady, PowerOnAppUnderway
<1> HIDE DEF on
<1>2. Ready(time, s)
  BY <1>1, TimeDisplayReady
<1>3. Ready(warn, s)
  <2>1. "changbatlowpower" \in Modes /\ "lowpower" \in Told
    BY DEF Modes, Told
  <2> QED
    BY <1>1, <2>1, ModeUnderway, TellReady DEF SamePower
<1> HIDE DEF time, warn
<1>4. CASE s.USB_Changed
  BY <1>2, <1>4, ReadyRight DEF progam_closeoled, on, time
<1>5. CASE ~ s.USB_Changed /\ s.touch_key = "NO"
  BY <1>5, ReadySame, ReadyRight DEF progam_closeoled
<1>6. CASE ~ s.USB_Changed /\ s.touch_key # "NO"
  BY <1>2, <1>3, <1>6, WorkKeyRight DEF progam_closeoled, on, time, warn
<1> QED
  BY <1>4, <1>5, <1>6

(* f_TimeDataDisPl() and its like: only a touch leads to the next screen.  *)
LEMMA ScreenRight ==
    ASSUME NEW s \in Machine, NEW t, Ready(t, s)
    PROVE  Right(Screen(t), s)
<1>1. CASE t.touch_key = "KEY_1" /\ ~ t.Ack_recive_enable
  <2> DEFINE next == NextScreen[t.Time_stuts]
             w == WorkKey(Stop3(t))
             v == Tell(w, next)
             u == [v EXCEPT !.Time_stuts = next]
  <2>1. next \in Screens /\ next \in Told
    BY DEF Ready, Sound, Machine, NextScreen, Screens, Told
  <2> HIDE DEF next
  <2>2. s.touch_key = "KEY_1"
    BY <1>1 DEF Ready, SameKey
  <2>3. Right(w, s)
    BY <2>2, Stop3Ready, WorkKeyRight
  <2> HIDE DEF w
  <2>4. /\ v \in Machine /\ v.uart_send_flag = TRUE
        /\ SameTimers(v, w) /\ SamePower(v, w) /\ SameMode(v, w) /\ SameKey(v, w)
    BY <2>1, <2>3, TellResult DEF Right, Sound
  <2> HIDE DEF v
  <2>5. /\ u \in Machine /\ u.uart_send_flag = v.uart_send_flag
        /\ SameTimers(u, v) /\ SamePower(u, v) /\ SameMode(u, v) /\ SameKey(u, v)
    BY <2>1, <2>4
       DEF Machine, SameTimers, SameTimer3, SameTimer1, SamePower, SameMode, SameKey
  <2>6. Screen(t) = u
    BY <1>1 DEF Screen, next, w, v
  <2> HIDE DEF u
  <2>7. Powered(u)
    BY <2>3, <2>4, <2>5
       DEF Right, Sound, Powered, SameTimers, SameTimer3, SameTimer1, SamePower, SameMode, SameShown
  <2>8. KeyStep(u, s)
    BY <2>3, <2>4, <2>5 DEF Right, KeyStep, KeyWorked, SameKey
  <2>9. ~ Untouched(s)
    BY <2>2 DEF Untouched
  <2> QED
    BY <2>5, <2>6, <2>7, <2>8, <2>9 DEF Right, Sound
<1>2. CASE ~ (t.touch_key = "KEY_1" /\ ~ t.Ack_recive_enable)
  BY <1>2, ReadyRight DEF Screen
<1> QED
  BY <1>1, <1>2

(* A handler that goes on after it has worked the key.                     *)
LEMMA RightReady ==
    ASSUME NEW s, NEW t, Right(t, s), NEW u, Ready(u, t)
    PROVE  Right(u, s)
BY DEF Right, Ready, Sound, KeyStep, KeyWorked, SameKey

(* Mode timedisplay: the next screen, or off after the timeout.            *)
LEMMA timedisplayRight ==
    ASSUME NEW s \in Machine, Powered(s)
    PROVE  Right(timedisplay(s), s)
<1> DEFINE over == PowerOff_key(Mode([Stop3(s) EXCEPT !.Time_stuts = "time"], "closeoled"))
           timed == IF s.Timeout3Sec # "TimeOut" THEN Open3(s) ELSE over
           shown == Screen(timed)
           left == [Stop3(shown) EXCEPT !.Time_stuts = "time"]
<1>1. Ready(over, s)
  BY ReadySame, Stop3Ready, PlainReady, UnderwayReady, OffReady
<1>2. Ready(timed, s)
  BY <1>1, ReadySame, Open3Ready
<1> HIDE DEF timed
<1>3. Right(shown, s)
  BY <1>2, ScreenRight
<1> HIDE DEF shown
<1>4. Ready(left, shown)
  BY <1>3, ReadySame, Stop3Ready, PlainReady DEF Right, Sound
<1>5. Right(left, s)
  BY <1>3, <1>4, RightReady
<1>6. timedisplay(s) = IF shown.Main_status = "timedisplay" THEN shown ELSE left
  BY DEF timedisplay, shown, timed, over
<1> QED
  BY <1>3, <1>5, <1>6

(* Mode ParingDis: off after the timeout, the time when it is over.        *)
LEMMA BluetooyparingdisplayRight ==
    ASSUME NEW s \in Machine, Powered(s)
    PROVE  Right(Bluetooyparingdisplay(s), s)
<1> DEFINE off == PowerOff_key(Mode([Stop3(s) EXCEPT !.Ble_Auth = FALSE], "closeoled"))
           timed == IF s.Timeout3Sec # "TimeOut" THEN Open3(s) ELSE off
           shown == IF connected THEN timed ELSE s
           left == TimeDisplay(PowerCycle(Stop3(shown)))
           over == ~ shown.Ack_recive_enable /\ (connected => shown.Ble_Auth)
           done == IF ~ over THEN shown
                   ELSE IF connected THEN [left EXCEPT !.Ble_Auth = FALSE] ELSE left
<1>1. Ready(off, s)
  BY ReadySame, Stop3Ready, PlainReady, UnderwayReady, OffReady
<1>2. Ready(timed, s)
  BY <1>1, ReadySame, Open3Ready
<1> HIDE DEF timed
<1>3. Ready(shown, s)
  BY <1>2, ReadySame
<1> HIDE DEF shown, over
<1>4. Ready(left, s)
  BY <1>3, Stop3Ready, UnderwayReady, PowerCycleUnderway, TimeDisplayReady
<1> HIDE DEF left
<1>5. Ready(done, s)
  BY <1>3, <1>4, PlainReady
<1>6. Bluetooyparingdisplay(s) = Key(done)
  BY DEF Bluetooyparingdisplay, off, timed, shown, left, over
<1> QED
  BY <1>5, <1>6, KeyRight

(* Mode download: as long as the connection lasts.                         *)
LEMMA BlueUPfirmwareRight ==
    ASSUME NEW s \in Machine, Powered(s)
    PROVE  Right(BlueUPfirmware(s), s)
<1>1. Ready(Stop3(s), s)
  BY ReadySame, Stop3Ready
<1> QED
  BY <1>1, UnderwayReady, PassApduReady, TimeDisplayReady, ReadyRight DEF BlueUPfirmware

(* Mode blekey: left by a disconnection, a long touch or the timeout.      *)
LEMMA BluetooyhkeydisplayRight ==
    ASSUME NEW s \in Machine, Powered(s)
    PROVE  Right(Bluetooyhkeydisplay(s), s)
<1> DEFINE closed == Stop3(s)
           open == PassApdu(Open3(s))
           off == PowerOff_key(Leave(Stop3(open), "closeoled"))
<1>1. Ready(closed, s) /\ Ready(open, s)
  BY ReadySame, Stop3Ready, Open3Ready, PassApduReady
<1>2. Ready(TimeDisplay(PowerCycle(closed)), s)
  BY <1>1, UnderwayReady, PowerCycleUnderway, TimeDisplayReady
<1>3. open.touch_key = s.touch_key
  BY <1>1 DEF Ready, SameKey
<1> HIDE DEF closed, open
<1>4. Ready(off, s)
  BY <1>1, Stop3Ready, UnderwayReady, OffReady
<1> HIDE DEF off
<1>5. Bluetooyhkeydisplay(s) =
          IF ~ connected THEN TimeDisplay(PowerCycle(closed))
          ELSE IF s.Main_status # "blekey" THEN closed
          ELSE IF open.touch_key = "LongTouch" THEN WorkKey(off)
          ELSE IF open.Timeout3Sec = "TimeOut" THEN off ELSE open
  BY DEF Bluetooyhkeydisplay, closed, open, off
<1>6. open.touch_key = "LongTouch" => Right(WorkKey(off), s)
  BY <1>3, <1>4, WorkKeyRight
<1> QED
  BY <1>1, <1>2, <1>4, <1>5, <1>6, ReadyRight

(* Mode firmware: left by the timeout or a disconnection.                  *)
LEMMA firmwaresignedRight ==
    ASSUME NEW s \in Machine, Powered(s)
    PROVE  Right(firmwaresigned(s), s)
<1> DEFINE off == PowerOff_key(Leave(Stop3(s), "closeoled"))
<1>1. Ready(s, s) /\ Ready(Open3(s), s) /\ Ready(off, s)
  BY ReadySame, Open3Ready, Stop3Ready, UnderwayReady, OffReady
<1> HIDE DEF off
<1>2. firmwaresigned(s) =
          Key(IF connected THEN IF s.Timeout3Sec = "TimeOut" THEN off ELSE Open3(s)
              ELSE IF s.Ack_recive_enable THEN s ELSE off)
  BY DEF firmwaresigned, off
<1> QED
  BY <1>1, <1>2, KeyRight

(* Mode changbatlowpower: left by the plug, a touch or its own timer.      *)
LEMMA ChargingandmanagerdisplayRight ==
    ASSUME NEW s \in Machine, Powered(s)
    PROVE  Right(Chargingandmanagerdisplay(s), s)
<1> DEFINE time == TimeDisplay(Stop1(s))
<1>1. Ready(s, s) /\ Ready(Start1(s), s)
  BY ReadySame, Start1Ready
<1>2. Ready(TimeDisplay(PowerOnApp(s)), s)
  BY <1>1, UnderwayReady, PowerOnAppUnderway, TimeDisplayReady
<1>3. Ready(time, s)
  BY <1>1, Stop1Ready, UnderwayReady, TimeDisplayReady
<1> HIDE DEF time
<1>4. Chargingandmanagerdisplay(s) =
          IF ~ s.USB_connect /\ s.USB_Changed THEN TimeDisplay(PowerOnApp(s))
          ELSE IF s.Timeout1Sec = "TimeClose" THEN Start1(s)
          ELSE IF s.Timeout1Sec = "TimeOut" THEN time
          ELSE IF ~ s.USB_connect /\ s.touch_key # "NO" THEN WorkKey(time)
          ELSE s
  BY DEF Chargingandmanagerdisplay, time
<1>5. s.touch_key # "NO" => Right(WorkKey(time), s)
  BY <1>3, WorkKeyRight
<1> QED
  BY <1>1, <1>2, <1>3, <1>4, <1>5, ReadyRight

(* Whichever mode's handler is run, and whichever mode it finds.           *)
LEMMA HandlerRight ==
    ASSUME NEW mode \in Modes, NEW s \in Machine, Powered(s), NEW low \in BOOLEAN
    PROVE  Right(Handler(mode, s, low), s)
BY progam_closeoledRight, ChargingandmanagerdisplayRight, timedisplayRight,
   BlueUPfirmwareRight, BluetooyhkeydisplayRight, BluetooyparingdisplayRight,
   firmwaresignedRight
   DEF Handler, Modes

-----------------------------------------------------------------------------
(* The commands of the phone: none of them works the key.                  *)

(* Where it is already in mode timedisplay, the power alone is seen to.    *)
LEMMA PowerOnAppReady ==
    ASSUME NEW s \in Machine, NEW t, Ready(t, s), t.Main_status = "timedisplay"
    PROVE  Ready(PowerOnApp(t), s)
<1> DEFINE u == PowerOnApp(t)
<1>1. /\ u \in Machine /\ u.stm32 = IF t.stm32 = "off" THEN "app" ELSE t.stm32
      /\ u.Ack_recive_enable = t.Ack_recive_enable
      /\ SameTimers(u, t) /\ SameMode(u, t) /\ SameShown(u, t) /\ SameKey(u, t)
  BY PowerOnAppResult DEF Ready, Sound
<1> HIDE DEF u
<1>2. Powered(u)
  BY <1>1 DEF Ready, Sound, Powered, SameTimers, SameTimer3, SameTimer1, SameMode, SameShown
<1>3. SameKey(u, s) /\ (Untouched(s) => Untouched(u))
  BY <1>1 DEF Ready, Sound, Untouched, SameMode, SameShown, SameKey
<1> QED
  BY <1>1, <1>2, <1>3 DEF Ready, Sound, u

(* Setting the time turns the device on.                                   *)
LEMMA setup_time_fReady ==
    ASSUME NEW s \in Machine, NEW t, Ready(t, s)
    PROVE  Ready(setup_time_f(t), s)
<1> DEFINE on == IF t.stm32 = "off" THEN PowerOnApp(t) ELSE t
<1>1. Underway(on, s)
  BY UnderwayReady, PowerOnAppUnderway
<1>2. on.Main_status = t.Main_status /\ on.Ack_recive_enable = t.Ack_recive_enable
  BY PowerOnAppResult DEF Ready, Sound, SameMode
<1>3. t.Main_status = "timedisplay" => Ready(on, s)
  BY PowerOnAppReady
<1>4. t.Ack_recive_enable => on = t
  BY DEF Ready, Sound, Powered
<1>5. setup_time_f(t) = IF t.Main_status # "timedisplay" /\ ~ t.Ack_recive_enable
                        THEN TimeDisplay(on) ELSE on
  BY DEF setup_time_f
<1> HIDE DEF on
<1>6. Ready(TimeDisplay(on), s)
  BY <1>1, TimeDisplayReady
<1> QED
  BY <1>3, <1>4, <1>5, <1>6

(* The phone turns the device off.                                         *)
LEMMA setup_turnoff_fReady ==
    ASSUME NEW s \in Machine, NEW t, Ready(t, s)
    PROVE  Ready(setup_turnoff_f(t), s)
BY PlainReady, UnderwayReady, OffReady DEF setup_turnoff_f

(* Power on, with pin 29 as it is: low, the STM32 runs its loader.         *)
LEMMA PowerOn_keyUnderway ==
    ASSUME NEW s \in Machine, NEW t, Underway(t, s)
    PROVE  /\ Underway(PowerOn_key(t), s) /\ PowerOn_key(t).stm32 # "off"
           /\ t.stm32 = "off" /\ t.pin29 = "L" => PowerOn_key(t).stm32 = "update"
<1> DEFINE u == PowerOn_key(t)
<1>1. /\ u \in Machine
      /\ u.stm32 = IF t.stm32 # "off" THEN t.stm32
                   ELSE IF t.pin29 = "H" THEN "app" ELSE "update"
      /\ u.Ack_recive_enable = t.Ack_recive_enable
      /\ SameTimers(u, t) /\ SameMode(u, t) /\ SameShown(u, t) /\ SameKey(u, t)
  BY PowerOn_keyResult DEF Underway
<1> HIDE DEF u
<1>2. Underway(u, s) /\ u.stm32 # "off"
  BY <1>1 DEF Underway, SameTimers, SameTimer3, SameTimer1, SameShown, SameKey
<1> QED
  BY <1>1, <1>2 DEF u

(* The update loader is powered on from closeoled only, where it was off.  *)
LEMMA DownloadStartReady ==
    ASSUME NEW s \in Machine, NEW t, Ready(t, s)
    PROVE  Ready(DownloadStart(t), s)
<1>1. CASE t.Main_status = "closeoled"
  <2> DEFINE low == [t EXCEPT !.pin29 = "L"]
             on == PowerOn_key(low)
             u == Mode(on, "download")
  <2>1. Underway(t, s) /\ t.stm32 = "off"
    BY <1>1, UnderwayReady DEF Ready, Sound, Powered
  <2>2. /\ low \in Machine /\ low.pin29 = "L"
        /\ SameTimers(low, t) /\ SamePower(low, t) /\ SameShown(low, t) /\ SameKey(low, t)
    BY PinResult DEF Ready, Sound
  <2> HIDE DEF low
  <2>3. Underway(low, s) /\ low.stm32 = "off"
    BY <2>1, <2>2
       DEF Underway, SameTimers, SameTimer3, SameTimer1, SamePower, SameShown, SameKey
  <2>4. Underway(on, s) /\ on.stm32 = "update"
    BY <2>2, <2>3, PowerOn_keyUnderway
  <2> HIDE DEF on
  <2>5. Underway(u, s) /\ u.Main_status = "download" /\ u.stm32 = "update"
    BY <2>4, ModeUnderway DEF Modes, SamePower
  <2> HIDE DEF u
  <2>6. Ready(u, s)
    BY <2>5 DEF Underway, Ready, Sound, Powered, Untouched, SameKey
  <2>7. DownloadStart(t) = [u EXCEPT !.KEYwork_flag = TRUE]
    BY <1>1 DEF DownloadStart, u, on, low
  <2> QED
    BY <2>6, <2>7, PlainReady
<1>2. CASE t.Main_status # "closeoled"
  BY <1>2 DEF DownloadStart
<1> QED
  BY <1>1, <1>2

(* The phone takes the device as its key, or gives it up.                  *)
LEMMA KeyOnReady ==
    ASSUME NEW s \in Machine, NEW t, Ready(t, s)
    PROVE  Ready(KeyOn(t), s) /\ Ready(KeyOff(t), s)
<1> DEFINE u == Mode(PowerCycle(t), "blekey")
           v == TimeDisplay(PowerCycle(t))
<1>1. Underway(PowerCycle(t), s) /\ PowerCycle(t).stm32 # "off"
  BY UnderwayReady, PowerCycleUnderway
<1>2. Underway(u, s) /\ u.Main_status = "blekey" /\ u.stm32 # "off"
  BY <1>1, ModeUnderway DEF Modes, SamePower
<1>3. Ready(v, s)
  BY <1>1, TimeDisplayReady
<1> HIDE DEF u, v
<1>4. Ready(Tell(u, "bluekey"), s)
  BY <1>2, TellReady DEF Told
<1>5. /\ KeyOn(t) = [Tell(u, "bluekey") EXCEPT !.KEYwork_flag = TRUE]
      /\ KeyOff(t) = [v EXCEPT !.Time_stuts = "time"]
  BY DEF KeyOn, KeyOff, u, v
<1>6. Ready([Tell(u, "bluekey") EXCEPT !.KEYwork_flag = TRUE], s)
  BY <1>4, PlainReady
<1>7. Ready([v EXCEPT !.Time_stuts = "time"], s)
  BY <1>3, PlainReady
<1> QED
  BY <1>5, <1>6, <1>7

(* Signed firmware: the mode in which the STM32 shows what it likes.       *)
LEMMA SignedReady ==
    ASSUME NEW s \in Machine, NEW t, Ready(t, s)
    PROVE  Ready(Mode(PowerOn_key(t), "firmware"), s)
<1> DEFINE u == Mode(PowerOn_key(t), "firmware")
<1>1. Underway(u, s) /\ u.Main_status = "firmware" /\ u.stm32 # "off"
  BY UnderwayReady, PowerOn_keyUnderway, ModeUnderway DEF Modes, SamePower
<1> HIDE DEF u
<1> QED
  BY <1>1 DEF Underway, Ready, Sound, Powered, Untouched, SameKey, u

(* Every command of the phone, in every mode.                              *)
LEMMA BluetoothWorkReady ==
    ASSUME NEW c \in AllCommands, NEW s \in Machine, Powered(s)
    PROVE  Ready(BluetoothWork(c, s), s)
<1> DEFINE t == Stop3(s)
           exit == TimeDisplay(PowerCycle(t))
<1>1. Ready(t, s)
  BY ReadySame, Stop3Ready
<1> HIDE DEF t
<1>2. Ready(exit, s)
  BY <1>1, UnderwayReady, PowerCycleUnderway, TimeDisplayReady
<1>3. \A u : Ready(u, s) => /\ Ready(Send_bluetoothdata(u), s)
                            /\ Ready([u EXCEPT !.Apdu = TRUE], s)
  BY PlainReady DEF Send_bluetoothdata
<1>4. c = "setup_time" => Ready(BluetoothWork(c, s), s)
  BY <1>1, <1>3, setup_time_fReady DEF BluetoothWork, t
<1>5. c = "setup_timeout" => Ready(BluetoothWork(c, s), s)
  BY <1>1, <1>3, Start3Ready DEF BluetoothWork, t
<1>15. c = "setup_timeout_0" => Ready(BluetoothWork(c, s), s)
  BY <1>1 DEF BluetoothWork, t
<1>6. c = "setup_turnoff" => Ready(BluetoothWork(c, s), s)
  BY <1>1, <1>3, setup_turnoff_fReady DEF BluetoothWork, t
<1>7. c = "setup_other" => Ready(BluetoothWork(c, s), s)
  BY <1>1, <1>3 DEF BluetoothWork, t
<1>8. c = "download_start" => Ready(BluetoothWork(c, s), s)
  BY <1>1, <1>3, DownloadStartReady DEF BluetoothWork, t
<1>9. c = "download_apdu" => Ready(BluetoothWork(c, s), s)
  BY <1>1, <1>3 DEF BluetoothWork, t
<1>10. c = "key_apdu" => Ready(BluetoothWork(c, s), s)
  BY <1>1, <1>3 DEF BluetoothWork, t
<1>11. c = "download_exit" => Ready(BluetoothWork(c, s), s)
  BY <1>1, <1>2, <1>3 DEF BluetoothWork, t, exit
<1>12. c = "key_on" => Ready(BluetoothWork(c, s), s)
  BY <1>1, <1>3, KeyOnReady DEF BluetoothWork, t
<1>13. c = "key_off" => Ready(BluetoothWork(c, s), s)
  BY <1>1, <1>3, KeyOnReady DEF BluetoothWork, t
<1>14. c = "signed" => Ready(BluetoothWork(c, s), s)
  BY <1>1, SignedReady DEF BluetoothWork, t
<1> QED
  BY <1>4, <1>5, <1>6, <1>7, <1>8, <1>9, <1>10, <1>11, <1>12,
     <1>13, <1>14, <1>15
     DEF AllCommands

-----------------------------------------------------------------------------
(* The steps: of main, of the timers' events, and of what is around.       *)

(* What is shown, and whether the STM32 has power, stays as it is.         *)
Showing(t, s) ==
    /\ t.Main_status = s.Main_status /\ t.stm32 = s.stm32 /\ t.told = s.told
    /\ t.uart_send_flag = s.uart_send_flag /\ t.command = s.command

(* Then what the turn is owed stays as well.                               *)
LEMMA ShowingStep ==
    ASSUME IInv, Showing(m', m), UNCHANGED turn
    PROVE  LateOff' /\ Sent'
BY DEF IInv, Showing, turn, LateOff, Sent, Shown, TellingOf

(* Right stays right.                                                      *)
LEMMA ShowingShown ==
    ASSUME NEW t, NEW s, Showing(t, s), Shown(s)
    PROVE  Shown(t)
BY DEF Showing, Shown, TellingOf

(* What the handlers are made of, and what it leaves as it was.            *)
LEMMA ShowingParts ==
    ASSUME NEW s \in Machine
    PROVE  /\ Showing(Stop3(s), s) /\ Showing(Start3(s), s) /\ Showing(Open3(s), s)
           /\ Showing(Stop1(s), s) /\ Showing(Start1(s), s)
           /\ Showing(Key(s), s) /\ Showing(WorkKey(s), s)
           /\ Showing(Send_bluetoothdata(s), s) /\ Showing([s EXCEPT !.Apdu = TRUE], s)
           /\ Showing([s EXCEPT !.Ble_Auth = FALSE], s)
           /\ Showing([s EXCEPT !.Time_stuts = "time"], s)
           /\ Showing([s EXCEPT !.KEYwork_flag = TRUE], s)
<1>1. /\ Showing(Stop3(s), s) /\ Showing(Start3(s), s) /\ Showing(Open3(s), s)
      /\ Showing(Stop1(s), s) /\ Showing(Start1(s), s)
  BY Stop3Result, Start3Result, Open3Result, Stop1Result, Start1Result
     DEF Showing, SameMode, SamePower, SameShown
<1>2. Showing(Key(s), s) /\ Showing(WorkKey(s), s)
  BY KeyResult, WorkKeyResult DEF Showing, SameMode, SamePower, SameShown
<1>3. /\ Showing(Send_bluetoothdata(s), s) /\ Showing([s EXCEPT !.Apdu = TRUE], s)
      /\ Showing([s EXCEPT !.Ble_Auth = FALSE], s)
      /\ Showing([s EXCEPT !.Time_stuts = "time"], s)
      /\ Showing([s EXCEPT !.KEYwork_flag = TRUE], s)
  BY DEF Machine, Send_bluetoothdata, Showing
<1> QED
  BY <1>1, <1>2, <1>3

(* No command but setup_turnoff takes the power from the STM32.            *)
LEMMA CommandPower ==
    ASSUME NEW c \in AllCommands, c # "setup_turnoff", NEW s \in Machine, Powered(s),
           s.stm32 # "off"
    PROVE  BluetoothWork(c, s).stm32 # "off"
<1> DEFINE t == Stop3(s)
           cycled == PowerCycle(t)
           low == [t EXCEPT !.pin29 = "L"]
           load == PowerOn_key(low)
           run == PowerOn_key(t)
           taken == Mode(cycled, "blekey")
           key == Tell(taken, "bluekey")
<1>1. /\ t \in Machine /\ t.stm32 # "off" /\ (t.Ack_recive_enable => t.stm32 # "off")
      /\ Start3(t) \in Machine /\ Start3(t).stm32 # "off"
  <2>1. t \in Machine /\ t.stm32 # "off"
    BY Stop3Result DEF SamePower
  <2> HIDE DEF t
  <2>2. Start3(t) \in Machine /\ Start3(t).stm32 # "off"
    BY <2>1, Start3Result DEF SamePower
  <2> QED
    BY <2>1, <2>2
<1> HIDE DEF t
<1>2. /\ cycled \in Machine /\ cycled.stm32 # "off"
      /\ run \in Machine /\ run.stm32 # "off"
  BY <1>1, PowerCycleResult, PowerOn_keyResult
<1>3. load \in Machine /\ load.stm32 # "off"
  BY <1>1, PinResult, PowerOn_keyResult DEF SamePower
<1> HIDE DEF cycled, load, run
<1>4. /\ TimeDisplay(t) \in Machine /\ TimeDisplay(t).stm32 # "off"
      /\ TimeDisplay(cycled) \in Machine /\ TimeDisplay(cycled).stm32 # "off"
  BY <1>1, <1>2, TimeDisplayResult DEF SamePower
<1>5. /\ Mode(run, "firmware") \in Machine /\ Mode(run, "firmware").stm32 # "off"
      /\ Mode(load, "download") \in Machine /\ Mode(load, "download").stm32 # "off"
      /\ taken \in Machine /\ taken.stm32 # "off"
  BY <1>2, <1>3, ModeResult DEF SamePower, Modes
<1> HIDE DEF taken
<1>6. key \in Machine /\ key.stm32 # "off"
  BY <1>5, TellResult DEF SamePower, Told
<1> HIDE DEF key
<1>7. \A u \in Machine : u.stm32 # "off" =>
          /\ Send_bluetoothdata(u).stm32 # "off" /\ [u EXCEPT !.Apdu = TRUE].stm32 # "off"
          /\ [u EXCEPT !.KEYwork_flag = TRUE] \in Machine
          /\ [u EXCEPT !.KEYwork_flag = TRUE].stm32 # "off"
          /\ [u EXCEPT !.Time_stuts = "time"] \in Machine
          /\ [u EXCEPT !.Time_stuts = "time"].stm32 # "off"
  BY ShowingParts, MachinePut DEF Showing, Screens
<1>8. setup_time_f(t) \in Machine /\ setup_time_f(t).stm32 # "off"
  <2>1. setup_time_f(t) =
            IF t.Main_status # "timedisplay" /\ ~ t.Ack_recive_enable
            THEN TimeDisplay(IF t.stm32 = "off" THEN PowerOnApp(t) ELSE t)
            ELSE IF t.stm32 = "off" THEN PowerOnApp(t) ELSE t
    BY DEF setup_time_f
  <2>2. (IF t.stm32 = "off" THEN PowerOnApp(t) ELSE t) = t
    BY <1>1
  <2>3. setup_time_f(t) \in {TimeDisplay(t), t}
    BY <2>1, <2>2
  <2> QED
    BY <1>1, <1>4, <2>3
<1>9. DownloadStart(t) \in Machine /\ DownloadStart(t).stm32 # "off"
  BY <1>1, <1>5, <1>7 DEF DownloadStart, load
<1>10. KeyOn(t).stm32 # "off" /\ KeyOff(t) \in Machine /\ KeyOff(t).stm32 # "off"
  BY <1>4, <1>6, <1>7 DEF KeyOn, KeyOff, key, taken, cycled
<1>11. t.stm32 # "off" /\ [t EXCEPT !.Apdu = TRUE].stm32 # "off"
  BY <1>1, <1>7
<1>12. /\ Send_bluetoothdata(t).stm32 # "off"
       /\ Send_bluetoothdata(Start3(t)).stm32 # "off"
       /\ Send_bluetoothdata(setup_time_f(t)).stm32 # "off"
       /\ Send_bluetoothdata(DownloadStart(t)).stm32 # "off"
       /\ Send_bluetoothdata(TimeDisplay(PowerCycle(t))).stm32 # "off"
       /\ Send_bluetoothdata(KeyOff(t)).stm32 # "off"
  BY <1>1, <1>4, <1>7, <1>8, <1>9, <1>10 DEF cycled
<1>13. Mode(PowerOn_key(t), "firmware").stm32 # "off"
  BY <1>5 DEF run
<1> HIDE DEF Send_bluetoothdata
<1> QED
  BY <1>10, <1>11, <1>12, <1>13 DEF BluetoothWork, AllCommands, t

(* A step that is right about what the handlers share keeps the invariant. *)
LEMMA RightStep ==
    ASSUME IInv, Right(m', m), UNCHANGED <<finger, plug, touches>>,
           queued' \in Modes, cmd' \in AllCommands \cup {"none"},
           pc' \in {"loop", "command", "uart", "mode"}, LateOff', Sent'
    PROVE  IInv'
<1>1. m' \in Machine /\ Powered(m)' /\ (Untouched(m) => Untouched(m)')
  BY DEF Right, Sound, Powered, Untouched
<1>2. ShownUntouched'
  BY <1>1 DEF IInv, ShownUntouched
<1>3. KeyOwed'
  <2>1. m.worked \in Nat /\ touches \in Nat /\ m'.worked \in Nat
    BY <1>1 DEF IInv, Machine
  <2>2. CASE SameKey(m', m)
    BY <2>1, <2>2 DEF IInv, KeyOwed, Owed, SameKey
  <2>3. CASE KeyWorked(m', m) /\ m'.worked = m.worked
    BY <2>1, <2>3 DEF IInv, KeyOwed, Owed, KeyWorked
  <2>4. CASE KeyWorked(m', m) /\ m.touch_key # "NO" /\ m'.worked = m.worked + 1
    BY <2>1, <2>4 DEF IInv, KeyOwed, Owed, KeyWorked
  <2> QED
    BY <2>2, <2>3, <2>4 DEF Right, KeyStep
<1> QED
  BY <1>1, <1>2, <1>3 DEF IInv

(* The same for a step that leaves the key alone.                          *)
LEMMA ReadyStep ==
    ASSUME IInv, Ready(m', m), UNCHANGED <<finger, plug, touches>>,
           queued' \in Modes, cmd' \in AllCommands \cup {"none"},
           pc' \in {"loop", "command", "uart", "mode"}, LateOff', Sent'
    PROVE  IInv'
BY ReadyRight, RightStep

(* It holds when INIT() is done.                                           *)
LEMMA InitIInv == Init => IInv
<1> SUFFICES ASSUME Init PROVE IInv
  OBVIOUS
<1>1. PICK pin \in {"H", "L"} : m = Start(pin)
  BY DEF Init
<1>2. 0 \in 0 .. MaxWaits
  BY AppModeAssumption
<1>3. m \in Machine
  BY <1>1, <1>2 DEF Start, Machine, Modes, TimerFlags, Screens, Told
<1>4. Powered(m) /\ Untouched(m)
  BY <1>1 DEF Start, Powered, Untouched
<1>5. KeyOwed /\ LateOff /\ Sent
  BY <1>1 DEF Init, Start, KeyOwed, Owed, LateOff, Sent
<1> QED
  BY <1>3, <1>4, <1>5 DEF Init, IInv, ShownUntouched, Modes

(* main_loop().                                                            *)
LEMMA TurnBeginsStep == IInv /\ TurnBegins => IInv'
<1> SUFFICES ASSUME IInv, TurnBegins PROVE IInv'
  OBVIOUS
<1> DEFINE s == [m EXCEPT !.reply = FALSE]
<1>1. m \in Machine /\ Powered(m)
  BY DEF IInv
<1>2. Ready(s, m)
  BY <1>1, ReadySame, PlainReady
<1>3. m' \in {s, Stop3(s)}
  BY DEF TurnBegins
<1>7. s \in Machine /\ s.stm32 = m.stm32
  BY <1>1 DEF Machine
<1> HIDE DEF s
<1>4. Ready(m', m)
  BY <1>1, <1>2, <1>3, Stop3Ready
<1>5. m'.stm32 = m.stm32
  BY <1>3, <1>7, Stop3Result DEF SamePower
<1>6. LateOff' /\ Sent'
  BY <1>1, <1>5 DEF TurnBegins, LateOff, Sent, Powered
<1> QED
  BY <1>1, <1>4, <1>6, ReadyStep DEF TurnBegins, Machine, world, counters

(* Bluetooth_CmdProcess() with a command.                                  *)
LEMMA TurnCommandStep == IInv /\ TurnCommand => IInv'
<1> SUFFICES ASSUME IInv, TurnCommand PROVE IInv'
  OBVIOUS
<1>1. PICK c \in Commands : cmd' = c /\ m' = BluetoothWork(c, m)
  BY DEF TurnCommand
<1>2. c \in AllCommands
  BY AppModeAssumption
<1>3. Ready(m', m)
  BY <1>1, <1>2, BluetoothWorkReady DEF IInv
<1>4. LateOff' /\ Sent'
  BY <1>1, <1>2, CommandPower DEF TurnCommand, IInv, LateOff, Sent
<1> QED
  BY <1>1, <1>2, <1>3, <1>4, ReadyStep DEF TurnCommand, IInv, world

(* An acknowledgement is waited for only where the STM32 has power.        *)
LEMMA UartPasses ==
    ASSUME IInv, TurnUart
    PROVE  /\ Ready(m', m) /\ m'.stm32 = m.stm32 /\ m'.Main_status = m.Main_status
           /\ m'.stm32 # "off" => m'.told = TellingOf(m')
           /\ TellingOf(m') = TellingOf(m)
<1> DEFINE phones == m.Main_status \in {"blekey", "download"}
           s == IF phones THEN Stop3(m) ELSE m
           told == IF m.command = "apdu" THEN s.told ELSE m.command
           sent == [s EXCEPT !.uart_send_flag = FALSE, !.Ack_recive_enable = TRUE,
                             !.told = told]
<1>1. m \in Machine /\ Powered(m) /\ Ready(m, m)
  BY ReadySame DEF IInv
<1> DEFINE Passed == /\ Ready(m', m) /\ m'.stm32 = m.stm32
                     /\ m'.Main_status = m.Main_status
                     /\ m'.stm32 # "off" => m'.told = TellingOf(m')
                     /\ TellingOf(m') = TellingOf(m)
<1>2. ASSUME m' = m, m.stm32 = "off" \/ ~ m.uart_send_flag
      PROVE  Passed
  BY <1>1, <1>2 DEF TellingOf
<1>3. ASSUME m.stm32 # "off", m.uart_send_flag, m' = sent
      PROVE  Passed
  <2>1. /\ Ready(s, m) /\ s.stm32 = m.stm32 /\ s.Main_status = m.Main_status
        /\ s.told = m.told /\ s.command = m.command
    BY <1>1, Stop3Ready, Stop3Result DEF SamePower, SameMode, SameShown
  <2>2. told \in Told /\ told = TellingOf(m)
    BY <1>1, <1>3, <2>1 DEF Machine, TellingOf
  <2>3. told = m.command \/ m.command = "apdu"
    OBVIOUS
  <2> HIDE DEF s, told
  <2>4. sent \in Machine
    BY <2>1, <2>2, MachinePut DEF Ready, Sound
  <2>5. /\ sent.stm32 = m.stm32 /\ sent.Main_status = m.Main_status
        /\ sent.told = told /\ sent.uart_send_flag = FALSE /\ sent.command = m.command
    BY <2>1 DEF Ready, Sound, Machine
  <2>6. Powered(sent)
    BY <1>3, <2>1, <2>3, <2>5 DEF Ready, Sound, Machine, Powered
  <2>7. SameKey(sent, m) /\ (Untouched(m) => Untouched(sent))
    BY <2>1 DEF Ready, Sound, Machine, Untouched, SameKey
  <2> HIDE DEF sent
  <2> QED
    BY <1>3, <2>2, <2>4, <2>5, <2>6, <2>7 DEF Ready, Sound, TellingOf
<1>4. ASSUME NEW acked \in BOOLEAN, ~ m.uart_send_flag,
             m' = [m EXCEPT !.Ack_recive_enable = FALSE, !.waits = 0,
                            !.reply = @ \/ (phones /\ acked)]
      PROVE  Passed
  <2> DEFINE reply == m.reply \/ (phones /\ acked)
             t == [m EXCEPT !.Ack_recive_enable = FALSE, !.waits = 0, !.reply = reply]
  <2>1. reply \in BOOLEAN /\ 0 \in 0 .. MaxWaits
    BY <1>1, AppModeAssumption DEF Machine
  <2>2. m' = t
    BY <1>4
  <2> HIDE DEF reply
  <2>3. t \in Machine
    BY <1>1, <2>1, MachinePut
  <2>4. Powered(t)
    BY <1>1 DEF Machine, Powered
  <2>5. SameKey(t, m) /\ (Untouched(m) => Untouched(t))
    BY <1>1 DEF Machine, Untouched, SameKey
  <2>6. Showing(t, m)
    BY <1>1 DEF Machine, Showing
  <2> HIDE DEF t
  <2> QED
    BY <1>4, <2>2, <2>3, <2>4, <2>5, <2>6 DEF Ready, Sound, Showing, TellingOf
<1>5. ASSUME m.waits < MaxWaits, NEW again \in BOOLEAN, ~ m.uart_send_flag,
             m.Ack_recive_enable,
             m' = [m EXCEPT !.waits = @ + 1, !.uart_send_flag = again]
      PROVE  Passed
  <2>1. m.waits + 1 \in 0 .. MaxWaits
    BY <1>1, <1>5, AppModeAssumption DEF Machine
  <2>2. m' \in Machine
    BY <1>1, <1>5, <2>1, MachinePut
  <2>3. Powered(m')
    BY <1>1, <1>5 DEF Machine, Powered
  <2>4. SameKey(m', m) /\ (Untouched(m) => Untouched(m'))
    BY <1>1, <1>5 DEF Machine, Untouched, SameKey
  <2>5. /\ m'.stm32 = m.stm32 /\ m'.Main_status = m.Main_status
        /\ m'.told = m.told /\ m'.command = m.command
    BY <1>1, <1>5 DEF Machine
  <2>6. m.command \in {"apdu", m.told}
    BY <1>1, <1>5 DEF Powered
  <2> QED
    BY <1>5, <2>2, <2>3, <2>4, <2>5, <2>6 DEF Ready, Sound, TellingOf
<1> QED
  BY <1>1, <1>2, <1>3, <1>4, <1>5 DEF TurnUart, UartDataSendrecive

(* What is shown was sent when the handler runs.                           *)
LEMMA TurnUartStep == IInv /\ TurnUart => IInv'
<1> SUFFICES ASSUME IInv, TurnUart PROVE IInv'
  OBVIOUS
<1>1. LateOff' /\ Sent'
  BY UartPasses DEF TurnUart, IInv, LateOff, Sent, Shown
<1> QED
  BY <1>1, UartPasses, ReadyStep DEF TurnUart, IInv, world, counters

(* The handler of the mode the turn began in.                              *)
LEMMA TurnModeStep == IInv /\ TurnMode => IInv'
<1> SUFFICES ASSUME IInv, TurnMode PROVE IInv'
  OBVIOUS
<1>1. Right(m', m)
  BY HandlerRight DEF TurnMode, IInv
<1> QED
  BY <1>1, RightStep DEF TurnMode, IInv, world, counters, LateOff, Sent

(* ReadAdc(): the passkey is shown, in any mode that is not the phone's.   *)
LEMMA PasskeyShown ==
    ASSUME IInv, ReadAdc
    PROVE  /\ Ready(m', m)
           /\ \/ Showing(m', m)
              \/ /\ m'.Main_status = "ParingDis" /\ m'.stm32 # "off"
                 /\ m'.uart_send_flag = TRUE /\ m'.command = "paring"
<1> DEFINE on == IF m.stm32 = "off" THEN PowerOnApp(m) ELSE m
           closed == Stop3(on)
           stopped == Stop1(closed)
           told == Tell(stopped, "paring")
           shown == [told EXCEPT !.Time_stuts = "time", !.Main_status = "ParingDis"]
           on2 == IF m.Main_status \in {"download", "blekey"} THEN m ELSE shown
<1>1. m \in Machine /\ Powered(m) /\ Ready(m, m)
  BY ReadySame DEF IInv
<1>2. Underway(on, m) /\ on.stm32 # "off"
  BY <1>1, UnderwayReady, PowerOnAppUnderway
<1> HIDE DEF on
<1>3. /\ closed \in Machine /\ closed.Timeout3Sec = "TimeClose" /\ closed.running3 = FALSE
      /\ SameTimer1(closed, on) /\ SamePower(closed, on)
      /\ SameShown(closed, on) /\ SameKey(closed, on)
  BY <1>2, Stop3Result DEF Underway
<1> HIDE DEF closed
<1>4. /\ stopped \in Machine /\ stopped.Timeout1Sec = "TimeClose"
      /\ stopped.running1 = FALSE
      /\ SameTimer3(stopped, closed) /\ SamePower(stopped, closed)
      /\ SameShown(stopped, closed) /\ SameKey(stopped, closed)
  BY <1>3, Stop1Result
<1> HIDE DEF stopped
<1>5. Underway(stopped, m) /\ stopped.stm32 # "off"
  BY <1>2, <1>3, <1>4
     DEF Underway, SameTimer3, SameTimer1, SamePower, SameShown, SameKey
<1>6. "paring" \in Told
  BY DEF Told
<1>7. /\ told \in Machine /\ told.uart_send_flag = TRUE /\ told.command = "paring"
      /\ SameTimers(told, stopped) /\ SamePower(told, stopped) /\ SameKey(told, stopped)
  BY <1>5, <1>6, TellResult DEF Underway
<1> HIDE DEF told
<1>8. "time" \in Screens /\ "ParingDis" \in Modes
  BY DEF Screens, Modes
<1>9. /\ shown \in Machine
      /\ shown.uart_send_flag = TRUE /\ shown.command = "paring"
      /\ shown.Main_status = "ParingDis" /\ shown.Time_stuts = "time"
  <2>1. shown \in Machine
    BY <1>7, <1>8, MachinePut
  <2> QED
    BY <1>7, <2>1 DEF Machine
<1>10. SameTimers(shown, told) /\ SamePower(shown, told) /\ SameKey(shown, told)
  BY <1>7 DEF Machine, SameTimers, SameTimer3, SameTimer1, SamePower, SameKey
<1> HIDE DEF shown
<1>11. Powered(shown) /\ shown.stm32 # "off"
  BY <1>5, <1>7, <1>9, <1>10
     DEF Underway, Powered, SameTimers, SameTimer3, SameTimer1, SamePower
<1>12. SameKey(shown, m) /\ (Untouched(m) => Untouched(shown))
  BY <1>5, <1>7, <1>9, <1>10 DEF Underway, Untouched, SameKey
<1>13. Ready(on2, m)
  BY <1>1, <1>9, <1>11, <1>12 DEF Ready, Sound
<1>14. m' = [on2 EXCEPT !.ParingData = FALSE]
  BY DEF ReadAdc, on, closed, stopped, told, shown
<1>16. m.Main_status \in {"download", "blekey"} => Showing(m', m)
  BY <1>1, <1>14 DEF Machine, Showing
<1>17. m.Main_status \notin {"download", "blekey"} =>
           /\ m'.Main_status = "ParingDis" /\ m'.stm32 # "off"
           /\ m'.uart_send_flag = TRUE /\ m'.command = "paring"
  BY <1>9, <1>11, <1>14 DEF Machine
<1> HIDE DEF on2
<1>15. Ready(m', m)
  <2>1. Ready([on2 EXCEPT !.ParingData = FALSE], m)
    BY <1>1, <1>13, PlainReady
  <2> QED
    BY <1>14, <2>1
<1> QED
  BY <1>15, <1>16, <1>17

(* The passkey's mode has power, and its command is not sent yet.          *)
LEMMA ReadAdcStep == IInv /\ ReadAdc => IInv'
<1> SUFFICES ASSUME IInv, ReadAdc PROVE IInv'
  OBVIOUS
<1>1. LateOff' /\ Sent'
  BY PasskeyShown, ShowingStep DEF ReadAdc, turn, IInv, LateOff, Sent
<1> QED
  BY <1>1, PasskeyShown, ReadyStep DEF ReadAdc, IInv, turn, world, counters

(* debug_wangnan() and the timers' interrupts.                             *)
LEMMA TimerStep ==
    IInv /\ (debug_wangnan \/ TimeOutMain_handler \/ TimeOut1sec_handler
             \/ timer_touchkey_handler) => IInv'
<1> SUFFICES ASSUME IInv,
                    debug_wangnan \/ TimeOutMain_handler \/ TimeOut1sec_handler
                    \/ timer_touchkey_handler
             PROVE  IInv'
  OBVIOUS
<1>1. m \in Machine /\ Powered(m) /\ plug \in BOOLEAN
  BY DEF IInv
<1>2. ASSUME debug_wangnan PROVE Ready(m', m)
  <2> DEFINE changed == plug # m.USB_connect
  <2>1. changed \in BOOLEAN /\ m' = [m EXCEPT !.USB_Changed = changed, !.USB_connect = plug]
    BY <1>2 DEF debug_wangnan
  <2> HIDE DEF changed
  <2>2. m' \in Machine
    BY <1>1, <2>1, MachinePut
  <2>3. Powered(m') /\ SameKey(m', m)
    BY <1>1, <2>1 DEF Machine, Powered, SameKey
  <2>4. Untouched(m) => Untouched(m')
    BY <1>1, <2>1 DEF Machine, Untouched
  <2> QED
    BY <2>2, <2>3, <2>4 DEF Ready, Sound
<1>3. ASSUME TimeOutMain_handler PROVE Ready(m', m)
  <2>1. m' = [m EXCEPT !.running3 = FALSE, !.Timeout3Sec = "TimeOut"]
    BY <1>3 DEF TimeOutMain_handler
  <2>2. m' \in Machine
    BY <1>1, <2>1, MachinePut DEF TimerFlags
  <2>3. Powered(m') /\ SameKey(m', m)
    BY <1>1, <2>1 DEF Machine, Powered, SameKey
  <2>4. Untouched(m) => Untouched(m')
    BY <1>1, <2>1 DEF Machine, Untouched
  <2> QED
    BY <2>2, <2>3, <2>4 DEF Ready, Sound
<1>4. ASSUME TimeOut1sec_handler PROVE Ready(m', m)
  <2>1. m' = [m EXCEPT !.running1 = FALSE, !.Timeout1Sec = "TimeOut"]
    BY <1>4 DEF TimeOut1sec_handler
  <2>2. m' \in Machine
    BY <1>1, <2>1, MachinePut DEF TimerFlags
  <2>3. Powered(m') /\ SameKey(m', m)
    BY <1>1, <2>1 DEF Machine, Powered, SameKey
  <2>4. Untouched(m) => Untouched(m')
    BY <1>1, <2>1 DEF Machine, Untouched
  <2> QED
    BY <2>2, <2>3, <2>4 DEF Ready, Sound
<1>5. ASSUME timer_touchkey_handler PROVE Ready(m', m)
  <2>1. m' = [m EXCEPT !.Touch_timercount = 1]
    BY <1>5 DEF timer_touchkey_handler
  <2> QED
    BY <1>1, <2>1 DEF Machine, Powered, Untouched, SameKey, Ready, Sound
<1>6. Ready(m', m)
  BY <1>2, <1>3, <1>4, <1>5
<1>7. LateOff' /\ Sent'
  <2>1. Showing(m', m)
    BY <1>1 DEF debug_wangnan, TimeOutMain_handler, TimeOut1sec_handler,
                timer_touchkey_handler, Machine, Showing
  <2> QED
    BY <2>1, ShowingStep DEF debug_wangnan, TimeOutMain_handler, TimeOut1sec_handler,
                             timer_touchkey_handler
<1> QED
  BY <1>6, <1>7, ReadyStep
     DEF debug_wangnan, TimeOutMain_handler, TimeOut1sec_handler, timer_touchkey_handler,
         IInv, turn, world, counters

(* The sensor: a touch is owed its work from the finger's contact on.      *)
LEMMA Read_CapKeyStep == IInv /\ Read_CapKey => IInv'
<1> SUFFICES ASSUME IInv, Read_CapKey PROVE IInv'
  OBVIOUS
<1>1. m \in Machine /\ Powered(m) /\ MaxWaits \in Nat
  BY AppModeAssumption DEF IInv
<1>2. UNCHANGED <<turn, world, counters>>
  BY DEF Read_CapKey
<1>5. LateOff' /\ Sent'
  <2>1. Showing(m', m)
    BY <1>1 DEF Read_CapKey, Touched, Released, Machine, Showing
  <2> QED
    BY <1>2, <2>1, ShowingStep
<1>3. CASE finger /\ m' = Touched(m)
  <2>1. touches # 0
    BY <1>3 DEF IInv, ShownUntouched
  <2>2. m' \in Machine
    BY <1>1, <1>3, MachinePut DEF Touched
  <2>3. Powered(m)'
    BY <1>1, <1>3 DEF Touched, Machine, Powered
  <2>4. m'.worked = m.worked /\ m'.KeyWorkflag = m.KeyWorkflag
    BY <1>1, <1>3 DEF Touched, Machine
  <2>5. m.KeyWorkflag => m' = m
    BY <1>3 DEF Touched
  <2>6. KeyOwed'
    <3>1. CASE m.KeyWorkflag
      BY <1>2, <2>5, <3>1 DEF IInv, KeyOwed, Owed, world, counters
    <3>2. CASE ~ m.KeyWorkflag
      BY <1>2, <1>3, <2>4, <3>2 DEF IInv, KeyOwed, Owed, world, counters
    <3> QED
      BY <3>1, <3>2
  <2> QED
    BY <1>2, <1>5, <2>1, <2>2, <2>3, <2>6 DEF IInv, ShownUntouched, turn, world, counters
<1>4. CASE ~ finger /\ m' = Released(m)
  <2> DEFINE key == IF /\ m.Main_status \notin {"download", "blekey"}
                       /\ m.touch_key_flag /\ ~ m.KeyWorkflag
                    THEN "KEY_1" ELSE m.touch_key
  <2>1. m' = [m EXCEPT !.touch_key = key, !.KeepTouch = FALSE, !.touch_key_flag = FALSE,
                       !.KeyWorkflag = FALSE]
    BY <1>4 DEF Released
  <2>2. key \in {"NO", "KEY_1", "LongTouch"}
    BY <1>1 DEF Machine
  <2>3. key = m.touch_key \/ (key = "KEY_1" /\ m.touch_key_flag /\ ~ m.KeyWorkflag)
    OBVIOUS
  <2> HIDE DEF key
  <2>4. m' \in Machine
    BY <1>1, <2>1, <2>2, MachinePut
  <2>5. Powered(m)'
    BY <1>1, <2>1 DEF Machine, Powered
  <2>6. /\ m'.touch_key = key /\ m'.touch_key_flag = FALSE /\ m'.KeyWorkflag = FALSE
        /\ m'.worked = m.worked
    BY <1>1, <2>1 DEF Machine
  <2>7. SameMode(m', m) /\ SameShown(m', m)
    BY <1>1, <2>1 DEF Machine, SameMode, SameShown
  <2>8. KeyOwed'
    <3>1. m.worked \in Nat /\ touches \in Nat /\ touches' = touches /\ finger' = finger
      BY <1>1, <1>2 DEF IInv, Machine, world, counters
    <3>2. CASE m.KeyWorkflag
      BY <1>4, <2>3, <2>6, <3>1, <3>2 DEF IInv, KeyOwed, Owed
    <3>3. CASE ~ m.KeyWorkflag
      BY <1>4, <2>3, <2>6, <3>1, <3>3 DEF IInv, KeyOwed, Owed
    <3> QED
      BY <3>2, <3>3
  <2>9. ShownUntouched'
    BY <1>2, <1>4, <2>3, <2>6, <2>7
       DEF IInv, ShownUntouched, Untouched, SameMode, SameShown, world, counters
  <2> QED
    BY <1>2, <1>5, <2>4, <2>5, <2>8, <2>9 DEF IInv, turn, world, counters
<1> QED
  BY <1>3, <1>4 DEF Read_CapKey

(* What happens around the device.                                         *)
LEMMA EnvironmentStep == IInv /\ Environment => IInv'
<1> SUFFICES ASSUME IInv, Environment PROVE IInv'
  OBVIOUS
<1>1. m \in Machine /\ Powered(m) /\ Ready(m, m)
  BY ReadySame DEF IInv
<1>7. LateOff' /\ Sent'
  <2>1. Showing(m', m)
    BY <1>1 DEF Environment, Touch, Release, Plug, Connect, Disconnect, PasskeyDisplay,
                AuthStatus, Machine, Showing
  <2>2. UNCHANGED turn
    BY DEF Environment, Touch, Release, Plug, Connect, Disconnect, PasskeyDisplay, AuthStatus
  <2> QED
    BY <2>1, <2>2, ShowingStep
<1>2. CASE Touch
  <2>1. m.worked \in Nat /\ touches \in Nat
    BY <1>1 DEF IInv, Machine
  <2>2. m' = m /\ touches' = touches + 1 /\ finger' = TRUE
    BY <1>2 DEF Touch
  <2>3. KeyOwed'
    BY <2>1, <2>2 DEF IInv, KeyOwed, Owed
  <2>4. ShownUntouched'
    BY <2>1, <2>2 DEF IInv, ShownUntouched
  <2> QED
    BY <1>2, <1>7, <2>2, <2>3, <2>4 DEF Touch, IInv, turn
<1>3. CASE Release
  <2>1. m.worked \in Nat /\ touches \in Nat
    BY <1>1 DEF IInv, Machine
  <2>2. m' = m /\ touches' = touches /\ finger /\ finger' = FALSE
    BY <1>3 DEF Release, counters
  <2>3. KeyOwed'
    BY <2>1, <2>2 DEF IInv, KeyOwed, Owed
  <2>4. ShownUntouched'
    BY <2>2 DEF IInv, ShownUntouched
  <2> QED
    BY <1>3, <1>7, <2>2, <2>3, <2>4 DEF Release, IInv, turn
<1>4. CASE Plug
  BY <1>4, <1>7 DEF Plug, IInv, KeyOwed, ShownUntouched, turn
<1>5. CASE Connect
  BY <1>5, <1>7 DEF Connect, IInv, KeyOwed, ShownUntouched, turn
<1>6. ASSUME Disconnect \/ PasskeyDisplay \/ AuthStatus
      PROVE  IInv'
  <2>1. Ready(m', m)
    BY <1>1, <1>6, PlainReady DEF Disconnect, PasskeyDisplay, AuthStatus
  <2> QED
    BY <1>6, <1>7, <2>1, ReadyStep
       DEF Disconnect, PasskeyDisplay, AuthStatus, IInv, turn, world, counters
<1> QED
  BY <1>2, <1>3, <1>4, <1>5, <1>6 DEF Environment

(* Every step keeps it.                                                    *)
LEMMA NextIInv == IInv /\ [Next]_vars => IInv'
<1> SUFFICES ASSUME IInv, [Next]_vars PROVE IInv'
  OBVIOUS
<1>1. CASE TurnNoCommand
  BY <1>1 DEF TurnNoCommand, IInv, KeyOwed, ShownUntouched, world, counters, LateOff, Sent
<1>2. CASE UNCHANGED vars
  BY <1>2 DEF vars, IInv, KeyOwed, ShownUntouched, turn, world, counters, LateOff, Sent
<1>3. CASE Turn
  BY <1>1, <1>3, TurnBeginsStep, TurnCommandStep, TurnUartStep, TurnModeStep DEF Turn
<1> QED
  BY <1>2, <1>3, Read_CapKeyStep, ReadAdcStep, TimerStep, EnvironmentStep DEF Next

(* The inductive invariant holds in every state.                           *)
THEOREM Invariance == Spec => []IInv
BY InitIInv, NextIInv, PTL DEF Spec

(* In mode closeoled the STM32 has no power, in mode download it runs its  *)
(* loader, and every variable has its type: for any number of commands,    *)
(* touches, plugs, connections and pairings.                               *)
THEOREM PowerAlwaysRight == Spec => []PowerRight
<1>1. IInv => PowerRight
  BY DEF IInv, PowerRight, TypeOK, OffUnpowered, DownloadUpdates, Machine, Powered
<1> QED
  BY <1>1, Invariance, PTL

(* A touch is worked once at most.                                         *)
THEOREM KeyWorkedOnce == Spec => []WorkedOnce
<1>1. IInv => WorkedOnce
  BY DEF IInv, KeyOwed, Owed, WorkedOnce, Machine
<1> QED
  BY <1>1, Invariance, PTL

-----------------------------------------------------------------------------
(* What is shown: from right to right, step by step.                       *)

(* The STM32 is told what its mode shows.                                  *)
LEMMA TellShown ==
    ASSUME NEW s \in Machine, NEW what \in Told, Fits(s.Main_status, what),
           s.stm32 # "off"
    PROVE  Shown(Tell(s, what))
<1>1. what # "apdu"
  BY DEF Told, Screens
<1> QED
  BY <1>1, TellResult DEF Shown, TellingOf, SameMode, SamePower

(* Mode timedisplay, with power.                                           *)
LEMMA TimeDisplayShown ==
    ASSUME NEW s \in Machine, s.stm32 # "off"
    PROVE  Shown(TimeDisplay(s))
BY TimeDisplayResult DEF Shown, TellingOf, Fits, SamePower

(* An APDU takes the place of a command that waits to be sent; nothing is  *)
(* lost where that was sent before.                                        *)
LEMMA PassApduShown ==
    ASSUME NEW s \in Machine, Shown(s),
           s.Apdu /\ s.Main_status # "closeoled" => Fits(s.Main_status, s.told)
    PROVE  Shown(PassApdu(s))
<1> DEFINE u == Tell(s, "apdu")
<1>1. CASE s.Apdu
  <2>1. /\ u \in Machine /\ u.command = "apdu" /\ u.told = s.told
        /\ SamePower(u, s) /\ SameMode(u, s)
    BY TellResult
  <2>2. PassApdu(s) = [u EXCEPT !.Apdu = FALSE]
    BY <1>1 DEF PassApdu, Tell
  <2> HIDE DEF u
  <2> QED
    BY <1>1, <2>1, <2>2 DEF Machine, Shown, TellingOf, SamePower, SameMode
<1>2. CASE ~ s.Apdu
  BY <1>2 DEF PassApdu
<1> QED
  BY <1>1, <1>2

(* The handler of the mode, whichever mode it finds.                       *)
LEMMA HandlerShown ==
    ASSUME NEW mode \in Modes, NEW s \in Machine, Powered(s), Untouched(s), Shown(s),
           NEW low \in BOOLEAN,
           s.Main_status \notin {"closeoled", "ParingDis"} => Fits(s.Main_status, s.told),
           mode \in {"download", "changbatlowpower"} => s.stm32 # "off",
           mode = "download" /\ s.Apdu => s.Main_status # "ParingDis"
    PROVE  Shown(Handler(mode, s, low))
<1>1. Ready(s, s) /\ Ready(Stop3(s), s) /\ Ready(Open3(s), s) /\ Ready(Stop1(s), s)
  BY ReadySame, Stop3Ready, Open3Ready, Stop1Ready
<1>2. \A t : Ready(t, s) =>
          /\ t \in Machine /\ Underway(t, s) /\ Powered(t)
          /\ t.Time_stuts = "time" /\ t.touch_key # "KEY_1"
          /\ PowerCycle(t) \in Machine /\ PowerCycle(t).stm32 # "off"
  BY UnderwayReady, PowerCycleUnderway DEF Ready, Sound, Untouched, Underway
<1>3. PowerOnApp(s) \in Machine /\ PowerOnApp(s).stm32 # "off"
  BY PowerOnAppResult
<1>4. Shown(TimeDisplay(PowerOnApp(s)))
  BY <1>3, TimeDisplayShown
<1>5. \A t : Ready(t, s) => Shown(TimeDisplay(PowerCycle(t)))
  BY <1>2, TimeDisplayShown
<1>6. /\ Shown(Stop3(s)) /\ Shown(Open3(s)) /\ Shown(Stop1(s)) /\ Shown(Start1(s))
      /\ Stop3(s).stm32 = s.stm32 /\ Stop1(s).stm32 = s.stm32
  BY ShowingParts, ShowingShown DEF Showing
<1>7. \A t \in Machine : Shown(t) =>
          /\ Shown(Key(t)) /\ Shown(WorkKey(t)) /\ Shown([t EXCEPT !.Ble_Auth = FALSE])
  BY ShowingParts, ShowingShown
<1>8. \A t : Ready(t, s) =>
          /\ Ready(PowerOff_key(Mode(t, "closeoled")), s)
          /\ Shown(PowerOff_key(Mode(t, "closeoled")))
          /\ Ready(PowerOff_key(Leave(t, "closeoled")), s)
          /\ Shown(PowerOff_key(Leave(t, "closeoled")))
  <2> TAKE t
  <2> HAVE Ready(t, s)
  <2> DEFINE u == Mode(t, "closeoled")
             v == Leave(t, "closeoled")
  <2>1. Ready(PowerOff_key(u), s) /\ Ready(PowerOff_key(v), s)
    BY <1>2, OffReady
  <2>2. /\ Underway(u, s) /\ u.Main_status = "closeoled"
        /\ Underway(v, s) /\ v.Main_status = "closeoled"
    BY <1>2, ModeUnderway DEF Modes
  <2> HIDE DEF u, v
  <2>3. /\ PowerOff_key(u).Main_status = "closeoled"
        /\ PowerOff_key(v).Main_status = "closeoled"
    BY <2>2, PowerOff_keyUnderway DEF SameMode
  <2> QED
    BY <2>1, <2>3 DEF Shown, u, v
<1>9. mode = "closeoled" => Shown(progam_closeoled(s, low))
  <2> DEFINE on == PowerOnApp(s)
             warn == Mode(on, "changbatlowpower")
             time == TimeDisplay(on)
             told == Tell(warn, "lowpower")
  <2>1. /\ warn \in Machine /\ warn.Main_status = "changbatlowpower"
        /\ warn.stm32 # "off"
    BY <1>3, ModeResult DEF Modes, SamePower
  <2>2. time \in Machine /\ Shown(time)
    BY <1>3, <1>4, TimeDisplayResult
  <2> HIDE DEF warn
  <2>3. told \in Machine /\ Shown(told)
    BY <2>1, TellResult, TellShown DEF Told, Fits
  <2>4. progam_closeoled(s, low) =
            IF s.USB_Changed THEN time
            ELSE IF s.touch_key = "NO" THEN s
            ELSE WorkKey(IF low /\ ~ s.USB_connect THEN told ELSE time)
    BY DEF progam_closeoled, told, warn
  <2> HIDE DEF time, told
  <2> QED
    BY <1>7, <2>2, <2>3, <2>4
<1>10. Shown(timedisplay(s))
  <2> DEFINE reset == [Stop3(s) EXCEPT !.Time_stuts = "time"]
             off == PowerOff_key(Mode(reset, "closeoled"))
             timed == IF s.Timeout3Sec # "TimeOut" THEN Open3(s) ELSE off
             left == [Stop3(timed) EXCEPT !.Time_stuts = "time"]
  <2>1. Ready(reset, s)
    BY <1>1, PlainReady
  <2> HIDE DEF reset
  <2>2. Ready(off, s) /\ Shown(off)
    BY <1>8, <2>1
  <2> HIDE DEF off
  <2>3. Ready(timed, s) /\ Shown(timed)
    BY <1>1, <1>6, <2>2
  <2>4. Screen(timed) = timed
    BY <1>2, <2>3 DEF Screen
  <2>5. timedisplay(s) = IF timed.Main_status = "timedisplay" THEN timed ELSE left
    BY <2>4 DEF timedisplay, off, reset
  <2> HIDE DEF timed
  <2>6. Stop3(timed) \in Machine /\ Shown(Stop3(timed))
    BY <1>2, <2>3, Stop3Result, ShowingParts, ShowingShown
  <2>7. Shown(left)
    BY <2>6, ShowingParts, ShowingShown
  <2> QED
    BY <2>3, <2>5, <2>7
<1>11. mode = "download" => Shown(BlueUPfirmware(s))
  <2> SUFFICES ASSUME mode = "download" PROVE Shown(BlueUPfirmware(s))
    OBVIOUS
  <2>1. Stop3(s) \in Machine /\ Shown(TimeDisplay(Stop3(s)))
    BY <1>1, <1>2, <1>6, TimeDisplayShown
  <2>2. /\ Stop3(s).Main_status = s.Main_status /\ Stop3(s).told = s.told
        /\ Stop3(s).Apdu = s.Apdu
    BY ShowingParts DEF Showing, Stop3, Machine
  <2>3. Shown(PassApdu(Stop3(s)))
    BY <1>6, <2>1, <2>2, PassApduShown
  <2> QED
    BY <2>1, <2>3 DEF BlueUPfirmware
<1>12. Shown(Bluetooyhkeydisplay(s))
  <2> DEFINE open == PassApdu(Open3(s))
             closed == Stop3(open)
             off == PowerOff_key(Leave(closed, "closeoled"))
  <2>1. Ready(open, s) /\ Ready(closed, s)
    BY <1>1, PassApduReady, Stop3Ready
  <2>2. Ready(off, s) /\ Shown(off)
    BY <1>8, <2>1
  <2>3. s.Main_status = "blekey" => Shown(open)
    <3>1. Open3(s).Main_status = s.Main_status /\ Open3(s).told = s.told
      BY ShowingParts DEF Showing
    <3> QED
      BY <1>1, <1>2, <1>6, <3>1, PassApduShown
  <2>4. Bluetooyhkeydisplay(s) =
            IF ~ connected THEN TimeDisplay(PowerCycle(Stop3(s)))
            ELSE IF s.Main_status # "blekey" THEN Stop3(s)
            ELSE IF open.touch_key = "LongTouch" THEN WorkKey(off)
            ELSE IF open.Timeout3Sec = "TimeOut" THEN off ELSE open
    BY DEF Bluetooyhkeydisplay
  <2> HIDE DEF open, off
  <2> QED
    BY <1>1, <1>2, <1>5, <1>6, <1>7, <2>2, <2>3, <2>4
<1>13. Shown(Bluetooyparingdisplay(s))
  <2> DEFINE reset == [Stop3(s) EXCEPT !.Ble_Auth = FALSE]
             off == PowerOff_key(Mode(reset, "closeoled"))
             timed == IF s.Timeout3Sec # "TimeOut" THEN Open3(s) ELSE off
             shown == IF connected THEN timed ELSE s
             left == TimeDisplay(PowerCycle(Stop3(shown)))
             over == ~ shown.Ack_recive_enable /\ (connected => shown.Ble_Auth)
             done == IF ~ over THEN shown
                     ELSE IF connected THEN [left EXCEPT !.Ble_Auth = FALSE] ELSE left
  <2>1. Ready(reset, s)
    BY <1>1, PlainReady
  <2> HIDE DEF reset
  <2>2. Ready(off, s) /\ Shown(off)
    BY <1>8, <2>1
  <2> HIDE DEF off
  <2>3. Ready(shown, s) /\ Shown(shown)
    BY <1>1, <1>6, <2>2
  <2> HIDE DEF timed, shown
  <2>4. Ready(Stop3(shown), s)
    BY <2>3, Stop3Ready
  <2>5. left \in Machine /\ Shown(left)
    BY <1>2, <1>5, <2>4, TimeDisplayResult
  <2> HIDE DEF left, over
  <2>6. /\ [left EXCEPT !.Ble_Auth = FALSE] \in Machine
        /\ Shown([left EXCEPT !.Ble_Auth = FALSE])
    BY <1>7, <2>5 DEF Machine
  <2>7. done \in Machine /\ Shown(done)
    BY <1>2, <2>3, <2>5, <2>6
  <2>8. Bluetooyparingdisplay(s) = Key(done)
    BY DEF Bluetooyparingdisplay, reset, off, timed, shown, left, over
  <2> HIDE DEF done
  <2> QED
    BY <1>7, <2>7, <2>8
<1>14. Shown(firmwaresigned(s))
  <2> DEFINE off == PowerOff_key(Leave(Stop3(s), "closeoled"))
  <2>1. off \in Machine /\ Shown(off)
    BY <1>1, <1>2, <1>8
  <2>2. firmwaresigned(s) =
            Key(IF connected THEN IF s.Timeout3Sec = "TimeOut" THEN off ELSE Open3(s)
                ELSE IF s.Ack_recive_enable THEN s ELSE off)
    BY DEF firmwaresigned
  <2> HIDE DEF off
  <2> QED
    BY <1>1, <1>2, <1>6, <1>7, <2>1, <2>2
<1>15. mode = "changbatlowpower" => Shown(Chargingandmanagerdisplay(s))
  <2> DEFINE time == TimeDisplay(Stop1(s))
  <2>1. mode = "changbatlowpower" => time \in Machine /\ Shown(time)
    BY <1>1, <1>2, <1>6, TimeDisplayShown, TimeDisplayResult
  <2>2. Chargingandmanagerdisplay(s) =
            IF ~ s.USB_connect /\ s.USB_Changed THEN TimeDisplay(PowerOnApp(s))
            ELSE IF s.Timeout1Sec = "TimeClose" THEN Start1(s)
            ELSE IF s.Timeout1Sec = "TimeOut" THEN time
            ELSE IF ~ s.USB_connect /\ s.touch_key # "NO" THEN WorkKey(time)
            ELSE s
    BY DEF Chargingandmanagerdisplay
  <2> HIDE DEF time
  <2> QED
    BY <1>4, <1>6, <1>7, <2>1, <2>2
<1> QED
  BY <1>9, <1>10, <1>11, <1>12, <1>13, <1>14, <1>15 DEF Handler, Modes

(* A command of the phone, in every mode.                                  *)
LEMMA CommandShown ==
    ASSUME NEW c \in AllCommands, NEW s \in Machine, Powered(s), Shown(s)
    PROVE  Shown(BluetoothWork(c, s))
<1> DEFINE t == Stop3(s)
           cycled == PowerCycle(t)
           on == IF t.stm32 = "off" THEN PowerOnApp(t) ELSE t
           low == [t EXCEPT !.pin29 = "L"]
           load == PowerOn_key(low)
           run == PowerOn_key(t)
           taken == Mode(cycled, "blekey")
           key == Tell(taken, "bluekey")
           plain == [t EXCEPT !.Time_stuts = "time"]
           closed == Mode(plain, "closeoled")
           off == PowerOff_key(closed)
<1>1. Ready(t, s)
  BY ReadySame, Stop3Ready
<1>2. t \in Machine /\ Shown(t) /\ Underway(t, s)
  BY <1>1, UnderwayReady, ShowingParts, ShowingShown DEF Ready, Sound
<1> HIDE DEF t
<1>3. \A u \in Machine : Shown(u) =>
          /\ Shown(Send_bluetoothdata(u)) /\ Shown([u EXCEPT !.Apdu = TRUE])
          /\ Shown(Start3(u)) /\ Start3(u) \in Machine
          /\ Shown([u EXCEPT !.KEYwork_flag = TRUE]) /\ Shown([u EXCEPT !.Time_stuts = "time"])
          /\ [u EXCEPT !.KEYwork_flag = TRUE] \in Machine
          /\ [u EXCEPT !.Time_stuts = "time"] \in Machine
  BY ShowingParts, ShowingShown, MachinePut, Start3Result DEF Screens
<1>4. /\ cycled \in Machine /\ cycled.stm32 # "off"
      /\ run \in Machine /\ run.stm32 # "off" /\ on \in Machine /\ on.stm32 # "off"
  BY <1>2, PowerCycleUnderway, PowerOn_keyUnderway, PowerOnAppUnderway DEF Underway
<1>5. load \in Machine /\ load.stm32 # "off"
  BY <1>2, PinResult, PowerOn_keyResult
<1>6. /\ TimeDisplay(cycled) \in Machine /\ Shown(TimeDisplay(cycled))
      /\ TimeDisplay(on) \in Machine /\ Shown(TimeDisplay(on))
  BY <1>4, TimeDisplayResult, TimeDisplayShown
<1>7. t.Main_status = "timedisplay" \/ t.Ack_recive_enable => on = t
  BY <1>2 DEF Underway, Shown
<1> HIDE DEF cycled, on, load, run
<1>8. /\ Mode(run, "firmware").Main_status = "firmware"
      /\ Mode(run, "firmware").stm32 # "off"
      /\ Mode(load, "download") \in Machine
      /\ Mode(load, "download").Main_status = "download"
      /\ Mode(load, "download").stm32 # "off"
      /\ taken \in Machine /\ taken.Main_status = "blekey" /\ taken.stm32 # "off"
  BY <1>4, <1>5, ModeResult DEF SamePower, Modes
<1> HIDE DEF taken
<1>9. key \in Machine /\ Shown(key)
  BY <1>8, TellResult, TellShown DEF Told, Fits
<1> HIDE DEF key
<1>10. off \in Machine /\ Shown(off)
  <2>1. Ready(plain, s)
    BY <1>1, PlainReady
  <2> HIDE DEF plain
  <2>2. Ready(off, s) /\ Underway(closed, s) /\ closed.Main_status = "closeoled"
    BY <2>1, UnderwayReady, OffReady, ModeUnderway DEF Modes
  <2> HIDE DEF closed
  <2> QED
    BY <2>2, PowerOff_keyUnderway DEF SameMode, Shown, Ready, Sound
<1> HIDE DEF off
<1>11. setup_time_f(t) \in Machine /\ Shown(setup_time_f(t))
  <2>1. setup_time_f(t) = IF t.Main_status # "timedisplay" /\ ~ t.Ack_recive_enable
                          THEN TimeDisplay(on) ELSE on
    BY DEF setup_time_f, on
  <2> QED
    BY <1>2, <1>6, <1>7, <2>1
<1>12. DownloadStart(t) \in Machine /\ Shown(DownloadStart(t))
  <2>1. Shown(Mode(load, "download"))
    BY <1>8 DEF Shown, Fits
  <2>2. DownloadStart(t) = IF t.Main_status = "closeoled"
                           THEN [Mode(load, "download") EXCEPT !.KEYwork_flag = TRUE]
                           ELSE t
    BY DEF DownloadStart, load, low
  <2> QED
    BY <1>2, <1>3, <1>8, <2>1, <2>2
<1>13. Shown(KeyOn(t)) /\ KeyOff(t) \in Machine /\ Shown(KeyOff(t))
  <2>1. /\ KeyOn(t) = [key EXCEPT !.KEYwork_flag = TRUE]
        /\ KeyOff(t) = [TimeDisplay(cycled) EXCEPT !.Time_stuts = "time"]
    BY DEF KeyOn, KeyOff, key, taken, cycled
  <2> QED
    BY <1>3, <1>6, <1>9, <2>1
<1>14. Shown(Mode(PowerOn_key(t), "firmware"))
  BY <1>8 DEF Shown, Fits, run
<1>15. setup_turnoff_f(t) = off
  BY DEF setup_turnoff_f, off, closed, plain
<1>16. /\ Shown(Send_bluetoothdata(t)) /\ Shown([t EXCEPT !.Apdu = TRUE])
       /\ Shown(Send_bluetoothdata(Start3(t)))
       /\ Shown(Send_bluetoothdata(setup_time_f(t)))
       /\ Shown(Send_bluetoothdata(setup_turnoff_f(t)))
       /\ Shown(Send_bluetoothdata(DownloadStart(t)))
       /\ Shown(Send_bluetoothdata(TimeDisplay(PowerCycle(t))))
       /\ Shown(Send_bluetoothdata(KeyOff(t)))
  BY <1>2, <1>3, <1>6, <1>10, <1>11, <1>12, <1>13, <1>15 DEF cycled
<1> QED
  BY <1>2, <1>13, <1>14, <1>16 DEF BluetoothWork, AllCommands, t

(* What a step does to what is shown.                                      *)
LEMMA ShownStep ==
    ASSUME IInv, [Next]_vars, Untouched(m), Shown(m), ~ TurnedOffLate, ~ LateApdu
    PROVE  Shown(m)'
<1>1. m \in Machine /\ Powered(m) /\ queued \in Modes
  BY DEF IInv
<1>2. ASSUME Showing(m', m) PROVE Shown(m)'
  BY <1>2 DEF Showing, Shown, TellingOf
<1>3. CASE TurnBegins
  <2> DEFINE s == [m EXCEPT !.reply = FALSE]
  <2>1. s \in Machine /\ Showing(s, m) /\ m' \in {s, Stop3(s)}
    BY <1>1, <1>3 DEF TurnBegins, Machine, Showing
  <2> HIDE DEF s
  <2> QED
    BY <1>2, <2>1, ShowingParts DEF Showing
<1>4. CASE TurnCommand
  <2>1. PICK c \in Commands : m' = BluetoothWork(c, m)
    BY <1>4 DEF TurnCommand
  <2>2. Shown(m')
    BY <1>1, <2>1, AppModeAssumption, CommandShown
  <2> QED
    BY <2>2 DEF Shown, TellingOf
<1>5. CASE TurnNoCommand \/ UNCHANGED vars
  BY <1>2, <1>5 DEF TurnNoCommand, vars, Showing
<1>6. CASE TurnUart
  <2>1. /\ m'.stm32 = m.stm32 /\ m'.Main_status = m.Main_status
        /\ TellingOf(m') = TellingOf(m)
    BY <1>6, UartPasses
  <2> QED
    BY <2>1 DEF Shown, TellingOf
<1>7. CASE TurnMode
  <2>1. PICK low \in BOOLEAN : m' = Handler(queued, m, low)
    BY <1>7 DEF TurnMode
  <2>2. pc = "mode"
    BY <1>7 DEF TurnMode
  <2>3. m.Main_status \notin {"closeoled", "ParingDis"} => Fits(m.Main_status, m.told)
    BY <2>2 DEF IInv, Sent
  <2>4. queued \in {"download", "changbatlowpower"} => m.stm32 # "off"
    BY <2>2 DEF IInv, LateOff, TurnedOffLate
  <2>5. queued = "download" /\ m.Apdu => m.Main_status # "ParingDis"
    BY <2>2 DEF LateApdu
  <2>6. Shown(m')
    BY <1>1, <2>1, <2>3, <2>4, <2>5, HandlerShown
  <2> QED
    BY <2>6 DEF Shown, TellingOf
<1>8. CASE ReadAdc
  <2>1. CASE Showing(m', m)
    BY <1>2, <2>1
  <2>2. CASE /\ m'.Main_status = "ParingDis" /\ m'.stm32 # "off"
             /\ m'.uart_send_flag = TRUE /\ m'.command = "paring"
    BY <2>2 DEF Shown, TellingOf, Fits
  <2> QED
    BY <1>8, <2>1, <2>2, PasskeyShown
<1>9. CASE \/ debug_wangnan \/ TimeOutMain_handler \/ TimeOut1sec_handler
           \/ timer_touchkey_handler
  <2>1. CASE debug_wangnan
    <3>1. Showing(m', m) BY <1>1, <2>1 DEF debug_wangnan, Machine, Showing
    <3> QED BY <1>2, <3>1
  <2>2. CASE TimeOutMain_handler
    <3>1. Showing(m', m) BY <1>1, <2>2 DEF TimeOutMain_handler, Machine, Showing
    <3> QED BY <1>2, <3>1
  <2>3. CASE TimeOut1sec_handler
    <3>1. Showing(m', m) BY <1>1, <2>3 DEF TimeOut1sec_handler, Machine, Showing
    <3> QED BY <1>2, <3>1
  <2>4. CASE timer_touchkey_handler
    <3>1. Showing(m', m) BY <1>1, <2>4 DEF timer_touchkey_handler, Machine, Showing
    <3> QED BY <1>2, <3>1
  <2> QED
    BY <1>9, <2>1, <2>2, <2>3, <2>4
<1>10. CASE Read_CapKey
  BY <1>1, <1>2, <1>10 DEF Read_CapKey, Touched, Released, Machine, Showing
<1>11. CASE Environment
  BY <1>1, <1>2, <1>11 DEF Environment, Touch, Release, Plug, Connect, Disconnect,
                           PasskeyDisplay, AuthStatus, Machine, Showing
<1> QED
  BY <1>3, <1>4, <1>5, <1>6, <1>7, <1>8, <1>9, <1>10, <1>11 DEF Next, Turn

(* The states ToldUntouched speaks of.                                     *)
NotTouched == touches = 0
ShownRight == Shown(m)

(* As long as the key was not touched: from right to right, for any number *)
(* of commands, plugs, connections and pairings, but for the handler that  *)
(* runs after setup_turnoff and the APDU that was left over.               *)
THEOREM ToldRight == Spec => ToldUntouched
<1>1. IInv /\ NotTouched => (ModeTold <=> ShownRight)
  <2> SUFFICES ASSUME IInv, touches = 0
               PROVE  ModeTold <=> Shown(m)
    BY DEF NotTouched, ShownRight
  <2>1. /\ m \in Machine /\ Untouched(m) /\ Telling \in Told /\ Telling = TellingOf(m)
    BY DEF IInv, ShownUntouched, Machine, Telling, TellingOf
  <2>2. m.Main_status \in Modes /\ m.Time_stuts = "time"
    BY <2>1 DEF Machine, Untouched
  <2>3. Telling \in Shows[m.Main_status] <=>
            m.Main_status = "closeoled" \/ Fits(m.Main_status, TellingOf(m))
    BY <2>1, <2>2 DEF Shows, Fits, Modes
  <2> QED
    BY <2>1, <2>3 DEF ModeTold, Shown
<1>2. IInv /\ [Next]_vars /\ NotTouched' => NotTouched
  BY DEF NotTouched, IInv, Next, vars, Turn, TurnBegins, TurnCommand, TurnNoCommand,
         TurnUart, TurnMode, Read_CapKey, ReadAdc, debug_wangnan, TimeOutMain_handler,
         TimeOut1sec_handler, timer_touchkey_handler, Environment, Touch, Release,
         Plug, Connect, Disconnect, PasskeyDisplay, AuthStatus, counters
<1>3. IInv /\ [Next]_vars /\ NotTouched /\ ShownRight
      => ShownRight' \/ TurnedOffLate \/ LateApdu
  <2> SUFFICES ASSUME IInv, [Next]_vars, NotTouched, ShownRight, ~ TurnedOffLate, ~ LateApdu
               PROVE  ShownRight'
    OBVIOUS
  <2>1. Untouched(m) /\ Shown(m)
    BY DEF IInv, ShownUntouched, NotTouched, ShownRight
  <2>2. Shown(m)'
    BY <2>1, ShownStep
  <2> QED
    BY <2>2 DEF ShownRight
<1>4. Spec => [][NotTouched' /\ ModeTold /\ ~ ModeTold' => TurnedOffLate \/ LateApdu]_vars
  BY <1>1, <1>2, <1>3, Invariance, PTL DEF Spec
<1>5. [NotTouched' /\ ModeTold /\ ~ ModeTold' => TurnedOffLate \/ LateApdu]_vars
      => [touches' = 0 /\ ModeTold /\ ~ ModeTold' => TurnedOffLate \/ LateApdu]_vars
  BY DEF NotTouched
<1> QED
  BY <1>4, <1>5, PTL DEF ToldUntouched
==============================================================================
