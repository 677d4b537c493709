------------------------------ MODULE UartLink ------------------------------
(***************************************************************************)
(* The UART protocol with the STM32 (Uart_DMWZ.c), as the modes            *)
(* Main_status_blekey ("key") and Main_status_timedisplay ("time") use it. *)
(*                                                                         *)
(* One buffer, uart_communicate_buf, holds the frame being sent, which a   *)
(* retry sends again, and the frame being received: the UART's interrupt   *)
(* writes it byte by byte between the steps of UartDataSendrecive(), and   *)
(* a timer's interrupt may give a command.  A frame carries the number     *)
(* uartnum; the acknowledgement 5A A5 00 carries none.                     *)
(*                                                                         *)
(* The STM32 is not part of the repository.  It acknowledges a good frame, *)
(* answers an APDU later with a frame of the same number, and sends the    *)
(* answer again while it is not acknowledged, until it gives up.           *)
(***************************************************************************)
EXTENDS Integers, Sequences, FiniteSets

CONSTANTS
    MAX_resend,    \* 10 in Uart_DMWZ.h
    MaxGiven,      \* bound: commands given in a behaviour
    MaxFault,      \* bound: frames refused, lost, damaged or repeated
    MaxSwitch,     \* bound: changes of mode
    Timers         \* TRUE: the display timers give commands in mode "time"

ASSUME UartAssumption ==
    /\ MAX_resend \in Nat \ {0} /\ MaxGiven \in Nat /\ MaxFault \in Nat
    /\ MaxSwitch \in Nat /\ Timers \in BOOLEAN

VARIABLES
    Main_status,               \* "off", "time" or "key"
    uart_communicate_buf,      \* whose frame it holds, and which
    uartnum, uart_send_flag, uart_waitack_flag, uart_recive_All, olddata,
    ACK_recive_satus, Ack_recive_enable, ACC_resend, CRC_old,
    Timeout1Sec_Uart_StarFlag,
    pc,                        \* main's place in UartDataSendrecive()
    queued,                    \* the frame uart_send() put on the scheduler's queue
    toStm32, fromStm32,        \* on the wires: frames and acks; bytes
    stm32,                     \* the STM32: last number, APDU it answers
    given,                     \* commands given so far
    faults, switches,          \* counters for the bounds
    last,                      \* the command sent last, and how often
    accepted, acked,           \* commands the STM32 took; that main thinks it took
    passed,                    \* what was passed on to the phone as answers
    timely                     \* TRUE: each side lets the other finish (see below)

(* timely: no timeout runs out before an acknowledgement or an answer that *)
(* comes; the phone asks nothing before it has its answer; and the STM32   *)
(* answers when main has looked at its acknowledgement and the phone has   *)
(* taken what came before.  The code relies on this and enforces none of   *)
(* it.                                                                     *)
mode   == <<Main_status, switches>>
sender == <<uart_send_flag, Ack_recive_enable, ACC_resend, CRC_old>>
isr    == <<uart_recive_All, olddata, ACK_recive_satus>>
wires  == <<queued, toStm32, fromStm32>>
ghosts == <<last, accepted, acked, passed>>
vars == <<mode, uart_communicate_buf, uartnum, sender, uart_waitack_flag, isr,
          Timeout1Sec_Uart_StarFlag, pc, wires, stm32, given, faults, ghosts, timely>>

uart_enable_flag == Main_status # "off"

(* "command": as CmdSendUart() left it; "partial": a received frame has    *)
(* written its length; "answer": a received frame, damaged or not.         *)
Command(n, no, apdu) == [kind |-> "command", id |-> n, no |-> no, apdu |-> apdu, good |-> TRUE]
Answer(n, no, good)  == [kind |-> "answer", id |-> n, no |-> no, apdu |-> TRUE, good |-> good]

Idle == [no |-> 0, apdu |-> 0, waits |-> FALSE]

Init ==
    /\ Main_status = "off" /\ switches = 0
    /\ uart_communicate_buf = Command(0, 0, FALSE)
    /\ uartnum = 0 /\ uart_send_flag = 0 /\ uart_waitack_flag = 0
    /\ uart_recive_All = 0 /\ olddata = "0" /\ ACK_recive_satus = "NOACK"
    /\ Ack_recive_enable = 0 /\ ACC_resend = 0 /\ CRC_old = 0
    /\ Timeout1Sec_Uart_StarFlag = "TimeClose"
    /\ pc = "client"
    /\ queued = <<>> /\ toStm32 = <<>> /\ fromStm32 = <<>>
    /\ stm32 = Idle
    /\ given = 0 /\ faults = 0
    /\ last = [id |-> 0, times |-> 0]
    /\ accepted = {} /\ acked = {} /\ passed = <<>>
    /\ timely \in BOOLEAN

-----------------------------------------------------------------------------
(* Commands.                                                               *)

(* CmdSendUart(): the buffer becomes the command, whatever it held.        *)
CmdSendUart(apdu) ==
    /\ given < MaxGiven
    /\ given' = given + 1
    /\ uartnum' = (uartnum + 1) % 256
    /\ uart_communicate_buf' = Command(given + 1, uartnum', apdu)
    /\ uart_send_flag' = 1

(* Everything that must be still for a phone that waits for its answer.    *)
Quiet == /\ uart_send_flag = 0 /\ Ack_recive_enable = 0 /\ uart_recive_All = 0
         /\ olddata = "0" /\ wires = << <<>>, <<>>, <<>> >>
         /\ stm32.apdu = 0 /\ uart_waitack_flag = 0

(* Bluetooyhkeydisplay(): an APDU of the phone is for the STM32.           *)
KeyCommand ==
    /\ pc = "client"
    /\ Main_status = "key"
    /\ timely => Quiet
    /\ CmdSendUart(TRUE)
    /\ UNCHANGED <<mode, Ack_recive_enable, ACC_resend, CRC_old, uart_waitack_flag, isr,
                   Timeout1Sec_Uart_StarFlag, pc, wires, stm32, faults, ghosts>>

(* timedisplay(): a touch changes what the STM32 displays.                 *)
DisplayCommand ==
    /\ pc = "client"
    /\ Main_status = "time"
    /\ Ack_recive_enable = 0
    /\ CmdSendUart(FALSE)
    /\ UNCHANGED <<mode, Ack_recive_enable, ACC_resend, CRC_old, uart_waitack_flag, isr,
                   Timeout1Sec_Uart_StarFlag, pc, wires, stm32, faults, ghosts>>

(* Motor_timeout_handler() and Balance_handler(), in interrupt context:    *)
(* between any two steps, and over a command that was not sent yet.        *)
TimerCommand ==
    /\ Timers
    /\ Main_status = "time"
    /\ Ack_recive_enable = 0
    /\ CmdSendUart(FALSE)
    /\ UNCHANGED <<mode, Ack_recive_enable, ACC_resend, CRC_old, uart_waitack_flag, isr,
                   Timeout1Sec_Uart_StarFlag, pc, wires, stm32, faults, ghosts>>

(* Uart_close(), with CRC_old as PowerOff_key() clears it.                 *)
(* Mutant: an acknowledgement is still waited for.                         *)
Uart_close_KeepsWaiting ==
    /\ ACC_resend' = 0 /\ CRC_old' = 0 /\ UNCHANGED Ack_recive_enable
    /\ uart_recive_All' = 0 /\ olddata' = "0" /\ ACK_recive_satus' = "NOACK"
    /\ Timeout1Sec_Uart_StarFlag' = "TimeClose"

Uart_close ==
    /\ ACC_resend' = 0 /\ CRC_old' = 0 /\ Ack_recive_enable' = 0
    /\ uart_recive_All' = 0 /\ olddata' = "0" /\ ACK_recive_satus' = "NOACK"
    /\ Timeout1Sec_Uart_StarFlag' = "TimeClose"

(* The STM32's power goes, and with it what it knew and what was under way.*)
Stm32Off ==
    /\ toStm32' = <<>> /\ fromStm32' = <<>> /\ stm32' = Idle
    /\ UNCHANGED queued

(* The STM32 is powered off: setup_turnoff_f(), timeouts, a long touch.    *)
PowerOff ==
    /\ pc = "client"
    /\ uart_enable_flag /\ switches < MaxSwitch
    /\ switches' = switches + 1
    /\ Main_status' = "off"
    /\ Uart_close /\ uart_send_flag' = 0 /\ uartnum' = 0
    /\ Stm32Off
    /\ UNCHANGED <<uart_communicate_buf, uart_waitack_flag, pc, given, faults, ghosts>>

(* It is powered on, or off and on, and told its mode: progam_closeoled(), *)
(* blueKEY_cmdid_F(), Bluetooyhkeydisplay() after a disconnection.  Only   *)
(* this last one comes between uart_send() and the queue.                  *)
PowerOn(to) ==
    /\ pc = "client"
    /\ queued # <<>> => ~timely /\ Main_status = "key" /\ to = "time"
    /\ switches < MaxSwitch
    /\ switches' = switches + 1
    /\ Main_status' = to
    /\ Uart_close /\ Stm32Off
    /\ given < MaxGiven
    /\ given' = given + 1
    /\ uartnum' = 1
    /\ uart_communicate_buf' = Command(given + 1, 1, FALSE)
    /\ uart_send_flag' = 1
    /\ UNCHANGED <<uart_waitack_flag, pc, faults, ghosts>>

-----------------------------------------------------------------------------
(* uart_event_handle(): one byte, in interrupt context.  "00" stands for   *)
(* a length's first byte and for the status of an acknowledgement, "head"  *)
(* for the rest of the header, "data" for the data and their CRC.          *)
FrameBytes(f) == <<[b |-> "a5", f |-> f], [b |-> "5a", f |-> f], [b |-> "00", f |-> f],
                   [b |-> "head", f |-> f], [b |-> "data", f |-> f]>>
AckBytes(ok) == LET f == [kind |-> "partial", id |-> 0, no |-> 0, apdu |-> FALSE, good |-> FALSE]
                IN  <<[b |-> "5a", f |-> f], [b |-> "a5", f |-> f],
                      [b |-> IF ok THEN "00" ELSE "01", f |-> f]>>

(* Start of a frame, or of an acknowledgement where one is waited for.     *)
RxStart(byte) ==
    /\ olddata = "0"
    /\ olddata' = IF byte.b = "a5" THEN "a5"
                  ELSE IF byte.b = "5a" /\ Ack_recive_enable = 1 THEN "first_5a" ELSE "0"
    /\ UNCHANGED <<uart_communicate_buf, uart_recive_All, ACK_recive_satus>>

RxSecond(byte) ==
    /\ \/ /\ olddata = "a5"
          /\ olddata' = IF byte.b = "5a" THEN "5a" ELSE "0"
       \/ /\ olddata = "first_5a"
          /\ olddata' = IF byte.b = "a5" THEN "secend_a5" ELSE "0"
    /\ UNCHANGED <<uart_communicate_buf, uart_recive_All, ACK_recive_satus>>

(* From here on the frame overwrites uart_communicate_buf.                 *)
RxFrame(byte) ==
    /\ \/ /\ olddata = "5a" /\ olddata' = "length"
          /\ uart_communicate_buf' = [uart_communicate_buf EXCEPT !.kind = "partial", !.good = FALSE]
          /\ UNCHANGED uart_recive_All
       \/ /\ olddata = "length" /\ olddata' = "nouseful"
          /\ uart_communicate_buf' = [byte.f EXCEPT !.kind = "partial", !.good = FALSE]
          /\ UNCHANGED uart_recive_All
       \/ /\ olddata = "nouseful" /\ olddata' = "databytes"
          /\ uart_communicate_buf' = byte.f
          /\ uart_recive_All' = 1
    /\ UNCHANGED ACK_recive_satus

(* Any byte is a status until main has looked.                             *)
(* Mutant: whatever the STM32 says, it is taken as success.                *)
RxStatus_AnyByte(byte) ==
    /\ olddata = "secend_a5"
    /\ ACK_recive_satus' = "SuccsACK"
    /\ UNCHANGED <<uart_communicate_buf, uart_recive_All, olddata>>

RxStatus(byte) ==
    /\ olddata = "secend_a5"
    /\ ACK_recive_satus' = IF byte.b = "00" THEN "SuccsACK" ELSE "FailACK"
    /\ UNCHANGED <<uart_communicate_buf, uart_recive_All, olddata>>

(* A whole frame waits for main: bytes are dropped.                        *)
RxDropped ==
    /\ olddata = "databytes"
    /\ UNCHANGED <<uart_communicate_buf, isr>>

uart_event_handle ==
    /\ fromStm32 # <<>>
    /\ fromStm32' = Tail(fromStm32)
    /\ LET byte == Head(fromStm32)
       IN  RxStart(byte) \/ RxSecond(byte) \/ RxFrame(byte) \/ RxStatus(byte) \/ RxDropped
    /\ UNCHANGED <<mode, uartnum, sender, uart_waitack_flag, Timeout1Sec_Uart_StarFlag,
                   pc, queued, toStm32, stm32, given, faults, ghosts>>
-----------------------------------------------------------------------------
(* UartDataSendrecive(), in steps: an interrupt can come between them.     *)
AckFrame(ok)  == [type |-> "ack", ok |-> ok]

(* uart_send_Bty(), by app_sched_execute(): what uart_send() copied to the *)
(* queue goes out, behind the handler of the mode; nowhere, when that one  *)
(* has closed the UART.                                                    *)
uart_send_Bty ==
    /\ pc = "client" /\ queued # <<>>
    /\ queued' = Tail(queued)
    /\ toStm32' = IF uart_enable_flag
                  THEN Append(toStm32, [type |-> "frame", f |-> Head(queued)]) ELSE toStm32
    /\ UNCHANGED <<mode, uart_communicate_buf, uartnum, sender, uart_waitack_flag, isr,
                   Timeout1Sec_Uart_StarFlag, pc, fromStm32, stm32, given, faults, ghosts>>

(* One failed attempt more: try again, or give up after MAX_resend.        *)
(* Mutant: the limit is never reached.                                     *)
MayTry_Always == TRUE

MayTry == ACC_resend + 1 < MAX_resend

GiveUp == Ack_recive_enable' = 0 /\ ACC_resend' = 0

(* uart_send(): the pending command is put on the queue, for the first time*)
(* or again; the phone's acknowledgement goes to the STM32 at once.        *)
TurnSend ==
    /\ pc = "client" /\ pc' = "receive"
    /\ uart_enable_flag /\ queued = <<>>
    /\ IF uart_send_flag = 1
       THEN /\ uart_send_flag' = 0 /\ CRC_old' = 0 /\ Ack_recive_enable' = 1
            /\ last' = IF uart_communicate_buf.kind # "command" THEN last
                       ELSE IF uart_communicate_buf.id = last.id
                       THEN [last EXCEPT !.times = @ + 1]
                       ELSE [id |-> uart_communicate_buf.id, times |-> 1]
       ELSE UNCHANGED <<uart_send_flag, CRC_old, Ack_recive_enable, last>>
    /\ uart_waitack_flag' = IF uart_waitack_flag = 2 THEN 0 ELSE uart_waitack_flag
    /\ queued' = IF uart_send_flag = 1 THEN <<uart_communicate_buf>> ELSE <<>>
    /\ toStm32' = IF uart_waitack_flag = 2 THEN Append(toStm32, AckFrame(TRUE)) ELSE toStm32
    /\ UNCHANGED <<mode, uart_communicate_buf, uartnum, ACC_resend, isr,
                   Timeout1Sec_Uart_StarFlag, fromStm32, stm32, given, faults, accepted,
                   acked, passed>>

(* Uart_cmdprogam(): an answer goes to the phone; remembered: CRC_old is   *)
(* set to know it again.                                                   *)
Uart_cmdprogam(remembered) ==
    IF uart_communicate_buf.apdu
    THEN /\ passed' = Append(passed, [kind |-> uart_communicate_buf.kind,
                                      id |-> uart_communicate_buf.id, to |-> last.id,
                                      good |-> uart_communicate_buf.good,
                                      remembered |-> remembered])
         /\ uart_waitack_flag' = 1
    ELSE UNCHANGED <<passed, uart_waitack_flag>>

(* Stands for crc16: the same for a repeated frame, and never 0.           *)
Crc(f) == 2 * f.id + (IF f.kind = "answer" THEN 1 ELSE 0)

Matches == uart_communicate_buf.good /\ uart_communicate_buf.no = uartnum

(* Mutant: a repeated frame is not known.                                  *)
Known_Never == FALSE

Known == Crc(uart_communicate_buf) = CRC_old

(* Mutant: the acknowledgement of a command is waited for again.           *)
Refuse_WaitsAck == Ack_recive_enable' = 1 /\ toStm32' = Append(toStm32, AckFrame(FALSE))

Refuse == Ack_recive_enable' = 2 /\ toStm32' = Append(toStm32, AckFrame(FALSE))

(* A whole frame: passed on, known already, or refused.                    *)
TurnReceive ==
    /\ pc = "receive" /\ pc' = "ackstatus"
    /\ uart_recive_All = 1
    /\ Timeout1Sec_Uart_StarFlag' = "TimeClose"
    /\ ACC_resend' = 0
    /\ ACK_recive_satus' = "NOACK" /\ uart_recive_All' = 0 /\ olddata' = "0"
    /\ \/ /\ Matches /\ ~Known
          /\ CRC_old' = Crc(uart_communicate_buf)
          /\ Ack_recive_enable' = 0
          /\ Uart_cmdprogam(TRUE)
          /\ UNCHANGED toStm32
       \/ /\ Matches /\ Known
          /\ UNCHANGED <<CRC_old, Ack_recive_enable, passed, uart_waitack_flag, toStm32>>
       \/ /\ ~Matches
          /\ Refuse
          /\ UNCHANGED <<CRC_old, passed, uart_waitack_flag>>
    /\ UNCHANGED <<mode, uart_communicate_buf, uartnum, uart_send_flag, queued, fromStm32, stm32,
                   given, faults, last, accepted, acked>>

TurnReceiveNothing ==
    /\ pc = "receive" /\ pc' = "ackstatus"
    /\ uart_recive_All = 0
    /\ UNCHANGED <<mode, uart_communicate_buf, uartnum, sender, uart_waitack_flag, isr,
                   Timeout1Sec_Uart_StarFlag, wires, stm32, given, faults, ghosts>>

(* An acknowledgement came: done, or the command is sent again.  In mode   *)
(* "key" the phone gets an answer without data.                            *)
TurnAcked ==
    /\ pc = "ackstatus" /\ pc' = "ackreset"
    /\ Ack_recive_enable = 1 /\ ACK_recive_satus # "NOACK"
    /\ Timeout1Sec_Uart_StarFlag' = "TimeClose"
    /\ \/ /\ ACK_recive_satus = "FailACK" /\ MayTry
          /\ ACC_resend' = ACC_resend + 1 /\ uart_send_flag' = 1
          /\ UNCHANGED <<Ack_recive_enable, uart_waitack_flag, acked>>
       \/ /\ ACK_recive_satus = "FailACK" /\ ~MayTry
          /\ GiveUp
          /\ UNCHANGED <<uart_send_flag, uart_waitack_flag, acked>>
       \/ /\ ACK_recive_satus = "SuccsACK"
          /\ Ack_recive_enable' = 0 /\ ACC_resend' = 0
          /\ uart_waitack_flag' = IF Main_status = "key" THEN 1 ELSE uart_waitack_flag
          /\ acked' = acked \union {last.id}
          /\ UNCHANGED uart_send_flag
    /\ UNCHANGED <<mode, uart_communicate_buf, uartnum, CRC_old, isr, wires, stm32, given,
                   faults, last, accepted, passed>>

TurnAckReset ==
    /\ pc = "ackreset" /\ pc' = "resend"
    /\ ACK_recive_satus' = "NOACK" /\ uart_recive_All' = 0 /\ olddata' = "0"
    /\ UNCHANGED <<mode, uart_communicate_buf, uartnum, sender, uart_waitack_flag,
                   Timeout1Sec_Uart_StarFlag, wires, stm32, given, faults, ghosts>>

(* None came: the timer is started, waited for, or has run out.            *)
TurnWaitsAck ==
    /\ pc = "ackstatus" /\ pc' = "resend"
    /\ Ack_recive_enable = 1 => ACK_recive_satus = "NOACK"
    /\ IF Ack_recive_enable = 1
       THEN \/ /\ Timeout1Sec_Uart_StarFlag = "TimeClose"
               /\ Timeout1Sec_Uart_StarFlag' = "TimeOpen"
               /\ UNCHANGED sender
            \/ /\ Timeout1Sec_Uart_StarFlag = "TimeOpen"
               /\ UNCHANGED <<Timeout1Sec_Uart_StarFlag, sender>>
            \/ /\ Timeout1Sec_Uart_StarFlag = "TimeOut"
               /\ Timeout1Sec_Uart_StarFlag' = "TimeClose"
               /\ IF MayTry
                  THEN ACC_resend' = ACC_resend + 1 /\ uart_send_flag' = 1 /\ UNCHANGED Ack_recive_enable
                  ELSE GiveUp /\ UNCHANGED uart_send_flag
               /\ UNCHANGED CRC_old
       ELSE UNCHANGED <<Timeout1Sec_Uart_StarFlag, sender>>
    /\ UNCHANGED <<mode, uart_communicate_buf, uartnum, uart_waitack_flag, isr, wires, stm32,
                   given, faults, ghosts>>

(* Ack_recive_enable 2: a frame was refused, and another one is waited for.*)
TurnRefused ==
    /\ pc = "resend" /\ pc' = "client"
    /\ Ack_recive_enable = 2
    /\ \/ /\ Timeout1Sec_Uart_StarFlag = "TimeClose"
          /\ Timeout1Sec_Uart_StarFlag' = "TimeOpen"
          /\ UNCHANGED <<Ack_recive_enable, ACC_resend, toStm32>>
       \/ /\ Timeout1Sec_Uart_StarFlag = "TimeOut"
          /\ Timeout1Sec_Uart_StarFlag' = "TimeClose"
          /\ IF MayTry
             THEN ACC_resend' = ACC_resend + 1 /\ toStm32' = Append(toStm32, AckFrame(FALSE))
                  /\ UNCHANGED Ack_recive_enable
             ELSE GiveUp /\ UNCHANGED toStm32
       \/ /\ Timeout1Sec_Uart_StarFlag = "TimeOpen" /\ uart_recive_All = 0
          /\ UNCHANGED <<Timeout1Sec_Uart_StarFlag, Ack_recive_enable, ACC_resend, toStm32>>
    /\ UNCHANGED <<mode, uart_communicate_buf, uartnum, uart_send_flag, CRC_old,
                   uart_waitack_flag, isr, queued, fromStm32, stm32, given, faults, ghosts>>

(* It was completed within this very turn: passed on and acknowledged at   *)
(* once, and CRC_old does not get to know it.                              *)
TurnRefusedReceive ==
    /\ pc = "resend" /\ pc' = "client"
    /\ Ack_recive_enable = 2
    /\ Timeout1Sec_Uart_StarFlag = "TimeOpen" /\ uart_recive_All = 1
    /\ Timeout1Sec_Uart_StarFlag' = "TimeClose"
    /\ olddata' = "0" /\ uart_recive_All' = 0
    /\ \/ /\ Matches
          /\ ACK_recive_satus' = "NOACK" /\ GiveUp
          /\ toStm32' = Append(toStm32, AckFrame(TRUE))
          /\ Uart_cmdprogam(FALSE)
       \/ /\ ~Matches /\ MayTry
          /\ ACC_resend' = ACC_resend + 1
          /\ toStm32' = Append(toStm32, AckFrame(FALSE))
          /\ UNCHANGED <<Ack_recive_enable, ACK_recive_satus, passed, uart_waitack_flag>>
       \/ /\ ~Matches /\ ~MayTry
          /\ GiveUp /\ ACK_recive_satus' = "NOACK"
          /\ UNCHANGED <<toStm32, passed, uart_waitack_flag>>
    /\ UNCHANGED <<mode, uart_communicate_buf, uartnum, uart_send_flag, CRC_old, queued, fromStm32,
                   stm32, given, faults, last, accepted, acked>>

TurnNotRefused ==
    /\ pc = "resend" /\ pc' = "client"
    /\ Ack_recive_enable # 2
    /\ UNCHANGED <<mode, uart_communicate_buf, uartnum, sender, uart_waitack_flag, isr,
                   Timeout1Sec_Uart_StarFlag, wires, stm32, given, faults, ghosts>>

UartDataSendrecive ==
    \/ TurnSend \/ TurnReceive \/ TurnReceiveNothing
    \/ TurnAcked \/ TurnAckReset \/ TurnWaitsAck
    \/ TurnRefused \/ TurnRefusedReceive \/ TurnNotRefused
    \/ uart_send_Bty

(* TimeOutUart_handler(), one second after the timer was started.          *)
TimeOutUart_handler ==
    /\ Timeout1Sec_Uart_StarFlag = "TimeOpen"
    /\ timely => /\ wires = << <<>>, <<>>, <<>> >> /\ pc = "client"
                 /\ ACK_recive_satus = "NOACK" /\ uart_recive_All = 0
                 /\ stm32.apdu # 0 => stm32.waits
    /\ Timeout1Sec_Uart_StarFlag' = "TimeOut"
    /\ UNCHANGED <<mode, uart_communicate_buf, uartnum, sender, uart_waitack_flag, isr, pc,
                   wires, stm32, given, faults, ghosts>>

(* phone_to_ble_data_parse(): the phone acknowledges what it was sent.     *)
PhoneAcks ==
    /\ uart_waitack_flag = 1
    /\ uart_waitack_flag' = 2
    /\ UNCHANGED <<mode, uart_communicate_buf, uartnum, sender, isr,
                   Timeout1Sec_Uart_StarFlag, pc, wires, stm32, given, faults, ghosts>>

-----------------------------------------------------------------------------
(* The STM32.                                                              *)
unchangedDevice == <<mode, uart_communicate_buf, uartnum, sender, uart_waitack_flag, isr,
                     Timeout1Sec_Uart_StarFlag, pc, queued, given, last, acked, passed>>

Fault == faults < MaxFault /\ faults' = faults + 1

(* A good frame is acknowledged; one with a new number is a new command.   *)
Stm32Takes ==
    /\ toStm32 # <<>> /\ Head(toStm32).type = "frame" /\ Head(toStm32).f.good
    /\ toStm32' = Tail(toStm32)
    /\ fromStm32' = fromStm32 \o AckBytes(TRUE)
    /\ LET f == Head(toStm32).f
       IN  IF f.no = stm32.no
           THEN UNCHANGED <<stm32, accepted>>
           ELSE /\ stm32' = [no |-> f.no, apdu |-> IF f.apdu THEN f.id ELSE 0, waits |-> FALSE]
                /\ accepted' = IF f.kind = "command" THEN accepted \union {f.id} ELSE accepted
    /\ UNCHANGED <<unchangedDevice, faults>>

(* A frame is refused when it is not good, or was damaged on the way.      *)
Stm32Refuses ==
    /\ toStm32 # <<>> /\ Head(toStm32).type = "frame"
    /\ toStm32' = Tail(toStm32)
    /\ fromStm32' = fromStm32 \o AckBytes(FALSE)
    /\ IF Head(toStm32).f.good THEN Fault ELSE UNCHANGED faults
    /\ UNCHANGED <<unchangedDevice, stm32, accepted>>

(* What was sent to it is lost, or its acknowledgement is.                 *)
Stm32Misses ==
    /\ toStm32 # <<>>
    /\ Fault
    /\ toStm32' = Tail(toStm32)
    /\ UNCHANGED <<unchangedDevice, fromStm32, stm32, accepted>>

(* The answer to an APDU, whole or damaged.                                *)
Stm32Answers ==
    /\ stm32.apdu # 0 /\ ~stm32.waits
    /\ timely => /\ fromStm32 = <<>> /\ olddata = "0" /\ Ack_recive_enable # 1
                 /\ uart_send_flag = 0 /\ pc \notin {"ackstatus", "ackreset"}
                 /\ uart_waitack_flag = 0
    /\ stm32' = [stm32 EXCEPT !.waits = TRUE]
    /\ \/ /\ fromStm32' = fromStm32 \o FrameBytes(Answer(stm32.apdu, stm32.no, TRUE))
          /\ UNCHANGED faults
       \/ /\ Fault
          /\ fromStm32' = fromStm32 \o FrameBytes(Answer(stm32.apdu, stm32.no, FALSE))
    /\ UNCHANGED <<unchangedDevice, toStm32, accepted>>

(* Its answer is acknowledged, or refused: then it gives up or sends again. *)
Stm32GetsAck ==
    /\ toStm32 # <<>> /\ Head(toStm32).type = "ack"
    /\ toStm32' = Tail(toStm32)
    /\ \/ /\ stm32.waits
          /\ stm32' = [stm32 EXCEPT !.apdu = 0, !.waits = FALSE]
          /\ UNCHANGED faults
       \/ /\ stm32.waits /\ ~Head(toStm32).ok
          /\ stm32' = [stm32 EXCEPT !.waits = FALSE]
          /\ Fault
       \/ /\ ~stm32.waits
          /\ UNCHANGED <<stm32, faults>>
    /\ UNCHANGED <<unchangedDevice, fromStm32, accepted>>

(* No acknowledgement came: it sends its answer again.                     *)
Stm32Repeats ==
    /\ stm32.waits
    /\ Fault
    /\ timely => /\ toStm32 = <<>> /\ fromStm32 = <<>> /\ uart_waitack_flag = 0
                 /\ uart_recive_All = 0 /\ olddata = "0"
    /\ stm32' = [stm32 EXCEPT !.waits = FALSE]
    /\ UNCHANGED <<unchangedDevice, toStm32, fromStm32, accepted>>

Step ==
    \/ KeyCommand \/ DisplayCommand \/ TimerCommand
    \/ PowerOff \/ \E to \in {"time", "key"} : PowerOn(to)
    \/ uart_event_handle \/ UartDataSendrecive \/ TimeOutUart_handler \/ PhoneAcks
    \/ Stm32Takes \/ Stm32Refuses \/ Stm32Misses
    \/ Stm32Answers \/ Stm32GetsAck \/ Stm32Repeats

Next == Step /\ UNCHANGED timely

Spec == Init /\ [][Next]_vars

(* Main takes its turns, a timer that runs goes off, and bytes arrive.     *)
Fairness ==
    /\ WF_vars(UartDataSendrecive) /\ WF_vars(TimeOutUart_handler)
    /\ WF_vars(uart_event_handle)

FairSpec == Spec /\ Fairness

-----------------------------------------------------------------------------
Frame == [kind : {"command", "partial", "answer"}, id : 0 .. MaxGiven, no : 0 .. 255,
          apdu : BOOLEAN, good : BOOLEAN]

TypeOK ==
    /\ Main_status \in {"off", "time", "key"}
    /\ uart_communicate_buf \in Frame
    /\ uartnum \in 0 .. 255
    /\ uart_send_flag \in {0, 1} /\ uart_waitack_flag \in 0 .. 2 /\ uart_recive_All \in {0, 1}
    /\ olddata \in {"0", "a5", "5a", "length", "nouseful", "databytes", "first_5a", "secend_a5"}
    /\ ACK_recive_satus \in {"NOACK", "SuccsACK", "FailACK"}
    /\ Ack_recive_enable \in 0 .. 2
    /\ ACC_resend \in 0 .. MAX_resend - 1
    /\ CRC_old \in 0 .. 2 * MaxGiven + 1
    /\ Timeout1Sec_Uart_StarFlag \in {"TimeClose", "TimeOpen", "TimeOut"}
    /\ pc \in {"client", "receive", "ackstatus", "ackreset", "resend"}
    /\ stm32.no \in 0 .. 255 /\ stm32.apdu \in 0 .. MaxGiven /\ stm32.waits \in BOOLEAN
    /\ given \in 0 .. MaxGiven

(* A command is sent MAX_resend times at most.                             *)
SendsBounded == last.times <= MAX_resend

(* Every variable has its type, and whatever the STM32 and the timeouts do *)
(* no command is sent more than MAX_resend times.                          *)
CountersBounded == TypeOK /\ SendsBounded

(* What uart_send() is about to send, for the first time or again, is a    *)
(* command: in timely behaviours no frame received since has written over  *)
(* it, whatever is refused, damaged or lost.  (An answer that comes while  *)
(* a command waits to be sent again does write over it; where the STM32    *)
(* answers so early SendsRight does not hold.)                             *)
SendsRight ==
    timely /\ pc = "client" /\ uart_enable_flag /\ uart_send_flag = 1 =>
        uart_communicate_buf.kind = "command"

(* The STM32 may send an answer several times; those that the phone gets   *)
(* by the path that knows the last one by its CRC are of different         *)
(* commands.  (The path for what comes after a refused frame neither looks *)
(* at CRC_old nor sets it.)                                                *)
AnswerOnce == \A i, j \in 1 .. Len(passed) :
    i < j /\ passed[i].remembered /\ passed[j].remembered => passed[i].id # passed[j].id

(* What the phone gets is the STM32's undamaged answer to the command sent *)
(* last.                                                                   *)
AnswerCurrent == \A i \in 1 .. Len(passed) :
    /\ passed[i].kind = "answer" /\ passed[i].good
    /\ passed[i].id = passed[i].to

(* Both, in timely behaviours.                                             *)
AnswersRight == timely => AnswerOnce /\ AnswerCurrent

(* In timely behaviours a command counts as acknowledged only when the     *)
(* STM32 has taken it, as long as the number, a byte, does not come round  *)
(* to a command it has not taken.  (After a timeout before its time a late *)
(* acknowledgement is taken for the next command's.)                       *)
AcksRight == timely /\ given < 256 => acked \subseteq accepted

(* No command is waited for forever: it is acknowledged, answered, or      *)
(* given up.                                                               *)
Settles == []<>(uart_send_flag = 0 /\ Ack_recive_enable = 0)
=============================================================================
