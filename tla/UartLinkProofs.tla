-------------------------- MODULE UartLinkProofs ---------------------------
(***************************************************************************)
(* Proofs about UartLink: its counters are bounded in every behaviour, and *)
(* in the behaviours in which no timeout runs out too early the buffer     *)
(* holds the command that is to be sent, the phone gets the answer to the  *)
(* command sent last, and an acknowledged command was taken.               *)
(*                                                                         *)
(* The inductive invariant follows a command: pending, its copy on the     *)
(* queue, the copy on the wire, the acknowledgement on its way or taken,   *)
(* and then the answer on its way into the buffer.  At each place nothing  *)
(* else is under way, so that no byte can be taken for something it is not *)
(* (Waits, Fresh, Rests), the buffer is what that place needs (Holds), and *)
(* the STM32 knows what it must (Works, Taken).  Timed keeps the timer     *)
(* from running where nothing is waited for; Remembered ties CRC_old to    *)
(* what was passed on.                                                     *)
(***************************************************************************)
EXTENDS UartLink, TLAPS, SequenceTheorems

(* What is on the wires.                                                   *)
Wire == [type : {"frame"}, f : Frame] \union [type : {"ack"}, ok : BOOLEAN]
Byte == [b : {"a5", "5a", "00", "01", "head", "data"},
         f : [kind : {"partial", "answer"}, id : 0 .. MaxGiven, no : 0 .. 255,
              apdu : BOOLEAN, good : BOOLEAN]]
Told == [kind : {"command", "partial", "answer"}, id : 0 .. MaxGiven, to : 0 .. MaxGiven,
         good : BOOLEAN, remembered : BOOLEAN]

(* What the STM32 remembers.                                               *)
Stm32States == [no : 0 .. 255, apdu : 0 .. MaxGiven, waits : BOOLEAN]

Types ==
    /\ TypeOK
    /\ queued \in Seq(Frame) /\ toStm32 \in Seq(Wire) /\ fromStm32 \in Seq(Byte)
    /\ stm32 \in Stm32States
    /\ last \in [id : 0 .. MaxGiven, times : Nat]
    /\ passed \in Seq(Told)
    /\ faults \in Nat /\ switches \in Nat /\ timely \in BOOLEAN

(* A command is pending or its acknowledgement is waited for.              *)
Busy == uart_send_flag = 1 \/ Ack_recive_enable = 1

IsCommand == uart_communicate_buf.kind = "command"

(* The numbers of the commands, and how often the last was sent: the turns *)
(* that set ACC_resend back leave nothing to send again.                   *)
Counted ==
    /\ (IsCommand => uart_communicate_buf.id <= given) /\ last.id <= given
    /\ Busy /\ IsCommand => uart_communicate_buf.id >= 1
    /\ Ack_recive_enable = 1 => CRC_old = 0
    /\ pc \in {"receive", "ackstatus"} /\ Ack_recive_enable = 1 => uart_send_flag = 0
    /\ uart_send_flag = 1 /\ Ack_recive_enable # 1 /\ IsCommand =>
           uart_communicate_buf.id > last.id
    /\ Busy /\ IsCommand /\ uart_communicate_buf.id = last.id =>
           last.times + uart_send_flag <= ACC_resend + 1
    /\ last.times <= MAX_resend

-----------------------------------------------------------------------------
(* From here on: what holds as long as no timeout runs out too early.      *)

NoFrame == \A i \in 1 .. Len(toStm32) : toStm32[i].type = "ack"

(* No frame but the command's is on the wire, and that one once at most.   *)
AtMostBuf ==
    /\ \A i \in 1 .. Len(toStm32) : toStm32[i].type = "frame" =>
           toStm32[i].f = uart_communicate_buf
    /\ \A i, j \in 1 .. Len(toStm32) :
           toStm32[i].type = "frame" /\ toStm32[j].type = "frame" => i = j

(* The receiver has nothing and nothing is on its way to it; at "ackreset" *)
(* it is about to forget the acknowledgement.                              *)
Deaf == /\ fromStm32 = <<>> /\ uart_recive_All = 0
        /\ pc # "ackreset" => olddata = "0" /\ ACK_recive_satus = "NOACK"

Still == queued = <<>> /\ NoFrame /\ Deaf

(* A command that was sent: its copy is on the queue, then perhaps on the  *)
(* wire, then its acknowledgement comes, byte by byte, and stays until     *)
(* main has looked; or it is sent again.                                   *)
Again == /\ uart_send_flag = 1 /\ Still
         /\ Timeout1Sec_Uart_StarFlag = "TimeClose"

Queued == /\ uart_send_flag = 0 /\ queued = <<uart_communicate_buf>> /\ NoFrame
          /\ Deaf /\ pc # "ackreset"

Out == /\ uart_send_flag = 0 /\ queued = <<>> /\ AtMostBuf
       /\ Deaf /\ pc # "ackreset"

SuccsBytes == AckBytes(TRUE)
FailBytes  == AckBytes(FALSE)

Coming(bytes, satus) ==
    \/ fromStm32 = bytes /\ olddata = "0" /\ ACK_recive_satus = "NOACK"
    \/ fromStm32 = Tail(bytes) /\ olddata = "first_5a" /\ ACK_recive_satus = "NOACK"
    \/ fromStm32 = Tail(Tail(bytes)) /\ olddata = "secend_a5" /\ ACK_recive_satus = "NOACK"
    \/ fromStm32 = <<>> /\ olddata = "secend_a5" /\ ACK_recive_satus = satus

Acknowledged ==
    /\ uart_send_flag = 0 /\ queued = <<>> /\ NoFrame /\ uart_recive_All = 0
    /\ \/ Coming(FailBytes, "FailACK")
       \/ /\ Coming(SuccsBytes, "SuccsACK")
          /\ given < 256 => uart_communicate_buf.id \in accepted
    /\ pc # "ackreset" /\ Timeout1Sec_Uart_StarFlag # "TimeOut"

(* The buffer holds the command that is to be sent.                        *)
Holds == Busy =>
    /\ uart_communicate_buf.kind = "command" /\ uart_communicate_buf.no = uartnum
    /\ uart_communicate_buf.good
    /\ uart_communicate_buf.apdu => Main_status = "key"
    /\ Main_status # "off"
    /\ Ack_recive_enable # 2

Waits == Ack_recive_enable = 1 =>
    /\ uart_communicate_buf.id = last.id
    /\ Again \/ Queued \/ Out \/ Acknowledged
    /\ Timeout1Sec_Uart_StarFlag = "TimeOut" => Out /\ NoFrame

(* A new command finds nothing under way, nor an APDU at the STM32.        *)
Fresh == uart_send_flag = 1 /\ Ack_recive_enable # 1 => Still /\ stm32.apdu = 0

(* The answer on its way into the buffer, byte by byte.                    *)
Answers == {Answer(last.id, uartnum, good) : good \in BOOLEAN}

Bytes(a, n) == IF n = 0 THEN FrameBytes(a)
               ELSE IF n = 1 THEN Tail(FrameBytes(a))
               ELSE IF n = 2 THEN Tail(Tail(FrameBytes(a)))
               ELSE IF n = 3 THEN Tail(Tail(Tail(FrameBytes(a))))
               ELSE Tail(Tail(Tail(Tail(FrameBytes(a)))))

Arriving(a) ==
    \/ fromStm32 = Bytes(a, 0) /\ olddata = "0" /\ uart_recive_All = 0
    \/ fromStm32 = Bytes(a, 1) /\ olddata = "a5" /\ uart_recive_All = 0
    \/ fromStm32 = Bytes(a, 2) /\ olddata = "5a" /\ uart_recive_All = 0
    \/ fromStm32 = Bytes(a, 3) /\ olddata = "length" /\ uart_recive_All = 0
    \/ fromStm32 = Bytes(a, 4) /\ olddata = "nouseful" /\ uart_recive_All = 0
    \/ /\ fromStm32 = <<>> /\ olddata = "databytes" /\ uart_recive_All = 1
       /\ uart_communicate_buf = a

(* Nothing to send: nothing is under way but an answer, and that only in   *)
(* mode "key"; a mode that ended may have left its frame on the queue.     *)
Rests == ~Busy =>
    /\ Main_status # "off" => queued = <<>>
    /\ NoFrame
    /\ Deaf \/ /\ \E a \in Answers : Arriving(a)
               /\ Main_status = "key" /\ pc # "ackreset" /\ ACK_recive_satus = "NOACK"
    /\ Main_status = "off" => Deaf /\ pc = "client"
    /\ Ack_recive_enable = 2 => Main_status = "key"

Timed == Ack_recive_enable = 0 => Timeout1Sec_Uart_StarFlag = "TimeClose"

(* The STM32 works on the command that was sent last.                      *)
Works == stm32.apdu # 0 =>
    Main_status = "key" /\ stm32.apdu = last.id /\ stm32.no = uartnum

(* The STM32 has taken the command whose number it knows.                  *)
Taken == given < 256 =>
    /\ stm32.no <= uartnum /\ uartnum <= given
    /\ Busy => uartnum >= 1
    /\ Busy /\ stm32.no = uartnum =>
           Ack_recive_enable = 1 /\ uart_communicate_buf.id \in accepted
    /\ acked \subseteq accepted

Remembered ==
    /\ AnswerOnce /\ AnswerCurrent
    /\ \A i \in 1 .. Len(passed) :
           /\ passed[i].id <= last.id
           /\ passed[i].id = last.id => Ack_recive_enable # 1
           /\ /\ passed[i].id = last.id /\ passed[i].remembered
              /\ Main_status = "key" /\ uart_send_flag = 0
              => CRC_old = 2 * last.id + 1

OnTime == Holds /\ Waits /\ Fresh /\ Rests /\ Timed /\ Works /\ Taken /\ Remembered

IInv == Types /\ Counted /\ (timely => OnTime)
-----------------------------------------------------------------------------
(* Facts about the operators.                                              *)

(* What is put on a wire is of the wire's type.                            *)
LEMMA AckBytesType ==
    ASSUME NEW ok \in BOOLEAN
    PROVE  AckBytes(ok) \in Seq(Byte)
<1> DEFINE f == [kind |-> "partial", id |-> 0, no |-> 0, apdu |-> FALSE, good |-> FALSE]
<1>1. f \in [kind : {"partial", "answer"}, id : 0 .. MaxGiven, no : 0 .. 255,
             apdu : BOOLEAN, good : BOOLEAN]
    BY UartAssumption
<1>2. AckBytes(ok) = <<[b |-> "5a", f |-> f], [b |-> "a5", f |-> f],
                       [b |-> IF ok THEN "00" ELSE "01", f |-> f]>>
    BY DEF AckBytes
<1> HIDE DEF f
<1>3. /\ [b |-> "5a", f |-> f] \in Byte /\ [b |-> "a5", f |-> f] \in Byte
      /\ [b |-> IF ok THEN "00" ELSE "01", f |-> f] \in Byte
    BY <1>1 DEF Byte
<1> QED BY <1>2, <1>3

(* A received frame is of the receiver's type, byte by byte.               *)
LEMMA AnswerType ==
    ASSUME NEW n \in 0 .. MaxGiven, NEW no \in 0 .. 255, NEW good \in BOOLEAN
    PROVE  FrameBytes(Answer(n, no, good)) \in Seq(Byte)
<1> DEFINE f == Answer(n, no, good)
<1>1. f \in [kind : {"partial", "answer"}, id : 0 .. MaxGiven, no : 0 .. 255,
             apdu : BOOLEAN, good : BOOLEAN]
    BY DEF Answer
<1> HIDE DEF f
<1>2. /\ [b |-> "a5", f |-> f] \in Byte /\ [b |-> "5a", f |-> f] \in Byte
      /\ [b |-> "00", f |-> f] \in Byte /\ [b |-> "head", f |-> f] \in Byte
      /\ [b |-> "data", f |-> f] \in Byte
    BY <1>1 DEF Byte
<1>3. FrameBytes(f) \in Seq(Byte)
    BY <1>2 DEF FrameBytes
<1> QED BY <1>3 DEF f

(* A frame that is being overwritten.                                      *)
LEMMA PartialType ==
    ASSUME NEW f \in Frame
    PROVE  /\ [f EXCEPT !.kind = "partial", !.good = FALSE] \in Frame
           /\ [f EXCEPT !.kind = "partial", !.good = FALSE].id = f.id
           /\ [f EXCEPT !.kind = "partial", !.good = FALSE].kind = "partial"
    BY DEF Frame

(* What a byte brings can be put into the buffer.                          *)
LEMMA ByteType ==
    ASSUME NEW byte \in Byte
    PROVE  /\ byte.f \in Frame /\ byte.f.kind # "command" /\ byte.f.id \in 0 .. MaxGiven
    BY DEF Byte, Frame

(* The CRC of a frame is in the range of CRC_old.                          *)
LEMMA CrcType ==
    ASSUME NEW f \in Frame
    PROVE  Crc(f) \in 0 .. 2 * MaxGiven + 1
<1>1. f.id \in 0 .. MaxGiven BY DEF Frame
<1> QED BY <1>1, UartAssumption DEF Crc

(* The acknowledgements main sends.                                        *)
LEMMA AckFrameType ==
    ASSUME NEW s \in Seq(Wire)
    PROVE  Append(s, AckFrame(TRUE)) \in Seq(Wire) /\ Append(s,
    AckFrame(FALSE)) \in Seq(Wire)
<1>1. AckFrame(TRUE) \in Wire /\ AckFrame(FALSE) \in Wire BY DEF AckFrame, Wire
<1> QED BY <1>1, AppendProperties

(* The copy that uart_send() makes can be put on the wire.                 *)
LEMMA FrameWireType ==
    ASSUME NEW f \in Frame
    PROVE  [type |-> "frame", f |-> f] \in Wire
    BY DEF Wire

(* The STM32's states, as its three fields.                                *)
LEMMA Stm32Type ==
    ASSUME NEW s \in Stm32States, NEW f \in Frame
    PROVE  /\ [s EXCEPT !.waits = TRUE] \in Stm32States
           /\ [s EXCEPT !.waits = FALSE] \in Stm32States
           /\ [s EXCEPT !.apdu = 0, !.waits = FALSE] \in Stm32States
           /\ [no |-> f.no, apdu |-> IF f.apdu THEN f.id ELSE 0,
              waits |-> FALSE] \in Stm32States
           /\ Idle \in Stm32States
<1>1. f.no \in 0 .. 255 /\ f.id \in 0 .. MaxGiven /\ 0 \in 0 .. MaxGiven
    BY UartAssumption DEF Frame
<1>2. (IF f.apdu THEN f.id ELSE 0) \in 0 .. MaxGiven BY <1>1
<1> DEFINE n == IF f.apdu THEN f.id ELSE 0
<1> HIDE DEF n
<1>3. [no |-> f.no, apdu |-> n, waits |-> FALSE] \in Stm32States
    BY <1>1, <1>2 DEF n, Stm32States
<1>4. [s EXCEPT !.apdu = 0] \in Stm32States BY <1>1 DEF Stm32States
<1>5. [s EXCEPT !.apdu = 0, !.waits = FALSE] \in Stm32States BY <1>4 DEF Stm32States
<1>6. Idle \in Stm32States BY <1>1 DEF Idle, Stm32States
<1>7. [s EXCEPT !.waits = TRUE] \in Stm32States
      /\ [s EXCEPT !.waits = FALSE] \in Stm32States
    BY DEF Stm32States
<1> QED BY <1>3, <1>5, <1>6, <1>7 DEF n

(* What was sent last, after one more command.                             *)
LEMMA LastType ==
    ASSUME NEW l \in [id : 0 .. MaxGiven, times : Nat], NEW f \in Frame
    PROVE  /\ [l EXCEPT !.times = @ + 1] \in [id : 0 .. MaxGiven, times : Nat]
           /\ [id |-> f.id, times |-> 1] \in [id : 0 .. MaxGiven, times : Nat]
    BY DEF Frame

(* A command: its number and its place in the count.                       *)
LEMMA CmdSendUartType ==
    ASSUME Types, CmdSendUart(TRUE) \/ CmdSendUart(FALSE)
    PROVE  /\ given' = given + 1 /\ given' \in 0 .. MaxGiven
           /\ uartnum' \in 0 .. 255 /\ (uartnum < 255 => uartnum' = uartnum + 1)
           /\ uart_communicate_buf' \in Frame
           /\ uart_communicate_buf'.id = given' /\ uart_communicate_buf'.kind = "command"
           /\ uart_send_flag' = 1
<1>1. given \in Nat /\ given < MaxGiven /\ uartnum \in 0 .. 255 /\ given' = given + 1
      /\ MaxGiven \in Nat
    <2>1. given < MaxGiven /\ given' = given + 1 BY DEF CmdSendUart
    <2> QED BY <2>1, UartAssumption DEF Types, TypeOK
<1>2. uartnum' = (uartnum + 1) % 256 /\ uart_send_flag' = 1
    BY DEF CmdSendUart
<1>3. uartnum' \in 0 .. 255 /\ (uartnum < 255 => uartnum' = uartnum + 1)
    BY <1>1, <1>2
<1>4. given' \in 0 .. MaxGiven BY <1>1
<1>5. \/ uart_communicate_buf' = [kind |-> "command", id |-> given', no |-> uartnum',
                                   apdu |-> TRUE, good |-> TRUE]
      \/ uart_communicate_buf' = [kind |-> "command", id |-> given', no |-> uartnum',
                                   apdu |-> FALSE, good |-> TRUE]
    BY <1>1 DEF CmdSendUart, Command
<1>6. /\ uart_communicate_buf' \in Frame /\ uart_communicate_buf'.id = given'
      /\ uart_communicate_buf'.kind = "command" /\ uart_communicate_buf'.no = uartnum'
    <2> DEFINE n == given'
               no == uartnum'
               f == uart_communicate_buf'
    <2>1. \/ f = [kind |-> "command", id |-> n, no |-> no, apdu |-> TRUE, good |-> TRUE]
          \/ f = [kind |-> "command", id |-> n, no |-> no, apdu |-> FALSE, good |-> TRUE]
        BY <1>5
    <2>2. n \in 0 .. MaxGiven /\ no \in 0 .. 255 BY <1>3, <1>4
    <2> HIDE DEF n, no, f
    <2>3. f \in Frame /\ f.id = n /\ f.kind = "command" /\ f.no = no
        <3>1. CASE f = [kind |-> "command", id |-> n, no |-> no, apdu |-> TRUE, good |-> TRUE]
            BY <2>2, <3>1 DEF Frame
        <3>2. CASE f = [kind |-> "command", id |-> n, no |-> no, apdu |-> FALSE, good |-> TRUE]
            BY <2>2, <3>2 DEF Frame
        <3> QED BY <2>1, <3>1, <3>2
    <2> QED BY <2>3 DEF n, no, f
<1> QED BY <1>1, <1>2, <1>3, <1>4, <1>6

(* What is passed on to the phone.                                         *)
LEMMA PassedType ==
    ASSUME Types, NEW remembered \in BOOLEAN,
           Uart_cmdprogam(remembered) \/ UNCHANGED <<passed, uart_waitack_flag>>
    PROVE  passed' \in Seq(Told) /\ uart_waitack_flag' \in 0 .. 2
<1> DEFINE told == [kind |-> uart_communicate_buf.kind,
                    id |-> uart_communicate_buf.id, to |-> last.id,
                    good |-> uart_communicate_buf.good, remembered |-> remembered]
<1>1. told \in Told /\ passed \in Seq(Told) /\ uart_waitack_flag \in 0 .. 2
    BY DEF Types, TypeOK, Told, Frame
<1>2. \/ passed' = Append(passed, told) /\ uart_waitack_flag' = 1
      \/ passed' = passed /\ uart_waitack_flag' = uart_waitack_flag
    BY DEF Uart_cmdprogam
<1> HIDE DEF told
<1>3. Append(passed, told) \in Seq(Told) BY <1>1, AppendProperties
<1> QED BY <1>1, <1>2, <1>3

-----------------------------------------------------------------------------
(* Every step keeps the types.                                             *)
LEMMA TypesKept == ASSUME Types, Next PROVE Types'
<1>0. timely' = timely BY DEF Next
<1>1. CASE KeyCommand
    <2>1. CmdSendUart(TRUE) \/ CmdSendUart(FALSE) BY <1>1 DEF KeyCommand
    <2>2. given' \in 0 .. MaxGiven /\ uartnum' \in 0 .. 255
          /\ uart_communicate_buf' \in Frame
          /\ uart_send_flag' = 1
        BY <2>1, CmdSendUartType
    <2> QED
        BY <1>1, <2>2, <1>0 DEF KeyCommand, Types, Stm32States, TypeOK, mode, sender, isr,
            wires, ghosts
<1>2. CASE DisplayCommand
    <2>1. CmdSendUart(TRUE) \/ CmdSendUart(FALSE) BY <1>2 DEF DisplayCommand
    <2>2. given' \in 0 .. MaxGiven /\ uartnum' \in 0 .. 255
          /\ uart_communicate_buf' \in Frame
          /\ uart_send_flag' = 1
        BY <2>1, CmdSendUartType
    <2> QED
        BY <1>2, <2>2, <1>0 DEF DisplayCommand, Types, Stm32States, TypeOK, mode, sender,
            isr, wires, ghosts
<1>3. CASE TimerCommand
    <2>1. CmdSendUart(TRUE) \/ CmdSendUart(FALSE) BY <1>3 DEF TimerCommand
    <2>2. given' \in 0 .. MaxGiven /\ uartnum' \in 0 .. 255
          /\ uart_communicate_buf' \in Frame
          /\ uart_send_flag' = 1
        BY <2>1, CmdSendUartType
    <2> QED
        BY <1>3, <2>2, <1>0 DEF TimerCommand, Types, Stm32States, TypeOK, mode, sender, isr,
            wires, ghosts
<1>4. CASE PowerOff
    BY <1>4, <1>0, UartAssumption DEF PowerOff, Uart_close, Stm32Off, Idle, Types,
        Stm32States, TypeOK, mode, sender, isr, wires, ghosts
<1>5. ASSUME NEW to \in {"time", "key"}, PowerOn(to) PROVE Types'
    <2>1. given + 1 \in 0 .. MaxGiven /\ given' = given + 1
        BY <1>5, UartAssumption DEF PowerOn, Types, TypeOK
    <2>2. uart_communicate_buf' = [kind |-> "command", id |-> given + 1, no |-> 1,
                                   apdu |-> FALSE, good |-> TRUE] /\ uartnum' = 1
        BY <1>5 DEF PowerOn, Command
    <2>3. uart_communicate_buf' \in Frame BY <2>1, <2>2 DEF Frame
    <2>4. stm32' \in Stm32States
        <3>1. stm32' = Idle BY <1>5 DEF PowerOn, Stm32Off
        <3> QED BY <3>1, UartAssumption DEF Idle, Stm32States
    <2>5. /\ ACC_resend' = 0 /\ CRC_old' = 0 /\ Ack_recive_enable' = 0
          /\ uart_recive_All' = 0 /\ olddata' = "0" /\ ACK_recive_satus' = "NOACK"
          /\ Timeout1Sec_Uart_StarFlag' = "TimeClose" /\ Main_status' = to
          /\ uart_send_flag' = 1 /\ switches' = switches + 1
          /\ toStm32' = <<>> /\ fromStm32' = <<>>
          /\ UNCHANGED <<queued, uart_waitack_flag, pc, faults, last, passed>>
        BY <1>5 DEF PowerOn, Uart_close, Stm32Off, ghosts
    <2>6. switches' \in Nat BY <2>5 DEF Types
    <2>7. 0 \in 0 .. MAX_resend - 1 /\ 0 \in 0 .. 2 * MaxGiven + 1 BY UartAssumption
    <2>8. /\ toStm32' \in Seq(Wire) /\ fromStm32' \in Seq(Byte) /\ queued' \in Seq(Frame)
          /\ passed' \in Seq(Told)
        BY <2>5 DEF Types
    <2>9. stm32'.no \in 0 .. 255 /\ stm32'.apdu \in 0 .. MaxGiven
          /\ stm32'.waits \in BOOLEAN
        BY <2>4 DEF Stm32States
    <2>10. TypeOK' BY <1>5, <2>1, <2>2, <2>3, <2>5, <2>7, <2>9 DEF Types, TypeOK
    <2> QED BY <2>10, <2>4, <2>5, <2>6, <2>8, <1>0 DEF Types
<1>6. CASE uart_event_handle
    <2>1. Head(fromStm32) \in Byte /\ Tail(fromStm32) \in Seq(Byte)
        BY <1>6, HeadTailProperties DEF uart_event_handle, Types
    <2> DEFINE byte == Head(fromStm32)
    <2>2. fromStm32' = Tail(fromStm32)
        BY <1>6 DEF uart_event_handle
    <2>3. RxStart(byte) \/ RxSecond(byte) \/ RxFrame(byte) \/ RxStatus(byte) \/ RxDropped
        BY <1>6 DEF uart_event_handle
    <2>4. byte.f \in Frame /\ [byte.f EXCEPT !.kind = "partial", !.good = FALSE] \in Frame
          /\ [uart_communicate_buf EXCEPT !.kind = "partial", !.good = FALSE] \in Frame
        BY <2>1, PartialType, ByteType DEF Types, TypeOK
    <2>5. /\ uart_communicate_buf' \in Frame
          /\ uart_recive_All' \in {0, 1}
          /\ olddata' \in {"0", "a5", "5a", "length", "nouseful", "databytes", "first_5a",
             "secend_a5"}
          /\ ACK_recive_satus' \in {"NOACK", "SuccsACK", "FailACK"}
        <3> HIDE DEF byte
        <3> QED
            BY <2>3, <2>4 DEF RxStart, RxSecond, RxFrame, RxStatus, RxDropped, Types,
                TypeOK, isr
    <2> HIDE DEF byte
    <2> QED
        BY <1>6, <2>1, <2>2, <2>5, <1>0 DEF uart_event_handle, Types, Stm32States, TypeOK,
            mode, sender, isr, wires, ghosts
<1>7. CASE TurnSend
    <2>1. toStm32' \in Seq(Wire) BY <1>7, AckFrameType DEF TurnSend, Types
    <2>2. queued' \in Seq(Frame) BY <1>7 DEF TurnSend, Types, TypeOK
    <2>3. last' \in [id : 0 .. MaxGiven, times : Nat]
        <3>1. \/ last' = last \/ last' = [last EXCEPT !.times = @ + 1]
              \/ last' = [id |-> uart_communicate_buf.id, times |-> 1]
            BY <1>7 DEF TurnSend
        <3> QED BY <3>1, LastType DEF Types, TypeOK
    <2>4. /\ uart_send_flag' \in {0, 1} /\ CRC_old' \in 0 .. 2 * MaxGiven + 1
          /\ Ack_recive_enable' \in 0 .. 2 /\ uart_waitack_flag' \in 0 .. 2
          /\ pc' = "receive"
        <3>1. /\ uart_send_flag' = 0 \/ uart_send_flag' = uart_send_flag
              /\ CRC_old' = 0 \/ CRC_old' = CRC_old
              /\ Ack_recive_enable' = 1 \/ Ack_recive_enable' = Ack_recive_enable
              /\ uart_waitack_flag' = 0 \/ uart_waitack_flag' = uart_waitack_flag
              /\ pc' = "receive"
            BY <1>7 DEF TurnSend
        <3>2. 0 \in 0 .. 2 * MaxGiven + 1 BY UartAssumption
        <3> QED BY <3>1, <3>2 DEF Types, TypeOK
    <2>5. UNCHANGED <<Main_status, switches, uart_communicate_buf, uartnum, ACC_resend,
                      uart_recive_All, olddata, ACK_recive_satus, Timeout1Sec_Uart_StarFlag,
                      fromStm32, stm32, given, faults, passed>>
        BY <1>7 DEF TurnSend, mode, isr
    <2> QED BY <2>1, <2>2, <2>3, <2>4, <2>5, <1>0 DEF Types, TypeOK
<1>8. CASE TurnReceive
    <2>1. CRC_old' \in 0 .. 2 * MaxGiven + 1 /\ Ack_recive_enable' \in 0 .. 2
        <3>1. /\ CRC_old' = CRC_old \/ CRC_old' = Crc(uart_communicate_buf)
              /\ Ack_recive_enable' = Ack_recive_enable \/ Ack_recive_enable' \in {0, 2}
            BY <1>8 DEF TurnReceive, Refuse
        <3> QED BY <3>1, CrcType DEF Types, TypeOK
    <2>2. toStm32' = toStm32 \/ toStm32' = Append(toStm32, AckFrame(FALSE))
        BY <1>8 DEF TurnReceive, Refuse
    <2>3. toStm32' \in Seq(Wire) BY <2>2, AckFrameType DEF Types
    <2>4. Uart_cmdprogam(TRUE) \/ UNCHANGED <<passed, uart_waitack_flag>>
        BY <1>8 DEF TurnReceive
    <2>5. passed' \in Seq(Told) /\ uart_waitack_flag' \in 0 .. 2 BY <2>4, PassedType
    <2>6. /\ pc' = "ackstatus" /\ Timeout1Sec_Uart_StarFlag' = "TimeClose"
          /\ ACC_resend' = 0
          /\ ACK_recive_satus' = "NOACK" /\ uart_recive_All' = 0 /\ olddata' = "0"
          /\ UNCHANGED <<Main_status, switches, uart_communicate_buf, uartnum,
                         uart_send_flag,
                         queued, fromStm32, stm32, given, faults, last>>
        BY <1>8 DEF TurnReceive, mode
    <2> QED BY <2>1, <2>3, <2>5, <2>6, <1>0, UartAssumption DEF Types, TypeOK
<1>9. CASE TurnReceiveNothing
    BY <1>9, <1>0 DEF TurnReceiveNothing, Types, Stm32States, TypeOK, mode, sender, isr,
        wires, ghosts
<1>10. CASE TurnAcked
    <2>1. ACC_resend' \in 0 .. MAX_resend - 1
        BY <1>10, UartAssumption DEF TurnAcked, MayTry, GiveUp, Types, TypeOK
    <2> QED
        BY <1>10, <2>1, <1>0 DEF TurnAcked, GiveUp, Types, Stm32States, TypeOK, mode,
            sender, isr, wires, ghosts
<1>11. CASE TurnAckReset
    BY <1>11, <1>0 DEF TurnAckReset, Types, Stm32States, TypeOK, mode, sender, isr, wires,
        ghosts
<1>12. CASE TurnWaitsAck
    <2>1. /\ ACC_resend' \in 0 .. MAX_resend - 1
          /\ uart_send_flag' \in {0, 1} /\ Ack_recive_enable' \in 0 .. 2
          /\ Timeout1Sec_Uart_StarFlag' \in {"TimeClose", "TimeOpen", "TimeOut"}
          /\ CRC_old' = CRC_old
        BY <1>12, UartAssumption DEF TurnWaitsAck, MayTry, GiveUp, Types, TypeOK, sender
    <2> QED
        BY <1>12, <2>1, <1>0 DEF TurnWaitsAck, Types, Stm32States, TypeOK, mode, sender,
            isr, wires, ghosts
<1>13. CASE TurnRefused
    <2>1. /\ ACC_resend' \in 0 .. MAX_resend - 1 /\ Ack_recive_enable' \in 0 .. 2
          /\ Timeout1Sec_Uart_StarFlag' \in {"TimeClose", "TimeOpen", "TimeOut"}
        <3>1. /\ \/ ACC_resend' = ACC_resend + 1 /\ MayTry
                 \/ ACC_resend' = 0 \/ ACC_resend' = ACC_resend
              /\ Ack_recive_enable' = 0 \/ Ack_recive_enable' = Ack_recive_enable
              /\ Timeout1Sec_Uart_StarFlag' \in {"TimeClose", "TimeOpen", "TimeOut"}
            BY <1>13 DEF TurnRefused, GiveUp
        <3> QED BY <3>1, UartAssumption DEF MayTry, Types, TypeOK
    <2>2. toStm32' = toStm32 \/ toStm32' = Append(toStm32, AckFrame(FALSE))
        BY <1>13 DEF TurnRefused
    <2>3. toStm32' \in Seq(Wire) BY <2>2, AckFrameType DEF Types
    <2> QED
        BY <1>13, <2>1, <2>3, <1>0 DEF TurnRefused, Types, Stm32States, TypeOK, mode,
            sender, isr, wires, ghosts
<1>14. CASE TurnRefusedReceive
    <2>1. ACC_resend' \in 0 .. MAX_resend - 1 /\ Ack_recive_enable' \in 0 .. 2
          /\ ACK_recive_satus' \in {"NOACK", "SuccsACK", "FailACK"}
        <3>1. /\ \/ ACC_resend' = ACC_resend + 1 /\ MayTry
                 \/ ACC_resend' = 0
              /\ Ack_recive_enable' = 0 \/ Ack_recive_enable' = Ack_recive_enable
              /\ ACK_recive_satus' = "NOACK" \/ ACK_recive_satus' = ACK_recive_satus
            BY <1>14 DEF TurnRefusedReceive, GiveUp
        <3> QED BY <3>1, UartAssumption DEF MayTry, Types, TypeOK
    <2>2. \/ toStm32' = toStm32 \/ toStm32' = Append(toStm32, AckFrame(FALSE))
          \/ toStm32' = Append(toStm32, AckFrame(TRUE))
        BY <1>14 DEF TurnRefusedReceive
    <2>3. toStm32' \in Seq(Wire) BY <2>2, AckFrameType DEF Types
    <2>4. Uart_cmdprogam(FALSE) \/ UNCHANGED <<passed, uart_waitack_flag>>
        BY <1>14 DEF TurnRefusedReceive
    <2>5. passed' \in Seq(Told) /\ uart_waitack_flag' \in 0 .. 2 BY <2>4, PassedType
    <2>6. /\ pc' = "client" /\ Timeout1Sec_Uart_StarFlag' = "TimeClose"
          /\ uart_recive_All' = 0 /\ olddata' = "0"
          /\ UNCHANGED <<Main_status, switches, uart_communicate_buf, uartnum,
                         uart_send_flag,
                         CRC_old, queued, fromStm32, stm32, given, faults, last>>
        BY <1>14 DEF TurnRefusedReceive, mode
    <2> QED BY <2>1, <2>3, <2>5, <2>6, <1>0 DEF Types, TypeOK
<1>15. CASE TurnNotRefused
    BY <1>15, <1>0 DEF TurnNotRefused, Types, Stm32States, TypeOK, mode, sender, isr, wires,
        ghosts
<1>16. CASE uart_send_Bty
    <2>1. Head(queued) \in Frame /\ Tail(queued) \in Seq(Frame)
        BY <1>16, HeadTailProperties DEF uart_send_Bty, Types
    <2>2. [type |-> "frame", f |-> Head(queued)] \in Wire BY <2>1, FrameWireType
    <2>3. Append(toStm32, [type |-> "frame", f |-> Head(queued)]) \in Seq(Wire)
        BY <2>2, AppendProperties DEF Types
    <2>4. toStm32' \in Seq(Wire) BY <1>16, <2>3 DEF uart_send_Bty, Types
    <2> QED
        BY <1>16, <2>1, <2>4, <1>0 DEF uart_send_Bty, Types, Stm32States, TypeOK, mode,
            sender, isr, wires, ghosts
<1>17. CASE TimeOutUart_handler
    BY <1>17, <1>0 DEF TimeOutUart_handler, Types, Stm32States, TypeOK, mode, sender, isr,
        wires, ghosts
<1>18. CASE PhoneAcks
    BY <1>18, <1>0 DEF PhoneAcks, Types, Stm32States, TypeOK, mode, sender, isr, wires,
        ghosts
<1>19. CASE Stm32Takes
    <2>1. Head(toStm32) \in Wire /\ toStm32' \in Seq(Wire)
        BY <1>19, HeadTailProperties DEF Stm32Takes, Types
    <2>2. fromStm32' \in Seq(Byte)
        BY <1>19, AckBytesType, ConcatProperties DEF Stm32Takes, Types
    <2>3. Head(toStm32).f \in Frame BY <1>19, <2>1 DEF Stm32Takes, Wire
    <2> DEFINE f == Head(toStm32).f
    <2>4. \/ stm32' = stm32
          \/ stm32' = [no |-> f.no, apdu |-> IF f.apdu THEN f.id ELSE 0, waits |-> FALSE]
        BY <1>19 DEF Stm32Takes
    <2> HIDE DEF f
    <2>6. stm32' \in Stm32States BY <2>3, <2>4, Stm32Type DEF Types, f
    <2>7. UNCHANGED faults /\ UNCHANGED unchangedDevice BY <1>19 DEF Stm32Takes
    <2> QED
        BY <2>7, <2>1, <2>2, <2>6, <1>0 DEF unchangedDevice, Types, Stm32States, TypeOK,
            mode, sender, isr, wires, ghosts
<1>20. CASE Stm32Refuses
    <2>1. toStm32' \in Seq(Wire) BY <1>20, HeadTailProperties DEF Stm32Refuses, Types
    <2>2. fromStm32' \in Seq(Byte)
        BY <1>20, AckBytesType, ConcatProperties DEF Stm32Refuses, Types
    <2>3. faults' \in Nat BY <1>20 DEF Stm32Refuses, Fault, Types
    <2>4. UNCHANGED stm32 /\ UNCHANGED unchangedDevice BY <1>20 DEF Stm32Refuses
    <2> QED
        BY <2>4, <2>1, <2>2, <2>3, <1>0 DEF unchangedDevice, Types, Stm32States, TypeOK,
            mode, sender, isr, wires, ghosts
<1>21. CASE Stm32Misses
    <2>1. toStm32' \in Seq(Wire) BY <1>21, HeadTailProperties DEF Stm32Misses, Types
    <2> QED
        BY <1>21, <2>1, <1>0 DEF Stm32Misses, unchangedDevice, Fault, Types, Stm32States,
            TypeOK, mode, sender, isr, wires, ghosts
<1>22. CASE Stm32Answers
    <2>1. stm32' = [stm32 EXCEPT !.waits = TRUE] BY <1>22 DEF Stm32Answers
    <2>2. stm32' \in Stm32States BY <2>1, Stm32Type DEF Types, TypeOK
    <2>3. PICK good \in BOOLEAN :
              fromStm32' = fromStm32 \o FrameBytes(Answer(stm32.apdu, stm32.no, good))
        BY <1>22 DEF Stm32Answers
    <2>4. stm32.apdu \in 0 .. MaxGiven /\ stm32.no \in 0 .. 255 BY DEF Types, TypeOK
    <2>5. fromStm32' \in Seq(Byte) BY <2>3, <2>4, AnswerType, ConcatProperties DEF Types
    <2>6. UNCHANGED faults \/ Fault BY <1>22 DEF Stm32Answers
    <2>7. faults' \in Nat BY <2>6 DEF Fault, Types
    <2>8. UNCHANGED toStm32 /\ UNCHANGED unchangedDevice BY <1>22 DEF Stm32Answers
    <2> QED
        BY <2>8, <2>2, <2>5, <2>7, <1>0 DEF unchangedDevice, Types, Stm32States, TypeOK,
            mode, sender, isr, wires, ghosts
<1>23. CASE Stm32GetsAck
    <2>1. toStm32' \in Seq(Wire) BY <1>23, HeadTailProperties DEF Stm32GetsAck, Types
    <2>2. \/ stm32' = stm32 \/ stm32' = [stm32 EXCEPT !.waits = FALSE]
          \/ stm32' = [stm32 EXCEPT !.apdu = 0, !.waits = FALSE]
        BY <1>23 DEF Stm32GetsAck
    <2>3. stm32' \in Stm32States
        BY <2>2, Stm32Type DEF Types, TypeOK
    <2>4. UNCHANGED faults \/ Fault BY <1>23 DEF Stm32GetsAck
    <2>5. faults' \in Nat BY <2>4 DEF Fault, Types
    <2>6. UNCHANGED fromStm32 /\ UNCHANGED unchangedDevice BY <1>23 DEF Stm32GetsAck
    <2> QED
        BY <2>6, <2>1, <2>3, <2>5, <1>0 DEF unchangedDevice, Types, Stm32States, TypeOK,
            mode, sender, isr, wires, ghosts
<1>24. CASE Stm32Repeats
    <2>1. stm32' = [stm32 EXCEPT !.waits = FALSE] BY <1>24 DEF Stm32Repeats
    <2>2. stm32' \in Stm32States BY <2>1, Stm32Type DEF Types, TypeOK
    <2>3. faults' \in Nat BY <1>24 DEF Stm32Repeats, Fault, Types
    <2>4. UNCHANGED <<toStm32, fromStm32>> /\ UNCHANGED unchangedDevice
        BY <1>24 DEF Stm32Repeats
    <2> QED
        BY <2>4, <2>2, <2>3, <1>0 DEF unchangedDevice, Types, Stm32States, TypeOK, mode,
            sender, isr, wires, ghosts
<1> QED
    BY <1>1, <1>2, <1>3, <1>4, <1>5, <1>6, <1>7, <1>8, <1>9, <1>10, <1>11, <1>12, <1>13,
       <1>14, <1>15, <1>16, <1>17, <1>18, <1>19, <1>20, <1>21, <1>22, <1>23, <1>24
    DEF Next, Step, UartDataSendrecive
-----------------------------------------------------------------------------
(* Every step keeps the counts.                                            *)
Numbers ==
    /\ given \in Nat /\ last.id \in Nat /\ last.times \in Nat
    /\ uart_communicate_buf.id \in Nat
    /\ uart_communicate_buf \in Frame /\ last \in [id : 0 .. MaxGiven, times : Nat]
    /\ uart_send_flag \in {0, 1} /\ Ack_recive_enable \in 0 .. 2
    /\ ACC_resend \in Nat /\ ACC_resend < MAX_resend /\ MAX_resend \in Nat
    /\ MAX_resend >= 1
    /\ CRC_old \in Nat

(* The types give them.                                                    *)
LEMMA NumbersHold == ASSUME Types PROVE Numbers
    BY UartAssumption DEF Types, TypeOK, Numbers, Frame

(* A new command is counted from the start.                                *)
LEMMA NewCommand ==
    ASSUME Numbers, Counted, given' = given + 1, uart_send_flag' = 1,
           uart_communicate_buf'.id = given', uart_communicate_buf'.kind = "command",
           UNCHANGED <<last, pc, ACC_resend, Ack_recive_enable, CRC_old>>,
           pc = "client" \/ Ack_recive_enable = 0
    PROVE  Counted'
<1>1. last'.id < uart_communicate_buf'.id BY DEF Counted, Numbers
<1> QED BY <1>1 DEF Counted, Numbers, Busy, IsCommand

(* The counts after every step.                                            *)
LEMMA CountedKept == ASSUME Types, Counted, Next PROVE Counted'
<1>0. Numbers BY NumbersHold
<1> USE <1>0 DEF Numbers
<1> DEFINE Same == UNCHANGED <<uart_communicate_buf, given, last, uart_send_flag,
                               Ack_recive_enable, CRC_old, ACC_resend>>
<1>s. ASSUME Same, pc' = pc \/ pc' \in {"client", "ackreset", "resend"} \/ Ack_recive_enable # 1
             \/ uart_send_flag = 0
      PROVE Counted'
    BY <1>s DEF Counted, Busy, IsCommand
<1>1. CASE KeyCommand
    <2>1. CmdSendUart(TRUE) \/ CmdSendUart(FALSE) BY <1>1 DEF KeyCommand
    <2>2. UNCHANGED <<last, pc, ACC_resend, Ack_recive_enable, CRC_old>> /\ pc = "client"
        BY <1>1 DEF KeyCommand, ghosts
    <2> QED BY <2>1, <2>2, CmdSendUartType, NewCommand
<1>2. CASE DisplayCommand
    <2>1. CmdSendUart(TRUE) \/ CmdSendUart(FALSE) BY <1>2 DEF DisplayCommand
    <2>2. UNCHANGED <<last, pc, ACC_resend, Ack_recive_enable, CRC_old>> /\ pc = "client"
        BY <1>2 DEF DisplayCommand, ghosts
    <2> QED BY <2>1, <2>2, CmdSendUartType, NewCommand
<1>3. CASE TimerCommand
    <2>1. CmdSendUart(TRUE) \/ CmdSendUart(FALSE) BY <1>3 DEF TimerCommand
    <2>2. UNCHANGED <<last, pc, ACC_resend, Ack_recive_enable,
                      CRC_old>> /\ Ack_recive_enable = 0
        BY <1>3 DEF TimerCommand, ghosts
    <2> QED BY <2>1, <2>2, CmdSendUartType, NewCommand
<1>4. CASE PowerOff
    <2>1. /\ uart_send_flag' = 0 /\ Ack_recive_enable' = 0
          /\ UNCHANGED <<uart_communicate_buf, given, last>>
        BY <1>4 DEF PowerOff, Uart_close, ghosts
    <2> QED BY <2>1 DEF Counted, Busy, IsCommand
<1>5. ASSUME NEW to \in {"time", "key"}, PowerOn(to) PROVE Counted'
    <2>1. /\ uart_send_flag' = 1 /\ Ack_recive_enable' = 0 /\ UNCHANGED last
          /\ given' = given + 1
        BY <1>5 DEF PowerOn, Uart_close, ghosts
    <2>2. uart_communicate_buf'.id = given + 1 BY <1>5 DEF PowerOn, Command
    <2>3. last'.id < uart_communicate_buf'.id BY <2>1, <2>2 DEF Counted
    <2> QED BY <2>1, <2>2, <2>3 DEF Counted, Busy, IsCommand
<1>6. CASE uart_event_handle
    <2>1. Head(fromStm32) \in Byte
        BY <1>6, HeadTailProperties DEF uart_event_handle, Types
    <2> DEFINE byte == Head(fromStm32)
    <2>3. RxStart(byte) \/ RxSecond(byte) \/ RxFrame(byte) \/ RxStatus(byte) \/ RxDropped
        BY <1>6 DEF uart_event_handle
    <2>4. byte.f.kind # "command"
          /\ [byte.f EXCEPT !.kind = "partial", !.good = FALSE].kind = "partial"
          /\ [uart_communicate_buf EXCEPT !.kind = "partial",
             !.good = FALSE].kind = "partial"
        BY <2>1, PartialType, ByteType
    <2>5. uart_communicate_buf' = uart_communicate_buf \/ uart_communicate_buf'.kind # "command"
        <3> HIDE DEF byte
        <3> QED BY <2>3, <2>4 DEF RxStart, RxSecond, RxFrame, RxStatus, RxDropped
    <2>6. UNCHANGED <<given, last, uart_send_flag, Ack_recive_enable, CRC_old, ACC_resend,
                      pc>>
        BY <1>6 DEF uart_event_handle, sender, ghosts
    <2> HIDE DEF byte
    <2> QED BY <2>5, <2>6 DEF Counted, Busy, IsCommand
<1>7. CASE TurnSend
    <2>1. pc = "client" /\ pc' = "receive" /\ UNCHANGED <<uart_communicate_buf, given,
                                                          ACC_resend>>
        BY <1>7 DEF TurnSend
    <2>2. CASE uart_send_flag # 1
        BY <2>1, <2>2, <1>7 DEF TurnSend, Counted, Busy, IsCommand
    <2>3. CASE uart_send_flag = 1
        <3>1. uart_send_flag' = 0 /\ CRC_old' = 0 /\ Ack_recive_enable' = 1
            BY <1>7, <2>3 DEF TurnSend
        <3>2. CASE ~IsCommand
            <4>1. last' = last BY <1>7, <2>3, <3>2 DEF TurnSend, IsCommand
            <4> QED BY <2>1, <3>1, <3>2, <4>1 DEF Counted, Busy, IsCommand
        <3>3. CASE IsCommand /\ uart_communicate_buf.id = last.id
            <4>1. last' = [last EXCEPT !.times = @ + 1]
                BY <1>7, <2>3, <3>3 DEF TurnSend, IsCommand
            <4>2. last'.id = last.id /\ last'.times = last.times + 1 BY <4>1
            <4>3. last.times + 1 <= ACC_resend + 1 BY <2>3, <3>3 DEF Counted, Busy
            <4> QED BY <2>1, <2>3, <3>1, <3>3, <4>2, <4>3 DEF Counted, Busy, IsCommand
        <3>4. CASE IsCommand /\ uart_communicate_buf.id # last.id
            <4>1. last' = [id |-> uart_communicate_buf.id, times |-> 1]
                BY <1>7, <2>3, <3>4 DEF TurnSend, IsCommand
            <4>2. last'.id = uart_communicate_buf.id /\ last'.times = 1 BY <4>1
            <4> QED BY <2>1, <2>3, <3>1, <3>4, <4>2 DEF Counted, Busy, IsCommand
        <3> QED BY <3>2, <3>3, <3>4
    <2> QED BY <2>2, <2>3
<1>8. CASE TurnReceive
    <2>1. /\ pc = "receive" /\ pc' = "ackstatus" /\ ACC_resend' = 0
          /\ UNCHANGED <<uart_communicate_buf, given, last, uart_send_flag>>
        BY <1>8 DEF TurnReceive
    <2>2. \/ Ack_recive_enable' = Ack_recive_enable /\ CRC_old' = CRC_old /\ Known
          \/ Ack_recive_enable' \in {0, 2}
        BY <1>8 DEF TurnReceive, Refuse
    <2>3. CASE Ack_recive_enable # 1 \/ Ack_recive_enable' \in {0, 2}
        BY <2>1, <2>2, <2>3 DEF Counted, Busy, IsCommand
    <2>4. CASE Ack_recive_enable = 1 /\ Ack_recive_enable' = Ack_recive_enable
               /\ CRC_old' = CRC_old /\ Known
        <3>1. CRC_old = 0 /\ uart_send_flag = 0 BY <2>1, <2>4 DEF Counted
        <3>2. uart_communicate_buf.id = 0
            BY <3>1, <2>4 DEF Known, Crc
        <3> QED BY <3>1, <3>2, <2>1, <2>4 DEF Counted, Busy, IsCommand
    <2> QED BY <2>2, <2>3, <2>4
<1>9. CASE TurnReceiveNothing
    BY <1>9 DEF TurnReceiveNothing, sender, ghosts, Counted, Busy, IsCommand
<1>10. CASE TurnAcked
    <2>1. /\ pc = "ackstatus" /\ pc' = "ackreset" /\ Ack_recive_enable = 1
          /\ UNCHANGED <<uart_communicate_buf, given, last, CRC_old>>
        BY <1>10 DEF TurnAcked
    <2>2. uart_send_flag = 0 BY <2>1 DEF Counted
    <2>3. \/ ACC_resend' = ACC_resend + 1 /\ uart_send_flag' = 1 /\ UNCHANGED Ack_recive_enable
          \/ Ack_recive_enable' = 0 /\ uart_send_flag' = uart_send_flag
        BY <1>10 DEF TurnAcked, GiveUp
    <2> QED BY <2>1, <2>2, <2>3 DEF Counted, Busy, IsCommand
<1>11. CASE TurnAckReset
    BY <1>11, <1>s DEF TurnAckReset, sender, ghosts
<1>12. CASE TurnWaitsAck
    <2>1. /\ pc = "ackstatus" /\ pc' = "resend"
          /\ UNCHANGED <<uart_communicate_buf, given, last, CRC_old>>
        BY <1>12 DEF TurnWaitsAck, sender, ghosts
    <2>2. CASE UNCHANGED sender
        BY <2>1, <2>2, <1>s DEF sender
    <2>3. CASE ~UNCHANGED sender
        <3>1. Ack_recive_enable = 1 BY <1>12, <2>3 DEF TurnWaitsAck
        <3>2. uart_send_flag = 0 BY <2>1, <3>1 DEF Counted
        <3>3. \/ ACC_resend' = ACC_resend + 1 /\ uart_send_flag' = 1 /\ UNCHANGED Ack_recive_enable
              \/ Ack_recive_enable' = 0 /\ uart_send_flag' = uart_send_flag
            BY <1>12, <2>3 DEF TurnWaitsAck, GiveUp
        <3> QED BY <2>1, <3>1, <3>2, <3>3 DEF Counted, Busy, IsCommand
    <2> QED BY <2>2, <2>3
<1>13. CASE TurnRefused
    <2>1. /\ pc' = "client" /\ Ack_recive_enable = 2
          /\ UNCHANGED <<uart_communicate_buf, given, last, CRC_old, uart_send_flag>>
          /\ Ack_recive_enable' = Ack_recive_enable \/ Ack_recive_enable' = 0
        BY <1>13 DEF TurnRefused, GiveUp, ghosts
    <2> QED BY <2>1 DEF Counted, Busy, IsCommand
<1>14. CASE TurnRefusedReceive
    <2>1. /\ pc' = "client" /\ Ack_recive_enable = 2
          /\ UNCHANGED <<uart_communicate_buf, given, last, CRC_old, uart_send_flag>>
          /\ Ack_recive_enable' = Ack_recive_enable \/ Ack_recive_enable' = 0
        BY <1>14 DEF TurnRefusedReceive, GiveUp
    <2> QED BY <2>1 DEF Counted, Busy, IsCommand
<1>15. CASE TurnNotRefused
    BY <1>15, <1>s DEF TurnNotRefused, sender, ghosts
<1>16. CASE uart_send_Bty
    BY <1>16, <1>s DEF uart_send_Bty, sender, ghosts
<1>17. CASE TimeOutUart_handler
    BY <1>17, <1>s DEF TimeOutUart_handler, sender, ghosts
<1>18. CASE PhoneAcks
    BY <1>18, <1>s DEF PhoneAcks, sender, ghosts
<1>19. CASE UNCHANGED unchangedDevice
    BY <1>19, <1>s DEF unchangedDevice, sender
<1>20. ASSUME \/ Stm32Takes \/ Stm32Refuses \/ Stm32Misses
              \/ Stm32Answers \/ Stm32GetsAck \/ Stm32Repeats
       PROVE  UNCHANGED unchangedDevice
    BY <1>20 DEF Stm32Takes, Stm32Refuses, Stm32Misses, Stm32Answers, Stm32GetsAck,
        Stm32Repeats
<1> QED
    BY <1>1, <1>2, <1>3, <1>4, <1>5, <1>6, <1>7, <1>8, <1>9, <1>10, <1>11, <1>12, <1>13,
       <1>14, <1>15, <1>16, <1>17, <1>18, <1>19, <1>20
    DEF Next, Step, UartDataSendrecive
-----------------------------------------------------------------------------
(* The wires and the bytes.                                                *)

(* To the STM32: nothing new but acknowledgements.                         *)
OnlyAcks ==
    \/ toStm32' = toStm32
    \/ toStm32' = Append(toStm32, AckFrame(TRUE))
    \/ toStm32' = Append(toStm32, AckFrame(FALSE))
    \/ toStm32 # <<>> /\ toStm32' = Tail(toStm32)

(* They neither put a frame on the wire nor change one.                    *)
LEMMA WireKept ==
    ASSUME toStm32 \in Seq(Wire), OnlyAcks
    PROVE  /\ NoFrame => NoFrame'
           /\ AtMostBuf /\ uart_communicate_buf' = uart_communicate_buf => AtMostBuf'
<1>1. CASE toStm32' = toStm32
    BY <1>1 DEF NoFrame, AtMostBuf
<1>2. ASSUME NEW a \in Wire, a.type = "ack", toStm32' = Append(toStm32, a)
      PROVE  /\ NoFrame => NoFrame'
             /\ AtMostBuf /\ uart_communicate_buf' = uart_communicate_buf => AtMostBuf'
    <2>1. /\ Len(toStm32) \in Nat /\ Len(toStm32') = Len(toStm32) + 1
          /\ \A i \in 1 .. Len(toStm32) : toStm32'[i] = toStm32[i]
          /\ toStm32'[Len(toStm32) + 1] = a
        BY <1>2, AppendProperties
    <2>2. \A i \in 1 .. Len(toStm32') : i \in 1 .. Len(toStm32) \/ toStm32'[i].type = "ack"
        BY <2>1, <1>2
    <2> QED BY <2>1, <2>2 DEF NoFrame, AtMostBuf
<1>3. CASE toStm32 # <<>> /\ toStm32' = Tail(toStm32)
    <2>1. /\ Len(toStm32) \in Nat /\ Len(toStm32') = Len(toStm32) - 1
          /\ \A i \in 1 .. Len(toStm32') : toStm32'[i] = toStm32[i + 1]
        BY <1>3, HeadTailProperties
    <2>2. \A i \in 1 .. Len(toStm32') : i \in Int /\ i + 1 \in 1 .. Len(toStm32)
        BY <2>1
    <2>3. NoFrame => NoFrame' BY <2>1, <2>2 DEF NoFrame
    <2>4. ASSUME AtMostBuf, uart_communicate_buf' = uart_communicate_buf PROVE AtMostBuf'
        <3>1. ASSUME NEW i \in 1 .. Len(toStm32'), toStm32'[i].type = "frame"
              PROVE  toStm32'[i].f = uart_communicate_buf'
            BY <3>1, <2>1, <2>2, <2>4 DEF AtMostBuf
        <3>2. ASSUME NEW i \in 1 .. Len(toStm32'), NEW j \in 1 .. Len(toStm32'),
                     toStm32'[i].type = "frame", toStm32'[j].type = "frame"
              PROVE  i = j
            <4>1. i + 1 = j + 1 BY <3>2, <2>1, <2>2, <2>4 DEF AtMostBuf
            <4> QED BY <4>1, <2>2
        <3> QED BY <3>1, <3>2 DEF AtMostBuf
    <2> QED BY <2>3, <2>4
<1>4. /\ AckFrame(TRUE) \in Wire /\ AckFrame(TRUE).type = "ack"
      /\ AckFrame(FALSE) \in Wire /\ AckFrame(FALSE).type = "ack"
    BY DEF AckFrame, Wire
<1> QED BY <1>1, <1>2, <1>3, <1>4 DEF OnlyAcks

(* The command's frame leaves the wire: no other is there.                 *)
LEMMA FrameTaken ==
    ASSUME toStm32 \in Seq(Wire), toStm32 # <<>>, toStm32' = Tail(toStm32),
           Head(toStm32).type = "frame", AtMostBuf
    PROVE  NoFrame' /\ Head(toStm32).f = uart_communicate_buf /\ ~NoFrame
<1>1. /\ Len(toStm32) \in Nat /\ Len(toStm32) >= 1 /\ Head(toStm32) = toStm32[1]
      /\ Len(toStm32') = Len(toStm32) - 1
      /\ \A i \in 1 .. Len(toStm32') : toStm32'[i] = toStm32[i + 1]
    BY HeadTailProperties, LenProperties, EmptySeq
<1>2. \A i \in 1 .. Len(toStm32) : toStm32[i].type \in {"frame", "ack"}
    BY ElementOfSeq DEF Wire
<1>3. ASSUME NEW i \in 1 .. Len(toStm32') PROVE toStm32'[i].type = "ack"
    <2>1. i + 1 \in 1 .. Len(toStm32) /\ i + 1 # 1 /\ 1 \in 1 .. Len(toStm32) BY <1>1
    <2>2. toStm32[i + 1].type # "frame" BY <1>1, <2>1 DEF AtMostBuf
    <2> QED BY <1>1, <1>2, <2>1, <2>2
<1> QED BY <1>1, <1>3 DEF NoFrame, AtMostBuf

(* It comes onto the wire.                                                 *)
LEMMA FrameSent ==
    ASSUME toStm32 \in Seq(Wire), uart_communicate_buf \in Frame, NoFrame,
           uart_communicate_buf' = uart_communicate_buf,
           toStm32' = Append(toStm32, [type |-> "frame", f |-> uart_communicate_buf])
    PROVE  AtMostBuf'
<1> DEFINE w == [type |-> "frame", f |-> uart_communicate_buf]
<1>1. w \in Wire /\ w.type = "frame" /\ w.f = uart_communicate_buf BY FrameWireType
<1> HIDE DEF w
<1>2. /\ Len(toStm32) \in Nat /\ Len(toStm32') = Len(toStm32) + 1
      /\ \A i \in 1 .. Len(toStm32) : toStm32'[i] = toStm32[i]
      /\ toStm32'[Len(toStm32) + 1] = w
    BY <1>1, AppendProperties DEF w
<1>3. \A i \in 1 .. Len(toStm32') : i = Len(toStm32) + 1 \/ toStm32'[i].type = "ack"
    BY <1>2 DEF NoFrame
<1> QED BY <1>1, <1>2, <1>3 DEF AtMostBuf

(* The bytes of an answer, and of an acknowledgement, one after the other. *)
LEMMA BytesAre ==
    ASSUME NEW a
    PROVE  /\ \A n \in {0, 1, 2, 3, 4} : Bytes(a, n) # <<>> /\ Head(Bytes(a, n)).f = a
           /\ Head(Bytes(a, 0)).b = "a5" /\ Head(Bytes(a, 1)).b = "5a"
           /\ Tail(Bytes(a, 0)) = Bytes(a, 1) /\ Tail(Bytes(a, 1)) = Bytes(a, 2)
           /\ Tail(Bytes(a, 2)) = Bytes(a, 3) /\ Tail(Bytes(a, 3)) = Bytes(a, 4)
           /\ Tail(Bytes(a, 4)) = <<>>
<1> DEFINE b1 == [b |-> "a5", f |-> a]
           b2 == [b |-> "5a", f |-> a]
           b3 == [b |-> "00", f |-> a]
           b4 == [b |-> "head", f |-> a]
           b5 == [b |-> "data", f |-> a]
<1>1. FrameBytes(a) = <<b1, b2, b3, b4, b5>> BY DEF FrameBytes
<1>2. b1.b = "a5" /\ b2.b = "5a" /\ b1.f = a /\ b2.f = a /\ b3.f = a /\ b4.f = a /\ b5.f = a
    OBVIOUS
<1> HIDE DEF b1, b2, b3, b4, b5
<1>3. Bytes(a, 0) = <<b1, b2, b3, b4, b5>> BY <1>1 DEF Bytes
<1>4. Bytes(a, 1) = <<b2, b3, b4, b5>> BY <1>1 DEF Bytes
<1>5. Bytes(a, 2) = <<b3, b4, b5>> BY <1>1 DEF Bytes
<1>6. Bytes(a, 3) = <<b4, b5>> BY <1>1 DEF Bytes
<1>7. Bytes(a, 4) = <<b5>> BY <1>1 DEF Bytes
<1>8. /\ Bytes(a, 0) # <<>> /\ Bytes(a, 1) # <<>> /\ Bytes(a, 2) # <<>>
      /\ Bytes(a, 3) # <<>> /\ Bytes(a, 4) # <<>>
    BY <1>3, <1>4, <1>5, <1>6, <1>7
<1>9. /\ Head(Bytes(a, 0)) = b1 /\ Head(Bytes(a, 1)) = b2 /\ Head(Bytes(a, 2)) = b3
      /\ Head(Bytes(a, 3)) = b4 /\ Head(Bytes(a, 4)) = b5
    BY <1>3, <1>4, <1>5, <1>6, <1>7
<1>10. /\ Tail(Bytes(a, 0)) = Bytes(a, 1) /\ Tail(Bytes(a, 1)) = Bytes(a, 2)
       /\ Tail(Bytes(a, 2)) = Bytes(a, 3) /\ Tail(Bytes(a, 3)) = Bytes(a, 4)
    <2>1. Bytes(a, 0) = FrameBytes(a) BY DEF Bytes
    <2>2. Bytes(a, 1) = Tail(FrameBytes(a)) BY DEF Bytes
    <2>3. Bytes(a, 2) = Tail(Tail(FrameBytes(a))) BY DEF Bytes
    <2>4. Bytes(a, 3) = Tail(Tail(Tail(FrameBytes(a)))) BY DEF Bytes
    <2>5. Bytes(a, 4) = Tail(Tail(Tail(Tail(FrameBytes(a))))) BY DEF Bytes
    <2> QED BY <2>1, <2>2, <2>3, <2>4, <2>5
<1>11. Tail(Bytes(a, 4)) = <<>>
    <2>1. \A x : Tail(<<x>>) = <<>> OBVIOUS
    <2> QED BY <2>1, <1>7
<1> QED BY <1>2, <1>8, <1>9, <1>10, <1>11

Acks(bytes, satus) ==
    \/ bytes = SuccsBytes /\ satus = "SuccsACK"
    \/ bytes = FailBytes /\ satus = "FailACK"

(* The three bytes of an acknowledgement, and the status they mean.        *)
LEMMA AckBytesAre ==
    ASSUME NEW bytes, NEW satus, Acks(bytes, satus)
    PROVE  /\ bytes # <<>> /\ Tail(bytes) # <<>> /\ Tail(Tail(bytes)) # <<>>
           /\ Tail(Tail(Tail(bytes))) = <<>>
           /\ Head(bytes).b = "5a" /\ Head(Tail(bytes)).b = "a5"
           /\ satus = IF Head(Tail(Tail(bytes))).b = "00" THEN "SuccsACK" ELSE "FailACK"
<1> DEFINE f == [kind |-> "partial", id |-> 0, no |-> 0, apdu |-> FALSE, good |-> FALSE]
           b1 == [b |-> "5a", f |-> f]
           b2 == [b |-> "a5", f |-> f]
           s3 == [b |-> "00", f |-> f]
           f3 == [b |-> "01", f |-> f]
<1>1. SuccsBytes = <<b1, b2, s3>> /\ FailBytes = <<b1, b2, f3>>
    BY DEF SuccsBytes, FailBytes, AckBytes
<1>2. b1.b = "5a" /\ b2.b = "a5" /\ s3.b = "00" /\ f3.b = "01" OBVIOUS
<1> HIDE DEF b1, b2, s3, f3
<1>3. CASE bytes = <<b1, b2, s3>> /\ satus = "SuccsACK" BY <1>2, <1>3
<1>4. CASE bytes = <<b1, b2, f3>> /\ satus = "FailACK" BY <1>2, <1>4
<1> QED BY <1>1, <1>3, <1>4 DEF Acks

-----------------------------------------------------------------------------
(* Main's turns and the STM32's acknowledgements where nothing is under    *)
(* way that they could disturb: the wire to the STM32 gets no frame, and   *)
(* the timer may run out only when the command's frame, or what came for   *)
(* it, was lost.                                                           *)
LEMMA Steady ==
    ASSUME Types, OnTime, OnlyAcks,
           UNCHANGED <<Main_status, uart_communicate_buf, uartnum, uart_send_flag,
                       Ack_recive_enable, CRC_old, queued, fromStm32, uart_recive_All,
                       olddata,
                       ACK_recive_satus, given, last, accepted, acked, passed>>,
           stm32'.no = stm32.no, stm32'.apdu \in {0, stm32.apdu},
           \/ pc' = pc
           \/ /\ pc # "ackreset" /\ pc' # "ackreset"
              /\ pc' = "client" \/ Main_status # "off",
           \/ UNCHANGED Timeout1Sec_Uart_StarFlag
           \/ Ack_recive_enable = 2
           \/ Ack_recive_enable = 1 /\ uart_send_flag = 0 /\ Timeout1Sec_Uart_StarFlag' # "TimeOut"
           \/ Ack_recive_enable = 1 /\ uart_send_flag = 0 /\ Out /\ NoFrame
    PROVE  OnTime'
<1>0. /\ NoFrame => NoFrame'
      /\ AtMostBuf => AtMostBuf'
    BY WireKept DEF Types
<1>b. Busy' <=> Busy BY DEF Busy
<1>d. Deaf => Deaf' BY DEF Deaf
<1>1. Holds' BY <1>b DEF OnTime, Holds
<1>2. Waits'
    <2> SUFFICES ASSUME Ack_recive_enable = 1 PROVE Waits' BY DEF Waits
    <2>1. /\ uart_communicate_buf.id = last.id
          /\ Again \/ Queued \/ Out \/ Acknowledged
          /\ Timeout1Sec_Uart_StarFlag = "TimeOut" => Out /\ NoFrame
        BY DEF OnTime, Waits
    <2>2. Again => Again' BY <1>0, <1>d DEF Again, Still, Out
    <2>3. Queued => Queued' BY <1>0, <1>d DEF Queued, Again, Still
    <2>4. Out => Out' BY <1>0, <1>d DEF Out
    <2>5. Acknowledged /\ ~Out => Acknowledged'
        <3>1. ASSUME NEW bytes, NEW satus, Coming(bytes, satus) PROVE Coming(bytes, satus)'
            BY <3>1 DEF Coming
        <3>2. Coming(FailBytes, "FailACK") => Coming(FailBytes, "FailACK")'
            BY <3>1 DEF FailBytes
        <3>3. Coming(SuccsBytes, "SuccsACK") => Coming(SuccsBytes, "SuccsACK")'
            BY <3>1 DEF SuccsBytes
        <3> QED BY <3>2, <3>3, <1>0 DEF Acknowledged
    <2>6. Timeout1Sec_Uart_StarFlag' = "TimeOut" => Out' /\ NoFrame'
        BY <1>0, <2>1, <2>4
    <2> QED BY <2>1, <2>2, <2>3, <2>4, <2>5, <2>6 DEF Waits
<1>3. Fresh' BY <1>0, <1>d DEF OnTime, Fresh, Still, Types, TypeOK
<1>4. Rests'
    <2>1. ASSUME NEW a \in Answers, Arriving(a) PROVE a \in Answers' /\ Arriving(a)'
        BY <2>1 DEF Answers, Arriving
    <2> QED BY <2>1, <1>0, <1>b, <1>d DEF OnTime, Rests
<1>5. Timed' BY DEF OnTime, Timed
<1>6. Works' BY DEF OnTime, Works
<1>7. Taken' BY <1>b DEF OnTime, Taken
<1>8. Remembered' BY DEF OnTime, Remembered, AnswerOnce, AnswerCurrent
<1> QED BY <1>1, <1>2, <1>3, <1>4, <1>5, <1>6, <1>7, <1>8 DEF OnTime

-----------------------------------------------------------------------------
(* A new command, where nothing is under way.                              *)
LEMMA NewOnTime ==
    ASSUME Types, OnTime, Ack_recive_enable = 0, Still, stm32.apdu = 0, Main_status # "off",
           given' = given + 1, uartnum' \in 0 .. 255,
           uartnum < 255 => uartnum' = uartnum + 1,
           uart_communicate_buf'.kind = "command", uart_communicate_buf'.no = uartnum',
           uart_communicate_buf'.good, uart_communicate_buf'.apdu => Main_status = "key",
           uart_send_flag' = 1,
           UNCHANGED <<Main_status, Ack_recive_enable, CRC_old, Timeout1Sec_Uart_StarFlag,
                       pc,
                       queued, toStm32, fromStm32, uart_recive_All, olddata,
                       ACK_recive_satus,
                       stm32, last, accepted, acked, passed>>
    PROVE  OnTime'
<1>1. Holds' BY DEF Holds, Busy
<1>2. Waits' BY DEF Waits
<1>3. Fresh' BY DEF Fresh, Still, NoFrame, Deaf
<1>4. Rests' BY DEF Rests, Busy
<1>5. Timed' BY DEF OnTime, Timed
<1>6. Works' BY DEF Works
<1>7. Taken'
    <2>1. given \in Nat /\ uartnum \in 0 .. 255 /\ stm32.no \in 0 .. 255
        BY DEF Types, TypeOK
    <2>2. given' < 256 => /\ stm32.no <= uartnum /\ uartnum <= given /\ acked \subseteq accepted
        BY <2>1 DEF OnTime, Taken
    <2>3. given' < 256 => uartnum' = uartnum + 1 BY <2>1, <2>2
    <2>4. given' < 256 => /\ stm32'.no <= uartnum' /\ uartnum' <= given'
                          /\ uartnum' >= 1 /\ stm32'.no # uartnum'
        BY <2>1, <2>2, <2>3
    <2> QED BY <2>2, <2>4 DEF Taken
<1>8. Remembered' BY DEF OnTime, Remembered, AnswerOnce, AnswerCurrent
<1> QED BY <1>1, <1>2, <1>3, <1>4, <1>5, <1>6, <1>7, <1>8 DEF OnTime

(* What a command writes into the buffer.                                  *)
LEMMA CmdSendUartWrites ==
    /\ CmdSendUart(TRUE) => /\ uart_communicate_buf'.kind = "command"
                            /\ uart_communicate_buf'.no = uartnum'
                            /\ uart_communicate_buf'.good
    /\ CmdSendUart(FALSE) => /\ uart_communicate_buf'.kind = "command"
                             /\ uart_communicate_buf'.no = uartnum'
                             /\ uart_communicate_buf'.good
                             /\ ~uart_communicate_buf'.apdu
    BY DEF CmdSendUart, Command

(* A command of the phone, and one of the display or a timer.              *)
LEMMA KeyCommandOnTime == ASSUME Types, OnTime, timely, KeyCommand PROVE OnTime'
<1>1. /\ CmdSendUart(TRUE) /\ Quiet /\ pc = "client" /\ Main_status = "key"
      /\ UNCHANGED <<Main_status, Ack_recive_enable, CRC_old, Timeout1Sec_Uart_StarFlag, pc,
                     queued, toStm32, fromStm32, uart_recive_All, olddata, ACK_recive_satus,
                     stm32, last, accepted, acked, passed>>
    BY DEF KeyCommand, mode, isr, wires, ghosts
<1>2. /\ uart_send_flag = 0 /\ Ack_recive_enable = 0 /\ uart_recive_All = 0 /\ olddata = "0"
      /\ queued = <<>> /\ toStm32 = <<>> /\ fromStm32 = <<>> /\ stm32.apdu = 0
    BY <1>1 DEF Quiet, wires
<1>3. NoFrame BY <1>2 DEF NoFrame
<1>4. ACK_recive_satus = "NOACK"
    BY <1>1, <1>2 DEF OnTime, Rests, Busy, Deaf
<1>5. Still BY <1>2, <1>3, <1>4 DEF Still, Deaf
<1>6. /\ given' = given + 1 /\ uartnum' \in 0 .. 255 /\ (uartnum < 255 => uartnum' = uartnum + 1)
      /\ uart_send_flag' = 1
    BY <1>1, CmdSendUartType
<1> QED BY <1>1, <1>2, <1>5, <1>6, CmdSendUartWrites, NewOnTime

(* Where no acknowledgement is waited for.                                 *)
LEMMA TimeCommandOnTime ==
    ASSUME Types, OnTime, timely, DisplayCommand \/ TimerCommand
    PROVE  OnTime'
<1>1. /\ CmdSendUart(FALSE) /\ Main_status = "time" /\ Ack_recive_enable = 0
      /\ UNCHANGED <<Main_status, Ack_recive_enable, CRC_old, Timeout1Sec_Uart_StarFlag, pc,
                     queued, toStm32, fromStm32, uart_recive_All, olddata, ACK_recive_satus,
                     stm32, last, accepted, acked, passed>>
    BY DEF DisplayCommand, TimerCommand, mode, isr, wires, ghosts
<1>2. Still
    <2>1. CASE uart_send_flag = 1 BY <1>1, <2>1 DEF OnTime, Fresh
    <2>2. CASE uart_send_flag # 1 BY <1>1, <2>2 DEF OnTime, Rests, Busy, Still
    <2> QED BY <2>1, <2>2
<1>3. stm32.apdu = 0 BY <1>1 DEF OnTime, Works
<1>4. /\ given' = given + 1 /\ uartnum' \in 0 .. 255 /\ (uartnum < 255 => uartnum' = uartnum + 1)
      /\ uart_send_flag' = 1
    BY <1>1, CmdSendUartType
<1> QED BY <1>1, <1>2, <1>3, <1>4, CmdSendUartWrites, NewOnTime

(* The STM32's power goes, or comes with the command that tells its mode.  *)
LEMMA PowerOffOnTime == ASSUME Types, OnTime, PowerOff PROVE OnTime'
<1>1. /\ Main_status' = "off" /\ pc' = "client" /\ uart_send_flag' = 0 /\ uartnum' = 0
      /\ Ack_recive_enable' = 0 /\ uart_recive_All' = 0 /\ olddata' = "0"
      /\ ACK_recive_satus' = "NOACK" /\ Timeout1Sec_Uart_StarFlag' = "TimeClose"
      /\ toStm32' = <<>> /\ fromStm32' = <<>> /\ stm32' = Idle
      /\ UNCHANGED <<given, last, accepted, acked, passed>>
    BY DEF PowerOff, Uart_close, Stm32Off, ghosts
<1>2. stm32'.no = 0 /\ stm32'.apdu = 0 BY <1>1 DEF Idle
<1>3. Holds' /\ Waits' /\ Fresh' /\ Timed' /\ Works'
    BY <1>1, <1>2 DEF Holds, Waits, Fresh, Timed, Works, Busy
<1>4. Rests' BY <1>1 DEF Rests, Busy, NoFrame, Deaf
<1>5. Taken' BY <1>1, <1>2 DEF OnTime, Taken, Busy, Types, TypeOK
<1>6. Remembered' BY <1>1 DEF OnTime, Remembered, AnswerOnce, AnswerCurrent
<1> QED BY <1>3, <1>4, <1>5, <1>6 DEF OnTime

(* Nothing is left of what was under way before.                           *)
LEMMA PowerOnOnTime ==
    ASSUME Types, OnTime, timely, NEW to \in {"time", "key"}, PowerOn(to)
    PROVE  OnTime'
<1>1. /\ Main_status' # "off" /\ pc' = "client" /\ uart_send_flag' = 1 /\ uartnum' = 1
      /\ Ack_recive_enable' = 0 /\ uart_recive_All' = 0 /\ olddata' = "0"
      /\ ACK_recive_satus' = "NOACK" /\ Timeout1Sec_Uart_StarFlag' = "TimeClose"
      /\ queued' = <<>> /\ toStm32' = <<>> /\ fromStm32' = <<>> /\ stm32' = Idle
      /\ given' = given + 1
      /\ UNCHANGED <<last, accepted, acked, passed>>
    BY DEF PowerOn, Uart_close, Stm32Off, ghosts
<1>2. stm32'.no = 0 /\ stm32'.apdu = 0 BY <1>1 DEF Idle
<1>3. uart_communicate_buf' = [kind |-> "command", id |-> given + 1, no |-> 1,
                               apdu |-> FALSE, good |-> TRUE]
    BY DEF PowerOn, Command
<1>4. Holds' BY <1>1, <1>3 DEF Holds, Busy
<1>5. Waits' /\ Timed' /\ Works' BY <1>1, <1>2 DEF Waits, Timed, Works
<1>6. Fresh' BY <1>1, <1>2 DEF Fresh, Still, NoFrame, Deaf
<1>7. Rests' BY <1>1 DEF Rests, Busy
<1>8. Taken' BY <1>1, <1>2 DEF OnTime, Taken, Types, TypeOK
<1>9. Remembered' BY <1>1 DEF OnTime, Remembered, AnswerOnce, AnswerCurrent
<1> QED BY <1>4, <1>5, <1>6, <1>7, <1>8, <1>9 DEF OnTime

-----------------------------------------------------------------------------
(* A byte comes: of an acknowledgement, or of an answer.                   *)
EventUnchanged ==
    UNCHANGED <<Main_status, uartnum, uart_send_flag, Ack_recive_enable, CRC_old,
                Timeout1Sec_Uart_StarFlag, pc, queued, toStm32, stm32, given,
                last, accepted, acked, passed>>

(* While a command's acknowledgement is waited for, it is that one.        *)
LEMMA EventAck ==
    ASSUME Types, OnTime, Ack_recive_enable = 1, uart_event_handle
    PROVE  OnTime'
<1> DEFINE byte == Head(fromStm32)
<1>1. /\ fromStm32 # <<>> /\ fromStm32' = Tail(fromStm32) /\ EventUnchanged
      /\ RxStart(byte) \/ RxSecond(byte) \/ RxFrame(byte) \/ RxStatus(byte) \/ RxDropped
    BY DEF uart_event_handle, EventUnchanged, mode, sender, ghosts
<1>2. Acknowledged /\ uart_communicate_buf.id = last.id
    BY <1>1 DEF OnTime, Waits, Again, Queued, Out, Still, Deaf
<1>3. ASSUME NEW bytes, NEW satus, Coming(bytes, satus),
             Acks(bytes, satus)
      PROVE  /\ UNCHANGED <<uart_communicate_buf, uart_recive_All>>
             /\ Coming(bytes, satus)'
    <2>1. /\ Tail(Tail(Tail(bytes))) = <<>>
          /\ Head(bytes).b = "5a" /\ Head(Tail(bytes)).b = "a5"
          /\ satus = IF Head(Tail(Tail(bytes))).b = "00" THEN "SuccsACK" ELSE "FailACK"
        BY <1>3, AckBytesAre
    <2>2. CASE fromStm32 = bytes /\ olddata = "0" /\ ACK_recive_satus = "NOACK"
        <3>1. byte.b = "5a" BY <2>1, <2>2
        <3> HIDE DEF byte
        <3>2. RxStart(byte)
            BY <1>1, <2>2 DEF RxSecond, RxFrame, RxStatus, RxDropped
        <3> QED BY <1>1, <2>2, <3>1, <3>2 DEF RxStart, Coming
    <2>3. CASE fromStm32 = Tail(bytes) /\ olddata = "first_5a" /\ ACK_recive_satus = "NOACK"
        <3>1. byte.b = "a5" BY <2>1, <2>3
        <3> HIDE DEF byte
        <3>2. RxSecond(byte)
            BY <1>1, <2>3 DEF RxStart, RxFrame, RxStatus, RxDropped
        <3> QED BY <1>1, <2>3, <3>1, <3>2 DEF RxSecond, Coming
    <2>4. CASE fromStm32 = Tail(Tail(bytes)) /\ olddata = "secend_a5"
               /\ ACK_recive_satus = "NOACK"
        <3>1. satus = IF byte.b = "00" THEN "SuccsACK" ELSE "FailACK" BY <2>1, <2>4
        <3>2. fromStm32' = <<>> BY <1>1, <2>1, <2>4
        <3> HIDE DEF byte
        <3>3. RxStatus(byte)
            BY <1>1, <2>4 DEF RxStart, RxSecond, RxFrame, RxDropped
        <3> QED BY <2>4, <3>1, <3>2, <3>3 DEF RxStatus, Coming
    <2> QED BY <1>1, <1>3, <2>2, <2>3, <2>4 DEF Coming
<1> HIDE DEF byte
<1>4. Coming(FailBytes, "FailACK") => /\ UNCHANGED <<uart_communicate_buf, uart_recive_All>>
                                      /\ Coming(FailBytes, "FailACK")'
    <2>1. Acks(FailBytes, "FailACK") BY DEF Acks
    <2> QED BY <1>3, <2>1
<1>5. Coming(SuccsBytes, "SuccsACK") => /\ UNCHANGED <<uart_communicate_buf,
                                                       uart_recive_All>>
                                        /\ Coming(SuccsBytes, "SuccsACK")'
    <2>1. Acks(SuccsBytes, "SuccsACK") BY DEF Acks
    <2> QED BY <1>3, <2>1
<1>6. UNCHANGED <<uart_communicate_buf, uart_recive_All>>
    BY <1>2, <1>4, <1>5 DEF Acknowledged
<1> USE <1>1, <1>6 DEF EventUnchanged
<1>7. Acknowledged' BY <1>2, <1>4, <1>5 DEF Acknowledged, NoFrame
<1>8. Waits'
    <2>1. Timeout1Sec_Uart_StarFlag # "TimeOut" BY <1>2 DEF Acknowledged
    <2> QED BY <1>2, <1>7, <2>1 DEF Waits
<1>9. Busy /\ Busy' /\ (Busy' <=> Busy) BY DEF Busy
<1>10. Holds' BY <1>9 DEF OnTime, Holds
<1>11. Fresh' /\ Rests' /\ Timed' BY <1>9 DEF Fresh, Rests, Timed
<1>12. Works' /\ Taken' BY <1>9 DEF OnTime, Works, Taken
<1>13. Remembered' BY DEF OnTime, Remembered, AnswerOnce, AnswerCurrent
<1> QED BY <1>8, <1>10, <1>11, <1>12, <1>13 DEF OnTime

(* Otherwise it is the answer's, and the buffer is free for it.            *)
LEMMA EventAnswer ==
    ASSUME Types, OnTime, Ack_recive_enable # 1, uart_event_handle
    PROVE  OnTime'
<1> DEFINE byte == Head(fromStm32)
<1>1. /\ fromStm32 # <<>> /\ fromStm32' = Tail(fromStm32) /\ EventUnchanged
      /\ RxStart(byte) \/ RxSecond(byte) \/ RxFrame(byte) \/ RxStatus(byte) \/ RxDropped
    BY DEF uart_event_handle, EventUnchanged, mode, sender, ghosts
<1>2. ~Busy BY <1>1 DEF OnTime, Fresh, Still, Deaf, Busy
<1>3. PICK a \in Answers : Arriving(a)
    BY <1>1, <1>2 DEF OnTime, Rests, Deaf
<1>4. /\ Main_status = "key" /\ pc # "ackreset" /\ ACK_recive_satus = "NOACK"
      /\ queued = <<>> /\ NoFrame
    BY <1>1, <1>2 DEF OnTime, Rests, Deaf
<1>5. Arriving(a)' /\ UNCHANGED ACK_recive_satus
    <2>1. CASE fromStm32 = Bytes(a, 0) /\ olddata = "0" /\ uart_recive_All = 0
        <3>1. byte.b = "a5" /\ fromStm32' = Bytes(a, 1) BY <1>1, <2>1, BytesAre
        <3> HIDE DEF byte
        <3>2. RxStart(byte) BY <1>1, <2>1 DEF RxSecond, RxFrame, RxStatus, RxDropped
        <3> QED BY <2>1, <3>1, <3>2 DEF RxStart, Arriving
    <2>2. CASE fromStm32 = Bytes(a, 1) /\ olddata = "a5" /\ uart_recive_All = 0
        <3>1. byte.b = "5a" /\ fromStm32' = Bytes(a, 2) BY <1>1, <2>2, BytesAre
        <3> HIDE DEF byte
        <3>2. RxSecond(byte) BY <1>1, <2>2 DEF RxStart, RxFrame, RxStatus, RxDropped
        <3> QED BY <2>2, <3>1, <3>2 DEF RxSecond, Arriving
    <2>3. CASE fromStm32 = Bytes(a, 2) /\ olddata = "5a" /\ uart_recive_All = 0
        <3>1. fromStm32' = Bytes(a, 3) BY <1>1, <2>3, BytesAre
        <3> HIDE DEF byte
        <3>2. RxFrame(byte) BY <1>1, <2>3 DEF RxStart, RxSecond, RxStatus, RxDropped
        <3> QED BY <2>3, <3>1, <3>2 DEF RxFrame, Arriving
    <2>4. CASE fromStm32 = Bytes(a, 3) /\ olddata = "length" /\ uart_recive_All = 0
        <3>1. fromStm32' = Bytes(a, 4) BY <1>1, <2>4, BytesAre
        <3> HIDE DEF byte
        <3>2. RxFrame(byte) BY <1>1, <2>4 DEF RxStart, RxSecond, RxStatus, RxDropped
        <3> QED BY <2>4, <3>1, <3>2 DEF RxFrame, Arriving
    <2>5. CASE fromStm32 = Bytes(a, 4) /\ olddata = "nouseful" /\ uart_recive_All = 0
        <3>1. fromStm32' = <<>> /\ byte.f = a BY <1>1, <2>5, BytesAre
        <3> HIDE DEF byte
        <3>2. RxFrame(byte) BY <1>1, <2>5 DEF RxStart, RxSecond, RxStatus, RxDropped
        <3> QED BY <2>5, <3>1, <3>2 DEF RxFrame, Arriving
    <2> QED BY <1>1, <1>3, <2>1, <2>2, <2>3, <2>4, <2>5 DEF Arriving
<1> HIDE DEF byte
<1> USE <1>1 DEF EventUnchanged
<1>6. ~Busy' BY <1>2 DEF Busy
<1>7. a \in Answers' BY <1>3 DEF Answers
<1>8. Rests'
    <2>1. NoFrame' BY <1>4 DEF NoFrame
    <2>2. Main_status' = "key" /\ pc' # "ackreset" /\ ACK_recive_satus' = "NOACK"
          /\ queued' = <<>>
        BY <1>4, <1>5
    <2> QED BY <1>5, <1>7, <2>1, <2>2 DEF Rests
<1>9. Holds' /\ Waits' /\ Fresh' BY <1>6 DEF Holds, Waits, Fresh, Busy
<1>10. Timed' /\ Works' BY DEF OnTime, Timed, Works
<1>11. Taken' BY <1>6 DEF OnTime, Taken
<1>12. Remembered' BY DEF OnTime, Remembered, AnswerOnce, AnswerCurrent
<1> QED BY <1>8, <1>9, <1>10, <1>11, <1>12 DEF OnTime

-----------------------------------------------------------------------------
(* Main's turns.                                                           *)

(* A command is sent, for the first time or again.                         *)
LEMMA SendOnTime ==
    ASSUME Types, Counted, OnTime, TurnSend, uart_send_flag = 1
    PROVE  OnTime'
<1>1. /\ pc = "client" /\ pc' = "receive" /\ queued = <<>>
      /\ uart_send_flag' = 0 /\ CRC_old' = 0 /\ Ack_recive_enable' = 1
      /\ queued' = <<uart_communicate_buf>> /\ OnlyAcks
      /\ UNCHANGED <<Main_status, uart_communicate_buf, uartnum, uart_recive_All, olddata,
                     ACK_recive_satus, Timeout1Sec_Uart_StarFlag, fromStm32, stm32, given,
                     accepted, acked, passed>>
    BY DEF TurnSend, OnlyAcks, mode, isr
<1>2. Busy /\ Busy' BY <1>1 DEF Busy
<1>3. /\ uart_communicate_buf.kind = "command" /\ uart_communicate_buf.no = uartnum
      /\ uart_communicate_buf.good /\ (uart_communicate_buf.apdu => Main_status = "key")
      /\ Main_status # "off" /\ Ack_recive_enable # 2
    BY <1>2 DEF OnTime, Holds
<1>4. Still /\ Timeout1Sec_Uart_StarFlag = "TimeClose"
    <2>1. CASE Ack_recive_enable = 1
        BY <2>1 DEF OnTime, Waits, Again, Queued, Out, Acknowledged
    <2>2. CASE Ack_recive_enable # 1
        BY <1>3, <2>2 DEF OnTime, Fresh, Timed, Types, TypeOK
    <2> QED BY <2>1, <2>2
<1>5. /\ last \in [id : 0 .. MaxGiven, times : Nat] /\ last'.id = uart_communicate_buf.id
      /\ \/ Ack_recive_enable = 1 /\ last'.id = last.id
         \/ Ack_recive_enable # 1 /\ last'.id > last.id
    <2>1. \/ uart_communicate_buf.id = last.id /\ last' = [last EXCEPT !.times = @ + 1]
          \/ uart_communicate_buf.id # last.id
             /\ last' = [id |-> uart_communicate_buf.id, times |-> 1]
        BY <1>3 DEF TurnSend
    <2>2. last \in [id : 0 .. MaxGiven, times : Nat] BY DEF Types
    <2>3. last'.id = uart_communicate_buf.id BY <2>1, <2>2
    <2>4. Ack_recive_enable = 1 => uart_communicate_buf.id = last.id BY DEF OnTime, Waits
    <2>5. Ack_recive_enable # 1 => uart_communicate_buf.id > last.id
        BY <1>3 DEF Counted, IsCommand
    <2> QED BY <2>2, <2>3, <2>4, <2>5
<1>6. NoFrame' BY <1>1, <1>4, WireKept DEF Still, Types
<1>7. Deaf' BY <1>1, <1>4 DEF Still, Deaf
<1>8. Holds' BY <1>1, <1>3 DEF Holds
<1>9. Waits'
    <2>1. Queued' BY <1>1, <1>6, <1>7 DEF Queued
    <2> QED BY <1>1, <1>4, <1>5, <2>1 DEF Waits
<1>10. Fresh' /\ Rests' /\ Timed' BY <1>1, <1>2 DEF Fresh, Rests, Timed
<1>11. Works'
    <2>1. stm32.apdu # 0 => Ack_recive_enable = 1 BY DEF OnTime, Fresh
    <2> QED BY <1>1, <1>5, <2>1 DEF OnTime, Works
<1>12. Taken' BY <1>1, <1>2 DEF OnTime, Taken
<1>13. Remembered'
    <2>1. ASSUME NEW i \in 1 .. Len(passed)
          PROVE  passed[i].id <= last'.id /\ passed[i].id # last'.id
        <3>1. passed[i].id \in Nat /\ last.id \in Nat /\ last'.id \in Nat
            <4>1. passed[i] \in Told BY ElementOfSeq DEF Types
            <4>2. uart_communicate_buf.id \in Nat BY DEF Types, TypeOK, Frame
            <4> QED BY <4>1, <4>2, <1>5 DEF Told
        <3>2. passed[i].id <= last.id /\ (passed[i].id = last.id => Ack_recive_enable # 1)
            BY DEF OnTime, Remembered
        <3> QED BY <1>5, <3>1, <3>2
    <2> QED BY <1>1, <2>1 DEF OnTime, Remembered, AnswerOnce, AnswerCurrent
<1> QED BY <1>8, <1>9, <1>10, <1>11, <1>12, <1>13 DEF OnTime

(* The frame that is complete in the buffer is the answer to the command   *)
(* sent last, whole or damaged.                                            *)
LEMMA Complete ==
    ASSUME Types, OnTime, uart_recive_All = 1
    PROVE  /\ ~Busy /\ Main_status = "key" /\ pc # "ackreset" /\ ACK_recive_satus = "NOACK"
           /\ queued = <<>> /\ NoFrame /\ fromStm32 = <<>>
           /\ uart_communicate_buf.kind = "answer" /\ uart_communicate_buf.id = last.id
           /\ uart_communicate_buf.no = uartnum /\ uart_communicate_buf.apdu
<1>1. Ack_recive_enable # 1
    BY DEF OnTime, Waits, Again, Queued, Out, Acknowledged, Still, Deaf
<1>2. uart_send_flag # 1 BY <1>1 DEF OnTime, Fresh, Still, Deaf
<1>3. ~Busy BY <1>1, <1>2 DEF Busy
<1>4. PICK a \in Answers : Arriving(a)
    BY <1>3 DEF OnTime, Rests, Deaf
<1>5. /\ Main_status = "key" /\ pc # "ackreset" /\ ACK_recive_satus = "NOACK"
      /\ queued = <<>> /\ NoFrame
    BY <1>3 DEF OnTime, Rests, Deaf
<1>6. fromStm32 = <<>> /\ uart_communicate_buf = a BY <1>4 DEF Arriving
<1>7. a.kind = "answer" /\ a.id = last.id /\ a.no = uartnum /\ a.apdu
    BY <1>4 DEF Answers, Answer
<1> QED BY <1>3, <1>5, <1>6, <1>7

(* It is passed on, or not.                                                *)
LEMMA PassedOn ==
    ASSUME Types, OnTime, uart_recive_All = 1,
           NEW t \in Told, t.kind = "answer", t.good, t.id = last.id, t.to = last.id,
           passed' = Append(passed, t),
           t.remembered => ~Known /\ CRC_old' = Crc(uart_communicate_buf),
           ~t.remembered => CRC_old' = CRC_old,
           Ack_recive_enable' # 1, uart_send_flag' = uart_send_flag,
           UNCHANGED <<last, Main_status>>
    PROVE  Remembered'
<1>1. /\ ~Busy /\ Main_status = "key"
      /\ uart_communicate_buf.kind = "answer" /\ uart_communicate_buf.id = last.id
    BY Complete
<1>4. /\ Len(passed) \in Nat /\ Len(passed') = Len(passed) + 1
      /\ \A i \in 1 .. Len(passed) : passed'[i] = passed[i]
      /\ passed'[Len(passed) + 1] = t
    BY AppendProperties DEF Types
<1>5. \A i \in 1 .. Len(passed') : i \in 1 .. Len(passed) \/ i = Len(passed) + 1
    BY <1>4
<1>6. uart_send_flag = 0 /\ last.id \in Nat BY <1>1 DEF Busy, Types, TypeOK
<1>7. Crc(uart_communicate_buf) = 2 * last.id + 1 BY <1>1 DEF Crc
<1>8. ASSUME t.remembered, NEW i \in 1 .. Len(passed), passed[i].remembered
      PROVE  passed[i].id # last.id
    BY <1>1, <1>6, <1>7, <1>8 DEF OnTime, Remembered, Known
<1>9. AnswerOnce'
    <2> SUFFICES ASSUME NEW i \in 1 .. Len(passed'), NEW j \in 1 .. Len(passed'), i < j,
                        passed'[i].remembered, passed'[j].remembered
                 PROVE  passed'[i].id # passed'[j].id
        BY DEF AnswerOnce
    <2>1. i \in 1 .. Len(passed) BY <1>4, <1>5
    <2>2. CASE j \in 1 .. Len(passed)
        BY <1>4, <2>1, <2>2 DEF OnTime, Remembered, AnswerOnce
    <2>3. CASE j = Len(passed) + 1
        <3>1. t.remembered /\ passed'[j].id = last.id BY <1>4, <2>3
        <3>2. passed'[i] = passed[i] BY <1>4, <2>1
        <3> QED BY <1>8, <2>1, <3>1, <3>2
    <2> QED BY <1>5, <2>2, <2>3
<1>10. AnswerCurrent' BY <1>4, <1>5 DEF OnTime, Remembered, AnswerCurrent
<1>11. ASSUME NEW i \in 1 .. Len(passed')
       PROVE  /\ passed'[i].id <= last'.id
              /\ passed'[i].id = last'.id => Ack_recive_enable' # 1
              /\ /\ passed'[i].id = last'.id /\ passed'[i].remembered
                 /\ Main_status' = "key" /\ uart_send_flag' = 0
                 => CRC_old' = 2 * last'.id + 1
    <2>1. CASE i \in 1 .. Len(passed)
        <3>1. passed'[i] = passed[i] BY <1>4, <2>1
        <3>2. passed[i].id <= last.id BY <2>1 DEF OnTime, Remembered
        <3>3. passed[i].id = last.id /\ passed[i].remembered => CRC_old = 2 * last.id + 1
            BY <1>1, <1>6, <2>1 DEF OnTime, Remembered
        <3>4. t.remembered => ~passed[i].remembered \/ passed[i].id # last.id BY <1>8, <2>1
        <3> QED BY <3>1, <3>2, <3>3, <3>4, <1>7
    <2>2. CASE i = Len(passed) + 1
        BY <1>4, <1>6, <1>7, <2>2
    <2> QED BY <1>5, <2>1, <2>2
<1> QED BY <1>9, <1>10, <1>11 DEF Remembered

(* The buffer has been looked at: the receiver is free again.              *)
LEMMA LookedAt ==
    ASSUME Types, OnTime, uart_recive_All = 1, OnlyAcks,
           pc' # "ackreset", Ack_recive_enable' # 1, uart_recive_All' = 0, olddata' = "0",
           ACK_recive_satus' = "NOACK", Timeout1Sec_Uart_StarFlag' = "TimeClose",
           UNCHANGED <<Main_status, uart_communicate_buf, uartnum, uart_send_flag, queued,
                       fromStm32, stm32, given, last, accepted, acked>>,
           Remembered'
    PROVE  OnTime'
<1>1. ~Busy /\ Main_status = "key" /\ queued = <<>> /\ NoFrame /\ fromStm32 = <<>>
    BY Complete
<1>2. ~Busy' BY <1>1 DEF Busy
<1>3. Holds' /\ Waits' /\ Fresh' BY <1>2 DEF Holds, Waits, Fresh, Busy
<1>4. NoFrame' BY <1>1, WireKept DEF Types
<1>5. Rests' BY <1>1, <1>4 DEF Rests, Deaf
<1>6. Timed' /\ Works' BY DEF OnTime, Timed, Works
<1>7. Taken' BY <1>2 DEF OnTime, Taken
<1> QED BY <1>3, <1>5, <1>6, <1>7 DEF OnTime

(* A whole frame: passed on, known already, or refused.                    *)
LEMMA ReceiveOnTime == ASSUME Types, OnTime, TurnReceive PROVE OnTime'
<1>1. /\ uart_recive_All = 1 /\ pc' # "ackreset" /\ uart_recive_All' = 0 /\ olddata' = "0"
      /\ ACK_recive_satus' = "NOACK" /\ Timeout1Sec_Uart_StarFlag' = "TimeClose" /\ OnlyAcks
      /\ UNCHANGED <<Main_status, uart_communicate_buf, uartnum, uart_send_flag, queued,
                     fromStm32, stm32, given, last, accepted, acked>>
    BY DEF TurnReceive, Refuse, OnlyAcks, mode
<1>2. Ack_recive_enable # 1 BY <1>1, Complete DEF Busy
<1>c. /\ uart_communicate_buf.kind = "answer" /\ uart_communicate_buf.id = last.id
      /\ uart_communicate_buf.apdu
    BY <1>1, Complete
<1>3. CASE Matches /\ ~Known
    <2> DEFINE t == [kind |-> uart_communicate_buf.kind,
                     id |-> uart_communicate_buf.id, to |-> last.id,
                     good |-> uart_communicate_buf.good, remembered |-> TRUE]
    <2>1. /\ passed' = Append(passed, t) /\ CRC_old' = Crc(uart_communicate_buf)
          /\ Ack_recive_enable' = 0
        BY <1>c, <1>3 DEF TurnReceive, Uart_cmdprogam
    <2>2. /\ t \in Told /\ t.kind = "answer" /\ t.good /\ t.id = last.id /\ t.to = last.id
          /\ t.remembered
        BY <1>c, <1>3 DEF Matches, Types, TypeOK, Told, Frame
    <2> HIDE DEF t
    <2>3. Remembered' BY <1>1, <1>3, <2>1, <2>2, PassedOn
    <2> QED BY <1>1, <2>1, <2>3, LookedAt
<1>4. CASE ~(Matches /\ ~Known)
    <2>1. UNCHANGED <<CRC_old, passed>>
        BY <1>4 DEF TurnReceive
    <2>2. Ack_recive_enable' # 1
        <3>1. \/ Ack_recive_enable' = Ack_recive_enable
              \/ Ack_recive_enable' = 2
            BY <1>4 DEF TurnReceive, Refuse
        <3> QED BY <1>2, <3>1
    <2>3. Remembered'
        BY <1>1, <1>2, <2>1, <2>2 DEF OnTime, Remembered, AnswerOnce, AnswerCurrent
    <2> QED BY <1>1, <2>2, <2>3, LookedAt
<1> QED BY <1>3, <1>4

(* The same after a refused frame, where CRC_old is not looked at.         *)
LEMMA RefusedReceiveOnTime == ASSUME Types, OnTime, TurnRefusedReceive PROVE OnTime'
<1>1. /\ uart_recive_All = 1 /\ pc' # "ackreset" /\ uart_recive_All' = 0 /\ olddata' = "0"
      /\ Timeout1Sec_Uart_StarFlag' = "TimeClose" /\ OnlyAcks
      /\ UNCHANGED <<Main_status, uart_communicate_buf, uartnum, uart_send_flag, queued,
                     fromStm32, stm32, given, last, accepted, acked, CRC_old>>
    BY DEF TurnRefusedReceive, OnlyAcks, mode
<1>c. /\ uart_communicate_buf.kind = "answer" /\ uart_communicate_buf.id = last.id
      /\ uart_communicate_buf.apdu /\ ACK_recive_satus = "NOACK"
    BY <1>1, Complete
<1>2. ACK_recive_satus' = "NOACK" /\ Ack_recive_enable' # 1
    <2>1. Ack_recive_enable = 2 BY DEF TurnRefusedReceive
    <2>2. /\ ACK_recive_satus' = "NOACK" \/ ACK_recive_satus' = ACK_recive_satus
          /\ Ack_recive_enable' = 0 \/ Ack_recive_enable' = Ack_recive_enable
        BY DEF TurnRefusedReceive, GiveUp
    <2> QED BY <1>c, <2>1, <2>2
<1>3. CASE Matches
    <2> DEFINE t == [kind |-> uart_communicate_buf.kind,
                     id |-> uart_communicate_buf.id, to |-> last.id,
                     good |-> uart_communicate_buf.good, remembered |-> FALSE]
    <2>1. passed' = Append(passed, t)
        BY <1>c, <1>3 DEF TurnRefusedReceive, Uart_cmdprogam
    <2>2. /\ t \in Told /\ t.kind = "answer" /\ t.good /\ t.id = last.id /\ t.to = last.id
          /\ ~t.remembered
        BY <1>c, <1>3 DEF Matches, Types, TypeOK, Told, Frame
    <2> HIDE DEF t
    <2>3. Remembered' BY <1>1, <1>2, <2>1, <2>2, PassedOn
    <2> QED BY <1>1, <1>2, <2>3, LookedAt
<1>4. CASE ~Matches
    <2>1. UNCHANGED passed BY <1>4 DEF TurnRefusedReceive
    <2>2. Remembered' BY <1>1, <1>2, <2>1 DEF OnTime, Remembered, AnswerOnce, AnswerCurrent
    <2> QED BY <1>1, <1>2, <2>2, LookedAt
<1> QED BY <1>3, <1>4

(* The acknowledgement has come, or will not: the command is sent again,   *)
(* or nothing is waited for any more.                                      *)
LEMMA AgainOnTime ==
    ASSUME Types, OnTime, Ack_recive_enable = 1, Still',
    pc' # "client" \/ Main_status # "off",
           uart_send_flag' = 1, Timeout1Sec_Uart_StarFlag' = "TimeClose",
           UNCHANGED <<Main_status, uart_communicate_buf, uartnum, Ack_recive_enable, stm32,
                       given,
                       last, accepted, acked, passed>>
    PROVE  OnTime'
<1>1. Busy /\ Busy' BY DEF Busy
<1>2. Holds' BY <1>1 DEF OnTime, Holds
<1>3. Waits' BY DEF OnTime, Waits, Again
<1>4. Fresh' /\ Rests' /\ Timed' BY <1>1 DEF Fresh, Rests, Timed
<1>5. Works' /\ Taken' BY <1>1 DEF OnTime, Works, Taken
<1>6. Remembered' BY DEF OnTime, Remembered, AnswerOnce, AnswerCurrent
<1> QED BY <1>2, <1>3, <1>4, <1>5, <1>6 DEF OnTime

(* It is over: acknowledged, or given up.                                  *)
LEMMA SettledOnTime ==
    ASSUME Types, OnTime, Ack_recive_enable = 1, uart_send_flag = 0, Still',
           uart_send_flag' = 0, Ack_recive_enable' = 0,
           Timeout1Sec_Uart_StarFlag' = "TimeClose",
           acked' = acked \/ acked' = acked \union {last.id},
           acked' = acked \/ given >= 256 \/ last.id \in accepted,
           UNCHANGED <<Main_status, uart_communicate_buf, uartnum, stm32, given, last,
                       accepted,
                       passed>>
    PROVE  OnTime'
<1>1. Busy /\ ~Busy' BY DEF Busy
<1>2. Main_status # "off" BY <1>1 DEF OnTime, Holds
<1>3. Holds' /\ Waits' /\ Fresh' /\ Timed' BY <1>1 DEF Holds, Waits, Fresh, Timed
<1>4. Rests' BY <1>2 DEF Rests, Still
<1>5. Works' BY DEF OnTime, Works
<1>6. Taken'
    <2>1. given \in Nat BY DEF Types, TypeOK
    <2>2. given < 256 => acked' \subseteq accepted BY <2>1 DEF OnTime, Taken
    <2> QED BY <1>1, <2>2 DEF OnTime, Taken
<1>7. Remembered' BY DEF OnTime, Remembered, AnswerOnce, AnswerCurrent
<1> QED BY <1>3, <1>4, <1>5, <1>6, <1>7 DEF OnTime

(* The acknowledgement has come.                                           *)
LEMMA AckedOnTime == ASSUME Types, Counted, OnTime, TurnAcked PROVE OnTime'
<1>1. /\ pc = "ackstatus" /\ pc' = "ackreset" /\ Ack_recive_enable = 1
      /\ ACK_recive_satus # "NOACK" /\ Timeout1Sec_Uart_StarFlag' = "TimeClose"
      /\ UNCHANGED <<Main_status, uart_communicate_buf, uartnum, uart_recive_All, olddata,
                     ACK_recive_satus, queued, toStm32, fromStm32, stm32, given, last,
                     accepted,
                     passed>>
    BY DEF TurnAcked, mode, isr, wires
<1>2. uart_send_flag = 0 BY <1>1 DEF Counted
<1>3. Acknowledged /\ uart_communicate_buf.id = last.id
    BY <1>1, <1>2 DEF OnTime, Waits, Again, Queued, Out, Deaf
<1>4. /\ fromStm32 = <<>> /\ queued = <<>> /\ NoFrame /\ uart_recive_All = 0
      /\ ACK_recive_satus = "SuccsACK" => (given < 256 => uart_communicate_buf.id \in accepted)
    BY <1>1, <1>3 DEF Acknowledged, Coming
<1>5. NoFrame' BY <1>1, <1>4 DEF NoFrame
<1>6. Still' BY <1>1, <1>4, <1>5 DEF Still, Deaf
<1>7. CASE /\ uart_send_flag' = 1 /\ UNCHANGED <<Ack_recive_enable, acked>>
    BY <1>1, <1>6, <1>7, AgainOnTime
<1>8. CASE /\ uart_send_flag' = uart_send_flag /\ Ack_recive_enable' = 0 /\ UNCHANGED acked
    BY <1>1, <1>2, <1>6, <1>8, SettledOnTime
<1>9. CASE /\ ACK_recive_satus = "SuccsACK" /\ uart_send_flag' = uart_send_flag
           /\ Ack_recive_enable' = 0 /\ acked' = acked \union {last.id}
    <2>1. given >= 256 \/ last.id \in accepted BY <1>3, <1>4, <1>9 DEF Types, TypeOK
    <2> QED BY <1>1, <1>2, <1>6, <1>9, <2>1, SettledOnTime
<1> QED BY <1>7, <1>8, <1>9 DEF TurnAcked, GiveUp

(* Then it is forgotten, and the receiver is free again.                   *)
LEMMA AckResetOnTime == ASSUME Types, OnTime, TurnAckReset PROVE OnTime'
<1>1. /\ pc = "ackreset" /\ pc' = "resend" /\ ACK_recive_satus' = "NOACK"
      /\ uart_recive_All' = 0 /\ olddata' = "0"
      /\ UNCHANGED <<Main_status, uart_communicate_buf, uartnum, uart_send_flag,
                     Ack_recive_enable, CRC_old, Timeout1Sec_Uart_StarFlag, queued, toStm32,
                     fromStm32, stm32, given, last, accepted, acked, passed>>
    BY DEF TurnAckReset, mode, sender, wires, ghosts
<1>2. Deaf => Deaf' BY <1>1 DEF Deaf
<1>3. NoFrame => NoFrame' BY <1>1 DEF NoFrame
<1>4. Still => Still' BY <1>1, <1>2, <1>3 DEF Still
<1>5. Ack_recive_enable = 1 => Again
    BY <1>1 DEF OnTime, Waits, Queued, Out, Acknowledged
<1>6. Busy' <=> Busy BY <1>1 DEF Busy
<1>7. Holds' BY <1>1, <1>6 DEF OnTime, Holds
<1>8. Waits' BY <1>1, <1>4, <1>5 DEF OnTime, Waits, Again
<1>9. Fresh' BY <1>1, <1>4 DEF OnTime, Fresh
<1>10. Rests' BY <1>1, <1>2, <1>3, <1>6 DEF OnTime, Rests
<1>11. Timed' /\ Works' BY <1>1 DEF OnTime, Timed, Works
<1>12. Taken' BY <1>1, <1>6 DEF OnTime, Taken
<1>13. Remembered' BY <1>1 DEF OnTime, Remembered, AnswerOnce, AnswerCurrent
<1> QED BY <1>7, <1>8, <1>9, <1>10, <1>11, <1>12, <1>13 DEF OnTime

(* Outside the queue and the wires, the modes in which nothing runs.       *)
LEMMA OffIsIdle ==
    ASSUME OnTime, pc # "client"
    PROVE  Main_status # "off"
    BY DEF OnTime, Holds, Rests

(* None has come, or the timer has run out: nothing is under way then.     *)
LEMMA WaitsAckOnTime == ASSUME Types, Counted, OnTime, TurnWaitsAck PROVE OnTime'
<1>1. /\ pc = "ackstatus" /\ pc' = "resend" /\ toStm32' = toStm32 /\ stm32' = stm32
      /\ UNCHANGED <<Main_status, uart_communicate_buf, uartnum, CRC_old, uart_recive_All,
                     olddata,
                     ACK_recive_satus, queued, fromStm32, given, last, accepted, acked,
                     passed>>
    BY DEF TurnWaitsAck, mode, sender, isr, wires, ghosts
<1>2. OnlyAcks BY <1>1 DEF OnlyAcks
<1>3. Main_status # "off" BY <1>1, OffIsIdle
<1>4. CASE /\ UNCHANGED sender
           /\ \/ UNCHANGED Timeout1Sec_Uart_StarFlag
              \/ Ack_recive_enable = 1 /\ Timeout1Sec_Uart_StarFlag' = "TimeOpen"
    <2>1. UNCHANGED <<uart_send_flag, Ack_recive_enable>> BY <1>4 DEF sender
    <2>2. Ack_recive_enable = 1 => uart_send_flag = 0 BY <1>1 DEF Counted
    <2>3. stm32'.no = stm32.no /\ stm32'.apdu \in {0, stm32.apdu} BY <1>1
    <2> QED BY <1>1, <1>2, <1>3, <1>4, <2>1, <2>2, <2>3, Steady
<1>5. CASE /\ Ack_recive_enable = 1 /\ Timeout1Sec_Uart_StarFlag = "TimeOut"
           /\ Timeout1Sec_Uart_StarFlag' = "TimeClose"
           /\ \/ uart_send_flag' = 1 /\ UNCHANGED Ack_recive_enable
              \/ Ack_recive_enable' = 0 /\ UNCHANGED uart_send_flag
    <2>1. Out /\ NoFrame BY <1>5 DEF OnTime, Waits
    <2>2. NoFrame' BY <1>1, <2>1 DEF NoFrame
    <2>3. Still' BY <1>1, <2>1, <2>2 DEF Still, Out, Deaf
    <2>4. uart_send_flag = 0 BY <2>1 DEF Out
    <2> QED BY <1>1, <1>5, <2>3, <2>4, AgainOnTime, SettledOnTime
<1>6. CASE Ack_recive_enable = 1
    <2>1. \/ /\ UNCHANGED sender
             /\ Timeout1Sec_Uart_StarFlag' \in {"TimeOpen", Timeout1Sec_Uart_StarFlag}
          \/ /\ Timeout1Sec_Uart_StarFlag = "TimeOut" /\ Timeout1Sec_Uart_StarFlag' = "TimeClose"
             /\ \/ uart_send_flag' = 1 /\ UNCHANGED Ack_recive_enable
                \/ Ack_recive_enable' = 0 /\ UNCHANGED uart_send_flag
        BY <1>6 DEF TurnWaitsAck, GiveUp
    <2> QED BY <1>4, <1>5, <1>6, <2>1
<1>7. CASE Ack_recive_enable # 1
    BY <1>4, <1>7 DEF TurnWaitsAck
<1> QED BY <1>6, <1>7

(* A frame was refused: the next is waited for, or not any more.           *)
LEMMA RefusedOnTime == ASSUME Types, OnTime, TurnRefused PROVE OnTime'
<1>1. /\ pc = "resend" /\ pc' = "client" /\ Ack_recive_enable = 2 /\ OnlyAcks
      /\ stm32' = stm32
      /\ UNCHANGED <<Main_status, uart_communicate_buf, uartnum, uart_send_flag, CRC_old,
                     uart_recive_All, olddata, ACK_recive_satus, queued, fromStm32, given,
                     last,
                     accepted, acked, passed>>
    BY DEF TurnRefused, OnlyAcks, mode, isr, ghosts
<1>2. stm32'.no = stm32.no /\ stm32'.apdu \in {0, stm32.apdu} BY <1>1
<1>3. CASE UNCHANGED Ack_recive_enable
    BY <1>1, <1>2, <1>3, Steady
<1>4. CASE Ack_recive_enable' = 0 /\ Timeout1Sec_Uart_StarFlag' = "TimeClose"
    <2>1. ~Busy /\ ~Busy' BY <1>1, <1>4 DEF OnTime, Holds, Busy
    <2>2. Holds' /\ Waits' /\ Fresh' BY <2>1 DEF Holds, Waits, Fresh, Busy
    <2>3. NoFrame' BY <1>1, <2>1, WireKept DEF OnTime, Rests, Types
    <2>4. Rests'
        <3>1. ASSUME NEW a \in Answers, Arriving(a) PROVE a \in Answers' /\ Arriving(a)'
            BY <1>1, <3>1 DEF Answers, Arriving
        <3>2. Deaf => Deaf' BY <1>1 DEF Deaf
        <3> QED BY <1>1, <1>4, <2>1, <2>3, <3>1, <3>2 DEF OnTime, Rests
    <2>5. Timed' /\ Works' BY <1>1, <1>4 DEF OnTime, Timed, Works
    <2>6. Taken' BY <1>1, <2>1 DEF OnTime, Taken
    <2>7. Remembered' BY <1>1, <1>4 DEF OnTime, Remembered, AnswerOnce, AnswerCurrent
    <2> QED BY <2>2, <2>4, <2>5, <2>6, <2>7 DEF OnTime
<1> QED BY <1>3, <1>4 DEF TurnRefused, GiveUp

(* The queue's frame goes out, or nowhere.                                 *)
LEMMA SendBtyOnTime == ASSUME Types, OnTime, uart_send_Bty PROVE OnTime'
<1>1. /\ pc = "client" /\ queued # <<>> /\ queued' = Tail(queued)
      /\ UNCHANGED <<Main_status, uart_communicate_buf, uartnum, uart_send_flag, pc,
                     CRC_old,
                     Ack_recive_enable, uart_recive_All, olddata, ACK_recive_satus,
                     fromStm32,
                     Timeout1Sec_Uart_StarFlag, given, stm32, last, accepted, acked,
                     passed>>
    BY DEF uart_send_Bty, mode, sender, isr, ghosts
<1>b. Busy' <=> Busy BY <1>1 DEF Busy
<1>d. Deaf => Deaf' BY <1>1 DEF Deaf
<1>2. Holds' BY <1>1, <1>b DEF OnTime, Holds
<1>3. Timed' /\ Works' BY <1>1 DEF OnTime, Timed, Works
<1>4. Taken' BY <1>1, <1>b DEF OnTime, Taken
<1>5. Remembered' BY <1>1 DEF OnTime, Remembered, AnswerOnce, AnswerCurrent
<1>6. Fresh' BY <1>1 DEF OnTime, Fresh, Still
<1>7. CASE Main_status = "off"
    <2>1. ~Busy /\ ~Busy' BY <1>7, <1>b DEF OnTime, Holds
    <2>2. toStm32' = toStm32 BY <1>7 DEF uart_send_Bty, uart_enable_flag
    <2>3. Rests'
        <3>1. NoFrame' BY <2>1, <2>2 DEF OnTime, Rests, NoFrame
        <3> QED BY <1>1, <1>7, <1>d, <2>1, <3>1 DEF OnTime, Rests
    <2>4. Waits' BY <2>1 DEF Waits, Busy
    <2> QED BY <1>2, <1>3, <1>4, <1>5, <1>6, <2>3, <2>4 DEF OnTime
<1>8. CASE Main_status # "off"
    <2>1. Ack_recive_enable = 1
        BY <1>1, <1>8 DEF OnTime, Rests, Fresh, Still, Busy
    <2>2. Queued /\ uart_communicate_buf.id = last.id
          /\ Timeout1Sec_Uart_StarFlag # "TimeOut"
        BY <1>1, <2>1 DEF OnTime, Waits, Again, Still, Out, Acknowledged
    <2>3. queued = <<uart_communicate_buf>> /\ NoFrame /\ Deaf /\ pc # "ackreset"
          /\ uart_send_flag = 0
        BY <2>2 DEF Queued
    <2>4. toStm32' = Append(toStm32, [type |-> "frame", f |-> uart_communicate_buf])
        <3>1. Head(queued) = uart_communicate_buf BY <2>3
        <3> QED BY <1>8, <3>1 DEF uart_send_Bty, uart_enable_flag
    <2>5. AtMostBuf' BY <1>1, <2>3, <2>4, FrameSent DEF Types, TypeOK
    <2>6. queued' = <<>>
        <3>1. \A x : Tail(<<x>>) = <<>> OBVIOUS
        <3> QED BY <1>1, <2>3, <3>1
    <2>7. Out' BY <1>1, <1>d, <2>3, <2>5, <2>6 DEF Out
    <2>8. Waits' BY <1>1, <2>2, <2>7 DEF Waits
    <2>9. Rests' BY <1>b, <2>1 DEF Rests, Busy
    <2> QED BY <1>2, <1>3, <1>4, <1>5, <1>6, <2>8, <2>9 DEF OnTime
<1> QED BY <1>7, <1>8

-----------------------------------------------------------------------------
(* Main's turns that find nothing to do, the phone and the timer.          *)
LEMMA NothingOnTime ==
    ASSUME Types, OnTime,
           \/ TurnSend /\ uart_send_flag # 1
           \/ TurnReceiveNothing \/ TurnNotRefused \/ PhoneAcks
    PROVE  OnTime'
<1>1. CASE TurnSend /\ uart_send_flag # 1
    <2>1. /\ OnlyAcks /\ pc = "client" /\ pc' = "receive" /\ Main_status # "off"
          /\ UNCHANGED <<Main_status, uart_communicate_buf, uartnum, uart_send_flag,
                         Ack_recive_enable, CRC_old, queued, fromStm32, uart_recive_All,
                         olddata,
                         ACK_recive_satus, given, last, accepted, acked, passed, stm32,
                         Timeout1Sec_Uart_StarFlag>>
        BY <1>1 DEF TurnSend, OnlyAcks, uart_enable_flag, mode, isr
    <2>2. stm32'.no = stm32.no /\ stm32'.apdu \in {0, stm32.apdu} BY <2>1
    <2> QED BY <2>1, <2>2, Steady
<1>2. CASE TurnReceiveNothing \/ TurnNotRefused \/ PhoneAcks
    <2>1. /\ OnlyAcks
          /\ UNCHANGED <<Main_status, uart_communicate_buf, uartnum, uart_send_flag,
                         Ack_recive_enable, CRC_old, queued, fromStm32, uart_recive_All,
                         olddata,
                         ACK_recive_satus, given, last, accepted, acked, passed, stm32,
                         Timeout1Sec_Uart_StarFlag>>
        BY <1>2 DEF TurnReceiveNothing, TurnNotRefused, PhoneAcks, OnlyAcks, mode, sender,
            isr,
                    wires, ghosts
    <2>2. \/ pc' = pc
          \/ pc = "receive" /\ pc' = "ackstatus"
          \/ pc = "resend" /\ pc' = "client"
        BY <1>2 DEF TurnReceiveNothing, TurnNotRefused, PhoneAcks
    <2>3. pc # "client" => Main_status # "off" BY OffIsIdle
    <2>4. stm32'.no = stm32.no /\ stm32'.apdu \in {0, stm32.apdu} BY <2>1
    <2> QED BY <2>1, <2>2, <2>3, <2>4, Steady
<1> QED BY <1>1, <1>2

(* In time the timer runs out only when nothing comes any more.            *)
LEMMA TimeOutOnTime ==
    ASSUME Types, OnTime, timely, TimeOutUart_handler
    PROVE  OnTime'
<1>1. /\ wires = << <<>>, <<>>, <<>> >> /\ Timeout1Sec_Uart_StarFlag = "TimeOpen"
      /\ ACK_recive_satus = "NOACK" /\ uart_recive_All = 0
      /\ UNCHANGED <<Main_status, uart_communicate_buf, uartnum, uart_send_flag,
                     Ack_recive_enable, CRC_old, queued, toStm32, fromStm32,
                     uart_recive_All,
                     olddata, ACK_recive_satus, given, last, accepted, acked, passed, stm32,
                     pc>>
    BY DEF TimeOutUart_handler, mode, sender, isr, wires, ghosts
<1>2. queued = <<>> /\ toStm32 = <<>> /\ fromStm32 = <<>> BY <1>1 DEF wires
<1>3. OnlyAcks BY <1>1 DEF OnlyAcks
<1>4. stm32'.no = stm32.no /\ stm32'.apdu \in {0, stm32.apdu} BY <1>1
<1>5. Ack_recive_enable # 0 BY <1>1 DEF OnTime, Timed
<1>6. Ack_recive_enable = 1 => uart_send_flag = 0 /\ Out /\ NoFrame
    <2> SUFFICES ASSUME Ack_recive_enable = 1 PROVE uart_send_flag = 0 /\ Out /\ NoFrame
        OBVIOUS
    <2>1. Again \/ Queued \/ Out \/ Acknowledged BY DEF OnTime, Waits
    <2>2. ~Again BY <1>1 DEF Again
    <2>3. ~Queued BY <1>2 DEF Queued
    <2>4. ~Acknowledged
        <3>1. \A bytes, satus : Acks(bytes, satus) => ~Coming(bytes, satus)
            <4> SUFFICES ASSUME NEW bytes, NEW satus, Acks(bytes, satus), Coming(bytes, satus)
                         PROVE  FALSE
                OBVIOUS
            <4>1. bytes # <<>> /\ Tail(bytes) # <<>> /\ Tail(Tail(bytes)) # <<>>
                BY AckBytesAre
            <4>2. satus # "NOACK" BY DEF Acks
            <4> QED BY <1>1, <1>2, <4>1, <4>2 DEF Coming
        <3>2. Acks(SuccsBytes, "SuccsACK") /\ Acks(FailBytes, "FailACK") BY DEF Acks
        <3> QED BY <3>1, <3>2 DEF Acknowledged
    <2>5. NoFrame
        <3>1. Len(toStm32) = 0 BY <1>2
        <3> QED BY <3>1 DEF NoFrame
    <2> QED BY <2>1, <2>2, <2>3, <2>4, <2>5 DEF Out
<1>7. Ack_recive_enable \in {0, 1, 2} BY DEF Types, TypeOK
<1>8. \/ Ack_recive_enable = 2
      \/ Ack_recive_enable = 1 /\ uart_send_flag = 0 /\ Out /\ NoFrame
    BY <1>5, <1>6, <1>7
<1> QED BY <1>1, <1>3, <1>4, <1>8, Steady

-----------------------------------------------------------------------------
(* The STM32 takes no new frame: one is lost, or an acknowledgement comes, *)
(* or it is about to send its answer again.                                *)
LEMMA Stm32SteadyOnTime ==
    ASSUME Types, OnTime, Stm32Misses \/ Stm32GetsAck \/ Stm32Repeats
    PROVE  OnTime'
<1>1. UNCHANGED <<Main_status, uart_communicate_buf, uartnum, uart_send_flag,
                  Ack_recive_enable, CRC_old, queued, fromStm32, uart_recive_All, olddata,
                  ACK_recive_satus, given, last, accepted, acked, passed, pc,
                  Timeout1Sec_Uart_StarFlag>>
    BY DEF Stm32Misses, Stm32GetsAck, Stm32Repeats, unchangedDevice, mode, sender, isr
<1>2. OnlyAcks BY DEF Stm32Misses, Stm32GetsAck, Stm32Repeats, OnlyAcks
<1>3. stm32'.no = stm32.no /\ stm32'.apdu \in {0, stm32.apdu}
    BY DEF Stm32Misses, Stm32GetsAck, Stm32Repeats, Types, Stm32States
<1> QED BY <1>1, <1>2, <1>3, Steady

(* The command's frame arrives: it was waited for.                         *)
LEMMA FrameArrives ==
    ASSUME Types, OnTime, toStm32 # <<>>, Head(toStm32).type = "frame",
    toStm32' = Tail(toStm32)
    PROVE  /\ Ack_recive_enable = 1 /\ Out /\ NoFrame'
           /\ Head(toStm32).f = uart_communicate_buf /\ uart_communicate_buf.id = last.id
           /\ Timeout1Sec_Uart_StarFlag # "TimeOut"
<1>1. ~NoFrame
    <2>1. 1 \in 1 .. Len(toStm32) /\ toStm32[1].type = "frame"
        BY HeadTailProperties, LenProperties, EmptySeq DEF Types
    <2> QED BY <2>1 DEF NoFrame
<1>2. Ack_recive_enable = 1 BY <1>1 DEF OnTime, Rests, Fresh, Still, Busy
<1>3. Out BY <1>1, <1>2 DEF OnTime, Waits, Again, Still, Queued, Acknowledged
<1>4. NoFrame' /\ Head(toStm32).f = uart_communicate_buf BY <1>3, FrameTaken DEF Types, Out
<1> QED BY <1>1, <1>2, <1>3, <1>4 DEF OnTime, Waits

(* It is taken or refused; the acknowledgement is on its way.              *)
LEMMA ArrivedOnTime ==
    ASSUME Types, OnTime, toStm32 # <<>>, Head(toStm32).type = "frame",
    toStm32' = Tail(toStm32),
           UNCHANGED <<Main_status, uart_communicate_buf, uartnum, uart_send_flag,
                       Ack_recive_enable, CRC_old, queued, uart_recive_All, olddata,
                       ACK_recive_satus, given, last, acked, passed, pc,
                       Timeout1Sec_Uart_StarFlag>>,
           \/ fromStm32' = fromStm32 \o FailBytes
           \/ /\ fromStm32' = fromStm32 \o SuccsBytes
              /\ given < 256 => uart_communicate_buf.id \in accepted',
           \/ UNCHANGED <<stm32, accepted>>
           \/ /\ stm32'.no = uart_communicate_buf.no
              /\ stm32'.apdu = IF uart_communicate_buf.apdu THEN uart_communicate_buf.id ELSE 0
              /\ accepted' = accepted \union {uart_communicate_buf.id}
    PROVE  OnTime'
<1>1. /\ Ack_recive_enable = 1 /\ Out /\ NoFrame'
      /\ uart_communicate_buf.id = last.id /\ Timeout1Sec_Uart_StarFlag # "TimeOut"
    BY FrameArrives
<1>2. /\ uart_send_flag = 0 /\ queued = <<>> /\ fromStm32 = <<>> /\ uart_recive_All = 0
      /\ olddata = "0" /\ ACK_recive_satus = "NOACK" /\ pc # "ackreset"
    BY <1>1 DEF Out, Deaf
<1>3. fromStm32' = FailBytes \/ (/\ fromStm32' = SuccsBytes
                                 /\ given < 256 => uart_communicate_buf.id \in accepted')
    <2>1. <<>> \o FailBytes = FailBytes /\ <<>> \o SuccsBytes = SuccsBytes
        <3>1. FailBytes \in Seq(Byte) /\ SuccsBytes \in Seq(Byte)
            BY AckBytesType DEF FailBytes, SuccsBytes
        <3> QED BY <3>1, ConcatEmptySeq
    <2> QED BY <1>2, <2>1
<1>4. Acknowledged'
    <2>1. fromStm32' = FailBytes => Coming(FailBytes, "FailACK")'
        BY <1>2 DEF Coming, FailBytes
    <2>2. fromStm32' = SuccsBytes => Coming(SuccsBytes, "SuccsACK")'
        BY <1>2 DEF Coming, SuccsBytes
    <2> QED BY <1>1, <1>2, <1>3, <2>1, <2>2 DEF Acknowledged
<1>5. Busy /\ Busy' BY <1>1 DEF Busy
<1>6. Holds' BY <1>5 DEF OnTime, Holds
<1>7. Waits' BY <1>1, <1>4 DEF Waits
<1>8. Fresh' /\ Rests' /\ Timed' BY <1>1, <1>5 DEF Fresh, Rests, Timed
<1>9. uart_communicate_buf.no = uartnum
      /\ (uart_communicate_buf.apdu => Main_status = "key")
    BY <1>5 DEF OnTime, Holds
<1>10. Works'
    BY <1>1, <1>9 DEF OnTime, Works
<1>11. Taken'
    <2>1. CASE UNCHANGED <<stm32, accepted>> BY <1>1, <1>5, <2>1 DEF OnTime, Taken
    <2>2. CASE /\ stm32'.no = uart_communicate_buf.no
               /\ accepted' = accepted \union {uart_communicate_buf.id}
        BY <1>1, <1>5, <1>9, <2>2 DEF OnTime, Taken, Types, TypeOK
    <2> QED BY <2>1, <2>2
<1>12. Remembered' BY DEF OnTime, Remembered, AnswerOnce, AnswerCurrent
<1> QED BY <1>6, <1>7, <1>8, <1>10, <1>11, <1>12 DEF OnTime

(* A good frame is taken, if its number is new.                            *)
LEMMA TakesOnTime == ASSUME Types, OnTime, Stm32Takes PROVE OnTime'
<1>1. /\ toStm32 # <<>> /\ Head(toStm32).type = "frame" /\ toStm32' = Tail(toStm32)
      /\ UNCHANGED <<Main_status, uart_communicate_buf, uartnum, uart_send_flag,
                     Ack_recive_enable, CRC_old, queued, uart_recive_All, olddata,
                     ACK_recive_satus, given, last, acked, passed, pc,
                     Timeout1Sec_Uart_StarFlag>>
    BY DEF Stm32Takes, unchangedDevice, mode, sender, isr
<1>2. /\ Ack_recive_enable = 1 /\ Head(toStm32).f = uart_communicate_buf
      /\ uart_communicate_buf.kind = "command" /\ uart_communicate_buf.no = uartnum
    BY <1>1, FrameArrives DEF OnTime, Holds, Busy
<1>3. fromStm32' = fromStm32 \o SuccsBytes BY DEF Stm32Takes, SuccsBytes
<1>4. CASE uart_communicate_buf.no = stm32.no
    <2>1. UNCHANGED <<stm32, accepted>> BY <1>2, <1>4 DEF Stm32Takes
    <2>2. given < 256 => uart_communicate_buf.id \in accepted'
        BY <1>2, <1>4, <2>1 DEF OnTime, Taken, Busy
    <2> QED BY <1>1, <1>3, <2>1, <2>2, ArrivedOnTime
<1>5. CASE uart_communicate_buf.no # stm32.no
    <2>1. /\ stm32'.no = uart_communicate_buf.no
          /\ stm32'.apdu = IF uart_communicate_buf.apdu THEN uart_communicate_buf.id ELSE 0
          /\ accepted' = accepted \union {uart_communicate_buf.id}
        BY <1>2, <1>5 DEF Stm32Takes
    <2>2. uart_communicate_buf.id \in accepted' BY <2>1
    <2> QED BY <1>1, <1>3, <2>1, <2>2, ArrivedOnTime
<1> QED BY <1>4, <1>5

(* A frame is refused.                                                     *)
LEMMA RefusesOnTime == ASSUME Types, OnTime, Stm32Refuses PROVE OnTime'
<1>1. /\ toStm32 # <<>> /\ Head(toStm32).type = "frame" /\ toStm32' = Tail(toStm32)
      /\ UNCHANGED <<Main_status, uart_communicate_buf, uartnum, uart_send_flag,
                     Ack_recive_enable, CRC_old, queued, uart_recive_All, olddata,
                     ACK_recive_satus, given, last, acked, passed, pc,
                     Timeout1Sec_Uart_StarFlag>>
      /\ UNCHANGED <<stm32, accepted>>
    BY DEF Stm32Refuses, unchangedDevice, mode, sender, isr
<1>2. fromStm32' = fromStm32 \o FailBytes BY DEF Stm32Refuses, FailBytes
<1> QED BY <1>1, <1>2, ArrivedOnTime

(* In time the STM32 answers only when its acknowledgement has been taken. *)
LEMMA AnswersOnTime == ASSUME Types, OnTime, timely, Stm32Answers PROVE OnTime'
<1>1. /\ stm32.apdu # 0 /\ fromStm32 = <<>> /\ olddata = "0" /\ Ack_recive_enable # 1
      /\ uart_send_flag = 0 /\ pc # "ackreset"
      /\ stm32'.no = stm32.no /\ stm32'.apdu = stm32.apdu
      /\ UNCHANGED <<Main_status, uart_communicate_buf, uartnum, uart_send_flag,
                     Ack_recive_enable, CRC_old, queued, toStm32, uart_recive_All, olddata,
                     ACK_recive_satus, given, last, accepted, acked, passed, pc,
                     Timeout1Sec_Uart_StarFlag>>
    BY DEF Stm32Answers, unchangedDevice, mode, sender, isr, Types, Stm32States
<1>2. stm32.apdu = last.id /\ stm32.no = uartnum /\ Main_status = "key"
    BY <1>1 DEF OnTime, Works
<1>3. ~Busy /\ ~Busy' BY <1>1 DEF Busy
<1>4. queued = <<>> /\ NoFrame /\ uart_recive_All = 0 /\ ACK_recive_satus = "NOACK"
    BY <1>1, <1>2, <1>3 DEF OnTime, Rests, Deaf, Arriving
<1>5. PICK a \in Answers : fromStm32' = fromStm32 \o FrameBytes(a)
    <2>1. \/ fromStm32' = fromStm32 \o FrameBytes(Answer(stm32.apdu, stm32.no, TRUE))
          \/ fromStm32' = fromStm32 \o FrameBytes(Answer(stm32.apdu, stm32.no, FALSE))
        BY DEF Stm32Answers
    <2> QED BY <2>1, <1>2 DEF Answers
<1>6. fromStm32' = Bytes(a, 0)
    <2>1. FrameBytes(a) \in Seq(Byte)
        <3>1. PICK good \in BOOLEAN : a = Answer(last.id, uartnum, good) BY DEF Answers
        <3>2. last.id \in 0 .. MaxGiven /\ uartnum \in 0 .. 255 BY DEF Types, TypeOK
        <3> QED BY <3>1, <3>2, AnswerType
    <2>2. <<>> \o FrameBytes(a) = FrameBytes(a) BY <2>1, ConcatEmptySeq
    <2> QED BY <1>1, <1>5, <2>2 DEF Bytes
<1>7. Arriving(a)' /\ a \in Answers'
    <2>1. Bytes(a, 0)' = Bytes(a, 0) BY DEF Bytes, FrameBytes
    <2> QED BY <1>1, <1>4, <1>5, <1>6, <2>1 DEF Arriving, Answers
<1>8. Rests'
    <2>1. NoFrame' BY <1>1, <1>4 DEF NoFrame
    <2> QED BY <1>1, <1>2, <1>4, <1>7, <2>1 DEF Rests
<1>9. Holds' /\ Waits' /\ Fresh' BY <1>1, <1>3 DEF Holds, Waits, Fresh
<1>10. Timed' /\ Works' BY <1>1 DEF OnTime, Timed, Works
<1>11. Taken' BY <1>1, <1>3 DEF OnTime, Taken
<1>12. Remembered' BY <1>1 DEF OnTime, Remembered, AnswerOnce, AnswerCurrent
<1> QED BY <1>8, <1>9, <1>10, <1>11, <1>12 DEF OnTime

-----------------------------------------------------------------------------
(* Every step, in a behaviour in which no timeout runs out too early.      *)
LEMMA OnTimeKept ==
    ASSUME Types, Counted, OnTime, timely, Next
    PROVE  OnTime'
<1>1. CASE KeyCommand BY <1>1, KeyCommandOnTime
<1>2. CASE DisplayCommand \/ TimerCommand BY <1>2, TimeCommandOnTime
<1>3. CASE PowerOff BY <1>3, PowerOffOnTime
<1>4. CASE \E to \in {"time", "key"} : PowerOn(to) BY <1>4, PowerOnOnTime
<1>5. CASE uart_event_handle BY <1>5, EventAck, EventAnswer
<1>6. CASE UartDataSendrecive
    <2>1. CASE TurnSend /\ uart_send_flag = 1 BY <2>1, SendOnTime
    <2>2. CASE TurnSend /\ uart_send_flag # 1 BY <2>2, NothingOnTime
    <2>3. CASE TurnReceive BY <2>3, ReceiveOnTime
    <2>4. CASE TurnReceiveNothing \/ TurnNotRefused BY <2>4, NothingOnTime
    <2>5. CASE TurnAcked BY <2>5, AckedOnTime
    <2>6. CASE TurnAckReset BY <2>6, AckResetOnTime
    <2>7. CASE TurnWaitsAck BY <2>7, WaitsAckOnTime
    <2>8. CASE TurnRefused BY <2>8, RefusedOnTime
    <2>9. CASE TurnRefusedReceive BY <2>9, RefusedReceiveOnTime
    <2>10. CASE uart_send_Bty BY <2>10, SendBtyOnTime
    <2> QED BY <1>6, <2>1, <2>2, <2>3, <2>4, <2>5, <2>6, <2>7, <2>8, <2>9, <2>10
            DEF UartDataSendrecive
<1>7. CASE TimeOutUart_handler BY <1>7, TimeOutOnTime
<1>8. CASE PhoneAcks BY <1>8, NothingOnTime
<1>9. CASE Stm32Takes BY <1>9, TakesOnTime
<1>10. CASE Stm32Refuses BY <1>10, RefusesOnTime
<1>11. CASE Stm32Misses \/ Stm32GetsAck \/ Stm32Repeats BY <1>11, Stm32SteadyOnTime
<1>12. CASE Stm32Answers BY <1>12, AnswersOnTime
<1> QED BY <1>1, <1>2, <1>3, <1>4, <1>5, <1>6, <1>7, <1>8, <1>9, <1>10, <1>11, <1>12
        DEF Next, Step

(* At power-up everything is off and empty.                                *)
LEMMA InitInvariant == Init => IInv
<1> SUFFICES ASSUME Init PROVE IInv OBVIOUS
<1> USE UartAssumption
<1>1. TypeOK BY DEF Init, TypeOK, Frame, Command, Idle
<1>2. Types
    <2>1. queued \in Seq(Frame) /\ toStm32 \in Seq(Wire) /\ fromStm32 \in Seq(Byte)
          /\ passed \in Seq(Told)
        BY DEF Init
    <2>2. stm32 \in Stm32States /\ last \in [id : 0 .. MaxGiven, times : Nat]
        BY DEF Init, Idle, Stm32States
    <2> QED BY <1>1, <2>1, <2>2 DEF Types, Init
<1>3. Counted BY DEF Init, Counted, Busy, IsCommand, Command
<1>4. /\ ~Busy /\ Main_status = "off" /\ pc = "client" /\ queued = <<>> /\ toStm32 = <<>>
      /\ fromStm32 = <<>> /\ uart_recive_All = 0 /\ olddata = "0"
      /\ ACK_recive_satus = "NOACK"
      /\ Ack_recive_enable = 0 /\ uart_send_flag = 0
      /\ Timeout1Sec_Uart_StarFlag = "TimeClose" /\ stm32.apdu = 0 /\ stm32.no = 0
      /\ uartnum = 0 /\ given = 0 /\ acked = {} /\ passed = <<>>
    BY DEF Init, Busy, Idle
<1>5. NoFrame
    <2>1. Len(toStm32) = 0 BY <1>4
    <2> QED BY <2>1 DEF NoFrame
<1>6. Holds /\ Waits /\ Fresh BY <1>4 DEF Holds, Waits, Fresh, Busy
<1>7. Rests BY <1>4, <1>5 DEF Rests, Deaf
<1>8. Timed /\ Works BY <1>4 DEF Timed, Works
<1>9. Taken BY <1>4 DEF Taken
<1>10. Remembered
    <2>1. Len(passed) = 0 BY <1>4
    <2> QED BY <2>1 DEF Remembered, AnswerOnce, AnswerCurrent
<1> QED BY <1>2, <1>3, <1>6, <1>7, <1>8, <1>9, <1>10 DEF IInv, OnTime

(* A step that changes nothing.                                            *)
LEMMA StutterInvariant == IInv /\ UNCHANGED vars => IInv'
<1> SUFFICES ASSUME IInv, UNCHANGED vars PROVE IInv' OBVIOUS
<1> USE DEF vars, mode, sender, isr, wires, ghosts
<1>1. Types' BY DEF IInv, Types, TypeOK
<1>2. Counted' BY DEF IInv, Counted, Busy, IsCommand
<1>3. ASSUME timely PROVE OnTime'
    <2>1. Types /\ OnTime BY <1>3 DEF IInv
    <2>2. OnlyAcks BY DEF OnlyAcks
    <2>3. stm32'.no = stm32.no /\ stm32'.apdu \in {0, stm32.apdu} OBVIOUS
    <2>4. UNCHANGED <<Main_status, uart_communicate_buf, uartnum, uart_send_flag,
                      Ack_recive_enable, CRC_old, queued, fromStm32, uart_recive_All,
                      olddata,
                      ACK_recive_satus, given, last, accepted, acked, passed, pc,
                      Timeout1Sec_Uart_StarFlag>>
        OBVIOUS
    <2> QED BY <2>1, <2>2, <2>3, <2>4, Steady
<1> QED BY <1>1, <1>2, <1>3 DEF IInv

(* The inductive invariant holds in every state.                           *)
THEOREM LinkInvariant == Spec => []IInv
<1>1. IInv /\ Next => IInv'
    <2> SUFFICES ASSUME IInv, Next PROVE IInv' OBVIOUS
    <2>1. Types /\ Counted BY DEF IInv
    <2>2. Types' BY <2>1, TypesKept
    <2>3. Counted' BY <2>1, CountedKept
    <2>4. timely' = timely BY DEF Next
    <2>5. timely => OnTime' BY <2>1, OnTimeKept DEF IInv
    <2> QED BY <2>2, <2>3, <2>4, <2>5 DEF IInv
<1> QED BY <1>1, InitInvariant, StutterInvariant, PTL DEF Spec

(* Every variable has its type, and no command is sent more than           *)
(* MAX_resend times, whatever the STM32 and the timeouts do: every retry    *)
(* counts in ACC_resend, and a command ends when the count is cleared.     *)
THEOREM CountersAlwaysBounded == Spec => []CountersBounded
<1>1. IInv => CountersBounded BY DEF IInv, Types, Counted, CountersBounded, SendsBounded
<1> QED BY <1>1, LinkInvariant, PTL

(* In timely behaviours (see UartLink: no early timeout, and no answer     *)
(* before main has looked at the acknowledgement) the phone gets the       *)
(* undamaged answer to the command sent last, and what is known by its CRC *)
(* once.                                                                   *)
THEOREM AnswersAlwaysRight == Spec => []AnswersRight
<1>1. IInv => AnswersRight BY DEF IInv, OnTime, Remembered, AnswersRight
<1> QED BY <1>1, LinkInvariant, PTL

(* In timely behaviours, while the number has not come round, a command    *)
(* that counts as acknowledged was taken by the STM32.                     *)
THEOREM AcksAlwaysRight == Spec => []AcksRight
<1>1. IInv => AcksRight BY DEF IInv, OnTime, Taken, AcksRight
<1> QED BY <1>1, LinkInvariant, PTL
=============================================================================
