---------------------------- MODULE BleTransfer ----------------------------
(***************************************************************************)
(* The BLE transport of the application and its command dispatcher:        *)
(* Bluetooth_HWprotocol.c and the parts of Bluetooth_APPprotocol.c,        *)
(* ble_TxRx_Service.c and Uart_DMWZ.c that share g_apdu with it.           *)
(*                                                                         *)
(* One buffer, g_apdu, holds the command being received and the reply      *)
(* being sent.  The stack's interrupt (PhoneToBle) writes it between any   *)
(* two steps of the main loop, whose turn is cut where an interrupt makes  *)
(* a difference:                                                           *)
(*   top -> receive [-> reset -> finish] -> send -> resend                 *)
(*       [-> remember] -> retry -> process -> uart -> top                  *)
(*                                                                         *)
(* Lengths are in bytes, as in the code; the contents of g_apdu are one    *)
(* token per packet.  T_Connect is whether CheckTP() returns 1: a timer    *)
(* that was closed (T_1 = 0) reads the same as one that ran out.           *)
(***************************************************************************)
EXTENDS Integers, Sequences, FiniteSets, FiniteSetsExt

CONSTANTS
    Commands,      \* the commands, in the order the phone sends them: 1 .. n
    CmdLen,        \* command -> its bytes
    ReplyLen,      \* command -> the bytes of each of its replies
    Local,         \* commands answered inside BluetoothWork()
    Status,        \* commands with cmd_id recivestatus_cmdid (9)
    MaxParts,      \* packets that g_apdu has room for, 57
    WaitRertyTims, \* retries before a transfer is abandoned, 3
    TxBuffers,     \* notifications the stack queues
    MaxLoss        \* bound: packets lost in a behaviour

-----------------------------------------------------------------------------
(* Packets.  A packet carries PackRecive - 2 bytes after its index and its *)
(* total; the first two of those are, in packet 0, the length.             *)
PackRecive == 20

Payload == PackRecive - 2
First   == PackRecive - 4
Ceil(a, b) == (a + b - 1) \div b

Parts(len) == IF len <= First THEN 1 ELSE 1 + Ceil(len - First, Payload)

(* Bytes after index and total of packet k of a command of len bytes.      *)
Bytes(len, k) == IF k < Parts(len) - 1 THEN Payload
                 ELSE len + 2 - k * Payload

(* What is sent fits into g_apdu, and its packets into the 15 bytes of     *)
(* ucaRevPackN; the device itself answers a command once.                  *)
Fits(len) == len \in Nat /\ len >= 6 /\ len < 65536 /\ Parts(len) <= MaxParts

TransferAssumption ==
    /\ Commands \subseteq Nat \ {0}
    /\ \A c \in Commands :
          /\ Fits(CmdLen[c])
          /\ Len(ReplyLen[c]) \in Nat \ {0}
          /\ \A n \in 1 .. Len(ReplyLen[c]) : Fits(ReplyLen[c][n])
    /\ Local \subseteq Commands /\ Status \subseteq Local
    /\ \A c \in Local : Len(ReplyLen[c]) = 1
    /\ MaxParts \in Nat \ {0} /\ MaxParts <= 120
    /\ WaitRertyTims \in Nat \ {0} /\ TxBuffers \in Nat /\ MaxLoss \in Nat

VARIABLES
    Ble_ConnnectFlag, g_apdu, g_apdu_length, blueRecivSendflag,
    Recivedataflag, Apdufinsh, ucaRevPackN,         \* receiving
    ucaPackMsg, T_Connect, ucReTry, ucResend,       \* both directions
    lr, SumPackNumber, Sendlenth, remberPackn,      \* sending
    CMD09_oldlabel, CMD09_SW, uart_waitack_flag,    \* dispatching
    pc,         \* where main is in its turn
    stm32,      \* the command the STM32 works on, and its next reply
    toPhone,    \* notifications on their way
    losses,     \* packets that may still be lost
    work,       \* command -> how often BluetoothWork() was called for it
    resent      \* packets sent again in the current round

deviceVars == <<Ble_ConnnectFlag, g_apdu, g_apdu_length, blueRecivSendflag,
    Recivedataflag, Apdufinsh, ucaRevPackN, ucaPackMsg, T_Connect, ucReTry,
    ucResend, lr, SumPackNumber, Sendlenth, remberPackn, CMD09_oldlabel,
    CMD09_SW, uart_waitack_flag, pc, stm32, toPhone, losses, work, resent>>

rx      == <<Recivedataflag, Apdufinsh, ucaRevPackN>>
both    == <<ucaPackMsg, T_Connect, ucReTry, ucResend>>
tx      == <<lr, SumPackNumber, Sendlenth, remberPackn, resent>>
apdu    == <<g_apdu, g_apdu_length, blueRecivSendflag>>
command == <<CMD09_oldlabel, CMD09_SW, uart_waitack_flag, stm32, work>>
radio   == <<toPhone, losses>>

-----------------------------------------------------------------------------
(* The contents of a packet's share of g_apdu: part of command id as       *)
(* received (with the length in front, hence not aligned) or moved to the  *)
(* start, or part of reply n to command id with the label lab.             *)
Token == [kind : {"none", "cmd", "rsp"}, id : {0} \union Commands,
          lab : {0} \union Commands, n : Nat, aligned : BOOLEAN]

CmdToken(c, moved) == [kind |-> "cmd", id |-> c, lab |-> c, n |-> 0, aligned |-> moved]
RspToken(c, lab, n) == [kind |-> "rsp", id |-> c, lab |-> lab, n |-> n, aligned |-> TRUE]
NoToken == [kind |-> "none", id |-> 0, lab |-> 0, n |-> 0, aligned |-> FALSE]

Part == 0 .. MaxParts - 1

(* A report of missing packets: len counts the flag and the bitmap bytes   *)
(* up to the last that is not zero; 0 after sram_memset().                 *)
Cleared == [len |-> 0, miss |-> {}]

(* Mutant: the last packet is never missed.                                *)
MissedPackN_ShortByOne(total, rev) ==
    LET miss == (0 .. total - 2) \ rev
    IN  [len |-> IF miss = {} THEN 1 ELSE 2 + Max(miss) \div 8, miss |-> miss]

MissedPackN(total, rev) ==
    LET miss == (0 .. total - 1) \ rev
    IN  [len |-> IF miss = {} THEN 1 ELSE 2 + Max(miss) \div 8, miss |-> miss]

(* sd_ble_gatts_hvx(): the notification is queued, or lost because the     *)
(* stack has no buffer or no connection; the result is not looked at.      *)
ble_txrx_Send(packet) ==
    \/ /\ Ble_ConnnectFlag
       /\ Len(toPhone) < TxBuffers
       /\ toPhone' = Append(toPhone, packet)
       /\ UNCHANGED losses
    \/ /\ Ble_ConnnectFlag
       /\ losses > 0
       /\ losses' = losses - 1
       /\ UNCHANGED toPhone
    \/ /\ ~Ble_ConnnectFlag \/ Len(toPhone) >= TxBuffers
       /\ UNCHANGED <<toPhone, losses>>

(* The counters of a reply that is acknowledged or abandoned.              *)
(* Mutant: Sendlenth is not reset.                                         *)
reply_done_KeepsSendlenth == SumPackNumber' = 0 /\ lr' = 0 /\ UNCHANGED Sendlenth

reply_done == SumPackNumber' = 0 /\ Sendlenth' = 0 /\ lr' = 0

Report(msg) == [type |-> "report", miss |-> msg.miss]
Data(k, total, token) == [type |-> "data", idx |-> k, total |-> total, token |-> token]

-----------------------------------------------------------------------------
Init ==
    /\ Ble_ConnnectFlag = FALSE
    /\ g_apdu = [k \in Part |-> NoToken]
    /\ g_apdu_length = 0
    /\ blueRecivSendflag = "NOdata"
    /\ Recivedataflag = 0 /\ Apdufinsh = 0 /\ ucaRevPackN = {}
    /\ ucaPackMsg = Cleared /\ T_Connect = FALSE /\ ucReTry = 0 /\ ucResend = 0
    /\ lr = 0 /\ SumPackNumber = 0 /\ Sendlenth = 0 /\ remberPackn = 0
    /\ CMD09_oldlabel = 0 /\ CMD09_SW = "0000" /\ uart_waitack_flag = 0
    /\ pc = "top"
    /\ stm32 = [cmd |-> 0, next |-> 1]
    /\ toPhone = <<>> /\ losses \in 0 .. MaxLoss
    /\ work = [c \in Commands |-> 0]
    /\ resent = {}

-----------------------------------------------------------------------------
(* phone_to_ble_data_parse() in the stack's interrupt.                     *)

(* A5 A5 with flag 1 while a reply is out: send the missing packets again. *)
PhoneReport(packet) ==
    /\ packet.type = "missing"
    /\ Recivedataflag' = 1
    /\ T_Connect' = FALSE
    /\ ucReTry' = 0
    /\ IF SumPackNumber # 0
       THEN /\ ucaPackMsg' = packet.msg
            /\ ucResend' = 1
            /\ resent' = IF ucResend = 1 THEN resent ELSE {}
       ELSE UNCHANGED <<ucaPackMsg, ucResend, resent>>
    /\ UNCHANGED <<Ble_ConnnectFlag, apdu, Apdufinsh, ucaRevPackN, lr,
                   SumPackNumber, Sendlenth, remberPackn, command, pc, radio>>

(* A5 A5 with flag 0: the phone has the whole reply.                       *)
PhoneAck(packet) ==
    /\ packet.type = "ack"
    /\ Recivedataflag' = 1
    /\ T_Connect' = FALSE
    /\ ucReTry' = 0
    /\ IF SumPackNumber # 0
       THEN /\ ucaPackMsg' = Cleared
            /\ ucaRevPackN' = {}
            /\ reply_done
            /\ uart_waitack_flag' = IF uart_waitack_flag = 1 THEN 2 ELSE uart_waitack_flag
       ELSE UNCHANGED <<ucaPackMsg, ucaRevPackN, SumPackNumber, Sendlenth, lr,
                        uart_waitack_flag>>
    /\ UNCHANGED <<Ble_ConnnectFlag, apdu, Apdufinsh, ucResend, remberPackn,
                   resent, CMD09_oldlabel, CMD09_SW, stm32, work, pc, radio>>

(* A data packet is not looked at while a reply is out, nor, but for the   *)
(* timer, when its index has been received already.                        *)
PhoneDataIgnored(packet) ==
    /\ packet.type = "data"
    /\ SumPackNumber # 0 \/ packet.idx \in ucaRevPackN
    /\ Recivedataflag' = 1
    /\ ucReTry' = 0
    /\ T_Connect' = (SumPackNumber = 0)
    /\ UNCHANGED <<Ble_ConnnectFlag, apdu, Apdufinsh, ucaRevPackN, ucaPackMsg,
                   ucResend, tx, command, pc, radio>>

(* A new packet goes into g_apdu.  When it is the last one, or none is     *)
(* missing, the command is complete or the phone is told what is missing.  *)
PhoneData(packet) ==
    /\ packet.type = "data"
    /\ SumPackNumber = 0
    /\ packet.idx \notin ucaRevPackN
    /\ Recivedataflag' = 1
    /\ g_apdu' = [g_apdu EXCEPT ![packet.idx] = packet.token]
    /\ ucaRevPackN' = ucaRevPackN \union {packet.idx}
    /\ ucaPackMsg' = MissedPackN(packet.total, ucaRevPackN')
    /\ g_apdu_length' = IF Apdufinsh = 0 THEN packet.len
                         ELSE (g_apdu_length + packet.len) % 65536
    /\ LET missing == ucaPackMsg'.miss
           last    == packet.idx = packet.total - 1
       IN  /\ Apdufinsh' = IF missing = {} THEN 1 ELSE IF Apdufinsh = 0 THEN 2 ELSE Apdufinsh
           /\ T_Connect' = (missing # {})
           /\ ucReTry' = IF missing # {} /\ last THEN 1 ELSE 0
           /\ IF missing # {} /\ last
              THEN ble_txrx_Send(Report(ucaPackMsg'))
              ELSE UNCHANGED radio
    /\ UNCHANGED <<Ble_ConnnectFlag, blueRecivSendflag, ucResend, tx, command, pc>>

PhoneToBle(packet) ==
    PhoneReport(packet) \/ PhoneAck(packet) \/ PhoneDataIgnored(packet) \/ PhoneData(packet)

(* ble_TxRx_on_ble_evt(): only the flag is set; main cleans up.            *)
OnConnected ==
    /\ ~Ble_ConnnectFlag
    /\ Ble_ConnnectFlag' = TRUE
    /\ UNCHANGED <<apdu, rx, both, tx, command, pc, radio>>

OnDisconnected ==
    /\ Ble_ConnnectFlag
    /\ Ble_ConnnectFlag' = FALSE
    /\ toPhone' = <<>>
    /\ UNCHANGED <<apdu, rx, both, tx, command, pc, losses>>

(* TimeOver passes: timer0_sec_count reaches T_1.                          *)
TimeOut ==
    /\ T_Connect
    /\ T_Connect' = FALSE
    /\ UNCHANGED <<Ble_ConnnectFlag, apdu, rx, ucaPackMsg, ucReTry, ucResend,
                   tx, command, pc, radio>>

-----------------------------------------------------------------------------
(* Bluetooth_ReciveANDSend(), first in each turn of main_loop().           *)

(* What ble_transfer_init() clears; remberPackn is not among it.           *)
(* Mutant: the record of received packets is not cleared.                  *)
ble_transfer_init_KeepsPackets ==
    /\ UNCHANGED ucaRevPackN
    /\ ucaPackMsg' = Cleared
    /\ ucReTry' = 0
    /\ ucResend' = 0

ble_transfer_init ==
    /\ ucaRevPackN' = {}
    /\ ucaPackMsg' = Cleared
    /\ ucReTry' = 0
    /\ ucResend' = 0

(* No connection: both directions are reset, the timer is not.             *)
TurnDisconnected ==
    /\ pc = "top" /\ pc' = "process"
    /\ ~Ble_ConnnectFlag
    /\ Apdufinsh' = 0
    /\ g_apdu_length' = 0
    /\ reply_done
    /\ ble_transfer_init
    /\ blueRecivSendflag' = "NOdata"
    /\ UNCHANGED <<Ble_ConnnectFlag, g_apdu, Recivedataflag, T_Connect,
                   remberPackn, resent, command, radio>>

(* A reply that was put into g_apdu is taken over for sending.             *)
TurnConnected ==
    /\ pc = "top" /\ pc' = "receive"
    /\ Ble_ConnnectFlag
    /\ IF blueRecivSendflag = "Senddata"
       THEN lr' = g_apdu_length /\ blueRecivSendflag' = "NOdata"
       ELSE UNCHANGED <<lr, blueRecivSendflag>>
    /\ UNCHANGED <<Ble_ConnnectFlag, g_apdu, g_apdu_length, rx, both,
                   SumPackNumber, Sendlenth, remberPackn, resent, command, radio>>

(* A complete command is moved over its two length bytes and announced.    *)
Receive ==
    /\ pc = "receive"
    /\ Recivedataflag' = 0
    /\ IF Recivedataflag = 1 /\ Apdufinsh = 1
       THEN /\ g_apdu_length' = (g_apdu_length - 2) % 65536
            /\ g_apdu' = [k \in Part |->
                  IF k < Parts(g_apdu_length')
                  THEN IF g_apdu[k].aligned THEN NoToken
                       ELSE [g_apdu[k] EXCEPT !.aligned = TRUE]
                  ELSE g_apdu[k]]
            /\ blueRecivSendflag' = "Recivedata"
            /\ pc' = "reset"
       ELSE pc' = "send" /\ UNCHANGED apdu
    /\ UNCHANGED <<Ble_ConnnectFlag, Apdufinsh, ucaRevPackN, both, tx, command, radio>>

ReceiveReset ==
    /\ pc = "reset" /\ pc' = "finish"
    /\ ble_transfer_init
    /\ UNCHANGED <<Ble_ConnnectFlag, apdu, Recivedataflag, Apdufinsh, T_Connect,
                   tx, command, radio>>

ReceiveFinish ==
    /\ pc = "finish" /\ pc' = "send"
    /\ Apdufinsh' = 0
    /\ UNCHANGED <<Ble_ConnnectFlag, apdu, Recivedataflag, ucaRevPackN, both, tx,
                   command, radio>>

(* The packet that follows the Sendlenth bytes that were sent, and what    *)
(* g_apdu holds there.  A new reply that finds Sendlenth of the reply      *)
(* before starts in its middle, or past its end: no packet is the last one *)
(* then until its index, a byte, comes round, and what is sent is not a    *)
(* packet of the reply, nor even of g_apdu.                                *)
(*                                                                         *)
(* SendBound bounds the states, not the code: past it a packet goes out    *)
(* only after the timer has run out (some 50 turns of main in the code).   *)
SendBound == First + MaxParts * Payload

(* Mutant: the shorter first packet is not allowed for.                    *)
NextPart_EvenParts == IF lr <= First THEN 0 ELSE Sendlenth \div Payload

NextPart == IF lr <= First \/ Sendlenth = 0 THEN 0
            ELSE IF Sendlenth < First THEN 1
            ELSE ((Sendlenth - First) \div Payload + 1) % 256

PartAt(k) == IF k \in Part /\ (k = 0 \/ Sendlenth = First + (k - 1) * Payload)
             THEN g_apdu[k] ELSE NoToken

(* ble_to_phone_msg(): one packet of the reply in each turn; the last one  *)
(* starts the wait for the phone's report.  The bytes it copies, from      *)
(* Sendlenth to lr, are a negative number when a long reply was followed   *)
(* by a shorter one: nothing the code does after that is defined, and the  *)
(* model goes on as if the packet were sent.                               *)
Send ==
    /\ pc = "send" /\ pc' = "resend"
    /\ Sendlenth > SendBound => ~T_Connect
    /\ IF lr = 0
       THEN UNCHANGED <<lr, SumPackNumber, Sendlenth, T_Connect, radio>>
       ELSE /\ SumPackNumber' = Parts(lr) % 256
            /\ LET k == NextPart
                   done == lr <= First \/ (Sendlenth # 0 /\ SumPackNumber' - k = 1)
               IN  /\ ble_txrx_Send(Data(k, SumPackNumber', PartAt(k)))
                   /\ lr' = IF done THEN 0 ELSE lr
                   /\ Sendlenth' = IF done THEN lr
                                   ELSE IF Sendlenth = 0 THEN First
                                   ELSE (Sendlenth + Payload) % 65536
                   /\ T_Connect' = (done \/ T_Connect)
    /\ UNCHANGED <<Ble_ConnnectFlag, apdu, rx, ucaPackMsg, ucReTry, ucResend,
                   remberPackn, resent, command>>

(* ReSendNotification(): one bit of the phone's bitmap in each turn.  The  *)
(* round has a position, remberPackn, of its own.                          *)
(* Mutant: one byte of the bitmap is left out.                             *)
Bits_OneByteLess == (ucaPackMsg.len - 2) * 8

Bits == (ucaPackMsg.len - 1) * 8

Wanted == remberPackn < Bits /\ remberPackn \in ucaPackMsg.miss

(* SendPackNumber(), then a delay of 20 ms.                                *)
ReSend ==
    /\ pc = "resend" /\ ucResend = 1
    /\ pc' = IF Wanted THEN "remember_sent" ELSE "remember"
    /\ IF Wanted
       THEN /\ ble_txrx_Send(Data(remberPackn, SumPackNumber, IF remberPackn \in Part THEN g_apdu[remberPackn] ELSE NoToken))
            /\ resent' = resent \union {remberPackn}
       ELSE UNCHANGED <<radio, resent>>
    /\ UNCHANGED <<Ble_ConnnectFlag, apdu, rx, both, lr, SumPackNumber, Sendlenth,
                   remberPackn, command>>

NoReSend ==
    /\ pc = "resend" /\ ucResend = 0
    /\ pc' = "retry"
    /\ UNCHANGED <<Ble_ConnnectFlag, apdu, rx, both, tx, command, radio>>

(* The round ends with the last packet or with the last bit.               *)
RoundEnds(ucExpPackN_) == ucExpPackN_ = SumPackNumber \/ Bits = remberPackn

Remember ==
    /\ pc \in {"remember", "remember_sent"} /\ pc' = "retry"
    /\ LET ucExpPackN_ == IF pc = "remember_sent" THEN remberPackn + 1 ELSE 0
       IN  IF RoundEnds(ucExpPackN_)
           THEN ucResend' = 0 /\ remberPackn' = 0 /\ T_Connect' = TRUE
           ELSE /\ remberPackn' = (remberPackn + 1) % 256
                /\ UNCHANGED <<ucResend, T_Connect>>
    /\ UNCHANGED <<Ble_ConnnectFlag, apdu, rx, ucaPackMsg, ucReTry, lr,
                   SumPackNumber, Sendlenth, resent, command, radio>>

(* The wait ran out: tell the phone again what is missing, or wait once    *)
(* more for its report; after WaitRertyTims the transfer is abandoned.     *)
(* Both directions count in ucReTry.                                       *)
(* Mutant: a retry is not counted.                                         *)
retry_again_Uncounted == T_Connect' = TRUE /\ UNCHANGED ucReTry
MayRetry == ucReTry < WaitRertyTims
retry_again == T_Connect' = TRUE /\ ucReTry' = ucReTry + 1

RetryIdle ==
    /\ pc = "retry" /\ pc' = "process"
    /\ T_Connect \/ (Apdufinsh # 2 /\ SumPackNumber = 0)
    /\ UNCHANGED <<Ble_ConnnectFlag, apdu, rx, both, tx, command, radio>>

RetryReport ==
    /\ pc = "retry" /\ pc' = "retry_reply"
    /\ ~T_Connect /\ Apdufinsh = 2
    /\ IF MayRetry
       THEN /\ ble_txrx_Send(Report(ucaPackMsg))
            /\ retry_again
            /\ UNCHANGED <<g_apdu_length, Apdufinsh, ucaRevPackN, ucaPackMsg, ucResend, lr>>
       ELSE /\ ble_transfer_init
            /\ Apdufinsh' = 0
            /\ g_apdu_length' = 0
            /\ lr' = 0
            /\ UNCHANGED <<T_Connect, radio>>
    /\ UNCHANGED <<Ble_ConnnectFlag, g_apdu, blueRecivSendflag, Recivedataflag,
                   SumPackNumber, Sendlenth, remberPackn, resent, command>>

RetryReply ==
    /\ \/ pc = "retry" /\ ~T_Connect /\ Apdufinsh # 2 /\ SumPackNumber # 0
       \/ pc = "retry_reply"
    /\ pc' = "process"
    /\ IF SumPackNumber # 0
       THEN IF MayRetry
            THEN /\ retry_again
                 /\ UNCHANGED <<ucaRevPackN, ucaPackMsg, ucResend, lr, SumPackNumber, Sendlenth>>
            ELSE /\ T_Connect' = FALSE
                 /\ ble_transfer_init
                 /\ reply_done
       ELSE UNCHANGED <<ucaRevPackN, both, lr, SumPackNumber, Sendlenth>>
    /\ UNCHANGED <<Ble_ConnnectFlag, apdu, Recivedataflag, Apdufinsh, remberPackn,
                   resent, command, radio>>

-----------------------------------------------------------------------------
(* Bluetooth_CmdProcess() and the replies.                                 *)

(* Send_bluetoothdata(): the reply to c goes into g_apdu, behind the label *)
(* that is still there from what was received last.                        *)
Send_bluetoothdata(c, n) ==
    LET len == ReplyLen[c][n]
        lab == IF g_apdu[0].aligned THEN g_apdu[0].lab ELSE 0
    IN  /\ g_apdu' = [k \in Part |-> IF k < Parts(len) THEN RspToken(c, lab, n) ELSE g_apdu[k]]
        /\ g_apdu_length' = len
        /\ blueRecivSendflag' = "Senddata"

(* The length field read from g_apdu[1..2], plus 3; -1 for other contents. *)
LengthField ==
    LET t == g_apdu[0]
    IN  IF ~t.aligned THEN -1
        ELSE IF t.kind = "cmd" THEN CmdLen[t.id] ELSE ReplyLen[t.id][t.n]

(* bluetoothjudge_crc16(): the g_apdu_length bytes are one command.        *)
CrcGood(c) == \A k \in 0 .. Parts(CmdLen[c]) - 1 : g_apdu[k] = CmdToken(c, TRUE)

Announced == blueRecivSendflag = "Recivedata" /\ LengthField = g_apdu_length

(* The label is that of the command worked last.                           *)
(* Mutant: the label is not compared.                                      *)
Repeated_Never == FALSE

Repeated == CMD09_oldlabel = g_apdu[0].lab

(* Nothing announced, or its length does not match: the flag stays.        *)
ProcessNothing ==
    /\ pc = "process" /\ pc' = "uart"
    /\ ~Announced
    /\ UNCHANGED <<Ble_ConnnectFlag, apdu, rx, both, tx, command, radio>>

(* recivestatus_F(): label and status word of the last command.            *)
ProcessStatus ==
    /\ pc = "process" /\ pc' = "uart"
    /\ Announced /\ g_apdu[0].lab \in Status
    /\ Send_bluetoothdata(g_apdu[0].lab, 1)
    /\ UNCHANGED <<Ble_ConnnectFlag, rx, both, tx, command, radio>>

(* The label of the command before: taken, and not done again.             *)
ProcessRepeated ==
    /\ pc = "process" /\ pc' = "uart"
    /\ Announced /\ g_apdu[0].lab \notin Status
    /\ Repeated
    /\ blueRecivSendflag' = "NOdata"
    /\ UNCHANGED <<Ble_ConnnectFlag, g_apdu, g_apdu_length, rx, both, tx, command, radio>>

(* Mutant: success is noted before the CRC is looked at.                   *)
StatusWord_Early(good) == "9000"

StatusWord(good) == IF good THEN "9000" ELSE "6700"

(* A new label is remembered before the CRC is looked at.                  *)
ProcessNew ==
    LET c == g_apdu[0].lab
    IN  /\ pc = "process" /\ pc' = "uart"
        /\ Announced /\ c \notin Status
        /\ ~Repeated
        /\ CMD09_oldlabel' = c
        /\ CMD09_SW' = StatusWord(CrcGood(c))
        /\ IF CrcGood(c)
           THEN /\ work' = [work EXCEPT ![c] = @ + 1]
                /\ IF c \in Local
                   THEN Send_bluetoothdata(c, 1) /\ UNCHANGED stm32
                   ELSE /\ stm32' = [cmd |-> c, next |-> 1]
                        /\ blueRecivSendflag' = "NOdata"
                        /\ UNCHANGED <<g_apdu, g_apdu_length>>
           ELSE /\ blueRecivSendflag' = "NOdata"
                /\ UNCHANGED <<g_apdu, g_apdu_length, work, stm32>>
        /\ UNCHANGED <<Ble_ConnnectFlag, rx, both, tx, uart_waitack_flag, radio>>

(* UartDataSendrecive(): the phone's acknowledgement is passed on.         *)
(* Mutant: the acknowledgement is passed on in every turn from then on.    *)
UartTurn_KeepsAck ==
    /\ pc = "uart" /\ pc' = "top"
    /\ UNCHANGED <<Ble_ConnnectFlag, apdu, rx, both, tx, command, radio>>

UartTurn ==
    /\ pc = "uart" /\ pc' = "top"
    /\ uart_waitack_flag' = IF uart_waitack_flag = 2 THEN 0 ELSE uart_waitack_flag
    /\ UNCHANGED <<Ble_ConnnectFlag, apdu, rx, both, tx, CMD09_oldlabel, CMD09_SW,
                   stm32, work, radio>>

(* The STM32's answer waits for the phone's acknowledgement.               *)
WaitAck == 1

(* It also turns what the STM32 sent for the command into a reply: its     *)
(* acknowledgement (empty data) and its answer, by Uart_cmdprogam().       *)
UartReply ==
    /\ pc = "uart" /\ pc' = "top"
    /\ stm32.cmd # 0
    /\ Send_bluetoothdata(stm32.cmd, stm32.next)
    /\ uart_waitack_flag' = WaitAck
    /\ stm32' = IF stm32.next < Len(ReplyLen[stm32.cmd])
                THEN [stm32 EXCEPT !.next = @ + 1]
                ELSE [cmd |-> 0, next |-> 1]
    /\ UNCHANGED <<Ble_ConnnectFlag, rx, both, tx, CMD09_oldlabel, CMD09_SW, work, radio>>

Turn ==
    \/ TurnDisconnected \/ TurnConnected
    \/ Receive \/ ReceiveReset \/ ReceiveFinish
    \/ Send \/ ReSend \/ NoReSend \/ Remember
    \/ RetryIdle \/ RetryReport \/ RetryReply
    \/ ProcessNothing \/ ProcessStatus \/ ProcessRepeated \/ ProcessNew
    \/ UartTurn
=============================================================================
