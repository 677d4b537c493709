------------------------------ MODULE BleLink ------------------------------
(***************************************************************************)
(* BleTransfer with the phone and the radio link.  The phone is not part   *)
(* of the repository: it follows the protocol that the device's code       *)
(* implies.  It sends one command at a time, sends again what the device   *)
(* reports missing, and acknowledges a reply or reports what it misses.    *)
(* The link keeps the order of the packets; a packet is lost at the sender *)
(* (no buffer) or with the connection.                                     *)
(***************************************************************************)
EXTENDS BleTransfer

CONSTANTS
    LinkDepth,     \* bound: packets of the phone on their way
    Sessions       \* what a behaviour may hold

(* A session: the commands the phone's user gives; bounds for the packets  *)
(* and connections lost in it, and for the timeouts of the phone in a      *)
(* command; and whether nobody's timeout is shorter than its peer's        *)
(* answer.                                                                 *)
LinkAssumption ==
    /\ LinkDepth \in Nat \ {0}
    /\ Sessions \subseteq [commands : SUBSET Commands, losses : 0 .. MaxLoss,
                           retries : Nat, drops : Nat, timely : BOOLEAN]

ASSUME BleAssumption == TransferAssumption /\ LinkAssumption

VARIABLES
    toDevice,      \* packets of the phone on their way
    outbox,        \* what the phone still has to send, in order
    current,       \* the command the phone is at, 0 before the first
    want,          \* the reply it waits for, 0: none
    got,           \* part -> token of that reply received so far
    total,         \* number of parts of that reply, 0: unknown
    answers,       \* command -> the replies the phone accepted, as tokens
    retries, drops, \* counters for the bounds
    unseen,        \* a lost connection that main has not seen yet
    session        \* what this behaviour may hold

phoneVars == <<toDevice, outbox, current, want, got, total, answers, retries, drops, unseen,
               session>>
vars == <<deviceVars, phoneVars>>

-----------------------------------------------------------------------------
(* Packets of the phone.                                                   *)

CommandPacket(c, k) ==
    [type |-> "data", idx |-> k, total |-> Parts(CmdLen[c]),
     len |-> Bytes(CmdLen[c], k), token |-> CmdToken(c, FALSE)]

AckPacket == [type |-> "ack"]

MissingPacket(n, missing) ==
    [type |-> "missing", msg |-> [len |-> 2 + Max(missing) \div 8, miss |-> missing]]

(* In the outbox, packets of a command that are to be sent in their order. *)
CommandPackets(c, ks) ==
    IF ks = {} THEN <<>> ELSE << [type |-> "command", cmd |-> c, parts |-> ks] >>

AllParts(c) == 0 .. Parts(CmdLen[c]) - 1

LinkInit ==
    /\ Init
    /\ toDevice = <<>> /\ outbox = <<>>
    /\ current = 0 /\ want = 0 /\ got = <<>> /\ total = 0
    /\ answers = [c \in Commands |-> <<>>]
    /\ retries = 0 /\ drops = 0 /\ unseen = FALSE
    /\ session \in Sessions /\ losses = session.losses

-----------------------------------------------------------------------------
(* Whether anything is under way between phone and device.                 *)
LinkQuiet == toDevice = <<>> /\ toPhone = <<>> /\ outbox = <<>>

(* Main has nothing left to do for the phone but wait.                     *)
DeviceWaits == lr = 0 /\ ucResend = 0 /\ blueRecivSendflag = "NOdata" /\ Apdufinsh # 1

(* The phone's user starts the next command.                               *)
StartCommand ==
    /\ Ble_ConnnectFlag
    /\ want = 0 /\ outbox = <<>>
    /\ session.timely => LinkQuiet /\ DeviceWaits /\ SumPackNumber = 0 /\ stm32.cmd = 0
    /\ \E c \in session.commands :
          /\ c > current /\ \A d \in session.commands : d > current => c <= d
          /\ current' = c
          /\ outbox' = CommandPackets(c, AllParts(c))
    /\ want' = 1 /\ got' = <<>> /\ total' = 0
    /\ retries' = 0
    /\ UNCHANGED <<deviceVars, toDevice, answers, drops, unseen, session>>

(* A write command of the phone goes out, or is dropped by its stack.      *)
GoesOut(packet) ==
    \/ /\ Len(toDevice) < LinkDepth
       /\ toDevice' = Append(toDevice, packet)
       /\ UNCHANGED losses
    \/ /\ losses > 0
       /\ losses' = losses - 1
       /\ UNCHANGED toDevice

PhoneSend ==
    /\ Ble_ConnnectFlag
    /\ outbox # <<>>
    /\ LET next == Head(outbox)
       IN  \/ /\ next.type # "command"
              /\ GoesOut(next)
              /\ outbox' = Tail(outbox)
           \/ /\ next.type = "command"
              /\ \E k \in next.parts :
                    /\ \A j \in next.parts : k <= j
                    /\ GoesOut(CommandPacket(next.cmd, k))
                    /\ outbox' = CommandPackets(next.cmd, next.parts \ {k}) \o Tail(outbox)
    /\ UNCHANGED <<Ble_ConnnectFlag, apdu, rx, both, tx, command, pc, toPhone, current,
                   want, got, total, answers, retries, drops, unseen, session>>

(* The device's interrupt takes a packet off the link.                     *)
DeviceReceives ==
    /\ toDevice # <<>>
    /\ PhoneToBle(Head(toDevice))
    /\ toDevice' = Tail(toDevice)
    /\ UNCHANGED <<outbox, current, want, got, total, answers, retries, drops, unseen, session>>

(* The phone takes a notification: a report makes it send the missing      *)
(* packets of its command again.                                           *)
PhoneGetsReport ==
    /\ toPhone # <<>> /\ Head(toPhone).type = "report"
    /\ toPhone' = Tail(toPhone)
    /\ outbox' = IF want = 0 THEN outbox
                 ELSE outbox \o CommandPackets(current,
                                     Head(toPhone).miss \intersect AllParts(current))
    /\ UNCHANGED <<Ble_ConnnectFlag, apdu, rx, both, tx, command, pc, losses, toDevice,
                   current, want, got, total, answers, retries, drops, unseen, session>>

(* A packet of a reply: the last one, or the one that completes it, is     *)
(* answered by an acknowledgement or by a report.                          *)
PhoneGetsData ==
    /\ toPhone # <<>> /\ Head(toPhone).type = "data"
    /\ toPhone' = Tail(toPhone)
    /\ LET p    == Head(toPhone)
           now  == [k \in {p.idx} \union DOMAIN got |->
                      IF k = p.idx THEN p.token ELSE got[k]]
           all  == 0 .. p.total - 1
           left == all \ DOMAIN now
       IN  IF want = 0 \/ p.idx \notin all
           THEN UNCHANGED <<outbox, want, got, total, answers>>
           ELSE IF left = {}
           THEN /\ outbox' = Append(outbox, AckPacket)
                /\ answers' = [answers EXCEPT ![current] = Append(@, now)]
                /\ got' = <<>> /\ total' = 0
                /\ want' = IF want < Len(ReplyLen[current]) THEN want + 1 ELSE 0
           ELSE /\ got' = now /\ total' = p.total
                /\ outbox' = IF p.idx = p.total - 1
                             THEN Append(outbox, MissingPacket(p.total, left)) ELSE outbox
                /\ UNCHANGED <<want, answers>>
    /\ UNCHANGED <<Ble_ConnnectFlag, apdu, rx, both, tx, command, pc, losses, toDevice,
                   current, retries, drops, unseen, session>>

(* Part of a reply came and no more: the phone reports what it misses.     *)
PhoneAsksAgain ==
    /\ want # 0 /\ total # 0 /\ Ble_ConnnectFlag
    /\ retries < session.retries /\ retries' = retries + 1
    /\ session.timely => LinkQuiet /\ DeviceWaits /\ SumPackNumber # 0
    /\ outbox' = Append(outbox, MissingPacket(total, (0 .. total - 1) \ DOMAIN got))
    /\ UNCHANGED <<deviceVars, toDevice, current, want, got, total, answers, drops, unseen,
                   session>>

(* Nothing came: the command is sent again, with its label.                *)
PhoneRepeats ==
    /\ want # 0 /\ total = 0 /\ outbox = <<>> /\ Ble_ConnnectFlag
    /\ retries < session.retries /\ retries' = retries + 1
    /\ session.timely => LinkQuiet /\ DeviceWaits /\ SumPackNumber = 0
                         /\ Apdufinsh = 0 /\ stm32.cmd = 0
    /\ outbox' = CommandPackets(current, AllParts(current))
    /\ UNCHANGED <<deviceVars, toDevice, current, want, got, total, answers, drops, unseen,
                   session>>

(* The phone gives the command up.                                         *)
PhoneGivesUp ==
    /\ want # 0 /\ retries = session.retries
    /\ session.timely => LinkQuiet /\ DeviceWaits /\ SumPackNumber = 0
                         /\ Apdufinsh = 0 /\ stm32.cmd = 0
    /\ want' = 0 /\ got' = <<>> /\ total' = 0 /\ outbox' = <<>>
    /\ UNCHANGED <<deviceVars, toDevice, current, answers, retries, drops, unseen, session>>

-----------------------------------------------------------------------------
(* Main sees that the connection is gone before there is a new one.        *)
Connect ==
    /\ session.timely => ~unseen
    /\ OnConnected
    /\ drops <= session.drops
    /\ UNCHANGED phoneVars

(* The link and what was on it are gone; the phone drops its command.      *)
Disconnect ==
    /\ OnDisconnected
    /\ drops < session.drops /\ drops' = drops + 1
    /\ unseen' = TRUE
    /\ toDevice' = <<>> /\ outbox' = <<>>
    /\ want' = 0 /\ got' = <<>> /\ total' = 0
    /\ UNCHANGED <<current, answers, retries, session>>

DeviceTurn ==
    /\ Turn
    /\ unseen' = (unseen /\ ~(pc = "top" /\ ~Ble_ConnnectFlag))
    /\ UNCHANGED <<toDevice, outbox, current, want, got, total, answers, retries, drops,
                   session>>

(* The STM32 keeps a further answer until the phone has acknowledged the   *)
(* one before, which the device passes on to it.                           *)
Stm32Replies ==
    /\ session.timely =>
          /\ SumPackNumber = 0 /\ lr = 0 /\ blueRecivSendflag = "NOdata"
          /\ stm32.next > 1 => uart_waitack_flag = 0
    /\ UartReply
    /\ UNCHANGED phoneVars

(* Or drops it, when that reply came to nothing.                           *)
Stm32GivesUp ==
    /\ stm32.cmd # 0 /\ stm32.next > 1 /\ uart_waitack_flag = 1
    /\ SumPackNumber = 0 /\ lr = 0 /\ blueRecivSendflag = "NOdata"
    /\ stm32' = [cmd |-> 0, next |-> 1]
    /\ UNCHANGED <<Ble_ConnnectFlag, apdu, rx, both, tx, CMD09_oldlabel, CMD09_SW,
                   uart_waitack_flag, work, pc, radio, phoneVars>>

DeviceTimeOut ==
    /\ session.timely => LinkQuiet /\ DeviceWaits
                         /\ ~ (want # 0 /\ total # 0 /\ retries < session.retries)
    /\ TimeOut
    /\ UNCHANGED phoneVars

Next ==
    \/ StartCommand \/ PhoneSend \/ DeviceReceives
    \/ PhoneGetsReport \/ PhoneGetsData
    \/ PhoneAsksAgain \/ PhoneRepeats \/ PhoneGivesUp
    \/ Connect \/ Disconnect
    \/ DeviceTurn \/ Stm32Replies \/ Stm32GivesUp \/ DeviceTimeOut

Spec == LinkInit /\ [][Next]_vars

(* Main's steps are taken, the timer's tick comes, and the link delivers   *)
(* what is on it.  The phone's user, losses, lost connections and the      *)
(* STM32 are left free; the phone answers what it receives.                *)
Fairness ==
    /\ WF_vars(DeviceTurn) /\ WF_vars(DeviceTimeOut)
    /\ WF_vars(DeviceReceives) /\ WF_vars(PhoneGetsReport) /\ WF_vars(PhoneGetsData)
    /\ WF_vars(PhoneSend)

FairSpec == Spec /\ Fairness

(* A phone that connects and keeps trying, and an STM32 that answers: what *)
(* it sends waits in the UART's buffer for main's turn.                    *)
TryingFairness ==
    /\ WF_vars(Connect) /\ WF_vars(PhoneAsksAgain) /\ WF_vars(PhoneRepeats)
    /\ SF_vars(Stm32Replies)

-----------------------------------------------------------------------------
TypeOK ==
    /\ Ble_ConnnectFlag \in BOOLEAN
    /\ g_apdu \in [Part -> Token]
    /\ g_apdu_length \in Nat /\ g_apdu_length < 65536
    /\ blueRecivSendflag \in {"NOdata", "Recivedata", "Senddata"}
    /\ Recivedataflag \in {0, 1} /\ Apdufinsh \in 0 .. 2
    /\ ucaRevPackN \subseteq Part
    /\ ucaPackMsg.miss \subseteq 0 .. 255 /\ ucaPackMsg.len \in Nat
    /\ T_Connect \in BOOLEAN
    /\ ucReTry \in 0 .. WaitRertyTims
    /\ ucResend \in {0, 1}
    /\ lr \in Nat /\ Sendlenth \in Nat /\ SumPackNumber \in 0 .. 255
    /\ remberPackn \in 0 .. 255
    /\ CMD09_oldlabel \in {0} \union Commands
    /\ CMD09_SW \in {"0000", "9000", "6700"}
    /\ uart_waitack_flag \in 0 .. 2
    /\ stm32.cmd \in {0} \union Commands

(* "when flag blueRecivSendflag=1 you can recive data from g_apdu and      *)
(* g_apdu_length" (Bluetooth_HWprotocol.c:5): when the dispatcher looks,   *)
(* they hold one command of the phone, the whole of it, in its place.      *)
AnnouncedWhole ==
    pc = "process" /\ blueRecivSendflag = "Recivedata" =>
        \E c \in Commands : CrcGood(c) /\ g_apdu_length = CmdLen[c]

(* So it is after losses, retries and lost connections, as long as no      *)
(* timeout is shorter than its peer's answer.                              *)
DeliveredWhole == session.timely => AnnouncedWhole

(* A command is worked at most once, however often its packets, or all of  *)
(* it, are sent again, and however hasty the timeouts are.                 *)
AtMostOnce == \A c \in Commands : work[c] <= 1

(* "when you need to send data, yo can put the data in  g_apdu and         *)
(* g_apdu_length,then let blueRecivSendflag=2" (Bluetooth_HWprotocol.c:6): *)
(* a reply the phone has put together and acknowledged is the reply to its *)
(* command, every packet of it, in its place and under its label.          *)
AnswersWhole ==
    \A c \in Commands : \A n \in 1 .. Len(answers[c]) :
        answers[c][n] = [k \in 0 .. Parts(ReplyLen[c][n]) - 1 |-> RspToken(c, c, n)]

(* So it is as long as the STM32 answers when nothing else is out.         *)
AnswerIntact == session.timely => AnswersWhole

(* The three counters of a reply agree in every state main or an interrupt *)
(* can leave them in, also over lost connections: nothing out, part of it  *)
(* sent, or all of it sent.                                                *)
SendProgress ==
    /\ SumPackNumber = 0 <=> Sendlenth = 0
    /\ SumPackNumber # 0 /\ lr # 0 => Parts(lr) = SumPackNumber /\ Sendlenth < lr
    /\ SumPackNumber # 0 /\ lr = 0 => Parts(Sendlenth) = SumPackNumber

(* What ble_to_phone_msg() copies next is the next packet of the reply, as *)
(* it lies in g_apdu.                                                      *)
ReadsReply ==
    pc = "send" /\ lr # 0 =>
        /\ NextPart \in 0 .. Parts(lr) - 1
        /\ PartAt(NextPart).kind = "rsp"

CountersAgree == TypeOK /\ (session.timely => SendProgress /\ ReadsReply)

(* A round of retransmission ends when every packet the phone reported     *)
(* missing has been sent again.                                            *)
ResendComplete ==
    [][session.timely /\ session.drops = 0
            /\ ucResend = 1 /\ ucResend' = 0 /\ SumPackNumber # 0 /\ SumPackNumber' # 0
          => ucaPackMsg.miss \subseteq resent]_vars

(* The status word of command 9 tells the truth: success is reported for   *)
(* the last label only when that command was worked.                       *)
StatusTruthful == CMD09_SW = "9000" => work[CMD09_oldlabel] >= 1

(* The STM32 is told that its answer arrived only when the phone has it.   *)
Stm32AckTruthful ==
    uart_waitack_flag = 2 =>
        \E c \in Commands \ Local :
            Len(answers[c]) = IF stm32.cmd = c THEN stm32.next - 1 ELSE Len(ReplyLen[c])

(* Phone and STM32 are told the truth, the STM32 as long as nothing is     *)
(* lost and no reply given up.                                             *)
AcksTruthful ==
    /\ StatusTruthful
    /\ session.timely /\ session.losses + session.retries + session.drops = 0
          => Stm32AckTruthful
=============================================================================
