------------------------- MODULE BleDeliveryProofs -------------------------
(***************************************************************************)
(* Proofs about BleLink in the sessions whose timeouts are timely: what is *)
(* delivered, and what the phone gets.                                     *)
(***************************************************************************)
EXTENDS BleLinkProofs

-----------------------------------------------------------------------------
(* In every session.                                                       *)

(* Without a connection nothing is on its way, and the phone is at nothing;*)
(* a round of retransmission is under way where main remembers its         *)
(* position.                                                               *)
Linked ==
    /\ ~Ble_ConnnectFlag => LinkQuiet /\ want = 0
    /\ session.timely /\ unseen => ~Ble_ConnnectFlag
    /\ pc \in {"remember", "remember_sent"} => ucResend = 1

-----------------------------------------------------------------------------
(* In the sessions whose timeouts are timely the device is in one of seven *)
(* places: it rests, receives, has a command, has worked it, or its reply  *)
(* is taken over, on its way or out.                                       *)

Ascending(s) == \A i, j \in DOMAIN s : i < j => s[i].idx < s[j].idx

Calm    == lr = 0 /\ SumPackNumber = 0 /\ Sendlenth = 0
Between == pc \notin {"reset", "finish"}
Cleaned == Apdufinsh = 0 /\ ucaRevPackN = {} /\ Between

(* A round that was cut off by the phone's acknowledgement sends nothing,  *)
(* and is over before the STM32 may reply again.                           *)
CutOff ==
    ucResend = 1 =>
       /\ ucaPackMsg = Cleared
       /\ stm32.cmd # 0 =>
             /\ stm32.next > 1
             /\ \/ uart_waitack_flag = 2
                \/ /\ uart_waitack_flag = 0
                   /\ pc \in {"top", "receive", "send", "resend", "remember"}

Resting ==
    /\ LinkQuiet /\ Calm /\ Cleaned /\ ucReTry = 0
    /\ blueRecivSendflag = "NOdata"
    /\ CutOff

Fresh == Calm /\ stm32.cmd = 0 /\ ucResend = 0 /\ total = 0 /\ current \in Commands

(* The bytes of the packets ks of command c, of which the last is shorter. *)
LastPart(c) == Parts(CmdLen[c]) - 1
BytesOf(c, ks) ==
    IF LastPart(c) \in ks
    THEN Payload * (Cardinality(ks) - 1) + Bytes(CmdLen[c], LastPart(c))
    ELSE Payload * Cardinality(ks)

(* The packets of the command that are on their way, in order; none of     *)
(* them has been received.                                                 *)
Coming ==
    /\ toPhone = <<>>
    /\ \A i \in DOMAIN toDevice :
          \E k \in AllParts(current) \ ucaRevPackN : toDevice[i] = CommandPacket(current, k)
    /\ Ascending(toDevice)
    /\ \E ks \in SUBSET (AllParts(current) \ ucaRevPackN) :
          /\ outbox = CommandPackets(current, ks)
          /\ \A i \in DOMAIN toDevice : \A k \in ks : toDevice[i].idx < k

Reported ==
    /\ toDevice = <<>> /\ outbox = <<>> /\ toPhone = << Report(ucaPackMsg) >>
    /\ ucaRevPackN # {}

Receiving ==
    /\ Fresh /\ Between /\ blueRecivSendflag = "NOdata"
    /\ ucaRevPackN \in SUBSET AllParts(current) /\ ucaRevPackN # AllParts(current)
    /\ \A k \in ucaRevPackN : g_apdu[k] = CmdToken(current, FALSE)
    /\ ucaRevPackN = {} => Apdufinsh = 0 /\ ucReTry = 0
    /\ ucaRevPackN # {} =>
          /\ Apdufinsh = 2
          /\ g_apdu_length = BytesOf(current, ucaRevPackN)
          /\ ucaPackMsg = MissedPackN(Parts(CmdLen[current]), ucaRevPackN)
          /\ T_Connect \/ LinkQuiet
    /\ want = 0 => ~Ble_ConnnectFlag /\ unseen
    /\ Coming \/ Reported

Whole ==
    /\ Fresh /\ LinkQuiet /\ Between /\ blueRecivSendflag = "NOdata"
    /\ Recivedataflag = 1 /\ Apdufinsh = 1
    /\ g_apdu_length = CmdLen[current] + 2
    /\ \A k \in AllParts(current) : g_apdu[k] = CmdToken(current, FALSE)

ToWork ==
    /\ Fresh /\ LinkQuiet /\ blueRecivSendflag = "Recivedata"
    /\ g_apdu_length = CmdLen[current] /\ CrcGood(current)
    /\ \/ pc = "reset"
       \/ pc = "finish" /\ ucaRevPackN = {} /\ ucReTry = 0
       \/ pc \in {"send", "resend", "retry", "process"} /\ Cleaned /\ ucReTry = 0

-----------------------------------------------------------------------------
(* Reply n of command c, of PartsIn(c, n) packets.                         *)
PartsIn(c, n) == Parts(ReplyLen[c][n])

(* The phone waits for it.                                                 *)
Awaited(c, n) == want # 0 => c = current /\ n = want

Queued(c, n) ==
    /\ LinkQuiet /\ Calm /\ blueRecivSendflag = "Senddata"
    /\ g_apdu_length = ReplyLen[c][n]
    /\ pc \in {"uart", "top"} /\ ucResend = 0 /\ ucReTry = 0 /\ total = 0
    /\ Awaited(c, n)

Taken(c, n) ==
    /\ LinkQuiet /\ lr = ReplyLen[c][n] /\ SumPackNumber = 0 /\ Sendlenth = 0
    /\ blueRecivSendflag = "NOdata"
    /\ pc \in {"receive", "send"} /\ ucResend = 0 /\ ucReTry = 0 /\ total = 0
    /\ Awaited(c, n)

(* Packets of it on their way to the phone, in order; the phone has none   *)
(* of them.                                                                *)
Notified(c, n, k) == Data(k, PartsIn(c, n), RspToken(c, c, n))

Outgoing(c, n) ==
    /\ toDevice = <<>> /\ outbox = <<>>
    /\ \A i \in DOMAIN toPhone :
          \E k \in 0 .. PartsIn(c, n) - 1 : toPhone[i] = Notified(c, n, k) /\ k \notin DOMAIN got
    /\ Ascending(toPhone)

(* Its packets up to k - 1 were sent.                                      *)
Sending(c, n, k) ==
    /\ lr = ReplyLen[c][n] /\ SumPackNumber = PartsIn(c, n)
    /\ Sendlenth = First + Payload * (k - 1)
    /\ blueRecivSendflag = "NOdata" /\ ucResend = 0 /\ (T_Connect \/ ucReTry = 0)
    /\ Outgoing(c, n)
    /\ \A i \in DOMAIN toPhone : toPhone[i].idx < k
    /\ \A i \in DOMAIN got : i < k
    /\ Awaited(c, n)

(* The packets that a round of retransmission has left to send: a position *)
(* left over from another round may be behind the bitmap's end.            *)
AtLast == pc = "remember_sent" /\ remberPackn + 1 = SumPackNumber
Ahead ==
    IF remberPackn > Bits THEN ucaPackMsg.miss
    ELSE {k \in ucaPackMsg.miss :
             k > remberPackn \/ (k = remberPackn /\ pc # "remember_sent")}
ToSend == IF ucResend = 0 \/ AtLast THEN {} ELSE Ahead

Round(c, n) ==
    ucResend = 1 /\ ~AtLast =>
       /\ ucaPackMsg.miss \subseteq 0 .. PartsIn(c, n) - 1 /\ Bits <= 120
       /\ \A k \in Ahead : /\ k \notin DOMAIN got
                           /\ \A i \in DOMAIN toPhone : toPhone[i].idx < k
       /\ \A i \in DOMAIN toPhone : toPhone[i].idx # PartsIn(c, n) - 1
       /\ pc = "remember_sent" => remberPackn < Bits

(* The device's last wait has run out, and the phone asks no more.         *)
Expired ==
    /\ LinkQuiet /\ ucResend = 0
    /\ ~ (want # 0 /\ total # 0 /\ retries < session.retries)

(* The phone's report is on its way, or its acknowledgement.               *)
Lacking == MissingPacket(total, (0 .. total - 1) \ DOMAIN got)
OnItsWay(packet) ==
    /\ toPhone = <<>>
    /\ \/ toDevice = << packet >> /\ outbox = <<>>
       \/ toDevice = <<>> /\ outbox = << packet >>

Asks == total # 0 /\ OnItsWay(Lacking) /\ (ucResend = 1 => AtLast)
Acks == /\ total = 0 /\ OnItsWay(AckPacket) /\ ToSend = {}
        /\ stm32.cmd # 0 => want = stm32.next

Waiting(c, n) ==
    /\ lr = 0 /\ SumPackNumber = PartsIn(c, n) /\ Sendlenth = ReplyLen[c][n]
    /\ blueRecivSendflag = "NOdata"
    /\ T_Connect \/ ucReTry = 0 \/ Expired
    /\ Round(c, n)
    /\ Outgoing(c, n) \/ Asks \/ Acks
    /\ toPhone # <<>> \/ total # 0 \/ ToSend # {} => Awaited(c, n)

Replying(c, n) ==
    /\ Cleaned
    /\ \A k \in 0 .. PartsIn(c, n) - 1 : g_apdu[k] = RspToken(c, c, n)
    /\ c \notin Local => CMD09_oldlabel = c
    /\ stm32.cmd # 0 => stm32 = [cmd |-> c, next |-> n + 1] /\ uart_waitack_flag = 1
    /\ \/ Queued(c, n) \/ Taken(c, n) \/ Waiting(c, n)
       \/ \E k \in 1 .. PartsIn(c, n) - 1 : Sending(c, n, k)

Place ==
    \/ Resting \/ Receiving \/ Whole \/ ToWork
    \/ \E c \in Commands : \E n \in 1 .. Len(ReplyLen[c]) : Replying(c, n)

-----------------------------------------------------------------------------
(* The STM32 works on the last command, and may reply when the phone waits *)
(* for that reply.                                                         *)
Stm32Works ==
    stm32.cmd # 0 =>
       /\ stm32.cmd \notin Local /\ CMD09_oldlabel = stm32.cmd
       /\ g_apdu[0].aligned /\ g_apdu[0].lab = stm32.cmd
       /\ want # 0 => stm32.cmd = current
       /\ want # 0 /\ (stm32.next = 1 \/ uart_waitack_flag # 1)
             => want = stm32.next /\ total = 0
       /\ stm32.next = 1 => ucResend = 0

(* What the phone waits for, what it has of it, and what it has got.       *)
Awaits ==
    /\ want # 0 => /\ want \in 1 .. Len(ReplyLen[current])
                   /\ Len(answers[current]) = want - 1
                   /\ want > 1 => CMD09_oldlabel = current
    /\ total # 0 => /\ want # 0 /\ total = PartsIn(current, want)
                    /\ \A k \in DOMAIN got :
                          k < total /\ got[k] = RspToken(current, current, want)
    /\ total = 0 => DOMAIN got = {}

Answers ==
    /\ \A c \in Commands : c > current => answers[c] = <<>>
    /\ \A c \in Commands : \A n \in 1 .. Len(answers[c]) :
          /\ n <= Len(ReplyLen[c])
          /\ answers[c][n] = [k \in 0 .. PartsIn(c, n) - 1 |-> RspToken(c, c, n)]

Timely ==
    /\ Place /\ (pc = "retry_reply" => SumPackNumber = 0)
    /\ Stm32Works /\ Awaits /\ Answers

-----------------------------------------------------------------------------
(* Linked is kept.                                                         *)

(* Main sends nothing without a connection.                                *)
LEMMA TurnOffline ==
    ASSUME Turn \/ UartReply, ~Ble_ConnnectFlag
    PROVE  UNCHANGED toPhone
<1>1. \A p : ble_txrx_Send(p) => UNCHANGED toPhone
  BY DEF ble_txrx_Send
<1>2. CASE \/ TurnDisconnected \/ TurnConnected
           \/ Receive \/ ReceiveReset \/ ReceiveFinish
  BY <1>2 DEF TurnDisconnected, TurnConnected, Receive, ReceiveReset, ReceiveFinish, radio
<1>3. CASE Send
  BY <1>1, <1>3 DEF Send, radio
<1>4. CASE ReSend
  BY <1>1, <1>4 DEF ReSend, radio
<1>5. CASE RetryReport
  BY <1>1, <1>5 DEF RetryReport, radio
<1>6. CASE NoReSend \/ Remember \/ RetryIdle \/ RetryReply
  BY <1>6 DEF NoReSend, Remember, RetryIdle, RetryReply, radio
<1>7. CASE \/ ProcessNothing \/ ProcessStatus \/ ProcessRepeated \/ ProcessNew
           \/ UartTurn \/ UartReply
  BY <1>7 DEF ProcessNothing, ProcessStatus, ProcessRepeated, ProcessNew, UartTurn,
              UartReply, radio
<1> QED BY <1>2, <1>3, <1>4, <1>5, <1>6, <1>7 DEF Turn

(* Main remembers its position only in a round.                            *)
LEMMA TurnRound ==
    ASSUME Turn \/ UartReply, pc \in {"remember", "remember_sent"} => ucResend = 1
    PROVE  /\ pc' \in {"remember", "remember_sent"} => ucResend' = 1
           /\ UNCHANGED Ble_ConnnectFlag
<1>1. CASE \/ TurnDisconnected \/ TurnConnected
           \/ Receive \/ ReceiveReset \/ ReceiveFinish
  BY <1>1 DEF TurnDisconnected, TurnConnected, Receive, ReceiveReset, ReceiveFinish
<1>2. CASE Send
  BY <1>2 DEF Send
<1>3. CASE ReSend
  BY <1>3 DEF ReSend, both
<1>4. CASE NoReSend \/ Remember \/ RetryIdle \/ RetryReport \/ RetryReply
  BY <1>4 DEF NoReSend, Remember, RetryIdle, RetryReport, RetryReply
<1>5. CASE \/ ProcessNothing \/ ProcessStatus \/ ProcessRepeated \/ ProcessNew
           \/ UartTurn \/ UartReply
  BY <1>5 DEF ProcessNothing, ProcessStatus, ProcessRepeated, ProcessNew, UartTurn, UartReply
<1> QED BY <1>1, <1>2, <1>3, <1>4, <1>5 DEF Turn

(* Linked is kept by every step.                                           *)
LEMMA LinkedNext ==
    ASSUME Linked, [Next]_vars
    PROVE  Linked'
<1>1. CASE StartCommand \/ PhoneAsksAgain \/ PhoneRepeats
  <2>1. /\ Ble_ConnnectFlag /\ UNCHANGED <<unseen, session>> /\ UNCHANGED deviceVars
    BY <1>1 DEF StartCommand, PhoneAsksAgain, PhoneRepeats
  <2> QED BY <2>1 DEF Linked, deviceVars
<1>2. CASE PhoneGivesUp
  <2>1. /\ outbox' = <<>> /\ want' = 0 /\ UNCHANGED <<toDevice, unseen, session>>
        /\ UNCHANGED deviceVars
    BY <1>2 DEF PhoneGivesUp
  <2> QED BY <2>1 DEF Linked, deviceVars, LinkQuiet
<1>3. CASE PhoneSend
  BY <1>3 DEF PhoneSend, Linked, both
<1>4. CASE DeviceReceives
  <2>1. Ble_ConnnectFlag
    BY <1>4 DEF DeviceReceives, Linked, LinkQuiet
  <2>2. UNCHANGED <<Ble_ConnnectFlag, pc>> /\ ucResend' \in {ucResend, 1}
    BY <1>4 DEF DeviceReceives, PhoneToBle, PhoneReport, PhoneAck, PhoneDataIgnored, PhoneData
  <2>3. UNCHANGED <<unseen, session>>
    BY <1>4 DEF DeviceReceives
  <2> QED BY <2>1, <2>2, <2>3 DEF Linked
<1>5. CASE PhoneGetsReport \/ PhoneGetsData
  <2>1. Ble_ConnnectFlag
    BY <1>5 DEF PhoneGetsReport, PhoneGetsData, Linked, LinkQuiet
  <2>2. UNCHANGED <<Ble_ConnnectFlag, pc, unseen, session>> /\ UNCHANGED both
    BY <1>5 DEF PhoneGetsReport, PhoneGetsData
  <2> QED BY <2>1, <2>2 DEF Linked, both
<1>6. CASE Connect
  <2>1. Ble_ConnnectFlag' /\ UNCHANGED <<pc, ucResend>>
    BY <1>6 DEF Connect, OnConnected, both
  <2>2. UNCHANGED <<unseen, session>>
    BY <1>6 DEF Connect, phoneVars
  <2>3. ~(session.timely /\ unseen)
    BY <1>6 DEF Connect
  <2> QED BY <2>1, <2>2, <2>3 DEF Linked
<1>7. CASE Disconnect
  <2>1. /\ toPhone' = <<>> /\ toDevice' = <<>> /\ outbox' = <<>> /\ want' = 0
        /\ ~Ble_ConnnectFlag' /\ UNCHANGED <<pc, ucResend, session>>
    BY <1>7 DEF Disconnect, OnDisconnected, both
  <2> QED BY <2>1 DEF Linked, LinkQuiet
<1>8. ASSUME Turn \/ UartReply, UNCHANGED <<toDevice, outbox, want, session>>, unseen' => unseen
      PROVE  Linked'
  <2>1. /\ pc' \in {"remember", "remember_sent"} => ucResend' = 1
        /\ UNCHANGED Ble_ConnnectFlag
    BY <1>8, TurnRound DEF Linked
  <2>2. ~Ble_ConnnectFlag => UNCHANGED toPhone
    BY <1>8, TurnOffline
  <2> QED BY <1>8, <2>1, <2>2 DEF Linked, LinkQuiet
<1>9. CASE DeviceTurn
  BY <1>8, <1>9 DEF DeviceTurn
<1>10. CASE Stm32Replies
  BY <1>8, <1>10 DEF Stm32Replies, phoneVars
<1>11. CASE Stm32GivesUp
  BY <1>11 DEF Stm32GivesUp, Linked, both, radio, phoneVars, LinkQuiet
<1>12. CASE DeviceTimeOut
  BY <1>12 DEF DeviceTimeOut, TimeOut, Linked, radio, phoneVars, LinkQuiet
<1>13. CASE UNCHANGED vars
  BY <1>13 DEF vars, deviceVars, phoneVars, Linked, LinkQuiet
<1> QED BY <1>1, <1>2, <1>3, <1>4, <1>5, <1>6, <1>7, <1>9, <1>10, <1>11, <1>12, <1>13 DEF Next

-----------------------------------------------------------------------------
(* Sequences and sizes.                                                    *)

(* What is left of an ascending sequence is ascending.                     *)
LEMMA AscendingTail ==
    ASSUME NEW S, NEW s \in Seq(S), s # <<>>, Ascending(s)
    PROVE  /\ Ascending(Tail(s))
           /\ \A i \in DOMAIN Tail(s) : Head(s).idx < Tail(s)[i].idx
<1>1. \A i \in DOMAIN Tail(s) : i \in Nat /\ i + 1 \in DOMAIN s /\ Tail(s)[i] = s[i + 1]
  BY TailAt
<1>2. 1 \in DOMAIN s /\ Head(s) = s[1]
  BY TailAt
<1>3. \A i \in DOMAIN Tail(s) : 1 < i + 1
  <2>1. DOMAIN Tail(s) = 1 .. Len(Tail(s)) /\ Len(Tail(s)) \in Nat
    OBVIOUS
  <2> QED BY <2>1
<1>4. ASSUME NEW i \in DOMAIN Tail(s), NEW j \in DOMAIN Tail(s), i < j
      PROVE  Tail(s)[i].idx < Tail(s)[j].idx
  <2>1. i + 1 < j + 1
    BY <1>1, <1>4
  <2> QED BY <1>1, <2>1 DEF Ascending
<1>5. Ascending(Tail(s))
  BY <1>4 DEF Ascending
<1>6. \A i \in DOMAIN Tail(s) : Head(s).idx < Tail(s)[i].idx
  BY <1>1, <1>2, <1>3 DEF Ascending
<1> QED BY <1>5, <1>6

(* So is one that is longer by a higher element.                           *)
LEMMA AscendingAppend ==
    ASSUME NEW S, NEW s \in Seq(S), NEW e \in S, Ascending(s),
           \A i \in DOMAIN s : s[i].idx < e.idx
    PROVE  Ascending(Append(s, e))
<1> SUFFICES ASSUME NEW i \in DOMAIN Append(s, e), NEW j \in DOMAIN Append(s, e), i < j
             PROVE  Append(s, e)[i].idx < Append(s, e)[j].idx
  BY DEF Ascending
<1>1. i \in DOMAIN s /\ Append(s, e)[i] = s[i]
  <2>1. DOMAIN Append(s, e) = 1 .. Len(s) + 1 /\ Len(s) \in Nat
    OBVIOUS
  <2>2. i # Len(s) + 1
    BY <2>1
  <2> QED BY <2>2, AppendAt
<1>2. CASE j \in DOMAIN s /\ Append(s, e)[j] = s[j]
  BY <1>1, <1>2 DEF Ascending
<1>3. CASE Append(s, e)[j] = e
  BY <1>1, <1>3
<1> QED BY <1>2, <1>3, AppendAt

(* Sequences of one element and of none.                                   *)
LEMMA AscendingShort ==
    /\ Ascending(<<>>)
    /\ \A e : /\ Ascending(<< e >>) /\ DOMAIN << e >> = {1} /\ << e >>[1] = e
              /\ Head(<< e >>) = e /\ Tail(<< e >>) = <<>> /\ << e >> # <<>>
BY DEF Ascending

(* The sizes of a reply and its packets.                                   *)
LEMMA ReplySizes ==
    ASSUME NEW c \in Commands, NEW n \in 1 .. Len(ReplyLen[c])
    PROVE  /\ ReplyLen[c][n] \in Nat /\ ReplyLen[c][n] >= 6 /\ ReplyLen[c][n] < 65536
           /\ PartsIn(c, n) \in Nat /\ PartsIn(c, n) >= 1
           /\ PartsIn(c, n) <= MaxParts /\ PartsIn(c, n) <= 120
           /\ ReplyLen[c][n] <= 16 + (PartsIn(c, n) - 1) * 18
           /\ ReplyLen[c][n] > 16 =>
                 PartsIn(c, n) >= 2 /\ ReplyLen[c][n] > 16 + (PartsIn(c, n) - 2) * 18
           /\ ReplyLen[c][n] <= 16 <=> PartsIn(c, n) = 1
<1> DEFINE len == ReplyLen[c][n]
           p   == Parts(len)
<1>1. /\ len \in Nat /\ len >= 6 /\ len < 65536
      /\ p \in 1 .. MaxParts /\ MaxParts \in Nat \ {0} /\ MaxParts <= 120
  BY ReplyFits
<1>2. len \in Nat /\ len >= 1
  BY <1>1, SMT
<1>3. /\ len <= 16 + (p - 1) * 18
      /\ len > 16 => p >= 2 /\ len > 16 + (p - 2) * 18
      /\ len <= 16 <=> p = 1
  BY <1>2, PartsOf
<1>4. p = PartsIn(c, n)
  BY DEF PartsIn
<1> HIDE DEF len, p
<1>5. p \in Nat /\ p >= 1 /\ p <= MaxParts /\ p <= 120
  BY <1>1, SMT
<1> QED BY <1>1, <1>3, <1>4, <1>5 DEF len

(* The packets of a reply are in g_apdu.                                   *)
LEMMA ReplyInside ==
    ASSUME NEW c \in Commands, NEW n \in 1 .. Len(ReplyLen[c]),
           NEW k \in 0 .. PartsIn(c, n) - 1
    PROVE  k \in Part /\ k \in Nat /\ 0 \in 0 .. PartsIn(c, n) - 1
<1>1. PartsIn(c, n) \in Nat /\ PartsIn(c, n) >= 1 /\ PartsIn(c, n) <= MaxParts
  BY ReplySizes
<1>2. MaxParts \in Nat
  BY Limits
<1> QED BY <1>1, <1>2, SMT DEF Part

(* Where nothing is under way and nothing waits, the device rests or waits *)
(* for the rest of a command.                                              *)
LEMMA WhereQuiet ==
    ASSUME Place, LinkQuiet, DeviceWaits, SumPackNumber = 0
    PROVE  Resting \/ Receiving
<1>1. ~Whole /\ ~ToWork
  BY DEF DeviceWaits, Whole, ToWork
<1>2. ASSUME NEW c \in Commands, NEW n \in 1 .. Len(ReplyLen[c]), Replying(c, n)
      PROVE  FALSE
  <2>1. ReplyLen[c][n] # 0 /\ PartsIn(c, n) # 0
    BY ReplySizes, SMT
  <2>2. ~Queued(c, n) /\ ~Taken(c, n) /\ ~Waiting(c, n)
    BY <2>1 DEF DeviceWaits, Queued, Taken, Waiting
  <2>3. \A k : ~Sending(c, n, k)
    BY <2>1 DEF DeviceWaits, Sending
  <2> QED BY <1>2, <2>2, <2>3 DEF Replying
<1> QED BY <1>1, <1>2 DEF Place

-----------------------------------------------------------------------------
(* The phone's own steps.                                                  *)

(* The reply that is out stays the same.                                   *)
LEMMA SameReply ==
    ASSUME NEW c \in Commands, NEW n \in 1 .. Len(ReplyLen[c]), Replying(c, n),
           UNCHANGED <<Apdufinsh, ucaRevPackN, g_apdu, CMD09_oldlabel, stm32>>,
           uart_waitack_flag = 1 => uart_waitack_flag' = 1,
           Between',
           \/ Queued(c, n)' \/ Taken(c, n)' \/ Waiting(c, n)'
           \/ \E k \in 1 .. PartsIn(c, n) - 1 : Sending(c, n, k)'
    PROVE  Place'
<1>1. Cleaned'
  BY DEF Replying, Cleaned
<1>2. (\A k \in 0 .. PartsIn(c, n) - 1 : g_apdu[k] = RspToken(c, c, n))'
  BY DEF Replying
<1>3. /\ c \notin Local => CMD09_oldlabel' = c
      /\ stm32'.cmd # 0 => stm32' = [cmd |-> c, next |-> n + 1] /\ uart_waitack_flag' = 1
  BY DEF Replying
<1>4. Replying(c, n)'
  BY <1>1, <1>2, <1>3 DEF Replying, PartsIn
<1> QED BY <1>4 DEF Place

(* What a device at rest shares with one that has no packet of the phone's *)
(* command yet.                                                            *)
LEMMA RestsOrBegins ==
    ASSUME Resting \/ (Receiving /\ Apdufinsh = 0)
    PROVE  /\ Calm /\ Between /\ blueRecivSendflag = "NOdata"
           /\ ucaRevPackN = {} /\ Apdufinsh = 0 /\ ucReTry = 0
<1>1. CASE Resting
  BY <1>1 DEF Resting, Cleaned
<1>2. CASE Receiving /\ Apdufinsh = 0
  <2>1. Calm /\ Between /\ blueRecivSendflag = "NOdata"
    BY <1>2 DEF Receiving, Fresh
  <2>2. ucaRevPackN = {} /\ ucReTry = 0
    <3>1. /\ ucaRevPackN = {} => Apdufinsh = 0 /\ ucReTry = 0
          /\ ucaRevPackN # {} => Apdufinsh = 2
      BY <1>2 DEF Receiving
    <3> QED BY <1>2, <3>1
  <2> QED BY <1>2, <2>1, <2>2
<1> QED BY <1>1, <1>2

(* A device at rest is ready for the packets of the phone's command.       *)
LEMMA ReadyFor ==
    ASSUME Resting \/ (Receiving /\ Apdufinsh = 0), LinkQuiet, ucResend = 0, stm32.cmd = 0,
           UNCHANGED deviceVars, UNCHANGED toDevice,
           current' \in Commands, want' # 0, total' = 0,
           outbox' = CommandPackets(current', AllParts(current'))
    PROVE  Place'
<1>1. /\ Calm /\ Between /\ blueRecivSendflag = "NOdata"
      /\ ucaRevPackN = {} /\ Apdufinsh = 0 /\ ucReTry = 0
  BY RestsOrBegins
<1>2. /\ UNCHANGED <<lr, SumPackNumber, Sendlenth, pc, blueRecivSendflag, ucaRevPackN,
                     Apdufinsh, ucReTry, ucResend, stm32, toPhone>>
  BY DEF deviceVars
<1>3. toPhone' = <<>> /\ toDevice' = <<>>
  BY <1>2 DEF LinkQuiet
<1>4. AllParts(current') # {}
  BY CommandFits
<1>5. Coming'
  <2>1. DOMAIN toDevice' = {}
    BY <1>3
  <2>2. Ascending(toDevice)'
    BY <2>1 DEF Ascending
  <2>3. AllParts(current') \in SUBSET (AllParts(current') \ ucaRevPackN')
    BY <1>1, <1>2
  <2> QED BY <1>3, <2>1, <2>2, <2>3 DEF Coming
<1>6. Fresh' /\ Between'
  BY <1>1, <1>2 DEF Fresh, Calm, Between
<1>7. Receiving'
  BY <1>1, <1>2, <1>4, <1>5, <1>6 DEF Receiving
<1> QED BY <1>7 DEF Place

(* The phone's user starts a command.                                      *)
LEMMA StartCommand_Timely ==
    ASSUME General, Linked, Timely, session.timely, StartCommand
    PROVE  Timely'
<1>1. /\ Ble_ConnnectFlag /\ want = 0 /\ LinkQuiet /\ DeviceWaits
      /\ SumPackNumber = 0 /\ stm32.cmd = 0
      /\ want' = 1 /\ got' = <<>> /\ total' = 0
      /\ UNCHANGED deviceVars /\ UNCHANGED <<toDevice, answers>>
  BY DEF StartCommand
<1>2. PICK c \in session.commands : /\ c > current /\ current' = c
                                    /\ outbox' = CommandPackets(c, AllParts(c))
  BY DEF StartCommand
<1>3. c \in Commands /\ current \in Nat /\ c \in Nat
  <2>1. session.commands \subseteq Commands /\ current \in {0} \union Commands
    BY BleAssumption DEF LinkAssumption, General, Types, Phone
  <2>2. c \in Commands
    BY <2>1
  <2>3. Commands \subseteq Nat
    BY BleAssumption DEF TransferAssumption
  <2> QED BY <2>1, <2>2, <2>3
<1>4. Resting
  <2>1. Resting \/ Receiving
    BY <1>1, WhereQuiet DEF Timely
  <2> QED BY <1>1, <2>1 DEF Receiving
<1>5. Place'
  <2>1. ucResend = 0
    BY <1>1 DEF DeviceWaits
  <2> QED BY <1>1, <1>2, <1>3, <1>4, <2>1, ReadyFor
<1>6. UNCHANGED <<pc, SumPackNumber, stm32>>
  BY <1>1 DEF deviceVars
<1>7. Stm32Works'
  BY <1>1, <1>6 DEF Stm32Works
<1>8. Answers'
  BY <1>1, <1>2, <1>3, BleAssumption DEF Timely, Answers, TransferAssumption
<1>9. Awaits'
  <2>1. answers'[c] = <<>> /\ Len(answers'[c]) = 0
    BY <1>1, <1>2, <1>3 DEF Timely, Answers
  <2>2. 1 \in 1 .. Len(ReplyLen[c])
    BY <1>3, HasReply
  <2>3. DOMAIN got' = {}
    BY <1>1
  <2> QED BY <1>1, <1>2, <2>1, <2>2, <2>3 DEF Awaits
<1> QED BY <1>5, <1>6, <1>7, <1>8, <1>9 DEF Timely

(* The phone repeats its command, or gives it up.                          *)
LEMMA PhoneRepeats_Timely ==
    ASSUME General, Linked, Timely, session.timely, PhoneRepeats
    PROVE  Timely'
<1>1. /\ want # 0 /\ total = 0 /\ LinkQuiet /\ DeviceWaits
      /\ SumPackNumber = 0 /\ Apdufinsh = 0 /\ stm32.cmd = 0
      /\ outbox' = CommandPackets(current, AllParts(current))
      /\ UNCHANGED deviceVars /\ UNCHANGED <<toDevice, current, want, got, total, answers>>
  BY DEF PhoneRepeats
<1>2. current \in Commands
  BY <1>1 DEF General, Types, Phone
<1>3. Resting \/ Receiving
  BY <1>1, WhereQuiet DEF Timely
<1>4. Place'
  BY <1>1, <1>2, <1>3, ReadyFor DEF DeviceWaits
<1>5. UNCHANGED <<pc, SumPackNumber, stm32, CMD09_oldlabel>>
  BY <1>1 DEF deviceVars
<1>6. Stm32Works' /\ Awaits' /\ Answers'
  BY <1>1, <1>5 DEF Timely, Stm32Works, Awaits, Answers
<1> QED BY <1>4, <1>5, <1>6 DEF Timely

(* See above.                                                              *)
LEMMA PhoneGivesUp_Timely ==
    ASSUME General, Linked, Timely, session.timely, PhoneGivesUp
    PROVE  Timely'
<1>1. /\ LinkQuiet /\ DeviceWaits /\ SumPackNumber = 0 /\ Apdufinsh = 0 /\ stm32.cmd = 0
      /\ want' = 0 /\ got' = <<>> /\ total' = 0 /\ outbox' = <<>>
      /\ UNCHANGED deviceVars /\ UNCHANGED <<toDevice, current, answers>>
  BY DEF PhoneGivesUp
<1>2. Resting \/ Receiving
  BY <1>1, WhereQuiet DEF Timely
<1>3. /\ Calm /\ Between /\ blueRecivSendflag = "NOdata"
      /\ ucaRevPackN = {} /\ Apdufinsh = 0 /\ ucReTry = 0 /\ ucResend = 0
  BY <1>1, <1>2, RestsOrBegins DEF DeviceWaits
<1>4. /\ UNCHANGED <<lr, SumPackNumber, Sendlenth, pc, blueRecivSendflag, ucaRevPackN,
                     Apdufinsh, ucReTry, ucResend, stm32, toPhone>>
  BY <1>1 DEF deviceVars
<1>5. LinkQuiet'
  BY <1>1, <1>4 DEF LinkQuiet
<1>6. Resting'
  BY <1>3, <1>4, <1>5 DEF Resting, Calm, Cleaned, Between, CutOff
<1>7. Stm32Works' /\ Answers'
  BY <1>1, <1>4 DEF Timely, Stm32Works, Answers
<1>8. Awaits'
  <2>1. DOMAIN got' = {}
    BY <1>1
  <2> QED BY <1>1, <2>1 DEF Awaits
<1> QED BY <1>4, <1>6, <1>7, <1>8 DEF Timely, Place

(* Where packets of a reply were counted, a reply is out.                  *)
LEMMA WhereCounted ==
    ASSUME Place, SumPackNumber # 0
    PROVE  \E c \in Commands : \E n \in 1 .. Len(ReplyLen[c]) :
              /\ Replying(c, n)
              /\ Waiting(c, n) \/ \E k \in 1 .. PartsIn(c, n) - 1 : Sending(c, n, k)
<1>1. ~Resting /\ ~Receiving /\ ~Whole /\ ~ToWork
  BY DEF Resting, Receiving, Whole, ToWork, Fresh, Calm
<1>2. \A c, n : ~Queued(c, n) /\ ~Taken(c, n)
  BY DEF Queued, Taken, Calm
<1>3. PICK c \in Commands : \E n \in 1 .. Len(ReplyLen[c]) : Replying(c, n)
  BY <1>1 DEF Place
<1>4. PICK n \in 1 .. Len(ReplyLen[c]) : Replying(c, n)
  BY <1>3
<1> QED BY <1>2, <1>4 DEF Replying

(* The phone reports again what it misses.                                 *)
LEMMA PhoneAsksAgain_Timely ==
    ASSUME General, Linked, Timely, session.timely, PhoneAsksAgain
    PROVE  Timely'
<1>1. /\ want # 0 /\ total # 0 /\ LinkQuiet /\ DeviceWaits /\ SumPackNumber # 0
      /\ retries < session.retries
      /\ outbox' = Append(outbox, Lacking)
      /\ UNCHANGED deviceVars
      /\ UNCHANGED <<toDevice, current, want, got, total, answers, session>>
  BY DEF PhoneAsksAgain, Lacking
<1>2. UNCHANGED <<pc, SumPackNumber, stm32, CMD09_oldlabel, g_apdu, uart_waitack_flag,
                  Apdufinsh, ucaRevPackN, ucaPackMsg, toPhone, lr, Sendlenth, T_Connect,
                  ucReTry, ucResend, blueRecivSendflag, remberPackn>>
  BY <1>1 DEF deviceVars
<1>3. PICK c \in Commands : \E n \in 1 .. Len(ReplyLen[c]) :
              /\ Replying(c, n)
              /\ Waiting(c, n) \/ \E k \in 1 .. PartsIn(c, n) - 1 : Sending(c, n, k)
  BY <1>1, WhereCounted DEF Timely
<1>4. PICK n \in 1 .. Len(ReplyLen[c]) :
              /\ Replying(c, n)
              /\ Waiting(c, n) \/ \E k \in 1 .. PartsIn(c, n) - 1 : Sending(c, n, k)
  BY <1>3
<1>5. Waiting(c, n)
  <2>1. ReplyLen[c][n] # 0
    BY ReplySizes, SMT
  <2>2. ~Sending(c, n, 0) /\ \A k : ~Sending(c, n, k)
    BY <1>1, <2>1 DEF Sending, DeviceWaits
  <2> QED BY <1>4, <2>2
<1>6. Awaited(c, n)
  BY <1>1, <1>5 DEF Waiting
<1>7. (T_Connect \/ ucReTry = 0)'
  BY <1>1, <1>2, <1>5 DEF Waiting, Expired
<1>8. Asks'
  <2>1. outbox' = << Lacking >> /\ toDevice' = <<>> /\ toPhone' = <<>>
    BY <1>1, <1>2 DEF LinkQuiet
  <2>2. Lacking' = Lacking
    BY <1>1 DEF Lacking
  <2>3. ucResend' = 0 /\ total' # 0
    BY <1>1, <1>2 DEF DeviceWaits
  <2> QED BY <2>1, <2>2, <2>3 DEF Asks, OnItsWay
<1>9. Waiting(c, n)'
  <2>1. Round(c, n)'
    BY <1>1, <1>2 DEF Round, DeviceWaits
  <2>2. Awaited(c, n)'
    BY <1>1, <1>6 DEF Awaited
  <2>3. /\ lr' = 0 /\ SumPackNumber' = PartsIn(c, n) /\ Sendlenth' = ReplyLen[c][n]
        /\ blueRecivSendflag' = "NOdata"
    BY <1>2, <1>5 DEF Waiting
  <2> QED BY <1>7, <1>8, <2>1, <2>2, <2>3 DEF Waiting
<1>10. Place'
  <2>1. Between'
    BY <1>2, <1>4 DEF Replying, Cleaned, Between
  <2> QED BY <1>2, <1>4, <1>9, <2>1, SameReply
<1>11. Stm32Works' /\ Awaits' /\ Answers'
  BY <1>1, <1>2 DEF Timely, Stm32Works, Awaits, Answers
<1> QED BY <1>2, <1>10, <1>11 DEF Timely

-----------------------------------------------------------------------------
(* The link, from the phone.                                               *)

(* The phone waits for what it waited for.                                 *)
LEMMA SamePhone ==
    ASSUME Timely,
           UNCHANGED <<want, got, total, current, answers, CMD09_oldlabel>>,
           UNCHANGED <<stm32, g_apdu, uart_waitack_flag, ucResend>>
    PROVE  Stm32Works' /\ Awaits' /\ Answers'
BY DEF Timely, Stm32Works, Awaits, Answers

(* A reply that is out stays so while its packets or the phone's are on    *)
(* their way.                                                              *)
LEMMA SameWaiting ==
    ASSUME NEW c, NEW n, Waiting(c, n),
           UNCHANGED <<lr, SumPackNumber, Sendlenth, blueRecivSendflag, toPhone,
                       ucResend, ucaPackMsg, remberPackn>>,
           pc' = pc \/ (pc # "remember_sent" /\ pc' # "remember_sent"),
           UNCHANGED <<want, got, total, current>>,
           (T_Connect \/ ucReTry = 0 \/ Expired)',
           (Outgoing(c, n) \/ Asks \/ Acks)'
    PROVE  Waiting(c, n)'
<1>1. ToSend' = ToSend
  BY DEF ToSend, AtLast, Ahead, Bits
<1>2. Awaited(c, n)' <=> Awaited(c, n)
  BY DEF Awaited
<1>3. Round(c, n)' <=> Round(c, n)
  <2>1. Ahead' = Ahead /\ (AtLast' <=> AtLast) /\ Bits' = Bits
    BY DEF Ahead, AtLast, Bits
  <2> QED BY <2>1 DEF Round
<1> QED BY <1>1, <1>2, <1>3 DEF Waiting

(* A packet of the phone's command goes out.                               *)
LEMMA Coming_Sends ==
    ASSUME Types, current \in Commands, ucaRevPackN \in SUBSET AllParts(current),
           Coming, PhoneSend
    PROVE  Coming'
<1>1. PICK ks \in SUBSET (AllParts(current) \ ucaRevPackN) :
          /\ outbox = CommandPackets(current, ks)
          /\ \A i \in DOMAIN toDevice : \A k \in ks : toDevice[i].idx < k
  BY DEF Coming
<1>2. /\ outbox # <<>> /\ UNCHANGED <<ucaRevPackN, current, toPhone>>
  BY DEF PhoneSend, rx
<1>3. /\ ks # {} /\ Head(outbox).type = "command" /\ Head(outbox).cmd = current
      /\ Head(outbox).parts = ks /\ Tail(outbox) = <<>>
  BY <1>1, <1>2 DEF CommandPackets
<1>4. PICK k \in ks :
          /\ \A j \in ks : k <= j
          /\ GoesOut(CommandPacket(current, k))
          /\ outbox' = CommandPackets(current, ks \ {k}) \o <<>>
  BY <1>3 DEF PhoneSend
<1>5. outbox' = CommandPackets(current, ks \ {k})
  <2>1. CommandPackets(current, ks \ {k}) \in Seq(Tasks)
    BY Jobs_Types
  <2> QED BY <1>4, <2>1
<1> DEFINE e == CommandPacket(current, k)
<1>6. e \in Packets /\ e.idx = k
  BY Packet_Facts DEF Packets
<1>7. toDevice \in Seq(Packets)
  BY DEF Types, Phone
<1>8. toDevice' = toDevice \/ toDevice' = Append(toDevice, e)
  BY <1>4 DEF GoesOut
<1>9. \A i \in DOMAIN toDevice' : \/ i \in DOMAIN toDevice /\ toDevice'[i] = toDevice[i]
                                  \/ toDevice'[i] = e
  BY <1>6, <1>7, <1>8, AppendAt
<1>10. e = CommandPacket(current, k)
  OBVIOUS
<1> HIDE DEF e
<1>11. Ascending(toDevice)'
  <2>1. Ascending(toDevice) /\ \A i \in DOMAIN toDevice : toDevice[i].idx < e.idx
    BY <1>1, <1>6 DEF Coming
  <2>2. Ascending(Append(toDevice, e))
    BY <1>6, <1>7, <2>1, AscendingAppend
  <2>3. Ascending(toDevice')
    BY <1>8, <2>1, <2>2
  <2> QED BY <2>3 DEF Ascending
<1>12. \A i \in DOMAIN toDevice' :
           \E j \in AllParts(current') \ ucaRevPackN' : toDevice'[i] = CommandPacket(current', j)
  BY <1>2, <1>9, <1>10 DEF Coming
<1>13. \A i \in DOMAIN toDevice' : \A j \in ks \ {k} : toDevice'[i].idx < j
  <2>1. \A j \in ks \ {k} : k < j
    <3>1. ks \subseteq Nat
      BY CommandFits DEF AllParts
    <3> QED BY <1>4, <3>1
  <2> QED BY <1>1, <1>6, <1>9, <2>1
<1>14. toPhone' = <<>> /\ ks \ {k} \in SUBSET (AllParts(current') \ ucaRevPackN')
  BY <1>2 DEF Coming
<1>15. \E js \in SUBSET (AllParts(current') \ ucaRevPackN') :
           /\ outbox' = CommandPackets(current', js)
           /\ \A i \in DOMAIN toDevice' : \A j \in js : toDevice'[i].idx < j
  BY <1>2, <1>5, <1>13, <1>14
<1> QED BY <1>11, <1>12, <1>14, <1>15 DEF Coming

(* A step of the link in which a command comes in.                         *)
LEMMA SameReceiving ==
    ASSUME Receiving, Coming', T_Connect \/ ucaRevPackN = {},
           UNCHANGED <<lr, SumPackNumber, Sendlenth, stm32, ucResend, pc, blueRecivSendflag,
                       ucaRevPackN, Apdufinsh, ucReTry, g_apdu, g_apdu_length, ucaPackMsg,
                       T_Connect, want, total, current, Ble_ConnnectFlag, unseen>>
    PROVE  Receiving'
<1>1. Fresh' /\ Between' /\ blueRecivSendflag' = "NOdata"
  BY DEF Receiving, Fresh, Between, Calm
<1>2. /\ ucaRevPackN' \in SUBSET AllParts(current') /\ ucaRevPackN' # AllParts(current')
      /\ \A k \in ucaRevPackN' : g_apdu'[k] = CmdToken(current', FALSE)
      /\ ucaRevPackN' = {} => Apdufinsh' = 0 /\ ucReTry' = 0
      /\ want' = 0 => ~Ble_ConnnectFlag' /\ unseen'
  BY DEF Receiving
<1>3. ucaRevPackN' # {} =>
          /\ Apdufinsh' = 2
          /\ g_apdu_length' = BytesOf(current', ucaRevPackN')
          /\ ucaPackMsg' = MissedPackN(Parts(CmdLen[current']), ucaRevPackN')
          /\ T_Connect' \/ LinkQuiet'
  BY DEF Receiving
<1>4. \A ks : BytesOf(current', ks) = BytesOf(current, ks)
  OBVIOUS
<1> QED BY <1>1, <1>2, <1>3 DEF Receiving

(* Where the outbox is not empty.                                          *)
LEMMA WhereUnsent ==
    ASSUME Place, outbox # <<>>
    PROVE  \/ Receiving /\ Coming
           \/ \E c \in Commands : \E n \in 1 .. Len(ReplyLen[c]) :
                 Replying(c, n) /\ Waiting(c, n) /\ (Asks \/ Acks)
<1>1. ~LinkQuiet /\ ~Reported /\ \A c, n : ~Outgoing(c, n)
  BY DEF LinkQuiet, Reported, Outgoing
<1>2. CASE Resting \/ Whole \/ ToWork
  BY <1>1, <1>2 DEF Resting, Whole, ToWork
<1>3. CASE Receiving
  BY <1>1, <1>3 DEF Receiving
<1>4. ASSUME NEW c \in Commands, NEW n \in 1 .. Len(ReplyLen[c]), Replying(c, n)
      PROVE  Waiting(c, n) /\ (Asks \/ Acks)
  <2>1. ~Queued(c, n) /\ ~Taken(c, n) /\ \A k : ~Sending(c, n, k)
    BY <1>1 DEF Queued, Taken, Sending
  <2> QED BY <1>1, <1>4, <2>1 DEF Replying, Waiting
<1> QED BY <1>2, <1>3, <1>4 DEF Place

(* The phone's next packet goes out or is lost.                            *)
LEMMA PhoneSend_Timely ==
    ASSUME General, Linked, Timely, session.timely, PhoneSend
    PROVE  Timely'
<1>1. /\ outbox # <<>>
      /\ UNCHANGED <<lr, SumPackNumber, Sendlenth, stm32, ucResend, pc, blueRecivSendflag,
                     ucaRevPackN, Apdufinsh, ucReTry, g_apdu, g_apdu_length, ucaPackMsg,
                     T_Connect, want, total, current, Ble_ConnnectFlag, unseen>>
      /\ UNCHANGED <<got, answers, CMD09_oldlabel, uart_waitack_flag, toPhone,
                     remberPackn>>
  BY DEF PhoneSend, apdu, rx, both, tx, command
<1>2. Stm32Works' /\ Awaits' /\ Answers'
  BY <1>1, SamePhone
<1>3. CASE Receiving /\ Coming
  <2>1. Coming'
    BY <1>3, Coming_Sends DEF General, Receiving, Fresh
  <2>2. T_Connect \/ ucaRevPackN = {}
    BY <1>1, <1>3 DEF Receiving, LinkQuiet
  <2> QED BY <1>1, <1>2, <1>3, <2>1, <2>2, SameReceiving DEF Timely, Place
<1>4. ASSUME NEW c \in Commands, NEW n \in 1 .. Len(ReplyLen[c]),
             Replying(c, n), Waiting(c, n), Asks \/ Acks
      PROVE  Place'
  <2>1. PICK p \in {Lacking, AckPacket} : outbox = << p >> /\ toDevice = <<>> /\ toPhone = <<>>
                 /\ (p = Lacking => Asks) /\ (p = AckPacket => Acks)
    <3>1. AckPacket.type = "ack" /\ Lacking.type = "missing"
      BY DEF AckPacket, Lacking, MissingPacket
    <3> QED BY <1>1, <1>4, <3>1 DEF Asks, Acks, OnItsWay
  <2>2. Head(outbox) = p /\ p.type # "command" /\ Tail(outbox) = <<>>
    BY <2>1 DEF AckPacket, Lacking, MissingPacket
  <2>3. /\ outbox' = <<>>
        /\ toDevice' = <<>> \/ toDevice' = << p >>
    BY <2>1, <2>2 DEF PhoneSend, GoesOut
  <2>4. Lacking' = Lacking
    BY <1>1 DEF Lacking
  <2>5. (Outgoing(c, n) \/ Asks \/ Acks)'
    <3>1. CASE toDevice' = <<>>
      <4>1. DOMAIN toPhone' = {}
        BY <1>1, <2>1
      <4> QED BY <2>3, <3>1, <4>1 DEF Outgoing, Ascending
    <3>2. CASE toDevice' = << p >> /\ p = Lacking
      BY <1>1, <2>1, <2>3, <2>4, <3>2 DEF Asks, OnItsWay, AtLast
    <3>3. CASE toDevice' = << p >> /\ p = AckPacket
      <4>1. ToSend' = ToSend
        BY <1>1 DEF ToSend, AtLast, Ahead, Bits
      <4> QED BY <1>1, <2>1, <2>3, <3>3, <4>1 DEF Acks, OnItsWay
    <3> QED BY <2>1, <2>3, <3>1, <3>2, <3>3
  <2>6. (T_Connect \/ ucReTry = 0)'
    BY <1>1, <1>4 DEF Waiting, Expired, LinkQuiet
  <2>7. Waiting(c, n)'
    BY <1>1, <1>4, <2>5, <2>6, SameWaiting
  <2>8. Between'
    BY <1>1, <1>4 DEF Replying, Cleaned, Between
  <2> QED BY <1>1, <1>4, <2>7, <2>8, SameReply
<1>5. Place'
  BY <1>1, <1>3, <1>4, WhereUnsent DEF Timely
<1> QED BY <1>1, <1>2, <1>5 DEF Timely

-----------------------------------------------------------------------------
(* The bytes of a command's packets.                                       *)

(* A packet has its bytes, the last one those that are left.               *)
LEMMA PartBytes ==
    ASSUME NEW c \in Commands
    PROVE  /\ LastPart(c) \in AllParts(c) /\ LastPart(c) \in Nat /\ LastPart(c) < 120
           /\ AllParts(c) = 0 .. LastPart(c)
           /\ Bytes(CmdLen[c], LastPart(c)) = CmdLen[c] + 2 - LastPart(c) * 18
           /\ Bytes(CmdLen[c], LastPart(c)) \in Nat
           /\ Bytes(CmdLen[c], LastPart(c)) <= 18
           /\ \A k \in AllParts(c) \ {LastPart(c)} : Bytes(CmdLen[c], k) = 18
           /\ CmdLen[c] \in Nat
<1> DEFINE len == CmdLen[c]
           p   == Parts(len)
<1>1. len \in Nat /\ len >= 6 /\ p \in Nat /\ p >= 1 /\ p <= 120
  BY CommandFits, SMT
<1>2. len \in Nat /\ len >= 1
  BY <1>1, SMT
<1>3. len <= 16 + (p - 1) * 18 /\ (len > 16 => p >= 2 /\ len > 16 + (p - 2) * 18)
      /\ (len <= 16 <=> p = 1)
  BY <1>2, PartsOf
<1>4. LastPart(c) = p - 1 /\ AllParts(c) = 0 .. p - 1
  BY DEF LastPart, AllParts
<1>5. /\ Bytes(len, p - 1) = len + 2 - (p - 1) * 18
      /\ \A k \in 0 .. p - 1 : k < p - 1 => Bytes(len, k) = 18
  BY <1>1, Sizes, SMT DEF Bytes, p
<1> HIDE DEF p, len
<1>6. p - 1 \in Nat /\ p - 1 < 120 /\ p - 1 \in 0 .. p - 1
  BY <1>1, SMT
<1>7. len + 2 - (p - 1) * 18 \in Nat /\ len + 2 - (p - 1) * 18 <= 18
  <2>1. CASE p = 1
    BY <1>1, <1>3, <2>1, SMT
  <2>2. CASE p # 1
    BY <1>1, <1>3, <2>2, SMT
  <2> QED BY <2>1, <2>2
<1>8. \A k \in AllParts(c) \ {LastPart(c)} : Bytes(len, k) = 18
  <2>1. \A k \in (0 .. p - 1) \ {p - 1} : k < p - 1 /\ k \in 0 .. p - 1
    BY <1>1, SMT
  <2> QED BY <1>4, <1>5, <2>1
<1> QED BY <1>1, <1>4, <1>5, <1>6, <1>7, <1>8 DEF len

(* The bytes received so far count one more packet.                        *)
LEMMA BytesAdd ==
    ASSUME NEW c \in Commands, NEW ks \in SUBSET AllParts(c), NEW k \in AllParts(c) \ ks
    PROVE  /\ BytesOf(c, ks) \in Nat /\ BytesOf(c, ks) < 4320
           /\ BytesOf(c, ks \union {k}) = BytesOf(c, ks) + Bytes(CmdLen[c], k)
           /\ Bytes(CmdLen[c], k) \in Nat /\ Bytes(CmdLen[c], k) <= 18
           /\ BytesOf(c, {k}) = Bytes(CmdLen[c], k)
           /\ BytesOf(c, AllParts(c)) = CmdLen[c] + 2
<1> DEFINE l == LastPart(c)
           b == Bytes(CmdLen[c], l)
<1>1. /\ l \in Nat /\ l < 120 /\ AllParts(c) = 0 .. l /\ l \in AllParts(c)
      /\ b = CmdLen[c] + 2 - l * 18 /\ b \in Nat /\ b <= 18 /\ CmdLen[c] \in Nat
      /\ \A j \in AllParts(c) \ {l} : Bytes(CmdLen[c], j) = 18
  BY PartBytes
<1>2. IsFiniteSet(AllParts(c)) /\ Cardinality(AllParts(c)) = l + 1
  <2>1. 0 \in Int /\ l \in Int
    BY <1>1
  <2>2. IsFiniteSet(0 .. l) /\ Cardinality(0 .. l) = IF 0 > l THEN 0 ELSE l - 0 + 1
    BY <2>1, FS_Interval
  <2>3. (IF 0 > l THEN 0 ELSE l - 0 + 1) = l + 1
    BY <1>1
  <2> QED BY <1>1, <2>2, <2>3
<1>3. /\ IsFiniteSet(ks) /\ Cardinality(ks) \in Nat /\ Cardinality(ks) <= l + 1
  BY <1>1, <1>2, FS_Subset, FS_CardinalityType
<1>4. Cardinality(ks \union {k}) = Cardinality(ks) + 1
  BY <1>3, FS_AddElement
<1>5. Cardinality({k}) = 1
  BY FS_Singleton
<1>6. ks # {} => Cardinality(ks) >= 1
  BY <1>3, FS_EmptySet
<1>7. \A js : BytesOf(c, js) = IF l \in js THEN 18 * (Cardinality(js) - 1) + b
                               ELSE 18 * Cardinality(js)
  BY Sizes DEF BytesOf
<1> DEFINE bk == Bytes(CmdLen[c], k)
<1>8. (k = l /\ bk = b) \/ (k # l /\ bk = 18)
  BY <1>1
<1> HIDE DEF l, b, bk
<1>9. BytesOf(c, ks) \in Nat /\ BytesOf(c, ks) < 4320
  <2>1. CASE l \in ks
    <3>1. BytesOf(c, ks) = 18 * (Cardinality(ks) - 1) + b /\ Cardinality(ks) >= 1
      BY <1>6, <1>7, <2>1
    <3> QED BY <1>1, <1>3, <3>1, SMT
  <2>2. CASE l \notin ks
    <3>1. BytesOf(c, ks) = 18 * Cardinality(ks)
      BY <1>7, <2>2
    <3> QED BY <1>1, <1>3, <3>1, SMT
  <2> QED BY <2>1, <2>2
<1>10. BytesOf(c, ks \union {k}) = BytesOf(c, ks) + bk
  <2>1. CASE k = l
    <3>0. l \in ks \union {k} /\ l \notin ks
      BY <2>1
    <3>1. /\ BytesOf(c, ks \union {k}) = 18 * (Cardinality(ks \union {k}) - 1) + b
          /\ BytesOf(c, ks) = 18 * Cardinality(ks)
      BY <1>7, <3>0, Zenon
    <3>2. bk = b
      BY <1>8, <2>1
    <3> QED BY <1>1, <1>3, <1>4, <3>1, <3>2
  <2>2. CASE k # l /\ l \in ks
    <3>0. l \in ks \union {k} /\ l \in ks
      BY <2>2
    <3>1. /\ BytesOf(c, ks \union {k}) = 18 * (Cardinality(ks \union {k}) - 1) + b
          /\ BytesOf(c, ks) = 18 * (Cardinality(ks) - 1) + b
      BY <1>7, <3>0, Zenon
    <3>2. bk = 18
      BY <1>8, <2>2
    <3> QED BY <1>1, <1>3, <1>4, <3>1, <3>2
  <2>3. CASE k # l /\ l \notin ks
    <3>1. /\ BytesOf(c, ks \union {k}) = 18 * (Cardinality(ks) + 1)
          /\ BytesOf(c, ks) = 18 * Cardinality(ks) /\ bk = 18
      BY <1>4, <1>7, <1>8, <2>3
    <3> QED BY <1>1, <1>3, <3>1, SMT
  <2> QED BY <2>1, <2>2, <2>3
<1>11. bk \in Nat /\ bk <= 18
  BY <1>1, <1>8
<1>12. BytesOf(c, {k}) = bk
  <2>1. k = l => BytesOf(c, {k}) = 18 * (1 - 1) + b
    BY <1>5, <1>7
  <2>2. k # l => BytesOf(c, {k}) = 18 * 1
    BY <1>5, <1>7
  <2> QED BY <1>1, <1>8, <2>1, <2>2, SMT
<1>13. BytesOf(c, AllParts(c)) = CmdLen[c] + 2
  <2>1. BytesOf(c, AllParts(c)) = 18 * (l + 1 - 1) + b
    BY <1>1, <1>2, <1>7
  <2> QED BY <1>1, <2>1, SMT
<1> QED BY <1>9, <1>10, <1>11, <1>12, <1>13 DEF bk

-----------------------------------------------------------------------------
(* The link, at the device.                                                *)

(* A packet of the command comes in: what the handler makes of it.         *)
LEMMA ComingHead ==
    ASSUME Types, Receiving, Coming, DeviceReceives
    PROVE  \E k \in AllParts(current) \ ucaRevPackN :
              /\ Head(toDevice) = CommandPacket(current, k)
              /\ PhoneData(CommandPacket(current, k))
              /\ toDevice' = Tail(toDevice)
              /\ \A i \in DOMAIN toDevice' : toDevice'[i].idx > k
              /\ \A i \in DOMAIN toDevice' :
                    \E j \in AllParts(current) \ (ucaRevPackN \union {k}) :
                        toDevice'[i] = CommandPacket(current, j)
              /\ Ascending(toDevice')
              /\ \E ks \in SUBSET (AllParts(current) \ (ucaRevPackN \union {k})) :
                    /\ outbox = CommandPackets(current, ks) /\ (\A j \in ks : k < j)
                    /\ \A i \in DOMAIN toDevice' : \A j \in ks : toDevice'[i].idx < j
<1>1. /\ toDevice \in Seq(Packets) /\ toDevice # <<>>
      /\ PhoneToBle(Head(toDevice)) /\ toDevice' = Tail(toDevice)
  BY DEF DeviceReceives, Types, Phone
<1>2. /\ 1 \in DOMAIN toDevice /\ Head(toDevice) = toDevice[1]
      /\ \A i \in DOMAIN toDevice' : i + 1 \in DOMAIN toDevice /\ toDevice'[i] = toDevice[i + 1]
  BY <1>1, TailAt
<1>3. PICK k \in AllParts(current) \ ucaRevPackN : toDevice[1] = CommandPacket(current, k)
  BY <1>2 DEF Coming
<1>4. current \in Commands /\ SumPackNumber = 0
  BY DEF Receiving, Fresh, Calm
<1>5. CommandPacket(current, k).type = "data" /\ CommandPacket(current, k).idx = k
  BY <1>4, Packet_Facts
<1>6. PhoneData(CommandPacket(current, k))
  BY <1>1, <1>2, <1>3, <1>4, <1>5 DEF PhoneToBle, PhoneReport, PhoneAck, PhoneDataIgnored
<1>7. /\ Ascending(toDevice')
      /\ \A i \in DOMAIN toDevice' : k < toDevice'[i].idx
  <2>1. /\ Ascending(Tail(toDevice))
        /\ \A i \in DOMAIN Tail(toDevice) : Head(toDevice).idx < Tail(toDevice)[i].idx
    BY <1>1, AscendingTail DEF Coming
  <2> QED BY <1>1, <1>2, <1>3, <1>5, <2>1
<1>8. AllParts(current) \subseteq Nat
  BY DEF AllParts
<1>9. \A i \in DOMAIN toDevice' : \E j \in AllParts(current) \ (ucaRevPackN \union {k}) :
                                      toDevice'[i] = CommandPacket(current, j)
  <2> SUFFICES ASSUME NEW i \in DOMAIN toDevice'
               PROVE  \E j \in AllParts(current) \ (ucaRevPackN \union {k}) :
                          toDevice'[i] = CommandPacket(current, j)
    OBVIOUS
  <2>1. PICK j \in AllParts(current) \ ucaRevPackN : toDevice'[i] = CommandPacket(current, j)
    BY <1>2 DEF Coming
  <2>2. CommandPacket(current, j).idx = j
    BY <1>4, Packet_Facts
  <2>3. j # k
    BY <1>7, <1>8, <2>1, <2>2
  <2> QED BY <2>1, <2>3
<1>10. PICK ks \in SUBSET (AllParts(current) \ ucaRevPackN) :
           /\ outbox = CommandPackets(current, ks)
           /\ \A i \in DOMAIN toDevice : \A j \in ks : toDevice[i].idx < j
  BY DEF Coming
<1>11. \A j \in ks : k < j
  BY <1>2, <1>3, <1>5, <1>10
<1>12. ks \in SUBSET (AllParts(current) \ (ucaRevPackN \union {k}))
  <2>1. k \notin ks
    BY <1>8, <1>11
  <2> QED BY <2>1
<1>13. \A i \in DOMAIN toDevice' : \A j \in ks : toDevice'[i].idx < j
  BY <1>2, <1>10
<1>14. \A i \in DOMAIN toDevice' : toDevice'[i].idx > k
  <2> SUFFICES ASSUME NEW i \in DOMAIN toDevice'
               PROVE  toDevice'[i].idx > k
    OBVIOUS
  <2>1. PICK j \in AllParts(current) : toDevice'[i] = CommandPacket(current, j)
    BY <1>9
  <2>2. CommandPacket(current, j).idx = j
    BY <1>4, <2>1, Packet_Facts
  <2> QED BY <1>7, <1>8, <2>1, <2>2
<1> QED BY <1>1, <1>2, <1>3, <1>6, <1>7, <1>9, <1>10, <1>11, <1>12, <1>13, <1>14

(* All of its bytes, with the two of the length.                           *)
LEMMA BytesAll ==
    ASSUME NEW c \in Commands
    PROVE  BytesOf(c, AllParts(c)) = CmdLen[c] + 2
<1> DEFINE l == LastPart(c)
           b == Bytes(CmdLen[c], l)
<1>1. /\ l \in Nat /\ AllParts(c) = 0 .. l /\ l \in AllParts(c)
      /\ b = CmdLen[c] + 2 - l * 18 /\ b \in Nat /\ CmdLen[c] \in Nat
  BY PartBytes
<1>2. Cardinality(AllParts(c)) = l + 1
  <2>1. 0 \in Int /\ l \in Int /\ ~(0 > l)
    BY <1>1
  <2>2. Cardinality(0 .. l) = IF 0 > l THEN 0 ELSE l - 0 + 1
    BY <2>1, FS_Interval
  <2> QED BY <1>1, <2>1, <2>2
<1>3. BytesOf(c, AllParts(c)) = 18 * (Cardinality(AllParts(c)) - 1) + b
  BY <1>1, Sizes DEF BytesOf
<1> QED BY <1>1, <1>2, <1>3

(* When a packet makes a command complete, and what follows.               *)
LEMMA DataLast ==
    ASSUME NEW p, PhoneData(p)
    PROVE  /\ Apdufinsh' = IF ucaPackMsg'.miss = {} THEN 1
                            ELSE IF Apdufinsh = 0 THEN 2 ELSE Apdufinsh
           /\ T_Connect' = (ucaPackMsg'.miss # {})
           /\ IF ucaPackMsg'.miss # {} /\ p.idx = p.total - 1
              THEN ble_txrx_Send(Report(ucaPackMsg'))
              ELSE UNCHANGED radio
<1> DEFINE miss == ucaPackMsg'.miss
           rep  == ble_txrx_Send(Report(ucaPackMsg'))
<1>1. Apdufinsh' = IF miss = {} THEN 1 ELSE IF Apdufinsh = 0 THEN 2 ELSE Apdufinsh
  BY DEF PhoneData
<1>2. T_Connect' = (miss # {})
  BY DEF PhoneData
<1> HIDE DEF miss
<1>3. IF miss # {} /\ p.idx = p.total - 1 THEN rep ELSE UNCHANGED radio
  <2>1. CASE ~(ucaPackMsg'.miss # {})
    <3>1. UNCHANGED radio
      BY <2>1 DEF PhoneData
    <3> QED BY <2>1, <3>1 DEF miss
  <2>2. CASE p.idx # p.total - 1
    <3>1. UNCHANGED radio
      BY <2>2 DEF PhoneData
    <3> QED BY <2>2, <3>1
  <2>3. CASE ucaPackMsg'.miss # {} /\ p.idx = p.total - 1
    <3>1. ble_txrx_Send(Report(ucaPackMsg'))
      BY <2>3 DEF PhoneData
    <3> QED BY <2>3, <3>1 DEF miss
  <2> QED BY <2>1, <2>2, <2>3
<1> QED BY <1>1, <1>2, <1>3 DEF miss

(* The bytes received so far, in 16 bits.                                  *)
LEMMA Received_Bytes ==
    ASSUME Receiving, NEW k \in AllParts(current) \ ucaRevPackN,
           PhoneData(CommandPacket(current, k))
    PROVE  g_apdu_length' = BytesOf(current, ucaRevPackN \union {k})
<1>1. current \in Commands /\ ucaRevPackN \in SUBSET AllParts(current)
  BY DEF Receiving, Fresh
<1>2. CommandPacket(current, k).len = Bytes(CmdLen[current], k)
  BY <1>1, Packet_Facts
<1>3. /\ BytesOf(current, ucaRevPackN) \in Nat /\ BytesOf(current, ucaRevPackN) < 4320
      /\ BytesOf(current, ucaRevPackN \union {k})
            = BytesOf(current, ucaRevPackN) + Bytes(CmdLen[current], k)
      /\ Bytes(CmdLen[current], k) \in Nat /\ Bytes(CmdLen[current], k) <= 18
      /\ BytesOf(current, {k}) = Bytes(CmdLen[current], k)
  BY <1>1, BytesAdd
<1>4. g_apdu_length' = IF Apdufinsh = 0 THEN Bytes(CmdLen[current], k)
                       ELSE (g_apdu_length + Bytes(CmdLen[current], k)) % 65536
  BY <1>2 DEF PhoneData
<1>5. CASE ucaRevPackN = {}
  <2>1. Apdufinsh = 0
    BY <1>5 DEF Receiving
  <2>2. ucaRevPackN \union {k} = {k}
    BY <1>5
  <2> QED BY <1>3, <1>4, <2>1, <2>2
<1>6. CASE ucaRevPackN # {}
  <2>1. Apdufinsh = 2 /\ g_apdu_length = BytesOf(current, ucaRevPackN)
    BY <1>6 DEF Receiving
  <2> HIDE DEF BytesOf, Bytes
  <2>2. BytesOf(current, ucaRevPackN) + Bytes(CmdLen[current], k) < 65536
    BY <1>3
  <2>3. \A m \in Nat : m < 65536 => m % 65536 = m
    BY SMT
  <2>4. BytesOf(current, ucaRevPackN) + Bytes(CmdLen[current], k) \in Nat
    BY <1>3
  <2> QED BY <1>3, <1>4, <2>1, <2>2, <2>3, <2>4
<1> QED BY <1>5, <1>6

(* The device takes a packet of the command: it goes on receiving, or has  *)
(* the whole command.                                                      *)
LEMMA Receiving_Receives ==
    ASSUME General, Linked, Receiving, Coming, DeviceReceives
    PROVE  Receiving' \/ Whole'
<1>1. PICK k \in AllParts(current) \ ucaRevPackN :
              /\ Head(toDevice) = CommandPacket(current, k)
              /\ PhoneData(CommandPacket(current, k))
              /\ toDevice' = Tail(toDevice)
              /\ \A i \in DOMAIN toDevice' : toDevice'[i].idx > k
              /\ \A i \in DOMAIN toDevice' :
                    \E j \in AllParts(current) \ (ucaRevPackN \union {k}) :
                        toDevice'[i] = CommandPacket(current, j)
              /\ Ascending(toDevice')
              /\ \E ks \in SUBSET (AllParts(current) \ (ucaRevPackN \union {k})) :
                    /\ outbox = CommandPackets(current, ks) /\ (\A j \in ks : k < j)
                    /\ \A i \in DOMAIN toDevice' : \A j \in ks : toDevice'[i].idx < j
  BY ComingHead DEF General
<1>2. PICK ks \in SUBSET (AllParts(current) \ (ucaRevPackN \union {k})) :
              /\ outbox = CommandPackets(current, ks) /\ (\A j \in ks : k < j)
              /\ \A i \in DOMAIN toDevice' : \A j \in ks : toDevice'[i].idx < j
  BY <1>1
<1> DEFINE P   == Parts(CmdLen[current])
           rev == ucaRevPackN \union {k}
<1>3. /\ current \in Commands /\ ucaRevPackN \in SUBSET AllParts(current)
      /\ Calm /\ stm32.cmd = 0 /\ ucResend = 0 /\ total = 0
      /\ Between /\ blueRecivSendflag = "NOdata" /\ toPhone = <<>>
      /\ \A j \in ucaRevPackN : g_apdu[j] = CmdToken(current, FALSE)
  BY DEF Receiving, Fresh, Coming
<1>4. /\ CommandPacket(current, k).idx = k /\ CommandPacket(current, k).total = P
      /\ CommandPacket(current, k).token = CmdToken(current, FALSE)
  BY <1>3, Packet_Facts
<1>5. /\ Recivedataflag' = 1
      /\ g_apdu' = [g_apdu EXCEPT ![k] = CmdToken(current, FALSE)]
      /\ ucaRevPackN' = rev
      /\ ucaPackMsg' = MissedPackN(P, rev)
      /\ Apdufinsh' = IF ucaPackMsg'.miss = {} THEN 1 ELSE IF Apdufinsh = 0 THEN 2 ELSE Apdufinsh
      /\ T_Connect' = (ucaPackMsg'.miss # {})
      /\ UNCHANGED <<Ble_ConnnectFlag, blueRecivSendflag, ucResend, lr, SumPackNumber,
                     Sendlenth, stm32, pc>>
      /\ IF ucaPackMsg'.miss # {} /\ k = P - 1
         THEN ble_txrx_Send(Report(ucaPackMsg'))
         ELSE UNCHANGED radio
  <2> DEFINE p == CommandPacket(current, k)
  <2>1. PhoneData(p) /\ p.idx = k /\ p.total = P /\ p.token = CmdToken(current, FALSE)
    BY <1>1, <1>4
  <2>2. ucaRevPackN \union {k} = rev
    BY DEF rev
  <2> HIDE DEF p, P, rev
  <2>3. /\ Recivedataflag' = 1
        /\ g_apdu' = [g_apdu EXCEPT ![k] = CmdToken(current, FALSE)]
        /\ ucaRevPackN' = rev
        /\ ucaPackMsg' = MissedPackN(P, rev)
    <3>1. ucaRevPackN' = ucaRevPackN \union {p.idx} /\ Recivedataflag' = 1
          /\ g_apdu' = [g_apdu EXCEPT ![p.idx] = p.token]
          /\ ucaPackMsg' = MissedPackN(p.total, ucaRevPackN')
      BY <2>1 DEF PhoneData
    <3> QED BY <2>1, <2>2, <3>1
  <2>6. /\ UNCHANGED <<Ble_ConnnectFlag, blueRecivSendflag, ucResend, lr, SumPackNumber,
                       Sendlenth, stm32, pc>>
    BY <2>1 DEF PhoneData, tx, command
  <2>4. /\ Apdufinsh' = IF ucaPackMsg'.miss = {} THEN 1
                         ELSE IF Apdufinsh = 0 THEN 2 ELSE Apdufinsh
        /\ T_Connect' = (ucaPackMsg'.miss # {})
    BY <2>1, DataLast
  <2>5. IF ucaPackMsg'.miss # {} /\ k = P - 1
        THEN ble_txrx_Send(Report(ucaPackMsg'))
        ELSE UNCHANGED radio
    BY <2>1, DataLast
  <2> QED BY <2>3, <2>4, <2>5, <2>6
<1>6. UNCHANGED <<outbox, current, want, total, unseen>>
  BY DEF DeviceReceives
<1>7. g_apdu_length' = BytesOf(current, rev)
  BY <1>1, Received_Bytes
<1>8. ucaPackMsg'.miss = AllParts(current) \ rev
  BY <1>5 DEF MissedPackN, AllParts, P
<1>9. \A j \in rev : g_apdu'[j] = CmdToken(current, FALSE)
  <2>1. g_apdu \in [Part -> Tokens] /\ AllParts(current) \subseteq Part
    BY <1>3, CommandFits DEF General, Types, Buffers
  <2>2. g_apdu'[k] = CmdToken(current, FALSE) /\ \A j \in Part \ {k} : g_apdu'[j] = g_apdu[j]
    BY <1>5, <2>1
  <2> QED BY <1>3, <2>1, <2>2
<1>10. Fresh' /\ Between' /\ blueRecivSendflag' = "NOdata"
  BY <1>3, <1>5, <1>6 DEF Fresh, Calm, Between
<1>11. toDevice \in Seq(Packets) /\ toDevice # <<>> /\ toDevice' \in Seq(Packets)
  BY <1>1 DEF General, Types, Phone, DeviceReceives
<1>12. rev \in SUBSET AllParts(current) /\ rev # {}
  BY <1>3
<1>13. CASE rev = AllParts(current)
  <2>1. Apdufinsh' = 1 /\ UNCHANGED toPhone
    BY <1>5, <1>8, <1>13 DEF radio
  <2>2. DOMAIN toDevice' = {} /\ ks = {}
    BY <1>1, <1>13
  <2>3. toDevice' = <<>>
    BY <1>11, <2>2
  <2>4. outbox' = <<>>
    BY <1>2, <1>6, <2>2 DEF CommandPackets
  <2>5. g_apdu_length' = CmdLen[current] + 2
    <3>1. BytesOf(current, AllParts(current)) = CmdLen[current] + 2
      BY <1>3, BytesAll
    <3> QED BY <1>7, <1>13, <3>1
  <2>6. LinkQuiet'
    BY <1>3, <2>1, <2>3, <2>4 DEF LinkQuiet
  <2>7. \A j \in AllParts(current') : g_apdu'[j] = CmdToken(current', FALSE)
    BY <1>6, <1>9, <1>13
  <2>8. g_apdu_length' = CmdLen[current'] + 2
    BY <1>6, <2>5
  <2> QED BY <1>5, <1>10, <2>1, <2>6, <2>7, <2>8 DEF Whole
<1>14. CASE rev # AllParts(current)
  <2>1. ucaPackMsg'.miss # {} /\ T_Connect'
    BY <1>5, <1>8, <1>12, <1>14
  <2>2. Apdufinsh' = 2
    <3>1. Apdufinsh = 0 \/ Apdufinsh = 2
      BY DEF Receiving
    <3> QED BY <1>5, <2>1, <3>1
  <2>3. Coming' \/ Reported'
    <3>1. ASSUME UNCHANGED toPhone
          PROVE  Coming'
      <4>1. toPhone' = <<>> /\ Ascending(toDevice)'
        BY <1>1, <1>3, <3>1 DEF Ascending
      <4>2. \A i \in DOMAIN toDevice' :
               \E j \in AllParts(current') \ ucaRevPackN' : toDevice'[i] = CommandPacket(current', j)
        BY <1>1, <1>5, <1>6
      <4>3. \E js \in SUBSET (AllParts(current') \ ucaRevPackN') :
               /\ outbox' = CommandPackets(current', js)
               /\ \A i \in DOMAIN toDevice' : \A j \in js : toDevice'[i].idx < j
        BY <1>2, <1>5, <1>6
      <4> QED BY <4>1, <4>2, <4>3 DEF Coming
    <3>2. ASSUME ~(UNCHANGED toPhone)
          PROVE  Reported'
      <4>1. k = P - 1 /\ toPhone' = Append(toPhone, Report(ucaPackMsg'))
        BY <1>5, <3>2 DEF radio, ble_txrx_Send
      <4>2. toPhone' = << Report(ucaPackMsg') >>
        BY <1>3, <4>1
      <4>3. \A j \in AllParts(current) : ~(k < j)
        BY <1>3, <4>1, CommandFits DEF AllParts
      <4>4. ks = {}
        BY <1>2, <4>3
      <4>5. \A i \in DOMAIN toDevice' : FALSE
        <5> SUFFICES ASSUME NEW i \in DOMAIN toDevice' PROVE FALSE
          OBVIOUS
        <5>1. PICK j \in AllParts(current) : toDevice'[i] = CommandPacket(current, j)
          BY <1>1
        <5>2. CommandPacket(current, j).idx = j
          BY <1>3, <5>1, Packet_Facts
        <5>3. j \in Nat /\ k \in Nat /\ j > k
          BY <1>1, <5>1, <5>2 DEF AllParts
        <5> QED BY <4>3, <5>1, <5>3
      <4>6. toDevice' = <<>>
        <5>1. DOMAIN toDevice' = {}
          BY <4>5
        <5> QED BY <1>11, <5>1
      <4>7. outbox' = <<>>
        BY <1>2, <1>6, <4>4 DEF CommandPackets
      <4> QED BY <1>5, <4>2, <4>6, <4>7 DEF Reported
    <3> QED BY <3>1, <3>2
  <2>4. want' = 0 => ~Ble_ConnnectFlag' /\ unseen'
    BY <1>5, <1>6 DEF Receiving
  <2>5. \A j \in ucaRevPackN' : g_apdu'[j] = CmdToken(current', FALSE)
    BY <1>5, <1>6, <1>9
  <2>6. ucaRevPackN' \in SUBSET AllParts(current') /\ ucaRevPackN' # AllParts(current')
        /\ ucaRevPackN' # {}
    BY <1>5, <1>6, <1>12, <1>14
  <2>7. /\ g_apdu_length' = BytesOf(current', ucaRevPackN')
        /\ ucaPackMsg' = MissedPackN(Parts(CmdLen[current']), ucaRevPackN')
    BY <1>5, <1>6, <1>7
  <2> QED BY <1>10, <2>1, <2>2, <2>3, <2>4, <2>5, <2>6, <2>7 DEF Receiving
<1> QED BY <1>13, <1>14

(* What the phone misses of a reply: its numbers, and the bitmap's length. *)
LEMMA Lacking_Is ==
    ASSUME Types, total # 0, total <= 120
    PROVE  /\ Lacking.type = "missing" /\ Lacking \in Requests
           /\ Lacking.msg.miss = (0 .. total - 1) \ DOMAIN got
           /\ Lacking.msg.len \in Nat /\ (Lacking.msg.len - 1) * 8 <= 120
           /\ \A k \in Lacking.msg.miss : k < (Lacking.msg.len - 1) * 8
<1> DEFINE left == (0 .. total - 1) \ DOMAIN got
<1>1. total \in Indices /\ left # {} /\ left \in SUBSET (0 .. total - 1)
  BY DEF Types, Phone
<1>2. total \in Nat /\ total - 1 \in Nat /\ total - 1 < 120
  BY <1>1, SMT DEF Indices
<1>3. Max(left) \in left /\ \A y \in left : Max(left) >= y
  BY <1>1, <1>2, GreatestIn
<1>4. Lacking = [type |-> "missing", msg |-> [len |-> 2 + Max(left) \div 8, miss |-> left]]
  BY DEF Lacking, MissingPacket
<1>5. Lacking \in Requests
  BY <1>1, Missing_Types DEF Lacking
<1> HIDE DEF left
<1>6. Max(left) \in Nat /\ Max(left) < 120 /\ \A y \in left : y \in Nat /\ y <= Max(left)
  <2>1. left \subseteq 0 .. total - 1
    BY <1>1
  <2>2. \A y \in left : y \in Nat /\ y <= total - 1
    BY <1>2, <2>1
  <2>3. \A y \in left : y <= Max(left)
    BY <1>3, <2>2
  <2> QED BY <1>2, <1>3, <2>2, <2>3
<1> DEFINE m == Max(left)
           w == 2 + m \div 8
<1>8. Lacking.type = "missing" /\ Lacking.msg.miss = left /\ Lacking.msg.len = w
  BY <1>4 DEF m
<1> HIDE DEF m
<1>7. w \in Nat /\ (w - 1) * 8 <= 120 /\ \A y \in Nat : y <= m => y < (w - 1) * 8
  <2>1. m \in Nat /\ m < 120
    BY <1>6 DEF m
  <2> QED BY <2>1, SMT
<1> HIDE DEF w
<1>9. \A y \in left : y < (Lacking.msg.len - 1) * 8
  BY <1>6, <1>7, <1>8 DEF m
<1>10. Lacking.msg.len \in Nat /\ (Lacking.msg.len - 1) * 8 <= 120
  BY <1>7, <1>8
<1>11. Lacking.msg.miss = (0 .. total - 1) \ DOMAIN got
  BY <1>8 DEF left
<1> QED BY <1>5, <1>8, <1>9, <1>10, <1>11

(* The phone's report comes in: a round of retransmission is under way.    *)
LEMMA Asks_Received ==
    ASSUME General, Linked, Timely, NEW c \in Commands, NEW n \in 1 .. Len(ReplyLen[c]),
           Replying(c, n), Waiting(c, n), Asks, DeviceReceives
    PROVE  Timely'
<1>1. /\ toDevice = << Lacking >> /\ outbox = <<>> /\ toPhone = <<>> /\ total # 0
      /\ ucResend = 1 => AtLast
  <2>1. toDevice # <<>>
    BY DEF DeviceReceives
  <2> QED BY <2>1 DEF Asks, OnItsWay
<1>2. /\ PartsIn(c, n) \in Nat /\ PartsIn(c, n) >= 1 /\ PartsIn(c, n) <= 120
  BY ReplySizes
<1>3. /\ lr = 0 /\ SumPackNumber = PartsIn(c, n) /\ Sendlenth = ReplyLen[c][n]
      /\ blueRecivSendflag = "NOdata" /\ Awaited(c, n)
  BY <1>1 DEF Waiting
<1>4. total = PartsIn(c, n) /\ want # 0
  BY <1>1, <1>3 DEF Timely, Awaits, Awaited
<1>5. /\ Lacking.type = "missing"
      /\ Lacking.msg.miss = (0 .. total - 1) \ DOMAIN got
      /\ (Lacking.msg.len - 1) * 8 <= 120
  BY <1>1, <1>2, <1>4, Lacking_Is DEF General
<1>6. Head(toDevice) = Lacking /\ Tail(toDevice) = <<>>
  BY <1>1
<1>7. PhoneReport(Lacking)
  <2>1. PhoneToBle(Lacking)
    BY <1>6 DEF DeviceReceives
  <2> QED BY <1>5, <2>1 DEF PhoneToBle, PhoneAck, PhoneDataIgnored, PhoneData
<1>8. /\ ucReTry' = 0 /\ ucaPackMsg' = Lacking.msg /\ ucResend' = 1
      /\ UNCHANGED <<lr, SumPackNumber, Sendlenth, blueRecivSendflag, toPhone, remberPackn, pc>>
      /\ UNCHANGED <<Apdufinsh, ucaRevPackN, g_apdu, CMD09_oldlabel, stm32, uart_waitack_flag>>
  <2>1. SumPackNumber # 0
    BY <1>2, <1>3
  <2> QED BY <1>7, <2>1 DEF PhoneReport, apdu, command, radio
<1>9. /\ toDevice' = <<>> /\ outbox' = <<>> /\ toPhone' = <<>>
      /\ UNCHANGED <<want, got, total, current, answers>>
  BY <1>1, <1>6, <1>8 DEF DeviceReceives
<1>10. Outgoing(c, n)' /\ DOMAIN toPhone' = {}
  <2>1. DOMAIN toPhone' = {}
    BY <1>9
  <2> QED BY <1>9, <2>1 DEF Outgoing, Ascending
<1>11. Round(c, n)'
  <2>1. SUFFICES ASSUME ~AtLast'
                 PROVE  Round(c, n)'
    BY DEF Round
  <2>2. ~AtLast
    BY <1>8, <2>1 DEF AtLast
  <2>3. pc' # "remember_sent"
    BY <1>1, <1>8, <2>2 DEF Linked, General, Types, Scalars
  <2>4. /\ ucaPackMsg'.miss = (0 .. PartsIn(c, n) - 1) \ DOMAIN got'
        /\ Bits' <= 120
    <3>1. Bits' = (Lacking.msg.len - 1) * 8
      BY <1>8 DEF Bits
    <3> QED BY <1>4, <1>5, <1>8, <1>9, <3>1
  <2>5. Ahead' \subseteq ucaPackMsg'.miss
    BY DEF Ahead
  <2> QED BY <1>10, <2>3, <2>4, <2>5 DEF Round
<1>12. Awaited(c, n)'
  BY <1>3, <1>9 DEF Awaited
<1>13. Waiting(c, n)'
  BY <1>3, <1>8, <1>10, <1>11, <1>12 DEF Waiting
<1>14. Place'
  <2>1. Between'
    BY <1>8 DEF Replying, Cleaned, Between
  <2> QED BY <1>8, <1>13, <2>1, SameReply
<1>15. Stm32Works'
  <2>1. stm32.cmd # 0 => stm32.next = n + 1
    BY DEF Replying
  <2>2. stm32.cmd # 0 => stm32.next # 1
    BY <2>1
  <2> QED BY <1>8, <1>9, <2>2 DEF Timely, Stm32Works
<1>16. Awaits' /\ Answers'
  BY <1>8, <1>9 DEF Timely, Awaits, Answers
<1> QED BY <1>8, <1>14, <1>15, <1>16 DEF Timely

(* The phone's acknowledgement comes in: the device rests.                 *)
LEMMA Acks_Received ==
    ASSUME General, Linked, Timely, NEW c \in Commands, NEW n \in 1 .. Len(ReplyLen[c]),
           Replying(c, n), Waiting(c, n), Acks, DeviceReceives
    PROVE  Timely'
<1>1. /\ toDevice = << AckPacket >> /\ outbox = <<>> /\ toPhone = <<>> /\ total = 0
      /\ stm32.cmd # 0 => want = stm32.next
  <2>1. toDevice # <<>>
    BY DEF DeviceReceives
  <2> QED BY <2>1 DEF Acks, OnItsWay
<1>2. SumPackNumber # 0 /\ blueRecivSendflag = "NOdata"
  <2>1. PartsIn(c, n) # 0
    BY ReplySizes, SMT
  <2> QED BY <2>1 DEF Waiting
<1>3. Head(toDevice) = AckPacket /\ Tail(toDevice) = <<>>
  BY <1>1
<1>4. PhoneAck(AckPacket)
  <2>1. PhoneToBle(AckPacket)
    BY <1>3 DEF DeviceReceives
  <2>2. AckPacket.type = "ack"
    BY DEF AckPacket
  <2> QED BY <2>1, <2>2 DEF PhoneToBle, PhoneReport, PhoneDataIgnored, PhoneData
<1>5. /\ ucReTry' = 0 /\ ucaPackMsg' = Cleared /\ ucaRevPackN' = {}
      /\ SumPackNumber' = 0 /\ Sendlenth' = 0 /\ lr' = 0
      /\ uart_waitack_flag' = IF uart_waitack_flag = 1 THEN 2 ELSE uart_waitack_flag
      /\ UNCHANGED <<blueRecivSendflag, toPhone, remberPackn, pc, ucResend>>
      /\ UNCHANGED <<Apdufinsh, g_apdu, CMD09_oldlabel, stm32>>
  BY <1>2, <1>4 DEF PhoneAck, reply_done, apdu, radio
<1>6. /\ toDevice' = <<>> /\ outbox' = <<>> /\ toPhone' = <<>>
      /\ UNCHANGED <<want, got, total, current, answers>>
  BY <1>1, <1>3, <1>5 DEF DeviceReceives
<1>7. stm32'.cmd # 0 => stm32'.next > 1 /\ uart_waitack_flag' = 2
  <2>1. stm32.cmd # 0 => stm32.next = n + 1 /\ uart_waitack_flag = 1
    BY DEF Replying
  <2> QED BY <1>5, <2>1
<1>8. Resting'
  <2>1. Cleaned'
    BY <1>5 DEF Replying, Cleaned, Between
  <2>2. LinkQuiet' /\ Calm'
    BY <1>5, <1>6 DEF LinkQuiet, Calm
  <2>3. CutOff'
    BY <1>5, <1>7 DEF CutOff
  <2> QED BY <1>2, <1>5, <2>1, <2>2, <2>3 DEF Resting
<1>9. Stm32Works'
  <2>1. /\ stm32'.cmd # 0 =>
              /\ want' = stm32'.next /\ total' = 0
              /\ stm32'.next # 1
    BY <1>1, <1>5, <1>6, <1>7
  <2> QED BY <1>5, <1>6, <2>1 DEF Timely, Stm32Works
<1>10. Awaits' /\ Answers'
  BY <1>5, <1>6 DEF Timely, Awaits, Answers
<1> QED BY <1>5, <1>8, <1>9, <1>10 DEF Timely, Place

(* Where a packet of the phone is on its way.                              *)
LEMMA WhereOnLink ==
    ASSUME Place, toDevice # <<>>
    PROVE  \/ Receiving /\ Coming
           \/ \E c \in Commands : \E n \in 1 .. Len(ReplyLen[c]) :
                 Replying(c, n) /\ Waiting(c, n) /\ (Asks \/ Acks)
<1>1. ~LinkQuiet /\ ~Reported /\ \A c, n : ~Outgoing(c, n)
  BY DEF LinkQuiet, Reported, Outgoing
<1>2. CASE Resting \/ Whole \/ ToWork
  BY <1>1, <1>2 DEF Resting, Whole, ToWork
<1>3. CASE Receiving
  BY <1>1, <1>3 DEF Receiving
<1>4. ASSUME NEW c \in Commands, NEW n \in 1 .. Len(ReplyLen[c]), Replying(c, n)
      PROVE  Waiting(c, n) /\ (Asks \/ Acks)
  <2>1. ~Queued(c, n) /\ ~Taken(c, n) /\ \A k : ~Sending(c, n, k)
    BY <1>1 DEF Queued, Taken, Sending
  <2> QED BY <1>1, <1>4, <2>1 DEF Replying, Waiting
<1> QED BY <1>2, <1>3, <1>4 DEF Place

(* The device takes the phone's next packet.                               *)
LEMMA DeviceReceives_Timely ==
    ASSUME General, Linked, Timely, session.timely, DeviceReceives
    PROVE  Timely'
<1>1. CASE Receiving /\ Coming
  <2>1. Place'
    BY <1>1, Receiving_Receives DEF Place
  <2>2. PICK k \in AllParts(current) : PhoneData(CommandPacket(current, k))
    BY <1>1, ComingHead DEF General
  <2>3. UNCHANGED <<want, got, total, current, answers, CMD09_oldlabel, pc, SumPackNumber,
                    stm32>>
    BY <2>2 DEF PhoneData, DeviceReceives, tx, command
  <2>4. stm32'.cmd = 0
    BY <1>1, <2>3 DEF Receiving, Fresh
  <2>5. Stm32Works' /\ Awaits' /\ Answers'
    BY <2>3, <2>4 DEF Timely, Stm32Works, Awaits, Answers
  <2> QED BY <2>1, <2>3, <2>5 DEF Timely
<1>2. ASSUME NEW c \in Commands, NEW n \in 1 .. Len(ReplyLen[c]),
             Replying(c, n), Waiting(c, n), Asks \/ Acks
      PROVE  Timely'
  BY <1>2, Asks_Received, Acks_Received
<1>3. Place /\ toDevice # <<>>
  BY DEF Timely, DeviceReceives
<1> QED BY <1>1, <1>2, <1>3, WhereOnLink

-----------------------------------------------------------------------------
(* The link, at the phone.                                                 *)

(* The phone takes the device's report: what it missed comes again.        *)
LEMMA PhoneGetsReport_Timely ==
    ASSUME General, Linked, Timely, session.timely, PhoneGetsReport
    PROVE  Timely'
<1>1. /\ toPhone # <<>> /\ Head(toPhone).type = "report" /\ toPhone' = Tail(toPhone)
      /\ UNCHANGED <<lr, SumPackNumber, Sendlenth, stm32, ucResend, pc, blueRecivSendflag,
                     ucaRevPackN, Apdufinsh, ucReTry, g_apdu, g_apdu_length, ucaPackMsg,
                     T_Connect, want, total, current, Ble_ConnnectFlag, unseen>>
      /\ UNCHANGED <<got, answers, CMD09_oldlabel, uart_waitack_flag, toDevice>>
      /\ toPhone \in Seq(Notes)
  BY DEF PhoneGetsReport, apdu, rx, both, tx, command, General, Types, Buffers
<1>2. ~LinkQuiet /\ 1 \in DOMAIN toPhone /\ Head(toPhone) = toPhone[1]
  BY <1>1, TailAt DEF LinkQuiet
<1>3. \A c, n : ~Outgoing(c, n)
  <2> SUFFICES ASSUME NEW c, NEW n, Outgoing(c, n)
               PROVE  FALSE
    OBVIOUS
  <2>1. PICK k \in 0 .. PartsIn(c, n) - 1 : toPhone[1] = Notified(c, n, k)
    BY <1>2 DEF Outgoing
  <2> QED BY <1>1, <1>2, <2>1 DEF Notified, Data
<1>4. ASSUME NEW c \in Commands, NEW n \in 1 .. Len(ReplyLen[c]), Replying(c, n)
      PROVE  FALSE
  <2>1. ~Queued(c, n) /\ ~Taken(c, n) /\ \A k : ~Sending(c, n, k)
    BY <1>2, <1>3 DEF Queued, Taken, Sending
  <2>2. ~Waiting(c, n)
    BY <1>1, <1>3 DEF Waiting, Asks, Acks, OnItsWay
  <2> QED BY <1>4, <2>1, <2>2 DEF Replying
<1>5. Receiving
  <2>1. ~Resting /\ ~Whole /\ ~ToWork
    BY <1>2 DEF Resting, Whole, ToWork
  <2> QED BY <1>4, <2>1 DEF Timely, Place
<1>6. Reported
  BY <1>1, <1>5 DEF Receiving, Coming
<1>7. want # 0 /\ current \in Commands
  BY <1>2, <1>5 DEF Linked, Receiving, Fresh
<1>8. Head(toPhone).miss = AllParts(current) \ ucaRevPackN /\ toPhone' = <<>>
  <2>1. Head(toPhone) = Report(ucaPackMsg) /\ toPhone' = <<>>
    BY <1>1, <1>6 DEF Reported
  <2>2. ucaPackMsg.miss = AllParts(current) \ ucaRevPackN
    BY <1>5, <1>6 DEF Receiving, Reported, MissedPackN, AllParts
  <2> QED BY <2>1, <2>2 DEF Report
<1>9. outbox' = CommandPackets(current, AllParts(current) \ ucaRevPackN)
  <2>1. outbox' = <<>> \o CommandPackets(current,
                              Head(toPhone).miss \intersect AllParts(current))
    BY <1>6, <1>7 DEF PhoneGetsReport, Reported
  <2>2. Head(toPhone).miss \intersect AllParts(current) = AllParts(current) \ ucaRevPackN
    BY <1>8
  <2>3. CommandPackets(current, AllParts(current) \ ucaRevPackN) \in Seq(Tasks)
    BY <1>7, Jobs_Types
  <2>4. outbox' = <<>> \o CommandPackets(current, AllParts(current) \ ucaRevPackN)
    BY <2>1, <2>2, Zenon
  <2> QED BY <2>3, <2>4
<1>10. Coming'
  <2>1. toPhone' = <<>> /\ toDevice' = <<>> /\ DOMAIN toDevice' = {}
    BY <1>1, <1>6, <1>8 DEF Reported
  <2>2. Ascending(toDevice)'
    BY <2>1 DEF Ascending
  <2>3. outbox' = CommandPackets(current', AllParts(current') \ ucaRevPackN')
    BY <1>1, <1>9
  <2>4. AllParts(current') \ ucaRevPackN' \in SUBSET (AllParts(current') \ ucaRevPackN')
    OBVIOUS
  <2>5. \E ks \in SUBSET (AllParts(current') \ ucaRevPackN') :
           /\ outbox' = CommandPackets(current', ks)
           /\ \A i \in DOMAIN toDevice' : \A k \in ks : toDevice'[i].idx < k
    BY <2>1, <2>3, <2>4
  <2>6. \A i \in DOMAIN toDevice' :
           \E k \in AllParts(current') \ ucaRevPackN' : toDevice'[i] = CommandPacket(current', k)
    BY <2>1
  <2> QED BY <2>1, <2>2, <2>5, <2>6 DEF Coming
<1>11. T_Connect \/ ucaRevPackN = {}
  BY <1>2, <1>5 DEF Receiving
<1>12. Receiving'
  BY <1>1, <1>5, <1>10, <1>11, SameReceiving
<1>13. Stm32Works' /\ Awaits' /\ Answers'
  BY <1>1, SamePhone
<1> QED BY <1>1, <1>12, <1>13 DEF Timely, Place

(* What the phone has with packet j of reply n.                            *)
WithPart(c, n, j) == [k \in {j} \union DOMAIN got |-> IF k = j THEN RspToken(c, c, n) ELSE got[k]]
StillLacks(c, n, j) == (0 .. PartsIn(c, n) - 1) \ ({j} \union DOMAIN got)

(* The first notification of a reply that is out, and those behind it.     *)
LEMMA OutgoingHead ==
    ASSUME Types, NEW c \in Commands, NEW n \in 1 .. Len(ReplyLen[c]), Outgoing(c, n),
           toPhone # <<>>, toPhone' = Tail(toPhone)
    PROVE  \E j \in 0 .. PartsIn(c, n) - 1 :
              /\ Head(toPhone) = Notified(c, n, j) /\ j \notin DOMAIN got
              /\ \E i \in DOMAIN toPhone : toPhone[i].idx = j
              /\ toPhone' \in Seq(Notes) /\ Ascending(toPhone)'
              /\ \A i \in DOMAIN toPhone' :
                    /\ i + 1 \in DOMAIN toPhone /\ toPhone'[i] = toPhone[i + 1]
                    /\ \E k \in 0 .. PartsIn(c, n) - 1 :
                          toPhone'[i] = Notified(c, n, k) /\ k \notin DOMAIN got /\ k > j
<1>1. toPhone \in Seq(Notes)
  BY DEF Types, Buffers
<1>2. /\ 1 \in DOMAIN toPhone /\ Head(toPhone) = toPhone[1] /\ toPhone' \in Seq(Notes)
      /\ \A i \in DOMAIN toPhone' : i + 1 \in DOMAIN toPhone /\ toPhone'[i] = toPhone[i + 1]
  BY <1>1, TailAt
<1>3. PICK j \in 0 .. PartsIn(c, n) - 1 : toPhone[1] = Notified(c, n, j) /\ j \notin DOMAIN got
  BY <1>2 DEF Outgoing
<1>4. /\ Ascending(Tail(toPhone))
      /\ \A i \in DOMAIN Tail(toPhone) : Head(toPhone).idx < Tail(toPhone)[i].idx
  BY <1>1, AscendingTail DEF Outgoing
<1>5. \A k : Notified(c, n, k).idx = k
  BY DEF Notified, Data
<1>6. ASSUME NEW i \in DOMAIN toPhone'
      PROVE  \E k \in 0 .. PartsIn(c, n) - 1 :
                toPhone'[i] = Notified(c, n, k) /\ k \notin DOMAIN got /\ k > j
  <2>1. PICK k \in 0 .. PartsIn(c, n) - 1 : toPhone'[i] = Notified(c, n, k) /\ k \notin DOMAIN got
    BY <1>2, <1>6 DEF Outgoing
  <2>2. j < k
    BY <1>2, <1>3, <1>4, <1>5, <1>6, <2>1
  <2> QED BY <2>1, <2>2
<1>7. Ascending(toPhone)'
  BY <1>4 DEF Ascending
<1> QED BY <1>2, <1>3, <1>5, <1>6, <1>7

(* What the phone makes of it.                                             *)
LEMMA DataTaken ==
    ASSUME NEW c \in Commands, NEW n \in 1 .. Len(ReplyLen[c]),
           NEW j \in 0 .. PartsIn(c, n) - 1, Head(toPhone) = Notified(c, n, j),
           PhoneGetsData
    PROVE  /\ want = 0 => UNCHANGED <<outbox, want, got, total, answers>>
           /\ want # 0 /\ StillLacks(c, n, j) = {} =>
                 /\ outbox' = Append(outbox, AckPacket)
                 /\ answers' = [answers EXCEPT ![current] = Append(@, WithPart(c, n, j))]
                 /\ got' = <<>> /\ total' = 0
                 /\ want' = IF want < Len(ReplyLen[current]) THEN want + 1 ELSE 0
           /\ want # 0 /\ ~(StillLacks(c, n, j) = {}) =>
                 /\ got' = WithPart(c, n, j) /\ total' = PartsIn(c, n)
                 /\ outbox' = IF j = PartsIn(c, n) - 1
                              THEN Append(outbox, MissingPacket(PartsIn(c, n), StillLacks(c, n, j)))
                              ELSE outbox
                 /\ UNCHANGED <<want, answers>>
<1> DEFINE p    == Head(toPhone)
           now  == [k \in {p.idx} \union DOMAIN got |-> IF k = p.idx THEN p.token ELSE got[k]]
           all  == 0 .. p.total - 1
           left == all \ DOMAIN now
<1>1. p.idx = j /\ p.total = PartsIn(c, n) /\ p.token = RspToken(c, c, n)
  BY DEF Notified, Data
<1>2. now = WithPart(c, n, j) /\ left = StillLacks(c, n, j) /\ p.idx \in all
  BY <1>1 DEF WithPart, StillLacks
<1>3. IF want = 0 \/ p.idx \notin all
      THEN UNCHANGED <<outbox, want, got, total, answers>>
      ELSE IF left = {}
      THEN /\ outbox' = Append(outbox, AckPacket)
           /\ answers' = [answers EXCEPT ![current] = Append(@, now)]
           /\ got' = <<>> /\ total' = 0
           /\ want' = IF want < Len(ReplyLen[current]) THEN want + 1 ELSE 0
      ELSE /\ got' = now /\ total' = p.total
           /\ outbox' = IF p.idx = p.total - 1
                        THEN Append(outbox, MissingPacket(p.total, left)) ELSE outbox
           /\ UNCHANGED <<want, answers>>
  BY DEF PhoneGetsData
<1> HIDE DEF p, now, all, left
<1>4. CASE want = 0
  BY <1>3, <1>4
<1>5. CASE want # 0 /\ left = {}
  BY <1>1, <1>2, <1>3, <1>5
<1>6. CASE want # 0 /\ ~(left = {})
  BY <1>1, <1>2, <1>3, <1>6
<1> QED BY <1>2, <1>4, <1>5, <1>6

(* The phone has a packet more of the reply it waits for.                  *)
LEMMA Awaits_More ==
    ASSUME Timely, NEW c \in Commands, NEW n \in 1 .. Len(ReplyLen[c]), Replying(c, n),
           NEW j \in 0 .. PartsIn(c, n) - 1, Awaited(c, n), want # 0,
           got' = WithPart(c, n, j), total' = PartsIn(c, n),
           UNCHANGED <<want, answers, current, CMD09_oldlabel, stm32, g_apdu,
                       uart_waitack_flag, ucResend>>
    PROVE  Stm32Works' /\ Awaits' /\ Answers'
<1>1. c = current /\ n = want
  BY DEF Awaited
<1>2. PartsIn(c, n) # 0 /\ \A k \in 0 .. PartsIn(c, n) - 1 : k < PartsIn(c, n)
  BY ReplySizes
<1>3. DOMAIN got' = {j} \union DOMAIN got /\ got'[j] = RspToken(c, c, n)
      /\ \A k \in DOMAIN got \ {j} : got'[k] = got[k]
  BY DEF WithPart
<1>4. \A k \in DOMAIN got : k < PartsIn(c, n) /\ got[k] = RspToken(c, c, n)
  BY <1>1 DEF Timely, Awaits
<1>5. \A k \in DOMAIN got' : k < PartsIn(c, n) /\ got'[k] = RspToken(c, c, n)
  BY <1>2, <1>3, <1>4
<1>6. Awaits'
  <2>1. /\ want' # 0 => /\ want' \in 1 .. Len(ReplyLen[current'])
                        /\ Len(answers'[current']) = want' - 1
                        /\ want' > 1 => CMD09_oldlabel' = current'
    BY DEF Timely, Awaits
  <2>2. total' = PartsIn(current', want') /\ want' # 0
    BY <1>1 DEF PartsIn
  <2>3. total' # 0
    BY <1>2
  <2>4. \A k \in DOMAIN got' : k < total' /\ got'[k] = RspToken(current', current', want')
    BY <1>1, <1>5
  <2> QED BY <2>1, <2>2, <2>3, <2>4 DEF Awaits, PartsIn
<1>7. Answers'
  BY DEF Timely, Answers
<1>8. Stm32Works'
  <2>1. stm32.cmd # 0 => stm32.next = n + 1 /\ uart_waitack_flag = 1
    BY DEF Replying
  <2>2. ~ (stm32'.cmd # 0 /\ (stm32'.next = 1 \/ uart_waitack_flag' # 1))
    BY <2>1
  <2>3. stm32'.cmd # 0 =>
           /\ stm32'.cmd \notin Local /\ CMD09_oldlabel' = stm32'.cmd
           /\ g_apdu'[0].aligned /\ g_apdu'[0].lab = stm32'.cmd
           /\ want' # 0 => stm32'.cmd = current'
    BY DEF Timely, Stm32Works
  <2> QED BY <2>2, <2>3 DEF Stm32Works
<1> QED BY <1>6, <1>7, <1>8

(* The reply is complete.                                                  *)
LEMMA Awaits_Complete ==
    ASSUME General, Timely, NEW c \in Commands, NEW n \in 1 .. Len(ReplyLen[c]), Replying(c, n),
           NEW j \in 0 .. PartsIn(c, n) - 1, Awaited(c, n), want # 0,
           StillLacks(c, n, j) = {},
           answers' = [answers EXCEPT ![current] = Append(@, WithPart(c, n, j))],
           got' = <<>>, total' = 0,
           want' = IF want < Len(ReplyLen[current]) THEN want + 1 ELSE 0,
           UNCHANGED <<current, CMD09_oldlabel, stm32, g_apdu, uart_waitack_flag, ucResend>>
    PROVE  /\ Stm32Works' /\ Awaits' /\ Answers'
           /\ stm32.cmd # 0 => want' = stm32.next
<1>1. c = current /\ n = want
  BY DEF Awaited
<1>2. /\ DOMAIN WithPart(c, n, j) = {j} \union DOMAIN got
      /\ WithPart(c, n, j)[j] = RspToken(c, c, n)
      /\ \A k \in DOMAIN got \ {j} : WithPart(c, n, j)[k] = got[k]
  BY DEF WithPart
<1>3. \A k \in DOMAIN got : k \in 0 .. PartsIn(c, n) - 1 /\ got[k] = RspToken(c, c, n)
  <2>1. \A k \in DOMAIN got : k < PartsIn(c, n) /\ got[k] = RspToken(c, c, n)
    BY <1>1 DEF Timely, Awaits
  <2>2. DOMAIN got \subseteq Nat
    BY DEF General, Types, Phone, Indices
  <2>3. PartsIn(c, n) \in Nat
    BY ReplySizes
  <2> QED BY <2>1, <2>2, <2>3
<1>4. WithPart(c, n, j) = [k \in 0 .. PartsIn(c, n) - 1 |-> RspToken(c, c, n)]
  <2>1. {j} \union DOMAIN got = 0 .. PartsIn(c, n) - 1
    BY <1>3 DEF StillLacks
  <2>2. \A k \in 0 .. PartsIn(c, n) - 1 : WithPart(c, n, j)[k] = RspToken(c, c, n)
    BY <1>2, <1>3, <2>1
  <2> QED BY <2>1, <2>2 DEF WithPart
<1> DEFINE now == WithPart(c, n, j)
<1> HIDE DEF now
<1>5. /\ answers \in [Commands -> Seq(Replies)] /\ Len(answers[c]) = n - 1
      /\ Len(ReplyLen[c]) \in Nat /\ n \in Nat /\ n >= 1 /\ n <= Len(ReplyLen[c])
  <2>1. Len(ReplyLen[c]) \in Nat
    BY HasReply
  <2>2. answers \in [Commands -> Seq(Replies)] /\ Len(answers[c]) = n - 1
    BY <1>1 DEF General, Types, Phone, Timely, Awaits
  <2> QED BY <2>1, <2>2
<1> DEFINE last == Len(ReplyLen[c])
<1>0. n \in Nat /\ n >= 1 /\ last \in Nat
  BY <1>5
<1>6. /\ answers'[c] = Append(answers[c], now)
      /\ \A d \in Commands \ {c} : answers'[d] = answers[d]
  BY <1>1, <1>5 DEF now
<1>7. /\ Len(answers'[c]) = n
      /\ answers'[c][n] = now
      /\ \A m \in 1 .. Len(answers[c]) : answers'[c][m] = answers[c][m]
  <2>1. answers[c] \in Seq(Replies)
    BY <1>5
  <2>2. Len(Append(answers[c], now)) = Len(answers[c]) + 1
        /\ Append(answers[c], now)[Len(answers[c]) + 1] = now
        /\ \A m \in 1 .. Len(answers[c]) : Append(answers[c], now)[m] = answers[c][m]
    BY <2>1
  <2>3. Len(answers[c]) + 1 = n
    BY <1>5
  <2> QED BY <1>6, <2>2, <2>3
<1>8. Answers'
  <2>1. \A d \in Commands : d > current' => answers'[d] = <<>>
    <3>1. ~(current > current)
      BY <1>1, BleAssumption DEF TransferAssumption
    <3> QED BY <1>1, <1>6, <3>1 DEF Timely, Answers
  <2>2. ASSUME NEW d \in Commands, NEW m \in 1 .. Len(answers'[d])
        PROVE  /\ m <= Len(ReplyLen[d])
               /\ answers'[d][m] = [k \in 0 .. PartsIn(d, m) - 1 |-> RspToken(d, d, m)]
    <3>1. CASE d # c
      <4>1. answers'[d] = answers[d]
        BY <1>6, <3>1
      <4> QED BY <4>1, <2>2 DEF Timely, Answers
    <3>2. CASE d = c /\ m = n
      BY <1>4, <1>5, <1>7, <3>2 DEF now
    <3>3. CASE d = c /\ m # n
      <4>1. m \in 1 .. Len(answers[c])
        BY <1>5, <1>7, <2>2, <3>3
      <4>2. /\ m <= Len(ReplyLen[c])
            /\ answers[c][m] = [k \in 0 .. PartsIn(c, m) - 1 |-> RspToken(c, c, m)]
        BY <4>1 DEF Timely, Answers
      <4> QED BY <1>7, <3>3, <4>1, <4>2
    <3> QED BY <3>1, <3>2, <3>3
  <2> QED BY <2>1, <2>2 DEF Answers, PartsIn
<1>9. want' # 0 => want' = n + 1 /\ n + 1 <= Len(ReplyLen[c])
  BY <1>1, <1>5
<1>10. want' # 0 => CMD09_oldlabel = c
  <2>1. want' # 0 => Len(ReplyLen[c]) # 1
    <3>1. want' # 0 => n + 1 <= last
      BY <1>9
    <3> HIDE DEF last
    <3>2. want' # 0 => last # 1
      BY <1>0, <3>1
    <3> QED BY <3>2 DEF last
  <2>2. want' # 0 => c \notin Local
    BY <2>1, BleAssumption DEF TransferAssumption
  <2> QED BY <2>2 DEF Replying
<1>11. Awaits'
  <2>1. want' # 0 => want' \in 1 .. Len(ReplyLen[c]) /\ Len(answers'[c]) = want' - 1
    BY <1>5, <1>7, <1>9
  <2>2. DOMAIN got' = {}
    OBVIOUS
  <2> QED BY <1>1, <1>10, <2>1, <2>2 DEF Awaits
<1>12. stm32.cmd # 0 => want' = stm32.next
  <2>1. SUFFICES ASSUME stm32.cmd # 0
                 PROVE  want' = stm32.next
    OBVIOUS
  <2>2. stm32 = [cmd |-> c, next |-> n + 1]
    BY <2>1 DEF Replying
  <2>3. n + 1 <= Len(ReplyLen[c])
    <3>1. PICK d \in Commands : \E m \in 1 .. Len(ReplyLen[d]) : stm32 = [cmd |-> d, next |-> m]
      BY <2>1 DEF General, Types, Dispatched
    <3>2. PICK m \in 1 .. Len(ReplyLen[d]) : stm32 = [cmd |-> d, next |-> m]
      BY <3>1
    <3>3. d = c /\ m = n + 1
      BY <2>2, <3>2
    <3> QED BY <1>5, <3>3
  <2> QED BY <1>1, <1>5, <2>2, <2>3
<1>13. Stm32Works'
  <2>1. stm32'.cmd # 0 =>
           /\ stm32'.cmd \notin Local /\ CMD09_oldlabel' = stm32'.cmd
           /\ g_apdu'[0].aligned /\ g_apdu'[0].lab = stm32'.cmd
           /\ stm32'.cmd = current'
           /\ stm32'.next = 1 => ucResend' = 0
    BY DEF Timely, Stm32Works
  <2> QED BY <1>12, <2>1 DEF Stm32Works
<1> QED BY <1>8, <1>11, <1>12, <1>13

(* Where a packet of a reply is on its way to the phone.                   *)
LEMMA WhereNotified ==
    ASSUME Place, toPhone # <<>>, Head(toPhone).type = "data"
    PROVE  \E c \in Commands : \E n \in 1 .. Len(ReplyLen[c]) :
              /\ Replying(c, n) /\ Outgoing(c, n)
              /\ Waiting(c, n) \/ \E k \in 1 .. PartsIn(c, n) - 1 : Sending(c, n, k)
<1>1. ~LinkQuiet /\ ~Coming
  BY DEF LinkQuiet, Coming
<1>2. ~Reported
  BY DEF Reported, Report
<1>3. ~Resting /\ ~Whole /\ ~ToWork /\ ~Receiving
  BY <1>1, <1>2 DEF Resting, Whole, ToWork, Receiving
<1>4. PICK c \in Commands : \E n \in 1 .. Len(ReplyLen[c]) : Replying(c, n)
  BY <1>3 DEF Place
<1>5. PICK n \in 1 .. Len(ReplyLen[c]) : Replying(c, n)
  BY <1>4
<1>6. ~Queued(c, n) /\ ~Taken(c, n)
  BY <1>1 DEF Queued, Taken
<1>7. Waiting(c, n) => Outgoing(c, n)
  BY DEF Waiting, Asks, Acks, OnItsWay
<1>8. \A k : Sending(c, n, k) => Outgoing(c, n)
  BY DEF Sending
<1> QED BY <1>5, <1>6, <1>7, <1>8 DEF Replying

(* The phone takes a packet of a reply of which more is to be sent.        *)
LEMMA Sending_Gets ==
    ASSUME General, Timely, NEW c \in Commands, NEW n \in 1 .. Len(ReplyLen[c]),
           Replying(c, n), NEW k \in 1 .. PartsIn(c, n) - 1, Sending(c, n, k),
           PhoneGetsData
    PROVE  Timely'
<1>1. /\ toPhone # <<>> /\ toPhone' = Tail(toPhone)
      /\ UNCHANGED <<lr, SumPackNumber, Sendlenth, stm32, ucResend, pc, blueRecivSendflag,
                     ucaRevPackN, Apdufinsh, ucReTry, g_apdu, T_Connect, current,
                     CMD09_oldlabel, uart_waitack_flag, toDevice>>
  BY DEF PhoneGetsData, apdu, rx, both, tx, command
<1>2. Outgoing(c, n) /\ Types
  BY DEF Sending, General
<1>3. PICK j \in 0 .. PartsIn(c, n) - 1 :
              /\ Head(toPhone) = Notified(c, n, j) /\ j \notin DOMAIN got
              /\ \E i \in DOMAIN toPhone : toPhone[i].idx = j
              /\ toPhone' \in Seq(Notes) /\ Ascending(toPhone)'
              /\ \A i \in DOMAIN toPhone' :
                    /\ i + 1 \in DOMAIN toPhone /\ toPhone'[i] = toPhone[i + 1]
                    /\ \E m \in 0 .. PartsIn(c, n) - 1 :
                          toPhone'[i] = Notified(c, n, m) /\ m \notin DOMAIN got /\ m > j
  BY <1>1, <1>2, OutgoingHead
<1>4. PartsIn(c, n) \in Nat /\ PartsIn(c, n) >= 1
  BY ReplySizes
<1>5. j < k /\ (\A i \in DOMAIN got : i < k) /\ (\A i \in DOMAIN toPhone' : toPhone'[i].idx < k)
  BY <1>3 DEF Sending
<1>6. \/ want = 0 /\ UNCHANGED <<outbox, want, got, total, answers>>
      \/ /\ want # 0 /\ UNCHANGED <<outbox, want, answers>>
         /\ got' = WithPart(c, n, j) /\ total' = PartsIn(c, n)
  <2>1. CASE want = 0
    BY <1>3, <2>1, DataTaken
  <2>2. CASE want # 0
    <3>1. k < PartsIn(c, n) /\ PartsIn(c, n) - 1 \in 0 .. PartsIn(c, n) - 1
      BY <1>4
    <3>2. PartsIn(c, n) - 1 \notin {j} \union DOMAIN got /\ j # PartsIn(c, n) - 1
      BY <1>4, <1>5, <3>1
    <3>3. StillLacks(c, n, j) # {}
      BY <3>1, <3>2 DEF StillLacks
    <3> QED BY <1>3, <2>2, <3>2, <3>3, DataTaken
  <2> QED BY <2>1, <2>2
<1>7. DOMAIN got' \subseteq DOMAIN got \union {j}
  BY <1>6 DEF WithPart
<1>8. Outgoing(c, n)'
  <2>1. toDevice' = <<>> /\ outbox' = <<>>
    BY <1>1, <1>2, <1>6 DEF Outgoing
  <2>2. \A i \in DOMAIN toPhone' : \E m \in 0 .. PartsIn(c, n) - 1 :
           toPhone'[i] = Notified(c, n, m) /\ m \notin DOMAIN got'
    <3> SUFFICES ASSUME NEW i \in DOMAIN toPhone'
                 PROVE  \E m \in 0 .. PartsIn(c, n) - 1 :
                           toPhone'[i] = Notified(c, n, m) /\ m \notin DOMAIN got'
      OBVIOUS
    <3>1. PICK m \in 0 .. PartsIn(c, n) - 1 :
              toPhone'[i] = Notified(c, n, m) /\ m \notin DOMAIN got /\ m > j
      BY <1>3
    <3>2. m # j
      BY <3>1
    <3> QED BY <1>7, <3>1, <3>2
  <2> QED BY <1>3, <2>1, <2>2 DEF Outgoing, PartsIn, Notified
<1>9. Awaited(c, n)'
  BY <1>1, <1>6 DEF Sending, Awaited
<1>10. \A i \in DOMAIN got' : i < k
  BY <1>5, <1>7
<1>11. Sending(c, n, k)'
  BY <1>1, <1>5, <1>8, <1>9, <1>10 DEF Sending, PartsIn
<1>12. Place'
  <2>1. Between'
    BY <1>1 DEF Replying, Cleaned, Between
  <2> QED BY <1>1, <1>11, <2>1, SameReply
<1>13. Stm32Works' /\ Awaits' /\ Answers'
  <2>1. CASE want = 0
    BY <1>1, <1>6, <2>1, SamePhone
  <2>2. CASE want # 0
    <3>1. Awaited(c, n)
      BY DEF Sending
    <3> QED BY <1>1, <1>6, <2>2, <3>1, Awaits_More
  <2> QED BY <2>1, <2>2
<1> QED BY <1>1, <1>12, <1>13 DEF Timely

(* Or of which all was sent: it is complete, or lacks packets.             *)
LEMMA Waiting_Gets ==
    ASSUME General, Timely, NEW c \in Commands, NEW n \in 1 .. Len(ReplyLen[c]),
           Replying(c, n), Waiting(c, n), Outgoing(c, n), PhoneGetsData
    PROVE  Timely'
<1>1. /\ toPhone # <<>> /\ toPhone' = Tail(toPhone)
      /\ UNCHANGED <<lr, SumPackNumber, Sendlenth, stm32, ucResend, pc, blueRecivSendflag,
                     ucaRevPackN, Apdufinsh, ucReTry, g_apdu, T_Connect, current,
                     CMD09_oldlabel, uart_waitack_flag, toDevice>>
      /\ UNCHANGED <<ucaPackMsg, remberPackn>>
  BY DEF PhoneGetsData, apdu, rx, both, tx, command
<1>2. Types /\ Awaited(c, n) /\ ~LinkQuiet
  BY <1>1 DEF General, Waiting, LinkQuiet
<1>3. PICK j \in 0 .. PartsIn(c, n) - 1 :
              /\ Head(toPhone) = Notified(c, n, j) /\ j \notin DOMAIN got
              /\ \E i \in DOMAIN toPhone : toPhone[i].idx = j
              /\ toPhone' \in Seq(Notes) /\ Ascending(toPhone)'
              /\ \A i \in DOMAIN toPhone' :
                    /\ i + 1 \in DOMAIN toPhone /\ toPhone'[i] = toPhone[i + 1]
                    /\ \E m \in 0 .. PartsIn(c, n) - 1 :
                          toPhone'[i] = Notified(c, n, m) /\ m \notin DOMAIN got /\ m > j
  BY <1>1, <1>2, OutgoingHead
<1>4. PartsIn(c, n) \in Nat /\ PartsIn(c, n) >= 1
  BY ReplySizes
<1>5. toDevice = <<>> /\ outbox = <<>>
  BY DEF Outgoing
<1>6. (T_Connect \/ ucReTry = 0)'
  BY <1>1, <1>2 DEF Waiting, Expired
<1>7. /\ lr' = 0 /\ SumPackNumber' = PartsIn(c, n) /\ Sendlenth' = ReplyLen[c][n]
      /\ blueRecivSendflag' = "NOdata"
  BY <1>1 DEF Waiting
<1>8. /\ Ahead' = Ahead /\ (AtLast' <=> AtLast) /\ Bits' = Bits /\ ToSend' = ToSend
  BY <1>1 DEF Ahead, AtLast, Bits, ToSend
<1>9. \A i \in DOMAIN toPhone' : \E m \in StillLacks(c, n, j) :
          toPhone'[i] = Notified(c, n, m) /\ m > j
  <2> SUFFICES ASSUME NEW i \in DOMAIN toPhone'
               PROVE  \E m \in StillLacks(c, n, j) : toPhone'[i] = Notified(c, n, m) /\ m > j
    OBVIOUS
  <2>1. PICK m \in 0 .. PartsIn(c, n) - 1 :
            toPhone'[i] = Notified(c, n, m) /\ m \notin DOMAIN got /\ m > j
    BY <1>3
  <2>2. m # j
    BY <2>1
  <2> QED BY <2>1, <2>2 DEF StillLacks
<1>10. Between'
  BY <1>1 DEF Replying, Cleaned, Between
<1>11. ucResend = 1 /\ ~AtLast =>
          /\ ucaPackMsg.miss \subseteq 0 .. PartsIn(c, n) - 1 /\ Bits <= 120
          /\ Ahead \subseteq StillLacks(c, n, j)
          /\ \A k \in Ahead : \A i \in DOMAIN toPhone' : toPhone'[i].idx < k
          /\ \A i \in DOMAIN toPhone' : toPhone'[i].idx # PartsIn(c, n) - 1
          /\ j # PartsIn(c, n) - 1
          /\ pc = "remember_sent" => remberPackn < Bits
  <2>1. SUFFICES ASSUME ucResend = 1 /\ ~AtLast
                 PROVE  /\ ucaPackMsg.miss \subseteq 0 .. PartsIn(c, n) - 1 /\ Bits <= 120
                        /\ Ahead \subseteq StillLacks(c, n, j)
                        /\ \A k \in Ahead : \A i \in DOMAIN toPhone' : toPhone'[i].idx < k
                        /\ \A i \in DOMAIN toPhone' : toPhone'[i].idx # PartsIn(c, n) - 1
                        /\ j # PartsIn(c, n) - 1
                        /\ pc = "remember_sent" => remberPackn < Bits
    OBVIOUS
  <2>2. /\ ucaPackMsg.miss \subseteq 0 .. PartsIn(c, n) - 1 /\ Bits <= 120
        /\ \A k \in Ahead : /\ k \notin DOMAIN got
                            /\ \A i \in DOMAIN toPhone : toPhone[i].idx < k
        /\ \A i \in DOMAIN toPhone : toPhone[i].idx # PartsIn(c, n) - 1
        /\ pc = "remember_sent" => remberPackn < Bits
    BY <2>1 DEF Waiting, Round
  <2>3. Ahead \subseteq ucaPackMsg.miss
    BY DEF Ahead
  <2>4. \A k \in Ahead : k # j
    BY <1>3, <2>2
  <2>5. Ahead \subseteq StillLacks(c, n, j)
    BY <2>2, <2>3, <2>4 DEF StillLacks
  <2> QED BY <1>3, <2>2, <2>5
<1>12. CASE want = 0
  <2>1. UNCHANGED <<outbox, want, got, total, answers>>
    BY <1>3, <1>12, DataTaken
  <2>2. Outgoing(c, n)'
    <3>1. \A i \in DOMAIN toPhone' : \E m \in 0 .. PartsIn(c, n) - 1 :
             toPhone'[i] = Notified(c, n, m) /\ m \notin DOMAIN got'
      BY <1>3, <2>1
    <3> QED BY <1>1, <1>3, <1>5, <2>1, <3>1 DEF Outgoing, PartsIn, Notified
  <2>3. Round(c, n)'
    BY <1>1, <1>8, <1>11, <2>1 DEF Round, StillLacks, PartsIn
  <2>4. Awaited(c, n)'
    BY <1>1, <1>2, <2>1 DEF Awaited
  <2>5. Waiting(c, n)'
    BY <1>6, <1>7, <2>2, <2>3, <2>4 DEF Waiting, PartsIn
  <2>6. Place'
    BY <1>1, <1>10, <2>5, SameReply
  <2> QED BY <1>1, <2>1, <2>6, SamePhone DEF Timely
<1>13. CASE want # 0 /\ StillLacks(c, n, j) = {}
  <2>1. /\ outbox' = Append(outbox, AckPacket)
        /\ answers' = [answers EXCEPT ![current] = Append(@, WithPart(c, n, j))]
        /\ got' = <<>> /\ total' = 0
        /\ want' = IF want < Len(ReplyLen[current]) THEN want + 1 ELSE 0
    BY <1>3, <1>13, DataTaken
  <2>2. /\ Stm32Works' /\ Awaits' /\ Answers'
        /\ stm32.cmd # 0 => want' = stm32.next
    BY <1>1, <1>2, <1>13, <2>1, Awaits_Complete
  <2>3. toPhone' = <<>>
    <3>1. DOMAIN toPhone' = {}
      BY <1>9, <1>13
    <3> QED BY <1>3, <3>1
  <2>4. ToSend' = {}
    <3>1. ucResend = 1 /\ ~AtLast => Ahead = {}
      BY <1>11, <1>13
    <3>2. ucResend = 0 \/ ucResend = 1
      BY <1>2 DEF Types, Scalars
    <3> QED BY <1>8, <3>1, <3>2 DEF ToSend
  <2>5. Acks'
    <3>1. outbox' = << AckPacket >> /\ toDevice' = <<>>
      BY <1>1, <1>5, <2>1
    <3> QED BY <1>1, <2>1, <2>2, <2>3, <2>4, <3>1 DEF Acks, OnItsWay
  <2>6. Round(c, n)'
    <3>1. DOMAIN toPhone' = {}
      BY <2>3
    <3>2. ucResend = 1 /\ ~AtLast => Ahead = {}
      BY <1>11, <1>13
    <3> QED BY <1>1, <1>8, <1>11, <3>1, <3>2 DEF Round, PartsIn
  <2>7. Waiting(c, n)'
    BY <1>6, <1>7, <2>1, <2>3, <2>4, <2>5, <2>6 DEF Waiting, PartsIn
  <2>8. Place'
    BY <1>1, <1>10, <2>7, SameReply
  <2> QED BY <1>1, <2>2, <2>8 DEF Timely
<1>14. CASE want # 0 /\ ~(StillLacks(c, n, j) = {})
  <2>1. /\ got' = WithPart(c, n, j) /\ total' = PartsIn(c, n)
        /\ outbox' = IF j = PartsIn(c, n) - 1
                     THEN Append(outbox, MissingPacket(PartsIn(c, n), StillLacks(c, n, j)))
                     ELSE outbox
        /\ UNCHANGED <<want, answers>>
    BY <1>3, <1>14, DataTaken
  <2>2. Stm32Works' /\ Awaits' /\ Answers'
    BY <1>1, <1>2, <1>14, <2>1, Awaits_More
  <2>3. DOMAIN got' = {j} \union DOMAIN got
    BY <2>1 DEF WithPart
  <2>4. Round(c, n)'
    <3>1. \A k \in StillLacks(c, n, j) : k \notin DOMAIN got'
      BY <2>3 DEF StillLacks
    <3> QED BY <1>1, <1>8, <1>11, <3>1 DEF Round, PartsIn
  <2>5. Awaited(c, n)'
    BY <1>1, <1>2, <2>1 DEF Awaited
  <2>6. Outgoing(c, n)' \/ Asks'
    <3>1. CASE j = PartsIn(c, n) - 1
      <4>1. toPhone' = <<>>
        <5>1. \A i \in DOMAIN toPhone' : FALSE
          BY <1>4, <1>9, <3>1 DEF StillLacks
        <5>2. DOMAIN toPhone' = {}
          BY <5>1
        <5> QED BY <1>3, <5>2
      <4>2. Lacking' = MissingPacket(PartsIn(c, n), StillLacks(c, n, j))
        BY <2>1, <2>3 DEF Lacking, StillLacks
      <4>3. outbox' = << Lacking' >> /\ toDevice' = <<>>
        BY <1>1, <1>5, <2>1, <3>1, <4>2
      <4>4. total' # 0 /\ (ucResend' = 1 => AtLast')
        BY <1>1, <1>4, <1>8, <1>11, <2>1, <3>1
      <4> QED BY <4>1, <4>3, <4>4 DEF Asks, OnItsWay
    <3>2. CASE j # PartsIn(c, n) - 1
      <4>1. outbox' = <<>> /\ toDevice' = <<>>
        BY <1>1, <1>5, <2>1, <3>2
      <4>2. \A i \in DOMAIN toPhone' : \E m \in 0 .. PartsIn(c, n) - 1 :
               toPhone'[i] = Notified(c, n, m) /\ m \notin DOMAIN got'
        BY <1>9, <2>3 DEF StillLacks
      <4> QED BY <1>3, <4>1, <4>2 DEF Outgoing, PartsIn, Notified
    <3> QED BY <3>1, <3>2
  <2>7. Waiting(c, n)'
    BY <1>6, <1>7, <2>4, <2>5, <2>6 DEF Waiting, PartsIn
  <2>8. Place'
    BY <1>1, <1>10, <2>7, SameReply
  <2> QED BY <1>1, <2>2, <2>8 DEF Timely
<1> QED BY <1>12, <1>13, <1>14

(* The phone takes a packet of a reply.                                    *)
LEMMA PhoneGetsData_Timely ==
    ASSUME General, Linked, Timely, session.timely, PhoneGetsData
    PROVE  Timely'
<1>1. toPhone # <<>> /\ Head(toPhone).type = "data" /\ Place
  BY DEF PhoneGetsData, Timely
<1>2. PICK c \in Commands : \E n \in 1 .. Len(ReplyLen[c]) :
              /\ Replying(c, n) /\ Outgoing(c, n)
              /\ Waiting(c, n) \/ \E k \in 1 .. PartsIn(c, n) - 1 : Sending(c, n, k)
  BY <1>1, WhereNotified
<1>3. PICK n \in 1 .. Len(ReplyLen[c]) :
              /\ Replying(c, n) /\ Outgoing(c, n)
              /\ Waiting(c, n) \/ \E k \in 1 .. PartsIn(c, n) - 1 : Sending(c, n, k)
  BY <1>2
<1> QED BY <1>3, Sending_Gets, Waiting_Gets

-----------------------------------------------------------------------------
(* The connection.                                                         *)

(* What a place depends on, besides main's position.                       *)
placeVars == <<toDevice, outbox, toPhone, lr, SumPackNumber, Sendlenth, Apdufinsh,
               ucaRevPackN, ucReTry, ucResend, ucaPackMsg, T_Connect, blueRecivSendflag,
               g_apdu, g_apdu_length, remberPackn>>
peerVars == <<stm32, CMD09_oldlabel, want, got, total, current, answers, retries, session>>

(* The acknowledgement for the STM32 is left, or passed on.                *)
PassesOn == UNCHANGED uart_waitack_flag \/ (uart_waitack_flag = 2 /\ uart_waitack_flag' = 0)

(* A step of main that is not about the place the device is in.            *)
LEMMA SameRest ==
    ASSUME Resting, UNCHANGED placeVars, Between', CutOff'
    PROVE  Resting'
<1>1. LinkQuiet' /\ Calm' /\ Cleaned'
  BY DEF Resting, LinkQuiet, Calm, Cleaned, placeVars
<1>2. ucReTry' = 0 /\ blueRecivSendflag' = "NOdata"
  BY DEF Resting, placeVars
<1> QED BY <1>1, <1>2 DEF Resting

(* See above.                                                              *)
LEMMA SameComing ==
    ASSUME Receiving, UNCHANGED placeVars, UNCHANGED <<stm32, total, current, want>>,
           Between', want' = 0 => ~Ble_ConnnectFlag' /\ unseen'
    PROVE  Receiving'
<1>1. UNCHANGED <<toDevice, outbox, toPhone, lr, SumPackNumber, Sendlenth, Apdufinsh,
                  ucaRevPackN, ucReTry, ucResend, ucaPackMsg, T_Connect, blueRecivSendflag,
                  g_apdu, g_apdu_length>>
  BY DEF placeVars
<1>2. Fresh' /\ blueRecivSendflag' = "NOdata"
  BY <1>1 DEF Receiving, Fresh, Calm
<1>3. /\ ucaRevPackN' \in SUBSET AllParts(current') /\ ucaRevPackN' # AllParts(current')
      /\ \A k \in ucaRevPackN' : g_apdu'[k] = CmdToken(current', FALSE)
      /\ ucaRevPackN' = {} => Apdufinsh' = 0 /\ ucReTry' = 0
  BY <1>1 DEF Receiving
<1>4. ucaRevPackN' # {} =>
          /\ Apdufinsh' = 2
          /\ g_apdu_length' = BytesOf(current', ucaRevPackN')
          /\ ucaPackMsg' = MissedPackN(Parts(CmdLen[current']), ucaRevPackN')
          /\ T_Connect' \/ LinkQuiet'
  <2>1. LinkQuiet' <=> LinkQuiet
    BY <1>1 DEF LinkQuiet
  <2> QED BY <1>1, <2>1 DEF Receiving
<1>5. Coming => Coming'
  BY <1>1 DEF Coming, Ascending
<1>6. Reported => Reported'
  BY <1>1 DEF Reported
<1>7. Coming \/ Reported
  BY DEF Receiving
<1> QED BY <1>2, <1>3, <1>4, <1>5, <1>6, <1>7 DEF Receiving

(* See above.                                                              *)
LEMMA SameWhole ==
    ASSUME Whole, UNCHANGED placeVars, UNCHANGED <<stm32, total, current, Recivedataflag>>,
           Between'
    PROVE  Whole'
<1>1. Fresh' /\ LinkQuiet'
  BY DEF Whole, Fresh, Calm, LinkQuiet, placeVars
<1>2. (\A k \in AllParts(current) : g_apdu[k] = CmdToken(current, FALSE))'
  BY DEF Whole, placeVars
<1> QED BY <1>1, <1>2 DEF Whole, placeVars

(* See above.                                                              *)
LEMMA SameToWork ==
    ASSUME ToWork, UNCHANGED placeVars, UNCHANGED <<stm32, total, current>>,
           pc \in {"send", "resend", "retry", "process"},
           pc' \in {"send", "resend", "retry", "process"}
    PROVE  ToWork'
<1>1. Fresh' /\ LinkQuiet'
  BY DEF ToWork, Fresh, Calm, LinkQuiet, placeVars
<1>2. CrcGood(current)'
  BY DEF ToWork, CrcGood, placeVars
<1>3. Cleaned /\ ucReTry = 0
  BY DEF ToWork
<1>4. Cleaned' /\ ucReTry' = 0
  BY <1>3 DEF Cleaned, Between, placeVars
<1> QED BY <1>1, <1>2, <1>4 DEF ToWork, placeVars

(* See above.                                                              *)
LEMMA SameSending ==
    ASSUME NEW c, NEW n, NEW k, Sending(c, n, k), UNCHANGED <<want, got, current>>,
           UNCHANGED placeVars
    PROVE  Sending(c, n, k)'
<1>1. Outgoing(c, n)'
  BY DEF Sending, Outgoing, Ascending, placeVars
<1>2. Awaited(c, n)'
  BY DEF Sending, Awaited
<1>3. /\ \A i \in DOMAIN toPhone' : toPhone'[i].idx < k
      /\ \A i \in DOMAIN got' : i < k
  BY DEF Sending, placeVars
<1> QED BY <1>1, <1>2, <1>3 DEF Sending, placeVars

(* See above.                                                              *)
LEMMA SameOut ==
    ASSUME NEW c, NEW n, Waiting(c, n), UNCHANGED placeVars, UNCHANGED peerVars,
           pc # "remember_sent", pc' # "remember_sent"
    PROVE  Waiting(c, n)'
<1>1. Ahead' = Ahead /\ ToSend' = ToSend /\ ~AtLast /\ ~AtLast' /\ Bits' = Bits
  BY DEF ToSend, AtLast, Ahead, Bits, placeVars
<1>2. Awaited(c, n)' <=> Awaited(c, n)
  BY DEF Awaited, peerVars
<1>3. Round(c, n)'
  <2>1. Round(c, n)
    BY DEF Waiting
  <2> QED BY <1>1, <2>1 DEF Round, placeVars, peerVars
<1>4. (Outgoing(c, n) \/ Asks \/ Acks)'
  <2>1. CASE Outgoing(c, n)
    BY <2>1 DEF Outgoing, Ascending, placeVars, peerVars
  <2>2. CASE Asks
    BY <1>1, <2>2 DEF Asks, OnItsWay, Lacking, placeVars, peerVars
  <2>3. CASE Acks
    BY <1>1, <2>3 DEF Acks, OnItsWay, placeVars, peerVars
  <2> QED BY <2>1, <2>2, <2>3 DEF Waiting
<1>5. (T_Connect \/ ucReTry = 0 \/ Expired)'
  BY DEF Waiting, Expired, LinkQuiet, placeVars, peerVars
<1>6. /\ lr' = 0 /\ SumPackNumber' = PartsIn(c, n) /\ Sendlenth' = ReplyLen[c][n]
      /\ blueRecivSendflag' = "NOdata"
  BY DEF Waiting, placeVars
<1>7. toPhone' # <<>> \/ total' # 0 \/ ToSend' # {} => Awaited(c, n)'
  BY <1>1, <1>2 DEF Waiting, placeVars, peerVars
<1> QED BY <1>3, <1>4, <1>5, <1>6, <1>7 DEF Waiting

(* Such a step leaves the device where it is.                              *)
LEMMA SamePlace ==
    ASSUME Timely, UNCHANGED placeVars, UNCHANGED peerVars, PassesOn,
           Between', pc # "remember_sent", pc' # "remember_sent",
           Resting => CutOff',
           Receiving => (want = 0 => ~Ble_ConnnectFlag' /\ unseen'),
           Whole => UNCHANGED Recivedataflag,
           ToWork => pc \in {"send", "resend", "retry", "process"}
                     /\ pc' \in {"send", "resend", "retry", "process"},
           \A c \in Commands : \A n \in 1 .. Len(ReplyLen[c]) :
               Queued(c, n) \/ Taken(c, n) => Queued(c, n)' \/ Taken(c, n)'
    PROVE  Place' /\ Stm32Works' /\ Awaits' /\ Answers'
<1>1. Stm32Works' /\ Awaits' /\ Answers'
  <2>1. UNCHANGED <<want, got, total, current, answers, CMD09_oldlabel>>
    BY DEF peerVars
  <2>2. UNCHANGED <<stm32, g_apdu, ucResend>>
    BY DEF peerVars, placeVars
  <2>3. uart_waitack_flag' = 1 <=> uart_waitack_flag = 1
    BY DEF PassesOn
  <2>4. Stm32Works'
    BY <2>1, <2>2, <2>3 DEF Timely, Stm32Works
  <2> QED BY <2>1, <2>4 DEF Timely, Awaits, Answers
<1> SUFFICES Place'
  BY <1>1
<1>2. CASE Resting
  BY <1>2, SameRest DEF Place
<1>3. UNCHANGED <<stm32, total, current, want>>
  BY DEF peerVars
<1>4. CASE Receiving
  BY <1>3, <1>4, SameComing DEF Place
<1>5. CASE Whole
  BY <1>3, <1>5, SameWhole DEF Place
<1>6. CASE ToWork
  BY <1>3, <1>6, SameToWork DEF Place
<1>7. ASSUME NEW c \in Commands, NEW n \in 1 .. Len(ReplyLen[c]), Replying(c, n)
      PROVE  Place'
  <2>1. /\ UNCHANGED <<Apdufinsh, ucaRevPackN, g_apdu, CMD09_oldlabel, stm32>>
        /\ uart_waitack_flag = 1 => uart_waitack_flag' = 1
    BY DEF peerVars, placeVars, PassesOn
  <2>2. UNCHANGED <<want, got, current>>
    BY DEF peerVars
  <2>3. CASE Queued(c, n) \/ Taken(c, n)
    BY <1>7, <2>1, <2>3, SameReply
  <2>4. CASE Waiting(c, n)
    BY <1>7, <2>1, <2>4, SameOut, SameReply
  <2>5. ASSUME NEW k \in 1 .. PartsIn(c, n) - 1, Sending(c, n, k)
        PROVE  Place'
    <3>1. Sending(c, n, k)'
      BY <2>2, <2>5, SameSending
    <3> QED BY <1>7, <2>1, <3>1, SameReply
  <2> QED BY <1>7, <2>3, <2>4, <2>5 DEF Replying
<1> QED BY <1>1, <1>2, <1>4, <1>5, <1>6, <1>7 DEF Timely, Place

(* A new connection leaves the device where it is: what the phone had sent *)
(* of a command before is gone.                                            *)
LEMMA Connect_Timely ==
    ASSUME General, Linked, Timely, session.timely, Connect
    PROVE  Timely'
<1>1. /\ ~unseen /\ ~Ble_ConnnectFlag
      /\ UNCHANGED placeVars /\ UNCHANGED peerVars
      /\ UNCHANGED <<pc, Recivedataflag, uart_waitack_flag>>
  <2>1. UNCHANGED <<apdu, rx, both, tx, command, pc, radio, phoneVars>>
    BY DEF Connect, OnConnected
  <2>2. ~unseen /\ ~Ble_ConnnectFlag
    BY DEF Connect, OnConnected
  <2> QED BY <2>1, <2>2 DEF apdu, rx, both, tx, command, radio, phoneVars, placeVars, peerVars
<1>2. Stm32Works' /\ Awaits' /\ Answers'
  <2>1. UNCHANGED <<want, got, total, current, answers, CMD09_oldlabel>>
    BY <1>1 DEF peerVars
  <2>2. UNCHANGED <<stm32, g_apdu, uart_waitack_flag, ucResend>>
    BY <1>1 DEF peerVars, placeVars
  <2> QED BY <2>1, <2>2, SamePhone
<1>3. pc' = "retry_reply" => SumPackNumber' = 0
  BY <1>1 DEF Timely, placeVars
<1> SUFFICES Place'
  BY <1>2, <1>3 DEF Timely
<1>4. ~Receiving
  <2>1. want = 0
    BY <1>1 DEF Linked
  <2> QED BY <1>1, <2>1 DEF Receiving
<1>5. CASE Resting
  <2>1. Between' /\ CutOff'
    BY <1>1, <1>5 DEF Resting, Cleaned, Between, CutOff, placeVars, peerVars
  <2> QED BY <1>1, <1>5, <2>1, SameRest DEF Place
<1>6. CASE Whole
  <2>1. Between' /\ UNCHANGED <<stm32, total, current, Recivedataflag>>
    BY <1>1, <1>6 DEF Whole, Between, peerVars
  <2> QED BY <1>1, <1>6, <2>1, SameWhole DEF Place
<1>7. CASE ToWork
  <2>1. Fresh' /\ LinkQuiet'
    BY <1>1, <1>7 DEF ToWork, Fresh, Calm, LinkQuiet, placeVars, peerVars
  <2>2. CrcGood(current)'
    BY <1>1, <1>7 DEF ToWork, CrcGood, placeVars, peerVars
  <2>3. \/ pc' = "reset"
        \/ pc' = "finish" /\ ucaRevPackN' = {} /\ ucReTry' = 0
        \/ pc' \in {"send", "resend", "retry", "process"} /\ Cleaned' /\ ucReTry' = 0
    BY <1>1, <1>7 DEF ToWork, Cleaned, Between, placeVars
  <2>4. g_apdu_length' = CmdLen[current'] /\ blueRecivSendflag' = "Recivedata"
    BY <1>1, <1>7 DEF ToWork, placeVars, peerVars
  <2> QED BY <2>1, <2>2, <2>3, <2>4 DEF ToWork, Place
<1>8. ASSUME NEW c \in Commands, NEW n \in 1 .. Len(ReplyLen[c]), Replying(c, n)
      PROVE  Place'
  <2>1. UNCHANGED <<Apdufinsh, ucaRevPackN, g_apdu, CMD09_oldlabel, stm32, uart_waitack_flag>>
    BY <1>1 DEF peerVars, placeVars
  <2>2. UNCHANGED <<want, got, current, total>>
    BY <1>1 DEF peerVars
  <2>3. Between'
    BY <1>1, <1>8 DEF Replying, Cleaned, Between
  <2>4. Awaited(c, n)' <=> Awaited(c, n)
    BY <2>2 DEF Awaited
  <2>5. CASE Queued(c, n)
    <3>1. Queued(c, n)'
      BY <1>1, <2>2, <2>4, <2>5 DEF Queued, LinkQuiet, Calm, placeVars
    <3> QED BY <1>8, <2>1, <2>3, <3>1, SameReply
  <2>6. CASE Taken(c, n)
    <3>1. Taken(c, n)'
      BY <1>1, <2>2, <2>4, <2>6 DEF Taken, LinkQuiet, placeVars
    <3> QED BY <1>8, <2>1, <2>3, <3>1, SameReply
  <2>7. CASE Waiting(c, n)
    <3>1. UNCHANGED <<lr, SumPackNumber, Sendlenth, blueRecivSendflag, toPhone,
                      ucResend, ucaPackMsg, remberPackn, pc>>
      BY <1>1 DEF placeVars
    <3>2. UNCHANGED <<toDevice, outbox, stm32, retries, session, T_Connect, ucReTry>>
      BY <1>1 DEF placeVars, peerVars
    <3>3. (T_Connect \/ ucReTry = 0 \/ Expired)'
      BY <2>2, <2>7, <3>1, <3>2 DEF Waiting, Expired, LinkQuiet
    <3>4. Outgoing(c, n)
      <4>1. toDevice = <<>> /\ outbox = <<>>
        BY <1>1 DEF Linked, LinkQuiet
      <4> QED BY <2>7, <4>1, AscendingShort DEF Waiting, Asks, Acks, OnItsWay
    <3>5. Outgoing(c, n)'
      BY <2>2, <3>1, <3>2, <3>4 DEF Outgoing, Ascending
    <3>6. Waiting(c, n)'
      BY <2>2, <2>7, <3>1, <3>3, <3>5, SameWaiting
    <3> QED BY <1>8, <2>1, <2>3, <3>6, SameReply
  <2>8. ASSUME NEW k \in 1 .. PartsIn(c, n) - 1, Sending(c, n, k)
        PROVE  Place'
    <3>1. Sending(c, n, k)'
      BY <1>1, <2>2, <2>8, SameSending
    <3> QED BY <1>8, <2>1, <2>3, <3>1, SameReply
  <2> QED BY <1>8, <2>5, <2>6, <2>7, <2>8 DEF Replying
<1> QED BY <1>4, <1>5, <1>6, <1>7, <1>8 DEF Timely, Place

(* What a lost connection leaves of the link and of the phone.             *)
Lost ==
    /\ toDevice' = <<>> /\ outbox' = <<>> /\ toPhone' = <<>>
    /\ want' = 0 /\ got' = <<>> /\ total' = 0 /\ unseen' /\ ~Ble_ConnnectFlag'
    /\ UNCHANGED <<lr, SumPackNumber, Sendlenth, Apdufinsh, ucaRevPackN, ucReTry, ucResend>>
    /\ UNCHANGED <<ucaPackMsg, T_Connect, blueRecivSendflag, g_apdu, g_apdu_length, remberPackn>>
    /\ UNCHANGED <<stm32, CMD09_oldlabel, uart_waitack_flag, current, answers, Recivedataflag,
                   pc>>

(* A command of which packets are missing is not completed any more.       *)
LEMMA Receiving_Lost ==
    ASSUME Receiving, Lost
    PROVE  Receiving'
<1>1. UNCHANGED <<lr, SumPackNumber, Sendlenth, Apdufinsh, ucaRevPackN, ucReTry, ucResend,
                  ucaPackMsg, T_Connect, blueRecivSendflag, g_apdu, g_apdu_length, stm32,
                  current, pc>>
  BY DEF Lost
<1>2. /\ toDevice' = <<>> /\ outbox' = <<>> /\ toPhone' = <<>> /\ total' = 0
      /\ unseen' /\ ~Ble_ConnnectFlag'
  BY DEF Lost
<1>3. Fresh' /\ Between' /\ blueRecivSendflag' = "NOdata"
  BY <1>1, <1>2 DEF Receiving, Fresh, Calm, Between
<1>4. /\ ucaRevPackN' \in SUBSET AllParts(current') /\ ucaRevPackN' # AllParts(current')
      /\ \A k \in ucaRevPackN' : g_apdu'[k] = CmdToken(current', FALSE)
      /\ ucaRevPackN' = {} => Apdufinsh' = 0 /\ ucReTry' = 0
  BY <1>1 DEF Receiving
<1>5. LinkQuiet'
  BY <1>2 DEF LinkQuiet
<1>6. ucaRevPackN' # {} =>
          /\ Apdufinsh' = 2
          /\ g_apdu_length' = BytesOf(current', ucaRevPackN')
          /\ ucaPackMsg' = MissedPackN(Parts(CmdLen[current']), ucaRevPackN')
          /\ T_Connect' \/ LinkQuiet'
  BY <1>1, <1>5 DEF Receiving
<1>7. Coming'
  <2>1. outbox' = CommandPackets(current', {})
    BY <1>2 DEF CommandPackets
  <2>2. Ascending(toDevice') /\ DOMAIN toDevice' = {}
    BY <1>2, AscendingShort
  <2>3. {} \in SUBSET (AllParts(current') \ ucaRevPackN')
    OBVIOUS
  <2>4. \E ks \in SUBSET (AllParts(current') \ ucaRevPackN') :
          /\ outbox' = CommandPackets(current', ks)
          /\ \A i \in DOMAIN toDevice' : \A k \in ks : toDevice'[i].idx < k
    BY <2>1, <2>2, <2>3
  <2> QED BY <1>2, <2>2, <2>4 DEF Coming, Ascending
<1> QED BY <1>2, <1>3, <1>4, <1>6, <1>7 DEF Receiving

(* See above.                                                              *)
LEMMA Disconnect_Timely ==
    ASSUME General, Linked, Timely, session.timely, Disconnect
    PROVE  Timely'
<1>1. Lost
  <2>1. UNCHANGED <<apdu, rx, both, tx, command, pc>> /\ toPhone' = <<>> /\ ~Ble_ConnnectFlag'
    BY DEF Disconnect, OnDisconnected
  <2>2. /\ toDevice' = <<>> /\ outbox' = <<>> /\ want' = 0 /\ got' = <<>> /\ total' = 0
        /\ unseen' /\ UNCHANGED <<current, answers>>
    BY DEF Disconnect
  <2> QED BY <2>1, <2>2 DEF Lost, apdu, rx, both, tx, command
<1>2. /\ toDevice' = <<>> /\ outbox' = <<>> /\ toPhone' = <<>>
      /\ want' = 0 /\ got' = <<>> /\ total' = 0 /\ LinkQuiet'
  BY <1>1 DEF Lost, LinkQuiet
<1>3. /\ UNCHANGED <<lr, SumPackNumber, Sendlenth, Apdufinsh, ucaRevPackN, ucReTry, ucResend>>
      /\ UNCHANGED <<ucaPackMsg, T_Connect, blueRecivSendflag, g_apdu, g_apdu_length,
                     remberPackn>>
      /\ UNCHANGED <<stm32, CMD09_oldlabel, uart_waitack_flag, current, answers,
                     Recivedataflag, pc>>
  BY <1>1 DEF Lost
<1>4. Stm32Works' /\ Answers'
  BY <1>2, <1>3 DEF Timely, Stm32Works, Answers
<1>5. Awaits'
  <2>1. DOMAIN got' = {}
    BY <1>2
  <2> QED BY <1>2, <2>1 DEF Awaits
<1>6. pc' = "retry_reply" => SumPackNumber' = 0
  BY <1>3 DEF Timely
<1> SUFFICES Place'
  BY <1>4, <1>5, <1>6 DEF Timely
<1>7. CASE Resting
  <2>1. Between' /\ CutOff' /\ Cleaned' /\ Calm'
    BY <1>3, <1>7 DEF Resting, Cleaned, Between, CutOff, Calm
  <2> QED BY <1>2, <1>3, <1>7, <2>1 DEF Resting, Place
<1>8. CASE Receiving
  BY <1>1, <1>8, Receiving_Lost DEF Place
<1>9. CASE Whole
  <2>1. Fresh' /\ Between'
    BY <1>2, <1>3, <1>9 DEF Whole, Fresh, Calm, Between
  <2>2. (\A k \in AllParts(current) : g_apdu[k] = CmdToken(current, FALSE))'
    BY <1>3, <1>9 DEF Whole
  <2> QED BY <1>2, <1>3, <1>9, <2>1, <2>2 DEF Whole, Place
<1>10. CASE ToWork
  <2>1. Fresh'
    BY <1>2, <1>3, <1>10 DEF ToWork, Fresh, Calm
  <2>2. CrcGood(current)'
    BY <1>3, <1>10 DEF ToWork, CrcGood
  <2>3. \/ pc' = "reset"
        \/ pc' = "finish" /\ ucaRevPackN' = {} /\ ucReTry' = 0
        \/ pc' \in {"send", "resend", "retry", "process"} /\ Cleaned' /\ ucReTry' = 0
    BY <1>3, <1>10 DEF ToWork, Cleaned, Between
  <2>4. g_apdu_length' = CmdLen[current'] /\ blueRecivSendflag' = "Recivedata"
    BY <1>3, <1>10 DEF ToWork
  <2> QED BY <1>2, <2>1, <2>2, <2>3, <2>4 DEF ToWork, Place
<1>11. ASSUME NEW c \in Commands, NEW n \in 1 .. Len(ReplyLen[c]), Replying(c, n)
       PROVE  Place'
  <2>1. UNCHANGED <<Apdufinsh, ucaRevPackN, g_apdu, CMD09_oldlabel, stm32, uart_waitack_flag>>
    BY <1>3
  <2>2. Between'
    BY <1>3, <1>11 DEF Replying, Cleaned, Between
  <2>3. Awaited(c, n)'
    BY <1>2 DEF Awaited
  <2>4. DOMAIN toPhone' = {} /\ DOMAIN got' = {} /\ Ascending(toPhone')
    BY <1>2, AscendingShort
  <2>5. Outgoing(c, n)'
    BY <1>2, <2>4 DEF Outgoing, Ascending
  <2>6. CASE Queued(c, n)
    <3>1. Queued(c, n)'
      BY <1>2, <1>3, <2>3, <2>6 DEF Queued, Calm
    <3> QED BY <1>11, <2>1, <2>2, <3>1, SameReply
  <2>7. CASE Taken(c, n)
    <3>1. Taken(c, n)'
      BY <1>2, <1>3, <2>3, <2>7 DEF Taken
    <3> QED BY <1>11, <2>1, <2>2, <3>1, SameReply
  <2>8. CASE Waiting(c, n)
    <3>1. Ahead' = Ahead /\ (AtLast' <=> AtLast) /\ Bits' = Bits
      BY <1>3 DEF Ahead, AtLast, Bits
    <3>2. Round(c, n)'
      <4>1. Round(c, n)
        BY <2>8 DEF Waiting
      <4> QED BY <1>3, <2>4, <3>1, <4>1 DEF Round
    <3>3. (T_Connect \/ ucReTry = 0 \/ Expired)'
      <4>1. ucResend = 0 => ucResend' = 0
        BY <1>3
      <4> QED BY <1>2, <1>3, <2>8, <4>1 DEF Waiting, Expired
    <3>4. Waiting(c, n)'
      BY <1>3, <2>3, <2>5, <2>8, <3>2, <3>3 DEF Waiting
    <3> QED BY <1>11, <2>1, <2>2, <3>4, SameReply
  <2>9. ASSUME NEW k \in 1 .. PartsIn(c, n) - 1, Sending(c, n, k)
        PROVE  Place'
    <3>1. Sending(c, n, k)'
      BY <1>3, <2>3, <2>4, <2>5, <2>9 DEF Sending
    <3> QED BY <1>11, <2>1, <2>2, <3>1, SameReply
  <2> QED BY <1>11, <2>6, <2>7, <2>8, <2>9 DEF Replying
<1> QED BY <1>7, <1>8, <1>9, <1>10, <1>11 DEF Timely, Place

-----------------------------------------------------------------------------
(* Main's turn.                                                            *)

(* What a turn leaves of the phone's.                                      *)
phoneKeeps == <<toDevice, outbox, current, want, got, total, answers, retries, session>>

(* Without a connection a turn resets both directions.                     *)
LEMMA TurnDisconnected_Timely ==
    ASSUME General, Linked, Timely, TurnDisconnected, UNCHANGED phoneKeeps
    PROVE  Timely'
<1>1. /\ ~Ble_ConnnectFlag /\ Apdufinsh' = 0 /\ ucaRevPackN' = {} /\ ucReTry' = 0
      /\ ucResend' = 0 /\ SumPackNumber' = 0 /\ Sendlenth' = 0 /\ lr' = 0
      /\ blueRecivSendflag' = "NOdata" /\ pc' = "process"
      /\ UNCHANGED <<g_apdu, stm32, CMD09_oldlabel, uart_waitack_flag, toPhone>>
  BY DEF TurnDisconnected, reply_done, ble_transfer_init, command, radio
<1>2. UNCHANGED <<toDevice, outbox, current, want, got, total, answers>>
  BY DEF phoneKeeps
<1>3. LinkQuiet'
  BY <1>1, <1>2 DEF Linked, LinkQuiet
<1>4. Resting'
  <2>1. Calm' /\ Cleaned' /\ CutOff'
    BY <1>1 DEF Calm, Cleaned, Between, CutOff
  <2> QED BY <1>1, <1>3, <2>1 DEF Resting
<1>5. Stm32Works'
  BY <1>1, <1>2 DEF Timely, Stm32Works
<1>6. Awaits' /\ Answers'
  BY <1>1, <1>2 DEF Timely, Awaits, Answers
<1> QED BY <1>1, <1>4, <1>5, <1>6 DEF Timely, Place

(* Steps of main that are not about the place the device is in.            *)
LEMMA Steps_Same ==
    ASSUME Timely, UNCHANGED placeVars, UNCHANGED phoneKeeps,
           UNCHANGED <<CMD09_oldlabel, stm32>>, PassesOn,
           Ble_ConnnectFlag' = Ble_ConnnectFlag, unseen' = unseen,
           Between', pc # "remember_sent", pc' # "remember_sent", pc' # "retry_reply",
           Resting => CutOff',
           Whole => UNCHANGED Recivedataflag,
           ToWork => pc \in {"send", "resend", "retry", "process"}
                     /\ pc' \in {"send", "resend", "retry", "process"},
           \A c \in Commands : \A n \in 1 .. Len(ReplyLen[c]) :
               Queued(c, n) \/ Taken(c, n) => Queued(c, n)' \/ Taken(c, n)'
    PROVE  Timely'
<1>1. UNCHANGED peerVars
  BY DEF peerVars, phoneKeeps
<1>2. Receiving => (want = 0 => ~Ble_ConnnectFlag' /\ unseen')
  BY DEF Receiving
<1>3. Place' /\ Stm32Works' /\ Awaits' /\ Answers'
  BY <1>1, <1>2, SamePlace
<1> QED BY <1>3 DEF Timely

(* A reply that was queued is taken over.                                  *)
LEMMA TurnConnected_Timely ==
    ASSUME General, Linked, Timely, TurnConnected, UNCHANGED phoneKeeps, unseen' = unseen
    PROVE  Timely'
<1>1. /\ pc = "top" /\ pc' = "receive"
      /\ UNCHANGED <<toDevice, outbox, current, want, got, total, answers, retries, session>>
      /\ UNCHANGED <<Ble_ConnnectFlag, g_apdu, g_apdu_length, Recivedataflag, Apdufinsh,
                     ucaRevPackN, ucaPackMsg, T_Connect, ucReTry, ucResend>>
      /\ UNCHANGED <<SumPackNumber, Sendlenth, remberPackn, CMD09_oldlabel, stm32,
                     uart_waitack_flag, toPhone>>
  BY DEF TurnConnected, phoneKeeps, rx, both, command, radio
<1>2. Between' /\ pc # "remember_sent" /\ pc' # "remember_sent" /\ pc' # "retry_reply"
  BY <1>1 DEF Between
<1>3. CASE blueRecivSendflag = "Senddata"
  <2>1. lr' = g_apdu_length /\ blueRecivSendflag' = "NOdata"
    BY <1>3 DEF TurnConnected
  <2>0. PICK c \in Commands : \E n \in 1 .. Len(ReplyLen[c]) : Replying(c, n)
    <3>1. ~Resting /\ ~Receiving /\ ~Whole /\ ~ToWork
      BY <1>3 DEF Resting, Receiving, Whole, ToWork
    <3> QED BY <3>1 DEF Timely, Place
  <2>2. PICK n \in 1 .. Len(ReplyLen[c]) : Replying(c, n)
    BY <2>0
  <2>3. Queued(c, n)
    <3>1. ~Taken(c, n) /\ ~Waiting(c, n) /\ \A k : ~Sending(c, n, k)
      BY <1>3 DEF Taken, Waiting, Sending
    <3> QED BY <2>2, <3>1 DEF Replying
  <2>4. Taken(c, n)'
    <3>1. LinkQuiet' /\ Awaited(c, n)'
      BY <1>1, <2>3 DEF Queued, LinkQuiet, Awaited
    <3> QED BY <1>1, <2>1, <2>3, <3>1 DEF Queued, Taken, Calm
  <2>5. Place'
    BY <1>1, <1>2, <2>2, <2>4, SameReply
  <2>6. Stm32Works' /\ Awaits' /\ Answers'
    BY <1>1, SamePhone
  <2> QED BY <1>1, <2>5, <2>6 DEF Timely
<1>4. CASE blueRecivSendflag # "Senddata"
  <2>1. lr' = lr /\ blueRecivSendflag' = blueRecivSendflag
    BY <1>4 DEF TurnConnected
  <2>2. UNCHANGED placeVars
    BY <1>1, <2>1 DEF placeVars
  <2>3. Resting => CutOff'
    BY <1>1 DEF Resting, CutOff
  <2>4. ~ToWork
    BY <1>1 DEF ToWork
  <2>5. \A c, n : ~Queued(c, n) /\ ~Taken(c, n)
    BY <1>1, <1>4 DEF Queued, Taken
  <2>6. PassesOn
    BY <1>1 DEF PassesOn
  <2> QED BY <1>1, <1>2, <2>2, <2>3, <2>4, <2>5, <2>6, Steps_Same
<1> QED BY <1>3, <1>4

(* No round of retransmission; nothing to wait for; nothing announced.     *)
LEMMA Idle_Timely ==
    ASSUME General, Linked, Timely, NoReSend \/ RetryIdle \/ ProcessNothing,
           UNCHANGED phoneKeeps, unseen' = unseen
    PROVE  Timely'
<1>1. /\ UNCHANGED <<apdu, rx, both, tx, command, radio>>
      /\ Ble_ConnnectFlag' = Ble_ConnnectFlag
      /\ \/ pc = "resend" /\ pc' = "retry" /\ ucResend = 0
         \/ pc = "retry" /\ pc' = "process"
         \/ pc = "process" /\ pc' = "uart" /\ ~Announced
  BY DEF NoReSend, RetryIdle, ProcessNothing
<1>2. /\ UNCHANGED placeVars
      /\ UNCHANGED <<Recivedataflag, CMD09_oldlabel, stm32, uart_waitack_flag>>
  BY <1>1 DEF apdu, rx, both, tx, command, radio, placeVars, phoneKeeps
<1>3. Between' /\ pc # "remember_sent" /\ pc' # "remember_sent" /\ pc' # "retry_reply"
  BY <1>1 DEF Between
<1>4. PassesOn
  BY <1>2 DEF PassesOn
<1>5. Resting => CutOff'
  BY <1>1, <1>2 DEF Resting, CutOff, placeVars
<1>6. ToWork => Announced
  <2> SUFFICES ASSUME ToWork PROVE Announced
    OBVIOUS
  <2>1. current \in Commands /\ CrcGood(current) /\ g_apdu_length = CmdLen[current]
    BY DEF ToWork, Fresh
  <2>2. 0 \in 0 .. Parts(CmdLen[current]) - 1
    BY <2>1, CommandFits DEF AllParts
  <2>3. g_apdu[0] = CmdToken(current, TRUE)
    BY <2>1, <2>2 DEF CrcGood
  <2>4. LengthField = CmdLen[current]
    BY <2>3 DEF LengthField, CmdToken
  <2> QED BY <2>1, <2>4 DEF Announced, ToWork
<1>7. ToWork => /\ pc \in {"send", "resend", "retry", "process"}
                /\ pc' \in {"send", "resend", "retry", "process"}
  BY <1>1, <1>6
<1>8. \A c, n : ~Queued(c, n) /\ ~Taken(c, n)
  BY <1>1 DEF Queued, Taken
<1> QED BY <1>1, <1>2, <1>3, <1>4, <1>5, <1>7, <1>8, Steps_Same

(* The phone's acknowledgement goes to the STM32.                          *)
LEMMA UartTurn_Timely ==
    ASSUME General, Linked, Timely, UartTurn, UNCHANGED phoneKeeps, unseen' = unseen
    PROVE  Timely'
<1>1. /\ UNCHANGED <<apdu, rx, both, tx, CMD09_oldlabel, stm32, radio>>
      /\ Ble_ConnnectFlag' = Ble_ConnnectFlag
      /\ pc = "uart" /\ pc' = "top"
      /\ uart_waitack_flag' = IF uart_waitack_flag = 2 THEN 0 ELSE uart_waitack_flag
  BY DEF UartTurn
<1>2. UNCHANGED placeVars /\ UNCHANGED <<Recivedataflag, ucResend, ucaPackMsg>>
  BY <1>1 DEF apdu, rx, both, tx, radio, placeVars, phoneKeeps
<1>3. Between' /\ pc # "remember_sent" /\ pc' # "remember_sent" /\ pc' # "retry_reply"
  BY <1>1 DEF Between
<1>4. PassesOn
  BY <1>1 DEF PassesOn
<1>5. Resting => CutOff'
  BY <1>1, <1>2 DEF Resting, CutOff
<1>6. ~ToWork
  BY <1>1 DEF ToWork
<1>7. ASSUME NEW c, NEW n, Queued(c, n) \/ Taken(c, n)
      PROVE  Queued(c, n)'
  <2>1. Queued(c, n)
    BY <1>1, <1>7 DEF Taken
  <2>2. LinkQuiet' /\ Calm' /\ Awaited(c, n)'
    BY <1>2, <2>1 DEF Queued, LinkQuiet, Calm, Awaited, placeVars, phoneKeeps
  <2> QED BY <1>1, <1>2, <2>1, <2>2 DEF Queued, placeVars, phoneKeeps
<1> QED BY <1>1, <1>2, <1>3, <1>4, <1>5, <1>6, <1>7, Steps_Same

(* A complete command is moved and announced.                              *)
LEMMA Receive_Timely ==
    ASSUME General, Linked, Timely, Receive, UNCHANGED phoneKeeps, unseen' = unseen
    PROVE  Timely'
<1>1. /\ pc = "receive"
      /\ UNCHANGED <<toDevice, outbox, current, want, got, total, answers, retries, session>>
      /\ UNCHANGED <<Apdufinsh, ucaRevPackN, both, tx, command, radio>>
      /\ Ble_ConnnectFlag' = Ble_ConnnectFlag
  BY DEF Receive, phoneKeeps
<1>2. ~ToWork
  BY <1>1 DEF ToWork
<1>3. CASE Recivedataflag = 1 /\ Apdufinsh = 1
  <2>1. /\ pc' = "reset" /\ blueRecivSendflag' = "Recivedata"
        /\ g_apdu_length' = (g_apdu_length - 2) % 65536
        /\ g_apdu' = [k \in Part |->
                  IF k < Parts(g_apdu_length')
                  THEN IF g_apdu[k].aligned THEN NoToken
                       ELSE [g_apdu[k] EXCEPT !.aligned = TRUE]
                  ELSE g_apdu[k]]
    BY <1>3 DEF Receive
  <2>2. Whole
    <3>1. ~Resting /\ \A c, n : ~Replying(c, n)
      BY <1>3 DEF Resting, Replying, Cleaned
    <3>2. ~Receiving
      <4>1. Receiving => Apdufinsh \in {0, 2}
        BY DEF Receiving
      <4> QED BY <1>3, <4>1
    <3> QED BY <1>2, <3>1, <3>2 DEF Timely, Place
  <2>3. /\ current \in Commands /\ g_apdu_length = CmdLen[current] + 2
        /\ \A k \in AllParts(current) : g_apdu[k] = CmdToken(current, FALSE)
        /\ stm32.cmd = 0
    BY <2>2 DEF Whole, Fresh
  <2>4. g_apdu_length' = CmdLen[current]
    <3>1. CmdLen[current] \in Nat /\ CmdLen[current] < 65536
      BY <2>3, CommandFits
    <3>2. \A x \in Nat : x < 65536 => (x + 2 - 2) % 65536 = x
      BY SMT
    <3> QED BY <2>1, <2>3, <3>1, <3>2
  <2>5. CrcGood(current)'
    <3>1. current' = current
      BY <1>1
    <3>2. ASSUME NEW k \in 0 .. Parts(CmdLen[current]) - 1
          PROVE  g_apdu'[k] = CmdToken(current, TRUE)
      <4>1. k \in Part /\ k < Parts(CmdLen[current])
        BY <2>3, CommandFits DEF AllParts
      <4>2. g_apdu[k] = CmdToken(current, FALSE)
        BY <2>3 DEF AllParts
      <4>3. g_apdu'[k] = [g_apdu[k] EXCEPT !.aligned = TRUE]
        <5>1. ~g_apdu[k].aligned
          BY <2>3, <4>2, CmdFields
        <5> QED BY <2>1, <2>4, <4>1, <5>1
      <4>4. g_apdu[k] \in Tokens /\ ~g_apdu[k].aligned
        BY <2>3, <4>1, <4>2, CmdFields DEF General, Types, Buffers
      <4> QED BY <2>3, <4>2, <4>3, <4>4, TokenMoved
    <3> QED BY <3>1, <3>2 DEF CrcGood
  <2>6. Fresh' /\ LinkQuiet'
    BY <1>1, <2>2 DEF Whole, Fresh, Calm, LinkQuiet, both, tx, command, radio
  <2>7. ToWork'
    BY <1>1, <2>1, <2>4, <2>5, <2>6 DEF ToWork
  <2>8. Stm32Works' /\ Awaits' /\ Answers'
    <3>1. stm32'.cmd = 0
      BY <1>1, <2>3 DEF command
    <3>2. UNCHANGED CMD09_oldlabel
      BY <1>1 DEF command
    <3> QED BY <1>1, <3>1, <3>2 DEF Timely, Stm32Works, Awaits, Answers
  <2> QED BY <2>1, <2>7, <2>8 DEF Timely, Place
<1>4. CASE ~(Recivedataflag = 1 /\ Apdufinsh = 1)
  <2>1. pc' = "send" /\ UNCHANGED apdu
    BY <1>4 DEF Receive
  <2>2. /\ UNCHANGED placeVars /\ UNCHANGED <<CMD09_oldlabel, stm32, uart_waitack_flag>>
    BY <1>1, <2>1 DEF apdu, both, tx, command, radio, placeVars
  <2>3. Between' /\ pc # "remember_sent" /\ pc' # "remember_sent" /\ pc' # "retry_reply"
    BY <1>1, <2>1 DEF Between
  <2>4. PassesOn /\ ~Whole
    BY <1>4, <2>2 DEF PassesOn, Whole
  <2>5. Resting => CutOff'
    BY <1>1, <2>1, <2>2 DEF Resting, CutOff, placeVars
  <2>6. ASSUME NEW c, NEW n, Queued(c, n) \/ Taken(c, n)
        PROVE  Taken(c, n)'
    <3>1. Taken(c, n)
      BY <1>1, <2>6 DEF Queued
    <3>2. LinkQuiet' /\ Awaited(c, n)'
      BY <1>1, <2>2, <3>1 DEF Taken, LinkQuiet, Awaited, placeVars
    <3> QED BY <1>1, <2>1, <2>2, <3>1, <3>2 DEF Taken, placeVars
  <2> QED BY <1>1, <1>2, <2>2, <2>3, <2>4, <2>5, <2>6, Steps_Same
<1> QED BY <1>3, <1>4

(* And the next command can come.                                          *)
LEMMA ReceiveDone_Timely ==
    ASSUME General, Linked, Timely, ReceiveReset \/ ReceiveFinish, UNCHANGED phoneKeeps
    PROVE  Timely'
<1>1. /\ UNCHANGED <<toDevice, outbox, current, want, got, total, answers, retries, session>>
      /\ UNCHANGED <<g_apdu, g_apdu_length, blueRecivSendflag, tx, command, radio>>
      /\ \/ /\ pc = "reset" /\ pc' = "finish"
            /\ ucaRevPackN' = {} /\ ucReTry' = 0 /\ ucResend' = 0
         \/ /\ pc = "finish" /\ pc' = "send" /\ Apdufinsh' = 0
            /\ UNCHANGED <<ucaRevPackN, ucReTry, ucResend>>
  BY DEF ReceiveReset, ReceiveFinish, ble_transfer_init, phoneKeeps, apdu, both
<1>2. UNCHANGED <<lr, SumPackNumber, Sendlenth, stm32, CMD09_oldlabel, uart_waitack_flag,
                  toPhone>>
  BY <1>1 DEF tx, command, radio
<1>3. ToWork
  <2>1. ~Between
    BY <1>1 DEF Between
  <2> QED BY <2>1 DEF Timely, Place, Resting, Receiving, Whole, Replying, Cleaned
<1>4. ToWork'
  <2>1. Fresh' /\ LinkQuiet'
    BY <1>1, <1>2, <1>3 DEF ToWork, Fresh, Calm, LinkQuiet
  <2>2. CrcGood(current)' /\ g_apdu_length' = CmdLen[current'] /\ blueRecivSendflag' = "Recivedata"
    BY <1>1, <1>3 DEF ToWork, CrcGood
  <2>3. \/ pc' = "finish" /\ ucaRevPackN' = {} /\ ucReTry' = 0
        \/ pc' = "send" /\ Cleaned' /\ ucReTry' = 0
    BY <1>1, <1>3 DEF ToWork, Cleaned, Between
  <2> QED BY <2>1, <2>2, <2>3 DEF ToWork
<1>5. Stm32Works' /\ Awaits' /\ Answers'
  <2>1. stm32'.cmd = 0
    BY <1>2, <1>3 DEF ToWork, Fresh
  <2> QED BY <1>1, <1>2, <2>1 DEF Timely, Stm32Works, Awaits, Answers
<1> QED BY <1>1, <1>4, <1>5 DEF Timely, Place

(* A further packet of a reply goes out, or is lost.                       *)
LEMMA Outgoing_More ==
    ASSUME Types, NEW c \in Commands, NEW n \in 1 .. Len(ReplyLen[c]),
           NEW k \in 0 .. PartsIn(c, n) - 1,
           Outgoing(c, n), k \notin DOMAIN got,
           \A i \in DOMAIN toPhone : toPhone[i].idx < k,
           ble_txrx_Send(Notified(c, n, k)),
           UNCHANGED <<toDevice, outbox, got>>
    PROVE  /\ Outgoing(c, n)'
           /\ \A i \in DOMAIN toPhone' : toPhone'[i].idx <= k
<1>1. k \in Nat /\ Notified(c, n, k).idx = k
  BY ReplyInside DEF Notified, Data
<1>2. toPhone' = toPhone \/ toPhone' = Append(toPhone, Notified(c, n, k))
  BY DEF ble_txrx_Send
<1>3. /\ toDevice = <<>> /\ outbox = <<>> /\ Ascending(toPhone)
      /\ \A i \in DOMAIN toPhone :
            \E j \in 0 .. PartsIn(c, n) - 1 : toPhone[i] = Notified(c, n, j) /\ j \notin DOMAIN got
  BY DEF Outgoing
<1>4. \A i \in DOMAIN toPhone : toPhone[i].idx \in Nat
  <2>1. ASSUME NEW i \in DOMAIN toPhone
        PROVE  toPhone[i].idx \in Nat
    <3>1. PICK j \in 0 .. PartsIn(c, n) - 1 : toPhone[i] = Notified(c, n, j)
      BY <1>3
    <3> QED BY <3>1, ReplyInside DEF Notified, Data
  <2> QED BY <2>1
<1>5. CASE toPhone' = toPhone
  <2>1. Outgoing(c, n)'
    BY <1>3, <1>5 DEF Outgoing, Ascending
  <2>2. ASSUME NEW i \in DOMAIN toPhone'
        PROVE  toPhone'[i].idx <= k
    <3>1. toPhone[i].idx < k /\ toPhone[i].idx \in Nat
      BY <1>4, <1>5, <2>2
    <3> QED BY <1>1, <1>5, <3>1
  <2> QED BY <2>1, <2>2
<1>6. CASE toPhone' = Append(toPhone, Notified(c, n, k))
  <2> DEFINE S == Notes \union {Notified(c, n, k)}
  <2>1. toPhone \in Seq(S) /\ Notified(c, n, k) \in S
    BY DEF Types, Buffers
  <2> HIDE DEF S
  <2>2. \A i \in DOMAIN toPhone : toPhone[i].idx < Notified(c, n, k).idx
    BY <1>1
  <2>3. Ascending(toPhone')
    BY <1>3, <1>6, <2>1, <2>2, AscendingAppend
  <2>4. \A i \in DOMAIN toPhone' : \/ i \in DOMAIN toPhone /\ toPhone'[i] = toPhone[i]
                                   \/ toPhone'[i] = Notified(c, n, k)
    BY <1>6, <2>1, AppendAt
  <2>5. \A i \in DOMAIN toPhone' :
            \E j \in 0 .. PartsIn(c, n) - 1 : toPhone'[i] = Notified(c, n, j) /\ j \notin DOMAIN got
    BY <1>3, <2>4
  <2>6. Outgoing(c, n)'
    BY <1>3, <2>3, <2>5 DEF Outgoing, Ascending, Notified, PartsIn
  <2>7. ASSUME NEW i \in DOMAIN toPhone'
        PROVE  toPhone'[i].idx <= k
    <3>1. CASE i \in DOMAIN toPhone /\ toPhone'[i] = toPhone[i]
      <4>1. toPhone[i].idx < k /\ toPhone[i].idx \in Nat
        BY <1>4, <3>1
      <4> QED BY <1>1, <3>1, <4>1
    <3>2. CASE toPhone'[i] = Notified(c, n, k)
      BY <1>1, <3>2
    <3> QED BY <2>4, <2>7, <3>1, <3>2
  <2> QED BY <2>6, <2>7
<1> QED BY <1>2, <1>5, <1>6

(* What Send does when a reply is on its way, as facts.                    *)
LEMMA Send_Is ==
    ASSUME Send, lr # 0
    PROVE  /\ SumPackNumber' = Parts(lr) % 256
           /\ ble_txrx_Send(Data(NextPart, Parts(lr) % 256, PartAt(NextPart)))
           /\ (lr <= First \/ (Sendlenth # 0 /\ SumPackNumber' - NextPart = 1)) =>
                 lr' = 0 /\ Sendlenth' = lr /\ T_Connect' = TRUE
           /\ ~ (lr <= First \/ (Sendlenth # 0 /\ SumPackNumber' - NextPart = 1)) =>
                 /\ lr' = lr
                 /\ Sendlenth = 0 => Sendlenth' = First
                 /\ Sendlenth # 0 => Sendlenth' = (Sendlenth + Payload) % 65536
                 /\ T_Connect => T_Connect'
<1> DEFINE done  == lr <= First \/ (Sendlenth # 0 /\ SumPackNumber' - NextPart = 1)
           out   == ble_txrx_Send(Data(NextPart, SumPackNumber', PartAt(NextPart)))
           after == (Sendlenth + Payload) % 65536
           count == Parts(lr) % 256
<1>1. /\ SumPackNumber' = count /\ out
      /\ lr' = IF done THEN 0 ELSE lr
      /\ Sendlenth' = IF done THEN lr ELSE IF Sendlenth = 0 THEN First ELSE after
      /\ T_Connect' = (done \/ T_Connect)
  BY DEF Send
<1> HIDE DEF after, count
<1>2. ble_txrx_Send(Data(NextPart, count, PartAt(NextPart)))
  BY <1>1
<1>3. done => lr' = 0 /\ Sendlenth' = lr /\ T_Connect' = TRUE
  <2> HIDE DEF done, out
  <2> QED BY <1>1
<1>4. ~done => /\ lr' = lr
               /\ Sendlenth = 0 => Sendlenth' = First
               /\ Sendlenth # 0 => Sendlenth' = after
               /\ T_Connect => T_Connect'
  <2> HIDE DEF done, out
  <2> QED BY <1>1
<1>5. SumPackNumber' = Parts(lr) % 256
  BY <1>1 DEF count
<1>6. ble_txrx_Send(Data(NextPart, Parts(lr) % 256, PartAt(NextPart)))
  BY <1>2 DEF count
<1>7. ~done => /\ lr' = lr
               /\ Sendlenth = 0 => Sendlenth' = First
               /\ Sendlenth # 0 => Sendlenth' = (Sendlenth + Payload) % 65536
               /\ T_Connect => T_Connect'
  <2> HIDE DEF done
  <2> QED BY <1>4 DEF after
<1> QED BY <1>3, <1>5, <1>6, <1>7

(* The last packet goes out.                                               *)
LEMMA Send_Last ==
    ASSUME Send, lr # 0, Sendlenth # 0, SumPackNumber' - NextPart = 1
    PROVE  lr' = 0 /\ Sendlenth' = lr /\ T_Connect' = TRUE
<1> DEFINE done  == lr <= First \/ (Sendlenth # 0 /\ SumPackNumber' - NextPart = 1)
           out   == ble_txrx_Send(Data(NextPart, SumPackNumber', PartAt(NextPart)))
           after == (Sendlenth + Payload) % 65536
<1>1. /\ lr' = IF done THEN 0 ELSE lr
      /\ Sendlenth' = IF done THEN lr ELSE IF Sendlenth = 0 THEN First ELSE after
      /\ T_Connect' = (done \/ T_Connect)
  BY DEF Send
<1>2. done
  OBVIOUS
<1> HIDE DEF done, out, after
<1> QED BY <1>1, <1>2

(* The first packet of a reply goes out.                                   *)
LEMMA Taken_Sends ==
    ASSUME General, Timely, Send, UNCHANGED phoneKeeps,
           NEW c \in Commands, NEW n \in 1 .. Len(ReplyLen[c]), Replying(c, n), Taken(c, n)
    PROVE  Waiting(c, n)' \/ (PartsIn(c, n) - 1 >= 1 /\ Sending(c, n, 1)')
<1>1. /\ LinkQuiet /\ lr = ReplyLen[c][n] /\ Sendlenth = 0
      /\ ucResend = 0 /\ ucReTry = 0 /\ total = 0 /\ Awaited(c, n)
      /\ blueRecivSendflag = "NOdata"
  BY DEF Taken
<1>2. /\ UNCHANGED <<toDevice, outbox, current, want, got, total>>
      /\ UNCHANGED <<ucResend, ucReTry, blueRecivSendflag>> /\ pc' = "resend"
  BY DEF Send, phoneKeeps, apdu
<1>3. /\ lr \in Nat /\ lr # 0
      /\ PartsIn(c, n) \in Nat /\ PartsIn(c, n) >= 1 /\ PartsIn(c, n) <= 120
      /\ lr <= 16 <=> PartsIn(c, n) = 1
  <2>1. /\ ReplyLen[c][n] \in Nat /\ ReplyLen[c][n] >= 6
        /\ PartsIn(c, n) \in Nat /\ PartsIn(c, n) >= 1 /\ PartsIn(c, n) <= 120
    BY ReplySizes
  <2>2. ReplyLen[c][n] <= 16 <=> PartsIn(c, n) = 1
    BY ReplySizes
  <2>3. lr = ReplyLen[c][n]
    BY <1>1
  <2> QED BY <2>1, <2>2, <2>3, SMT
<1>4. Parts(lr) % 256 = PartsIn(c, n)
  <2>1. Parts(lr) = PartsIn(c, n)
    BY <1>1 DEF PartsIn
  <2>2. \A x \in Nat : x <= 120 => x % 256 = x
    BY SMT
  <2> QED BY <1>3, <2>1, <2>2
<1>5. NextPart = 0
  BY <1>1 DEF NextPart
<1>6. PartAt(0) = RspToken(c, c, n) /\ 0 \in 0 .. PartsIn(c, n) - 1
  <2>1. 0 \in 0 .. PartsIn(c, n) - 1 /\ 0 \in Part
    BY <1>3, Limits
  <2> QED BY <2>1 DEF PartAt, Replying
<1>7. ble_txrx_Send(Notified(c, n, 0)) /\ SumPackNumber' = PartsIn(c, n)
  BY <1>3, <1>4, <1>5, <1>6, Send_Is DEF Notified
<1>8. DOMAIN got = {} /\ DOMAIN toPhone = {}
  BY <1>1 DEF Timely, Awaits, LinkQuiet
<1>9. Outgoing(c, n)
  BY <1>1, <1>8 DEF Outgoing, Ascending, LinkQuiet
<1>10. Outgoing(c, n)' /\ \A i \in DOMAIN toPhone' : toPhone'[i].idx <= 0
  BY <1>2, <1>6, <1>7, <1>8, <1>9, Outgoing_More DEF General
<1>11. Awaited(c, n)'
  BY <1>1, <1>2 DEF Awaited
<1>12. CASE lr <= First
  <2>1. lr' = 0 /\ Sendlenth' = lr /\ T_Connect' = TRUE
    BY <1>3, <1>12, Send_Is
  <2>2. Round(c, n)'
    BY <1>1, <1>2 DEF Round
  <2>3. Waiting(c, n)'
    BY <1>1, <1>2, <1>7, <1>10, <1>11, <2>1, <2>2 DEF Waiting
  <2> QED BY <2>3
<1>13. CASE ~ (lr <= First)
  <2>1. lr' = lr /\ Sendlenth' = First
    BY <1>1, <1>3, <1>13, Send_Is
  <2>2. Sendlenth' = First + Payload * (1 - 1)
    BY <2>1, Sizes
  <2>3. \A i \in DOMAIN toPhone' : toPhone'[i].idx < 1
    <3>1. ASSUME NEW i \in DOMAIN toPhone'
          PROVE  toPhone'[i].idx < 1
      <4>1. PICK j \in 0 .. PartsIn(c, n) - 1 : toPhone'[i] = Notified(c, n, j)
        BY <1>10 DEF Outgoing, Notified, PartsIn
      <4>2. toPhone'[i].idx = j /\ j \in Int
        BY <4>1 DEF Notified, Data
      <4> QED BY <1>10, <4>2
    <3> QED BY <3>1
  <2>4. DOMAIN got' = {}
    BY <1>2, <1>8
  <2>5. Sending(c, n, 1)'
    BY <1>1, <1>2, <1>7, <1>10, <1>11, <2>1, <2>2, <2>3, <2>4 DEF Sending
  <2>6. PartsIn(c, n) - 1 >= 1
    BY <1>3, <1>13, Sizes
  <2> QED BY <2>5, <2>6
<1> QED BY <1>12, <1>13

(* The packet that is next.                                                *)
LEMMA Sending_Next ==
    ASSUME NEW c \in Commands, NEW n \in 1 .. Len(ReplyLen[c]), Replying(c, n),
           NEW k \in 1 .. PartsIn(c, n) - 1, Sending(c, n, k)
    PROVE  /\ ~ (lr <= First) /\ Sendlenth = 16 + 18 * (k - 1) /\ Sendlenth # 0
           /\ NextPart = k /\ k \in 0 .. PartsIn(c, n) - 1 /\ PartAt(k) = RspToken(c, c, n)
<1>1. lr = ReplyLen[c][n] /\ Sendlenth = First + Payload * (k - 1)
  BY DEF Sending
<1>2. /\ lr \in Nat /\ PartsIn(c, n) \in Nat /\ PartsIn(c, n) <= 120
  <2>1. /\ ReplyLen[c][n] \in Nat
        /\ PartsIn(c, n) \in Nat /\ PartsIn(c, n) <= 120
    BY ReplySizes
  <2> QED BY <1>1, <2>1
<1>3. k \in Nat /\ k >= 1 /\ k <= PartsIn(c, n) - 1
  BY <1>2
<1>4. ~ (lr <= First)
  <2>1. ReplyLen[c][n] <= 16 <=> PartsIn(c, n) = 1
    BY ReplySizes
  <2> QED BY <1>1, <1>2, <1>3, <2>1, Sizes
<1>5. Sendlenth = 16 + 18 * (k - 1) /\ Sendlenth # 0 /\ ~ (Sendlenth < First)
  BY <1>1, <1>3, Sizes
<1>6. NextPart = k
  <2>1. NextPart = ((Sendlenth - First) \div Payload + 1) % 256
    BY <1>4, <1>5 DEF NextPart
  <2>2. \A x \in Nat : (16 + 18 * x - 16) \div 18 = x
    BY SMT
  <2>3. k - 1 \in Nat
    BY <1>3
  <2>4. (Sendlenth - First) \div Payload + 1 = k
    BY <1>3, <1>5, <2>2, <2>3, Sizes
  <2>5. \A x \in Nat : x <= 120 => x % 256 = x
    BY SMT
  <2>6. k <= 120
    BY <1>2, <1>3
  <2> QED BY <1>3, <2>1, <2>4, <2>5, <2>6
<1>7. k \in 0 .. PartsIn(c, n) - 1 /\ k \in Part
  <2>1. k \in 0 .. PartsIn(c, n) - 1
    BY <1>2, <1>3
  <2> QED BY <2>1, ReplyInside
<1>8. PartAt(k) = RspToken(c, c, n)
  <2>1. Sendlenth = First + (k - 1) * Payload
    BY <1>3, <1>5, Sizes
  <2> QED BY <1>7, <2>1 DEF PartAt, Replying
<1> QED BY <1>4, <1>5, <1>6, <1>7, <1>8

(* A further packet of a reply goes out.                                   *)
LEMMA Sending_Sends ==
    ASSUME General, Timely, Send, UNCHANGED phoneKeeps,
           NEW c \in Commands, NEW n \in 1 .. Len(ReplyLen[c]), Replying(c, n),
           NEW k \in 1 .. PartsIn(c, n) - 1, Sending(c, n, k)
    PROVE  Waiting(c, n)' \/ (k + 1 \in 1 .. PartsIn(c, n) - 1 /\ Sending(c, n, k + 1)')
<1>1. /\ lr = ReplyLen[c][n] /\ Sendlenth = First + Payload * (k - 1)
      /\ blueRecivSendflag = "NOdata" /\ ucResend = 0 /\ (T_Connect \/ ucReTry = 0)
      /\ Outgoing(c, n) /\ Awaited(c, n)
      /\ \A i \in DOMAIN toPhone : toPhone[i].idx < k
      /\ \A i \in DOMAIN got : i < k
  BY DEF Sending
<1>2. /\ UNCHANGED <<toDevice, outbox, current, want, got, total>>
      /\ UNCHANGED <<ucResend, ucReTry, blueRecivSendflag>> /\ pc' = "resend"
  BY DEF Send, phoneKeeps, apdu
<1>3. /\ lr \in Nat /\ lr # 0
      /\ PartsIn(c, n) \in Nat /\ PartsIn(c, n) <= 120 /\ PartsIn(c, n) <= MaxParts
      /\ MaxParts \in Nat
  <2>1. /\ ReplyLen[c][n] \in Nat /\ ReplyLen[c][n] >= 6
        /\ PartsIn(c, n) \in Nat /\ PartsIn(c, n) <= 120 /\ PartsIn(c, n) <= MaxParts
    BY ReplySizes
  <2>2. lr = ReplyLen[c][n] /\ MaxParts \in Nat
    BY <1>1, Limits
  <2> QED BY <2>1, <2>2, SMT
<1>4. k \in Nat /\ k >= 1 /\ k <= PartsIn(c, n) - 1
  BY <1>3
<1>5. /\ ~ (lr <= First)
      /\ Sendlenth = 16 + 18 * (k - 1) /\ Sendlenth # 0
      /\ NextPart = k /\ PartAt(k) = RspToken(c, c, n)
      /\ k \in 0 .. PartsIn(c, n) - 1
  BY Sending_Next
<1>6. Sendlenth = 16 + 18 * (k - 1) /\ Sendlenth # 0
  BY <1>5
<1>7. NextPart = k
  BY <1>5
<1>8. Parts(lr) % 256 = PartsIn(c, n)
  <2>1. Parts(lr) = PartsIn(c, n)
    BY <1>1 DEF PartsIn
  <2>2. \A x \in Nat : x <= 120 => x % 256 = x
    BY SMT
  <2> QED BY <1>3, <2>1, <2>2
<1>9. k \in 0 .. PartsIn(c, n) - 1
  BY <1>5
<1>10. PartAt(k) = RspToken(c, c, n)
  BY <1>5
<1>11. ble_txrx_Send(Notified(c, n, k)) /\ SumPackNumber' = PartsIn(c, n)
  BY <1>3, <1>7, <1>8, <1>10, Send_Is DEF Notified
<1>12. k \notin DOMAIN got
  BY <1>1, <1>4
<1>13. Outgoing(c, n)' /\ \A i \in DOMAIN toPhone' : toPhone'[i].idx <= k
  BY <1>1, <1>2, <1>9, <1>11, <1>12, Outgoing_More DEF General
<1>14. Awaited(c, n)'
  BY <1>1, <1>2 DEF Awaited
<1>15. CASE PartsIn(c, n) - k = 1
  <2>1. lr' = 0 /\ Sendlenth' = lr /\ T_Connect' = TRUE
    <3>1. Sendlenth # 0 /\ SumPackNumber' - NextPart = 1
      BY <1>6, <1>7, <1>11, <1>15
    <3> QED BY <1>3, <3>1, Send_Last
  <2>2. Round(c, n)'
    BY <1>1, <1>2 DEF Round
  <2>3. Waiting(c, n)'
    BY <1>1, <1>2, <1>11, <1>13, <1>14, <2>1, <2>2 DEF Waiting
  <2> QED BY <2>3
<1>16. CASE PartsIn(c, n) - k # 1
  <2>1. (Sendlenth + Payload) % 65536 = Sendlenth + Payload
    <3>1. Sendlenth + Payload \in Nat /\ Sendlenth + Payload < 65536
      BY <1>3, <1>4, <1>6, Sizes
    <3> DEFINE after == Sendlenth + Payload
    <3> HIDE DEF after
    <3>2. \A x \in Nat : x < 65536 => x % 65536 = x
      BY SMT
    <3>3. after \in Nat /\ after < 65536
      BY <3>1 DEF after
    <3>4. after % 65536 = after
      BY <3>2, <3>3
    <3> QED BY <3>4 DEF after
  <2>2. lr' = lr /\ Sendlenth' = Sendlenth + Payload /\ (T_Connect => T_Connect')
    <3>1. ~ (lr <= First \/ (Sendlenth # 0 /\ SumPackNumber' - NextPart = 1))
      BY <1>5, <1>7, <1>11, <1>16
    <3> QED BY <1>3, <1>6, <2>1, <3>1, Send_Is
  <2>3. Sendlenth' = First + Payload * (k + 1 - 1)
    BY <1>4, <1>6, <2>2, Sizes
  <2>4. \A i \in DOMAIN toPhone' : toPhone'[i].idx < k + 1
    <3>1. ASSUME NEW i \in DOMAIN toPhone'
          PROVE  toPhone'[i].idx < k + 1
      <4>1. PICK j \in 0 .. PartsIn(c, n) - 1 : toPhone'[i] = Notified(c, n, j)
        BY <1>13 DEF Outgoing, Notified, PartsIn
      <4>2. toPhone'[i].idx = j /\ j \in Int
        BY <4>1 DEF Notified, Data
      <4> QED BY <1>4, <1>13, <4>2
    <3> QED BY <3>1
  <2>5. \A i \in DOMAIN got' : i < k + 1
    <3>1. ASSUME NEW i \in DOMAIN got'
          PROVE  i < k + 1
      <4>1. i < k /\ i \in Nat
        BY <1>1, <1>2 DEF General, Types, Phone, Indices
      <4> QED BY <1>4, <4>1
    <3> QED BY <3>1
  <2>6. T_Connect' \/ ucReTry' = 0
    BY <1>1, <1>2, <2>2
  <2>7. Sending(c, n, k + 1)'
    BY <1>1, <1>2, <1>11, <1>13, <1>14, <2>2, <2>3, <2>4, <2>5, <2>6 DEF Sending
  <2>8. k + 1 \in 1 .. PartsIn(c, n) - 1
    BY <1>3, <1>4, <1>16
  <2> QED BY <2>7, <2>8
<1> QED BY <1>15, <1>16

(* One packet of the reply in each turn.                                   *)
LEMMA Send_Timely ==
    ASSUME General, Linked, Timely, Send, UNCHANGED phoneKeeps, unseen' = unseen
    PROVE  Timely'
<1>1. /\ UNCHANGED <<toDevice, outbox, current, want, got, total, answers, retries, session>>
      /\ UNCHANGED <<Ble_ConnnectFlag, g_apdu, g_apdu_length, blueRecivSendflag,
                     Recivedataflag, Apdufinsh, ucaRevPackN, ucaPackMsg, ucReTry, ucResend>>
      /\ UNCHANGED <<remberPackn, CMD09_oldlabel, uart_waitack_flag, stm32>>
      /\ pc = "send" /\ pc' = "resend"
  BY DEF Send, phoneKeeps, apdu, rx, command
<1>2. Between' /\ pc # "remember_sent" /\ pc' # "remember_sent" /\ pc' # "retry_reply"
  BY <1>1 DEF Between
<1>3. CASE lr = 0
  <2>1. UNCHANGED <<lr, SumPackNumber, Sendlenth, T_Connect, radio>>
    BY <1>3 DEF Send
  <2>2. UNCHANGED placeVars
    BY <1>1, <2>1 DEF placeVars, radio
  <2>3. Resting => CutOff'
    BY <1>1 DEF Resting, CutOff
  <2>4. PassesOn
    BY <1>1 DEF PassesOn
  <2>5. \A c \in Commands : \A n \in 1 .. Len(ReplyLen[c]) : ~Queued(c, n) /\ ~Taken(c, n)
    <3>1. ASSUME NEW c \in Commands, NEW n \in 1 .. Len(ReplyLen[c])
          PROVE  ~Queued(c, n) /\ ~Taken(c, n)
      <4>1. ReplyLen[c][n] # 0
        BY ReplySizes, SMT
      <4> QED BY <1>1, <1>3, <4>1 DEF Queued, Taken
    <3> QED BY <3>1
  <2> QED BY <1>1, <1>2, <2>2, <2>3, <2>4, <2>5, Steps_Same
<1>4. CASE lr # 0
  <2>1. PICK c \in Commands : \E n \in 1 .. Len(ReplyLen[c]) : Replying(c, n)
    <3>1. ~Resting /\ ~Receiving /\ ~Whole /\ ~ToWork
      BY <1>4 DEF Resting, Receiving, Whole, ToWork, Fresh, Calm
    <3> QED BY <3>1 DEF Timely, Place
  <2>2. PICK n \in 1 .. Len(ReplyLen[c]) : Replying(c, n)
    BY <2>1
  <2>3. ~Queued(c, n) /\ ~Waiting(c, n)
    BY <1>4 DEF Queued, Calm, Waiting
  <2>4. Waiting(c, n)' \/ \E k \in 1 .. PartsIn(c, n) - 1 : Sending(c, n, k)'
    <3>1. CASE Taken(c, n)
      <4>1. Waiting(c, n)' \/ (PartsIn(c, n) - 1 >= 1 /\ Sending(c, n, 1)')
        BY <2>2, <3>1, Taken_Sends
      <4>2. PartsIn(c, n) - 1 >= 1 => 1 \in 1 .. PartsIn(c, n) - 1
        BY ReplySizes
      <4> QED BY <4>1, <4>2
    <3>2. ASSUME NEW k \in 1 .. PartsIn(c, n) - 1, Sending(c, n, k)
          PROVE  Waiting(c, n)' \/ \E j \in 1 .. PartsIn(c, n) - 1 : Sending(c, n, j)'
      BY <2>2, <3>2, Sending_Sends
    <3> QED BY <2>2, <2>3, <3>1, <3>2 DEF Replying
  <2>5. Place'
    BY <1>1, <1>2, <2>2, <2>4, SameReply
  <2>6. Stm32Works' /\ Awaits' /\ Answers'
    BY <1>1, SamePhone
  <2> QED BY <1>2, <2>5, <2>6 DEF Timely
<1> QED BY <1>3, <1>4

(* A round of retransmission is under way only when the reply is out, or   *)
(* was acknowledged in the middle of it.                                   *)
LEMMA WhereRound ==
    ASSUME Place, ucResend = 1
    PROVE  \/ Resting
           \/ \E c \in Commands : \E n \in 1 .. Len(ReplyLen[c]) :
                 Replying(c, n) /\ Waiting(c, n)
<1>1. ~Receiving /\ ~Whole /\ ~ToWork
  BY DEF Receiving, Whole, ToWork, Fresh
<1>2. \A c, n : ~Queued(c, n) /\ ~Taken(c, n) /\ \A k : ~Sending(c, n, k)
  BY DEF Queued, Taken, Sending
<1>3. \A c, n : Replying(c, n) => Waiting(c, n)
  BY <1>2 DEF Replying
<1> QED BY <1>1, <1>3 DEF Place

(* What is ahead in a round, and what is not there yet.                    *)
LEMMA Round_Is ==
    ASSUME General, NEW c \in Commands, NEW n \in 1 .. Len(ReplyLen[c]), Waiting(c, n),
           ucResend = 1, ~AtLast
    PROVE  /\ ucaPackMsg.miss \subseteq 0 .. PartsIn(c, n) - 1
           /\ Bits \in Int /\ Bits <= 120
           /\ \A k \in Ahead : /\ k \notin DOMAIN got
                               /\ \A i \in DOMAIN toPhone : toPhone[i].idx < k
           /\ \A i \in DOMAIN toPhone : toPhone[i].idx # PartsIn(c, n) - 1
           /\ pc = "remember_sent" => remberPackn < Bits
           /\ ToSend = Ahead /\ ~Asks
           /\ T_Connect \/ ucReTry = 0
           /\ remberPackn \in Nat /\ remberPackn < 256
<1>1. Round(c, n) /\ (T_Connect \/ ucReTry = 0 \/ Expired)
  BY DEF Waiting
<1>2. /\ ucaPackMsg.miss \subseteq 0 .. PartsIn(c, n) - 1 /\ Bits <= 120
      /\ \A k \in Ahead : /\ k \notin DOMAIN got
                          /\ \A i \in DOMAIN toPhone : toPhone[i].idx < k
      /\ \A i \in DOMAIN toPhone : toPhone[i].idx # PartsIn(c, n) - 1
      /\ pc = "remember_sent" => remberPackn < Bits
  BY <1>1 DEF Round
<1>3. ucaPackMsg.len \in Nat /\ remberPackn \in Indices
  BY DEF General, Types, Buffers, Scalars, Messages
<1>4. Bits \in Int /\ remberPackn \in Nat /\ remberPackn < 256
  BY <1>3 DEF Bits, Indices
<1>5. ToSend = Ahead /\ ~Asks /\ ~Expired
  BY DEF ToSend, Asks, Expired
<1> QED BY <1>1, <1>2, <1>4, <1>5

(* A packet the phone missed goes out again.                               *)
LEMMA Waiting_Resends ==
    ASSUME General, Timely, ReSend, Wanted, UNCHANGED phoneKeeps,
           NEW c \in Commands, NEW n \in 1 .. Len(ReplyLen[c]), Replying(c, n), Waiting(c, n)
    PROVE  Waiting(c, n)'
<1> DEFINE r == remberPackn
<1>1. /\ pc = "resend" /\ ucResend = 1 /\ pc' = "remember_sent"
      /\ UNCHANGED <<toDevice, outbox, current, want, got, total>>
      /\ UNCHANGED <<blueRecivSendflag, ucaPackMsg, T_Connect, ucReTry, ucResend, lr,
                     SumPackNumber, Sendlenth, remberPackn>>
  BY DEF ReSend, phoneKeeps, apdu, both
<1>2. ble_txrx_Send(Data(r, SumPackNumber, IF r \in Part THEN g_apdu[r] ELSE NoToken))
  BY DEF ReSend
<1>3. ~AtLast
  BY <1>1 DEF AtLast
<1>4. /\ ucaPackMsg.miss \subseteq 0 .. PartsIn(c, n) - 1
      /\ Bits \in Int /\ Bits <= 120
      /\ \A k \in Ahead : /\ k \notin DOMAIN got
                          /\ \A i \in DOMAIN toPhone : toPhone[i].idx < k
      /\ ToSend = Ahead /\ ~Asks /\ (T_Connect \/ ucReTry = 0)
      /\ remberPackn \in Nat /\ remberPackn < 256
  BY <1>1, <1>3, Round_Is
<1>5. r \in ucaPackMsg.miss /\ r < Bits /\ r \in 0 .. PartsIn(c, n) - 1
  BY <1>4 DEF Wanted
<1>6. r \in Ahead
  BY <1>1, <1>4, <1>5 DEF Ahead
<1>7. /\ r \notin DOMAIN got
      /\ \A i \in DOMAIN toPhone : toPhone[i].idx < r
  BY <1>4, <1>6
<1>8. Outgoing(c, n) /\ Awaited(c, n)
  <2>1. ToSend # {}
    BY <1>4, <1>6
  <2> QED BY <1>4, <2>1 DEF Waiting, Acks
<1>9. ble_txrx_Send(Notified(c, n, r))
  <2>1. r \in Part
    BY <1>5, ReplyInside
  <2>2. g_apdu[r] = RspToken(c, c, n)
    BY <1>5 DEF Replying
  <2>3. SumPackNumber = PartsIn(c, n)
    BY DEF Waiting
  <2> QED BY <1>2, <2>1, <2>2, <2>3 DEF Notified
<1>10. /\ Outgoing(c, n)'
       /\ \A i \in DOMAIN toPhone' : toPhone'[i].idx <= r
  BY <1>1, <1>5, <1>7, <1>8, <1>9, Outgoing_More DEF General
<1>11. \A i \in DOMAIN toPhone' : toPhone'[i].idx \in Nat
  <2>1. ASSUME NEW i \in DOMAIN toPhone'
        PROVE  toPhone'[i].idx \in Nat
    <3>1. PICK j \in 0 .. PartsIn(c, n) - 1 : toPhone'[i] = Notified(c, n, j)
      BY <1>10 DEF Outgoing, Notified, PartsIn
    <3> QED BY <3>1, ReplyInside DEF Notified, Data
  <2> QED BY <2>1
<1>12. Bits' = Bits
  BY <1>1 DEF Bits
<1>13. Ahead' \subseteq {k \in Ahead : k > r}
  <2>1. ~ (remberPackn' > Bits')
    BY <1>1, <1>4, <1>5, <1>12
  <2>2. Ahead' = {k \in ucaPackMsg.miss : k > r}
    BY <1>1, <1>4, <2>1 DEF Ahead
  <2>3. ~ (r > Bits)
    BY <1>4, <1>5
  <2>4. Ahead = {k \in ucaPackMsg.miss : k > r \/ (k = r /\ pc # "remember_sent")}
    BY <2>3 DEF Ahead
  <2> QED BY <2>2, <2>4
<1>14. Round(c, n)'
  <2> SUFFICES ASSUME ~AtLast'
               PROVE  /\ ucaPackMsg'.miss \subseteq 0 .. PartsIn(c, n) - 1 /\ Bits' <= 120
                      /\ \A k \in Ahead' : /\ k \notin DOMAIN got'
                                           /\ \A i \in DOMAIN toPhone' : toPhone'[i].idx < k
                      /\ \A i \in DOMAIN toPhone' : toPhone'[i].idx # PartsIn(c, n) - 1
                      /\ remberPackn' < Bits'
    BY DEF Round, PartsIn
  <2>1. r # PartsIn(c, n) - 1
    <3>1. r + 1 # SumPackNumber
      BY <1>1 DEF AtLast
    <3>2. SumPackNumber = PartsIn(c, n) /\ PartsIn(c, n) \in Nat
      BY ReplySizes DEF Waiting
    <3> QED BY <1>4, <3>1, <3>2
  <2>2. ASSUME NEW k \in Ahead'
        PROVE  k \notin DOMAIN got' /\ \A i \in DOMAIN toPhone' : toPhone'[i].idx < k
    <3>1. k \in Ahead /\ k > r /\ k \in ucaPackMsg.miss
      BY <1>13, <2>2 DEF Ahead
    <3>2. k \in Int
      BY <1>4, <3>1
    <3> QED BY <1>1, <1>4, <1>10, <1>11, <3>1, <3>2
  <2>3. ASSUME NEW i \in DOMAIN toPhone'
        PROVE  toPhone'[i].idx # PartsIn(c, n) - 1
    <3>1. PartsIn(c, n) \in Nat
      BY ReplySizes
    <3> QED BY <1>4, <1>5, <1>10, <1>11, <2>1, <2>3, <3>1
  <2> QED BY <1>1, <1>4, <1>5, <1>12, <2>2, <2>3
<1>15. Awaited(c, n)'
  BY <1>1, <1>8 DEF Awaited
<1>16. /\ lr' = 0 /\ SumPackNumber' = PartsIn(c, n) /\ Sendlenth' = ReplyLen[c][n]
       /\ blueRecivSendflag' = "NOdata" /\ (T_Connect' \/ ucReTry' = 0)
  BY <1>1, <1>4 DEF Waiting
<1> QED BY <1>10, <1>14, <1>15, <1>16 DEF Waiting

(* One bit of the phone's bitmap in each turn.                             *)
LEMMA ReSend_Timely ==
    ASSUME General, Linked, Timely, ReSend, UNCHANGED phoneKeeps, unseen' = unseen
    PROVE  Timely'
<1>1. /\ pc = "resend" /\ ucResend = 1
      /\ UNCHANGED <<toDevice, outbox, current, want, got, total, answers, retries, session>>
      /\ UNCHANGED <<Ble_ConnnectFlag, g_apdu, g_apdu_length, blueRecivSendflag,
                     Recivedataflag, Apdufinsh, ucaRevPackN, ucaPackMsg, T_Connect, ucReTry,
                     ucResend>>
      /\ UNCHANGED <<lr, SumPackNumber, Sendlenth, remberPackn, CMD09_oldlabel,
                     uart_waitack_flag, stm32>>
  BY DEF ReSend, phoneKeeps, apdu, rx, both, command
<1>2. CASE Wanted
  <2>1. pc' = "remember_sent"
    BY <1>2 DEF ReSend
  <2>2. ~Resting
    BY <1>1, <1>2 DEF Resting, CutOff, Wanted, Cleared
  <2>3. PICK c \in Commands : \E n \in 1 .. Len(ReplyLen[c]) : Replying(c, n) /\ Waiting(c, n)
    BY <1>1, <2>2, WhereRound DEF Timely
  <2>4. PICK n \in 1 .. Len(ReplyLen[c]) : Replying(c, n) /\ Waiting(c, n)
    BY <2>3
  <2>5. Waiting(c, n)'
    BY <1>2, <2>4, Waiting_Resends
  <2>6. Place'
    BY <1>1, <2>1, <2>4, <2>5, SameReply DEF Between
  <2>7. Stm32Works' /\ Awaits' /\ Answers'
    BY <1>1, SamePhone
  <2> QED BY <2>1, <2>6, <2>7 DEF Timely
<1>3. CASE ~Wanted
  <2>1. pc' = "remember" /\ UNCHANGED <<radio, resent>>
    BY <1>3 DEF ReSend
  <2>2. UNCHANGED placeVars
    BY <1>1, <2>1 DEF placeVars, radio
  <2>3. Between' /\ pc # "remember_sent" /\ pc' # "remember_sent" /\ pc' # "retry_reply"
    BY <1>1, <2>1 DEF Between
  <2>4. PassesOn /\ (Resting => CutOff')
    BY <1>1, <2>1 DEF PassesOn, Resting, CutOff
  <2>5. ~ToWork /\ \A c, n : ~Queued(c, n) /\ ~Taken(c, n)
    BY <1>1 DEF ToWork, Fresh, Queued, Taken
  <2> QED BY <1>1, <2>2, <2>3, <2>4, <2>5, Steps_Same
<1> QED BY <1>2, <1>3

(* The position in the bitmap moves on, over what was looked at only.      *)
LEMMA Ahead_Moves ==
    ASSUME General, Remember, UNCHANGED <<ucaPackMsg, SumPackNumber>>,
           pc = "remember_sent" => remberPackn < Bits,
           Bits \in Int, Bits <= 120, remberPackn # Bits,
           remberPackn' = (remberPackn + 1) % 256
    PROVE  Ahead' \subseteq Ahead
<1>1. remberPackn \in Nat /\ remberPackn < 256
  BY DEF General, Types, Scalars, Indices
<1>2. pc' = "retry" /\ Bits' = Bits
  BY DEF Remember, Bits
<1>3. CASE remberPackn > Bits
  BY <1>2, <1>3 DEF Ahead
<1>4. CASE ~ (remberPackn > Bits)
  <2>1. remberPackn < Bits
    BY <1>1, <1>4
  <2>2. remberPackn + 1 < 256
    BY <1>1, <2>1
  <2>3. remberPackn' = remberPackn + 1
    BY <1>1, <2>2
  <2>4. ~ (remberPackn' > Bits')
    BY <1>1, <1>2, <2>1, <2>3
  <2>5. Ahead' = {k \in ucaPackMsg.miss : k > remberPackn + 1 \/ k = remberPackn + 1}
    BY <1>2, <2>3, <2>4 DEF Ahead
  <2>6. Ahead = {k \in ucaPackMsg.miss :
                    k > remberPackn \/ (k = remberPackn /\ pc # "remember_sent")}
    BY <1>4 DEF Ahead
  <2>7. \A k \in ucaPackMsg.miss : k \in Nat
    BY DEF General, Types, Buffers, Messages, Indices
  <2> QED BY <1>1, <2>5, <2>6, <2>7
<1> QED BY <1>3, <1>4

(* A reply that is out, when the round has gone one position further.      *)
LEMMA Waiting_Remembers ==
    ASSUME General, Linked, Timely, Remember, UNCHANGED phoneKeeps,
           NEW c \in Commands, NEW n \in 1 .. Len(ReplyLen[c]), Replying(c, n), Waiting(c, n)
    PROVE  Waiting(c, n)'
<1>1. /\ pc \in {"remember", "remember_sent"} /\ pc' = "retry" /\ ucResend = 1
      /\ UNCHANGED <<toDevice, outbox, current, want, got, total, stm32, toPhone>>
      /\ UNCHANGED <<blueRecivSendflag, ucaPackMsg, ucReTry, lr, SumPackNumber, Sendlenth>>
  BY DEF Remember, Linked, phoneKeeps, apdu, command, radio
<1> DEFINE e == IF pc = "remember_sent" THEN remberPackn + 1 ELSE 0
<1>2. /\ lr' = 0 /\ SumPackNumber' = PartsIn(c, n) /\ Sendlenth' = ReplyLen[c][n]
      /\ blueRecivSendflag' = "NOdata"
  BY <1>1 DEF Waiting
<1>3. ~AtLast'
  BY <1>1 DEF AtLast
<1>4. Awaited(c, n)' <=> Awaited(c, n)
  BY <1>1 DEF Awaited
<1>5. Outgoing(c, n) => Outgoing(c, n)'
  BY <1>1 DEF Outgoing, Ascending
<1>6. CASE RoundEnds(e)
  <2>1. ucResend' = 0 /\ T_Connect' = TRUE
    BY <1>6 DEF Remember
  <2>2. Round(c, n)' /\ ToSend' = {}
    BY <2>1 DEF Round, ToSend
  <2>3. Asks => Asks'
    BY <1>1, <2>1 DEF Asks, OnItsWay, Lacking
  <2>4. Acks => Acks'
    BY <1>1, <2>2 DEF Acks, OnItsWay
  <2>5. (Outgoing(c, n) \/ Asks \/ Acks)'
    BY <1>5, <2>3, <2>4 DEF Waiting
  <2>6. toPhone' # <<>> \/ total' # 0 \/ ToSend' # {} => Awaited(c, n)'
    BY <1>1, <1>4, <2>2 DEF Waiting
  <2> QED BY <1>2, <2>1, <2>2, <2>5, <2>6 DEF Waiting
<1>7. CASE ~RoundEnds(e)
  <2>1. /\ remberPackn' = (remberPackn + 1) % 256 /\ UNCHANGED <<ucResend, T_Connect>>
    BY <1>7 DEF Remember
  <2>2. e # SumPackNumber /\ Bits # remberPackn
    BY <1>7 DEF RoundEnds
  <2>3. ~AtLast
    BY <2>2 DEF AtLast
  <2>4. /\ ucaPackMsg.miss \subseteq 0 .. PartsIn(c, n) - 1
        /\ Bits \in Int /\ Bits <= 120
        /\ \A k \in Ahead : /\ k \notin DOMAIN got
                            /\ \A i \in DOMAIN toPhone : toPhone[i].idx < k
        /\ \A i \in DOMAIN toPhone : toPhone[i].idx # PartsIn(c, n) - 1
        /\ pc = "remember_sent" => remberPackn < Bits
        /\ ToSend = Ahead /\ ~Asks
        /\ T_Connect \/ ucReTry = 0
    BY <1>1, <2>3, Round_Is
  <2>5. Ahead' \subseteq Ahead /\ Bits' = Bits
    BY <1>1, <2>1, <2>2, <2>4, Ahead_Moves DEF Bits
  <2>6. ToSend' \subseteq ToSend
    BY <1>1, <1>3, <2>1, <2>4, <2>5 DEF ToSend
  <2>7. Round(c, n)'
    BY <1>1, <2>4, <2>5 DEF Round, PartsIn
  <2>8. Acks => Acks'
    BY <1>1, <2>6 DEF Acks, OnItsWay
  <2>9. (Outgoing(c, n) \/ Asks \/ Acks)'
    BY <1>5, <2>4, <2>8 DEF Waiting
  <2>10. toPhone' # <<>> \/ total' # 0 \/ ToSend' # {} => Awaited(c, n)'
    BY <1>1, <1>4, <2>6 DEF Waiting
  <2>11. T_Connect' \/ ucReTry' = 0
    BY <1>1, <2>1, <2>4
  <2> QED BY <1>2, <2>7, <2>9, <2>10, <2>11 DEF Waiting
<1> QED BY <1>6, <1>7

(* And the round ends with the last packet or the last bit.                *)
LEMMA Remember_Timely ==
    ASSUME General, Linked, Timely, Remember, UNCHANGED phoneKeeps, unseen' = unseen
    PROVE  Timely'
<1>1. /\ pc \in {"remember", "remember_sent"} /\ pc' = "retry" /\ ucResend = 1
      /\ UNCHANGED <<toDevice, outbox, current, want, got, total, answers>>
      /\ UNCHANGED <<g_apdu, g_apdu_length, blueRecivSendflag,
                     Recivedataflag, Apdufinsh, ucaRevPackN, ucaPackMsg, ucReTry>>
      /\ UNCHANGED <<lr, SumPackNumber, Sendlenth, CMD09_oldlabel,
                     uart_waitack_flag, stm32, toPhone>>
  BY DEF Remember, Linked, phoneKeeps, apdu, rx, command, radio
<1>2. ucResend' = ucResend \/ ucResend' = 0
  BY DEF Remember
<1>3. Stm32Works' /\ Awaits' /\ Answers'
  <2>1. Stm32Works'
    BY <1>1, <1>2 DEF Timely, Stm32Works
  <2> QED BY <1>1, <2>1 DEF Timely, Awaits, Answers
<1>4. CASE Resting
  <2>1. LinkQuiet' /\ Calm' /\ Cleaned'
    BY <1>1, <1>4 DEF Resting, LinkQuiet, Calm, Cleaned, Between
  <2>2. CutOff'
    <3>1. CASE pc = "remember"
      <4>1. SumPackNumber = 0
        BY <1>4 DEF Resting, Calm
      <4>2. ucResend' = 0
        BY <3>1, <4>1 DEF Remember, RoundEnds
      <4> QED BY <4>2 DEF CutOff
    <3>2. CASE pc = "remember_sent"
      BY <1>1, <1>4, <3>2 DEF Resting, CutOff
    <3> QED BY <1>1, <3>1, <3>2
  <2>3. Resting'
    BY <1>1, <1>4, <2>1, <2>2 DEF Resting
  <2> QED BY <1>1, <1>3, <2>3 DEF Timely, Place
<1>5. CASE ~Resting
  <2>1. PICK c \in Commands : \E n \in 1 .. Len(ReplyLen[c]) : Replying(c, n) /\ Waiting(c, n)
    BY <1>1, <1>5, WhereRound DEF Timely
  <2>2. PICK n \in 1 .. Len(ReplyLen[c]) : Replying(c, n) /\ Waiting(c, n)
    BY <2>1
  <2>3. Waiting(c, n)'
    BY <2>2, Waiting_Remembers
  <2>4. Place'
    BY <1>1, <2>2, <2>3, SameReply DEF Between
  <2> QED BY <1>1, <1>3, <2>4 DEF Timely
<1> QED BY <1>4, <1>5

(* Packets of a command are missing, and nothing comes: a report asks for  *)
(* them, or what was received is dropped.                                  *)
LEMMA RetryReport_Timely ==
    ASSUME General, Linked, Timely, RetryReport, UNCHANGED phoneKeeps, unseen' = unseen
    PROVE  Timely'
<1>1. /\ pc = "retry" /\ pc' = "retry_reply" /\ ~T_Connect /\ Apdufinsh = 2
      /\ UNCHANGED <<toDevice, outbox, current, want, got, total, answers>>
      /\ UNCHANGED <<Ble_ConnnectFlag, g_apdu, blueRecivSendflag, SumPackNumber, Sendlenth,
                     stm32, CMD09_oldlabel>>
  BY DEF RetryReport, phoneKeeps, command
<1>2. Receiving
  <2>1. ~Resting /\ ~Whole /\ \A c, n : ~Replying(c, n)
    BY <1>1 DEF Resting, Whole, Replying, Cleaned
  <2>2. ~ToWork
    BY <1>1 DEF ToWork, Cleaned
  <2> QED BY <2>1, <2>2 DEF Timely, Place
<1>3. ucaRevPackN # {}
  BY <1>1, <1>2 DEF Receiving
<1>4. LinkQuiet
  BY <1>1, <1>2, <1>3 DEF Receiving
<1>5. /\ Fresh /\ lr = 0 /\ SumPackNumber = 0 /\ Sendlenth = 0 /\ stm32.cmd = 0
      /\ ucResend = 0 /\ total = 0 /\ current \in Commands /\ blueRecivSendflag = "NOdata"
  BY <1>2 DEF Receiving, Fresh, Calm
<1>6. Stm32Works' /\ Awaits' /\ Answers'
  <2>1. stm32'.cmd = 0
    BY <1>1, <1>5
  <2> QED BY <1>1, <2>1 DEF Timely, Stm32Works, Awaits, Answers
<1>7. CASE MayRetry
  <2>1. /\ ble_txrx_Send(Report(ucaPackMsg)) /\ T_Connect' = TRUE
        /\ UNCHANGED <<g_apdu_length, Apdufinsh, ucaRevPackN, ucaPackMsg, ucResend, lr>>
    BY <1>7 DEF RetryReport, retry_again
  <2>2. Fresh' /\ Between'
    BY <1>1, <1>5, <2>1 DEF Fresh, Calm, Between
  <2>3. /\ ucaRevPackN' \in SUBSET AllParts(current') /\ ucaRevPackN' # AllParts(current')
        /\ \A k \in ucaRevPackN' : g_apdu'[k] = CmdToken(current', FALSE)
        /\ ucaRevPackN' # {}
        /\ Apdufinsh' = 2
        /\ g_apdu_length' = BytesOf(current', ucaRevPackN')
        /\ ucaPackMsg' = MissedPackN(Parts(CmdLen[current']), ucaRevPackN')
    BY <1>1, <1>2, <1>3, <2>1 DEF Receiving
  <2>4. want' = 0 => ~Ble_ConnnectFlag' /\ unseen'
    BY <1>1, <1>2 DEF Receiving
  <2>5. toDevice = <<>> /\ outbox = <<>> /\ toPhone = <<>>
    BY <1>4 DEF LinkQuiet
  <2>6. toPhone' = <<>> \/ toPhone' = << Report(ucaPackMsg) >>
    BY <2>1, <2>5 DEF ble_txrx_Send
  <2>7. Coming' \/ Reported'
    <3>1. CASE toPhone' = <<>>
      <4>1. Coming
        BY <1>2, <2>5 DEF Receiving, Reported
      <4>2. Coming'
        BY <1>1, <2>1, <2>5, <3>1, <4>1 DEF Coming, Ascending
      <4> QED BY <4>2
    <3>2. CASE toPhone' = << Report(ucaPackMsg) >>
      BY <1>1, <2>1, <2>3, <2>5, <3>2 DEF Reported
    <3> QED BY <2>6, <3>1, <3>2
  <2>8. Receiving'
    BY <1>1, <1>5, <2>1, <2>2, <2>3, <2>4, <2>7 DEF Receiving
  <2> QED BY <1>1, <1>5, <1>6, <2>8 DEF Timely, Place
<1>8. CASE ~MayRetry
  <2>1. /\ ucaRevPackN' = {} /\ ucReTry' = 0 /\ ucResend' = 0
        /\ Apdufinsh' = 0 /\ lr' = 0 /\ UNCHANGED radio
    BY <1>8 DEF RetryReport, ble_transfer_init
  <2>2. LinkQuiet' /\ Calm' /\ Cleaned' /\ CutOff'
    BY <1>1, <1>4, <1>5, <2>1 DEF LinkQuiet, Calm, Cleaned, Between, CutOff, radio
  <2>3. Resting'
    BY <1>1, <1>5, <2>1, <2>2 DEF Resting
  <2> QED BY <1>1, <1>5, <1>6, <2>3 DEF Timely, Place
<1> QED BY <1>7, <1>8

(* A reply is out, and the phone does not answer: wait on, or abandon it.  *)
LEMMA RetryReply_Timely ==
    ASSUME General, Linked, Timely, RetryReply, UNCHANGED phoneKeeps, unseen' = unseen
    PROVE  Timely'
<1>1. /\ pc \in {"retry", "retry_reply"} /\ pc' = "process"
      /\ UNCHANGED <<toDevice, outbox, current, want, got, total, answers, retries, session>>
      /\ UNCHANGED <<Ble_ConnnectFlag, g_apdu, g_apdu_length, blueRecivSendflag,
                     Recivedataflag, Apdufinsh, remberPackn, stm32, CMD09_oldlabel,
                     uart_waitack_flag, toPhone>>
  BY DEF RetryReply, phoneKeeps, apdu, command, radio
<1>2. Between' /\ pc # "remember_sent" /\ pc' # "remember_sent" /\ pc' # "retry_reply"
  BY <1>1 DEF Between
<1>3. CASE SumPackNumber = 0
  <2>1. UNCHANGED <<ucaRevPackN, both, lr, SumPackNumber, Sendlenth>>
    BY <1>3 DEF RetryReply
  <2>2. UNCHANGED placeVars
    BY <1>1, <2>1 DEF both, placeVars
  <2>3. PassesOn /\ (Resting => CutOff')
    BY <1>1, <2>2 DEF PassesOn, Resting, CutOff, placeVars
  <2>4. ToWork => pc \in {"send", "resend", "retry", "process"}
    BY <1>1 DEF ToWork
  <2>5. \A c, n : ~Queued(c, n) /\ ~Taken(c, n)
    BY <1>1 DEF Queued, Taken
  <2> QED BY <1>1, <1>2, <2>2, <2>3, <2>4, <2>5, Steps_Same
<1>4. CASE SumPackNumber # 0
  <2>1. pc = "retry" /\ ~T_Connect
    BY <1>4 DEF RetryReply, Timely
  <2>2. PICK c \in Commands : \E n \in 1 .. Len(ReplyLen[c]) :
              /\ Replying(c, n)
              /\ Waiting(c, n) \/ \E k \in 1 .. PartsIn(c, n) - 1 : Sending(c, n, k)
    BY <1>4, WhereCounted DEF Timely
  <2>3. PICK n \in 1 .. Len(ReplyLen[c]) :
              /\ Replying(c, n)
              /\ Waiting(c, n) \/ \E k \in 1 .. PartsIn(c, n) - 1 : Sending(c, n, k)
    BY <2>2
  <2>4. CASE MayRetry
    <3>1. /\ T_Connect' = TRUE
          /\ UNCHANGED <<ucaRevPackN, ucaPackMsg, ucResend, lr, SumPackNumber, Sendlenth>>
      BY <1>4, <2>4 DEF RetryReply, retry_again
    <3>2. Stm32Works' /\ Awaits' /\ Answers'
      BY <1>1, <3>1, SamePhone
    <3>3. CASE Waiting(c, n)
      <4>1. (Outgoing(c, n) \/ Asks \/ Acks)'
        <5>1. Ahead' = Ahead /\ ToSend' = ToSend /\ ~AtLast /\ ~AtLast'
          BY <1>1, <1>2, <3>1 DEF Ahead, ToSend, AtLast, Bits
        <5>2. CASE Outgoing(c, n)
          BY <1>1, <5>2 DEF Outgoing, Ascending
        <5>3. CASE Asks
          BY <1>1, <3>1, <5>1, <5>3 DEF Asks, OnItsWay, Lacking
        <5>4. CASE Acks
          BY <1>1, <5>1, <5>4 DEF Acks, OnItsWay
        <5> QED BY <3>3, <5>2, <5>3, <5>4 DEF Waiting
      <4>2. Waiting(c, n)'
        BY <1>1, <1>2, <3>1, <3>3, <4>1, SameWaiting
      <4>3. Place'
        BY <1>1, <1>2, <2>3, <3>1, <4>2, SameReply
      <4> QED BY <1>1, <3>2, <4>3 DEF Timely
    <3>4. ASSUME NEW k \in 1 .. PartsIn(c, n) - 1, Sending(c, n, k)
          PROVE  Timely'
      <4>1. Outgoing(c, n)' /\ Awaited(c, n)'
        BY <1>1, <3>4 DEF Sending, Outgoing, Ascending, Awaited
      <4>2. /\ \A i \in DOMAIN toPhone' : toPhone'[i].idx < k
            /\ \A i \in DOMAIN got' : i < k
        BY <1>1, <3>4 DEF Sending
      <4>3. Sending(c, n, k)'
        BY <1>1, <3>1, <3>4, <4>1, <4>2 DEF Sending
      <4>4. Place'
        BY <1>1, <1>2, <2>3, <3>1, <4>3, SameReply
      <4> QED BY <1>1, <3>2, <4>4 DEF Timely
    <3> QED BY <2>3, <3>3, <3>4
  <2>5. CASE ~MayRetry
    <3>1. /\ ucaRevPackN' = {} /\ ucReTry' = 0 /\ ucResend' = 0
          /\ SumPackNumber' = 0 /\ Sendlenth' = 0 /\ lr' = 0
      BY <1>4, <2>5 DEF RetryReply, ble_transfer_init, reply_done
    <3>2. ucReTry # 0
      BY <2>5, Limits DEF MayRetry
    <3>3. LinkQuiet /\ ucResend = 0
      BY <2>1, <2>3, <3>2 DEF Waiting, Sending, Expired
    <3>4. blueRecivSendflag = "NOdata" /\ Apdufinsh = 0
      BY <2>3 DEF Replying, Cleaned, Waiting, Sending
    <3>5. LinkQuiet' /\ Calm' /\ Cleaned' /\ CutOff'
      BY <1>1, <3>1, <3>3, <3>4 DEF LinkQuiet, Calm, Cleaned, Between, CutOff
    <3>6. Resting'
      BY <1>1, <3>1, <3>4, <3>5 DEF Resting
    <3>7. Stm32Works' /\ Awaits' /\ Answers'
      BY <1>1, <3>1, <3>3, SamePhone
    <3> QED BY <1>1, <3>6, <3>7 DEF Timely, Place
  <2> QED BY <2>4, <2>5
<1> QED BY <1>3, <1>4

(* A reply is put into g_apdu, behind the label that is still there.       *)
LEMMA Reply_Queued ==
    ASSUME General, NEW c \in Commands, NEW n \in 1 .. Len(ReplyLen[c]),
           Send_bluetoothdata(c, n), g_apdu[0].aligned, g_apdu[0].lab = c,
           LinkQuiet', Calm', Cleaned', pc' \in {"uart", "top"}, ucResend' = 0, ucReTry' = 0,
           total' = 0, Awaited(c, n)', c \notin Local => CMD09_oldlabel' = c,
           stm32'.cmd # 0 => stm32' = [cmd |-> c, next |-> n + 1] /\ uart_waitack_flag' = 1
    PROVE  Place'
<1>1. /\ g_apdu' = [k \in Part |-> IF k < Parts(ReplyLen[c][n]) THEN RspToken(c, c, n)
                                   ELSE g_apdu[k]]
      /\ g_apdu_length' = ReplyLen[c][n] /\ blueRecivSendflag' = "Senddata"
  BY DEF Send_bluetoothdata
<1>2. (\A k \in 0 .. PartsIn(c, n) - 1 : g_apdu[k] = RspToken(c, c, n))'
  <2>1. ASSUME NEW k \in 0 .. PartsIn(c, n) - 1
        PROVE  g_apdu'[k] = RspToken(c, c, n)
    <3>1. k \in Part
      BY ReplyInside
    <3>2. k < Parts(ReplyLen[c][n])
      <4>1. PartsIn(c, n) \in Nat
        BY ReplySizes
      <4>2. k < PartsIn(c, n)
        BY <4>1
      <4> QED BY <4>2 DEF PartsIn
    <3> QED BY <1>1, <3>1, <3>2
  <2> QED BY <2>1 DEF PartsIn
<1>3. Queued(c, n)'
  BY <1>1 DEF Queued
<1>4. Replying(c, n)'
  BY <1>2, <1>3 DEF Replying
<1> QED BY <1>4 DEF Place

(* The command that is announced is the phone's.                           *)
LEMMA Announced_Current ==
    ASSUME General, Timely, pc = "process", Announced
    PROVE  /\ ToWork /\ current \in Commands /\ CrcGood(current)
           /\ g_apdu[0].aligned /\ g_apdu[0].lab = current
           /\ LinkQuiet /\ Calm /\ Cleaned /\ ucResend = 0 /\ ucReTry = 0 /\ total = 0
           /\ stm32.cmd = 0
<1>1. ToWork
  <2>1. blueRecivSendflag = "Recivedata"
    BY DEF Announced
  <2> QED BY <2>1 DEF Timely, Place, Resting, Receiving, Whole, Replying, Queued, Taken,
                      Waiting, Sending
<1>2. /\ current \in Commands /\ CrcGood(current) /\ LinkQuiet /\ Calm /\ Cleaned
      /\ ucResend = 0 /\ ucReTry = 0 /\ total = 0 /\ stm32.cmd = 0
  BY <1>1 DEF ToWork, Fresh
<1>3. g_apdu[0] = CmdToken(current, TRUE)
  <2>1. 0 \in 0 .. Parts(CmdLen[current]) - 1
    BY <1>2, CommandFits DEF AllParts
  <2> QED BY <1>2, <2>1 DEF CrcGood
<1>4. g_apdu[0].aligned /\ g_apdu[0].lab = current
  <2>1. CmdToken(current, TRUE).aligned /\ CmdToken(current, TRUE).lab = current
    BY <1>2, CmdFields
  <2> QED BY <1>3, <2>1
<1> QED BY <1>1, <1>2, <1>4

(* The device's own reply to a command it answers itself.                  *)
LEMMA Local_Replies ==
    ASSUME General, Linked, Timely, pc = "process", Announced,
           current \in Local, Send_bluetoothdata(current, 1),
           UNCHANGED <<rx, both, tx, radio, stm32, uart_waitack_flag>>, UNCHANGED phoneKeeps,
           pc' = "uart", CMD09_oldlabel' \in {CMD09_oldlabel, current}
    PROVE  Timely'
<1>1. /\ current \in Commands /\ g_apdu[0].aligned /\ g_apdu[0].lab = current
      /\ LinkQuiet /\ Calm /\ Cleaned /\ ucResend = 0 /\ ucReTry = 0 /\ total = 0
      /\ stm32.cmd = 0
  BY Announced_Current
<1>2. /\ UNCHANGED <<toDevice, outbox, current, want, got, total, answers, toPhone>>
      /\ UNCHANGED <<lr, SumPackNumber, Sendlenth, Apdufinsh, ucaRevPackN, ucResend, ucReTry>>
  BY DEF phoneKeeps, rx, both, tx, radio
<1>3. LinkQuiet' /\ Calm' /\ Cleaned'
  BY <1>1, <1>2 DEF LinkQuiet, Calm, Cleaned, Between
<1>4. 1 \in 1 .. Len(ReplyLen[current]) /\ Len(ReplyLen[current]) = 1
  <2>1. Len(ReplyLen[current]) = 1
    BY BleAssumption DEF TransferAssumption
  <2> QED BY <1>1, <2>1, HasReply
<1>5. Awaited(current, 1)'
  <2>1. want # 0 => want = 1
    BY <1>4 DEF Timely, Awaits
  <2> QED BY <1>2, <2>1 DEF Awaited
<1>6. Place'
  BY <1>1, <1>2, <1>3, <1>4, <1>5, Reply_Queued
<1>7. Stm32Works' /\ Answers'
  BY <1>1, <1>2 DEF Timely, Stm32Works, Answers
<1>8. Awaits'
  <2>1. want' > 1 => want' = 0
    <3>1. want # 0 => want = 1
      BY <1>4 DEF Timely, Awaits
    <3> QED BY <1>2, <3>1
  <2> QED BY <1>2, <2>1 DEF Timely, Awaits
<1> QED BY <1>6, <1>7, <1>8 DEF Timely

(* Label and status word of the last command are asked for.                *)
LEMMA ProcessStatus_Timely ==
    ASSUME General, Linked, Timely, ProcessStatus, UNCHANGED phoneKeeps
    PROVE  Timely'
<1>1. /\ pc = "process" /\ pc' = "uart" /\ Announced /\ g_apdu[0].lab \in Status
      /\ Send_bluetoothdata(g_apdu[0].lab, 1)
      /\ UNCHANGED <<rx, both, tx, radio, stm32, uart_waitack_flag, CMD09_oldlabel>>
  BY DEF ProcessStatus, command
<1>2. g_apdu[0].lab = current
  BY <1>1, Announced_Current
<1>3. current \in Local
  BY <1>1, <1>2, BleAssumption DEF TransferAssumption
<1>4. Send_bluetoothdata(current, 1)
  BY <1>1, <1>2
<1> QED BY <1>1, <1>3, <1>4, Local_Replies

(* A command that is taken and leaves no reply.                            *)
LEMMA Taken_Rests ==
    ASSUME General, Timely, pc = "process", Announced, pc' = "uart",
           blueRecivSendflag' = "NOdata",
           UNCHANGED <<g_apdu, g_apdu_length, rx, both, tx, radio>>, UNCHANGED phoneKeeps
    PROVE  Resting'
<1>1. LinkQuiet /\ Calm /\ Cleaned /\ ucResend = 0 /\ ucReTry = 0
  BY Announced_Current
<1>2. LinkQuiet' /\ Calm' /\ Cleaned' /\ CutOff' /\ ucReTry' = 0
  BY <1>1 DEF LinkQuiet, Calm, Cleaned, Between, CutOff, rx, both, tx, radio, phoneKeeps
<1> QED BY <1>2 DEF Resting

(* The command before comes again.                                         *)
LEMMA ProcessRepeated_Timely ==
    ASSUME General, Linked, Timely, ProcessRepeated, UNCHANGED phoneKeeps
    PROVE  Timely'
<1>1. /\ pc = "process" /\ pc' = "uart" /\ Announced /\ blueRecivSendflag' = "NOdata"
      /\ UNCHANGED <<g_apdu, g_apdu_length, rx, both, tx, command, radio>>
  BY DEF ProcessRepeated
<1>2. Resting'
  BY <1>1, Taken_Rests
<1>3. Stm32Works' /\ Awaits' /\ Answers'
  BY <1>1, SamePhone DEF phoneKeeps, both, command
<1> QED BY <1>1, <1>2, <1>3 DEF Timely, Place

(* A new command is worked.                                                *)
LEMMA ProcessNew_Timely ==
    ASSUME General, Linked, Timely, ProcessNew, UNCHANGED phoneKeeps
    PROVE  Timely'
<1>1. /\ pc = "process" /\ pc' = "uart" /\ Announced /\ ~Repeated
      /\ CMD09_oldlabel' = g_apdu[0].lab
      /\ UNCHANGED <<rx, both, tx, uart_waitack_flag, radio>>
  BY DEF ProcessNew
<1>2. /\ current \in Commands /\ CrcGood(current)
      /\ g_apdu[0].aligned /\ g_apdu[0].lab = current
      /\ ucResend = 0 /\ total = 0
  BY <1>1, Announced_Current
<1>3. CASE current \in Local
  <2>1. Send_bluetoothdata(current, 1) /\ UNCHANGED stm32
    BY <1>2, <1>3 DEF ProcessNew
  <2> QED BY <1>1, <1>2, <1>3, <2>1, Local_Replies
<1>4. CASE current \notin Local
  <2>1. /\ stm32' = [cmd |-> current, next |-> 1] /\ blueRecivSendflag' = "NOdata"
        /\ UNCHANGED <<g_apdu, g_apdu_length>>
    BY <1>2, <1>4 DEF ProcessNew
  <2>2. Resting'
    BY <1>1, <2>1, Taken_Rests
  <2>3. UNCHANGED <<want, got, total, current, answers, ucResend>>
    BY <1>1 DEF phoneKeeps, both
  <2>4. want # 0 => want = 1
    <3>1. CMD09_oldlabel # current
      BY <1>1, <1>2 DEF Repeated
    <3>2. want \in Nat /\ ~ (want > 1)
      BY <3>1 DEF Timely, Awaits, General, Types, Phone
    <3> QED BY <3>2
  <2>5. Stm32Works'
    BY <1>1, <1>2, <1>4, <2>1, <2>3, <2>4 DEF Stm32Works
  <2>6. Awaits' /\ Answers'
    BY <1>1, <1>2, <2>3 DEF Timely, Awaits, Answers
  <2> QED BY <1>1, <2>2, <2>5, <2>6 DEF Timely, Place
<1> QED BY <1>3, <1>4

-----------------------------------------------------------------------------
(* The STM32, and the timer.                                               *)

(* When nothing is queued and nothing is out the device rests.             *)
LEMMA WhereStm32 ==
    ASSUME Place, stm32.cmd # 0, SumPackNumber = 0, lr = 0, blueRecivSendflag = "NOdata"
    PROVE  Resting
<1>1. ~Receiving /\ ~Whole /\ ~ToWork
  BY DEF Receiving, Whole, ToWork, Fresh
<1>2. ASSUME NEW c \in Commands, NEW n \in 1 .. Len(ReplyLen[c]), Replying(c, n)
      PROVE  FALSE
  <2>1. ReplyLen[c][n] # 0 /\ PartsIn(c, n) # 0
    BY ReplySizes, SMT
  <2>2. ~Queued(c, n) /\ ~Taken(c, n) /\ ~Waiting(c, n) /\ \A k : ~Sending(c, n, k)
    BY <2>1 DEF Queued, Taken, Waiting, Sending
  <2> QED BY <1>2, <2>2 DEF Replying
<1> QED BY <1>1, <1>2 DEF Place

(* What the STM32 works on.                                                *)
LEMMA Stm32_Command ==
    ASSUME General, stm32.cmd # 0
    PROVE  \E c \in Commands : \E n \in 1 .. Len(ReplyLen[c]) : stm32 = [cmd |-> c, next |-> n]
<1>1. \/ stm32 = [cmd |-> 0, next |-> 1]
      \/ \E c \in Commands : \E n \in 1 .. Len(ReplyLen[c]) : stm32 = [cmd |-> c, next |-> n]
  BY DEF General, Types, Dispatched
<1> QED BY <1>1

(* A reply of the STM32.                                                   *)
LEMMA Stm32Replies_Timely ==
    ASSUME General, Linked, Timely, session.timely, Stm32Replies
    PROVE  Timely'
<1>1. PICK c \in Commands : \E n \in 1 .. Len(ReplyLen[c]) : stm32 = [cmd |-> c, next |-> n]
  BY Stm32_Command DEF Stm32Replies, UartReply
<1>2. PICK n \in 1 .. Len(ReplyLen[c]) : stm32 = [cmd |-> c, next |-> n]
  BY <1>1
<1>3. stm32.cmd = c /\ stm32.next = n /\ n \in Nat /\ n >= 1 /\ c # 0
  BY <1>2, CommandFits
<1>4. /\ SumPackNumber = 0 /\ lr = 0 /\ blueRecivSendflag = "NOdata"
      /\ n > 1 => uart_waitack_flag = 0
      /\ pc = "uart" /\ pc' = "top"
      /\ Send_bluetoothdata(c, n) /\ uart_waitack_flag' = 1
      /\ stm32' = [stm32 EXCEPT !.next = @ + 1] \/ stm32' = [cmd |-> 0, next |-> 1]
      /\ UNCHANGED <<rx, both, tx, CMD09_oldlabel, radio, phoneVars>>
  BY <1>3 DEF Stm32Replies, UartReply, WaitAck
<1>5. /\ UNCHANGED <<toDevice, outbox, current, want, got, total, answers, toPhone>>
      /\ UNCHANGED <<lr, SumPackNumber, Sendlenth, Apdufinsh, ucaRevPackN, ucResend, ucReTry>>
  BY <1>4 DEF phoneVars, rx, both, tx, radio
<1>6. Resting
  BY <1>3, <1>4, WhereStm32 DEF Timely
<1>7. ucResend = 0
  <2>1. ucResend \in {0, 1}
    BY DEF General, Types, Scalars
  <2>2. ucResend # 1
    BY <1>3, <1>4, <1>6 DEF Resting, CutOff
  <2> QED BY <2>1, <2>2
<1>8. /\ c \notin Local /\ CMD09_oldlabel = c /\ g_apdu[0].aligned /\ g_apdu[0].lab = c
      /\ want # 0 => c = current
      /\ want # 0 /\ (n = 1 \/ uart_waitack_flag # 1) => want = n /\ total = 0
  BY <1>3 DEF Timely, Stm32Works
<1>9. want # 0 => want = n /\ total = 0
  <2>1. n = 1 \/ uart_waitack_flag # 1
    BY <1>3, <1>4
  <2> QED BY <1>8, <2>1
<1>10. total = 0
  BY <1>9 DEF Timely, Awaits
<1>11. LinkQuiet' /\ Calm' /\ Cleaned' /\ ucReTry' = 0 /\ ucResend' = 0
  BY <1>4, <1>5, <1>6, <1>7 DEF Resting, LinkQuiet, Calm, Cleaned, Between
<1>12. Awaited(c, n)' /\ total' = 0
  BY <1>5, <1>8, <1>9, <1>10 DEF Awaited
<1>13. stm32'.cmd # 0 => stm32' = [cmd |-> c, next |-> n + 1] /\ uart_waitack_flag' = 1
  BY <1>2, <1>4
<1>14. Place'
  BY <1>4, <1>8, <1>11, <1>12, <1>13, Reply_Queued
<1>15. Stm32Works'
  <2>1. g_apdu'[0] = RspToken(c, c, n)
    <3>1. 0 \in Part /\ 0 < Parts(ReplyLen[c][n])
      <4>1. PartsIn(c, n) \in Nat /\ PartsIn(c, n) >= 1
        BY ReplySizes
      <4>2. 0 < PartsIn(c, n)
        BY <4>1
      <4> QED BY <4>2, Limits DEF PartsIn
    <3>2. g_apdu' = [k \in Part |-> IF k < Parts(ReplyLen[c][n]) THEN RspToken(c, c, n)
                                    ELSE g_apdu[k]]
      BY <1>4, <1>8 DEF Send_bluetoothdata
    <3> QED BY <3>1, <3>2
  <2>2. g_apdu'[0].aligned /\ g_apdu'[0].lab = c
    BY <2>1 DEF RspToken
  <2>3. stm32'.cmd # 0 => stm32'.cmd = c /\ stm32'.next = n + 1 /\ stm32'.next # 1
    BY <1>3, <1>13
  <2> QED BY <1>4, <1>5, <1>8, <2>2, <2>3 DEF Stm32Works
<1>16. Awaits' /\ Answers'
  BY <1>4, <1>5 DEF Timely, Awaits, Answers
<1> QED BY <1>4, <1>14, <1>15, <1>16 DEF Timely

(* Or none any more.                                                       *)
LEMMA Stm32GivesUp_Timely ==
    ASSUME General, Linked, Timely, session.timely, Stm32GivesUp
    PROVE  Timely'
<1>1. /\ stm32.cmd # 0 /\ SumPackNumber = 0 /\ lr = 0 /\ blueRecivSendflag = "NOdata"
      /\ stm32' = [cmd |-> 0, next |-> 1]
      /\ UNCHANGED <<apdu, rx, both, tx, CMD09_oldlabel, uart_waitack_flag, pc, radio,
                     phoneVars>>
  BY DEF Stm32GivesUp
<1>2. /\ UNCHANGED <<toDevice, outbox, current, want, got, total, answers, toPhone>>
      /\ UNCHANGED <<lr, SumPackNumber, Sendlenth, Apdufinsh, ucaRevPackN, ucResend, ucReTry>>
      /\ UNCHANGED <<blueRecivSendflag, ucaPackMsg, CMD09_oldlabel, pc>>
  BY <1>1 DEF phoneVars, apdu, rx, both, tx, radio
<1>3. Resting
  BY <1>1, WhereStm32 DEF Timely
<1>4. stm32'.cmd = 0
  BY <1>1
<1>5. LinkQuiet' /\ Calm' /\ Cleaned' /\ CutOff'
  BY <1>2, <1>3, <1>4 DEF Resting, LinkQuiet, Calm, Cleaned, Between, CutOff
<1>6. Resting'
  BY <1>2, <1>3, <1>5 DEF Resting
<1>7. Stm32Works' /\ Awaits' /\ Answers'
  BY <1>2, <1>4 DEF Timely, Stm32Works, Awaits, Answers
<1> QED BY <1>2, <1>6, <1>7 DEF Timely, Place

(* A wait runs out.                                                        *)
LEMMA DeviceTimeOut_Timely ==
    ASSUME General, Linked, Timely, session.timely, DeviceTimeOut
    PROVE  Timely'
<1>1. /\ LinkQuiet /\ lr = 0 /\ ucResend = 0 /\ blueRecivSendflag = "NOdata"
      /\ Apdufinsh # 1
      /\ ~ (want # 0 /\ total # 0 /\ retries < session.retries)
      /\ UNCHANGED <<Ble_ConnnectFlag, apdu, rx, ucaPackMsg, ucReTry, ucResend,
                     tx, command, pc, radio, phoneVars>>
  BY DEF DeviceTimeOut, DeviceWaits, TimeOut
<1>2. /\ UNCHANGED <<toDevice, outbox, current, want, got, total, answers, retries, session,
                     unseen, toPhone>>
      /\ UNCHANGED <<lr, SumPackNumber, Sendlenth, Apdufinsh, ucaRevPackN, ucResend, ucReTry>>
      /\ UNCHANGED <<g_apdu, g_apdu_length, blueRecivSendflag, ucaPackMsg, remberPackn,
                     CMD09_oldlabel, uart_waitack_flag, stm32, pc, Ble_ConnnectFlag>>
  BY <1>1 DEF phoneVars, apdu, rx, tx, command, radio
<1>3. Stm32Works' /\ Awaits' /\ Answers'
  BY <1>2, SamePhone
<1>4. LinkQuiet'
  BY <1>1, <1>2 DEF LinkQuiet
<1>5. CASE Resting
  <2>1. Calm' /\ Cleaned' /\ CutOff'
    BY <1>2, <1>5 DEF Resting, Calm, Cleaned, Between, CutOff
  <2>2. Resting'
    BY <1>2, <1>4, <1>5, <2>1 DEF Resting
  <2> QED BY <1>2, <1>3, <2>2 DEF Timely, Place
<1>6. CASE Receiving
  <2>1. Fresh' /\ Between'
    BY <1>2, <1>6 DEF Receiving, Fresh, Calm, Between
  <2>2. /\ ucaRevPackN' \in SUBSET AllParts(current') /\ ucaRevPackN' # AllParts(current')
        /\ \A k \in ucaRevPackN' : g_apdu'[k] = CmdToken(current', FALSE)
        /\ ucaRevPackN' = {} => Apdufinsh' = 0 /\ ucReTry' = 0
    BY <1>2, <1>6 DEF Receiving
  <2>3. ucaRevPackN' # {} =>
          /\ Apdufinsh' = 2
          /\ g_apdu_length' = BytesOf(current', ucaRevPackN')
          /\ ucaPackMsg' = MissedPackN(Parts(CmdLen[current']), ucaRevPackN')
    BY <1>2, <1>6 DEF Receiving
  <2>4. want' = 0 => ~Ble_ConnnectFlag' /\ unseen'
    BY <1>2, <1>6 DEF Receiving
  <2>5. Coming => Coming'
    BY <1>2 DEF Coming, Ascending
  <2>6. Reported => Reported'
    BY <1>2 DEF Reported
  <2>7. Receiving'
    BY <1>1, <1>2, <1>4, <1>6, <2>1, <2>2, <2>3, <2>4, <2>5, <2>6 DEF Receiving
  <2> QED BY <1>2, <1>3, <2>1, <2>7 DEF Timely, Place
<1>7. ASSUME NEW c \in Commands, NEW n \in 1 .. Len(ReplyLen[c]), Replying(c, n)
      PROVE  Place'
  <2>1. ReplyLen[c][n] # 0
    BY ReplySizes, SMT
  <2>2. Waiting(c, n)
    BY <1>1, <1>7, <2>1 DEF Replying, Queued, Taken, Sending
  <2>3. Expired'
    BY <1>1, <1>2, <1>4 DEF Expired
  <2>4. (Outgoing(c, n) \/ Asks \/ Acks)'
    <3>1. (AtLast' <=> AtLast) /\ ToSend' = ToSend
      BY <1>2 DEF AtLast, ToSend, Ahead, Bits
    <3>2. CASE Outgoing(c, n)
      BY <1>2, <3>2 DEF Outgoing, Ascending
    <3>3. CASE Asks
      BY <1>2, <3>1, <3>3 DEF Asks, OnItsWay, Lacking
    <3>4. CASE Acks
      BY <1>2, <3>1, <3>4 DEF Acks, OnItsWay
    <3> QED BY <2>2, <3>2, <3>3, <3>4 DEF Waiting
  <2>5. Waiting(c, n)'
    BY <1>2, <2>2, <2>3, <2>4, SameWaiting
  <2>6. Between'
    BY <1>2, <1>7 DEF Replying, Cleaned, Between
  <2> QED BY <1>2, <1>7, <2>5, <2>6, SameReply
<1>8. ~Whole /\ ~ToWork
  BY <1>1 DEF Whole, ToWork
<1>9. pc' = "retry_reply" => SumPackNumber' = 0
  BY <1>2 DEF Timely
<1> QED BY <1>3, <1>5, <1>6, <1>7, <1>8, <1>9 DEF Timely, Place

-----------------------------------------------------------------------------
(* Every step.                                                             *)

(* A turn of main keeps the device in a place.                             *)
LEMMA DeviceTurn_Timely ==
    ASSUME General, Linked, Timely, DeviceTurn
    PROVE  Timely'
<1>1. Turn /\ UNCHANGED phoneKeeps /\ unseen' = (unseen /\ ~(pc = "top" /\ ~Ble_ConnnectFlag))
  BY DEF DeviceTurn, phoneKeeps
<1>2. unseen \in BOOLEAN
  BY DEF General, Types, Phone
<1>3. CASE TurnDisconnected
  BY <1>1, <1>3, TurnDisconnected_Timely
<1>4. CASE \/ ReceiveReset \/ ReceiveFinish \/ ProcessStatus \/ ProcessRepeated \/ ProcessNew
  BY <1>1, <1>4, ReceiveDone_Timely, ProcessStatus_Timely, ProcessRepeated_Timely,
     ProcessNew_Timely
<1>5. CASE \/ TurnConnected \/ Receive \/ Send \/ ReSend \/ NoReSend \/ Remember
           \/ RetryIdle \/ RetryReport \/ RetryReply \/ ProcessNothing \/ UartTurn
  <2>1. pc # "top" \/ Ble_ConnnectFlag
    BY <1>5 DEF TurnConnected, Receive, Send, ReSend, NoReSend, Remember, RetryIdle,
                RetryReport, RetryReply, ProcessNothing, UartTurn
  <2>2. unseen' = unseen
    BY <1>1, <1>2, <2>1
  <2>3. CASE TurnConnected \/ NoReSend \/ RetryIdle \/ ProcessNothing \/ UartTurn
    BY <1>1, <2>2, <2>3, TurnConnected_Timely, Idle_Timely, UartTurn_Timely
  <2>4. CASE Receive \/ Send \/ ReSend \/ Remember
    BY <1>1, <2>2, <2>4, Receive_Timely, Send_Timely, ReSend_Timely, Remember_Timely
  <2>5. CASE RetryReport \/ RetryReply
    BY <1>1, <2>2, <2>5, RetryReport_Timely, RetryReply_Timely
  <2> QED BY <1>5, <2>3, <2>4, <2>5
<1> QED BY <1>1, <1>3, <1>4, <1>5 DEF Turn

(* Where nothing happens, everything stays.                                *)
LEMMA Stutter_Timely ==
    ASSUME Timely, UNCHANGED vars
    PROVE  Timely'
<1>1. UNCHANGED <<Ble_ConnnectFlag, uart_waitack_flag, Recivedataflag, pc, unseen>>
  BY DEF vars, deviceVars, phoneVars, apdu, rx, both, tx, command, radio
<1>2. UNCHANGED placeVars
  BY DEF vars, deviceVars, phoneVars, apdu, rx, both, tx, command, radio, placeVars
<1>3. UNCHANGED peerVars
  BY DEF vars, deviceVars, phoneVars, apdu, rx, both, tx, command, radio, peerVars
<1>4. UNCHANGED <<want, got, total, current, answers, CMD09_oldlabel, stm32, g_apdu, ucResend>>
  BY <1>2, <1>3 DEF placeVars, peerVars
<1>5. /\ Stm32Works' /\ Awaits' /\ Answers'
      /\ (pc = "retry_reply" => SumPackNumber = 0)'
  <2>1. Stm32Works'
    BY <1>1, <1>4 DEF Timely, Stm32Works
  <2>2. (pc = "retry_reply" => SumPackNumber = 0)'
    BY <1>1, <1>2 DEF Timely, placeVars
  <2> QED BY <1>4, <2>1, <2>2 DEF Timely, Awaits, Answers
<1>6. SUFFICES Place'
  BY <1>5 DEF Timely
<1>7. CASE Resting
  <2>1. Between' /\ CutOff'
    BY <1>1, <1>2, <1>4, <1>7 DEF Resting, Cleaned, Between, CutOff, placeVars
  <2> QED BY <1>2, <1>7, <2>1, SameRest DEF Place
<1>8. CASE Receiving
  <2>1. Between' /\ (want' = 0 => ~Ble_ConnnectFlag' /\ unseen')
    BY <1>1, <1>4, <1>8 DEF Receiving, Between
  <2> QED BY <1>2, <1>4, <1>8, <2>1, SameComing DEF Place
<1>9. CASE Whole
  <2>1. Between'
    BY <1>1, <1>9 DEF Whole, Between
  <2> QED BY <1>1, <1>2, <1>4, <1>9, <2>1, SameWhole DEF Place
<1>10. CASE ToWork
  <2>1. Fresh' /\ LinkQuiet'
    BY <1>2, <1>4, <1>10 DEF ToWork, Fresh, Calm, LinkQuiet, placeVars
  <2>2. CrcGood(current)'
    BY <1>4, <1>10 DEF ToWork, CrcGood
  <2>3. Cleaned' <=> Cleaned
    BY <1>1, <1>2 DEF Cleaned, Between, placeVars
  <2> QED BY <1>1, <1>2, <1>4, <1>10, <2>1, <2>2, <2>3 DEF ToWork, placeVars, Place
<1>11. ASSUME NEW c \in Commands, NEW n \in 1 .. Len(ReplyLen[c]), Replying(c, n)
       PROVE  Place'
  <2>1. UNCHANGED <<Apdufinsh, ucaRevPackN>>
    BY <1>2 DEF placeVars
  <2>2. Queued(c, n) \/ Taken(c, n) => (Queued(c, n) \/ Taken(c, n))'
    <3>1. LinkQuiet' <=> LinkQuiet
      BY <1>2 DEF LinkQuiet, placeVars
    <3>2. Calm' <=> Calm
      BY <1>2 DEF Calm, placeVars
    <3>3. Awaited(c, n)' <=> Awaited(c, n)
      BY <1>4 DEF Awaited
    <3> QED BY <1>1, <1>2, <1>4, <3>1, <3>2, <3>3 DEF Queued, Taken, placeVars
  <2>3. Waiting(c, n) => Waiting(c, n)'
    <3>1. Ahead' = Ahead /\ ToSend' = ToSend /\ (AtLast' <=> AtLast) /\ Bits' = Bits
      BY <1>1, <1>2 DEF ToSend, AtLast, Ahead, Bits, placeVars
    <3>2. Round(c, n) => Round(c, n)'
      BY <1>1, <1>2, <1>4, <3>1 DEF Round, placeVars
    <3>3. Outgoing(c, n) \/ Asks \/ Acks => (Outgoing(c, n) \/ Asks \/ Acks)'
      <4>1. Outgoing(c, n) => Outgoing(c, n)'
        BY <1>2, <1>4 DEF Outgoing, Ascending, placeVars
      <4>2. Asks => Asks'
        BY <1>2, <1>4, <3>1 DEF Asks, OnItsWay, Lacking, placeVars
      <4>3. Acks => Acks'
        BY <1>2, <1>4, <3>1 DEF Acks, OnItsWay, placeVars
      <4> QED BY <4>1, <4>2, <4>3
    <3>4. T_Connect \/ ucReTry = 0 \/ Expired => (T_Connect \/ ucReTry = 0 \/ Expired)'
      BY <1>2, <1>3 DEF Expired, LinkQuiet, placeVars, peerVars
    <3>5. Awaited(c, n)' <=> Awaited(c, n)
      BY <1>4 DEF Awaited
    <3> QED BY <1>2, <1>4, <3>1, <3>2, <3>3, <3>4, <3>5 DEF Waiting, placeVars
  <2>4. \A k \in 1 .. PartsIn(c, n) - 1 : Sending(c, n, k) => Sending(c, n, k)'
    BY <1>2, <1>4, SameSending
  <2>5. Cleaned'
    BY <1>1, <1>2, <1>11 DEF Replying, Cleaned, Between, placeVars
  <2>6. Replying(c, n)'
    <3>1. /\ \A k \in 0 .. PartsIn(c, n) - 1 : g_apdu'[k] = RspToken(c, c, n)
          /\ c \notin Local => CMD09_oldlabel' = c
      BY <1>4, <1>11 DEF Replying
    <3>2. stm32'.cmd # 0 => stm32' = [cmd |-> c, next |-> n + 1] /\ uart_waitack_flag' = 1
      BY <1>1, <1>4, <1>11 DEF Replying
    <3>3. \/ Queued(c, n) \/ Taken(c, n) \/ Waiting(c, n)
          \/ \E k \in 1 .. PartsIn(c, n) - 1 : Sending(c, n, k)
      BY <1>11 DEF Replying
    <3> QED BY <2>2, <2>3, <2>4, <2>5, <3>1, <3>2, <3>3 DEF Replying
  <2> QED BY <2>6 DEF Place
<1> QED BY <1>7, <1>8, <1>9, <1>10, <1>11 DEF Timely, Place

(* Every step keeps the device in a place.                                 *)
LEMMA TimelyNext ==
    ASSUME General, Linked, Timely, session.timely, [Next]_vars
    PROVE  Timely'
<1>1. CASE StartCommand \/ PhoneSend \/ DeviceReceives \/ PhoneGetsReport \/ PhoneGetsData
  BY <1>1, StartCommand_Timely, PhoneSend_Timely, DeviceReceives_Timely,
     PhoneGetsReport_Timely, PhoneGetsData_Timely
<1>2. CASE PhoneAsksAgain \/ PhoneRepeats \/ PhoneGivesUp
  BY <1>2, PhoneAsksAgain_Timely, PhoneRepeats_Timely, PhoneGivesUp_Timely
<1>3. CASE Connect \/ Disconnect
  BY <1>3, Connect_Timely, Disconnect_Timely
<1>4. CASE DeviceTurn
  BY <1>4, DeviceTurn_Timely
<1>5. CASE Stm32Replies \/ Stm32GivesUp \/ DeviceTimeOut
  BY <1>5, Stm32Replies_Timely, Stm32GivesUp_Timely, DeviceTimeOut_Timely
<1>6. CASE UNCHANGED vars
  BY <1>6, Stutter_Timely
<1> QED BY <1>1, <1>2, <1>3, <1>4, <1>5, <1>6 DEF Next

(* The session is settled from the start.                                  *)
LEMMA SessionKept ==
    ASSUME [Next]_vars
    PROVE  session' = session
<1>1. CASE \/ StartCommand \/ PhoneSend \/ DeviceReceives \/ PhoneGetsReport \/ PhoneGetsData
           \/ PhoneAsksAgain \/ PhoneRepeats \/ PhoneGivesUp
  BY <1>1 DEF StartCommand, PhoneSend, DeviceReceives, PhoneGetsReport, PhoneGetsData,
              PhoneAsksAgain, PhoneRepeats, PhoneGivesUp
<1>2. CASE Connect \/ Disconnect \/ DeviceTurn
  BY <1>2 DEF Connect, Disconnect, DeviceTurn, phoneVars
<1>3. CASE Stm32Replies \/ Stm32GivesUp \/ DeviceTimeOut
  BY <1>3 DEF Stm32Replies, Stm32GivesUp, DeviceTimeOut, phoneVars
<1>4. CASE UNCHANGED vars
  BY <1>4 DEF vars, phoneVars
<1> QED BY <1>1, <1>2, <1>3, <1>4 DEF Next

(* At first the device rests.                                              *)
LEMMA TimelyInit ==
    ASSUME LinkInit
    PROVE  Linked /\ Timely
<1>1. /\ Ble_ConnnectFlag = FALSE /\ blueRecivSendflag = "NOdata" /\ Apdufinsh = 0
      /\ ucaRevPackN = {} /\ ucReTry = 0 /\ ucResend = 0 /\ lr = 0 /\ SumPackNumber = 0
      /\ Sendlenth = 0 /\ pc = "top" /\ stm32 = [cmd |-> 0, next |-> 1] /\ toPhone = <<>>
  BY DEF LinkInit, Init
<1>2. /\ toDevice = <<>> /\ outbox = <<>> /\ want = 0 /\ got = <<>> /\ total = 0
      /\ answers = [c \in Commands |-> <<>>] /\ unseen = FALSE
  BY DEF LinkInit
<1>3. LinkQuiet
  BY <1>1, <1>2 DEF LinkQuiet
<1>4. Linked
  BY <1>1, <1>2, <1>3 DEF Linked
<1>5. Resting
  BY <1>1, <1>3 DEF Resting, Calm, Cleaned, Between, CutOff
<1>6. Awaits /\ Answers
  BY <1>2 DEF Awaits, Answers
<1>7. Stm32Works
  BY <1>1 DEF Stm32Works
<1> QED BY <1>1, <1>4, <1>5, <1>6, <1>7 DEF Timely, Place

-----------------------------------------------------------------------------
(* What follows.                                                           *)

(* When the dispatcher looks, a command of the phone is in its place.      *)
LEMMA Timely_Announced ==
    ASSUME Timely
    PROVE  AnnouncedWhole
<1> SUFFICES ASSUME pc = "process", blueRecivSendflag = "Recivedata"
             PROVE  \E c \in Commands : CrcGood(c) /\ g_apdu_length = CmdLen[c]
  BY DEF AnnouncedWhole
<1>1. ~Resting /\ ~Receiving /\ ~Whole
  BY DEF Resting, Receiving, Whole
<1>2. \A c \in Commands : \A n \in 1 .. Len(ReplyLen[c]) : ~Replying(c, n)
  BY DEF Replying, Queued, Taken, Waiting, Sending
<1>3. ToWork
  BY <1>1, <1>2 DEF Timely, Place
<1> QED BY <1>3 DEF ToWork, Fresh

(* Nothing of a reply is out, or part of it, or all of it.                 *)
LEMMA Timely_Counters ==
    ASSUME Timely
    PROVE  SendProgress
<1>1. CASE SumPackNumber = 0 /\ Sendlenth = 0
  BY <1>1 DEF SendProgress
<1>2. ASSUME NEW c \in Commands, NEW n \in 1 .. Len(ReplyLen[c]), Waiting(c, n)
      PROVE  SendProgress
  <2>1. lr = 0 /\ SumPackNumber = PartsIn(c, n) /\ Sendlenth = ReplyLen[c][n]
    BY <1>2 DEF Waiting
  <2>2. PartsIn(c, n) # 0 /\ ReplyLen[c][n] # 0
    BY ReplySizes
  <2> QED BY <2>1, <2>2 DEF SendProgress, PartsIn
<1>3. ASSUME NEW c \in Commands, NEW n \in 1 .. Len(ReplyLen[c]),
             NEW k \in 1 .. PartsIn(c, n) - 1, Sending(c, n, k)
      PROVE  SendProgress
  <2>1. /\ lr = ReplyLen[c][n] /\ SumPackNumber = PartsIn(c, n)
        /\ Sendlenth = 16 + 18 * (k - 1)
    BY <1>3, Sizes DEF Sending
  <2>2. /\ PartsIn(c, n) \in Nat /\ ReplyLen[c][n] \in Nat
        /\ PartsIn(c, n) # 0 /\ ReplyLen[c][n] # 0
        /\ ReplyLen[c][n] > 16 => ReplyLen[c][n] > 16 + (PartsIn(c, n) - 2) * 18
    BY ReplySizes
  <2>3. ReplyLen[c][n] > 16
    <3>1. ReplyLen[c][n] <= 16 <=> PartsIn(c, n) = 1
      BY ReplySizes
    <3> QED BY <2>2, <3>1
  <2>4. Sendlenth # 0 /\ Sendlenth < lr
    BY <2>1, <2>2, <2>3
  <2> QED BY <2>1, <2>2, <2>4 DEF SendProgress, PartsIn
<1>4. CASE Resting \/ Receiving \/ Whole \/ ToWork
  BY <1>1, <1>4 DEF Resting, Receiving, Whole, ToWork, Fresh, Calm
<1>5. ASSUME NEW c \in Commands, NEW n \in 1 .. Len(ReplyLen[c]), Replying(c, n)
      PROVE  SendProgress
  <2>1. CASE Queued(c, n) \/ Taken(c, n)
    BY <1>1, <2>1 DEF Queued, Taken, Calm
  <2> QED BY <1>2, <1>3, <1>5, <2>1 DEF Replying
<1> QED BY <1>4, <1>5 DEF Timely, Place

(* What goes out is the next packet of the reply.                          *)
LEMMA Timely_Reads ==
    ASSUME Timely
    PROVE  ReadsReply
<1> SUFFICES ASSUME pc = "send", lr # 0
             PROVE  NextPart \in 0 .. Parts(lr) - 1 /\ PartAt(NextPart).kind = "rsp"
  BY DEF ReadsReply
<1>1. ~Resting /\ ~Receiving /\ ~Whole /\ ~ToWork
  BY DEF Resting, Receiving, Whole, ToWork, Fresh, Calm
<1>2. PICK c \in Commands : \E n \in 1 .. Len(ReplyLen[c]) : Replying(c, n)
  BY <1>1 DEF Timely, Place
<1>3. PICK n \in 1 .. Len(ReplyLen[c]) : Replying(c, n)
  BY <1>2
<1>4. CASE Taken(c, n)
  <2>1. lr = ReplyLen[c][n] /\ Sendlenth = 0
    BY <1>4 DEF Taken
  <2>2. NextPart = 0
    BY <2>1 DEF NextPart
  <2>3. PartsIn(c, n) \in Nat /\ PartsIn(c, n) >= 1
    BY ReplySizes
  <2>4. 0 \in 0 .. PartsIn(c, n) - 1 /\ 0 \in Part
    BY <2>3, Limits
  <2>5. PartAt(0) = RspToken(c, c, n)
    BY <1>3, <2>4 DEF PartAt, Replying
  <2> QED BY <2>1, <2>2, <2>4, <2>5 DEF PartsIn, RspToken
<1>5. ASSUME NEW k \in 1 .. PartsIn(c, n) - 1, Sending(c, n, k)
      PROVE  NextPart \in 0 .. Parts(lr) - 1 /\ PartAt(NextPart).kind = "rsp"
  <2>1. NextPart = k /\ k \in 0 .. PartsIn(c, n) - 1 /\ PartAt(k) = RspToken(c, c, n)
    BY <1>3, <1>5, Sending_Next
  <2>2. lr = ReplyLen[c][n]
    BY <1>5 DEF Sending
  <2> QED BY <2>1, <2>2 DEF PartsIn, RspToken
<1>6. ~Queued(c, n) /\ ~Waiting(c, n)
  BY DEF Queued, Waiting
<1> QED BY <1>3, <1>4, <1>5, <1>6 DEF Replying

-----------------------------------------------------------------------------
(* The device is in one of the seven places, and phone, STM32 and device   *)
(* agree about the reply, in every session whose timeouts are timely.      *)
THEOREM DeliveryAlways == Spec => [](Linked /\ (session.timely => Timely))
<1>1. LinkInit => Linked /\ (session.timely => Timely)
  BY TimelyInit
<1>2. General /\ Linked /\ (session.timely => Timely) /\ [Next]_vars
         => (Linked /\ (session.timely => Timely))'
  BY LinkedNext, TimelyNext, SessionKept
<1> QED BY <1>1, <1>2, GeneralAlways, PTL DEF Spec

(* When the dispatcher looks at g_apdu and g_apdu_length                   *)
(* (Bluetooth_APPprotocol.c), they hold one whole command of the phone,    *)
(* after losses, retries and lost connections.                             *)
THEOREM DeliveredIsWhole == Spec => []DeliveredWhole
<1>1. (session.timely => Timely) => DeliveredWhole
  BY Timely_Announced DEF DeliveredWhole
<1> QED BY <1>1, DeliveryAlways, PTL

(* What the phone has put together of ble_txrx_Send()'s packets and has    *)
(* acknowledged is the reply to its command.                               *)
THEOREM AnswersAreIntact == Spec => []AnswerIntact
<1>1. (session.timely => Timely) => AnswerIntact
  BY DEF AnswerIntact, AnswersWhole, Timely, Answers, PartsIn
<1> QED BY <1>1, DeliveryAlways, PTL

(* lr, SumPackNumber and Sendlenth agree about how much of a reply is out, *)
(* whichever interrupt or lost connection came between main's steps        *)
(* (Bluetooth_Send() and reset_ble_data() in Bluetooth_HWprotocol.c).      *)
THEOREM CountersAlwaysAgree == Spec => []CountersAgree
<1>1. TypeOK /\ (session.timely => Timely) => CountersAgree
  BY Timely_Counters, Timely_Reads DEF CountersAgree
<1> QED BY <1>1, DeliveryAlways, TypeCorrect, PTL

=============================================================================
