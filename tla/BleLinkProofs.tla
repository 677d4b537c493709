--------------------------- MODULE BleLinkProofs ---------------------------
(***************************************************************************)
(* Proofs about BleLink.                                                   *)
(***************************************************************************)
EXTENDS BleLink, TLAPS, FiniteSetTheorems, SequenceTheorems, WellFoundedInduction,
        NaturalsInduction

-----------------------------------------------------------------------------
(* The values the variables take.                                          *)

Tokens == {t \in Token :
              /\ t.kind = "none" => t.id = 0 /\ t.lab = 0 /\ t.n = 0
              /\ t.kind = "cmd" => t.id \in Commands /\ t.lab = t.id /\ t.n = 0
              /\ t.kind = "rsp" => /\ t.id \in Commands
                                   /\ t.n \in 1 .. Len(ReplyLen[t.id])
                                   /\ t.aligned}

Indices     == {k \in Nat : k < 256}
Lengths     == {len \in Nat : len < 65536}
Messages    == [len : Nat, miss : SUBSET Indices]
Requests    == {AckPacket} \union [type : {"missing"}, msg : Messages]
DataPackets == UNION {{CommandPacket(c, k) : k \in AllParts(c)} : c \in Commands}
Packets     == Requests \union DataPackets
Jobs == UNION {{[type |-> "command", cmd |-> c, parts |-> ks]
                    : ks \in (SUBSET AllParts(c)) \ {{}}} : c \in Commands}
Tasks == Requests \union Jobs
Notes == [type : {"report"}, miss : SUBSET Indices]
         \union [type : {"data"}, idx : Nat, total : Indices, token : Tokens]
Replies == UNION {[S -> Tokens] : S \in SUBSET Indices}

Positions == {"top", "receive", "reset", "finish", "send", "resend", "remember",
              "remember_sent", "retry", "retry_reply", "process", "uart"}

Scalars ==
    /\ Ble_ConnnectFlag \in BOOLEAN
    /\ g_apdu_length \in Lengths
    /\ blueRecivSendflag \in {"NOdata", "Recivedata", "Senddata"}
    /\ Recivedataflag \in {0, 1} /\ Apdufinsh \in 0 .. 2
    /\ T_Connect \in BOOLEAN
    /\ ucReTry \in 0 .. WaitRertyTims /\ ucResend \in {0, 1}
    /\ lr \in Nat /\ Sendlenth \in Nat
    /\ SumPackNumber \in Indices /\ remberPackn \in Indices
    /\ CMD09_SW \in {"0000", "9000", "6700"}
    /\ uart_waitack_flag \in 0 .. 2
    /\ pc \in Positions

Buffers ==
    /\ g_apdu \in [Part -> Tokens]
    /\ ucaRevPackN \in SUBSET Part
    /\ ucaPackMsg \in Messages
    /\ toPhone \in Seq(Notes) /\ losses \in Nat

Dispatched ==
    /\ CMD09_oldlabel \in {0} \union Commands
    /\ \/ stm32 = [cmd |-> 0, next |-> 1]
       \/ \E c \in Commands : \E n \in 1 .. Len(ReplyLen[c]) : stm32 = [cmd |-> c, next |-> n]
    /\ work \in [Commands -> Nat]

Phone ==
    /\ toDevice \in Seq(Packets) /\ outbox \in Seq(Tasks)
    /\ current \in {0} \union Commands
    /\ want \in Nat /\ (want # 0 => current # 0)
    /\ DOMAIN got \subseteq Indices /\ (\A k \in DOMAIN got : got[k] \in Tokens)
    /\ total \in Indices /\ (total # 0 => (0 .. total - 1) \ DOMAIN got # {})
    /\ answers \in [Commands -> Seq(Replies)]
    /\ retries \in Nat /\ drops \in Nat
    /\ unseen \in BOOLEAN /\ session \in Sessions

Types == Scalars /\ Buffers /\ Dispatched /\ Phone

-----------------------------------------------------------------------------
(* In every session.                                                       *)

(* What was received has a first packet: what is announced is a command.   *)
FirstPacket ==
    /\ g_apdu[0].kind = "none" => ~g_apdu[0].aligned
    /\ 0 \in ucaRevPackN /\ pc # "reset" => g_apdu[0].kind # "none"
    /\ Apdufinsh = 1 /\ pc \notin {"reset", "finish"} => g_apdu[0].kind # "none"

NoReplyAnnounced == blueRecivSendflag = "Recivedata" => g_apdu[0].kind # "rsp"

IsData(p) == p.type = "data"

(* Commands come in the order of their labels: what is sent, what is on    *)
(* its way, what is in g_apdu, and what was worked last.                   *)
Sent ==
    /\ \A i \in DOMAIN outbox : outbox[i].type = "command" => outbox[i].cmd = current
    /\ \A i \in DOMAIN toDevice : IsData(toDevice[i]) => toDevice[i].token.id <= current
    /\ g_apdu[0].kind = "cmd" => g_apdu[0].id <= current
    /\ CMD09_oldlabel <= current

InOrder ==
    \A i, j \in DOMAIN toDevice :
        i < j /\ IsData(toDevice[i]) /\ IsData(toDevice[j])
           => toDevice[i].token.id <= toDevice[j].token.id

Behind ==
    /\ \A i \in DOMAIN toDevice : IsData(toDevice[i]) =>
          /\ CMD09_oldlabel <= toDevice[i].token.id
          /\ g_apdu[0].kind = "cmd" => g_apdu[0].id <= toDevice[i].token.id
    /\ g_apdu[0].kind = "cmd" => CMD09_oldlabel <= g_apdu[0].id

WorkedOnce ==
    \A c \in Commands : /\ work[c] <= 1
                        /\ c > CMD09_oldlabel => work[c] = 0

General ==
    /\ Types
    /\ FirstPacket /\ NoReplyAnnounced
    /\ Sent /\ InOrder /\ Behind /\ WorkedOnce

-----------------------------------------------------------------------------
(* Lengths and packets.                                                    *)

(* The payload of a packet, and of the first one.                          *)
LEMMA Sizes == Payload = 18 /\ First = 16
BY SMT DEF Payload, First, PackRecive

(* How many packets a length takes.                                        *)
LEMMA PartsOf ==
    ASSUME NEW len \in Nat, len >= 1
    PROVE  /\ Parts(len) \in Nat /\ Parts(len) >= 1
           /\ len <= 16 + (Parts(len) - 1) * 18
           /\ len > 16 => Parts(len) >= 2 /\ len > 16 + (Parts(len) - 2) * 18
           /\ len <= 16 <=> Parts(len) = 1
<1>1. CASE len <= 16
  BY <1>1, Sizes, SMT DEF Parts
<1>2. CASE len > 16
  <2> DEFINE q == (len - 16 + 17) \div 18
  <2>1. q \in Nat /\ q * 18 <= len + 1 /\ len + 1 < q * 18 + 18
    BY <1>2, SMT
  <2>2. Parts(len) = 1 + q
    BY <1>2, Sizes, SMT DEF Parts, Ceil
  <2> HIDE DEF q
  <2> QED BY <1>2, <2>1, <2>2, SMT
<1> QED BY <1>1, <1>2, SMT

(* What fits into g_apdu.                                                  *)
LEMMA FitsParts ==
    ASSUME NEW len, Fits(len)
    PROVE  len \in Nat /\ len >= 6 /\ len < 65536 /\ Parts(len) \in 1 .. MaxParts /\ MaxParts \in Nat \ {0} /\ MaxParts <= 120
<1>1. len \in Nat /\ len >= 6 /\ len < 65536 /\ Parts(len) <= MaxParts
  BY DEF Fits
<1>2. len \in Nat /\ len >= 1
  BY <1>1, SMT
<1>3. Parts(len) \in Nat /\ Parts(len) >= 1
  BY <1>2, PartsOf
<1>4. MaxParts \in Nat \ {0} /\ MaxParts <= 120
  BY BleAssumption DEF TransferAssumption
<1> QED BY <1>1, <1>3, <1>4, SMT

(* The lengths of a command and of its replies.                            *)
LEMMA CommandFits ==
    ASSUME NEW c \in Commands
    PROVE  /\ c \in Nat /\ c # 0
           /\ CmdLen[c] \in Nat /\ CmdLen[c] >= 6 /\ CmdLen[c] < 65536
           /\ Parts(CmdLen[c]) \in 1 .. MaxParts
           /\ AllParts(c) \subseteq Part /\ 0 \in AllParts(c)
           /\ MaxParts \in Nat \ {0} /\ MaxParts <= 120
<1>1. c \in Nat /\ c # 0 /\ Fits(CmdLen[c])
  BY BleAssumption DEF TransferAssumption
<1>2. /\ CmdLen[c] \in Nat /\ CmdLen[c] >= 6 /\ CmdLen[c] < 65536
      /\ Parts(CmdLen[c]) \in 1 .. MaxParts
      /\ MaxParts \in Nat \ {0} /\ MaxParts <= 120
  BY <1>1, FitsParts
<1> QED BY <1>1, <1>2, SMT DEF AllParts, Part

(* See above.                                                              *)
LEMMA ReplyFits ==
    ASSUME NEW c \in Commands, NEW n \in 1 .. Len(ReplyLen[c])
    PROVE  /\ ReplyLen[c][n] \in Nat /\ ReplyLen[c][n] >= 6 /\ ReplyLen[c][n] < 65536
           /\ Parts(ReplyLen[c][n]) \in 1 .. MaxParts
           /\ MaxParts \in Nat \ {0} /\ MaxParts <= 120
<1>1. Fits(ReplyLen[c][n])
  BY BleAssumption DEF TransferAssumption
<1> QED BY <1>1, FitsParts

(* A command has a first reply.                                            *)
LEMMA HasReply ==
    ASSUME NEW c \in Commands
    PROVE  Len(ReplyLen[c]) \in Nat /\ 1 \in 1 .. Len(ReplyLen[c])
<1>1. Len(ReplyLen[c]) \in Nat \ {0}
  BY BleAssumption DEF TransferAssumption
<1> QED BY <1>1, SMT

(* The bytes of a packet of a command.                                     *)
LEMMA BytesOk ==
    ASSUME NEW c \in Commands, NEW k \in AllParts(c)
    PROVE  Bytes(CmdLen[c], k) \in Lengths
<1> DEFINE len == CmdLen[c]
           p   == Parts(len)
<1>1. len \in Nat /\ len >= 6 /\ len < 65536 /\ p \in Nat /\ p >= 1 /\ p <= 120
  BY CommandFits, SMT
<1>2. k \in 0 .. p - 1
  BY DEF AllParts
<1>3. len \in Nat /\ len >= 1
  BY <1>1, SMT
<1>4. len <= 16 + (p - 1) * 18 /\ (len > 16 => p >= 2 /\ len > 16 + (p - 2) * 18)
      /\ (len <= 16 <=> p = 1)
  BY <1>3, PartsOf
<1> HIDE DEF p, len
<1>5. CASE k < p - 1
  BY <1>5, <1>1, Sizes, SMT DEF Bytes, p, len, Lengths
<1>6. CASE k = p - 1
  <2>1. Bytes(len, k) = len + 2 - k * 18
    BY <1>6, <1>1, <1>2, Sizes, SMT DEF Bytes, p
  <2>2. len + 2 - k * 18 \in Nat /\ len + 2 - k * 18 < 65536
    <3>1. CASE p = 1
      BY <3>1, <1>1, <1>4, <1>6, SMT
    <3>2. CASE p # 1
      BY <3>2, <1>1, <1>4, <1>6, SMT
    <3> QED BY <3>1, <3>2
  <2> QED BY <2>1, <2>2 DEF len, Lengths
<1> QED BY <1>1, <1>2, <1>5, <1>6, SMT

(* A bounded set of numbers has a greatest one.                            *)
LEMMA GreatestIn ==
    ASSUME NEW N \in Nat, NEW S \in SUBSET (0 .. N), S # {}
    PROVE  Max(S) \in S /\ \A y \in S : Max(S) >= y
<1> DEFINE T == {n \in Nat : \A y \in S : y <= n}
<1>1. N \in T
  BY SMT
<1>2. PICK m \in T : \A n \in T : ~ (<<n, m>> \in OpToRel(<, Nat))
  <2>1. IsWellFoundedOn(OpToRel(<, Nat), Nat)
    BY NatLessThanWellFounded
  <2>2. T \subseteq Nat /\ T # {}
    BY <1>1
  <2> QED BY <2>1, <2>2, WFMin
<1>3. \A n \in T : ~ (n < m)
  BY <1>2, Zenon DEF OpToRel
<1>4. m \in S
  <2> SUFFICES ASSUME m \notin S PROVE FALSE
    OBVIOUS
  <2>1. PICK y \in S : TRUE
    OBVIOUS
  <2>2. y < m /\ y \in Nat
    BY <2>1, SMT
  <2>3. m - 1 \in T
    BY <2>2, SMT
  <2> QED BY <2>3, <1>3, SMT
<1>5. \A y \in S : m >= y
  BY SMT
<1>6. \E x \in S : \A y \in S : x >= y
  BY <1>4, <1>5
<1> QED BY <1>6 DEF Max

-----------------------------------------------------------------------------
(* Tokens.                                                                 *)

(* Tokens with the same fields are the same.                               *)
LEMMA SameToken ==
    ASSUME NEW s \in Tokens, NEW t \in Tokens,
           s.kind = t.kind, s.id = t.id, s.lab = t.lab, s.n = t.n, s.aligned = t.aligned
    PROVE  s = t
BY DEF Tokens, Token

(* What a token is, by its kind.                                           *)
LEMMA TokenFacts ==
    ASSUME NEW t \in Tokens
    PROVE  /\ t.lab \in {0} \union Commands /\ t.id \in {0} \union Commands
           /\ t.kind \in {"none", "cmd", "rsp"} /\ t.n \in Nat
           /\ t.kind = "none" => t.lab = 0 /\ t.id = 0 /\ t.n = 0
           /\ t.kind = "cmd" => t.id \in Commands /\ t.lab = t.id /\ t.n = 0
           /\ t.kind = "rsp" => /\ t.id \in Commands /\ t.n \in 1 .. Len(ReplyLen[t.id])
                                /\ t.aligned
BY DEF Tokens, Token

(* The tokens the actions make.                                            *)
LEMMA TokensMade ==
    /\ NoToken \in Tokens
    /\ \A c \in Commands : CmdToken(c, FALSE) \in Tokens
    /\ \A c \in Commands : CmdToken(c, TRUE) \in Tokens
    /\ \A c \in Commands : \A lab \in {0} \union Commands : \A n \in 1 .. Len(ReplyLen[c]) :
           RspToken(c, lab, n) \in Tokens
<1>1. NoToken \in Tokens
  BY DEF NoToken, Tokens, Token
<1>2. ASSUME NEW c \in Commands
      PROVE  CmdToken(c, FALSE) \in Tokens
  BY DEF Tokens, Token, CmdToken
<1>3. ASSUME NEW c \in Commands
      PROVE  CmdToken(c, TRUE) \in Tokens
  BY DEF Tokens, Token, CmdToken
<1>4. ASSUME NEW c \in Commands, NEW lab \in {0} \union Commands,
             NEW n \in 1 .. Len(ReplyLen[c])
      PROVE  RspToken(c, lab, n) \in Tokens
  <2>1. n \in Nat
    BY SMT
  <2> QED BY <2>1 DEF Tokens, Token, RspToken
<1> QED BY <1>1, <1>2, <1>3, <1>4

(* The fields of a command's packet.                                       *)
LEMMA CmdFields ==
    ASSUME NEW c \in Commands
    PROVE  /\ CmdToken(c, FALSE).kind = "cmd" /\ CmdToken(c, TRUE).kind = "cmd"
           /\ CmdToken(c, FALSE).id = c /\ CmdToken(c, TRUE).id = c
           /\ CmdToken(c, FALSE).lab = c /\ CmdToken(c, TRUE).lab = c
           /\ ~CmdToken(c, FALSE).aligned /\ CmdToken(c, TRUE).aligned
BY DEF CmdToken

(* Moving a command's packet.                                              *)
LEMMA TokenMoved ==
    ASSUME NEW t \in Tokens, ~t.aligned
    PROVE  /\ [t EXCEPT !.aligned = TRUE] \in Tokens
           /\ [t EXCEPT !.aligned = TRUE].kind = t.kind
           /\ [t EXCEPT !.aligned = TRUE].id = t.id
           /\ \A c \in Commands : t = CmdToken(c, FALSE)
                                    => [t EXCEPT !.aligned = TRUE] = CmdToken(c, TRUE)
<1> DEFINE m == [t EXCEPT !.aligned = TRUE]
<1>1. /\ m.kind = t.kind /\ m.id = t.id /\ m.lab = t.lab /\ m.n = t.n
      /\ m.aligned = TRUE /\ m \in Token
  BY DEF Tokens, Token
<1>2. t.kind # "rsp"
  BY TokenFacts
<1> HIDE DEF m
<1>3. m \in Tokens
  BY <1>1, <1>2, TokenFacts DEF Tokens
<1>4. ASSUME NEW c \in Commands, t = CmdToken(c, FALSE)
      PROVE  m = CmdToken(c, TRUE)
  <2>1. CmdToken(c, TRUE) \in Tokens
    BY TokensMade
  <2>2. m.kind = "cmd" /\ m.id = c /\ m.lab = c /\ m.n = 0 /\ m.aligned = TRUE
    BY <1>1, <1>4 DEF CmdToken
  <2>3. /\ CmdToken(c, TRUE).kind = "cmd" /\ CmdToken(c, TRUE).id = c
        /\ CmdToken(c, TRUE).lab = c /\ CmdToken(c, TRUE).n = 0
        /\ CmdToken(c, TRUE).aligned = TRUE
    BY DEF CmdToken
  <2> QED BY <1>3, <2>1, <2>2, <2>3, SameToken
<1> QED BY <1>1, <1>3, <1>4 DEF m

-----------------------------------------------------------------------------
(* Types: the operators the actions share.                                 *)

(* A notification that is queued or lost.                                  *)
LEMMA Notified_Types ==
    ASSUME Buffers, NEW p \in Notes, ble_txrx_Send(p)
    PROVE  toPhone' \in Seq(Notes) /\ losses' \in Nat
BY DEF Buffers, ble_txrx_Send

(* A reply in g_apdu.                                                      *)
LEMMA Reply_Types ==
    ASSUME Buffers, NEW c \in Commands, NEW n \in 1 .. Len(ReplyLen[c]),
           Send_bluetoothdata(c, n)
    PROVE  /\ g_apdu' \in [Part -> Tokens]
           /\ g_apdu_length' \in Lengths /\ g_apdu_length' = ReplyLen[c][n]
           /\ blueRecivSendflag' = "Senddata"
           /\ g_apdu'[0].kind = "rsp"
<1> DEFINE lab == IF g_apdu[0].aligned THEN g_apdu[0].lab ELSE 0
<1>1. 0 \in Part /\ Parts(ReplyLen[c][n]) >= 1
  <2>1. Parts(ReplyLen[c][n]) \in 1 .. MaxParts /\ MaxParts \in Nat \ {0} /\ MaxParts <= 120
    BY ReplyFits
  <2> QED BY <2>1, SMT DEF Part
<1>2. g_apdu[0] \in Tokens
  BY <1>1 DEF Buffers
<1>3. lab \in {0} \union Commands
  BY <1>2, TokenFacts
<1>4. RspToken(c, lab, n) \in Tokens
  BY <1>3, TokensMade
<1>5. /\ g_apdu' = [k \in Part |-> IF k < Parts(ReplyLen[c][n]) THEN RspToken(c, lab, n)
                                   ELSE g_apdu[k]]
      /\ g_apdu_length' = ReplyLen[c][n]
      /\ blueRecivSendflag' = "Senddata"
  BY DEF Send_bluetoothdata
<1> HIDE DEF lab
<1>6. g_apdu' \in [Part -> Tokens]
  BY <1>4, <1>5 DEF Buffers
<1>7. g_apdu'[0] = RspToken(c, lab, n)
  BY <1>1, <1>5, ReplyFits, SMT
<1>8. g_apdu_length' \in Lengths
  BY <1>5, ReplyFits DEF Lengths
<1>9. RspToken(c, lab, n).kind = "rsp"
  BY DEF RspToken
<1> QED BY <1>5, <1>6, <1>7, <1>8, <1>9

(* What is missing of a command.                                           *)
LEMMA Missed_Types ==
    ASSUME NEW n \in Nat, n <= 256, NEW rev
    PROVE  MissedPackN(n, rev) \in Messages
<1> DEFINE miss == (0 .. n - 1) \ rev
<1>1. miss \in SUBSET Indices /\ miss \in SUBSET (0 .. n - 1)
  BY SMT DEF Indices
<1>2. ASSUME miss # {}
      PROVE  Max(miss) \in Nat
  <2>1. PICK x \in miss : x \in 0 .. n - 1
    BY <1>2
  <2>2. n - 1 \in Nat
    BY <2>1, SMT
  <2>3. Max(miss) \in miss
    BY <1>1, <1>2, <2>2, GreatestIn
  <2>4. Max(miss) \in 0 .. n - 1
    BY <2>3
  <2> QED BY <2>4, SMT
<1>3. MissedPackN(n, rev) = [len |-> IF miss = {} THEN 1 ELSE 2 + Max(miss) \div 8,
                             miss |-> miss]
  BY DEF MissedPackN
<1> HIDE DEF miss
<1>4. (IF miss = {} THEN 1 ELSE 2 + Max(miss) \div 8) \in Nat
  BY <1>2, SMT
<1> QED BY <1>1, <1>3, <1>4 DEF Messages

(* A packet of a command.                                                  *)
LEMMA Packet_Facts ==
    ASSUME NEW c \in Commands, NEW k \in AllParts(c)
    PROVE  /\ CommandPacket(c, k) \in DataPackets
           /\ CommandPacket(c, k).type = "data" /\ CommandPacket(c, k).idx = k
           /\ CommandPacket(c, k).total = Parts(CmdLen[c])
           /\ CommandPacket(c, k).len = Bytes(CmdLen[c], k)
           /\ CommandPacket(c, k).token = CmdToken(c, FALSE)
           /\ CommandPacket(c, k).token.id = c
<1>1. CommandPacket(c, k) \in DataPackets
  BY DEF DataPackets
<1>2. CmdToken(c, FALSE).id = c
  BY CmdFields
<1> QED BY <1>1, <1>2 DEF CommandPacket

(* What a packet on its way to the device may be.                          *)
LEMMA Packets_Are ==
    ASSUME NEW p \in Packets
    PROVE  /\ p.type \in {"ack", "missing", "data"}
           /\ p.type = "ack" => p = AckPacket
           /\ p.type = "missing" => p.msg \in Messages
           /\ p.type = "data" => \E c \in Commands : \E k \in AllParts(c) : p = CommandPacket(c, k)
<1>1. CASE p \in Requests
  BY <1>1 DEF Requests, AckPacket
<1>2. CASE p \in DataPackets
  <2>1. PICK c \in Commands : \E k \in AllParts(c) : p = CommandPacket(c, k)
    BY <1>2 DEF DataPackets
  <2>2. p.type = "data"
    BY <2>1 DEF CommandPacket
  <2> QED BY <2>1, <2>2
<1> QED BY <1>1, <1>2 DEF Packets

(* The message of a report of the phone.                                   *)
LEMMA Missing_Types ==
    ASSUME NEW n \in Indices, NEW left \in SUBSET (0 .. n - 1), left # {}
    PROVE  MissingPacket(n, left) \in Requests
<1>1. n \in Nat /\ n < 256
  BY DEF Indices
<1>2. Max(left) \in Nat
  <2>1. PICK x \in left : x \in 0 .. n - 1
    OBVIOUS
  <2>2. n - 1 \in Nat
    BY <1>1, <2>1, SMT
  <2>3. Max(left) \in left
    BY <2>2, GreatestIn
  <2>4. Max(left) \in 0 .. n - 1
    BY <2>3
  <2> QED BY <2>4, <1>1, SMT
<1>3. left \in SUBSET Indices
  BY <1>1, SMT DEF Indices
<1>4. 2 + Max(left) \div 8 \in Nat
  BY <1>2, SMT
<1> QED BY <1>3, <1>4 DEF MissingPacket, Requests, Messages

(* The packets of a command the phone has to send.                         *)
LEMMA Jobs_Types ==
    ASSUME NEW c \in Commands, NEW ks \in SUBSET AllParts(c)
    PROVE  CommandPackets(c, ks) \in Seq(Tasks)
<1>1. ks # {} => [type |-> "command", cmd |-> c, parts |-> ks] \in Tasks
  <2> SUFFICES ASSUME ks # {}
               PROVE  [type |-> "command", cmd |-> c, parts |-> ks] \in Jobs
    BY DEF Tasks
  <2>1. ks \in (SUBSET AllParts(c)) \ {{}}
    OBVIOUS
  <2> QED BY <2>1 DEF Jobs
<1> QED BY <1>1 DEF CommandPackets

-----------------------------------------------------------------------------
(* Types: the actions of the device.                                       *)

DeviceTypes == Scalars /\ Buffers /\ Dispatched

(* The constants the types depend on.                                      *)
LEMMA Limits ==
    /\ WaitRertyTims \in Nat \ {0} /\ MaxParts \in Nat \ {0} /\ MaxParts <= 120
    /\ 0 \in Part /\ Part \subseteq Indices
    /\ 0 \in Indices /\ 0 \in Lengths
<1>1. WaitRertyTims \in Nat \ {0} /\ MaxParts \in Nat \ {0} /\ MaxParts <= 120
  BY BleAssumption DEF TransferAssumption
<1> QED BY <1>1, SMT DEF Part, Indices, Lengths

(* A remainder.                                                            *)
LEMMA Bytes_Wrap ==
    ASSUME NEW n \in Int
    PROVE  n % 256 \in Indices /\ n % 65536 \in Lengths
BY SMT DEF Indices, Lengths

(* A data packet is one of a command.                                       *)
LEMMA DataIs ==
    ASSUME NEW p \in Packets, p.type = "data"
    PROVE  \E c \in Commands : \E k \in AllParts(c) : p = CommandPacket(c, k)
<1>1. p \notin Requests
  BY DEF Requests, AckPacket
<1> QED BY <1>1 DEF Packets, DataPackets

(* The handler of the phone's packets.                                     *)
LEMMA PhoneToBle_Types ==
    ASSUME DeviceTypes, NEW p \in Packets, PhoneToBle(p)
    PROVE  DeviceTypes'
<1>0. 0 \in 0 .. WaitRertyTims /\ 1 \in 0 .. WaitRertyTims /\ 0 \in Indices
  BY Limits, SMT
<1>1. CASE PhoneReport(p)
  <2>1. p.msg \in Messages
    BY <1>1, Packets_Are DEF PhoneReport
  <2>2. Scalars'
    <3>1. /\ UNCHANGED <<Ble_ConnnectFlag, g_apdu_length, blueRecivSendflag, Apdufinsh, lr,
                         SumPackNumber, Sendlenth, remberPackn, CMD09_SW,
                         uart_waitack_flag, pc>>
          /\ Recivedataflag' = 1 /\ T_Connect' = FALSE /\ ucReTry' = 0
          /\ ucResend' \in {1, ucResend}
      BY <1>1 DEF PhoneReport, apdu, command
    <3> QED BY <3>1, <1>0 DEF DeviceTypes, Scalars
  <2>3. Buffers'
    BY <1>1, <2>1 DEF DeviceTypes, Buffers, PhoneReport, apdu, command, radio
  <2>4. Dispatched'
    BY <1>1 DEF DeviceTypes, Dispatched, PhoneReport, apdu, command, radio
  <2> QED BY <2>2, <2>3, <2>4 DEF DeviceTypes
<1>2. CASE PhoneAck(p)
  <2>1. Cleared \in Messages
    BY DEF Cleared, Messages
  <2>2. Scalars'
    <3>1. /\ UNCHANGED <<Ble_ConnnectFlag, g_apdu_length, blueRecivSendflag, Apdufinsh,
                         ucResend, remberPackn, CMD09_SW, pc>>
          /\ Recivedataflag' = 1 /\ T_Connect' = FALSE /\ ucReTry' = 0
          /\ uart_waitack_flag' \in {2, uart_waitack_flag}
          /\ \/ UNCHANGED <<lr, SumPackNumber, Sendlenth>>
             \/ lr' = 0 /\ SumPackNumber' = 0 /\ Sendlenth' = 0
      BY <1>2 DEF PhoneAck, apdu, reply_done
    <3>2. lr' \in Nat /\ Sendlenth' \in Nat /\ SumPackNumber' \in Indices
      BY <3>1, <1>0 DEF DeviceTypes, Scalars
    <3>3. uart_waitack_flag' \in 0 .. 2
      BY <3>1 DEF DeviceTypes, Scalars
    <3> QED BY <3>1, <3>2, <3>3, <1>0 DEF DeviceTypes, Scalars
  <2>3. Buffers'
    BY <1>2, <2>1 DEF DeviceTypes, Buffers, PhoneAck, apdu, command, radio
  <2>4. Dispatched'
    BY <1>2 DEF DeviceTypes, Dispatched, PhoneAck, apdu, command, radio
  <2> QED BY <2>2, <2>3, <2>4 DEF DeviceTypes
<1>3. CASE PhoneDataIgnored(p)
  <2>2. Scalars'
    <3>1. /\ UNCHANGED <<Ble_ConnnectFlag, g_apdu_length, blueRecivSendflag, Apdufinsh, lr,
                         SumPackNumber, Sendlenth, ucResend, remberPackn, CMD09_SW,
                         uart_waitack_flag, pc>>
          /\ Recivedataflag' = 1 /\ T_Connect' \in BOOLEAN /\ ucReTry' = 0
      BY <1>3 DEF PhoneDataIgnored, apdu, command, tx
    <3> QED BY <3>1, <1>0 DEF DeviceTypes, Scalars
  <2>3. Buffers'
    BY <1>3 DEF DeviceTypes, Buffers, PhoneDataIgnored, apdu, command, radio
  <2>4. Dispatched'
    BY <1>3 DEF DeviceTypes, Dispatched, PhoneDataIgnored, apdu, command, radio
  <2> QED BY <2>2, <2>3, <2>4 DEF DeviceTypes
<1>4. CASE PhoneData(p)
  <2>0. p.type = "data"
    BY <1>4 DEF PhoneData
  <2>1. PICK c \in Commands : \E k \in AllParts(c) : p = CommandPacket(c, k)
    BY <2>0, DataIs
  <2>2. PICK k \in AllParts(c) : p = CommandPacket(c, k)
    BY <2>1
  <2>3. /\ k \in Part /\ p.idx = k /\ p.total = Parts(CmdLen[c])
        /\ p.len = Bytes(CmdLen[c], k) /\ p.token = CmdToken(c, FALSE)
    <3>1. k \in Part
      BY CommandFits
    <3>2. /\ CommandPacket(c, k).idx = k /\ CommandPacket(c, k).total = Parts(CmdLen[c])
          /\ CommandPacket(c, k).len = Bytes(CmdLen[c], k)
          /\ CommandPacket(c, k).token = CmdToken(c, FALSE)
      BY Packet_Facts
    <3> QED BY <2>2, <3>1, <3>2
  <2>4. p.total \in Nat /\ p.total <= 256
    BY <2>3, CommandFits, SMT
  <2>5. p.len \in Lengths /\ p.token \in Tokens
    BY <2>3, BytesOk, TokensMade
  <2>6. ucaPackMsg' = MissedPackN(p.total, ucaRevPackN') /\ ucaPackMsg' \in Messages
    BY <1>4, <2>4, Missed_Types DEF PhoneData
  <2>7. g_apdu_length' \in Lengths
    <3>1. g_apdu_length + p.len \in Int
      BY <2>5, SMT DEF DeviceTypes, Scalars, Lengths
    <3>2. (g_apdu_length + p.len) % 65536 \in Lengths
      BY <3>1, Bytes_Wrap
    <3>3. g_apdu_length' \in {p.len, (g_apdu_length + p.len) % 65536}
      BY <1>4 DEF PhoneData
    <3> QED BY <2>5, <3>2, <3>3
  <2>8. toPhone' \in Seq(Notes) /\ losses' \in Nat
    <3>1. Report(ucaPackMsg') \in Notes
      BY <2>6 DEF Report, Notes, Messages
    <3>2. CASE UNCHANGED radio
      BY <3>2 DEF DeviceTypes, Buffers, radio
    <3>3. CASE ble_txrx_Send(Report(ucaPackMsg'))
      BY <3>1, <3>3, Notified_Types DEF DeviceTypes
    <3>4. UNCHANGED radio \/ ble_txrx_Send(Report(ucaPackMsg'))
      BY <1>4 DEF PhoneData
    <3> QED BY <3>2, <3>3, <3>4
  <2>9. Scalars'
    <3>1. /\ UNCHANGED <<Ble_ConnnectFlag, blueRecivSendflag, ucResend, lr, SumPackNumber,
                         Sendlenth, remberPackn, CMD09_SW, uart_waitack_flag, pc>>
          /\ Recivedataflag' = 1 /\ Apdufinsh' \in {Apdufinsh, 1, 2}
          /\ T_Connect' \in BOOLEAN /\ ucReTry' \in {0, 1}
      BY <1>4 DEF PhoneData, tx, command
    <3> QED BY <3>1, <1>0, <2>7 DEF DeviceTypes, Scalars
  <2>10. Buffers'
    <3>1. /\ g_apdu' = [g_apdu EXCEPT ![k] = p.token]
          /\ ucaRevPackN' = ucaRevPackN \union {k}
      BY <1>4, <2>3 DEF PhoneData
    <3>2. g_apdu' \in [Part -> Tokens] /\ ucaRevPackN' \in SUBSET Part
      BY <3>1, <2>3, <2>5 DEF DeviceTypes, Buffers
    <3> QED BY <3>2, <2>6, <2>8 DEF Buffers
  <2>11. Dispatched'
    BY <1>4 DEF DeviceTypes, Dispatched, PhoneData, command
  <2> QED BY <2>9, <2>10, <2>11 DEF DeviceTypes
<1> QED BY <1>1, <1>2, <1>3, <1>4 DEF PhoneToBle

(* A packet of a reply that is sent.                                       *)
LEMMA Data_Types ==
    ASSUME NEW k \in Nat, NEW n \in Indices, NEW token \in Tokens
    PROVE  Data(k, n, token) \in Notes
BY DEF Data, Notes

(* An announced command is a command's.                                    *)
LEMMA Announced_Is ==
    ASSUME DeviceTypes, FirstPacket, NoReplyAnnounced, Announced
    PROVE  /\ g_apdu[0].kind = "cmd" /\ g_apdu[0].lab \in Commands
           /\ g_apdu[0].id = g_apdu[0].lab /\ g_apdu[0].aligned
<1>1. g_apdu[0] \in Tokens
  BY Limits DEF DeviceTypes, Buffers
<1>2. blueRecivSendflag = "Recivedata" /\ LengthField = g_apdu_length
  BY DEF Announced
<1>3. g_apdu[0].aligned
  <2>1. SUFFICES ASSUME ~g_apdu[0].aligned
                 PROVE  FALSE
    OBVIOUS
  <2>2. g_apdu_length = -1
    BY <1>2, <2>1 DEF LengthField
  <2> QED BY <2>2, SMT DEF DeviceTypes, Scalars, Lengths
<1>4. g_apdu[0].kind # "none" /\ g_apdu[0].kind # "rsp"
  BY <1>2, <1>3 DEF FirstPacket, NoReplyAnnounced
<1> QED BY <1>1, <1>3, <1>4, TokenFacts

(* Types: main, up to a complete command.                                  *)
LEMMA Turn_Types_Receive ==
    ASSUME DeviceTypes, TurnDisconnected \/ TurnConnected \/ Receive \/ ReceiveReset
                        \/ ReceiveFinish
    PROVE  DeviceTypes'
<1>0. 0 \in 0 .. WaitRertyTims /\ 0 \in Indices /\ 0 \in Lengths
  BY Limits, SMT
<1>00. Cleared \in Messages
  BY DEF Cleared, Messages
<1>1. CASE TurnDisconnected
  <2>1. Scalars'
    BY <1>1, <1>0 DEF DeviceTypes, Scalars, TurnDisconnected, reply_done, ble_transfer_init,
       Positions, command
  <2>2. Buffers'
    BY <1>1, <1>00 DEF DeviceTypes, Buffers, TurnDisconnected, ble_transfer_init, radio
  <2>3. Dispatched'
    BY <1>1 DEF DeviceTypes, Dispatched, TurnDisconnected, command
  <2> QED BY <2>1, <2>2, <2>3 DEF DeviceTypes
<1>2. CASE TurnConnected
  <2>1. Scalars'
    <3>1. /\ UNCHANGED <<Ble_ConnnectFlag, g_apdu_length, Recivedataflag, Apdufinsh, T_Connect,
                         ucReTry, ucResend, Sendlenth, SumPackNumber, remberPackn, CMD09_SW,
                         uart_waitack_flag>>
          /\ pc' = "receive" /\ lr' \in {lr, g_apdu_length}
          /\ blueRecivSendflag' \in {blueRecivSendflag, "NOdata"}
      BY <1>2 DEF TurnConnected, rx, both, command
    <3> QED BY <3>1 DEF DeviceTypes, Scalars, Positions, Lengths
  <2>2. Buffers'
    BY <1>2 DEF DeviceTypes, Buffers, TurnConnected, radio, rx, both
  <2>3. Dispatched'
    BY <1>2 DEF DeviceTypes, Dispatched, TurnConnected, command
  <2> QED BY <2>1, <2>2, <2>3 DEF DeviceTypes
<1>3. CASE Receive
  <2>1. Scalars'
    <3>1. /\ UNCHANGED <<Ble_ConnnectFlag, Apdufinsh, T_Connect, lr,
                         ucReTry, ucResend, Sendlenth, SumPackNumber, remberPackn, CMD09_SW,
                         uart_waitack_flag>>
          /\ pc' \in {"reset", "send"} /\ Recivedataflag' = 0
          /\ blueRecivSendflag' \in {blueRecivSendflag, "Recivedata"}
          /\ g_apdu_length' \in {g_apdu_length, (g_apdu_length - 2) % 65536}
      BY <1>3 DEF Receive, both, tx, command, apdu
    <3>2. g_apdu_length' \in Lengths
      <4>1. g_apdu_length - 2 \in Int
        BY SMT DEF DeviceTypes, Scalars, Lengths
      <4> QED BY <3>1, <4>1, Bytes_Wrap DEF DeviceTypes, Scalars
    <3> QED BY <3>1, <3>2 DEF DeviceTypes, Scalars, Positions
  <2>2. g_apdu' \in [Part -> Tokens]
    <3>1. CASE UNCHANGED g_apdu
      BY <3>1 DEF DeviceTypes, Buffers
    <3>2. CASE g_apdu' = [k \in Part |->
                  IF k < Parts(g_apdu_length')
                  THEN IF g_apdu[k].aligned THEN NoToken
                       ELSE [g_apdu[k] EXCEPT !.aligned = TRUE]
                  ELSE g_apdu[k]]
      <4>1. ASSUME NEW k \in Part, ~g_apdu[k].aligned
            PROVE  [g_apdu[k] EXCEPT !.aligned = TRUE] \in Tokens
        <5>1. g_apdu[k] \in Tokens
          BY DEF DeviceTypes, Buffers
        <5> QED BY <4>1, <5>1, TokenMoved
      <4>2. NoToken \in Tokens
        BY TokensMade
      <4> QED BY <3>2, <4>1, <4>2 DEF DeviceTypes, Buffers
    <3> QED BY <1>3, <3>1, <3>2 DEF Receive, apdu
  <2>3. Buffers'
    BY <1>3, <2>2 DEF DeviceTypes, Buffers, Receive, radio, both
  <2>4. Dispatched'
    BY <1>3 DEF DeviceTypes, Dispatched, Receive, command
  <2> QED BY <2>1, <2>3, <2>4 DEF DeviceTypes
<1>4. CASE ReceiveReset
  <2>1. Scalars'
    BY <1>4, <1>0 DEF DeviceTypes, Scalars, ReceiveReset, ble_transfer_init, Positions, apdu,
       tx, command
  <2>2. Buffers'
    BY <1>4, <1>00 DEF DeviceTypes, Buffers, ReceiveReset, ble_transfer_init, radio, apdu
  <2>3. Dispatched'
    BY <1>4 DEF DeviceTypes, Dispatched, ReceiveReset, command
  <2> QED BY <2>1, <2>2, <2>3 DEF DeviceTypes
<1>5. CASE ReceiveFinish
  <2>1. Scalars'
    BY <1>5 DEF DeviceTypes, Scalars, ReceiveFinish, Positions, apdu, both, tx, command
  <2>2. Buffers'
    BY <1>5 DEF DeviceTypes, Buffers, ReceiveFinish, radio, apdu, both
  <2>3. Dispatched'
    BY <1>5 DEF DeviceTypes, Dispatched, ReceiveFinish, command
  <2> QED BY <2>1, <2>2, <2>3 DEF DeviceTypes
<1> QED BY <1>1, <1>2, <1>3, <1>4, <1>5

(* What is sent of a reply.                                                *)
LEMMA PartAt_Types ==
    ASSUME DeviceTypes
    PROVE  /\ \A k : PartAt(k) \in Tokens
           /\ NextPart \in Nat
<1>1. ASSUME NEW k
      PROVE  PartAt(k) \in Tokens
  BY TokensMade DEF PartAt, DeviceTypes, Buffers
<1>2. NextPart \in Nat
  <2>1. Sendlenth \in Nat
    BY DEF DeviceTypes, Scalars
  <2>2. Sendlenth < 16 \/ ((Sendlenth - 16) \div 18 + 1) % 256 \in Nat
    BY <2>1, SMT
  <2> QED BY <2>1, <2>2, Sizes, SMT DEF NextPart
<1> QED BY <1>1, <1>2

(* Types: main, sending.                                                   *)
LEMMA Turn_Types_Send ==
    ASSUME DeviceTypes, Send \/ ReSend \/ NoReSend \/ Remember
    PROVE  DeviceTypes'
<1>1. CASE Send
  <2>1. CASE lr = 0
    <3>1. Scalars'
      BY <1>1, <2>1 DEF DeviceTypes, Scalars, Send, Positions, apdu, rx, command
    <3>2. Buffers'
      BY <1>1, <2>1 DEF DeviceTypes, Buffers, Send, radio, apdu, rx
    <3>3. Dispatched'
      BY <1>1, <2>1 DEF DeviceTypes, Dispatched, Send, command
    <3> QED BY <3>1, <3>2, <3>3 DEF DeviceTypes
  <2>2. CASE lr # 0
    <3>1. /\ SumPackNumber' = Parts(lr) % 256
          /\ ble_txrx_Send(Data(NextPart, SumPackNumber', PartAt(NextPart)))
          /\ lr' \in {0, lr}
          /\ Sendlenth' \in {lr, First, (Sendlenth + Payload) % 65536}
          /\ T_Connect' \in BOOLEAN
          /\ pc' = "resend"
          /\ UNCHANGED <<Ble_ConnnectFlag, g_apdu, g_apdu_length, blueRecivSendflag,
                         Recivedataflag, Apdufinsh, ucaRevPackN, ucaPackMsg, ucReTry, ucResend,
                         remberPackn, CMD09_oldlabel, CMD09_SW, uart_waitack_flag, stm32, work>>
      BY <1>1, <2>2 DEF Send, apdu, rx, command, DeviceTypes, Scalars
    <3>2. lr \in Nat /\ lr >= 1 /\ Sendlenth \in Nat
      BY <2>2, SMT DEF DeviceTypes, Scalars
    <3>3. Parts(lr) \in Nat
      BY <3>2, PartsOf
    <3>4. SumPackNumber' \in Indices
      BY <3>1, <3>3, Bytes_Wrap
    <3>5. First \in Nat /\ (Sendlenth + Payload) % 65536 \in Nat
      BY <3>2, Sizes, SMT
    <3>6. Data(NextPart, SumPackNumber', PartAt(NextPart)) \in Notes
      BY <3>4, PartAt_Types, Data_Types
    <3>7. toPhone' \in Seq(Notes) /\ losses' \in Nat
      BY <3>1, <3>6, Notified_Types DEF DeviceTypes
    <3>8. lr' \in Nat /\ Sendlenth' \in Nat
      BY <3>1, <3>2, <3>5
    <3>9. Scalars'
      BY <3>1, <3>4, <3>8 DEF DeviceTypes, Scalars, Positions
    <3>10. Buffers'
      BY <3>1, <3>7 DEF DeviceTypes, Buffers
    <3>11. Dispatched'
      BY <3>1 DEF DeviceTypes, Dispatched
    <3> QED BY <3>9, <3>10, <3>11 DEF DeviceTypes
  <2> QED BY <2>1, <2>2
<1>2. CASE ReSend
  <2> DEFINE token == IF remberPackn \in Part THEN g_apdu[remberPackn] ELSE NoToken
  <2>1. Data(remberPackn, SumPackNumber, token) \in Notes
    <3>1. token \in Tokens
      BY TokensMade DEF DeviceTypes, Buffers
    <3>2. remberPackn \in Nat /\ SumPackNumber \in Indices
      BY DEF DeviceTypes, Scalars, Indices
    <3> HIDE DEF token
    <3> QED BY <3>1, <3>2, Data_Types
  <2>2. UNCHANGED radio \/ ble_txrx_Send(Data(remberPackn, SumPackNumber, token))
    BY <1>2 DEF ReSend
  <2>3. toPhone' \in Seq(Notes) /\ losses' \in Nat
    <3>1. CASE UNCHANGED radio
      BY <3>1 DEF DeviceTypes, Buffers, radio
    <3> HIDE DEF token
    <3>2. CASE ble_txrx_Send(Data(remberPackn, SumPackNumber, token))
      BY <3>2, <2>1, Notified_Types DEF DeviceTypes
    <3> QED BY <2>2, <3>1, <3>2
  <2>4. Scalars'
    BY <1>2 DEF DeviceTypes, Scalars, ReSend, Positions, apdu, rx, both, command
  <2>5. Buffers'
    BY <1>2, <2>3 DEF DeviceTypes, Buffers, ReSend, apdu, rx, both
  <2>6. Dispatched'
    BY <1>2 DEF DeviceTypes, Dispatched, ReSend, command
  <2> QED BY <2>4, <2>5, <2>6 DEF DeviceTypes
<1>3. CASE NoReSend
  <2>1. Scalars'
    BY <1>3 DEF DeviceTypes, Scalars, NoReSend, Positions, apdu, rx, both, tx, command
  <2>2. Buffers'
    BY <1>3 DEF DeviceTypes, Buffers, NoReSend, radio, apdu, rx, both
  <2>3. Dispatched'
    BY <1>3 DEF DeviceTypes, Dispatched, NoReSend, command
  <2> QED BY <2>1, <2>2, <2>3 DEF DeviceTypes
<1>4. CASE Remember
  <2>1. /\ UNCHANGED <<Ble_ConnnectFlag, g_apdu, g_apdu_length, blueRecivSendflag,
                       Recivedataflag, Apdufinsh, ucaRevPackN, ucaPackMsg, ucReTry, lr,
                       SumPackNumber, Sendlenth, CMD09_oldlabel, CMD09_SW,
                       uart_waitack_flag, stm32, work, toPhone, losses>>
        /\ pc' = "retry"
        /\ ucResend' \in {0, ucResend} /\ (T_Connect' = TRUE \/ UNCHANGED T_Connect)
        /\ remberPackn' \in {0, (remberPackn + 1) % 256}
    BY <1>4 DEF Remember, apdu, rx, command, radio
  <2>2. remberPackn' \in Indices
    <3>1. remberPackn + 1 \in Int
      BY SMT DEF DeviceTypes, Scalars, Indices
    <3>2. (remberPackn + 1) % 256 \in Indices /\ 0 \in Indices
      BY <3>1, Bytes_Wrap, Limits
    <3> QED BY <2>1, <3>2
  <2>3. T_Connect' \in BOOLEAN
    BY <2>1 DEF DeviceTypes, Scalars
  <2>4. Scalars'
    BY <2>1, <2>2, <2>3 DEF DeviceTypes, Scalars, Positions
  <2>5. Buffers'
    BY <2>1 DEF DeviceTypes, Buffers
  <2>6. Dispatched'
    BY <2>1 DEF DeviceTypes, Dispatched
  <2> QED BY <2>4, <2>5, <2>6 DEF DeviceTypes
<1> QED BY <1>1, <1>2, <1>3, <1>4

(* Types: main, retrying.                                                  *)
LEMMA Turn_Types_Retry ==
    ASSUME DeviceTypes, RetryIdle \/ RetryReport \/ RetryReply
    PROVE  DeviceTypes'
<1>0. 0 \in 0 .. WaitRertyTims /\ 0 \in Indices /\ 0 \in Lengths
  BY Limits, SMT
<1>00. Cleared \in Messages
  BY DEF Cleared, Messages
<1>000. MayRetry => ucReTry + 1 \in 0 .. WaitRertyTims
  BY Limits, SMT DEF DeviceTypes, Scalars, MayRetry
<1>1. CASE RetryIdle
  <2>1. Scalars'
    BY <1>1 DEF DeviceTypes, Scalars, RetryIdle, Positions, apdu, rx, both, tx, command
  <2>2. Buffers'
    BY <1>1 DEF DeviceTypes, Buffers, RetryIdle, radio, apdu, rx, both
  <2>3. Dispatched'
    BY <1>1 DEF DeviceTypes, Dispatched, RetryIdle, command
  <2> QED BY <2>1, <2>2, <2>3 DEF DeviceTypes
<1>2. CASE RetryReport
  <2>1. Report(ucaPackMsg) \in Notes
    BY DEF Report, Notes, DeviceTypes, Buffers, Messages
  <2>2. CASE MayRetry
    <3>1. toPhone' \in Seq(Notes) /\ losses' \in Nat
      BY <1>2, <2>1, <2>2, Notified_Types DEF DeviceTypes, RetryReport
    <3>2. ucReTry' = ucReTry + 1 /\ T_Connect' = TRUE
      BY <1>2, <2>2 DEF RetryReport, retry_again
    <3>3. Scalars'
      <4>1. /\ pc' = "retry_reply"
            /\ UNCHANGED <<Ble_ConnnectFlag, g_apdu_length, blueRecivSendflag, Recivedataflag,
                           Apdufinsh, ucResend, lr, SumPackNumber, Sendlenth, remberPackn,
                           CMD09_SW, uart_waitack_flag>>
        BY <1>2, <2>2 DEF RetryReport, command
      <4>2. ucReTry' \in 0 .. WaitRertyTims
        BY <3>2, <2>2, <1>000
      <4> QED BY <3>2, <4>1, <4>2 DEF DeviceTypes, Scalars, Positions
    <3>4. Buffers'
      BY <1>2, <2>2, <3>1 DEF DeviceTypes, Buffers, RetryReport
    <3>5. Dispatched'
      BY <1>2 DEF DeviceTypes, Dispatched, RetryReport, command
    <3> QED BY <3>3, <3>4, <3>5 DEF DeviceTypes
  <2>3. CASE ~MayRetry
    <3>1. Scalars'
      BY <1>2, <2>3, <1>0 DEF DeviceTypes, Scalars, RetryReport, Positions, ble_transfer_init,
         command
    <3>2. Buffers'
      BY <1>2, <2>3, <1>00 DEF DeviceTypes, Buffers, RetryReport, ble_transfer_init, radio
    <3>3. Dispatched'
      BY <1>2 DEF DeviceTypes, Dispatched, RetryReport, command
    <3> QED BY <3>1, <3>2, <3>3 DEF DeviceTypes
  <2> QED BY <2>2, <2>3
<1>3. CASE RetryReply
  <2>1. Dispatched'
    BY <1>3 DEF DeviceTypes, Dispatched, RetryReply, command
  <2>2. CASE SumPackNumber # 0 /\ MayRetry
    <3>1. Scalars'
      <4>1. /\ pc' = "process" /\ T_Connect' = TRUE /\ ucReTry' = ucReTry + 1
            /\ UNCHANGED <<Ble_ConnnectFlag, g_apdu_length, blueRecivSendflag, Recivedataflag,
                           Apdufinsh, ucResend, lr, SumPackNumber, Sendlenth, remberPackn,
                           CMD09_SW, uart_waitack_flag>>
        BY <1>3, <2>2 DEF RetryReply, command, retry_again, apdu
      <4>2. ucReTry' \in 0 .. WaitRertyTims
        BY <4>1, <2>2, <1>000
      <4> QED BY <4>1, <4>2 DEF DeviceTypes, Scalars, Positions
    <3>2. Buffers'
      BY <1>3, <2>2 DEF DeviceTypes, Buffers, RetryReply, radio, apdu
    <3> QED BY <2>1, <3>1, <3>2 DEF DeviceTypes
  <2>3. CASE SumPackNumber # 0 /\ ~MayRetry
    <3>1. Scalars'
      <4>1. /\ pc' = "process" /\ T_Connect' = FALSE /\ ucReTry' = 0 /\ ucResend' = 0
            /\ lr' = 0 /\ SumPackNumber' = 0 /\ Sendlenth' = 0
            /\ UNCHANGED <<Ble_ConnnectFlag, g_apdu_length, blueRecivSendflag, Recivedataflag,
                           Apdufinsh, remberPackn, CMD09_SW, uart_waitack_flag>>
        BY <1>3, <2>3 DEF RetryReply, ble_transfer_init, reply_done, command, apdu
      <4> QED BY <4>1, <1>0 DEF DeviceTypes, Scalars, Positions
    <3>2. Buffers'
      BY <1>3, <2>3, <1>00 DEF DeviceTypes, Buffers, RetryReply, ble_transfer_init, radio, apdu
    <3> QED BY <2>1, <3>1, <3>2 DEF DeviceTypes
  <2>4. CASE SumPackNumber = 0
    <3>1. Scalars'
      BY <1>3, <2>4 DEF DeviceTypes, Scalars, RetryReply, Positions, both, command, apdu
    <3>2. Buffers'
      BY <1>3, <2>4 DEF DeviceTypes, Buffers, RetryReply, both, radio, apdu
    <3> QED BY <2>1, <3>1, <3>2 DEF DeviceTypes
  <2> QED BY <2>2, <2>3, <2>4
<1> QED BY <1>1, <1>2, <1>3

(* Types: main, the dispatcher and the UART.                               *)
LEMMA Turn_Types_Process ==
    ASSUME DeviceTypes, FirstPacket, NoReplyAnnounced,
           ProcessNothing \/ ProcessStatus \/ ProcessRepeated \/ ProcessNew \/ UartTurn
    PROVE  DeviceTypes'
<1>1. CASE ProcessNothing
  <2>1. Scalars'
    BY <1>1 DEF DeviceTypes, Scalars, ProcessNothing, Positions, apdu, rx, both, tx, command
  <2>2. Buffers'
    BY <1>1 DEF DeviceTypes, Buffers, ProcessNothing, radio, apdu, rx, both
  <2>3. Dispatched'
    BY <1>1 DEF DeviceTypes, Dispatched, ProcessNothing, command
  <2> QED BY <2>1, <2>2, <2>3 DEF DeviceTypes
<1>2. CASE ProcessStatus
  <2>1. g_apdu[0].lab \in Commands /\ 1 \in 1 .. Len(ReplyLen[g_apdu[0].lab])
    BY <1>2, Announced_Is, HasReply DEF ProcessStatus
  <2>2. Send_bluetoothdata(g_apdu[0].lab, 1)
    BY <1>2 DEF ProcessStatus
  <2>3. /\ g_apdu' \in [Part -> Tokens] /\ g_apdu_length' \in Lengths
        /\ blueRecivSendflag' = "Senddata"
    BY <2>1, <2>2, Reply_Types DEF DeviceTypes
  <2>4. Scalars'
    BY <1>2, <2>3 DEF DeviceTypes, Scalars, ProcessStatus, Positions, rx, both, tx, command
  <2>5. Buffers'
    BY <1>2, <2>3 DEF DeviceTypes, Buffers, ProcessStatus, radio, rx, both
  <2>6. Dispatched'
    BY <1>2 DEF DeviceTypes, Dispatched, ProcessStatus, command
  <2> QED BY <2>4, <2>5, <2>6 DEF DeviceTypes
<1>3. CASE ProcessRepeated
  <2>1. Scalars'
    BY <1>3 DEF DeviceTypes, Scalars, ProcessRepeated, Positions, rx, both, tx, command
  <2>2. Buffers'
    BY <1>3 DEF DeviceTypes, Buffers, ProcessRepeated, radio, rx, both
  <2>3. Dispatched'
    BY <1>3 DEF DeviceTypes, Dispatched, ProcessRepeated, command
  <2> QED BY <2>1, <2>2, <2>3 DEF DeviceTypes
<1>4. CASE ProcessNew
  <2> DEFINE c == g_apdu[0].lab
  <2>1. c \in Commands /\ 1 \in 1 .. Len(ReplyLen[c])
    BY <1>4, Announced_Is, HasReply DEF ProcessNew
  <2>2. /\ pc' = "uart" /\ CMD09_oldlabel' = c
        /\ CMD09_SW' \in {"9000", "6700"}
        /\ UNCHANGED <<Ble_ConnnectFlag, Recivedataflag, Apdufinsh, ucaRevPackN, ucaPackMsg,
                       T_Connect, ucReTry, ucResend, lr, SumPackNumber, Sendlenth, remberPackn,
                       uart_waitack_flag, toPhone, losses>>
    BY <1>4 DEF ProcessNew, StatusWord, rx, both, tx, radio
  <2>3. \/ Send_bluetoothdata(c, 1) /\ UNCHANGED stm32
        \/ /\ UNCHANGED <<g_apdu, g_apdu_length>> /\ blueRecivSendflag' = "NOdata"
           /\ stm32' \in {stm32, [cmd |-> c, next |-> 1]}
    BY <1>4 DEF ProcessNew
  <2>4. work' \in {work, [work EXCEPT ![c] = @ + 1]}
    BY <1>4 DEF ProcessNew
  <2>5. /\ g_apdu' \in [Part -> Tokens] /\ g_apdu_length' \in Lengths
        /\ blueRecivSendflag' \in {"NOdata", "Senddata"}
    <3>1. CASE Send_bluetoothdata(c, 1)
      BY <3>1, <2>1, Reply_Types DEF DeviceTypes
    <3>2. CASE UNCHANGED <<g_apdu, g_apdu_length>> /\ blueRecivSendflag' = "NOdata"
      BY <3>2 DEF DeviceTypes, Scalars, Buffers
    <3> QED BY <2>3, <3>1, <3>2
  <2> HIDE DEF c
  <2>6. work' \in [Commands -> Nat]
    BY <2>4, <2>1 DEF DeviceTypes, Dispatched
  <2>7. (stm32 = [cmd |-> 0, next |-> 1]
           \/ \E d \in Commands : \E n \in 1 .. Len(ReplyLen[d]) : stm32 = [cmd |-> d, next |-> n])'
    <3>1. CASE UNCHANGED stm32
      BY <3>1 DEF DeviceTypes, Dispatched
    <3>2. CASE stm32' = [cmd |-> c, next |-> 1]
      BY <3>2, <2>1
    <3> QED BY <2>3, <3>1, <3>2
  <2>8. Scalars'
    BY <2>2, <2>5 DEF DeviceTypes, Scalars, Positions
  <2>9. Buffers'
    BY <2>2, <2>5 DEF DeviceTypes, Buffers
  <2>10. Dispatched'
    BY <2>1, <2>2, <2>6, <2>7 DEF DeviceTypes, Dispatched
  <2> QED BY <2>8, <2>9, <2>10 DEF DeviceTypes
<1>5. CASE UartTurn
  <2>1. Scalars'
    <3>1. /\ pc' = "top" /\ uart_waitack_flag' \in {0, uart_waitack_flag}
          /\ UNCHANGED <<Ble_ConnnectFlag, g_apdu_length, blueRecivSendflag, Recivedataflag,
                         Apdufinsh, T_Connect, ucReTry, ucResend, lr, SumPackNumber, Sendlenth,
                         remberPackn, CMD09_SW>>
      BY <1>5 DEF UartTurn, apdu, rx, both, tx
    <3> QED BY <3>1 DEF DeviceTypes, Scalars, Positions
  <2>2. Buffers'
    BY <1>5 DEF DeviceTypes, Buffers, UartTurn, radio, apdu, rx, both
  <2>3. Dispatched'
    BY <1>5 DEF DeviceTypes, Dispatched, UartTurn
  <2> QED BY <2>1, <2>2, <2>3 DEF DeviceTypes
<1> QED BY <1>1, <1>2, <1>3, <1>4, <1>5

(* What the STM32 is at.                                                   *)
LEMMA Stm32_Is ==
    ASSUME DeviceTypes, stm32.cmd # 0
    PROVE  /\ stm32.cmd \in Commands /\ stm32.next \in 1 .. Len(ReplyLen[stm32.cmd])
           /\ stm32 = [cmd |-> stm32.cmd, next |-> stm32.next]
<1>1. stm32 # [cmd |-> 0, next |-> 1]
  BY SMT
<1>2. PICK c \in Commands : \E n \in 1 .. Len(ReplyLen[c]) : stm32 = [cmd |-> c, next |-> n]
  BY <1>1 DEF DeviceTypes, Dispatched
<1> QED BY <1>2

(* Types: an answer of the STM32.                                          *)
LEMMA UartReply_Types ==
    ASSUME DeviceTypes, UartReply
    PROVE  DeviceTypes'
<1> DEFINE c == stm32.cmd
           n == stm32.next
<1>1. c \in Commands /\ n \in 1 .. Len(ReplyLen[c]) /\ stm32 = [cmd |-> c, next |-> n]
  BY Stm32_Is DEF UartReply
<1>2. /\ pc' = "top" /\ Send_bluetoothdata(c, n) /\ uart_waitack_flag' = 1
      /\ stm32' = IF n < Len(ReplyLen[c]) THEN [stm32 EXCEPT !.next = n + 1]
                  ELSE [cmd |-> 0, next |-> 1]
      /\ UNCHANGED <<Ble_ConnnectFlag, Recivedataflag, Apdufinsh, ucaRevPackN, ucaPackMsg,
                     T_Connect, ucReTry, ucResend, lr, SumPackNumber, Sendlenth, remberPackn,
                     CMD09_oldlabel, CMD09_SW, work, toPhone, losses>>
  BY DEF UartReply, WaitAck, rx, both, tx, radio
<1>3. /\ g_apdu' \in [Part -> Tokens] /\ g_apdu_length' \in Lengths
      /\ blueRecivSendflag' = "Senddata"
  BY <1>1, <1>2, Reply_Types DEF DeviceTypes
<1> HIDE DEF c, n
<1>4. Scalars'
  BY <1>2, <1>3 DEF DeviceTypes, Scalars, Positions
<1>5. Buffers'
  BY <1>2, <1>3 DEF DeviceTypes, Buffers
<1>6. (stm32 = [cmd |-> 0, next |-> 1]
         \/ \E d \in Commands : \E m \in 1 .. Len(ReplyLen[d]) : stm32 = [cmd |-> d, next |-> m])'
  <2>1. CASE n < Len(ReplyLen[c])
    <3>1. n + 1 \in 1 .. Len(ReplyLen[c])
      BY <1>1, <2>1, HasReply, SMT
    <3>2. stm32' = [cmd |-> c, next |-> n + 1]
      BY <1>1, <1>2, <2>1
    <3> QED BY <1>1, <3>1, <3>2
  <2>2. CASE ~(n < Len(ReplyLen[c]))
    BY <1>2, <2>2
  <2> QED BY <2>1, <2>2
<1>7. Dispatched'
  BY <1>2, <1>6 DEF DeviceTypes, Dispatched
<1> QED BY <1>4, <1>5, <1>7 DEF DeviceTypes

(* Types: the connection and the timer.                                    *)
LEMMA Connection_Types ==
    ASSUME DeviceTypes, OnConnected \/ OnDisconnected \/ TimeOut
    PROVE  DeviceTypes'
<1>1. CASE OnConnected
  <2>1. Scalars'
    BY <1>1 DEF DeviceTypes, Scalars, OnConnected, apdu, rx, both, tx, command
  <2>2. Buffers'
    BY <1>1 DEF DeviceTypes, Buffers, OnConnected, radio, apdu, rx, both
  <2>3. Dispatched'
    BY <1>1 DEF DeviceTypes, Dispatched, OnConnected, command
  <2> QED BY <2>1, <2>2, <2>3 DEF DeviceTypes
<1>2. CASE OnDisconnected
  <2>1. Scalars'
    BY <1>2 DEF DeviceTypes, Scalars, OnDisconnected, apdu, rx, both, tx, command
  <2>2. Buffers'
    <3>1. <<>> \in Seq(Notes)
      OBVIOUS
    <3> QED BY <1>2, <3>1 DEF DeviceTypes, Buffers, OnDisconnected, apdu, rx, both
  <2>3. Dispatched'
    BY <1>2 DEF DeviceTypes, Dispatched, OnDisconnected, command
  <2> QED BY <2>1, <2>2, <2>3 DEF DeviceTypes
<1>3. CASE TimeOut
  <2>1. Scalars'
    BY <1>3 DEF DeviceTypes, Scalars, TimeOut, apdu, rx, tx, command
  <2>2. Buffers'
    BY <1>3 DEF DeviceTypes, Buffers, TimeOut, radio, apdu, rx
  <2>3. Dispatched'
    BY <1>3 DEF DeviceTypes, Dispatched, TimeOut, command
  <2> QED BY <2>1, <2>2, <2>3 DEF DeviceTypes
<1> QED BY <1>1, <1>2, <1>3

(* Types: any step of main.                                                *)
LEMMA Turn_Types ==
    ASSUME DeviceTypes, FirstPacket, NoReplyAnnounced, Turn
    PROVE  DeviceTypes'
BY Turn_Types_Receive, Turn_Types_Send, Turn_Types_Retry, Turn_Types_Process DEF Turn

-----------------------------------------------------------------------------
(* Types: the phone and the link.                                          *)

(* A step that leaves the device alone.                                    *)
LEMMA DeviceIdle_Types ==
    ASSUME DeviceTypes, UNCHANGED deviceVars
    PROVE  DeviceTypes'
<1>1. Scalars'
  BY DEF DeviceTypes, Scalars, deviceVars
<1>2. Buffers'
  BY DEF DeviceTypes, Buffers, deviceVars
<1>3. Dispatched'
  BY DEF DeviceTypes, Dispatched, deviceVars
<1> QED BY <1>1, <1>2, <1>3 DEF DeviceTypes

(* A step that only takes or loses packets.                                *)
LEMMA RadioStep_Types ==
    ASSUME DeviceTypes, toPhone' \in Seq(Notes), losses' \in Nat,
           UNCHANGED <<Ble_ConnnectFlag, apdu, rx, both, tx, command, pc>>
    PROVE  DeviceTypes'
<1>1. Scalars'
  BY DEF DeviceTypes, Scalars, apdu, rx, both, tx, command
<1>2. Buffers'
  BY DEF DeviceTypes, Buffers, apdu, rx, both
<1>3. Dispatched'
  BY DEF DeviceTypes, Dispatched, command
<1> QED BY <1>1, <1>2, <1>3 DEF DeviceTypes

(* A packet that goes out is a command's, or an acknowledgement or report. *)
LEMMA Outbox_Is ==
    ASSUME NEW t \in Tasks
    PROVE  /\ t.type \in {"ack", "missing", "command"}
           /\ t.type # "command" => t \in Requests
           /\ t.type = "command" =>
                 t.cmd \in Commands /\ t.parts \in SUBSET AllParts(t.cmd) /\ t.parts # {}
                 /\ t = [type |-> "command", cmd |-> t.cmd, parts |-> t.parts]
<1>1. CASE t \in Requests
  BY <1>1 DEF Requests, AckPacket
<1>2. CASE t \in Jobs
  <2>1. PICK c \in Commands : t \in {[type |-> "command", cmd |-> c, parts |-> ks]
                                        : ks \in (SUBSET AllParts(c)) \ {{}}}
    BY <1>2 DEF Jobs
  <2>2. PICK ks \in (SUBSET AllParts(c)) \ {{}} :
            t = [type |-> "command", cmd |-> c, parts |-> ks]
    BY <2>1
  <2> QED BY <2>2
<1> QED BY <1>1, <1>2 DEF Tasks

(* The phone's next packet: what is left in the outbox, and what it is.    *)
LEMMA PhoneSend_Is ==
    ASSUME outbox \in Seq(Tasks), PhoneSend
    PROVE  /\ outbox # <<>> /\ Head(outbox) \in Tasks /\ Tail(outbox) \in Seq(Tasks)
           /\ \/ /\ Head(outbox).type # "command" /\ Head(outbox) \in Requests
                 /\ GoesOut(Head(outbox)) /\ outbox' = Tail(outbox)
              \/ \E k \in Head(outbox).parts :
                    /\ Head(outbox).type = "command" /\ Head(outbox).cmd \in Commands
                    /\ Head(outbox).parts \in SUBSET AllParts(Head(outbox).cmd)
                    /\ \A j \in Head(outbox).parts : k <= j
                    /\ GoesOut(CommandPacket(Head(outbox).cmd, k))
                    /\ outbox' = CommandPackets(Head(outbox).cmd, Head(outbox).parts \ {k})
                                    \o Tail(outbox)
<1>1. outbox # <<>>
  BY DEF PhoneSend
<1>2. Head(outbox) \in Tasks /\ Tail(outbox) \in Seq(Tasks)
  BY <1>1
<1> DEFINE h == Head(outbox)
<1>3. /\ h.type # "command" => h \in Requests
      /\ h.type = "command" => h.cmd \in Commands /\ h.parts \in SUBSET AllParts(h.cmd)
  BY <1>2, Outbox_Is
<1>4. \/ h.type # "command" /\ GoesOut(h) /\ outbox' = Tail(outbox)
      \/ /\ h.type = "command"
         /\ \E k \in h.parts :
               /\ \A j \in h.parts : k <= j
               /\ GoesOut(CommandPacket(h.cmd, k))
               /\ outbox' = CommandPackets(h.cmd, h.parts \ {k}) \o Tail(outbox)
  BY DEF PhoneSend
<1> HIDE DEF h
<1>5. QED BY <1>1, <1>2, <1>3, <1>4 DEF h

(* A packet put on the link.                                               *)
LEMMA GoesOut_Types ==
    ASSUME toDevice \in Seq(Packets), losses \in Nat, NEW p \in Packets, GoesOut(p)
    PROVE  toDevice' \in Seq(Packets) /\ losses' \in Nat
BY DEF GoesOut

(* The replies the phone may hold.                                         *)
LEMMA Replies_Made ==
    ASSUME NEW S \in SUBSET Indices, NEW f, f \in [S -> Tokens]
    PROVE  f \in Replies
BY DEF Replies

(* A packet of a reply that the phone takes.                               *)
PhoneNow == [k \in {Head(toPhone).idx} \union DOMAIN got |->
                IF k = Head(toPhone).idx THEN Head(toPhone).token ELSE got[k]]

(* What the phone has then.                                                *)
LEMMA PhoneNow_Types ==
    ASSUME Phone, toPhone \in Seq(Notes), toPhone # <<>>, Head(toPhone).type = "data",
           Head(toPhone).idx \in 0 .. Head(toPhone).total - 1
    PROVE  /\ Head(toPhone).total \in Indices /\ Head(toPhone).token \in Tokens
           /\ DOMAIN PhoneNow = DOMAIN got \union {Head(toPhone).idx}
           /\ DOMAIN PhoneNow \in SUBSET Indices
           /\ PhoneNow \in [DOMAIN PhoneNow -> Tokens]
<1> DEFINE p == Head(toPhone)
<1>1. p \in Notes
  OBVIOUS
<1>2. p.total \in Indices /\ p.token \in Tokens /\ p.idx \in Nat
  BY <1>1 DEF Notes
<1>3. p.idx \in Indices
  BY <1>2, SMT DEF Indices
<1> HIDE DEF p
<1>4. DOMAIN PhoneNow = DOMAIN got \union {p.idx}
  BY DEF PhoneNow, p
<1>5. DOMAIN PhoneNow \in SUBSET Indices
  BY <1>3, <1>4 DEF Phone
<1>6. ASSUME NEW k \in DOMAIN PhoneNow
      PROVE  PhoneNow[k] \in Tokens
  <2>1. k \in DOMAIN got \/ k = p.idx
    BY <1>4
  <2> QED BY <1>2, <2>1 DEF PhoneNow, Phone, p
<1>7. PhoneNow \in [DOMAIN PhoneNow -> Tokens]
  BY <1>6 DEF PhoneNow
<1> QED BY <1>2, <1>4, <1>5, <1>7 DEF p

(* Types: the phone's own steps.                                           *)
LEMMA PhoneSteps_Types ==
    ASSUME DeviceTypes, Phone,
           StartCommand \/ PhoneAsksAgain \/ PhoneRepeats \/ PhoneGivesUp
    PROVE  (DeviceTypes /\ Phone)'
<1>0. UNCHANGED deviceVars => DeviceTypes'
  BY DeviceIdle_Types
<1>1. CASE StartCommand
  <2>1. PICK c \in session.commands : /\ current' = c
                                      /\ outbox' = CommandPackets(c, AllParts(c))
    BY <1>1 DEF StartCommand
  <2>2. c \in Commands
    BY BleAssumption DEF LinkAssumption, Phone
  <2>3. outbox' \in Seq(Tasks)
    BY <2>1, <2>2, Jobs_Types
  <2>4. /\ want' = 1 /\ got' = <<>> /\ total' = 0 /\ retries' = 0
        /\ UNCHANGED <<toDevice, answers, drops, unseen, session>> /\ UNCHANGED deviceVars
    BY <1>1 DEF StartCommand
  <2>5. DOMAIN got' = {} /\ total' \in Indices
    BY <2>4, Limits
  <2>6. Phone'
    BY <2>1, <2>2, <2>3, <2>4, <2>5, CommandFits DEF Phone
  <2> QED BY <1>0, <2>4, <2>6
<1>2. CASE PhoneAsksAgain
  <2>1. MissingPacket(total, (0 .. total - 1) \ DOMAIN got) \in Requests
    BY <1>2, Missing_Types DEF PhoneAsksAgain, Phone
  <2>2. outbox' \in Seq(Tasks)
    BY <1>2, <2>1 DEF PhoneAsksAgain, Phone, Tasks
  <2>3. /\ UNCHANGED <<toDevice, current, want, got, total, answers, drops, unseen, session>>
        /\ UNCHANGED deviceVars /\ retries' = retries + 1
    BY <1>2 DEF PhoneAsksAgain
  <2>4. Phone'
    BY <2>2, <2>3 DEF Phone
  <2> QED BY <1>0, <2>3, <2>4
<1>3. CASE PhoneRepeats
  <2>1. current \in Commands
    BY <1>3 DEF PhoneRepeats, Phone
  <2>2. outbox' \in Seq(Tasks)
    BY <1>3, <2>1, Jobs_Types DEF PhoneRepeats
  <2>3. /\ UNCHANGED <<toDevice, current, want, got, total, answers, drops, unseen, session>>
        /\ UNCHANGED deviceVars /\ retries' = retries + 1
    BY <1>3 DEF PhoneRepeats
  <2>4. Phone'
    BY <2>2, <2>3 DEF Phone
  <2> QED BY <1>0, <2>3, <2>4
<1>4. CASE PhoneGivesUp
  <2>1. /\ want' = 0 /\ got' = <<>> /\ total' = 0 /\ outbox' = <<>>
        /\ UNCHANGED <<toDevice, current, answers, retries, drops, unseen, session>>
        /\ UNCHANGED deviceVars
    BY <1>4 DEF PhoneGivesUp
  <2>2. DOMAIN got' = {} /\ total' \in Indices /\ outbox' \in Seq(Tasks)
    BY <2>1, Limits
  <2>3. Phone'
    BY <2>1, <2>2 DEF Phone
  <2> QED BY <1>0, <2>1, <2>3
<1> QED BY <1>1, <1>2, <1>3, <1>4

(* Types: packets and notifications.                                       *)
LEMMA LinkSteps_Types ==
    ASSUME DeviceTypes, Phone,
           PhoneSend \/ DeviceReceives \/ PhoneGetsReport \/ PhoneGetsData
    PROVE  (DeviceTypes /\ Phone)'
<1>0. toPhone \in Seq(Notes) /\ losses \in Nat
  BY DEF DeviceTypes, Buffers
<1>1. CASE PhoneSend
  <2>1. outbox \in Seq(Tasks)
    BY DEF Phone
  <2>2. PICK p \in Packets : GoesOut(p) /\ outbox' \in Seq(Tasks)
    <3>1. CASE /\ Head(outbox) \in Requests /\ GoesOut(Head(outbox))
               /\ outbox' = Tail(outbox)
      <4>1. Tail(outbox) \in Seq(Tasks)
        BY <1>1, <2>1, PhoneSend_Is
      <4> QED BY <3>1, <4>1 DEF Packets
    <3> DEFINE h == Head(outbox)
    <3>2. ASSUME NEW k \in h.parts, h.cmd \in Commands, h.parts \in SUBSET AllParts(h.cmd),
                 GoesOut(CommandPacket(h.cmd, k)),
                 outbox' = CommandPackets(h.cmd, h.parts \ {k}) \o Tail(outbox)
          PROVE  \E p \in Packets : GoesOut(p) /\ outbox' \in Seq(Tasks)
      <4>1. CommandPackets(h.cmd, h.parts \ {k}) \in Seq(Tasks)
        <5>1. h.parts \ {k} \in SUBSET AllParts(h.cmd)
          BY <3>2
        <5> QED BY <3>2, <5>1, Jobs_Types
      <4>2. Tail(outbox) \in Seq(Tasks)
        BY <1>1, <2>1, PhoneSend_Is
      <4>3. outbox' \in Seq(Tasks)
        BY <3>2, <4>1, <4>2, ConcatProperties
      <4>4. k \in AllParts(h.cmd)
        BY <3>2
      <4>5. CommandPacket(h.cmd, k) \in Packets
        BY <3>2, <4>4, Packet_Facts DEF Packets
      <4> QED BY <3>2, <4>3, <4>5
    <3> QED BY <1>1, <2>1, <3>1, <3>2, PhoneSend_Is
  <2>3. toDevice' \in Seq(Packets) /\ losses' \in Nat
    BY <1>0, <2>2, GoesOut_Types DEF Phone
  <2>4. /\ UNCHANGED <<Ble_ConnnectFlag, apdu, rx, both, tx, command, pc>>
        /\ UNCHANGED <<toPhone, current, want, got, total, answers, retries, drops, unseen,
                       session>>
    BY <1>1 DEF PhoneSend
  <2>5. Phone'
    BY <2>2, <2>3, <2>4 DEF Phone
  <2>6. DeviceTypes'
    BY <1>0, <2>3, <2>4, RadioStep_Types
  <2> QED BY <2>5, <2>6
<1>2. CASE DeviceReceives
  <2>1. Head(toDevice) \in Packets /\ Tail(toDevice) \in Seq(Packets)
    BY <1>2 DEF DeviceReceives, Phone
  <2>2. DeviceTypes'
    BY <1>2, <2>1, PhoneToBle_Types DEF DeviceReceives
  <2>3. Phone'
    BY <1>2, <2>1 DEF DeviceReceives, Phone
  <2> QED BY <2>2, <2>3
<1>3. CASE PhoneGetsReport
  <2>1. toPhone' \in Seq(Notes) /\ losses' \in Nat
    BY <1>3, <1>0 DEF PhoneGetsReport
  <2>2. DeviceTypes'
    BY <1>3, <2>1, RadioStep_Types DEF PhoneGetsReport
  <2>3. outbox' \in Seq(Tasks)
    <3>1. CASE want = 0
      BY <1>3, <3>1 DEF PhoneGetsReport, Phone
    <3>2. CASE want # 0
      <4>1. current \in Commands
        BY <3>2 DEF Phone
      <4>2. CommandPackets(current, Head(toPhone).miss \intersect AllParts(current)) \in Seq(Tasks)
        BY <4>1, Jobs_Types
      <4>3. outbox' = outbox \o CommandPackets(current, Head(toPhone).miss \intersect AllParts(current))
        BY <1>3, <3>2 DEF PhoneGetsReport
      <4> QED BY <4>2, <4>3, ConcatProperties DEF Phone
    <3> QED BY <3>1, <3>2
  <2>4. Phone'
    BY <1>3, <2>3 DEF PhoneGetsReport, Phone
  <2> QED BY <2>2, <2>4
<1>4. CASE PhoneGetsData
  <2> DEFINE p == Head(toPhone)
             all == 0 .. p.total - 1
             left == all \ DOMAIN PhoneNow
  <2>1. /\ toPhone # <<>> /\ p.type = "data"
        /\ toPhone' = Tail(toPhone)
        /\ UNCHANGED <<Ble_ConnnectFlag, apdu, rx, both, tx, command, pc, losses, toDevice,
                       current, retries, drops, unseen, session>>
    BY <1>4 DEF PhoneGetsData
  <2>2. \/ UNCHANGED <<outbox, want, got, total, answers>>
        \/ /\ want # 0 /\ p.idx \in all /\ left = {}
           /\ outbox' = Append(outbox, AckPacket)
           /\ answers' = [answers EXCEPT ![current] = Append(@, PhoneNow)]
           /\ got' = <<>> /\ total' = 0
           /\ want' = IF want < Len(ReplyLen[current]) THEN want + 1 ELSE 0
        \/ /\ want # 0 /\ p.idx \in all /\ left # {}
           /\ got' = PhoneNow /\ total' = p.total
           /\ outbox' = IF p.idx = p.total - 1
                        THEN Append(outbox, MissingPacket(p.total, left)) ELSE outbox
           /\ UNCHANGED <<want, answers>>
    BY <1>4 DEF PhoneGetsData, PhoneNow
  <2>3. DeviceTypes'
    <3>1. toPhone' \in Seq(Notes) /\ losses' \in Nat
      BY <1>0, <2>1
    <3> QED BY <2>1, <3>1, RadioStep_Types
  <2>4. CASE UNCHANGED <<outbox, want, got, total, answers>>
    BY <2>1, <2>3, <2>4 DEF Phone
  <2>5. CASE /\ want # 0 /\ p.idx \in all /\ left = {}
             /\ outbox' = Append(outbox, AckPacket)
             /\ answers' = [answers EXCEPT ![current] = Append(@, PhoneNow)]
             /\ got' = <<>> /\ total' = 0
             /\ want' = IF want < Len(ReplyLen[current]) THEN want + 1 ELSE 0
    <3>1. current \in Commands
      BY <2>5 DEF Phone
    <3>2. PhoneNow \in Replies
      BY <1>0, <2>1, <2>5, PhoneNow_Types, Replies_Made
    <3>3. answers' \in [Commands -> Seq(Replies)]
      BY <2>5, <3>1, <3>2 DEF Phone
    <3>4. outbox' \in Seq(Tasks)
      BY <2>5 DEF Phone, Tasks, Requests
    <3>5. DOMAIN got' = {} /\ total' = 0 /\ 0 \in Indices
      BY <2>5, Limits
    <3>6. want' \in Nat
      <4>1. want \in Nat
        BY DEF Phone
      <4> QED BY <2>5, <4>1
    <3>7. /\ DOMAIN got' \subseteq Indices /\ (\A k \in DOMAIN got' : got'[k] \in Tokens)
          /\ total' \in Indices /\ total' = 0
      BY <3>5
    <3>8. UNCHANGED <<toDevice, current, retries, drops, unseen, session>> /\ current' # 0
      BY <2>1, <2>5 DEF Phone
    <3>9. Phone'
      BY <3>3, <3>4, <3>6, <3>7, <3>8 DEF Phone
    <3> QED BY <2>3, <3>9
  <2>6. CASE /\ want # 0 /\ p.idx \in all /\ left # {}
             /\ got' = PhoneNow /\ total' = p.total
             /\ outbox' = IF p.idx = p.total - 1
                          THEN Append(outbox, MissingPacket(p.total, left)) ELSE outbox
             /\ UNCHANGED <<want, answers>>
    <3>1. /\ p.total \in Indices /\ DOMAIN PhoneNow \in SUBSET Indices
          /\ PhoneNow \in [DOMAIN PhoneNow -> Tokens]
      BY <1>0, <2>1, <2>6, PhoneNow_Types
    <3>2. outbox' \in Seq(Tasks)
      <4>1. left \in SUBSET (0 .. p.total - 1)
        OBVIOUS
      <4>2. MissingPacket(p.total, left) \in Requests
        BY <2>6, <3>1, <4>1, Missing_Types
      <4> QED BY <2>6, <4>2 DEF Phone, Tasks
    <3>3. /\ DOMAIN got' \subseteq Indices /\ (\A k \in DOMAIN got' : got'[k] \in Tokens)
          /\ total' \in Indices /\ (0 .. total' - 1) \ DOMAIN got' # {}
      BY <2>6, <3>1
    <3>4. Phone'
      BY <2>1, <2>6, <3>2, <3>3 DEF Phone
    <3> QED BY <2>3, <3>4
  <2> HIDE DEF p, all, left
  <2> QED BY <2>2, <2>4, <2>5, <2>6
<1> QED BY <1>1, <1>2, <1>3, <1>4

(* Types: the connection, main, the STM32 and the timer.                   *)
LEMMA OtherSteps_Types ==
    ASSUME DeviceTypes, Phone, FirstPacket, NoReplyAnnounced,
           Connect \/ Disconnect \/ DeviceTurn \/ Stm32Replies \/ Stm32GivesUp \/ DeviceTimeOut
    PROVE  (DeviceTypes /\ Phone)'
<1>1. CASE Connect
  BY <1>1, Connection_Types DEF Connect, Phone, phoneVars
<1>2. CASE Disconnect
  <2>1. DeviceTypes'
    BY <1>2, Connection_Types DEF Disconnect
  <2>2. /\ drops' = drops + 1 /\ unseen' = TRUE /\ toDevice' = <<>> /\ outbox' = <<>>
        /\ want' = 0 /\ got' = <<>> /\ total' = 0
        /\ UNCHANGED <<current, answers, retries, session>>
    BY <1>2 DEF Disconnect
  <2>3. DOMAIN got' = {} /\ total' \in Indices /\ toDevice' \in Seq(Packets)
        /\ outbox' \in Seq(Tasks)
    BY <2>2, Limits
  <2>4. Phone'
    BY <2>2, <2>3 DEF Phone
  <2> QED BY <2>1, <2>4
<1>3. CASE DeviceTurn
  <2>1. DeviceTypes'
    BY <1>3, Turn_Types DEF DeviceTurn
  <2>2. Phone'
    BY <1>3 DEF DeviceTurn, Phone
  <2> QED BY <2>1, <2>2
<1>4. CASE Stm32Replies
  BY <1>4, UartReply_Types DEF Stm32Replies, Phone, phoneVars
<1>5. CASE Stm32GivesUp
  <2>1. /\ stm32' = [cmd |-> 0, next |-> 1]
        /\ UNCHANGED <<Ble_ConnnectFlag, apdu, rx, both, tx, CMD09_oldlabel, CMD09_SW,
                       uart_waitack_flag, work, pc, radio, phoneVars>>
    BY <1>5 DEF Stm32GivesUp
  <2>2. Scalars'
    BY <2>1 DEF DeviceTypes, Scalars, apdu, rx, both, tx
  <2>3. Buffers'
    BY <2>1 DEF DeviceTypes, Buffers, apdu, rx, both, radio
  <2>4. Dispatched'
    BY <2>1 DEF DeviceTypes, Dispatched
  <2>5. Phone'
    BY <2>1 DEF Phone, phoneVars
  <2> QED BY <2>2, <2>3, <2>4, <2>5 DEF DeviceTypes
<1>6. CASE DeviceTimeOut
  BY <1>6, Connection_Types DEF DeviceTimeOut, Phone, phoneVars
<1> QED BY <1>1, <1>2, <1>3, <1>4, <1>5, <1>6

(* The types of all variables.                                             *)
LEMMA TypesNext ==
    ASSUME Types, FirstPacket, NoReplyAnnounced, [Next]_vars
    PROVE  Types'
<1>0. DeviceTypes /\ Phone
  BY DEF Types, DeviceTypes
<1>1. CASE Next
  <2>1. (DeviceTypes /\ Phone)'
    BY <1>0, <1>1, PhoneSteps_Types, LinkSteps_Types, OtherSteps_Types DEF Next
  <2> QED BY <2>1 DEF Types, DeviceTypes
<1>2. CASE UNCHANGED vars
  <2>1. UNCHANGED deviceVars /\ UNCHANGED phoneVars
    BY <1>2 DEF vars
  <2>2. DeviceTypes'
    BY <1>0, <2>1, DeviceIdle_Types
  <2>3. Phone'
    BY <1>0, <2>1 DEF Phone, phoneVars
  <2> QED BY <2>2, <2>3 DEF Types, DeviceTypes
<1> QED BY <1>1, <1>2

-----------------------------------------------------------------------------
(* What is in g_apdu, in every session.                                    *)

(* A step of main that takes nothing out of g_apdu and puts nothing there. *)
Passing ==
    /\ UNCHANGED <<g_apdu, CMD09_oldlabel, work>>
    /\ blueRecivSendflag' \in {blueRecivSendflag, "NOdata"}
    /\ ucaRevPackN' \subseteq ucaRevPackN /\ Apdufinsh' \in {Apdufinsh, 0}
    /\ pc' # "reset"
    /\ pc = "reset" => ucaRevPackN' = {} /\ pc' = "finish"
    /\ pc = "finish" => Apdufinsh' = 0

(* A complete command is announced.                                        *)
Announcing ==
    /\ pc = "receive" /\ pc' = "reset" /\ Apdufinsh = 1
    /\ g_apdu' = [k \in Part |->
          IF k < Parts(g_apdu_length')
          THEN IF g_apdu[k].aligned THEN NoToken
               ELSE [g_apdu[k] EXCEPT !.aligned = TRUE]
          ELSE g_apdu[k]]
    /\ blueRecivSendflag' = "Recivedata"
    /\ UNCHANGED <<CMD09_oldlabel, work, ucaRevPackN, Apdufinsh>>

(* A reply is put there.                                                   *)
Replied ==
    /\ g_apdu'[0].kind = "rsp" /\ blueRecivSendflag' = "Senddata"
    /\ UNCHANGED <<ucaRevPackN, Apdufinsh>>
    /\ pc \in {"process", "uart"} /\ pc' \in {"uart", "top"}

(* A command is worked, or only its label kept.                            *)
Dispatch ==
    /\ Announced /\ ~Repeated
    /\ CMD09_oldlabel' = g_apdu[0].lab
    /\ work' = work \/ work' = [work EXCEPT ![g_apdu[0].lab] = @ + 1]

(* Every step of main is one of these.                                     *)
LEMMA TurnKinds ==
    ASSUME DeviceTypes, FirstPacket, NoReplyAnnounced, Turn \/ UartReply
    PROVE  \/ Passing
           \/ Announcing
           \/ Replied /\ UNCHANGED <<CMD09_oldlabel, work>>
           \/ Replied /\ Dispatch
           \/ /\ UNCHANGED <<g_apdu, ucaRevPackN, Apdufinsh>> /\ blueRecivSendflag' = "NOdata"
              /\ pc = "process" /\ pc' = "uart" /\ Dispatch
<1>1. CASE TurnDisconnected
  BY <1>1 DEF TurnDisconnected, ble_transfer_init, command, Passing
<1>2. CASE TurnConnected
  BY <1>2 DEF TurnConnected, rx, command, Passing
<1>3. CASE Receive
  <2>1. CASE Recivedataflag = 1 /\ Apdufinsh = 1
    BY <1>3, <2>1 DEF Receive, command, Announcing
  <2>2. CASE ~(Recivedataflag = 1 /\ Apdufinsh = 1)
    BY <1>3, <2>2 DEF Receive, command, apdu, Passing
  <2> QED BY <2>1, <2>2
<1>4. CASE ReceiveReset
  BY <1>4 DEF ReceiveReset, ble_transfer_init, apdu, command, Passing
<1>5. CASE ReceiveFinish
  BY <1>5 DEF ReceiveFinish, apdu, command, Passing
<1>6. CASE Send
  BY <1>6 DEF Send, apdu, rx, command, Passing
<1>7. CASE ReSend
  BY <1>7 DEF ReSend, apdu, rx, command, Passing
<1>8. CASE NoReSend
  BY <1>8 DEF NoReSend, apdu, rx, command, Passing
<1>9. CASE Remember
  BY <1>9 DEF Remember, apdu, rx, command, Passing
<1>10. CASE RetryIdle
  BY <1>10 DEF RetryIdle, apdu, rx, command, Passing
<1>11. CASE RetryReport
  BY <1>11 DEF RetryReport, ble_transfer_init, command, Passing
<1>12. CASE RetryReply
  BY <1>12 DEF RetryReply, ble_transfer_init, apdu, command, Passing
<1>13. CASE ProcessNothing
  BY <1>13 DEF ProcessNothing, apdu, rx, command, Passing
<1>14. CASE ProcessStatus
  <2>1. g_apdu[0].lab \in Commands /\ 1 \in 1 .. Len(ReplyLen[g_apdu[0].lab])
    BY <1>14, Announced_Is, HasReply DEF ProcessStatus
  <2>2. g_apdu'[0].kind = "rsp" /\ blueRecivSendflag' = "Senddata"
    BY <1>14, <2>1, Reply_Types DEF ProcessStatus, DeviceTypes
  <2> QED BY <1>14, <2>2 DEF ProcessStatus, rx, command, Replied
<1>15. CASE ProcessRepeated
  BY <1>15 DEF ProcessRepeated, rx, command, Passing
<1>16. CASE ProcessNew
  <2>1. g_apdu[0].lab \in Commands /\ 1 \in 1 .. Len(ReplyLen[g_apdu[0].lab])
    BY <1>16, Announced_Is, HasReply DEF ProcessNew
  <2>2. Dispatch
    BY <1>16 DEF ProcessNew, Dispatch
  <2>3. pc = "process" /\ pc' = "uart" /\ UNCHANGED <<ucaRevPackN, Apdufinsh>>
    BY <1>16 DEF ProcessNew, rx
  <2>4. \/ Send_bluetoothdata(g_apdu[0].lab, 1)
        \/ UNCHANGED g_apdu /\ blueRecivSendflag' = "NOdata"
    BY <1>16 DEF ProcessNew
  <2>5. CASE Send_bluetoothdata(g_apdu[0].lab, 1)
    <3>1. g_apdu'[0].kind = "rsp" /\ blueRecivSendflag' = "Senddata"
      BY <2>1, <2>5, Reply_Types DEF DeviceTypes
    <3> QED BY <2>2, <2>3, <3>1 DEF Replied
  <2> QED BY <2>2, <2>3, <2>4, <2>5
<1>17. CASE UartTurn
  BY <1>17 DEF UartTurn, apdu, rx, Passing
<1>18. CASE UartReply
  <2>1. stm32.cmd \in Commands /\ stm32.next \in 1 .. Len(ReplyLen[stm32.cmd])
    BY <1>18, Stm32_Is DEF UartReply
  <2>2. g_apdu'[0].kind = "rsp" /\ blueRecivSendflag' = "Senddata"
    BY <1>18, <2>1, Reply_Types DEF UartReply, DeviceTypes
  <2> QED BY <1>18, <2>2 DEF UartReply, rx, Replied
<1> QED BY <1>1, <1>2, <1>3, <1>4, <1>5, <1>6, <1>7, <1>8, <1>9, <1>10, <1>11, <1>12, <1>13,
           <1>14, <1>15, <1>16, <1>17, <1>18 DEF Turn

(* The first packet of what is announced.                                  *)
LEMMA AnnouncedHead ==
    ASSUME DeviceTypes, FirstPacket, Announcing, g_apdu_length' \in Lengths
    PROVE  /\ g_apdu'[0].kind \in {"cmd", "none"}
           /\ g_apdu'[0].kind = "none" => ~g_apdu'[0].aligned
           /\ g_apdu'[0].kind = "cmd" => g_apdu[0].kind = "cmd" /\ g_apdu'[0].id = g_apdu[0].id
<1>1. 0 \in Part /\ g_apdu[0] \in Tokens
  BY Limits DEF DeviceTypes, Buffers
<1>2. 0 < Parts(g_apdu_length')
  <2>1. CASE g_apdu_length' <= 16
    BY <2>1, Sizes, SMT DEF Parts, Lengths
  <2>2. CASE g_apdu_length' > 16
    <3>1. g_apdu_length' \in Nat /\ g_apdu_length' >= 1
      BY <2>2, SMT DEF Lengths
    <3>2. Parts(g_apdu_length') \in Nat /\ Parts(g_apdu_length') >= 1
      BY <3>1, PartsOf
    <3> QED BY <3>2, SMT
  <2> QED BY <2>1, <2>2, SMT DEF Lengths
<1>3. g_apdu'[0] = IF g_apdu[0].aligned THEN NoToken ELSE [g_apdu[0] EXCEPT !.aligned = TRUE]
  BY <1>1, <1>2 DEF Announcing
<1>4. g_apdu[0].kind # "none"
  BY DEF FirstPacket, Announcing
<1>5. CASE g_apdu[0].aligned
  BY <1>3, <1>5 DEF NoToken
<1>6. CASE ~g_apdu[0].aligned
  <2>1. /\ g_apdu'[0].kind = g_apdu[0].kind /\ g_apdu'[0].id = g_apdu[0].id
    BY <1>1, <1>3, <1>6, TokenMoved
  <2>2. g_apdu[0].kind = "cmd"
    BY <1>1, <1>4, <1>6, TokenFacts
  <2> QED BY <2>1, <2>2
<1> QED BY <1>5, <1>6

-----------------------------------------------------------------------------
(* The order of the commands, in every session.                            *)

Labels == FirstPacket /\ NoReplyAnnounced /\ Sent /\ InOrder /\ Behind /\ WorkedOnce

(* The labels are numbers.                                                 *)
LEMMA LabelNumbers ==
    ASSUME Types
    PROVE  /\ Commands \subseteq Nat \ {0}
           /\ CMD09_oldlabel \in Nat /\ current \in Nat
           /\ g_apdu[0] \in Tokens /\ g_apdu[0].id \in Nat
           /\ \A i \in DOMAIN toDevice :
                 toDevice[i] \in Packets
                 /\ (IsData(toDevice[i]) => toDevice[i].token.id \in Commands)
<1>1. Commands \subseteq Nat \ {0}
  BY BleAssumption DEF TransferAssumption
<1>2. CMD09_oldlabel \in Nat /\ current \in Nat
  BY <1>1 DEF Types, Dispatched, Phone
<1>3. g_apdu[0] \in Tokens
  BY Limits DEF Types, Buffers
<1>4. g_apdu[0].id \in Nat
  BY <1>1, <1>3, TokenFacts
<1>5. ASSUME NEW i \in DOMAIN toDevice
      PROVE  toDevice[i] \in Packets
             /\ (IsData(toDevice[i]) => toDevice[i].token.id \in Commands)
  <2>1. toDevice[i] \in Packets
    BY DEF Types, Phone
  <2>2. ASSUME IsData(toDevice[i])
        PROVE  toDevice[i].token.id \in Commands
    <3>1. PICK c \in Commands : \E k \in AllParts(c) : toDevice[i] = CommandPacket(c, k)
      BY <2>1, <2>2, DataIs DEF IsData
    <3>2. PICK k \in AllParts(c) : toDevice[i] = CommandPacket(c, k)
      BY <3>1
    <3>3. CommandPacket(c, k).token.id = c
      BY Packet_Facts
    <3> QED BY <3>2, <3>3
  <2> QED BY <2>1, <2>2
<1> QED BY <1>1, <1>2, <1>3, <1>4, <1>5

(* Labels: the dispatcher takes the label that is announced.               *)
LEMMA Dispatch_Labels ==
    ASSUME Types, Labels, Dispatch
    PROVE  /\ CMD09_oldlabel < CMD09_oldlabel' /\ CMD09_oldlabel' = g_apdu[0].id
           /\ CMD09_oldlabel' \in Commands /\ CMD09_oldlabel' <= current
           /\ WorkedOnce'
           /\ \A i \in DOMAIN toDevice :
                 IsData(toDevice[i]) => CMD09_oldlabel' <= toDevice[i].token.id
<1> DEFINE c == g_apdu[0].lab
<1>1. /\ g_apdu[0].kind = "cmd" /\ c \in Commands /\ g_apdu[0].id = c
  BY Announced_Is DEF Dispatch, Types, DeviceTypes, Labels
<1>2. CMD09_oldlabel' = c /\ CMD09_oldlabel # c
  BY DEF Dispatch, Repeated
<1>3. CMD09_oldlabel <= c /\ c <= current
  BY <1>1 DEF Labels, Behind, Sent
<1>4. CMD09_oldlabel \in Nat /\ c \in Nat /\ Commands \subseteq Nat
  BY <1>1, LabelNumbers
<1>5. CMD09_oldlabel < c
  BY <1>2, <1>3, <1>4, SMT
<1>6. WorkedOnce'
  <2> SUFFICES ASSUME NEW d \in Commands
               PROVE  work'[d] <= 1 /\ (d > CMD09_oldlabel' => work'[d] = 0)
    BY DEF WorkedOnce
  <2>1. work \in [Commands -> Nat] /\ work[d] <= 1
        /\ (d > CMD09_oldlabel => work[d] = 0) /\ work[c] = 0
    BY <1>1, <1>5, <1>4 DEF Types, Dispatched, Labels, WorkedOnce
  <2>2. work'[d] = work[d] \/ (d = c /\ work'[d] = 1)
    BY <2>1, <1>1 DEF Dispatch
  <2> QED BY <2>1, <2>2, <1>2, <1>4, <1>5, SMT
<1>7. \A i \in DOMAIN toDevice : IsData(toDevice[i]) => c <= toDevice[i].token.id
  BY <1>1 DEF Labels, Behind
<1> QED BY <1>1, <1>2, <1>3, <1>5, <1>6, <1>7

(* Labels: main and the STM32.                                             *)
LEMMA Turn_Labels ==
    ASSUME Types, Labels, Types', Turn \/ UartReply, UNCHANGED <<toDevice, outbox, current>>
    PROVE  Labels'
<1>1. \/ Passing
      \/ Announcing
      \/ Replied /\ UNCHANGED <<CMD09_oldlabel, work>>
      \/ Replied /\ Dispatch
      \/ /\ UNCHANGED <<g_apdu, ucaRevPackN, Apdufinsh>> /\ blueRecivSendflag' = "NOdata"
         /\ pc = "process" /\ pc' = "uart" /\ Dispatch
  BY TurnKinds DEF Types, DeviceTypes, Labels
<1>2. InOrder'
  BY DEF Labels, InOrder
<1>3. CASE Passing
  <2>1. FirstPacket'
    BY <1>3 DEF Passing, Labels, FirstPacket
  <2>2. NoReplyAnnounced'
    BY <1>3 DEF Passing, Labels, NoReplyAnnounced
  <2>3. Sent' /\ Behind' /\ WorkedOnce'
    BY <1>3 DEF Passing, Labels, Sent, Behind, WorkedOnce
  <2> QED BY <1>2, <2>1, <2>2, <2>3 DEF Labels
<1>4. CASE Announcing
  <2>1. /\ g_apdu'[0].kind \in {"cmd", "none"}
        /\ g_apdu'[0].kind = "none" => ~g_apdu'[0].aligned
        /\ g_apdu'[0].kind = "cmd" => g_apdu[0].kind = "cmd" /\ g_apdu'[0].id = g_apdu[0].id
    <3>1. g_apdu_length' \in Lengths
      BY DEF Types, Scalars
    <3> QED BY <1>4, <3>1, AnnouncedHead DEF Types, DeviceTypes, Labels
  <2>2. FirstPacket' /\ NoReplyAnnounced'
    BY <1>4, <2>1 DEF Announcing, FirstPacket, NoReplyAnnounced
  <2>3. Sent' /\ WorkedOnce'
    BY <1>4, <2>1 DEF Announcing, Labels, Sent, WorkedOnce
  <2>4. Behind'
    BY <1>4, <2>1 DEF Announcing, Labels, Behind
  <2> QED BY <1>2, <2>2, <2>3, <2>4 DEF Labels
<1>5. ASSUME Replied
      PROVE  FirstPacket' /\ NoReplyAnnounced'
  BY <1>5 DEF Replied, FirstPacket, NoReplyAnnounced
<1>6. CASE Replied /\ UNCHANGED <<CMD09_oldlabel, work>>
  <2>1. g_apdu'[0].kind # "cmd"
    BY <1>6 DEF Replied
  <2>2. Sent' /\ Behind' /\ WorkedOnce'
    BY <1>6, <2>1 DEF Labels, Sent, Behind, WorkedOnce
  <2> QED BY <1>2, <1>5, <1>6, <2>2 DEF Labels
<1>7. CASE Replied /\ Dispatch
  <2>1. g_apdu'[0].kind # "cmd"
    BY <1>7 DEF Replied
  <2>2. Sent' /\ Behind' /\ WorkedOnce'
    <3>1. CMD09_oldlabel' <= current /\ CMD09_oldlabel' = g_apdu[0].id /\ WorkedOnce'
          /\ \A i \in DOMAIN toDevice :
                IsData(toDevice[i]) => CMD09_oldlabel' <= toDevice[i].token.id
      BY <1>7, Dispatch_Labels
    <3>2. Sent'
      BY <2>1, <3>1 DEF Labels, Sent
    <3>3. Behind'
      BY <2>1, <3>1, LabelNumbers DEF Labels, Behind
    <3> QED BY <3>1, <3>2, <3>3
  <2> QED BY <1>2, <1>5, <1>7, <2>2 DEF Labels
<1>8. CASE /\ UNCHANGED <<g_apdu, ucaRevPackN, Apdufinsh>> /\ blueRecivSendflag' = "NOdata"
           /\ pc = "process" /\ pc' = "uart" /\ Dispatch
  <2>1. FirstPacket' /\ NoReplyAnnounced'
    BY <1>8 DEF Labels, FirstPacket, NoReplyAnnounced
  <2>2. Sent' /\ Behind' /\ WorkedOnce'
    <3>1. CMD09_oldlabel' <= current /\ CMD09_oldlabel' = g_apdu[0].id /\ WorkedOnce'
          /\ \A i \in DOMAIN toDevice :
                IsData(toDevice[i]) => CMD09_oldlabel' <= toDevice[i].token.id
      BY <1>8, Dispatch_Labels
    <3>2. Sent'
      BY <1>8, <3>1 DEF Labels, Sent
    <3>3. Behind'
      BY <1>8, <3>1, LabelNumbers DEF Labels, Behind
    <3> QED BY <3>1, <3>2, <3>3
  <2> QED BY <1>2, <2>1, <2>2 DEF Labels
<1> QED BY <1>1, <1>3, <1>4, <1>6, <1>7, <1>8

(* The commands in a sequence of packets to send.                          *)
JobsAre(s, c) == \A i \in DOMAIN s : s[i].type = "command" => s[i].cmd = c

(* What follows the head of a sequence.                                    *)
LEMMA TailAt ==
    ASSUME NEW S, NEW s \in Seq(S), s # <<>>
    PROVE  /\ 1 \in DOMAIN s /\ Head(s) = s[1] /\ Tail(s) \in Seq(S)
           /\ DOMAIN s \subseteq Nat
           /\ \A i \in DOMAIN Tail(s) : i \in Nat /\ i + 1 \in DOMAIN s /\ Tail(s)[i] = s[i + 1]
OBVIOUS

(* A sequence with one element more.                                       *)
LEMMA AppendAt ==
    ASSUME NEW S, NEW s \in Seq(S), NEW e \in S
    PROVE  /\ Append(s, e) \in Seq(S)
           /\ \A i \in DOMAIN Append(s, e) :
                 \/ i \in DOMAIN s /\ Append(s, e)[i] = s[i]
                 \/ i = Len(s) + 1 /\ Append(s, e)[i] = e
           /\ \A i \in DOMAIN s : i < Len(s) + 1
OBVIOUS

(* The commands of the phone's sequences are those of their parts.         *)
LEMMA JobsAre_Parts ==
    ASSUME NEW c
    PROVE  /\ \A ks : JobsAre(CommandPackets(c, ks), c)
           /\ JobsAre(<<>>, c)
           /\ \A s, t \in Seq(Tasks) : JobsAre(s, c) /\ JobsAre(t, c) => JobsAre(s \o t, c)
           /\ \A s \in Seq(Tasks) : s # <<>> /\ JobsAre(s, c) => JobsAre(Tail(s), c)
           /\ \A s \in Seq(Tasks), e \in Tasks :
                 JobsAre(s, c) /\ e.type # "command" => JobsAre(Append(s, e), c)
<1>1. \A ks : JobsAre(CommandPackets(c, ks), c)
  BY DEF JobsAre, CommandPackets
<1>2. JobsAre(<<>>, c)
  BY DEF JobsAre
<1>3. ASSUME NEW s \in Seq(Tasks), NEW t \in Seq(Tasks), JobsAre(s, c), JobsAre(t, c)
      PROVE  JobsAre(s \o t, c)
  <2> SUFFICES ASSUME NEW i \in DOMAIN (s \o t), (s \o t)[i].type = "command"
               PROVE  (s \o t)[i].cmd = c
    BY DEF JobsAre
  <2>1. \/ i \in DOMAIN s /\ (s \o t)[i] = s[i]
        \/ i - Len(s) \in DOMAIN t /\ (s \o t)[i] = t[i - Len(s)]
    BY ConcatProperties
  <2> QED BY <1>3, <2>1 DEF JobsAre
<1>4. ASSUME NEW s \in Seq(Tasks), s # <<>>, JobsAre(s, c)
      PROVE  JobsAre(Tail(s), c)
  BY <1>4, TailAt DEF JobsAre
<1>5. ASSUME NEW s \in Seq(Tasks), NEW e \in Tasks, JobsAre(s, c), e.type # "command"
      PROVE  JobsAre(Append(s, e), c)
  BY <1>5, AppendAt DEF JobsAre
<1> QED BY <1>1, <1>2, <1>3, <1>4, <1>5

(* Labels: a step that leaves the device's record of the commands alone,   *)
(* and the link.                                                           *)
LEMMA Phone_Labels ==
    ASSUME Types, Labels, current' \in Nat, current <= current', JobsAre(outbox', current'),
           UNCHANGED <<g_apdu, ucaRevPackN, pc, Apdufinsh, blueRecivSendflag,
                       CMD09_oldlabel, work, toDevice>>
    PROVE  Labels'
<1>1. FirstPacket' /\ NoReplyAnnounced'
  BY DEF Labels, FirstPacket, NoReplyAnnounced
<1>2. InOrder' /\ WorkedOnce' /\ Behind'
  BY DEF Labels, InOrder, WorkedOnce, Behind
<1>3. \A n \in Nat : n <= current => n <= current'
  BY LabelNumbers, SMT
<1>4. \A i \in DOMAIN toDevice : IsData(toDevice[i]) => toDevice[i].token.id \in Nat
  BY LabelNumbers
<1>5. Sent'
  BY <1>3, <1>4, LabelNumbers DEF Labels, Sent, JobsAre
<1> QED BY <1>1, <1>2, <1>5 DEF Labels

(* Labels: the phone's steps that send nothing yet.                        *)
LEMMA PhoneSteps_Labels ==
    ASSUME Types, Labels,
           \/ StartCommand \/ PhoneAsksAgain \/ PhoneRepeats \/ PhoneGivesUp
           \/ PhoneGetsReport \/ PhoneGetsData
    PROVE  Labels'
<1>0. /\ current \in Nat /\ current <= current /\ JobsAre(outbox, current)
      /\ outbox \in Seq(Tasks) /\ toPhone \in Seq(Notes)
  BY LabelNumbers, SMT DEF Labels, Sent, JobsAre, Types, Phone, Buffers
<1>1. CASE StartCommand
  <2>1. PICK c \in session.commands : /\ current' = c /\ c > current
                                      /\ outbox' = CommandPackets(c, AllParts(c))
    BY <1>1 DEF StartCommand
  <2>2. c \in Nat
    BY LabelNumbers, BleAssumption DEF LinkAssumption, Types, Phone
  <2>3. current' \in Nat /\ current <= current'
    BY <1>0, <2>1, <2>2, SMT
  <2>4. JobsAre(outbox', current')
    BY <2>1, JobsAre_Parts
  <2>5. UNCHANGED <<g_apdu, ucaRevPackN, pc, Apdufinsh, blueRecivSendflag,
                    CMD09_oldlabel, work, toDevice>>
    BY <1>1 DEF StartCommand, deviceVars
  <2> QED BY <2>3, <2>4, <2>5, Phone_Labels
<1>2. ASSUME UNCHANGED current, JobsAre(outbox', current),
             UNCHANGED <<g_apdu, ucaRevPackN, pc, Apdufinsh, blueRecivSendflag,
                         CMD09_oldlabel, work, toDevice>>
      PROVE  Labels'
  <2>1. current' \in Nat /\ current <= current' /\ JobsAre(outbox', current')
    BY <1>0, <1>2
  <2> QED BY <1>2, <2>1, Phone_Labels
<1>3. CASE PhoneAsksAgain
  <2>1. /\ outbox' = Append(outbox, MissingPacket(total, (0 .. total - 1) \ DOMAIN got))
        /\ UNCHANGED <<current, toDevice>> /\ UNCHANGED deviceVars
    BY <1>3 DEF PhoneAsksAgain
  <2>2. MissingPacket(total, (0 .. total - 1) \ DOMAIN got) \in Requests
    BY <1>3, Missing_Types DEF PhoneAsksAgain, Types, Phone
  <2>3. MissingPacket(total, (0 .. total - 1) \ DOMAIN got).type = "missing"
    BY DEF MissingPacket
  <2>4. JobsAre(outbox', current)
    BY <1>0, <2>1, <2>2, <2>3, JobsAre_Parts DEF Tasks
  <2> QED BY <1>2, <2>1, <2>4 DEF deviceVars
<1>4. CASE PhoneRepeats
  <2>1. /\ outbox' = CommandPackets(current, AllParts(current))
        /\ UNCHANGED <<current, toDevice>> /\ UNCHANGED deviceVars
    BY <1>4 DEF PhoneRepeats
  <2>2. JobsAre(outbox', current)
    BY <2>1, JobsAre_Parts
  <2> QED BY <1>2, <2>1, <2>2 DEF deviceVars
<1>5. CASE PhoneGivesUp
  <2>1. outbox' = <<>> /\ UNCHANGED <<current, toDevice>> /\ UNCHANGED deviceVars
    BY <1>5 DEF PhoneGivesUp
  <2>2. JobsAre(outbox', current)
    BY <2>1, JobsAre_Parts
  <2> QED BY <1>2, <2>1, <2>2 DEF deviceVars
<1>6. CASE PhoneGetsReport
  <2>1. /\ UNCHANGED <<current, toDevice>> /\ UNCHANGED <<apdu, rx, command, pc>>
        /\ \/ outbox' = outbox
           \/ /\ want # 0
              /\ outbox' = outbox \o CommandPackets(current,
                                        Head(toPhone).miss \intersect AllParts(current))
    BY <1>6 DEF PhoneGetsReport
  <2>2. JobsAre(outbox', current)
    <3>1. CASE outbox' = outbox
      BY <1>0, <3>1
    <3>2. ASSUME want # 0,
                 outbox' = outbox \o CommandPackets(current,
                                        Head(toPhone).miss \intersect AllParts(current))
          PROVE  JobsAre(outbox', current)
      <4> DEFINE ks == Head(toPhone).miss \intersect AllParts(current)
      <4>1. CommandPackets(current, ks) \in Seq(Tasks)
        BY <3>2, Jobs_Types DEF Types, Phone
      <4>2. JobsAre(CommandPackets(current, ks), current)
        BY JobsAre_Parts
      <4> HIDE DEF ks
      <4>3. JobsAre(outbox \o CommandPackets(current, ks), current)
        BY <1>0, <4>1, <4>2, JobsAre_Parts
      <4> QED BY <3>2, <4>3 DEF ks
    <3> QED BY <2>1, <3>1, <3>2
  <2> QED BY <1>2, <2>1, <2>2 DEF apdu, rx, command
<1>7. CASE PhoneGetsData
  <2> DEFINE p == Head(toPhone)
             left == (0 .. p.total - 1) \ DOMAIN PhoneNow
  <2>1. /\ UNCHANGED <<current, toDevice>> /\ UNCHANGED <<apdu, rx, command, pc>>
        /\ \/ outbox' = outbox
           \/ outbox' = Append(outbox, AckPacket)
           \/ left # {} /\ p.idx \in 0 .. p.total - 1
              /\ outbox' = Append(outbox, MissingPacket(p.total, left))
    BY <1>7 DEF PhoneGetsData, PhoneNow
  <2>2. JobsAre(outbox', current)
    <3>1. CASE outbox' = outbox
      BY <1>0, <3>1
    <3>2. CASE outbox' = Append(outbox, AckPacket)
      <4>1. AckPacket \in Tasks /\ AckPacket.type # "command"
        BY DEF AckPacket, Tasks, Requests
      <4> QED BY <1>0, <3>2, <4>1, JobsAre_Parts
    <3>3. CASE left # {} /\ p.idx \in 0 .. p.total - 1
               /\ outbox' = Append(outbox, MissingPacket(p.total, left))
      <4>1. p.total \in Indices
        BY <1>0, <1>7, <3>3, PhoneNow_Types DEF Types, PhoneGetsData
      <4>2. MissingPacket(p.total, left) \in Requests
        BY <3>3, <4>1, Missing_Types
      <4>3. MissingPacket(p.total, left).type = "missing"
        BY DEF MissingPacket
      <4> HIDE DEF left, p
      <4> QED BY <1>0, <3>3, <4>2, <4>3, JobsAre_Parts DEF Tasks
    <3> QED BY <2>1, <3>1, <3>2, <3>3
  <2> QED BY <1>2, <2>1, <2>2 DEF apdu, rx, command
<1> QED BY <1>1, <1>3, <1>4, <1>5, <1>6, <1>7

(* Labels: a packet of the phone goes out.                                 *)
LEMMA PhoneSend_Labels ==
    ASSUME Types, Labels, PhoneSend
    PROVE  Labels'
<1>0. /\ outbox \in Seq(Tasks) /\ toDevice \in Seq(Packets) /\ JobsAre(outbox, current)
  BY DEF Labels, Sent, JobsAre, Types, Phone
<1>1. UNCHANGED <<g_apdu, ucaRevPackN, pc, Apdufinsh, blueRecivSendflag,
                  CMD09_oldlabel, work, current>>
  BY DEF PhoneSend, apdu, rx, command
<1>2. PICK p \in Packets : /\ GoesOut(p) /\ JobsAre(outbox', current)
                           /\ IsData(p) => p.token.id = current
  <2> DEFINE h == Head(outbox)
  <2>0. outbox # <<>> /\ h \in Tasks /\ JobsAre(Tail(outbox), current)
        /\ Tail(outbox) \in Seq(Tasks)
    <3>1. outbox # <<>>
      BY DEF PhoneSend
    <3>2. Head(outbox) \in Tasks /\ Tail(outbox) \in Seq(Tasks)
      BY <1>0, <3>1
    <3>3. JobsAre(Tail(outbox), current)
      BY <1>0, <3>1, JobsAre_Parts
    <3> QED BY <3>1, <3>2, <3>3
  <2>1. CASE h.type # "command" /\ h \in Requests /\ GoesOut(h) /\ outbox' = Tail(outbox)
    <3>1. ~IsData(h)
      BY <2>1 DEF IsData, Requests, AckPacket
    <3> QED BY <2>0, <2>1, <3>1 DEF Packets
  <2>2. ASSUME NEW k \in h.parts, h.type = "command", h.cmd \in Commands,
               h.parts \in SUBSET AllParts(h.cmd), GoesOut(CommandPacket(h.cmd, k)),
               outbox' = CommandPackets(h.cmd, h.parts \ {k}) \o Tail(outbox)
        PROVE  \E p \in Packets : /\ GoesOut(p) /\ JobsAre(outbox', current)
                                  /\ IsData(p) => p.token.id = current
    <3>1. h.cmd = current
      BY <1>0, <2>0, <2>2, TailAt DEF JobsAre
    <3>2. k \in AllParts(h.cmd)
      BY <2>2
    <3>3. /\ CommandPacket(h.cmd, k) \in Packets
          /\ CommandPacket(h.cmd, k).token.id = current
      BY <2>2, <3>1, <3>2, Packet_Facts DEF Packets
    <3>4. JobsAre(CommandPackets(h.cmd, h.parts \ {k}), current)
      BY <3>1, JobsAre_Parts
    <3>5. CommandPackets(h.cmd, h.parts \ {k}) \in Seq(Tasks)
      <4>1. h.parts \ {k} \in SUBSET AllParts(h.cmd)
        BY <2>2
      <4> QED BY <2>2, <4>1, Jobs_Types
    <3> HIDE DEF h
    <3>6. JobsAre(outbox', current)
      BY <2>0, <2>2, <3>4, <3>5, JobsAre_Parts
    <3> QED BY <2>2, <3>3, <3>6
  <2> HIDE DEF h
  <2>3. \/ h.type # "command" /\ h \in Requests /\ GoesOut(h) /\ outbox' = Tail(outbox)
        \/ \E k \in h.parts :
              /\ h.type = "command" /\ h.cmd \in Commands /\ h.parts \in SUBSET AllParts(h.cmd)
              /\ GoesOut(CommandPacket(h.cmd, k))
              /\ outbox' = CommandPackets(h.cmd, h.parts \ {k}) \o Tail(outbox)
    BY <1>0, PhoneSend_Is DEF h
  <2> QED BY <2>1, <2>2, <2>3
<1>3. FirstPacket' /\ NoReplyAnnounced' /\ WorkedOnce'
  BY <1>1 DEF Labels, FirstPacket, NoReplyAnnounced, WorkedOnce
<1>4. toDevice' = toDevice \/ toDevice' = Append(toDevice, p)
  BY <1>2 DEF GoesOut
<1>5. CASE toDevice' = toDevice
  BY <1>1, <1>2, <1>3, <1>5 DEF Labels, Sent, InOrder, Behind, JobsAre
<1>6. CASE toDevice' = Append(toDevice, p)
  <2>1. \A i \in DOMAIN toDevice' :
           \/ i \in DOMAIN toDevice /\ toDevice'[i] = toDevice[i]
           \/ i = Len(toDevice) + 1 /\ toDevice'[i] = p
    BY <1>0, <1>6, AppendAt
  <2>2. \A i \in DOMAIN toDevice : i < Len(toDevice) + 1
    BY <1>0, AppendAt
  <2>3. /\ current \in Nat /\ CMD09_oldlabel \in Nat /\ g_apdu[0].id \in Nat
        /\ CMD09_oldlabel <= current
        /\ g_apdu[0].kind = "cmd" => g_apdu[0].id <= current
        /\ \A i \in DOMAIN toDevice : IsData(toDevice[i]) => toDevice[i].token.id <= current
    BY LabelNumbers DEF Labels, Sent
  <2>4. Sent'
    BY <1>1, <1>2, <2>1, <2>3 DEF Labels, Sent, JobsAre
  <2>5. Behind'
    BY <1>1, <1>2, <2>1, <2>3 DEF Labels, Behind
  <2>6. InOrder'
    <3> SUFFICES ASSUME NEW i \in DOMAIN toDevice', NEW j \in DOMAIN toDevice',
                        i < j, IsData(toDevice'[i]), IsData(toDevice'[j])
                 PROVE  toDevice'[i].token.id <= toDevice'[j].token.id
      BY DEF InOrder
    <3>1. i \in DOMAIN toDevice /\ toDevice'[i] = toDevice[i]
      <4>1. DOMAIN toDevice = 1 .. Len(toDevice) /\ Len(toDevice) \in Nat
        BY <1>0
      <4>2. i \in Nat /\ j \in Nat /\ j <= Len(toDevice) + 1
        BY <4>1, <2>1
      <4>3. i # Len(toDevice) + 1
        BY <4>1, <4>2
      <4> QED BY <2>1, <4>3
    <3>2. CASE j \in DOMAIN toDevice /\ toDevice'[j] = toDevice[j]
      BY <3>1, <3>2 DEF Labels, InOrder
    <3>3. CASE toDevice'[j] = p
      BY <1>2, <2>3, <3>1, <3>3
    <3> QED BY <2>1, <3>2, <3>3
  <2> QED BY <1>3, <2>4, <2>5, <2>6 DEF Labels
<1> QED BY <1>4, <1>5, <1>6

(* Labels: the device takes a packet of the phone.                         *)
LEMMA DeviceReceives_Labels ==
    ASSUME Types, Labels, DeviceReceives
    PROVE  Labels'
<1> DEFINE p == Head(toDevice)
<1>1. /\ toDevice \in Seq(Packets) /\ toDevice # <<>>
      /\ PhoneToBle(p) /\ toDevice' = Tail(toDevice) /\ UNCHANGED <<outbox, current>>
  BY DEF DeviceReceives, Types, Phone
<1>2. p \in Packets /\ 1 \in DOMAIN toDevice /\ p = toDevice[1]
  BY <1>1, TailAt
<1>3. \A i \in DOMAIN toDevice' :
         i \in Nat /\ i + 1 \in DOMAIN toDevice /\ toDevice'[i] = toDevice[i + 1] /\ 1 < i + 1
  <2>1. \A i \in DOMAIN toDevice' :
           i \in Nat /\ i + 1 \in DOMAIN toDevice /\ toDevice'[i] = toDevice[i + 1]
    BY <1>1, TailAt
  <2>2. DOMAIN toDevice' = 1 .. Len(toDevice') /\ Len(toDevice') \in Nat
    BY <1>1
  <2> QED BY <2>1, <2>2
<1>4. UNCHANGED <<CMD09_oldlabel, work, blueRecivSendflag, pc>>
  BY <1>1 DEF PhoneToBle, PhoneReport, PhoneAck, PhoneDataIgnored, PhoneData, command, apdu
<1> HIDE DEF p
<1>5. WorkedOnce'
  BY <1>4 DEF Labels, WorkedOnce
<1>6. InOrder'
  <2> SUFFICES ASSUME NEW i \in DOMAIN toDevice', NEW j \in DOMAIN toDevice',
                      i < j, IsData(toDevice'[i]), IsData(toDevice'[j])
               PROVE  toDevice'[i].token.id <= toDevice'[j].token.id
    BY DEF InOrder
  <2>1. /\ i + 1 \in DOMAIN toDevice /\ toDevice'[i] = toDevice[i + 1]
        /\ j + 1 \in DOMAIN toDevice /\ toDevice'[j] = toDevice[j + 1]
        /\ i + 1 < j + 1
    BY <1>3
  <2> QED BY <2>1 DEF Labels, InOrder
<1>7. CASE UNCHANGED g_apdu /\ ucaRevPackN' \subseteq ucaRevPackN /\ Apdufinsh' = Apdufinsh
  <2>1. FirstPacket' /\ NoReplyAnnounced'
    BY <1>4, <1>7 DEF Labels, FirstPacket, NoReplyAnnounced
  <2>2. Sent'
    BY <1>1, <1>3, <1>4, <1>7 DEF Labels, Sent
  <2>3. Behind'
    BY <1>3, <1>4, <1>7 DEF Labels, Behind
  <2> QED BY <1>5, <1>6, <2>1, <2>2, <2>3 DEF Labels
<1>8. CASE PhoneData(p)
  <2>1. PICK c \in Commands : \E k \in AllParts(c) : p = CommandPacket(c, k)
    BY <1>2, <1>8, DataIs DEF PhoneData
  <2>2. PICK k \in AllParts(c) : p = CommandPacket(c, k)
    BY <2>1
  <2>3. /\ p.type = "data" /\ p.idx = k /\ p.total = Parts(CmdLen[c])
        /\ p.token = CmdToken(c, FALSE) /\ p.token.id = c
    BY <2>2, Packet_Facts
  <2>4. /\ g_apdu' = [g_apdu EXCEPT ![k] = CmdToken(c, FALSE)]
        /\ ucaRevPackN' = ucaRevPackN \union {k}
        /\ ucaPackMsg' = MissedPackN(p.total, ucaRevPackN')
        /\ Apdufinsh' = IF ucaPackMsg'.miss = {} THEN 1
                        ELSE IF Apdufinsh = 0 THEN 2 ELSE Apdufinsh
    BY <1>8, <2>3 DEF PhoneData
  <2>5. g_apdu \in [Part -> Tokens] /\ 0 \in Part
    BY Limits DEF Types, Buffers
  <2>6. /\ k = 0 => g_apdu'[0] = CmdToken(c, FALSE)
        /\ k # 0 => g_apdu'[0] = g_apdu[0]
    BY <2>4, <2>5
  <2>7. CmdToken(c, FALSE).kind = "cmd" /\ CmdToken(c, FALSE).id = c
        /\ CmdToken(c, FALSE).aligned = FALSE
    BY DEF CmdToken
  <2>8. 0 \in ucaRevPackN' /\ pc # "reset" => g_apdu'[0].kind # "none"
    BY <2>4, <2>6, <2>7 DEF Labels, FirstPacket
  <2>9. Apdufinsh' = 1 /\ pc \notin {"reset", "finish"} => g_apdu'[0].kind # "none"
    <3>1. CASE ucaPackMsg'.miss = {}
      <4>1. (0 .. p.total - 1) \ ucaRevPackN' = {}
        BY <2>4, <3>1 DEF MissedPackN
      <4>2. 0 \in 0 .. p.total - 1
        BY <2>3, CommandFits
      <4> QED BY <2>8, <4>1, <4>2
    <3>2. CASE ucaPackMsg'.miss # {}
      <4>1. Apdufinsh' = 1 => Apdufinsh = 1
        BY <2>4, <3>2
      <4> QED BY <2>6, <2>7, <4>1 DEF Labels, FirstPacket
    <3> QED BY <3>1, <3>2
  <2>10. FirstPacket'
    BY <1>4, <2>6, <2>7, <2>8, <2>9 DEF Labels, FirstPacket
  <2>11. NoReplyAnnounced'
    BY <1>4, <2>6, <2>7 DEF Labels, NoReplyAnnounced
  <2>12. IsData(p) /\ c <= current /\ CMD09_oldlabel <= c
    BY <1>2, <2>3 DEF Labels, Sent, Behind, IsData
  <2>13. \A i \in DOMAIN toDevice' : IsData(toDevice'[i]) => c <= toDevice'[i].token.id
    BY <1>2, <1>3, <2>3, <2>12 DEF Labels, InOrder
  <2>14. Sent'
    BY <1>1, <1>3, <1>4, <2>6, <2>7, <2>12 DEF Labels, Sent
  <2>15. Behind'
    <3>1. \A i \in DOMAIN toDevice' : IsData(toDevice'[i]) =>
             /\ CMD09_oldlabel <= toDevice'[i].token.id
             /\ g_apdu[0].kind = "cmd" => g_apdu[0].id <= toDevice'[i].token.id
      BY <1>3 DEF Labels, Behind
    <3> QED BY <1>4, <2>6, <2>7, <2>12, <2>13, <3>1 DEF Labels, Behind
  <2> QED BY <1>5, <1>6, <2>10, <2>11, <2>14, <2>15 DEF Labels
<1>9. CASE PhoneReport(p)
  BY <1>7, <1>9 DEF PhoneReport, apdu
<1>10. CASE PhoneAck(p)
  <2>1. UNCHANGED g_apdu /\ ucaRevPackN' \subseteq ucaRevPackN /\ Apdufinsh' = Apdufinsh
    BY <1>10 DEF PhoneAck, apdu
  <2> QED BY <1>7, <2>1
<1>11. CASE PhoneDataIgnored(p)
  BY <1>7, <1>11 DEF PhoneDataIgnored, apdu
<1> QED BY <1>1, <1>8, <1>9, <1>10, <1>11 DEF PhoneToBle

(* Labels: the connection, the STM32 giving up, and the timer.             *)
LEMMA OtherSteps_Labels ==
    ASSUME Types, Labels, Connect \/ Disconnect \/ Stm32GivesUp \/ DeviceTimeOut
    PROVE  Labels'
<1>1. UNCHANGED <<g_apdu, ucaRevPackN, pc, Apdufinsh, blueRecivSendflag,
                  CMD09_oldlabel, work, current>>
  BY DEF Connect, Disconnect, Stm32GivesUp, DeviceTimeOut, OnConnected, OnDisconnected,
         TimeOut, apdu, rx, command, phoneVars
<1>2. \/ UNCHANGED <<toDevice, outbox>>
      \/ toDevice' = <<>> /\ outbox' = <<>>
  BY DEF Connect, Disconnect, Stm32GivesUp, DeviceTimeOut, phoneVars
<1>3. CASE UNCHANGED <<toDevice, outbox>>
  BY <1>1, <1>3, Phone_Labels, LabelNumbers DEF Labels, Sent, JobsAre
<1>4. CASE toDevice' = <<>> /\ outbox' = <<>>
  <2>1. FirstPacket' /\ NoReplyAnnounced' /\ WorkedOnce'
    BY <1>1 DEF Labels, FirstPacket, NoReplyAnnounced, WorkedOnce
  <2>2. DOMAIN toDevice' = {} /\ DOMAIN outbox' = {}
    BY <1>4
  <2>3. Sent' /\ InOrder' /\ Behind'
    BY <1>1, <2>2 DEF Labels, Sent, InOrder, Behind
  <2> QED BY <2>1, <2>3 DEF Labels
<1> QED BY <1>2, <1>3, <1>4

-----------------------------------------------------------------------------
(* The theorems about every session.                                       *)

LEMMA GeneralIs == General <=> Types /\ Labels
BY DEF General, Labels

(* The invariant holds when the device starts.                             *)
LEMMA GeneralInit ==
    ASSUME LinkInit
    PROVE  General
<1>0. /\ 0 \in 0 .. WaitRertyTims /\ 0 \in Indices /\ 0 \in Lengths /\ 0 \in Part
      /\ Part \subseteq Indices
  BY Limits, SMT
<1>1. NoToken \in Tokens /\ NoToken.kind = "none" /\ NoToken.aligned = FALSE
  BY TokensMade DEF NoToken
<1>2. Init
  BY DEF LinkInit
<1>3. g_apdu = [k \in Part |-> NoToken] /\ g_apdu[0] = NoToken
  BY <1>0, <1>2 DEF Init
<1>4. Scalars
  BY <1>0, <1>2 DEF Init, Scalars, Positions
<1>5. Buffers
  <2>1. Cleared \in Messages
    BY DEF Cleared, Messages
  <2>2. losses \in Nat
    BY <1>2, BleAssumption DEF TransferAssumption, Init
  <2> QED BY <1>1, <1>2, <1>3, <2>1, <2>2 DEF Init, Buffers
<1>6. Dispatched
  BY <1>2 DEF Init, Dispatched
<1>7. Phone
  <2>1. /\ toDevice = <<>> /\ outbox = <<>> /\ current = 0 /\ want = 0 /\ total = 0
        /\ answers = [c \in Commands |-> <<>>] /\ got = <<>>
        /\ retries = 0 /\ drops = 0 /\ unseen = FALSE /\ session \in Sessions
    BY DEF LinkInit
  <2>2. DOMAIN got \subseteq Indices /\ (\A k \in DOMAIN got : got[k] \in Tokens)
    BY <2>1
  <2>3. answers \in [Commands -> Seq(Replies)]
    BY <2>1
  <2>4. toDevice \in Seq(Packets) /\ outbox \in Seq(Tasks)
    BY <2>1
  <2> QED BY <1>0, <2>1, <2>2, <2>3, <2>4 DEF Phone
<1>8. Types
  BY <1>4, <1>5, <1>6, <1>7 DEF Types
<1>9. FirstPacket /\ NoReplyAnnounced
  BY <1>1, <1>2, <1>3 DEF Init, FirstPacket, NoReplyAnnounced
<1>10. Sent /\ InOrder /\ Behind
  <2>1. DOMAIN toDevice = {} /\ DOMAIN outbox = {} /\ g_apdu[0].kind # "cmd"
        /\ CMD09_oldlabel = 0 /\ current = 0
    BY <1>1, <1>2, <1>3 DEF LinkInit, Init
  <2> QED BY <2>1 DEF Sent, InOrder, Behind
<1>11. WorkedOnce
  BY <1>2 DEF Init, WorkedOnce
<1> QED BY <1>8, <1>9, <1>10, <1>11 DEF General

(* Every step keeps it.                                                    *)
LEMMA GeneralNext ==
    ASSUME General, [Next]_vars
    PROVE  General'
<1>0. Types /\ Labels
  BY GeneralIs
<1>1. Types'
  BY <1>0, TypesNext DEF Labels
<1>2. CASE Next
  <2>1. CASE DeviceTurn
    <3>1. Turn /\ UNCHANGED <<toDevice, outbox, current>>
      BY <2>1 DEF DeviceTurn
    <3> QED BY <1>0, <1>1, <3>1, Turn_Labels, GeneralIs DEF General, Labels
  <2>2. CASE Stm32Replies
    <3>1. UartReply /\ UNCHANGED <<toDevice, outbox, current>>
      BY <2>2 DEF Stm32Replies, phoneVars
    <3> QED BY <1>0, <1>1, <3>1, Turn_Labels DEF General, Labels
  <2>3. CASE DeviceReceives
    BY <1>0, <1>1, <2>3, DeviceReceives_Labels DEF General, Labels
  <2>4. CASE PhoneSend
    BY <1>0, <1>1, <2>4, PhoneSend_Labels DEF General, Labels
  <2>5. CASE \/ StartCommand \/ PhoneAsksAgain \/ PhoneRepeats \/ PhoneGivesUp
             \/ PhoneGetsReport \/ PhoneGetsData
    BY <1>0, <1>1, <2>5, PhoneSteps_Labels DEF General, Labels
  <2>6. CASE Connect \/ Disconnect \/ Stm32GivesUp \/ DeviceTimeOut
    BY <1>0, <1>1, <2>6, OtherSteps_Labels DEF General, Labels
  <2> QED BY <1>2, <2>1, <2>2, <2>3, <2>4, <2>5, <2>6 DEF Next
<1>3. CASE UNCHANGED vars
  <2>1. UNCHANGED <<g_apdu, ucaRevPackN, pc, Apdufinsh, blueRecivSendflag,
                    CMD09_oldlabel, work, toDevice, outbox, current>>
    BY <1>3 DEF vars, deviceVars, phoneVars
  <2>2. Labels'
    BY <1>0, <2>1, LabelNumbers, Phone_Labels DEF Labels, Sent, JobsAre
  <2> QED BY <1>1, <2>2 DEF General, Labels
<1> QED BY <1>2, <1>3

(* In every session, however hasty its timeouts and however often packets, *)
(* commands and connections are lost or repeated, the commands the device  *)
(* takes come in the order of their labels, and each is worked only when   *)
(* its label is new.                                                       *)
THEOREM GeneralAlways == Spec => []General
BY GeneralInit, GeneralNext, PTL DEF Spec

(* BluetoothWork() is called at most once for a command: CMD09_oldlabel    *)
(* rejects what the phone repeats (Bluetooth_APPprotocol.c).               *)
THEOREM WorkedAtMostOnce == Spec => []AtMostOnce
<1>1. General => AtMostOnce
  BY DEF General, WorkedOnce, AtMostOnce
<1> QED BY <1>1, GeneralAlways, PTL

(* The variables of the model have their types, with its named bounds.     *)
THEOREM TypeCorrect == Spec => []TypeOK
<1>1. ASSUME General
      PROVE  TypeOK
  <2>1. Scalars /\ Buffers /\ Dispatched
    BY <1>1 DEF General, Types
  <2>2. Indices \subseteq 0 .. 255
    BY SMT DEF Indices
  <2>3. g_apdu \in [Part -> Token]
    BY <2>1 DEF Buffers, Tokens
  <2>4. ucaPackMsg.miss \subseteq 0 .. 255 /\ ucaPackMsg.len \in Nat
    BY <2>1, <2>2 DEF Buffers, Messages
  <2>5. ucaRevPackN \subseteq Part /\ stm32.cmd \in {0} \union Commands
        /\ CMD09_oldlabel \in {0} \union Commands
    BY <2>1 DEF Buffers, Dispatched
  <2>6. g_apdu_length \in Nat /\ g_apdu_length < 65536
    BY <2>1 DEF Scalars, Lengths
  <2>7. SumPackNumber \in 0 .. 255 /\ remberPackn \in 0 .. 255
    BY <2>1, <2>2 DEF Scalars
  <2> QED BY <2>1, <2>3, <2>4, <2>5, <2>6, <2>7 DEF TypeOK, Scalars
<1> QED BY <1>1, GeneralAlways, PTL

(* The status word of command 9 is "9000" only when the command with the   *)
(* last label was worked (recivestatus_F() in Bluetooth_APPprotocol.c).    *)
THEOREM StatusIsTrue == Spec => []StatusTruthful
<1>1. LinkInit => StatusTruthful
  BY DEF LinkInit, Init, StatusTruthful
<1>2. ASSUME General, StatusTruthful, [Next]_vars
      PROVE  StatusTruthful'
  <2>1. \/ UNCHANGED <<CMD09_oldlabel, CMD09_SW, work>>
        \/ ProcessNew
    <3>1. CASE Next
      <4>1. CASE StartCommand \/ PhoneAsksAgain \/ PhoneRepeats \/ PhoneGivesUp
        BY <4>1 DEF StartCommand, PhoneAsksAgain, PhoneRepeats, PhoneGivesUp, deviceVars
      <4>2. CASE PhoneSend \/ PhoneGetsReport \/ PhoneGetsData \/ Stm32GivesUp
        BY <4>2 DEF PhoneSend, PhoneGetsReport, PhoneGetsData, Stm32GivesUp, command
      <4>3. CASE Connect \/ Disconnect \/ DeviceTimeOut
        BY <4>3 DEF Connect, Disconnect, DeviceTimeOut, OnConnected, OnDisconnected,
                    TimeOut, command
      <4>4. CASE DeviceReceives
        BY <4>4 DEF DeviceReceives, PhoneToBle, PhoneReport, PhoneAck, PhoneDataIgnored,
                    PhoneData, command
      <4>5. CASE Stm32Replies
        BY <4>5 DEF Stm32Replies, UartReply
      <4>6. CASE DeviceTurn
        <5>1. Turn
          BY <4>6 DEF DeviceTurn
        <5>2. CASE \/ TurnDisconnected \/ TurnConnected
                   \/ Receive \/ ReceiveReset \/ ReceiveFinish
          BY <5>2 DEF TurnDisconnected, TurnConnected, Receive, ReceiveReset,
                      ReceiveFinish, command
        <5>3. CASE \/ Send \/ ReSend \/ NoReSend \/ Remember
                   \/ RetryIdle \/ RetryReport \/ RetryReply
          BY <5>3 DEF Send, ReSend, NoReSend, Remember, RetryIdle, RetryReport,
                      RetryReply, command
        <5>4. CASE ProcessNothing \/ ProcessStatus \/ ProcessRepeated \/ UartTurn
          BY <5>4 DEF ProcessNothing, ProcessStatus, ProcessRepeated, UartTurn, command
        <5> QED BY <5>1, <5>2, <5>3, <5>4 DEF Turn
      <4> QED BY <3>1, <4>1, <4>2, <4>3, <4>4, <4>5, <4>6 DEF Next
    <3>2. CASE UNCHANGED vars
      BY <3>2 DEF vars, deviceVars
    <3> QED BY <1>2, <3>1, <3>2
  <2>2. CASE UNCHANGED <<CMD09_oldlabel, CMD09_SW, work>>
    BY <1>2, <2>2 DEF StatusTruthful
  <2>3. CASE ProcessNew
    <3> DEFINE c == g_apdu[0].lab
    <3>1. c \in Commands
      BY <1>2, <2>3, Announced_Is DEF General, Types, DeviceTypes, ProcessNew
    <3>2. work \in [Commands -> Nat]
      BY <1>2 DEF General, Types, Dispatched
    <3>3. /\ CMD09_oldlabel' = c /\ CMD09_SW' = StatusWord(CrcGood(c))
          /\ CrcGood(c) => work' = [work EXCEPT ![c] = @ + 1]
      BY <2>3 DEF ProcessNew
    <3> HIDE DEF c
    <3>4. CASE CrcGood(c)
      <4>1. work'[c] = work[c] + 1 /\ work[c] \in Nat
        BY <3>1, <3>2, <3>3, <3>4
      <4> QED BY <3>3, <4>1 DEF StatusTruthful
    <3>5. CASE ~CrcGood(c)
      BY <3>3, <3>5 DEF StatusTruthful, StatusWord
    <3> QED BY <3>4, <3>5
  <2> QED BY <2>1, <2>2, <2>3
<1> QED BY <1>1, <1>2, GeneralAlways, PTL DEF Spec

=============================================================================
