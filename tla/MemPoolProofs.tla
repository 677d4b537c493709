--------------------------- MODULE MemPoolProofs ---------------------------
(***************************************************************************)
(* The pool of receive buffers keeps every packet until it is consumed,    *)
(* and loses no buffer: BufferKept of MemPool, for every size of the ring  *)
(* that the code allows and any number of packets.                         *)
(*                                                                         *)
(* Packet p lies in slot p - 1 of the ring.  The packets from Oldest + 1   *)
(* to extracted make up the "free available" area, those after it, up to   *)
(* produced, the "read available" one; together they never exceed the      *)
(* ring, so that no two of them share a buffer.                            *)
(***************************************************************************)
EXTENDS MemPool, SequenceTheorems, TLAPS

Available == m_rx_buffer_queue.free_available_count

(* The packets before this one are in the free window again.               *)
Oldest == extracted - Available

(* How many packets the client holds besides the one it must refuse.       *)
Kept == IF MustRefuse THEN Len(held) - 1 ELSE Len(held)

(* Packets whose length was set.                                           *)
Complete == IF filling THEN produced - 1 ELSE produced

(* Packet p's buffer is in use.                                            *)
InUse(p) == \/ p <= Oldest + Kept
            \/ MustRefuse /\ p = extracted
            \/ extracted < p

-----------------------------------------------------------------------------
(* The indices and counters of the ring, from the packets so far.          *)
Counted ==
    /\ Available <= extracted
    /\ extracted <= Complete
    /\ m_rx_buffer_queue.read_available_count = produced - extracted
    /\ m_rx_buffer_queue.write_index = Slot(produced)
    /\ m_rx_buffer_queue.read_index = Slot(extracted)

(* What the client holds: packets in a row from the oldest on, and behind  *)
(* them, while it refuses, the one extracted last.                         *)
HeldInOrder ==
    /\ \A i \in 1 .. Kept : held[i] = [buffer |-> Slot(Oldest + i - 1), packet |-> Oldest + i]
    /\ MustRefuse => held[Len(held)] = [buffer |-> Slot(extracted - 1), packet |-> extracted]

(* All that was extracted is held until a packet is refused; from then on  *)
(* refused packets lie behind, free but not in the window, as long as the  *)
(* oldest one is held.                                                     *)
Reach ==
    /\ ~refusing => Available = Len(held)
    /\ Kept = 0 => Available = IF MustRefuse THEN 1 ELSE 0
    /\ Kept + (IF MustRefuse THEN 1 ELSE 0) <= Available

Marked ==
    \A p \in Oldest + 1 .. produced : Slot(p - 1) \in m_rx_buffer_queue.free_index <=> InUse(p)

Written ==
    /\ \A p \in Oldest + 1 .. produced : rx_buffer[Slot(p - 1)] = p
    /\ \A p \in Oldest + 1 .. Complete : length[Slot(p - 1)] = p

IInv ==
    /\ PoolTypeOK
    /\ Counted /\ HeldInOrder /\ Reach /\ Marked /\ Written

-----------------------------------------------------------------------------
(* A slot is a buffer of the ring.                                         *)
LEMMA SlotRange ==
    ASSUME NEW a \in Nat
    PROVE  Slot(a) \in Buffers
<1>1. CASE RX_BUF_QUEUE_SIZE = 2   BY <1>1 DEF Slot, Buffers
<1>2. CASE RX_BUF_QUEUE_SIZE = 4   BY <1>2 DEF Slot, Buffers
<1>3. CASE RX_BUF_QUEUE_SIZE = 8   BY <1>3 DEF Slot, Buffers
<1>4. CASE RX_BUF_QUEUE_SIZE = 16  BY <1>4 DEF Slot, Buffers
<1>5. CASE RX_BUF_QUEUE_SIZE = 32  BY <1>5 DEF Slot, Buffers
<1>. QED BY <1>1, <1>2, <1>3, <1>4, <1>5, RingAssumption

(* As many packets in a row as there are buffers have different slots.     *)
LEMMA SlotApart ==
    ASSUME NEW a \in Nat, NEW b \in Nat, a < b, b - a < RX_BUF_QUEUE_SIZE
    PROVE  Slot(a) # Slot(b)
<1>1. CASE RX_BUF_QUEUE_SIZE = 2   BY <1>1 DEF Slot, Buffers
<1>2. CASE RX_BUF_QUEUE_SIZE = 4   BY <1>2 DEF Slot, Buffers
<1>3. CASE RX_BUF_QUEUE_SIZE = 8   BY <1>3 DEF Slot, Buffers
<1>4. CASE RX_BUF_QUEUE_SIZE = 16  BY <1>4 DEF Slot, Buffers
<1>5. CASE RX_BUF_QUEUE_SIZE = 32  BY <1>5 DEF Slot, Buffers
<1>. QED BY <1>1, <1>2, <1>3, <1>4, <1>5, RingAssumption

(* Counting on from a slot, and wrapping around again.                     *)
LEMMA SlotAfter ==
    ASSUME NEW a \in Nat, NEW k \in Nat
    PROVE  Slot(Slot(a) + k) = Slot(a + k)
<1>1. CASE RX_BUF_QUEUE_SIZE = 2   BY <1>1 DEF Slot, Buffers
<1>2. CASE RX_BUF_QUEUE_SIZE = 4   BY <1>2 DEF Slot, Buffers
<1>3. CASE RX_BUF_QUEUE_SIZE = 8   BY <1>3 DEF Slot, Buffers
<1>4. CASE RX_BUF_QUEUE_SIZE = 16  BY <1>4 DEF Slot, Buffers
<1>5. CASE RX_BUF_QUEUE_SIZE = 32  BY <1>5 DEF Slot, Buffers
<1>. QED BY <1>1, <1>2, <1>3, <1>4, <1>5, RingAssumption

(* Counting back from a slot, with the ring's size added first.            *)
LEMMA SlotBefore ==
    ASSUME NEW a \in Nat, NEW k \in 0 .. a
    PROVE  Slot(Slot(a) - k + RX_BUF_QUEUE_SIZE) = Slot(a - k)
<1>1. CASE RX_BUF_QUEUE_SIZE = 2   BY <1>1 DEF Slot, Buffers
<1>2. CASE RX_BUF_QUEUE_SIZE = 4   BY <1>2 DEF Slot, Buffers
<1>3. CASE RX_BUF_QUEUE_SIZE = 8   BY <1>3 DEF Slot, Buffers
<1>4. CASE RX_BUF_QUEUE_SIZE = 16  BY <1>4 DEF Slot, Buffers
<1>5. CASE RX_BUF_QUEUE_SIZE = 32  BY <1>5 DEF Slot, Buffers
<1>. QED BY <1>1, <1>2, <1>3, <1>4, <1>5, RingAssumption

-----------------------------------------------------------------------------
(* The functions of the ring (RxRing), one field after the other.          *)
Rings == [free_window_count : 0 .. RX_BUF_QUEUE_SIZE,
          free_available_count : 0 .. RX_BUF_QUEUE_SIZE,
          read_available_count : 0 .. RX_BUF_QUEUE_SIZE,
          write_index : Buffers, read_index : Buffers, free_index : SUBSET Buffers]

(* The areas of a ring, as numbers.                                        *)
LEMMA RingNumbers ==
    ASSUME NEW q, IsRing(q)
    PROVE  /\ RX_BUF_QUEUE_SIZE \in Nat /\ q \in Rings
           /\ q.free_window_count \in Nat /\ q.free_available_count \in Nat
           /\ q.read_available_count \in Nat
           /\ q.free_window_count + q.free_available_count + q.read_available_count
                 = RX_BUF_QUEUE_SIZE
           /\ q.read_index \in Buffers /\ q.write_index \in Buffers
           /\ q.free_index \in SUBSET Buffers
<1>1. RX_BUF_QUEUE_SIZE \in Nat
  BY RingAssumption
<1>2. q \in Rings
  BY DEF IsRing, Rings
<1>. QED BY <1>1, <1>2 DEF IsRing, Rings

(* Putting a value of the right type into a field of a ring.               *)
LEMMA RingPut ==
    ASSUME NEW q \in Rings
    PROVE  /\ \A v \in 0 .. RX_BUF_QUEUE_SIZE :
                 /\ [q EXCEPT !.free_window_count = v] \in Rings
                 /\ [q EXCEPT !.free_available_count = v] \in Rings
                 /\ [q EXCEPT !.read_available_count = v] \in Rings
           /\ \A v \in Buffers : /\ [q EXCEPT !.write_index = v] \in Rings
                                 /\ [q EXCEPT !.read_index = v] \in Rings
           /\ \A v \in SUBSET Buffers : [q EXCEPT !.free_index = v] \in Rings
BY DEF Rings

(* Produced.                                                               *)
LEMMA RingProduced ==
    ASSUME NEW q, IsRing(q), WindowOpen(q), Slot(q.write_index + 1) \in Buffers
    PROVE  /\ IsRing(Produced(q))
           /\ Produced(q).free_window_count = q.free_window_count - 1
           /\ Produced(q).free_available_count = q.free_available_count
           /\ Produced(q).read_available_count = q.read_available_count + 1
           /\ Produced(q).write_index = Slot(q.write_index + 1)
           /\ Produced(q).read_index = q.read_index
           /\ Produced(q).free_index = q.free_index \cup {q.write_index}
<1>. USE RingNumbers
<1>. DEFINE w == q.free_window_count - 1
            r == q.read_available_count + 1
            f == q.free_index \cup {q.write_index}
            i == Slot(q.write_index + 1)
<1>1. w \in 0 .. RX_BUF_QUEUE_SIZE /\ r \in 0 .. RX_BUF_QUEUE_SIZE /\ f \in SUBSET Buffers
      /\ i \in Buffers
  BY DEF WindowOpen
<1>2. Produced(q) = [q EXCEPT !.free_window_count = w, !.read_available_count = r,
                              !.free_index = f, !.write_index = i]
  BY DEF Produced, Rings
<1>. HIDE DEF w, r, f, i
<1>3. Produced(q) \in Rings
  <2>1. [q EXCEPT !.free_window_count = w] \in Rings
    BY <1>1, RingPut
  <2>2. [q EXCEPT !.free_window_count = w, !.read_available_count = r] \in Rings
    BY <1>1, <2>1, RingPut
  <2>3. [q EXCEPT !.free_window_count = w, !.read_available_count = r,
                  !.free_index = f] \in Rings
    BY <1>1, <2>2, RingPut
  <2>. QED BY <1>1, <1>2, <2>3, RingPut
<1>4. /\ Produced(q).free_window_count = w
      /\ Produced(q).free_available_count = q.free_available_count
      /\ Produced(q).read_available_count = r
      /\ Produced(q).write_index = i
      /\ Produced(q).read_index = q.read_index
      /\ Produced(q).free_index = f
  BY <1>2 DEF Rings
<1>5. w + q.free_available_count + r = RX_BUF_QUEUE_SIZE
  BY DEF w, r
<1>. QED BY <1>3, <1>4, <1>5 DEF IsRing, Rings, w, r, f, i

(* Extracted.                                                              *)
LEMMA RingExtracted ==
    ASSUME NEW q, IsRing(q), q.read_available_count # 0, Slot(q.read_index + 1) \in Buffers
    PROVE  /\ IsRing(Extracted(q))
           /\ Extracted(q).free_window_count = q.free_window_count
           /\ Extracted(q).free_available_count = q.free_available_count + 1
           /\ Extracted(q).read_available_count = q.read_available_count - 1
           /\ Extracted(q).write_index = q.write_index
           /\ Extracted(q).read_index = Slot(q.read_index + 1)
           /\ Extracted(q).free_index = q.free_index
<1>. USE RingNumbers
<1>. DEFINE a == q.free_available_count + 1
            r == q.read_available_count - 1
            i == Slot(q.read_index + 1)
<1>1. a \in 0 .. RX_BUF_QUEUE_SIZE /\ r \in 0 .. RX_BUF_QUEUE_SIZE /\ i \in Buffers
  OBVIOUS
<1>2. Extracted(q) = [q EXCEPT !.read_available_count = r, !.free_available_count = a,
                               !.read_index = i]
  BY DEF Extracted, Rings
<1>. HIDE DEF a, r, i
<1>3. Extracted(q) \in Rings
  <2>1. [q EXCEPT !.read_available_count = r] \in Rings
    BY <1>1, RingPut
  <2>2. [q EXCEPT !.read_available_count = r, !.free_available_count = a] \in Rings
    BY <1>1, <2>1, RingPut
  <2>. QED BY <1>1, <1>2, <2>2, RingPut
<1>4. /\ Extracted(q).free_window_count = q.free_window_count
      /\ Extracted(q).free_available_count = a
      /\ Extracted(q).read_available_count = r
      /\ Extracted(q).write_index = q.write_index
      /\ Extracted(q).read_index = i
      /\ Extracted(q).free_index = q.free_index
  BY <1>2 DEF Rings
<1>5. q.free_window_count + a + r = RX_BUF_QUEUE_SIZE
  BY DEF a, r
<1>. QED BY <1>3, <1>4, <1>5 DEF IsRing, Rings, a, r, i

(* Consumed, of a buffer in use: how many buffers go back to the window    *)
(* depends on whether the oldest one and the one behind are still in use.  *)
LEMMA RingConsumed ==
    ASSUME NEW q, IsRing(q), q.free_available_count # 0, NEW b \in q.free_index
    PROVE  LET c == Consumed(q, b)
               n == IF b # OldestInUse(q) /\ OldestInUse(q) \in q.free_index THEN 0
                    ELSE IF b # Slot(b + 1) /\ Slot(b + 1) \in q.free_index THEN 1
                    ELSE q.free_available_count
           IN  /\ IsRing(c)
               /\ c.free_window_count = q.free_window_count + n
               /\ c.free_available_count = q.free_available_count - n
               /\ c.read_available_count = q.read_available_count
               /\ c.write_index = q.write_index
               /\ c.read_index = q.read_index
               /\ c.free_index = q.free_index \ {b}
<1>. USE RingNumbers
<1>. DEFINE f == q.free_index \ {b}
            n == IF b # OldestInUse(q) /\ OldestInUse(q) \in q.free_index THEN 0
                 ELSE IF b # Slot(b + 1) /\ Slot(b + 1) \in q.free_index THEN 1
                 ELSE q.free_available_count
            w == q.free_window_count + n
            a == q.free_available_count - n
            m == [q EXCEPT !.free_index = f]
            c == Consumed(q, b)
<1>1. f \in SUBSET Buffers /\ n \in 0 .. q.free_available_count
  OBVIOUS
<1>2. m \in Rings
  BY <1>1, RingPut
<1>3. m.free_index = f /\ m.free_available_count = q.free_available_count
      /\ m.free_window_count = q.free_window_count
  BY DEF Rings
<1>4. [q EXCEPT !.free_index = Toggled(@, b)] = m
  BY DEF Toggled, Rings
<1>5. n = IF OldestInUse(q) \in f THEN 0
          ELSE IF Slot(b + 1) \in f THEN 1 ELSE q.free_available_count
  OBVIOUS
<1>. HIDE DEF m, f, n
<1>6. c = [m EXCEPT !.free_available_count = a, !.free_window_count = w]
  BY <1>2, <1>3, <1>4, <1>5 DEF Consumed, Reclaimed, Rings
<1>7. a \in 0 .. RX_BUF_QUEUE_SIZE /\ w \in 0 .. RX_BUF_QUEUE_SIZE
      /\ w + a + q.read_available_count = RX_BUF_QUEUE_SIZE
  BY <1>1
<1>. HIDE DEF a, w, c
<1>8. c \in Rings
  BY <1>2, <1>6, <1>7, RingPut
<1>9. /\ c.free_window_count = w /\ c.free_available_count = a
      /\ c.read_available_count = m.read_available_count
      /\ c.write_index = m.write_index /\ c.read_index = m.read_index
      /\ c.free_index = f
  BY <1>2, <1>3, <1>6 DEF Rings
<1>10. /\ m.read_available_count = q.read_available_count
       /\ m.write_index = q.write_index /\ m.read_index = q.read_index
  BY DEF m, Rings
<1>11. IsRing(c)
  BY <1>7, <1>8, <1>9, <1>10 DEF IsRing, Rings
<1>. QED BY <1>9, <1>10, <1>11 DEF a, w, c, f, n

-----------------------------------------------------------------------------
(* The first and last of a sequence taken away, or one added.              *)
LEMMA SeqFacts ==
    ASSUME NEW T, NEW s \in Seq(T)
    PROVE  /\ Len(s) \in Nat
           /\ s # <<>> => Len(s) > 0
           /\ s # <<>> => /\ Head(s) = s[1] /\ Tail(s) \in Seq(T) /\ Len(Tail(s)) = Len(s) - 1
                          /\ \A i \in 1 .. Len(s) - 1 : Tail(s)[i] = s[i + 1]
           /\ s # <<>> => /\ SubSeq(s, 1, Len(s) - 1) \in Seq(T)
                          /\ Len(SubSeq(s, 1, Len(s) - 1)) = Len(s) - 1
                          /\ \A i \in 1 .. Len(s) - 1 : SubSeq(s, 1, Len(s) - 1)[i] = s[i]
           /\ \A e \in T : /\ Append(s, e) \in Seq(T) /\ Len(Append(s, e)) = Len(s) + 1
                           /\ \A i \in 1 .. Len(s) : Append(s, e)[i] = s[i]
                           /\ Append(s, e)[Len(s) + 1] = e
<1>1. Len(s) \in Nat
  OBVIOUS
<1>2. s # <<>> => Len(s) > 0
  OBVIOUS
<1>3. s # <<>> => /\ Head(s) = s[1] /\ Tail(s) \in Seq(T) /\ Len(Tail(s)) = Len(s) - 1
                  /\ \A i \in 1 .. Len(s) - 1 : Tail(s)[i] = s[i + 1]
  OBVIOUS
<1>4. ASSUME s # <<>>
      PROVE  /\ SubSeq(s, 1, Len(s) - 1) \in Seq(T)
             /\ Len(SubSeq(s, 1, Len(s) - 1)) = Len(s) - 1
             /\ \A i \in 1 .. Len(s) - 1 : SubSeq(s, 1, Len(s) - 1)[i] = s[i]
  <2>. DEFINE m == Len(s) - 1
  <2>1. m \in Nat /\ m \in Int /\ 1 \in Int /\ \A i \in 1 .. m : s[i] \in T
    BY <1>4
  <2>. HIDE DEF m
  <2>2. /\ SubSeq(s, 1, m) \in Seq(T)
        /\ Len(SubSeq(s, 1, m)) = IF 1 <= m THEN m - 1 + 1 ELSE 0
        /\ \A i \in 1 .. m - 1 + 1 : SubSeq(s, 1, m)[i] = s[1 + i - 1]
    BY <2>1, SubSeqProperties
  <2>3. Len(SubSeq(s, 1, m)) = m
    BY <2>1, <2>2
  <2>4. ASSUME NEW i \in 1 .. m PROVE SubSeq(s, 1, m)[i] = s[i]
    <3>1. i \in 1 .. m - 1 + 1 /\ 1 + i - 1 = i
      BY <2>1
    <3>. QED BY <2>2, <3>1
  <2>. QED BY <2>2, <2>3, <2>4 DEF m
<1>5. \A e \in T : /\ Append(s, e) \in Seq(T) /\ Len(Append(s, e)) = Len(s) + 1
                   /\ \A i \in 1 .. Len(s) : Append(s, e)[i] = s[i]
                   /\ Append(s, e)[Len(s) + 1] = e
  OBVIOUS
<1>. QED BY <1>1, <1>2, <1>3, <1>4, <1>5

(* The counters as numbers: the areas and the window fill the ring.        *)
Numbers ==
    /\ produced \in Nat /\ extracted \in Nat /\ Oldest \in Nat /\ Kept \in Nat
    /\ Available \in Nat /\ Complete \in Int /\ RX_BUF_QUEUE_SIZE \in Nat
    /\ extracted <= Complete /\ Complete <= produced
    /\ Oldest + Available = extracted
    /\ m_rx_buffer_queue.free_window_count \in Nat
    /\ m_rx_buffer_queue.free_window_count + (produced - Oldest) = RX_BUF_QUEUE_SIZE
    /\ Len(held) \in Nat
    /\ MustRefuse => held # <<>>

(* They are.                                                               *)
LEMMA Areas == ASSUME IInv PROVE Numbers
<1>1. produced \in Nat /\ extracted \in Nat /\ RX_BUF_QUEUE_SIZE \in Nat
  BY RingAssumption, PoolAssumption DEF IInv, PoolTypeOK, Packets
<1>2. /\ Available \in Nat /\ m_rx_buffer_queue.free_window_count \in Nat
      /\ m_rx_buffer_queue.free_window_count + Available + (produced - extracted)
            = RX_BUF_QUEUE_SIZE
  BY <1>1 DEF IInv, PoolTypeOK, IsRing, Counted, Available
<1>3. Len(held) \in Nat /\ (held # <<>> => Len(held) > 0)
  <2>. DEFINE T == [buffer : Buffers, packet : Packets]
  <2>1. held \in Seq(T)  BY DEF IInv, PoolTypeOK
  <2>. HIDE DEF T
  <2>. QED BY <2>1, SeqFacts
<1>4. MustRefuse => held # <<>>
  BY DEF MustRefuse
<1>5. Kept \in Nat
  BY <1>3, <1>4 DEF Kept
<1>6. Complete \in Int /\ Complete <= produced
  BY <1>1 DEF Complete
<1>7. Available <= extracted /\ extracted <= Complete
  BY DEF IInv, Counted
<1>. QED BY <1>1, <1>2, <1>3, <1>4, <1>5, <1>6, <1>7 DEF Oldest, Numbers

(* The packets in the two areas have slots of their own.                   *)
LEMMA Apart ==
    ASSUME IInv
    PROVE  /\ \A p \in Oldest + 1 .. produced : p - 1 \in Nat /\ Slot(p - 1) \in Buffers
           /\ \A p, r \in Oldest + 1 .. produced : p # r => Slot(p - 1) # Slot(r - 1)
           /\ m_rx_buffer_queue.free_window_count # 0 =>
                 \A p \in Oldest + 1 .. produced : Slot(p - 1) # Slot(produced)
<1>0. Numbers
  BY Areas
<1>. USE <1>0 DEF Numbers
<1>1. \A p \in Oldest + 1 .. produced : p - 1 \in Nat /\ Slot(p - 1) \in Buffers
  BY SlotRange
<1>2. \A p, r \in Oldest + 1 .. produced : p < r => Slot(p - 1) # Slot(r - 1)
  BY SlotApart
<1>3. \A p, r \in Oldest + 1 .. produced : p # r => Slot(p - 1) # Slot(r - 1)
  BY <1>2
<1>4. ASSUME m_rx_buffer_queue.free_window_count # 0, NEW p \in Oldest + 1 .. produced
      PROVE  Slot(p - 1) # Slot(produced)
  BY <1>4, SlotApart
<1>. QED BY <1>1, <1>3, <1>4

(* hci_mem_pool_open(): the pool is empty.                                 *)
LEMMA OpenIInv == PoolInit => IInv
<1>. SUFFICES ASSUME PoolInit PROVE IInv
  OBVIOUS
<1>1. ~MustRefuse /\ Kept = 0 /\ Available = 0 /\ Oldest = 0 /\ Complete = 0
  BY DEF PoolInit, MustRefuse, Kept, Available, Oldest, Complete, EmptyRing
<1>2. RX_BUF_QUEUE_SIZE \in Nat /\ RX_BUF_QUEUE_SIZE > 0 /\ Slot(0) = 0
  <2>1. CASE RX_BUF_QUEUE_SIZE = 2   BY <2>1 DEF Slot
  <2>2. CASE RX_BUF_QUEUE_SIZE = 4   BY <2>2 DEF Slot
  <2>3. CASE RX_BUF_QUEUE_SIZE = 8   BY <2>3 DEF Slot
  <2>4. CASE RX_BUF_QUEUE_SIZE = 16  BY <2>4 DEF Slot
  <2>5. CASE RX_BUF_QUEUE_SIZE = 32  BY <2>5 DEF Slot
  <2>. QED BY <2>1, <2>2, <2>3, <2>4, <2>5, RingAssumption
<1>3. PoolTypeOK
  BY <1>2, PoolAssumption DEF PoolInit, PoolTypeOK, IsRing, EmptyRing, Buffers, Packets
<1>4. Counted
  BY <1>1, <1>2 DEF PoolInit, Counted, EmptyRing
<1>. QED BY <1>1, <1>3, <1>4 DEF PoolInit, IInv, HeldInOrder, Reach, Marked, Written

(* What leaves ring, buffers and client alone.                             *)
LEMMA RestIInv ==
    ASSUME IInv, UNCHANGED <<m_rx_buffer_queue, rx_buffer, length, clientVars>>,
           m_is_tx_allocated' \in BOOLEAN,
           pool_err_code' \in {"NRF_SUCCESS", "NRF_ERROR_NO_MEM", "NRF_ERROR_DATA_SIZE",
                               "NRF_ERROR_INVALID_ADDR"}
    PROVE  IInv'
<1>1. /\ MustRefuse' = MustRefuse /\ Kept' = Kept /\ Available' = Available
      /\ Oldest' = Oldest /\ Complete' = Complete
  BY DEF clientVars, MustRefuse, Kept, Available, Oldest, Complete
<1>2. PoolTypeOK'
  BY DEF IInv, PoolTypeOK, clientVars
<1>3. Counted' /\ HeldInOrder' /\ Reach' /\ Marked' /\ Written'
  BY <1>1 DEF IInv, clientVars, Counted, HeldInOrder, Reach, Marked, Written, InUse
<1>. QED BY <1>2, <1>3 DEF IInv

-----------------------------------------------------------------------------
(* hci_mem_pool_rx_produce(): the new packet's slot is none of the others'.*)
LEMMA ProduceIInv == ASSUME IInv, Produce PROVE IInv'
<1>. DEFINE q == m_rx_buffer_queue
<1>0. Numbers
  BY Areas
<1>. USE <1>0 DEF Numbers
<1>1. /\ UNCHANGED <<held, refusing, extracted, length, m_is_tx_allocated>>
      /\ ~filling /\ filling' = TRUE /\ produced' = produced + 1 /\ produced < MaxPackets
      /\ q' = Produced(q) /\ q.free_window_count # 0 /\ pool_err_code' = "NRF_SUCCESS"
      /\ q.write_index = Slot(produced) /\ q.write_index \in Buffers
      /\ rx_buffer' = [rx_buffer EXCEPT ![Slot(produced)] = produced + 1]
  BY DEF Produce, WindowOpen, IInv, Counted, PoolTypeOK, IsRing
<1>2. /\ q'.free_window_count = q.free_window_count - 1
      /\ q'.read_available_count = q.read_available_count + 1
      /\ q'.free_available_count = q.free_available_count
      /\ q'.free_index = q.free_index \cup {Slot(produced)}
      /\ q'.write_index = Slot(produced + 1)
      /\ q'.read_index = q.read_index
      /\ IsRing(q')
  <2>1. Slot(q.write_index + 1) = Slot(produced + 1) /\ Slot(produced + 1) \in Buffers
    BY <1>1, SlotAfter, SlotRange
  <2>2. IsRing(q) /\ WindowOpen(q)
    BY <1>1 DEF IInv, PoolTypeOK, WindowOpen
  <2>. QED BY <1>1, <2>1, <2>2, RingProduced
<1>3. /\ MustRefuse' = MustRefuse /\ Kept' = Kept /\ Available' = Available
      /\ Oldest' = Oldest /\ Complete' = produced /\ Complete = produced
  BY <1>1, <1>2 DEF MustRefuse, Kept, Available, Oldest, Complete
<1>4. PoolTypeOK'
  <2>1. produced' \in Packets /\ extracted' \in 0 .. produced'
    BY <1>1, PoolAssumption DEF Packets
  <2>2. rx_buffer' \in [Buffers -> Packets]
    BY <1>1, <2>1 DEF IInv, PoolTypeOK
  <2>. QED BY <1>1, <1>2, <2>1, <2>2 DEF IInv, PoolTypeOK
<1>5. Counted'
  BY <1>1, <1>2, <1>3 DEF IInv, Counted
<1>6. HeldInOrder' /\ Reach'
  BY <1>1, <1>3 DEF IInv, HeldInOrder, Reach
<1>7. Marked'
  <2>. SUFFICES ASSUME NEW p \in Oldest + 1 .. produced + 1
                PROVE  Slot(p - 1) \in q'.free_index <=> InUse(p)'
    BY <1>1, <1>3 DEF Marked
  <2>1. InUse(p)' <=> InUse(p)
    BY <1>1, <1>3 DEF InUse
  <2>2. CASE p = produced + 1
    BY <2>1, <2>2, <1>2 DEF InUse
  <2>3. CASE p \in Oldest + 1 .. produced
    BY <2>1, <2>3, <1>1, <1>2, Apart DEF IInv, Marked
  <2>. QED BY <2>2, <2>3
<1>8. Written'
  <2>1. ASSUME NEW p \in Oldest + 1 .. produced + 1 PROVE rx_buffer'[Slot(p - 1)] = p
    <3>1. CASE p = produced + 1
      BY <3>1, <1>1 DEF IInv, PoolTypeOK
    <3>2. CASE p \in Oldest + 1 .. produced
      BY <3>2, <1>1, Apart DEF IInv, PoolTypeOK, Written
    <3>. QED BY <3>1, <3>2
  <2>. QED BY <2>1, <1>1, <1>3 DEF IInv, Written
<1>. QED BY <1>4, <1>5, <1>6, <1>7, <1>8 DEF IInv

(* hci_mem_pool_rx_data_size_set(): the slot is that of the last packet.   *)
LEMMA DataSizeSetIInv == ASSUME IInv, DataSizeSet PROVE IInv'
<1>0. Numbers
  BY Areas
<1>. USE <1>0 DEF Numbers
<1>1. /\ UNCHANGED <<m_rx_buffer_queue, held, refusing, extracted, produced, rx_buffer,
                     m_is_tx_allocated>>
      /\ filling /\ filling' = FALSE /\ pool_err_code' = "NRF_SUCCESS"
  BY DEF DataSizeSet
<1>2. /\ MustRefuse' = MustRefuse /\ Kept' = Kept /\ Available' = Available
      /\ Oldest' = Oldest /\ Complete' = produced /\ Complete = produced - 1
  BY <1>1 DEF MustRefuse, Kept, Available, Oldest, Complete
<1>3. Slot(m_rx_buffer_queue.write_index - 1 + RX_BUF_QUEUE_SIZE) = Slot(produced - 1)
  <2>1. 1 \in 0 .. produced
    BY <1>2
  <2>. QED BY <2>1, SlotBefore DEF IInv, Counted
<1>4. length' = [length EXCEPT ![Slot(produced - 1)] = produced]
  BY <1>3 DEF DataSizeSet
<1>5. PoolTypeOK'
  BY <1>1, <1>4 DEF IInv, PoolTypeOK
<1>6. Counted' /\ HeldInOrder' /\ Reach' /\ Marked'
  <2>1. Counted'
    BY <1>1, <1>2 DEF IInv, Counted
  <2>2. HeldInOrder' /\ Reach'
    BY <1>1, <1>2 DEF IInv, HeldInOrder, Reach
  <2>3. Marked'
    BY <1>1, <1>2 DEF IInv, Marked, InUse
  <2>. QED BY <2>1, <2>2, <2>3
<1>7. Written'
  <2>1. ASSUME NEW p \in Oldest + 1 .. produced PROVE length'[Slot(p - 1)] = p
    <3>1. Slot(p - 1) \in Buffers
      BY Apart
    <3>2. CASE p = produced
      BY <3>1, <3>2, <1>4 DEF IInv, PoolTypeOK
    <3>3. CASE p # produced
      <4>1. produced \in Oldest + 1 .. produced
        OBVIOUS
      <4>2. Slot(p - 1) # Slot(produced - 1)
        BY <3>3, <4>1, Apart
      <4>. QED BY <3>1, <3>3, <4>2, <1>2, <1>4 DEF IInv, PoolTypeOK, Written
    <3>. QED BY <3>2, <3>3
  <2>. QED BY <2>1, <1>1, <1>2 DEF IInv, Written
<1>. QED BY <1>5, <1>6, <1>7 DEF IInv

(* hci_mem_pool_rx_extract(): the packet goes to the end of what is held,  *)
(* and must be refused when an earlier one was.                            *)
LEMMA ExtractIInv == ASSUME IInv, Extract PROVE IInv'
<1>. DEFINE q == m_rx_buffer_queue
            n == Len(held)
            e == [buffer |-> Slot(extracted), packet |-> extracted + 1]
<1>0. Numbers
  BY Areas
<1>. USE <1>0 DEF Numbers
<1>1. /\ UNCHANGED <<rx_buffer, length, m_is_tx_allocated, filling, refusing, produced>>
      /\ ~MustRefuse /\ extracted' = extracted + 1 /\ pool_err_code' = "NRF_SUCCESS"
      /\ q' = Extracted(q) /\ IsRing(q)
      /\ q.read_available_count > (IF filling THEN 1 ELSE 0)
      /\ q.read_index = Slot(extracted) /\ q.read_available_count = produced - extracted
      /\ held' = Append(held, e)
  BY DEF Extract, IInv, Counted, PoolTypeOK
<1>2. Complete' = Complete /\ extracted + 1 <= Complete
  BY <1>1 DEF Complete
<1>3. /\ IsRing(q')
      /\ q'.free_window_count = q.free_window_count
      /\ q'.free_available_count = q.free_available_count + 1
      /\ q'.read_available_count = q.read_available_count - 1
      /\ q'.write_index = q.write_index
      /\ q'.read_index = Slot(extracted + 1)
      /\ q'.free_index = q.free_index
  <2>1. Slot(q.read_index + 1) = Slot(extracted + 1) /\ Slot(extracted + 1) \in Buffers
    BY <1>1, SlotAfter, SlotRange
  <2>2. q.read_available_count # 0
    BY <1>1
  <2>. QED BY <1>1, <2>1, <2>2, RingExtracted
<1>4. extracted + 1 \in Packets /\ e \in [buffer : Buffers, packet : Packets]
  <2>1. extracted + 1 \in Packets
    BY <1>2, PoolAssumption DEF IInv, PoolTypeOK, Packets
  <2>2. Slot(extracted) \in Buffers
    BY SlotRange
  <2>. QED BY <2>1, <2>2
<1>5. /\ held' \in Seq([buffer : Buffers, packet : Packets]) /\ Len(held') = n + 1
      /\ \A i \in 1 .. n : held'[i] = held[i]
      /\ held'[n + 1] = e
  <2>. DEFINE T == [buffer : Buffers, packet : Packets]
  <2>1. held \in Seq(T) /\ e \in T
    BY <1>4 DEF IInv, PoolTypeOK
  <2>. HIDE DEF T, e
  <2>2. /\ held' \in Seq(T) /\ Len(held') = n + 1
        /\ \A i \in 1 .. n : held'[i] = held[i]
        /\ held'[n + 1] = e
    BY <1>1, <2>1, SeqFacts
  <2>. QED BY <2>2 DEF T
<1>6. Available' = Available + 1 /\ Oldest' = Oldest
  <2>1. Available' = Available + 1
    BY <1>3 DEF Available
  <2>2. extracted' = extracted + 1
    BY <1>1
  <2>. QED BY <2>1, <2>2 DEF Oldest
<1>7. Kept = n /\ (~refusing => Available = n) /\ n <= Available /\ (n = 0 => Available = 0)
  BY <1>1 DEF Kept, IInv, Reach
<1>8. /\ refusing => MustRefuse' /\ Kept' = n
      /\ ~refusing => ~MustRefuse' /\ Kept' = n + 1
  <2>1. held' # <<>>
    BY <1>5
  <2>2. held'[Len(held')].packet = extracted'
    <3>1. held'[Len(held')] = e /\ extracted' = extracted + 1
      BY <1>1, <1>5
    <3>. QED BY <3>1
  <2>3. refusing' = refusing
    BY <1>1
  <2>. QED BY <2>1, <2>2, <2>3, <1>5 DEF Kept, MustRefuse
<1>9. PoolTypeOK'
  <2>1. extracted' \in 0 .. produced'
    BY <1>1, <1>2
  <2>. QED BY <1>1, <1>3, <1>5, <2>1 DEF IInv, PoolTypeOK
<1>10. Counted'
  <2>1. Available' <= extracted'
    BY <1>1, <1>6
  <2>2. extracted' <= Complete'
    BY <1>1, <1>2
  <2>3. q'.read_available_count = produced' - extracted'
    BY <1>1, <1>3
  <2>4. q'.write_index = Slot(produced')
    BY <1>1, <1>3 DEF IInv, Counted
  <2>5. q'.read_index = Slot(extracted')
    BY <1>1, <1>3
  <2>. QED BY <2>1, <2>2, <2>3, <2>4, <2>5 DEF Counted
<1>11. HeldInOrder'
  <2>1. ASSUME NEW i \in 1 .. Kept'
        PROVE  held'[i] = [buffer |-> Slot(Oldest + i - 1), packet |-> Oldest + i]
    <3>1. CASE i \in 1 .. n
      BY <3>1, <1>5, <1>7 DEF IInv, HeldInOrder
    <3>2. CASE i \notin 1 .. n
      <4>1. ~refusing /\ i = n + 1
        BY <3>2, <1>8
      <4>2. Oldest + i = extracted + 1 /\ Oldest + i - 1 = extracted
        BY <4>1, <1>7
      <4>. QED BY <4>1, <4>2, <1>5
    <3>. QED BY <3>1, <3>2
  <2>2. MustRefuse' =>
            held'[Len(held')] = [buffer |-> Slot(extracted' - 1), packet |-> extracted']
    <3>1. extracted' - 1 = extracted
      BY <1>1
    <3>. QED BY <3>1, <1>1, <1>5
  <2>. QED BY <2>1, <2>2, <1>6 DEF HeldInOrder
<1>12. Reach'
  <2>1. Len(held') = n + 1 /\ refusing' = refusing
    BY <1>1, <1>5
  <2>2. CASE refusing
    BY <2>1, <2>2, <1>6, <1>7, <1>8 DEF Reach
  <2>3. CASE ~refusing
    BY <2>1, <2>3, <1>6, <1>7, <1>8 DEF Reach
  <2>. QED BY <2>2, <2>3
<1>13. Marked'
  <2>1. ASSUME NEW p \in Oldest + 1 .. produced PROVE InUse(p)' <=> InUse(p)
    <3>1. CASE refusing
      <4>1. InUse(p)' <=> p <= Oldest + n \/ p = extracted + 1 \/ extracted + 1 < p
        BY <3>1, <1>1, <1>6, <1>8 DEF InUse
      <4>2. InUse(p) <=> p <= Oldest + n \/ extracted < p
        BY <1>1, <1>7 DEF InUse
      <4>. QED BY <4>1, <4>2
    <3>2. CASE ~refusing
      <4>1. InUse(p)
        BY <3>2, <1>7 DEF InUse
      <4>2. InUse(p)'
        BY <3>2, <1>1, <1>6, <1>7, <1>8 DEF InUse
      <4>. QED BY <4>1, <4>2
    <3>. QED BY <3>1, <3>2
  <2>. QED BY <2>1, <1>1, <1>3, <1>6 DEF IInv, Marked
<1>14. Written'
  BY <1>1, <1>2, <1>6 DEF IInv, Written
<1>. QED BY <1>9, <1>10, <1>11, <1>12, <1>13, <1>14 DEF IInv

-----------------------------------------------------------------------------
(* hci_mem_pool_rx_consume() of a buffer the client holds finds it, and    *)
(* frees it.                                                               *)
LEMMA ConsumeFinds ==
    ASSUME IInv, NEW p \in Oldest + 1 .. extracted, InUse(p), Consume(Slot(p - 1))
    PROVE  LET q == m_rx_buffer_queue
               n == IF p # Oldest + 1 /\ InUse(Oldest + 1) THEN 0
                    ELSE IF Slot(p) \in q.free_index THEN 1
                    ELSE Available
           IN  /\ pool_err_code' = "NRF_SUCCESS"
               /\ IsRing(q')
               /\ q'.free_window_count = q.free_window_count + n
               /\ q'.free_available_count = q.free_available_count - n
               /\ q'.read_available_count = q.read_available_count
               /\ q'.write_index = q.write_index
               /\ q'.read_index = q.read_index
               /\ q'.free_index = q.free_index \ {Slot(p - 1)}
<1>. DEFINE q == m_rx_buffer_queue
            b == Slot(p - 1)
<1>0. Numbers
  BY Areas
<1>. USE <1>0 DEF Numbers
<1>1. IsRing(q) /\ q.free_available_count = Available /\ Available # 0
      /\ q.read_index = Slot(extracted)
  BY DEF IInv, PoolTypeOK, Counted, Available
<1>2. OldestInUse(q) = Slot(Oldest)
  <2>1. Available \in 0 .. extracted /\ extracted - Available = Oldest
    OBVIOUS
  <2>. QED BY <2>1, <1>1, SlotBefore DEF OldestInUse
<1>3. IsExtracted(q, b)
  <2>. DEFINE i == p - 1 - Oldest
  <2>1. i \in 0 .. Available - 1 /\ i \in Nat /\ Oldest + i = p - 1
    OBVIOUS
  <2>2. Slot(Slot(Oldest) + i) = Slot(Oldest + i)
    BY <2>1, SlotAfter
  <2>3. b = Slot(Slot(Oldest) + i)
    BY <2>1, <2>2
  <2>. HIDE DEF i, b
  <2>. QED BY <2>1, <2>3, <1>1, <1>2 DEF IsExtracted
<1>4. b \in q.free_index
  <2>1. p \in Oldest + 1 .. produced
    OBVIOUS
  <2>. QED BY <2>1 DEF IInv, Marked
<1>5. pool_err_code' = "NRF_SUCCESS" /\ q' = Consumed(q, b)
  BY <1>1, <1>3 DEF Consume
<1>6. Slot(b + 1) = Slot(p) /\ b # Slot(p)
  <2>1. p - 1 \in Nat /\ p \in Nat /\ p - 1 < p /\ p - (p - 1) < RX_BUF_QUEUE_SIZE
    BY RingAssumption
  <2>2. Slot(b + 1) = Slot(p - 1 + 1)
    BY <2>1, SlotAfter
  <2>3. p - 1 + 1 = p
    OBVIOUS
  <2>. QED BY <2>1, <2>2, <2>3, SlotApart
<1>7. b # Slot(Oldest) /\ Slot(Oldest) \in q.free_index <=> p # Oldest + 1 /\ InUse(Oldest + 1)
  <2>1. p \in Oldest + 1 .. produced /\ Oldest + 1 \in Oldest + 1 .. produced
        /\ Oldest + 1 - 1 = Oldest
    OBVIOUS
  <2>2. b # Slot(Oldest) <=> p # Oldest + 1
    <3>1. CASE p = Oldest + 1
      BY <3>1
    <3>2. CASE p # Oldest + 1
      <4>1. Oldest < p - 1 /\ (p - 1) - Oldest < RX_BUF_QUEUE_SIZE /\ p - 1 \in Nat
        BY <3>2
      <4>. QED BY <3>2, <4>1, SlotApart
    <3>. QED BY <3>1, <3>2
  <2>3. Slot(Oldest) \in q.free_index <=> InUse(Oldest + 1)
    BY <2>1 DEF IInv, Marked
  <2>. QED BY <2>2, <2>3
<1>. HIDE DEF b
<1>. QED BY <1>1, <1>2, <1>4, <1>5, <1>6, <1>7, RingConsumed DEF b

(* Packets leave the pool: what stays in use keeps its place, and the      *)
(* areas move by k packets, of which none stays in use.                    *)
LEMMA LeaveIInv ==
    ASSUME IInv, NEW p \in Oldest + 1 .. extracted, NEW k \in 0 .. Available,
           UNCHANGED <<rx_buffer, length, m_is_tx_allocated, filling, produced, extracted>>,
           pool_err_code' = "NRF_SUCCESS", refusing' \in BOOLEAN,
           held' \in Seq([buffer : Buffers, packet : Packets]),
           IsRing(m_rx_buffer_queue'),
           Available' = Available - k,
           m_rx_buffer_queue'.read_available_count = m_rx_buffer_queue.read_available_count,
           m_rx_buffer_queue'.write_index = m_rx_buffer_queue.write_index,
           m_rx_buffer_queue'.read_index = m_rx_buffer_queue.read_index,
           m_rx_buffer_queue'.free_index = m_rx_buffer_queue.free_index \ {Slot(p - 1)},
           \A r \in Oldest + 1 + k .. produced : InUse(r)' <=> (r # p /\ InUse(r))
    PROVE  /\ Oldest' = Oldest + k
           /\ PoolTypeOK' /\ Counted' /\ Marked' /\ Written'
<1>. DEFINE q == m_rx_buffer_queue
<1>0. Numbers
  BY Areas
<1>. USE <1>0 DEF Numbers
<1>1. Oldest' = Oldest + k
  <2>1. extracted' = extracted /\ Available' = Available - k
    OBVIOUS
  <2>. QED BY <2>1 DEF Oldest
<1>2. PoolTypeOK'
  <2>1. /\ rx_buffer \in [Buffers -> Packets] /\ length \in [Buffers -> Packets]
        /\ m_is_tx_allocated \in BOOLEAN /\ filling \in BOOLEAN
        /\ produced \in Packets /\ extracted \in 0 .. produced
    BY DEF IInv, PoolTypeOK
  <2>. QED BY <2>1 DEF PoolTypeOK
<1>3. Complete' = Complete
  BY DEF Complete
<1>4. Counted'
  <2>1. Available' <= extracted'
    OBVIOUS
  <2>. QED BY <1>3, <2>1 DEF IInv, Counted
<1>5. Marked'
  <2>1. ASSUME NEW r \in Oldest + 1 + k .. produced
        PROVE  Slot(r - 1) \in q'.free_index <=> InUse(r)'
    <3>1. r \in Oldest + 1 .. produced /\ p \in Oldest + 1 .. produced
      OBVIOUS
    <3>2. Slot(r - 1) = Slot(p - 1) <=> r = p
      BY <3>1, Apart
    <3>3. Slot(r - 1) \in q.free_index <=> InUse(r)
      BY <3>1 DEF IInv, Marked
    <3>. QED BY <3>2, <3>3
  <2>2. Oldest' + 1 = Oldest + 1 + k
    BY <1>1
  <2>. QED BY <2>1, <2>2 DEF Marked
<1>6. Written'
  <2>1. \A r \in Oldest + k + 1 .. produced : r \in Oldest + 1 .. produced
    OBVIOUS
  <2>2. \A r \in Oldest + k + 1 .. Complete : r \in Oldest + 1 .. Complete
    OBVIOUS
  <2>. QED BY <2>1, <2>2, <1>1, <1>3 DEF IInv, Written
<1>. QED BY <1>1, <1>2, <1>4, <1>5, <1>6

(* A flash operation has finished: the oldest packet leaves, and with the  *)
(* last one held all that were refused behind it.                          *)
LEMMA ConsumeOldestIInv == ASSUME IInv, ConsumeOldest PROVE IInv'
<1>. DEFINE q == m_rx_buffer_queue
            n == Len(held)
            T == [buffer : Buffers, packet : Packets]
            p == Oldest + 1
            k == IF n = 1 THEN Available ELSE 1
<1>0. Numbers
  BY Areas
<1>. USE <1>0 DEF Numbers
<1>1. /\ UNCHANGED <<rx_buffer, length, m_is_tx_allocated, filling, refusing, produced,
                     extracted>>
      /\ ~MustRefuse /\ held # <<>> /\ Consume(Head(held).buffer) /\ held' = Tail(held)
  BY DEF ConsumeOldest
<1>2. held \in Seq(T) /\ refusing \in BOOLEAN
  BY DEF IInv, PoolTypeOK
<1>. HIDE DEF T
<1>3. /\ n > 0 /\ Head(held) = held[1] /\ held' \in Seq(T) /\ Len(held') = n - 1
      /\ \A i \in 1 .. n - 1 : held'[i] = held[i + 1]
  BY <1>1, <1>2, SeqFacts
<1>4. /\ Kept = n /\ (~refusing => Available = n) /\ n <= Available
      /\ \A i \in 1 .. n : held[i] = [buffer |-> Slot(Oldest + i - 1), packet |-> Oldest + i]
  BY <1>1 DEF Kept, IInv, Reach, HeldInOrder
<1>5. Head(held).buffer = Slot(p - 1)
  <2>1. 1 \in 1 .. n
    BY <1>3
  <2>2. held[1] = [buffer |-> Slot(Oldest + 1 - 1), packet |-> Oldest + 1]
    BY <2>1, <1>4
  <2>. QED BY <2>2, <1>3
<1>6. p \in Oldest + 1 .. extracted /\ InUse(p)
  BY <1>3, <1>4 DEF InUse
<1>7. k \in 0 .. Available
  BY <1>3, <1>4
<1>8. (IF Slot(p) \in q.free_index THEN 1 ELSE Available) = k
  <2>1. CASE Available = 1
    BY <2>1
  <2>2. CASE Available # 1
    <3>1. p + 1 \in Oldest + 1 .. produced /\ p + 1 - 1 = p
      BY <2>2, <1>3, <1>4
    <3>2. Slot(p) \in q.free_index <=> InUse(p + 1)
      BY <3>1 DEF IInv, Marked
    <3>3. InUse(p + 1) <=> n # 1
      <4>1. InUse(p + 1) <=> Oldest + 2 <= Oldest + n \/ extracted < Oldest + 2
        BY <1>1, <1>4 DEF InUse
      <4>2. Available >= 2
        BY <2>2, <1>3, <1>4
      <4>3. n \in Nat /\ n > 0 /\ Oldest + Available = extracted
        BY <1>3
      <4>. HIDE DEF n
      <4>. QED BY <4>1, <4>2, <4>3
    <3>. QED BY <3>2, <3>3
  <2>. QED BY <2>1, <2>2
<1>9. /\ pool_err_code' = "NRF_SUCCESS" /\ IsRing(q')
      /\ q'.free_available_count = q.free_available_count - k
      /\ q'.read_available_count = q.read_available_count
      /\ q'.write_index = q.write_index /\ q'.read_index = q.read_index
      /\ q'.free_index = q.free_index \ {Slot(p - 1)}
  <2>1. Consume(Slot(p - 1))
    BY <1>1, <1>5
  <2>. HIDE DEF p, k
  <2>2. p = Oldest + 1
    BY DEF p
  <2>. QED BY <2>1, <2>2, <1>6, <1>8, ConsumeFinds
<1>10. Available' = Available - k
  BY <1>9 DEF Available
<1>11. ~MustRefuse' /\ Kept' = n - 1
  <2>1. ASSUME MustRefuse' PROVE FALSE
    <3>1. refusing /\ held' # <<>> /\ held'[Len(held')].packet = extracted
      BY <2>1, <1>1 DEF MustRefuse
    <3>2. n - 1 > 0
      BY <3>1, <1>3
    <3>3. held[n].packet = extracted
      <4>1. n - 1 \in 1 .. n - 1 /\ n - 1 + 1 = n
        BY <3>2
      <4>2. held'[n - 1] = held[n - 1 + 1]
        BY <4>1, <1>3
      <4>. QED BY <3>1, <4>1, <4>2, <1>3
    <3>. QED BY <3>1, <3>3, <1>1 DEF MustRefuse
  <2>. QED BY <2>1, <1>3 DEF Kept
<1>12. \A r \in Oldest + 1 + k .. produced : InUse(r)' <=> (r # p /\ InUse(r))
  <2>. SUFFICES ASSUME NEW r \in Oldest + 1 + k .. produced
                PROVE  InUse(r)' <=> (r # p /\ InUse(r))
    OBVIOUS
  <2>1. Oldest' = Oldest + k
    BY <1>1, <1>10 DEF Oldest
  <2>2. InUse(r) <=> r <= Oldest + n \/ extracted < r
    BY <1>1, <1>4 DEF InUse
  <2>3. InUse(r)' <=> r <= Oldest + k + (n - 1) \/ extracted < r
    BY <2>1, <1>1, <1>11 DEF InUse
  <2>4. r # p
    BY <1>3, <1>4
  <2>5. CASE n = 1
    BY <2>2, <2>3, <2>4, <2>5
  <2>6. CASE n # 1
    BY <2>2, <2>3, <2>4, <2>6
  <2>. QED BY <2>5, <2>6
<1>. HIDE DEF k, p
<1>13. Oldest' = Oldest + k /\ PoolTypeOK' /\ Counted' /\ Marked' /\ Written'
  BY <1>1, <1>2, <1>3, <1>6, <1>7, <1>9, <1>10, <1>12, LeaveIInv DEF T
<1>14. n \in Nat /\ n > 0 /\ Oldest \in Nat /\ Available \in Nat /\ n <= Available
  BY <1>3, <1>4
<1>15. Len(held') = n - 1 /\ \A i \in 1 .. n - 1 : held'[i] = held[i + 1]
  BY <1>3
<1>16. /\ \A i \in 1 .. n : held[i] = [buffer |-> Slot(Oldest + i - 1), packet |-> Oldest + i]
       /\ ~refusing => Available = n
  BY <1>4
<1>. HIDE DEF n
<1>17. HeldInOrder'
  <2>1. ASSUME NEW i \in 1 .. n - 1
        PROVE  held'[i] = [buffer |-> Slot(Oldest' + i - 1), packet |-> Oldest' + i]
    <3>1. n # 1 /\ i + 1 \in 1 .. n /\ i \in Nat
      BY <1>14
    <3>2. Oldest' = Oldest + 1
      BY <3>1, <1>13 DEF k
    <3>3. Oldest + (i + 1) - 1 = Oldest' + i - 1 /\ Oldest + (i + 1) = Oldest' + i
      BY <3>1, <3>2, <1>14
    <3>4. held'[i] = [buffer |-> Slot(Oldest + (i + 1) - 1), packet |-> Oldest + (i + 1)]
      BY <3>1, <1>15, <1>16
    <3>. QED BY <3>3, <3>4
  <2>. QED BY <2>1, <1>11 DEF HeldInOrder
<1>18. Reach'
  <2>1. CASE n = 1
    BY <2>1, <1>1, <1>10, <1>11, <1>14, <1>15, <1>16 DEF Reach, k
  <2>2. CASE n # 1
    BY <2>2, <1>1, <1>10, <1>11, <1>14, <1>15, <1>16 DEF Reach, k
  <2>. QED BY <2>1, <2>2
<1>. QED BY <1>13, <1>17, <1>18 DEF IInv

(* A packet is refused: the one extracted last leaves, before any other.   *)
LEMMA RefuseNewestIInv == ASSUME IInv, RefuseNewest PROVE IInv'
<1>. DEFINE q == m_rx_buffer_queue
            n == Len(held)
            g == n - 1
            T == [buffer : Buffers, packet : Packets]
            p == extracted
            k == IF g = 0 THEN 1 ELSE 0
<1>0. Numbers
  BY Areas
<1>. USE <1>0 DEF Numbers
<1>1. /\ UNCHANGED <<rx_buffer, length, m_is_tx_allocated, filling, produced, extracted>>
      /\ held # <<>> /\ held[n].packet = extracted /\ Consume(held[n].buffer)
      /\ held' = SubSeq(held, 1, n - 1) /\ refusing' = TRUE
  BY DEF RefuseNewest
<1>2. held \in Seq(T) /\ refusing \in BOOLEAN
  BY DEF IInv, PoolTypeOK
<1>. HIDE DEF T
<1>3. n > 0 /\ held' \in Seq(T) /\ Len(held') = g /\ \A i \in 1 .. g : held'[i] = held[i]
  BY <1>1, <1>2, SeqFacts
<1>4. /\ n \in Nat /\ g \in Nat /\ Oldest \in Nat /\ Available \in Nat
      /\ Oldest + Available = extracted /\ extracted \in Nat /\ produced \in Nat
      /\ extracted <= produced
  BY <1>3
<1>5. MustRefuse => /\ refusing /\ Kept = g /\ g + 1 <= Available /\ (g = 0 => Available = 1)
                    /\ held[n] = [buffer |-> Slot(extracted - 1), packet |-> extracted]
  BY <1>1, <1>3 DEF Kept, IInv, Reach, HeldInOrder, MustRefuse
<1>6. \A i \in 1 .. Kept : held[i] = [buffer |-> Slot(Oldest + i - 1), packet |-> Oldest + i]
  BY DEF IInv, HeldInOrder
<1>7. ~MustRefuse => /\ Kept = n /\ Available = n /\ extracted = Oldest + n
                     /\ held[n] = [buffer |-> Slot(extracted - 1), packet |-> extracted]
  <2>. SUFFICES ASSUME ~MustRefuse
                PROVE  /\ Kept = n /\ Available = n /\ extracted = Oldest + n
                       /\ held[n] = [buffer |-> Slot(extracted - 1), packet |-> extracted]
    OBVIOUS
  <2>1. ~refusing /\ Kept = n
    BY <1>1 DEF MustRefuse, Kept
  <2>2. Available = n
    BY <2>1 DEF IInv, Reach
  <2>3. extracted = Oldest + n
    BY <2>2, <1>4
  <2>. HIDE DEF n, g
  <2>4. n \in 1 .. Kept
    BY <2>1, <1>3, <1>4
  <2>5. held[n] = [buffer |-> Slot(Oldest + n - 1), packet |-> Oldest + n]
    BY <2>4, <1>6
  <2>. QED BY <2>1, <2>2, <2>3, <2>5
<1>8. held[n].buffer = Slot(p - 1) /\ g + 1 <= Available /\ (g = 0 => Available = 1)
      /\ g <= Kept
  <2>1. CASE MustRefuse
    BY <2>1, <1>4, <1>5
  <2>2. CASE ~MustRefuse
    BY <2>2, <1>4, <1>7
  <2>. QED BY <2>1, <2>2
<1>. HIDE DEF g
<1>9. p \in Oldest + 1 .. extracted /\ InUse(p)
  <2>1. p \in Oldest + 1 .. extracted
    BY <1>4, <1>8
  <2>2. InUse(p)
    <3>1. CASE MustRefuse
      BY <3>1 DEF InUse
    <3>2. CASE ~MustRefuse
      BY <3>2, <1>4, <1>7 DEF InUse
    <3>. QED BY <3>1, <3>2
  <2>. QED BY <2>1, <2>2
<1>10. k \in 0 .. Available
  BY <1>4, <1>8
<1>11. (IF p # Oldest + 1 /\ InUse(Oldest + 1) THEN 0
        ELSE IF Slot(p) \in q.free_index THEN 1 ELSE Available) = k
  <2>1. CASE g = 0
    <3>1. Available = 1 /\ p = Oldest + 1
      BY <2>1, <1>4, <1>8
    <3>. QED BY <2>1, <3>1
  <2>2. CASE g # 0
    <3>1. p # Oldest + 1 /\ 1 <= Kept
      BY <2>2, <1>4, <1>8
    <3>2. InUse(Oldest + 1)
      BY <3>1, <1>4 DEF InUse
    <3>. QED BY <2>2, <3>1, <3>2
  <2>. QED BY <2>1, <2>2
<1>12. /\ pool_err_code' = "NRF_SUCCESS" /\ IsRing(q')
       /\ q'.free_available_count = q.free_available_count - k
       /\ q'.read_available_count = q.read_available_count
       /\ q'.write_index = q.write_index /\ q'.read_index = q.read_index
       /\ q'.free_index = q.free_index \ {Slot(p - 1)}
  <2>1. Consume(Slot(p - 1))
    BY <1>1, <1>8
  <2>. HIDE DEF p, k
  <2>. QED BY <2>1, <1>9, <1>11, ConsumeFinds
<1>13. Available' = Available - k
  BY <1>12 DEF Available
<1>14. Oldest' = Oldest + k
  BY <1>1, <1>4, <1>8, <1>13 DEF Oldest
<1>15. ~MustRefuse' /\ Kept' = g
  <2>1. ASSUME MustRefuse' PROVE FALSE
    <3>1. held' # <<>> /\ held'[Len(held')].packet = extracted
      BY <2>1, <1>1 DEF MustRefuse
    <3>2. g \in 1 .. Kept /\ g \in 1 .. g
      BY <3>1, <1>3, <1>4, <1>8
    <3>3. held[g].packet = extracted
      BY <3>1, <3>2, <1>3
    <3>4. held[g].packet = Oldest + g
      <4>1. held[g] = [buffer |-> Slot(Oldest + g - 1), packet |-> Oldest + g]
        BY <3>2, <1>6
      <4>. QED BY <4>1
    <3>. QED BY <3>3, <3>4, <1>4, <1>8
  <2>. QED BY <2>1, <1>3 DEF Kept
<1>16. \A r \in Oldest + 1 + k .. produced : InUse(r)' <=> (r # p /\ InUse(r))
  <2>. SUFFICES ASSUME NEW r \in Oldest + 1 + k .. produced
                PROVE  InUse(r)' <=> (r # p /\ InUse(r))
    OBVIOUS
  <2>0. r \in Int /\ r >= Oldest + 1 + k
    BY <1>4
  <2>1. InUse(r)' <=> r <= Oldest + k + g \/ extracted < r
    BY <1>1, <1>14, <1>15 DEF InUse
  <2>2. CASE g = 0
    <3>1. extracted < r /\ r # p
      BY <2>0, <2>2, <1>4, <1>8
    <3>. QED BY <2>1, <3>1 DEF InUse
  <2>3. CASE g # 0 /\ MustRefuse
    <3>1. InUse(r) <=> r <= Oldest + g \/ r = extracted \/ extracted < r
      BY <2>3, <1>5 DEF InUse
    <3>. QED BY <2>0, <2>1, <2>3, <3>1, <1>4, <1>8
  <2>4. CASE g # 0 /\ ~MustRefuse
    <3>1. InUse(r) <=> r <= Oldest + n \/ extracted < r
      BY <2>4, <1>7 DEF InUse
    <3>. QED BY <2>0, <2>1, <2>4, <3>1, <1>4, <1>7 DEF g
  <2>. QED BY <2>2, <2>3, <2>4
<1>17. HeldInOrder'
  <2>1. ASSUME NEW i \in 1 .. g
        PROVE  held'[i] = [buffer |-> Slot(Oldest' + i - 1), packet |-> Oldest' + i]
    <3>1. i \in 1 .. Kept /\ Oldest' = Oldest
      BY <1>4, <1>8, <1>14
    <3>. QED BY <3>1, <1>3, <1>6
  <2>. QED BY <2>1, <1>15 DEF HeldInOrder
<1>18. Reach'
  <2>1. refusing' = TRUE /\ Len(held') = g
    BY <1>1, <1>3
  <2>. QED BY <2>1, <1>4, <1>8, <1>13, <1>15 DEF Reach
<1>. HIDE DEF k, p
<1>19. PoolTypeOK' /\ Counted' /\ Marked' /\ Written'
  BY <1>1, <1>3, <1>9, <1>10, <1>12, <1>13, <1>16, LeaveIInv DEF T
<1>. QED BY <1>17, <1>18, <1>19 DEF IInv

-----------------------------------------------------------------------------
(* The invariant holds in every state of the pool.                         *)
THEOREM PoolInvariant == PoolSpec => []IInv
<1>1. IInv /\ [PoolNext]_poolVars => IInv'
  <2>. SUFFICES ASSUME IInv, [PoolNext]_poolVars PROVE IInv'
    OBVIOUS
  <2>1. CASE TxAlloc
    BY <2>1, RestIInv DEF TxAlloc
  <2>2. CASE TxFree
    BY <2>2, RestIInv DEF TxFree
  <2>3. CASE Produce
    BY <2>3, ProduceIInv
  <2>4. CASE ProduceFails
    BY <2>4, RestIInv DEF ProduceFails, IInv, PoolTypeOK
  <2>5. CASE DataSizeSet
    BY <2>5, DataSizeSetIInv
  <2>6. CASE Extract
    BY <2>6, ExtractIInv
  <2>7. CASE ExtractFails
    BY <2>7, RestIInv DEF ExtractFails, IInv, PoolTypeOK
  <2>8. CASE ConsumeOldest
    BY <2>8, ConsumeOldestIInv
  <2>9. CASE RefuseNewest
    BY <2>9, RefuseNewestIInv
  <2>10. CASE UNCHANGED poolVars
    BY <2>10, RestIInv DEF poolVars, clientVars, IInv, PoolTypeOK
  <2>. QED BY <2>1, <2>2, <2>3, <2>4, <2>5, <2>6, <2>7, <2>8, <2>9, <2>10 DEF PoolNext
<1>. QED BY <1>1, OpenIInv, PTL DEF PoolSpec

(* The invariant says that every packet held is where the client was told  *)
(* it is, and that an empty pool has its whole window.                     *)
LEMMA KeptFromIInv == IInv => BufferKept
<1>. SUFFICES ASSUME IInv PROVE BufferKept
  OBVIOUS
<1>0. Numbers
  BY Areas
<1>. USE <1>0 DEF Numbers
<1>1. DataKept
  <2>. SUFFICES ASSUME NEW i \in DOMAIN held
                PROVE  /\ rx_buffer[held[i].buffer] = held[i].packet
                       /\ length[held[i].buffer] = held[i].packet
    BY DEF DataKept
  <2>. DEFINE T == [buffer : Buffers, packet : Packets]
  <2>1. i \in 1 .. Len(held)
    <3>1. held \in Seq(T)
      BY DEF IInv, PoolTypeOK
    <3>. HIDE DEF T
    <3>. QED BY <3>1, LenProperties
  <2>2. Kept + (IF MustRefuse THEN 1 ELSE 0) <= Available
    BY DEF IInv, Reach
  <2>3. PICK p \in Oldest + 1 .. extracted :
                held[i] = [buffer |-> Slot(p - 1), packet |-> p]
    <3>1. CASE i \in 1 .. Kept
      <4>. DEFINE p == Oldest + i
      <4>1. p \in Oldest + 1 .. extracted
        BY <3>1, <2>2
      <4>2. held[i] = [buffer |-> Slot(Oldest + i - 1), packet |-> Oldest + i]
        BY <3>1 DEF IInv, HeldInOrder
      <4>3. held[i] = [buffer |-> Slot(p - 1), packet |-> p]
        BY <4>2
      <4>. HIDE DEF p
      <4>. QED BY <4>1, <4>3
    <3>2. CASE i \notin 1 .. Kept
      <4>1. MustRefuse /\ i = Len(held)
        BY <3>2, <2>1 DEF Kept
      <4>2. extracted \in Oldest + 1 .. extracted
        BY <4>1, <2>2
      <4>3. held[i] = [buffer |-> Slot(extracted - 1), packet |-> extracted]
        BY <4>1 DEF IInv, HeldInOrder
      <4>. QED BY <4>2, <4>3
    <3>. QED BY <3>1, <3>2
  <2>4. p \in Oldest + 1 .. produced /\ p \in Oldest + 1 .. Complete
    OBVIOUS
  <2>5. rx_buffer[Slot(p - 1)] = p /\ length[Slot(p - 1)] = p
    BY <2>4 DEF IInv, Written
  <2>. QED BY <2>3, <2>5
<1>2. NothingLost
  <2>. SUFFICES ASSUME held = <<>>, m_rx_buffer_queue.read_available_count = 0
                PROVE  m_rx_buffer_queue.free_window_count = RX_BUF_QUEUE_SIZE
    BY DEF NothingLost
  <2>1. Available = 0
    BY DEF MustRefuse, Kept, IInv, Reach
  <2>2. produced = extracted
    BY DEF IInv, Counted
  <2>. QED BY <2>1, <2>2
<1>. QED BY <1>1, <1>2 DEF BufferKept, IInv

(* A buffer of the pool keeps its packet and its length until the flash    *)
(* operation that reads them has finished, and no buffer is ever lost.     *)
THEOREM BuffersKept == PoolSpec => []BufferKept
BY PoolInvariant, KeptFromIInv, PTL
=============================================================================
