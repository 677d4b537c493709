--------------------------- MODULE SdSwapProofs ----------------------------
(***************************************************************************)
(* Proofs about SdSwap: whatever the sizes, and whatever losses of power   *)
(* there are, no page of the received images is ever lost, and when the    *)
(* settings page says that the swap is over they are in place.             *)
(*                                                                         *)
(* The inductive invariant has two halves.  Kept is what a loss of power   *)
(* leaves alone: which pages of the image are unharmed, and that a         *)
(* comparison that succeeds is never taken for more than it shows.         *)
(* Working says, for each form of what is left to do, what was done        *)
(* before.                                                                 *)
(***************************************************************************)
EXTENDS SdSwap, TLAPS, SequenceTheorems

(* The shorthands of the argument: the SoftDevice's first page, the first  *)
(* n of its pages in place, the pages from..to - 1 of the image unharmed.  *)
Start == SOFTDEVICE_REGION_START
Image(i) == flash[sd_image_start + i] = New(i)
Done(n) == \A i \in 0 .. n - 1 : InPlace(i)
Intact(from, to) == \A i \in from .. to - 1 : Image(i)

(* The comparison of block 1 would fail.                                   *)
Differs == \E i \in Half .. 2 * Half - 1 : flash[Start + i] # flash[sd_image_start + i]

(* The old SoftDevice's size can still be read.                            *)
OldInfo == flash[Start + InfoPage][1] = "old"

(* What losses of power leave alone.  An image with a tail: its back; its  *)
(* first block, until the blocks before the tail are in place; and either  *)
(* block 0 is in place, or block 1 does not compare, or it is going to be  *)
(* cleared.                                                                *)
Kept ==
    IF Overlaps
    THEN /\ Intact(Half, size)
         /\ Intact(0, Half) \/ Done(2 * Half)
         /\ \/ Done(Half) \/ Differs
            \/ Start + 2 * Half < size /\ OldInfo
    ELSE Intact(0, size)

-----------------------------------------------------------------------------
(* What is left to do.                                                     *)

(* Page i of block k is next.                                              *)
CopyAt(k, i) == Copy(Dst(k) + 2 * Half + i, Dst(k) + i, Length(k) - i)
Begun(copy) == [copy EXCEPT !.op = "write"]

(* After block k is in place, and after its check.                         *)
Behind(k) ==
    IF k = 0 THEN << CopyAt(1, 0), Call("check", 1), CopyAt(2, 0), Call("check", 2) >>
    ELSE IF k = 1 THEN << CopyAt(2, 0), Call("check", 2) >> ELSE <<>>
After(k) == << Call("check", k) >> \o Behind(k)

Clear(k) == Copy(Dst(k), Dst(k), 1)

(* Block 0 must be copied before block 1 compares, and both before the     *)
(* tail is written over the image.                                         *)
Progress(k, i) ==
    /\ Done(k * Half + i)
    /\ k = 0 => Differs
    /\ k < 2 => Intact(0, Half)

(* Block 2 may be compared when block 0 is in place or block 1 differs, so *)
(* that a tail in place is not taken for the whole image in place.         *)
Comparable(k) ==
    /\ Done(Half) \/ Differs
    /\ k = 0 => Differs /\ Intact(0, Half)

(* To compare block k, to copy its page i, or to check it.                 *)
Compares(k) ==
    /\ todo = << Call("swap", k) >> \o Behind(k)
    /\ ~ TakenForOld => Comparable(k)

Copies(k, i) ==
    /\ todo \in {<< CopyAt(k, i) >> \o After(k), << Begun(CopyAt(k, i)) >> \o After(k)}
    /\ ~ TakenForOld => Progress(k, i)

Checks(k) ==
    /\ todo = After(k)
    /\ ~ TakenForOld => Progress(k, Length(k))

(* The two pages of the old SoftDevice, cleared before the first copy.     *)
Clears ==
    /\ \/ todo = << Clear(1), Clear(0), Call("swap", 2) >>
       \/ /\ todo \in {<< Begun(Clear(1)), Clear(0), Call("swap", 2) >>,
                       << Clear(0), Call("swap", 2) >>,
                       << Begun(Clear(0)), Call("swap", 2) >>}
          /\ flash[Start + Half] = Blank
    /\ ~ TakenForOld => Intact(0, Half)

(* An image that fits is copied from its first page to its last.           *)
Fits(i) ==
    /\ todo \in {<< Copy(sd_image_start + i, Start + i, size - i) >>,
                 << Begun(Copy(sd_image_start + i, Start + i, size - i)) >>}
    /\ Done(i)

WithTail ==
    \/ todo = << Call("error", 2) >>
    \/ \E k \in 0 .. 2 : Compares(k) \/ Checks(k)
    \/ \E k \in 0 .. 2 : \E i \in 0 .. Length(k) - 1 : Copies(k, i)
    \/ Clears

Fitting ==
    \/ todo = << Call("error", 0) >>
    \/ todo = << Call("success", 0) >> /\ Done(size)
    \/ \E i \in 0 .. size - 1 : Fits(i)

Rests == todo = <<>> /\ (stage # "off" /\ ~ TakenForOld => Done(size))

Working ==
    IF todo = <<>> THEN Rests ELSE
    /\ pending /\ stage \in {"validate", "swap", "revalidate"}
    /\ IF Overlaps THEN WithTail ELSE Fitting

-----------------------------------------------------------------------------
Types ==
    /\ flash \in [Pages -> PageContents] /\ bl \in {Blank, NewBl}
    /\ size \in ImageSizes /\ hasBl \in BOOLEAN /\ pending \in BOOLEAN
    /\ like \subseteq (0 .. 2 * Half - 1) \ {InfoPage}
    /\ stage \in {"off", "validate", "swap", "revalidate", "bl", "finalize", "done"}
    /\ nfails \in 0 .. MaxFails

Bootloader ==
    /\ hasBl => flash[bl_image_start] = NewBl
    /\ stage = "finalize" \/ ~ pending => (hasBl => bl = NewBl)
    /\ pending \/ stage = "done"
    /\ stage = "done" => ~ pending

IInv == Types /\ Bootloader /\ (~ TakenForOld => Kept) /\ Working

-----------------------------------------------------------------------------
(* The constants and the size, as plain inequalities.                      *)
Numbers ==
    /\ MBR_SIZE \in Nat /\ MBR_SIZE >= 1 /\ Half \in Nat /\ Half >= 1
    /\ InfoPage \in Nat /\ 1 <= InfoPage /\ InfoPage < Half
    /\ size \in Nat /\ InfoPage < size /\ size <= 3 * Half
    /\ Unprogrammed > MBR_SIZE + 4 * Half
    /\ MaxFails \in Nat

(* The types give them.                                                    *)
LEMMA TheNumbers == ASSUME Types PROVE Numbers
BY SdSwapAssumption DEF Types, Numbers

(* Where the blocks and the images lie.                                    *)
LEMMA Blocks ==
    ASSUME Numbers
    PROVE  /\ Dst(0) = MBR_SIZE /\ Dst(1) = MBR_SIZE + Half
           /\ Dst(2) = MBR_SIZE + Half + Half
           /\ Length(0) = Half /\ Length(1) = Half
           /\ Length(2) = size - (Half + Half)
           /\ Start = MBR_SIZE /\ SOFTDEVICE_REGION_START = MBR_SIZE
           /\ sd_image_start = MBR_SIZE + Half + Half
           /\ bl_image_start = MBR_SIZE + Half + Half + size
           /\ 2 * Half = Half + Half /\ 3 * Half = Half + Half + Half
           /\ 0 * Half = 0 /\ 1 * Half = Half
           /\ Pages = MBR_SIZE .. MBR_SIZE + Half + Half + Half + Half + Half
           /\ Overlaps <=> size > Half + Half
BY DEF Numbers, Dst, Length, Start, SOFTDEVICE_REGION_START, sd_image_start,
       bl_image_start, Pages, Overlaps

(* A sequence one longer, by its elements.                                 *)
LEMMA Join ==
    ASSUME NEW S, NEW x \in S, NEW s \in Seq(S), NEW t \in Seq(S),
           Len(t) = 1 + Len(s), t[1] = x,
           \A i \in 1 .. Len(s) : t[1 + i] = s[i]
    PROVE  << x >> \o s = t
<1>1. << x >> \in Seq(S) /\ Len(<< x >>) = 1 /\ << x >>[1] = x
  OBVIOUS
<1> DEFINE u == << x >> \o s
<1>2. /\ u \in Seq(S) /\ Len(u) = 1 + Len(s) /\ u[1] = x
      /\ \A i \in 1 .. Len(s) : u[1 + i] = s[i]
  BY <1>1, ConcatProperties, LenProperties
<1> HIDE DEF u
<1>3. Len(s) \in Nat
  BY LenProperties
<1>4. \A i \in 1 .. Len(u) : u[i] = t[i]
  <2>1. SUFFICES ASSUME NEW i \in 1 .. Len(u), i # 1
                 PROVE  u[i] = t[i]
    BY <1>2
  <2>2. i - 1 \in 1 .. Len(s) /\ i = 1 + (i - 1)
    BY <2>1, <1>2, <1>3
  <2> QED
    BY <2>2, <1>2
<1>5. u = t
  BY <1>2, <1>4, SeqEqual
<1> QED
  BY <1>5 DEF u

Kinds == {"swap", "check", "success", "error", "erase", "write"}
Jobs == { j \in [op : Kinds, page : Int, from : Int, len : Int] :
            j.op \in {"erase", "write"} => j.page .. j.page + j.len - 1 \subseteq Region }

(* The head and the tail of what is left to do.                            *)
LEMMA Cons ==
    ASSUME NEW x \in Jobs, NEW s \in Seq(Jobs)
    PROVE  /\ << x >> \o s \in Seq(Jobs) /\ << x >> \o s # <<>>
           /\ Head(<< x >> \o s) = x /\ Tail(<< x >> \o s) = s
<1>1. << x >> \in Seq(Jobs) /\ Len(<< x >>) = 1 /\ << x >>[1] = x
  OBVIOUS
<1> DEFINE t == << x >> \o s
<1>2. /\ t \in Seq(Jobs) /\ Len(t) = 1 + Len(s) /\ t[1] = x
      /\ \A i \in 1 .. Len(s) : t[i + 1] = s[i]
  BY <1>1, ConcatProperties, LenProperties
<1>3. t # <<>>
  BY <1>2, LenProperties
<1> HIDE DEF t
<1>4. Head(t) = x /\ Tail(t) \in Seq(Jobs) /\ Len(Tail(t)) = Len(s)
      /\ \A i \in 1 .. Len(s) : Tail(t)[i] = s[i]
  BY <1>2, <1>3, HeadTailProperties, LenProperties
<1>5. Tail(t) = s
  BY <1>4, SeqEqual
<1> QED
  BY <1>2, <1>3, <1>4, <1>5 DEF t

(* The same when it is all that is left.                                   *)
LEMMA One ==
    ASSUME NEW x \in Jobs
    PROVE  /\ << x >> \in Seq(Jobs) /\ << x >> # <<>>
           /\ Head(<< x >>) = x /\ Tail(<< x >>) = <<>>
<1>1. \A y : Tail(<< y >>) = <<>>
  OBVIOUS
<1> QED
  BY <1>1

(* Short sequences of calls and copies, put together.                      *)
LEMMA Tuples ==
    ASSUME NEW a \in Jobs, NEW b \in Jobs, NEW c \in Jobs, NEW d \in Jobs
    PROVE  /\ << a >> \o << b >> = << a, b >>
           /\ << a >> \o << b, c >> = << a, b, c >>
           /\ << a >> \o << b, c, d >> = << a, b, c, d >>
           /\ << a, b >> \o << c, d >> = << a, b, c, d >>
<1>1. /\ << a >> \in Seq(Jobs) /\ << b >> \in Seq(Jobs) /\ << c, d >> \in Seq(Jobs)
      /\ << a, b >> \in Seq(Jobs) /\ << b, c >> \in Seq(Jobs)
      /\ << a, b, c >> \in Seq(Jobs) /\ << b, c, d >> \in Seq(Jobs)
      /\ << a, b, c, d >> \in Seq(Jobs)
  OBVIOUS
<1>2. \A i \in 1 .. Len(<< b >>) : << a, b >>[1 + i] = << b >>[i]
  <2>1. \A i \in 1 .. Len(<< b >>) : i = 1
    OBVIOUS
  <2> QED
    BY <2>1
<1>3. \A i \in 1 .. Len(<< b, c >>) : << a, b, c >>[1 + i] = << b, c >>[i]
  <2>1. \A i \in 1 .. Len(<< b, c >>) : i = 1 \/ i = 2
    OBVIOUS
  <2> QED
    BY <2>1
<1>4. \A i \in 1 .. Len(<< c, d >>) : << b, c, d >>[1 + i] = << c, d >>[i]
  <2>1. \A i \in 1 .. Len(<< c, d >>) : i = 1 \/ i = 2
    OBVIOUS
  <2> QED
    BY <2>1
<1>5. \A i \in 1 .. Len(<< b, c, d >>) : << a, b, c, d >>[1 + i] = << b, c, d >>[i]
  <2>1. \A i \in 1 .. Len(<< b, c, d >>) : i = 1 \/ i = 2 \/ i = 3
    OBVIOUS
  <2> QED
    BY <2>1
<1>6. << a >> \o << b >> = << a, b >>
  <2> DEFINE s == << b >>
             t == << a, b >>
  <2>1. Len(t) = 1 + Len(s) /\ t[1] = a
    OBVIOUS
  <2>2. s \in Seq(Jobs) /\ t \in Seq(Jobs)
    BY <1>1
  <2>3. \A i \in 1 .. Len(s) : t[1 + i] = s[i]
    BY <1>2
  <2> HIDE DEF s, t
  <2>4. << a >> \o s = t
    BY <2>1, <2>2, <2>3, Join
  <2> QED
    BY <2>4 DEF s, t
<1>7. << a >> \o << b, c >> = << a, b, c >>
  <2> DEFINE s == << b, c >>
             t == << a, b, c >>
  <2>1. Len(t) = 1 + Len(s) /\ t[1] = a
    OBVIOUS
  <2>2. s \in Seq(Jobs) /\ t \in Seq(Jobs)
    BY <1>1
  <2>3. \A i \in 1 .. Len(s) : t[1 + i] = s[i]
    BY <1>3
  <2> HIDE DEF s, t
  <2>4. << a >> \o s = t
    BY <2>1, <2>2, <2>3, Join
  <2> QED
    BY <2>4 DEF s, t
<1>8. << b >> \o << c, d >> = << b, c, d >>
  <2> DEFINE s == << c, d >>
             t == << b, c, d >>
  <2>1. Len(t) = 1 + Len(s) /\ t[1] = b
    OBVIOUS
  <2>2. s \in Seq(Jobs) /\ t \in Seq(Jobs)
    BY <1>1
  <2>3. \A i \in 1 .. Len(s) : t[1 + i] = s[i]
    BY <1>4
  <2> HIDE DEF s, t
  <2>4. << b >> \o s = t
    BY <2>1, <2>2, <2>3, Join
  <2> QED
    BY <2>4 DEF s, t
<1>9. << a >> \o << b, c, d >> = << a, b, c, d >>
  <2> DEFINE s == << b, c, d >>
             t == << a, b, c, d >>
  <2>1. Len(t) = 1 + Len(s) /\ t[1] = a
    OBVIOUS
  <2>2. s \in Seq(Jobs) /\ t \in Seq(Jobs)
    BY <1>1
  <2>3. \A i \in 1 .. Len(s) : t[1 + i] = s[i]
    BY <1>5
  <2> HIDE DEF s, t
  <2>4. << a >> \o s = t
    BY <2>1, <2>2, <2>3, Join
  <2> QED
    BY <2>4 DEF s, t
<1>10. << a, b >> \o << c, d >> = << a, b, c, d >>
  <2>1. (<< a >> \o << b >>) \o << c, d >> = << a >> \o (<< b >> \o << c, d >>)
    BY <1>1, ConcatAssociative
  <2> QED
    BY <2>1, <1>6, <1>8, <1>9
<1> QED
  BY <1>6, <1>7, <1>9, <1>10

(* Nothing is erased or written outside of the SoftDevice's place.         *)
LEMMA JobsAre ==
    ASSUME Numbers
    PROVE  /\ \A op \in {"swap", "check", "success", "error"}, k \in 0 .. 2 :
                 Call(op, k) \in Jobs
           /\ Overlaps => /\ \A k \in 0 .. 2 : \A i \in 0 .. Length(k) - 1 :
                                /\ CopyAt(k, i) \in Jobs /\ Begun(CopyAt(k, i)) \in Jobs
                          /\ Clear(0) \in Jobs /\ Clear(1) \in Jobs
                          /\ Begun(Clear(0)) \in Jobs /\ Begun(Clear(1)) \in Jobs
           /\ ~ Overlaps => \A i \in 0 .. size - 1 :
                 LET c == Copy(sd_image_start + i, Start + i, size - i)
                 IN  c \in Jobs /\ Begun(c) \in Jobs
<1> USE Blocks
<1>1. \A op \in {"swap", "check", "success", "error"}, k \in 0 .. 2 : Call(op, k) \in Jobs
  BY DEF Call, Jobs, Kinds
<1>2. ASSUME NEW p \in Int, NEW f \in Int, NEW l \in Int,
             p >= MBR_SIZE, p + l <= MBR_SIZE + size
      PROVE  Copy(f, p, l) \in Jobs /\ Begun(Copy(f, p, l)) \in Jobs
  <2>1. p .. p + l - 1 \subseteq Region
    BY <1>2 DEF Numbers, Region
  <2> QED
    BY <2>1 DEF Copy, Begun, Jobs, Kinds
<1>3. ASSUME Overlaps, NEW k \in 0 .. 2, NEW i \in 0 .. Length(k) - 1
      PROVE  CopyAt(k, i) \in Jobs /\ Begun(CopyAt(k, i)) \in Jobs
  <2>1. k = 0 \/ k = 1 \/ k = 2
    OBVIOUS
  <2>2. /\ Dst(k) \in Int /\ Length(k) \in Int /\ Dst(k) >= MBR_SIZE
        /\ Dst(k) + Length(k) <= MBR_SIZE + size
    <3>1. CASE k = 0
      BY <3>1, <1>3 DEF Numbers
    <3>2. CASE k = 1
      BY <3>2, <1>3 DEF Numbers
    <3>3. CASE k = 2
      BY <3>3, <1>3 DEF Numbers
    <3> QED
      BY <2>1, <3>1, <3>2, <3>3
  <2>3. i \in Int /\ i >= 0 /\ Half \in Int /\ MBR_SIZE \in Int /\ size \in Int
    BY <2>2 DEF Numbers
  <2>4. \A d, l \in Int : d >= MBR_SIZE /\ d + l <= MBR_SIZE + size =>
              /\ d + 2 * Half + i \in Int /\ d + i \in Int /\ l - i \in Int
              /\ d + i >= MBR_SIZE /\ (d + i) + (l - i) <= MBR_SIZE + size
    BY <2>3
  <2> QED
    BY <2>2, <2>4, <1>2 DEF CopyAt
<1>4. ASSUME Overlaps
      PROVE  /\ Clear(0) \in Jobs /\ Clear(1) \in Jobs
             /\ Begun(Clear(0)) \in Jobs /\ Begun(Clear(1)) \in Jobs
  BY <1>4, <1>2 DEF Clear, Numbers
<1>5. ASSUME ~ Overlaps, NEW i \in 0 .. size - 1
      PROVE  LET c == Copy(sd_image_start + i, Start + i, size - i)
             IN  c \in Jobs /\ Begun(c) \in Jobs
  BY <1>5, <1>2 DEF Numbers
<1> QED
  BY <1>1, <1>3, <1>4, <1>5

(* The same for all calls and copies.                                      *)
LEMMA JobTuples ==
    /\ \A a, b \in Jobs : << a >> \o << b >> = << a, b >>
    /\ \A a, b, c \in Jobs : << a >> \o << b, c >> = << a, b, c >>
    /\ \A a, b, c, d \in Jobs : << a, b >> \o << c, d >> = << a, b, c, d >>
    /\ \A a, b, c, d \in Jobs : << a >> \o << b, c, d >> = << a, b, c, d >>
<1>1. \A a, b \in Jobs : << a >> \o << b >> = << a, b >>
  <2> TAKE a, b \in Jobs
  <2> QED
    BY Tuples
<1>2. \A a, b, c \in Jobs : << a >> \o << b, c >> = << a, b, c >>
  <2> TAKE a, b, c \in Jobs
  <2> QED
    BY Tuples
<1>3. \A a, b, c, d \in Jobs : << a, b >> \o << c, d >> = << a, b, c, d >>
  <2> TAKE a, b, c, d \in Jobs
  <2>1. /\ << a >> \o << b >> = << a, b >>
        /\ << a >> \o << b, c >> = << a, b, c >>
        /\ << a >> \o << b, c, d >> = << a, b, c, d >>
        /\ << a, b >> \o << c, d >> = << a, b, c, d >>
    BY Tuples
  <2> QED
    BY <2>1
<1>4. \A a, b, c, d \in Jobs : << a >> \o << b, c, d >> = << a, b, c, d >>
  <2> TAKE a, b, c, d \in Jobs
  <2>1. /\ << a >> \o << b >> = << a, b >>
        /\ << a >> \o << b, c >> = << a, b, c >>
        /\ << a >> \o << b, c, d >> = << a, b, c, d >>
        /\ << a, b >> \o << c, d >> = << a, b, c, d >>
    BY Tuples
  <2> QED
    BY <2>1
<1> QED
  BY <1>1, <1>2, <1>3, <1>4

(* What comes after a block is made of calls and copies.                   *)
LEMMA RestsAre ==
    ASSUME Numbers, Overlaps, NEW k \in 0 .. 2
    PROVE  Behind(k) \in Seq(Jobs) /\ After(k) \in Seq(Jobs)
<1> DEFINE c == Call("check", 1)  d == Call("check", 2)
<1>1. /\ CopyAt(1, 0) \in Jobs /\ CopyAt(2, 0) \in Jobs /\ c \in Jobs /\ d \in Jobs
      /\ Call("check", k) \in Jobs
  BY Blocks, JobsAre DEF Numbers
<1> HIDE DEF c, d
<1>2. Behind(k) \in Seq(Jobs)
  <2>1. /\ << CopyAt(1, 0), c, CopyAt(2, 0), d >> \in Seq(Jobs)
        /\ << CopyAt(2, 0), d >> \in Seq(Jobs) /\ <<>> \in Seq(Jobs)
    BY <1>1
  <2> QED
    BY <2>1 DEF Behind, c, d
<1> QED
  BY <1>1, <1>2, Cons DEF After

(* The stack of the recursion, block by block.                             *)
LEMMA Unrolled ==
    ASSUME Numbers, Overlaps
    PROVE  /\ BlockSwap(2) \o Behind(2) = << Call("swap", 1) >> \o Behind(1)
           /\ BlockSwap(1) \o Behind(1) = << Call("swap", 0) >> \o Behind(0)
           /\ BlockSwap(0) \o Behind(0) = << CopyAt(0, 0) >> \o After(0)
           /\ Behind(0) = << CopyAt(1, 0) >> \o After(1)
           /\ Behind(1) = << CopyAt(2, 0) >> \o After(2)
           /\ Behind(2) = <<>>
<1>1. \A k \in 0 .. 2 : CopyAt(k, 0) = Copy(Dst(k) + 2 * Half, Dst(k), Length(k))
  <2>1. \A k \in 0 .. 2 : Dst(k) \in Int /\ Length(k) \in Int
    BY Blocks DEF Numbers
  <2> QED
    BY <2>1 DEF CopyAt, Numbers
<1> DEFINE a == CopyAt(0, 0) b == CopyAt(1, 0) c == CopyAt(2, 0)
           d == Call("check", 0) e == Call("check", 1) f == Call("check", 2)
<1>2. /\ BlockSwap(2) = << Call("swap", 1) >> \o << c, f >>
      /\ BlockSwap(1) = << Call("swap", 0) >> \o << b, e >>
      /\ BlockSwap(0) = <<>> \o << a, d >>
  BY <1>1 DEF BlockSwap
<1>0. /\ a \in Jobs /\ b \in Jobs /\ c \in Jobs /\ d \in Jobs /\ e \in Jobs /\ f \in Jobs
      /\ Call("swap", 0) \in Jobs /\ Call("swap", 1) \in Jobs
  BY Blocks, JobsAre DEF Numbers
<1>3. /\ Behind(0) = << b, e, c, f >> /\ Behind(1) = << c, f >> /\ Behind(2) = <<>>
      /\ After(0) = << d >> \o Behind(0) /\ After(1) = << e >> \o Behind(1)
      /\ After(2) = << f >> \o <<>>
  BY DEF Behind, After
<1> HIDE DEF a, b, c, d, e, f
<1> HIDE DEF a, b, c, d, e, f
<1>4. BlockSwap(2) \o Behind(2) = << Call("swap", 1) >> \o Behind(1)
  <2>1. << Call("swap", 1) >> \o << c, f >> = << Call("swap", 1), c, f >>
    BY <1>0, JobTuples
  <2>2. << Call("swap", 1), c, f >> \in Seq(Jobs)
    BY <1>0
  <2> QED
    BY <1>2, <1>3, <2>1, <2>2, ConcatEmptySeq
<1>5. BlockSwap(1) \o Behind(1) = << Call("swap", 0) >> \o Behind(0)
  <2>1. /\ << Call("swap", 0) >> \in Seq(Jobs) /\ << b, e >> \in Seq(Jobs)
        /\ << c, f >> \in Seq(Jobs)
    BY <1>0
  <2>2. << b, e >> \o << c, f >> = << b, e, c, f >>
    BY <1>0, JobTuples
  <2>3. (<< Call("swap", 0) >> \o << b, e >>) \o << c, f >>
          = << Call("swap", 0) >> \o (<< b, e >> \o << c, f >>)
    BY <2>1, ConcatAssociative
  <2> QED
    BY <1>2, <1>3, <2>2, <2>3
<1>6. BlockSwap(0) \o Behind(0) = << a >> \o After(0)
  <2>1. << a >> \in Seq(Jobs) /\ << d >> \in Seq(Jobs) /\ Behind(0) \in Seq(Jobs)
    BY <1>0, RestsAre
  <2>2. << a >> \o << d >> = << a, d >>
    BY <1>0, JobTuples
  <2>3. <<>> \o << a, d >> = << a, d >>
    OBVIOUS
  <2>4. (<< a >> \o << d >>) \o Behind(0) = << a >> \o (<< d >> \o Behind(0))
    BY <2>1, ConcatAssociative
  <2> QED
    BY <1>2, <1>3, <2>2, <2>3, <2>4
<1>7. Behind(0) = << b >> \o After(1)
  <2>1. << e >> \o << c, f >> = << e, c, f >> /\ << b >> \o << e, c, f >> = << b, e, c, f >>
    BY <1>0, JobTuples
  <2> QED
    BY <1>3, <2>1
<1>8. Behind(1) = << c >> \o After(2)
  <2>1. << f >> \o <<>> = << f >> /\ << c >> \o << f >> = << c, f >>
    BY <1>0, JobTuples, ConcatEmptySeq
  <2> QED
    BY <1>3, <2>1
<1> QED
  BY <1>3, <1>4, <1>5, <1>6, <1>7, <1>8 DEF a, b, c

(* What each call and copy is.                                             *)
LEMMA Ops ==
    ASSUME NEW k, NEW i, NEW op, NEW f, NEW p, NEW l
    PROVE  /\ Call(op, k).op = op /\ Call(op, k).page = k
           /\ CopyAt(k, i).op = "erase" /\ Begun(CopyAt(k, i)).op = "write"
           /\ Clear(k).op = "erase" /\ Begun(Clear(k)).op = "write"
           /\ Copy(f, p, l).op = "erase" /\ Begun(Copy(f, p, l)).op = "write"
BY DEF Call, CopyAt, Copy, Begun, Clear

(* A comparison is first.                                                  *)
LEMMA ComparesHead ==
    ASSUME Numbers, Overlaps, NEW k \in 0 .. 2, Compares(k)
    PROVE  /\ todo \in Seq(Jobs) /\ todo # <<>>
           /\ Head(todo) = Call("swap", k) /\ Tail(todo) = Behind(k)
<1>1. Call("swap", k) \in Jobs /\ Behind(k) \in Seq(Jobs)
  BY JobsAre, RestsAre
<1> QED
  BY <1>1, Cons DEF Compares

(* A copy is first.                                                        *)
LEMMA CopiesHead ==
    ASSUME Numbers, Overlaps, NEW k \in 0 .. 2, NEW i \in 0 .. Length(k) - 1, Copies(k, i)
    PROVE  /\ todo \in Seq(Jobs) /\ todo # <<>> /\ Tail(todo) = After(k)
           /\ Head(todo) = CopyAt(k, i) \/ Head(todo) = Begun(CopyAt(k, i))
<1>1. CopyAt(k, i) \in Jobs /\ Begun(CopyAt(k, i)) \in Jobs /\ After(k) \in Seq(Jobs)
  BY JobsAre, RestsAre
<1> QED
  BY <1>1, Cons DEF Copies

(* A check is first.                                                       *)
LEMMA ChecksHead ==
    ASSUME Numbers, Overlaps, NEW k \in 0 .. 2, Checks(k)
    PROVE  /\ todo \in Seq(Jobs) /\ todo # <<>>
           /\ Head(todo) = Call("check", k) /\ Tail(todo) = Behind(k)
<1>1. Call("check", k) \in Jobs /\ Behind(k) \in Seq(Jobs)
  BY JobsAre, RestsAre
<1> QED
  BY <1>1, Cons DEF Checks, After

(* The clearing of a page is first.                                        *)
LEMMA ClearsHead ==
    ASSUME Numbers, Overlaps, Clears
    PROVE  /\ todo \in Seq(Jobs) /\ todo # <<>>
           /\ \/ /\ Head(todo) = Clear(1)
                 /\ Tail(todo) = << Clear(0), Call("swap", 2) >>
              \/ /\ Head(todo) = Begun(Clear(1)) /\ flash[Start + Half] = Blank
                 /\ Tail(todo) = << Clear(0), Call("swap", 2) >>
              \/ /\ Head(todo) = Clear(0) \/ Head(todo) = Begun(Clear(0))
                 /\ flash[Start + Half] = Blank
                 /\ Tail(todo) = << Call("swap", 2) >>
<1> DEFINE a == Clear(0)  b == Clear(1)  c == Begun(Clear(0))  d == Begun(Clear(1))
           e == Call("swap", 2)
<1>1. a \in Jobs /\ b \in Jobs /\ c \in Jobs /\ d \in Jobs /\ e \in Jobs
  BY JobsAre
<1>2. /\ \/ todo = << b, a, e >>
         \/ /\ todo \in {<< d, a, e >>, << a, e >>, << c, e >>}
            /\ flash[Start + Half] = Blank
  BY DEF Clears
<1> HIDE DEF a, b, c, d, e
<1>3. << e >> \in Seq(Jobs) /\ << a, e >> \in Seq(Jobs)
  BY <1>1
<1>4. /\ << b, a, e >> = << b >> \o << a, e >> /\ << d, a, e >> = << d >> \o << a, e >>
      /\ << a, e >> = << a >> \o << e >> /\ << c, e >> = << c >> \o << e >>
  <2>1. << b, a, e >> = << b >> \o << a, e >>
    BY <1>1, JobTuples
  <2>2. << d, a, e >> = << d >> \o << a, e >>
    BY <1>1, JobTuples
  <2>3. << a, e >> = << a >> \o << e >>
    BY <1>1, JobTuples
  <2>4. << c, e >> = << c >> \o << e >>
    BY <1>1, JobTuples
  <2> QED
    BY <2>1, <2>2, <2>3, <2>4
<1>5. CASE todo = << b >> \o << a, e >>
  BY <1>1, <1>3, <1>5, Cons DEF a, b, e
<1>6. CASE todo = << d >> \o << a, e >> /\ flash[Start + Half] = Blank
  BY <1>1, <1>3, <1>6, Cons DEF a, d, e
<1>7. CASE todo = << a >> \o << e >> /\ flash[Start + Half] = Blank
  BY <1>1, <1>3, <1>7, Cons DEF a, e
<1>8. CASE todo = << c >> \o << e >> /\ flash[Start + Half] = Blank
  BY <1>1, <1>3, <1>8, Cons DEF c, e
<1> QED
  BY <1>2, <1>4, <1>5, <1>6, <1>7, <1>8

(* The copy of an image that fits is first.                                *)
LEMMA FitsHead ==
    ASSUME Numbers, ~ Overlaps, NEW i \in 0 .. size - 1, Fits(i)
    PROVE  /\ todo \in Seq(Jobs) /\ todo # <<>> /\ Tail(todo) = <<>>
           /\ \/ Head(todo) = Copy(sd_image_start + i, Start + i, size - i)
              \/ Head(todo) = Begun(Copy(sd_image_start + i, Start + i, size - i))
<1> DEFINE c == Copy(sd_image_start + i, Start + i, size - i)
<1>1. c \in Jobs /\ Begun(c) \in Jobs
  BY JobsAre
<1>2. todo = << c >> \/ todo = << Begun(c) >>
  BY DEF Fits
<1> HIDE DEF c
<1>3. todo \in Seq(Jobs) /\ todo # <<>> /\ Tail(todo) = <<>> /\ Head(todo) \in {c, Begun(c)}
  BY <1>1, <1>2, One
<1> QED
  BY <1>3 DEF c

(* By what is left to do first, where the swap is.                         *)
LEMMA WhereTail ==
    ASSUME Numbers, Overlaps, WithTail
    PROVE  /\ todo \in Seq(Jobs) /\ todo # <<>>
           /\ Head(todo).op \in Kinds \ {"success"}
           /\ Head(todo).op = "swap" => \E k \in 0 .. 2 : Compares(k)
           /\ Head(todo).op = "check" => \E k \in 0 .. 2 : Checks(k)
           /\ Head(todo).op \in {"erase", "write"} =>
                \/ Clears
                \/ \E k \in 0 .. 2 : \E i \in 0 .. Length(k) - 1 : Copies(k, i)
           /\ Head(todo).op = "error" => Head(todo).page = 2
<1>1. CASE todo = << Call("error", 2) >>
  <2>1. Call("error", 2) \in Jobs
    BY JobsAre
  <2> QED
    BY <1>1, <2>1, One, Ops DEF Kinds
<1>2. CASE \E k \in 0 .. 2 : Compares(k)
  <2>1. PICK k \in 0 .. 2 : Compares(k)
    BY <1>2
  <2>2. todo \in Seq(Jobs) /\ todo # <<>> /\ Head(todo) = Call("swap", k)
    BY <2>1, ComparesHead
  <2>3. Head(todo).op = "swap"
    BY <2>2, Ops
  <2> QED
    BY <1>2, <2>2, <2>3 DEF Kinds
<1>3. CASE \E k \in 0 .. 2 : Checks(k)
  <2>1. PICK k \in 0 .. 2 : Checks(k)
    BY <1>3
  <2>2. todo \in Seq(Jobs) /\ todo # <<>> /\ Head(todo) = Call("check", k)
    BY <2>1, ChecksHead
  <2>3. Head(todo).op = "check"
    BY <2>2, Ops
  <2> QED
    BY <1>3, <2>2, <2>3 DEF Kinds
<1>4. CASE \E k \in 0 .. 2 : \E i \in 0 .. Length(k) - 1 : Copies(k, i)
  <2>1. PICK k \in 0 .. 2 : \E i \in 0 .. Length(k) - 1 : Copies(k, i)
    BY <1>4
  <2>2. PICK i \in 0 .. Length(k) - 1 : Copies(k, i)
    BY <2>1
  <2>3. todo \in Seq(Jobs) /\ todo # <<>>
    BY <2>2, CopiesHead
  <2>4. Head(todo) = CopyAt(k, i) \/ Head(todo) = Begun(CopyAt(k, i))
    BY <2>2, CopiesHead
  <2>5. Head(todo).op = "erase" \/ Head(todo).op = "write"
    BY <2>4, Ops
  <2> QED
    BY <1>4, <2>3, <2>5 DEF Kinds
<1>5. CASE Clears
  <2>1. todo \in Seq(Jobs) /\ todo # <<>>
    BY <1>5, ClearsHead
  <2>2. \/ Head(todo) = Clear(1) \/ Head(todo) = Begun(Clear(1))
        \/ Head(todo) = Clear(0) \/ Head(todo) = Begun(Clear(0))
    BY <1>5, ClearsHead
  <2>3. Head(todo).op = "erase" \/ Head(todo).op = "write"
    BY <2>2, Ops
  <2> QED
    BY <1>5, <2>1, <2>3 DEF Kinds
<1> QED
  BY <1>1, <1>2, <1>3, <1>4, <1>5 DEF WithTail

(* The same for an image that fits.                                        *)
LEMMA WhereFits ==
    ASSUME Numbers, ~ Overlaps, Fitting
    PROVE  /\ todo \in Seq(Jobs) /\ todo # <<>> /\ Tail(todo) = <<>>
           /\ Head(todo).op \in {"error", "success", "erase", "write"}
           /\ Head(todo).op = "success" => Done(size)
           /\ Head(todo).op \in {"erase", "write"} => \E i \in 0 .. size - 1 : Fits(i)
<1>1. CASE todo = << Call("error", 0) >>
  <2>1. Call("error", 0) \in Jobs
    BY JobsAre
  <2> QED
    BY <1>1, <2>1, One, Ops
<1>2. CASE todo = << Call("success", 0) >> /\ Done(size)
  <2>1. Call("success", 0) \in Jobs
    BY JobsAre
  <2> QED
    BY <1>2, <2>1, One, Ops
<1>3. CASE \E i \in 0 .. size - 1 : Fits(i)
  BY <1>3, FitsHead, Ops
<1> QED
  BY <1>1, <1>2, <1>3 DEF Fitting

(* What depends only on what was received.                                 *)
LEMMA Fixed ==
    ASSUME UNCHANGED received
    PROVE  /\ Numbers' <=> Numbers
           /\ Overlaps' <=> Overlaps
           /\ TakenForOld' <=> TakenForOld
           /\ Region' = Region
           /\ bl_image_start' = bl_image_start
           /\ \A i : New(i)' = New(i)
           /\ \A k : Length(k)' = Length(k)
           /\ \A k, i : CopyAt(k, i)' = CopyAt(k, i)
           /\ \A k : Behind(k)' = Behind(k) /\ After(k)' = After(k)
<1> USE DEF received
<1>1. Numbers' <=> Numbers
  BY DEF Numbers
<1>2. /\ Overlaps' <=> Overlaps
      /\ TakenForOld' <=> TakenForOld
  BY DEF Overlaps, TakenForOld, SOFTDEVICE_REGION_START, sd_image_start
<1>3. /\ Region' = Region
      /\ bl_image_start' = bl_image_start
  BY DEF Region, bl_image_start, SOFTDEVICE_REGION_START, sd_image_start
<1>4. \A i : New(i)' = New(i)
  BY DEF New, Old
<1>5. \A k : Length(k)' = Length(k)
  BY DEF Length
<1>6. \A k, i : CopyAt(k, i)' = CopyAt(k, i)
  BY <1>5 DEF CopyAt, Copy, Dst, SOFTDEVICE_REGION_START
<1>7. \A k : Behind(k)' = Behind(k) /\ After(k)' = After(k)
  BY <1>6 DEF Behind, After, Call
<1> QED
  BY <1>1, <1>2, <1>3, <1>4, <1>5, <1>6, <1>7

(* A page of the image is neither blank nor torn.                          *)
LEMMA Values ==
    ASSUME Types, NEW i
    PROVE  /\ New(i) # Blank /\ \A t \in Torn : New(i) # t
           /\ Blank \in PageContents /\ Torn \subseteq PageContents
BY DEF New, Old, Blank, Torn, PageContents

(* A page of the SoftDevice's place gets any other contents.               *)
LEMMA WriteAt ==
    ASSUME Types, UNCHANGED received, NEW o \in 0 .. size - 1, NEW v \in PageContents,
           flash' = [flash EXCEPT ![Start + o] = v]
    PROVE  /\ flash' \in [Pages -> PageContents]
           /\ flash'[Start + o] = v
           /\ \A i \in 0 .. 3 * Half : i # o => flash'[Start + i] = flash[Start + i]
           /\ \A i \in 0 .. size :
                 o # 2 * Half + i => flash'[sd_image_start + i] = flash[sd_image_start + i]
<1>1. Numbers
  BY TheNumbers
<1>2. flash \in [Pages -> PageContents]
  BY DEF Types
<1>3. Start + o \in Pages
  BY <1>1, Blocks DEF Numbers
<1>4. \A i \in 0 .. 3 * Half : Start + i \in Pages /\ (i # o => Start + i # Start + o)
  BY <1>1, Blocks DEF Numbers
<1>5. \A i \in 0 .. size : /\ sd_image_start + i \in Pages
                           /\ o # 2 * Half + i => sd_image_start + i # Start + o
  BY <1>1, Blocks DEF Numbers
<1> QED
  BY <1>2, <1>3, <1>4, <1>5

(* What such a write leaves in place, intact or different.                 *)
LEMMA WriteKeeps ==
    ASSUME Types, UNCHANGED received, NEW o \in 0 .. size - 1, NEW v \in PageContents,
           flash' = [flash EXCEPT ![Start + o] = v]
    PROVE  /\ \A n \in 0 .. o : Done(n) => Done(n)'
           /\ Done(o) /\ v = New(o) => Done(o + 1)'
           /\ \A from, to \in 0 .. size :
                 o < 2 * Half + from /\ Intact(from, to) => Intact(from, to)'
           /\ o < Half /\ Overlaps /\ Differs => Differs'
<1>0. Numbers
  BY TheNumbers
<1>1. /\ flash'[Start + o] = v
      /\ \A i \in 0 .. 3 * Half : i # o => flash'[Start + i] = flash[Start + i]
      /\ \A i \in 0 .. size :
            o # 2 * Half + i => flash'[sd_image_start + i] = flash[sd_image_start + i]
  BY WriteAt
<1>2. \A i : New(i)' = New(i)
  BY Fixed
<1>3. ASSUME NEW n \in 0 .. o, Done(n)
      PROVE  Done(n)'
  <2>1. \A i \in 0 .. n - 1 : i \in 0 .. 3 * Half /\ i # o
    BY <1>0, Blocks DEF Numbers
  <2> QED
    BY <1>1, <1>2, <1>3, <2>1 DEF Done, InPlace, Start
<1>4. ASSUME Done(o), v = New(o)
      PROVE  Done(o + 1)'
  <2>1. Done(o)'
    BY <1>3, <1>4, <1>0 DEF Numbers
  <2>2. InPlace(o)'
    BY <1>1, <1>2, <1>4 DEF InPlace, Start
  <2>3. \A i \in 0 .. (o + 1) - 1 : i \in 0 .. o - 1 \/ i = o
    BY <1>0 DEF Numbers
  <2> QED
    BY <2>1, <2>2, <2>3 DEF Done
<1>5. ASSUME NEW from \in 0 .. size, NEW to \in 0 .. size, o < 2 * Half + from,
             Intact(from, to)
      PROVE  Intact(from, to)'
  <2>1. \A i \in from .. to - 1 : i \in 0 .. size /\ o # 2 * Half + i
    BY <1>0, <1>5, Blocks DEF Numbers
  <2> QED
    BY <1>1, <1>2, <1>5, <2>1 DEF Intact, Image
<1>6. ASSUME o < Half, Overlaps, Differs
      PROVE  Differs'
  <2>1. PICK i \in Half .. 2 * Half - 1 : flash[Start + i] # flash[sd_image_start + i]
    BY <1>6 DEF Differs
  <2>2. /\ i \in 0 .. 3 * Half /\ i # o
        /\ i \in 0 .. size /\ o # 2 * Half + i
    BY <1>0, <1>6, Blocks DEF Numbers
  <2>3. flash'[Start + i] # flash'[sd_image_start + i]
    BY <1>1, <2>1, <2>2
  <2> QED
    BY <2>3 DEF Differs, Start
<1> QED
  BY <1>3, <1>4, <1>5, <1>6

(* Of pages that are in place the first ones are.                          *)
LEMMA Fewer ==
    ASSUME NEW n \in Int, NEW m \in Int, m <= n
    PROVE  /\ Done(n) => Done(m)
           /\ Done(n)' => Done(m)'
BY DEF Done

(* Where page i of block k lies.                                           *)
LEMMA PageOf ==
    ASSUME Numbers, Overlaps, NEW k \in 0 .. 2, NEW i \in 0 .. Length(k) - 1
    PROVE  /\ k * Half + i \in 0 .. size - 1 /\ i \in Nat /\ k * Half \in Nat
           /\ Dst(k) + i = Start + (k * Half + i)
           /\ Dst(k) + 2 * Half + i = sd_image_start + (k * Half + i)
           /\ k * Half + i < 3 * Half
           /\ k < 2 => k * Half + i < 2 * Half
           /\ k = 0 => k * Half + i < Half
           /\ k >= 1 => Half <= k * Half + i
           /\ k = 2 => 2 * Half <= k * Half + i
           /\ k * Half + Length(k) = (IF k = 2 THEN size ELSE (k + 1) * Half)
<1>0. /\ MBR_SIZE \in Nat /\ Half \in Nat /\ Half >= 1 /\ size \in Nat /\ size <= 3 * Half
      /\ size > 2 * Half
      /\ Start = MBR_SIZE /\ sd_image_start = MBR_SIZE + 2 * Half
  BY Blocks DEF Numbers
<1>1. CASE k = 0
  <2>1. Dst(k) = MBR_SIZE /\ Length(k) = Half /\ k * Half = 0 /\ (k + 1) * Half = Half
    BY <1>0, <1>1, Blocks
  <2> QED
    BY <1>0, <1>1, <2>1
<1>2. CASE k = 1
  <2>1. /\ Dst(k) = MBR_SIZE + Half /\ Length(k) = Half /\ k * Half = Half
        /\ (k + 1) * Half = 2 * Half
    BY <1>0, <1>2, Blocks
  <2> QED
    BY <1>0, <1>2, <2>1
<1>3. CASE k = 2
  <2>1. Dst(k) = MBR_SIZE + 2 * Half /\ Length(k) = size - 2 * Half /\ k * Half = 2 * Half
    BY <1>0, <1>3, Blocks
  <2> QED
    BY <1>0, <1>3, <2>1
<1> QED
  BY <1>1, <1>2, <1>3

(* A page of the copy that is under way is erased, written or torn.        *)
LEMMA Copying ==
    ASSUME Types, Overlaps, Kept, UNCHANGED received, NEW k \in 0 .. 2,
           NEW i \in 0 .. Length(k) - 1, Progress(k, i), NEW v \in PageContents,
           flash' = [flash EXCEPT ![Dst(k) + i] = v]
    PROVE  /\ Kept' /\ Progress(k, i)'
           /\ v = flash[Dst(k) + 2 * Half + i] => Progress(k, i + 1)'
<1> DEFINE o == k * Half + i
<1>0. Numbers
  BY TheNumbers
<1>1. /\ o \in 0 .. size - 1 /\ o \in Int
      /\ Dst(k) + i = Start + o /\ Dst(k) + 2 * Half + i = sd_image_start + o
      /\ o < 3 * Half /\ (k < 2 => o < 2 * Half) /\ (k = 0 => o < Half)
      /\ (k >= 1 => Half <= o) /\ (k = 2 => 2 * Half <= o)
      /\ k * Half + (i + 1) = o + 1
  BY <1>0, PageOf
<1> HIDE DEF o
<1>2. flash' = [flash EXCEPT ![Start + o] = v]
  BY <1>1
<1>3. /\ \A n \in 0 .. o : Done(n) => Done(n)'
      /\ Done(o) /\ v = New(o) => Done(o + 1)'
      /\ \A from, to \in 0 .. size :
            o < 2 * Half + from /\ Intact(from, to) => Intact(from, to)'
      /\ o < Half /\ Overlaps /\ Differs => Differs'
  BY <1>1, <1>2, WriteKeeps
<1>4. /\ Done(o) /\ (k = 0 => Differs) /\ (k < 2 => Intact(0, Half))
      /\ Intact(Half, size)
  BY DEF Progress, Kept, o
<1>5. /\ Half \in 0 .. size /\ size \in 0 .. size /\ 0 \in 0 .. size
      /\ o < 2 * Half + Half /\ o \in 0 .. o
  BY <1>0, <1>1, Blocks DEF Numbers
<1>6. Done(o)' /\ Intact(Half, size)'
  <2>1. Done(o)'
    BY <1>3, <1>4, <1>5
  <2>2. size' = size
    BY DEF received
  <2>3. \A n \in 0 .. size : n = size => (Intact(Half, n) => Intact(Half, n)')
    BY <1>3, <1>5
  <2>4. Intact(Half, size) => Intact(Half, size)'
    BY <1>5, <2>2, <2>3 DEF Intact
  <2> QED
    BY <1>4, <2>1, <2>4
<1>7. k < 2 => Intact(0, Half)'
  BY <1>0, <1>1, <1>3, <1>4, <1>5 DEF Numbers
<1>8. k = 0 => Differs'
  BY <1>1, <1>3, <1>4
<1>9. Done(k * Half + i)'
  BY <1>6 DEF o
<1>10. Progress(k, i)'
  BY <1>7, <1>8, <1>9 DEF Progress
<1>11. k >= 1 => Done(Half)'
  BY <1>0, <1>1, <1>6, Fewer DEF Numbers
<1>12. k = 2 => Done(2 * Half)'
  BY <1>0, <1>1, <1>6, Fewer DEF Numbers
<1>13. Intact(0, Half)' \/ Done(2 * Half)'
  <2>1. k < 2 \/ k = 2
    OBVIOUS
  <2> QED
    BY <2>1, <1>7, <1>12
<1>14. Done(Half)' \/ Differs'
  <2>1. k = 0 \/ k >= 1
    OBVIOUS
  <2> QED
    BY <2>1, <1>8, <1>11
<1>15. Overlaps'
  BY Fixed
<1>16. Kept'
  BY <1>6, <1>13, <1>14, <1>15 DEF Kept
<1>17. ASSUME v = flash[Dst(k) + 2 * Half + i]
       PROVE  Progress(k, i + 1)'
  <2>1. v = New(o)
    <3>1. v = flash[sd_image_start + o]
      BY <1>1, <1>17
    <3>2. CASE k = 0
      <4>1. o \in 0 .. Half - 1
        BY <3>2, <1>0, <1>1 DEF Numbers
      <4> QED
        BY <3>1, <3>2, <4>1, <1>4 DEF Intact, Image
    <3>3. CASE k >= 1
      <4>1. o \in Half .. size - 1
        BY <3>3, <1>0, <1>1 DEF Numbers
      <4> QED
        BY <3>1, <4>1, <1>4 DEF Intact, Image
    <3> QED
      BY <3>2, <3>3
  <2>2. Done(o + 1)'
    BY <2>1, <1>3, <1>4
  <2>3. Done(k * Half + (i + 1))'
    BY <2>2, <1>1
  <2> QED
    BY <2>3, <1>7, <1>8 DEF Progress
<1> QED
  BY <1>10, <1>16, <1>17

(* The bootloader that came along is not written over.                     *)
LEMMA Beside ==
    ASSUME Types, UNCHANGED received, NEW o \in 0 .. size - 1, NEW v \in PageContents,
           flash' = [flash EXCEPT ![Start + o] = v]
    PROVE  flash'[bl_image_start'] = flash[bl_image_start]
<1>1. Numbers
  BY TheNumbers
<1>2. /\ size \in 0 .. size /\ o # 2 * Half + size
      /\ bl_image_start = sd_image_start + size
  BY <1>1, Blocks DEF Numbers
<1>3. bl_image_start' = bl_image_start
  BY Fixed
<1> QED
  BY <1>2, <1>3, WriteAt

(* One of the two pages is cleared, or torn.                               *)
LEMMA Clearing ==
    ASSUME Types, Overlaps, Kept, UNCHANGED received, Intact(0, Half),
           NEW o \in {0, Half}, NEW v \in {Blank} \cup Torn,
           o = 0 => flash[Start + Half] = Blank,
           flash' = [flash EXCEPT ![Start + o] = v]
    PROVE  /\ Kept' /\ Intact(0, Half)' /\ Differs'
           /\ o = 0 \/ v = Blank => flash'[Start + Half] = Blank
<1>0. Numbers
  BY TheNumbers
<1>1. /\ o \in 0 .. size - 1 /\ v \in PageContents /\ o < 2 * Half /\ o < 2 * Half + Half
      /\ Half \in 0 .. size /\ size \in 0 .. size /\ 0 \in 0 .. size
      /\ Half \in 0 .. 3 * Half /\ o # 2 * Half + Half
      /\ 0 \in 0 .. o
  BY <1>0, Blocks, Values DEF Numbers
<1>2. /\ \A from, to \in 0 .. size :
            o < 2 * Half + from /\ Intact(from, to) => Intact(from, to)'
  BY <1>1, WriteKeeps
<1>3. Intact(0, Half)'
  <2>1. o < 2 * Half + 0
    BY <1>0, <1>1 DEF Numbers
  <2> QED
    BY <2>1, <1>1, <1>2
<1>4. Intact(Half, size) /\ Intact(Half, size)'
  <2>1. size' = size
    BY DEF received
  <2>2. \A n \in 0 .. size : n = size => (Intact(Half, n) => Intact(Half, n)')
    BY <1>1, <1>2
  <2>3. Intact(Half, size) => Intact(Half, size)'
    BY <1>1, <2>1, <2>2 DEF Intact
  <2> QED
    BY <2>3 DEF Kept
<1>5. /\ flash'[Start + o] = v
      /\ \A i \in 0 .. 3 * Half : i # o => flash'[Start + i] = flash[Start + i]
  BY <1>1, WriteAt
<1>6. flash'[Start + Half] \in {Blank} \cup Torn
  <2>1. CASE o = Half
    BY <2>1, <1>5
  <2>2. CASE o # Half
    BY <2>2, <1>1, <1>5
  <2> QED
    BY <2>1, <2>2
<1>7. o = 0 \/ v = Blank => flash'[Start + Half] = Blank
  <2>1. CASE o = Half
    BY <2>1, <1>0, <1>5 DEF Numbers
  <2>2. CASE o # Half
    BY <2>2, <1>1, <1>5
  <2> QED
    BY <2>1, <2>2
<1>8. Differs'
  <2>1. Half \in Half .. size - 1 /\ Half \in Half .. 2 * Half - 1
    BY <1>0, Blocks DEF Numbers
  <2>2. size' = size
    BY DEF received
  <2>3. flash'[sd_image_start + Half] = New(Half)'
    BY <1>4, <2>1, <2>2 DEF Intact, Image
  <2>4. New(Half)' = New(Half)
    BY Fixed
  <2>5. flash'[Start + Half] # flash'[sd_image_start + Half]
    BY <1>6, <2>3, <2>4, Values
  <2> QED
    BY <2>1, <2>5 DEF Differs, Start
<1>9. Overlaps'
  BY Fixed
<1> QED
  BY <1>3, <1>4, <1>7, <1>8, <1>9 DEF Kept

(* The copy of an image that fits.                                         *)
LEMMA CopyingFits ==
    ASSUME Types, ~ Overlaps, Kept, UNCHANGED received, NEW o \in 0 .. size - 1, Done(o),
           NEW v \in PageContents, flash' = [flash EXCEPT ![Start + o] = v]
    PROVE  /\ Kept' /\ Done(o)'
           /\ v = flash[sd_image_start + o] => Done(o + 1)'
<1>0. Numbers
  BY TheNumbers
<1>1. /\ o \in 0 .. o /\ o < 2 * Half + 0 /\ 0 \in 0 .. size /\ size \in 0 .. size
  BY <1>0, Blocks DEF Numbers
<1>2. /\ \A n \in 0 .. o : Done(n) => Done(n)'
      /\ Done(o) /\ v = New(o) => Done(o + 1)'
      /\ \A from, to \in 0 .. size :
            o < 2 * Half + from /\ Intact(from, to) => Intact(from, to)'
  BY WriteKeeps
<1>3. Intact(0, size) /\ Intact(0, size)'
  <2>1. size' = size
    BY DEF received
  <2>2. \A n \in 0 .. size : n = size => (Intact(0, n) => Intact(0, n)')
    BY <1>1, <1>2
  <2>3. Intact(0, size) => Intact(0, size)'
    BY <1>1, <2>1, <2>2 DEF Intact
  <2> QED
    BY <2>3 DEF Kept
<1>4. ~ Overlaps'
  BY Fixed
<1>5. v = flash[sd_image_start + o] => v = New(o)
  BY <1>3 DEF Intact, Image
<1> QED
  BY <1>1, <1>2, <1>3, <1>4, <1>5 DEF Kept

(* What depends only on the flash and on what was received.                *)
LEMMA Still ==
    ASSUME UNCHANGED << flash, received >>
    PROVE  /\ Kept' <=> Kept
           /\ Differs' <=> Differs
           /\ \A n : Done(n)' <=> Done(n)
           /\ \A a, b : Intact(a, b)' <=> Intact(a, b)
           /\ \A k : Comparable(k)' <=> Comparable(k)
           /\ \A k, i : Progress(k, i)' <=> Progress(k, i)
<1> USE DEF received
<1>1. /\ \A i : New(i)' = New(i)
      /\ Overlaps' <=> Overlaps
  BY Fixed
<1>2. \A n : Done(n)' <=> Done(n)
  BY <1>1 DEF Done, InPlace, SOFTDEVICE_REGION_START
<1>3. \A a, b : Intact(a, b)' <=> Intact(a, b)
  BY <1>1 DEF Intact, Image, sd_image_start, SOFTDEVICE_REGION_START
<1>4. Differs' <=> Differs
  BY DEF Differs, Start, sd_image_start, SOFTDEVICE_REGION_START
<1>5. OldInfo' <=> OldInfo
  BY DEF OldInfo, Start, SOFTDEVICE_REGION_START
<1>6. Intact(Half, size)' <=> Intact(Half, size)
  BY <1>1 DEF Intact, Image, sd_image_start, SOFTDEVICE_REGION_START
<1>7. Intact(0, size)' <=> Intact(0, size)
  BY <1>1 DEF Intact, Image, sd_image_start, SOFTDEVICE_REGION_START
<1>8. Kept' <=> Kept
  BY <1>1, <1>2, <1>3, <1>4, <1>5, <1>6, <1>7 DEF Kept, Start, SOFTDEVICE_REGION_START
<1>9. \A k : Comparable(k)' <=> Comparable(k)
  BY <1>2, <1>3, <1>4 DEF Comparable
<1>10. \A k, i : Progress(k, i)' <=> Progress(k, i)
  BY <1>2, <1>3, <1>4 DEF Progress
<1> QED
  BY <1>2, <1>3, <1>4, <1>8, <1>9, <1>10

(* A comparison, in pages of the image.                                    *)
LEMMA SameBlock ==
    ASSUME Numbers, Overlaps, NEW k \in 0 .. 2
    PROVE  Same(Dst(k), Length(k)) <=>
              \A o \in k * Half .. k * Half + Length(k) - 1 :
                 flash[Start + o] = flash[sd_image_start + o]
<1>1. /\ Dst(k) = MBR_SIZE + k * Half /\ k * Half \in Nat /\ Length(k) \in Nat
  BY Blocks DEF Numbers, Dst, SOFTDEVICE_REGION_START, Length
<1> DEFINE b == k * Half  l == Length(k)
<1>2. /\ b \in Nat /\ l \in Nat /\ Dst(k) = MBR_SIZE + b
      /\ Start = MBR_SIZE /\ sd_image_start = MBR_SIZE + 2 * Half
      /\ MBR_SIZE \in Nat /\ Half \in Nat
  BY <1>1, Blocks DEF Numbers
<1> HIDE DEF b, l
<1>3. ASSUME Same(Dst(k), l), NEW o \in b .. b + l - 1
      PROVE  flash[Start + o] = flash[sd_image_start + o]
  <2>1. /\ Start + o \in Dst(k) .. Dst(k) + l - 1
        /\ (Start + o) + 2 * Half = sd_image_start + o
    BY <1>2
  <2>2. flash[Start + o] = flash[(Start + o) + 2 * Half]
    BY <1>3, <2>1 DEF Same
  <2> QED
    BY <2>1, <2>2
<1>4. ASSUME \A o \in b .. b + l - 1 : flash[Start + o] = flash[sd_image_start + o],
             NEW p \in Dst(k) .. Dst(k) + l - 1
      PROVE  flash[p] = flash[p + 2 * Half]
  <2>1. /\ p - MBR_SIZE \in b .. b + l - 1
        /\ Start + (p - MBR_SIZE) = p
        /\ sd_image_start + (p - MBR_SIZE) = p + 2 * Half
    BY <1>2
  <2>2. flash[Start + (p - MBR_SIZE)] = flash[sd_image_start + (p - MBR_SIZE)]
    BY <1>4, <2>1
  <2> QED
    BY <2>1, <2>2
<1> QED
  BY <1>3, <1>4 DEF Same, b, l

(* What a comparison of a block with the image tells.                      *)
LEMMA Compared ==
    ASSUME Types, Overlaps, Kept, NEW k \in 0 .. 2, Comparable(k)
    PROVE  IF Same(Dst(k), Length(k))
           THEN /\ k = 0 => Progress(1, 0)
                /\ k = 1 => Progress(2, 0)
                /\ k = 2 => Done(size)
           ELSE /\ k = 0 => Progress(0, 0)
                /\ k > 0 => Comparable(k - 1)
<1>0. Numbers
  BY TheNumbers
<1>1. /\ Intact(Half, size)
      /\ Intact(0, Half) \/ Done(2 * Half)
  BY DEF Kept
<1>2. /\ Done(Half) \/ Differs
      /\ k = 0 => Differs /\ Intact(0, Half)
  BY DEF Comparable
<1> DEFINE Like(o) == flash[Start + o] = flash[sd_image_start + o]
<1>3. Same(Dst(k), Length(k)) <=> \A o \in k * Half .. k * Half + Length(k) - 1 : Like(o)
  BY <1>0, SameBlock
<1>4. \A o \in 0 .. size - 1 : Image(o) => (Like(o) <=> InPlace(o))
  BY DEF Image, InPlace, Start
<1>5. CASE k = 0
  <2>1. Progress(0, 0)
    BY <1>2, <1>5, <1>0, Blocks DEF Progress, Done, Numbers
  <2>2. ASSUME Same(Dst(k), Length(k))
        PROVE  Progress(1, 0)
    <3>1. \A o \in 0 .. Half - 1 : Like(o) /\ Image(o) /\ o \in 0 .. size - 1
      BY <1>0, <1>2, <1>3, <1>5, <2>2, Blocks DEF Numbers, Intact
    <3>2. Done(1 * Half + 0)
      BY <1>0, <1>4, <3>1, Blocks DEF Done, Numbers
    <3> QED
      BY <3>2, <1>2, <1>5 DEF Progress
  <2> QED
    BY <1>5, <2>1, <2>2
<1>6. CASE k = 1
  <2>0. k * Half .. k * Half + Length(k) - 1 = Half .. 2 * Half - 1
    BY <1>0, <1>6, Blocks DEF Numbers
  <2>1. ASSUME Same(Dst(k), Length(k))
        PROVE  Progress(2, 0)
    <3>1. \A o \in Half .. 2 * Half - 1 : Like(o) /\ Image(o) /\ o \in 0 .. size - 1
      <4>1. \A o \in Half .. 2 * Half - 1 : o \in Half .. size - 1 /\ o \in 0 .. size - 1
        BY <1>0, Blocks DEF Numbers
      <4> QED
        BY <1>1, <1>3, <2>0, <2>1, <4>1 DEF Intact
    <3>2. ~ Differs
      BY <3>1 DEF Differs
    <3>3. \A o \in 0 .. (2 * Half + 0) - 1 :
             o \in 0 .. Half - 1 \/ o \in Half .. 2 * Half - 1
      BY <1>0 DEF Numbers
    <3>4. Done(2 * Half + 0)
      BY <1>2, <1>4, <3>1, <3>2, <3>3 DEF Done
    <3> QED
      BY <3>4 DEF Progress
  <2>2. ASSUME ~ Same(Dst(k), Length(k))
        PROVE  Comparable(k - 1)
    <3>1. PICK o \in Half .. 2 * Half - 1 : ~ Like(o)
      BY <1>3, <2>0, <2>2
    <3>2. Differs
      BY <3>1 DEF Differs
    <3>3. o \in Half .. size - 1 /\ o \in 0 .. 2 * Half - 1 /\ o \in 0 .. size - 1
      BY <1>0, <3>1, Blocks DEF Numbers
    <3>4. ~ InPlace(o)
      BY <1>1, <1>4, <3>1, <3>3 DEF Intact
    <3>5. ~ Done(2 * Half)
      BY <3>3, <3>4 DEF Done
    <3> QED
      BY <1>1, <3>2, <3>5 DEF Comparable
  <2> QED
    BY <1>6, <2>1, <2>2
<1>7. CASE k = 2
  <2>1. ASSUME Same(Dst(k), Length(k))
        PROVE  Done(size)
    <3>1. \A o \in 2 * Half .. size - 1 : Like(o) /\ Image(o) /\ o \in 0 .. size - 1
      <4>1. /\ k * Half .. k * Half + Length(k) - 1 = 2 * Half .. size - 1
            /\ \A o \in 2 * Half .. size - 1 : o \in Half .. size - 1 /\ o \in 0 .. size - 1
        BY <1>0, <1>7, Blocks DEF Numbers
      <4> QED
        BY <1>1, <1>3, <2>1, <4>1 DEF Intact
    <3>2. \A o \in 2 * Half .. size - 1 : InPlace(o)
      BY <1>4, <3>1
    <3>3. /\ 2 * Half \in 2 * Half .. size - 1
          /\ Start + 2 * Half = sd_image_start + 0
          /\ 0 \in 0 .. Half - 1
      BY <1>0, Blocks DEF Numbers
    <3>4. New(2 * Half) # New(0)
      <4>1. 2 * Half \notin like /\ 2 * Half # 0
        BY <1>0 DEF Types, Numbers
      <4> QED
        BY <4>1 DEF New, Old
    <3>5. ~ Image(0)
      <4>1. flash[sd_image_start + 0] = New(2 * Half)
        BY <3>2, <3>3 DEF InPlace, Start
      <4> QED
        BY <4>1, <3>4 DEF Image
    <3>6. Done(2 * Half)
      BY <1>1, <3>3, <3>5 DEF Intact
    <3>7. \A o \in 0 .. size - 1 : o \in 0 .. 2 * Half - 1 \/ o \in 2 * Half .. size - 1
      BY <1>0 DEF Numbers
    <3> QED
      BY <3>2, <3>6, <3>7 DEF Done
  <2>2. Comparable(k - 1)
    BY <1>2, <1>7 DEF Comparable
  <2> QED
    BY <1>7, <2>1, <2>2
<1> QED
  BY <1>5, <1>6, <1>7

(* What the old SoftDevice's size tells.                                   *)
LEMMA SizeTells ==
    ASSUME Types, Overlaps, Kept
    PROVE  IF SD_SIZE_GET < size THEN Intact(0, Half) ELSE Comparable(2)
<1>0. Numbers
  BY TheNumbers
<1> DEFINE page == flash[Start + InfoPage]
<1>1. SD_SIZE_GET = (IF page[1] = "old" THEN Start + 2 * Half
                     ELSE IF page[1] = "new" \/ page = << "torn", 1 >> THEN Start + size
                     ELSE Unprogrammed)
  BY DEF SD_SIZE_GET, Start
<1>2. /\ Intact(0, Half) \/ Done(2 * Half)
      /\ \/ Done(Half) \/ Differs
         \/ Start + 2 * Half < size /\ OldInfo
  BY DEF Kept
<1>3. CASE SD_SIZE_GET < size
  <2>1. page[1] = "old"
    BY <1>0, <1>1, <1>3, SdSwapAssumption, Blocks DEF Numbers
  <2>2. New(InfoPage) = << "new", InfoPage >>
    BY DEF Types, New
  <2>3. ~ InPlace(InfoPage)
    BY <2>1, <2>2 DEF InPlace, Start
  <2>4. InfoPage \in 0 .. 2 * Half - 1
    BY <1>0 DEF Numbers
  <2>5. ~ Done(2 * Half)
    BY <2>3, <2>4 DEF Done
  <2> QED
    BY <1>2, <1>3, <2>5
<1>4. CASE ~ (SD_SIZE_GET < size)
  <2>1. ~ (Start + 2 * Half < size /\ OldInfo)
    BY <1>1, <1>4 DEF OldInfo
  <2> QED
    BY <1>2, <1>4, <2>1 DEF Comparable
<1> QED
  BY <1>3, <1>4

(* The call of dfu_sd_image_validate() begins.                             *)
LEMMA Validating ==
    ASSUME Types, ~ TakenForOld => Kept, UNCHANGED << flash, received >>,
           todo' = dfu_sd_image_validate
    PROVE  /\ todo' # <<>>
           /\ IF Overlaps' THEN WithTail' ELSE Fitting'
<1>0. Numbers
  BY TheNumbers
<1>1. /\ Overlaps' <=> Overlaps
      /\ TakenForOld' <=> TakenForOld
  BY Fixed
<1>2. CASE Overlaps /\ SD_SIZE_GET < size
  <2>1. todo' = << Call("error", 2) >>
    BY <1>2 DEF dfu_sd_image_validate
  <2> QED
    BY <1>1, <1>2, <2>1 DEF WithTail, Call
<1>3. CASE Overlaps /\ ~ (SD_SIZE_GET < size)
  <2>1. todo' = << Call("swap", 2) >>
    BY <1>3 DEF dfu_sd_image_validate
  <2>2. << Call("swap", 2) >> = << Call("swap", 2) >> \o Behind(2)
    <3>1. Call("swap", 2) \in Jobs
      BY <1>0, JobsAre
    <3>2. << Call("swap", 2) >> \in Seq(Jobs)
      BY <3>1
    <3> QED
      BY <3>2, ConcatEmptySeq DEF Behind
  <2>3. ~ TakenForOld => Comparable(2)'
    BY <1>3, SizeTells, Still
  <2>4. Compares(2)'
    BY <1>1, <2>1, <2>2, <2>3, Fixed DEF Compares, Call
  <2> QED
    BY <1>1, <1>3, <2>1, <2>4 DEF WithTail
<1>4. CASE ~ Overlaps /\ ~ Same(SOFTDEVICE_REGION_START, size)
  <2>1. todo' = << Call("error", 0) >>
    BY <1>4 DEF dfu_sd_image_validate
  <2> QED
    BY <1>1, <1>4, <2>1 DEF Fitting, Call
<1>5. CASE ~ Overlaps /\ Same(SOFTDEVICE_REGION_START, size)
  <2>1. todo' = << Call("success", 0) >>
    BY <1>5 DEF dfu_sd_image_validate
  <2>2. ~ TakenForOld /\ Intact(0, size)
    BY <1>5 DEF TakenForOld, Kept
  <2>3. \A i \in 0 .. size - 1 : flash[Start + i] = flash[sd_image_start + i]
    <3>1. \A i \in 0 .. size - 1 : /\ Start + i \in Start .. Start + size - 1
                                   /\ (Start + i) + 2 * Half = sd_image_start + i
      BY <1>0, Blocks DEF Numbers
    <3>2. \A p \in Start .. Start + size - 1 : flash[p] = flash[p + 2 * Half]
      BY <1>5 DEF Same, Start
    <3> QED
      BY <3>1, <3>2
  <2>4. Done(size)
    BY <2>2, <2>3 DEF Done, Intact, Image, InPlace, Start
  <2>5. Done(size)'
    <3>1. size' = size
      BY DEF received
    <3>2. \A n : Done(n)' <=> Done(n)
      BY Still
    <3> QED
      BY <2>4, <3>1, <3>2 DEF Done
  <2> QED
    BY <1>1, <1>5, <2>1, <2>5 DEF Fitting, Call
<1> QED
  BY <1>2, <1>3, <1>4, <1>5

(* The call of dfu_sd_image_swap() begins.                                 *)
LEMMA Swapping ==
    ASSUME Types, ~ TakenForOld => Kept, UNCHANGED << flash, received >>,
           todo' = dfu_sd_image_swap
    PROVE  /\ todo' # <<>>
           /\ IF Overlaps' THEN WithTail' ELSE Fitting'
<1>0. Numbers
  BY TheNumbers
<1>1. /\ Overlaps' <=> Overlaps
      /\ TakenForOld' <=> TakenForOld
  BY Fixed
<1>2. CASE Overlaps
  <2> DEFINE a == Clear(1)  b == Clear(0)  c == Call("swap", 2)
  <2>1. a \in Jobs /\ b \in Jobs /\ c \in Jobs
    BY <1>0, <1>2, JobsAre
  <2>2. CASE SD_SIZE_GET < size
    <3>1. todo' = << a, b >> \o << c >>
      BY <1>2, <2>2 DEF dfu_sd_image_swap, Invalidate, Clear
    <3>2. << a, b >> \o << c >> = << a, b, c >>
      <4> HIDE DEF a, b, c
      <4>1. << a >> \in Seq(Jobs) /\ << b >> \in Seq(Jobs) /\ << c >> \in Seq(Jobs)
        BY <2>1
      <4>2. (<< a >> \o << b >>) \o << c >> = << a >> \o (<< b >> \o << c >>)
        BY <4>1, ConcatAssociative
      <4>3. << a >> \o << b >> = << a, b >>
        BY <2>1, JobTuples
      <4>4. << b >> \o << c >> = << b, c >>
        BY <2>1, JobTuples
      <4>5. << a >> \o << b, c >> = << a, b, c >>
        BY <2>1, JobTuples
      <4> QED
        BY <4>2, <4>3, <4>4, <4>5
    <3>3. ~ TakenForOld => Intact(0, Half)'
      BY <1>2, <2>2, SizeTells, Still
    <3>4. Clears'
      BY <1>1, <3>1, <3>2, <3>3
         DEF Clears, Clear, Call, Copy, Dst, SOFTDEVICE_REGION_START
    <3> QED
      BY <1>1, <1>2, <3>1, <3>2, <3>4 DEF WithTail
  <2>3. CASE ~ (SD_SIZE_GET < size)
    <3>1. << c >> \in Seq(Jobs)
      BY <2>1
    <3>2. /\ todo' = <<>> \o << c >> /\ <<>> \o << c >> = << c >>
          /\ << c >> = << c >> \o Behind(2)
      BY <1>2, <2>3, <3>1, ConcatEmptySeq DEF dfu_sd_image_swap, Invalidate, Behind
    <3>3. ~ TakenForOld => Comparable(2)'
      BY <1>2, <2>3, SizeTells, Still
    <3>4. Compares(2)'
      BY <1>1, <3>2, <3>3, Fixed DEF Compares, Call
    <3> QED
      BY <1>1, <1>2, <3>2, <3>4 DEF WithTail
  <2> QED
    BY <2>2, <2>3
<1>3. CASE ~ Overlaps
  <2>1. todo' = << Copy(sd_image_start, Start, size) >>
    BY <1>3 DEF dfu_sd_image_swap, Start
  <2>2. /\ sd_image_start + 0 = sd_image_start /\ Start + 0 = Start /\ size - 0 = size
        /\ 0 \in 0 .. size - 1 /\ size' = size
    BY <1>0, Blocks DEF Numbers, received
  <2>3. Done(0)'
    BY DEF Done
  <2>4. Fits(0)'
    BY <2>1, <2>2, <2>3 DEF Fits, Copy, Start, sd_image_start, SOFTDEVICE_REGION_START
  <2> QED
    BY <1>1, <1>3, <2>1, <2>2, <2>4 DEF Fitting
<1> QED
  BY <1>2, <1>3

Calls == {"validate", "swap", "revalidate"}

(* A call that has not returned goes on.                                   *)
LEMMA Going ==
    ASSUME todo' # <<>>, pending', stage' \in Calls,
           IF Overlaps' THEN WithTail' ELSE Fitting'
    PROVE  Working'
BY DEF Working, Calls

(* Block k is in place: the next one is copied, or none is left.           *)
LEMMA Turning ==
    ASSUME Numbers, Overlaps, UNCHANGED received, NEW k \in 0 .. 2, todo' = Behind(k),
           pending', stage' \in Calls,
           ~ TakenForOld => /\ k < 2 => Progress(k + 1, 0)'
                            /\ k = 2 => Done(size)'
    PROVE  Working'
<1>1. /\ Overlaps'
      /\ TakenForOld' <=> TakenForOld
      /\ \A j, i : CopyAt(j, i)' = CopyAt(j, i)
      /\ \A j : After(j)' = After(j)
      /\ \A j : Length(j)' = Length(j)
  BY Fixed
<1>2. CASE k = 2
  BY <1>1, <1>2, Unrolled DEF Working, Rests
<1>3. ASSUME NEW j \in {1, 2}, k = j - 1
      PROVE  Working'
  <2>1. Behind(k) = << CopyAt(j, 0) >> \o After(j)
    <3>1. CASE j = 1
      <4>1. k = 0
        BY <1>3, <3>1
      <4> QED
        BY <3>1, <4>1, Unrolled
    <3>2. CASE j = 2
      <4>1. k = 1
        BY <1>3, <3>2
      <4> QED
        BY <3>2, <4>1, Unrolled
    <3> QED
      BY <3>1, <3>2
  <2>2. CopyAt(j, 0) \in Jobs /\ After(j) \in Seq(Jobs) /\ 0 \in 0 .. Length(j) - 1
    <3>1. Length(1) = Half /\ Length(2) = size - (Half + Half) /\ size > Half + Half
      BY Blocks
    <3>2. 0 \in 0 .. Length(j) - 1
      BY <1>3, <3>1 DEF Numbers
    <3> QED
      BY <3>2, JobsAre, RestsAre
  <2>3. todo' # <<>>
    BY <2>1, <2>2, Cons
  <2>4. ~ TakenForOld => Progress(j, 0)'
    BY <1>3
  <2>5. Copies(j, 0)'
    BY <1>1, <2>1, <2>4 DEF Copies
  <2>6. WithTail'
    BY <1>1, <2>2, <2>5, <1>3 DEF WithTail
  <2> QED
    BY <1>1, <2>3, <2>6, Going
<1> QED
  BY <1>2, <1>3

(* Where it is, when something is left to do.                              *)
LEMMA WorkingNow ==
    ASSUME IInv, todo # <<>>
    PROVE  /\ Numbers /\ pending /\ stage \in Calls
           /\ IF Overlaps THEN WithTail ELSE Fitting
BY TheNumbers DEF IInv, Working, Calls

(* The power comes back.                                                   *)
LEMMA PowerOnStep ==
    ASSUME IInv, PowerOn
    PROVE  IInv'
<1>1. /\ stage = "off" /\ pending
      /\ stage' = "validate" /\ todo' = dfu_sd_image_validate
      /\ UNCHANGED <<flash, bl, received, pending, nfails>>
  BY DEF PowerOn, Enter, IInv, Bootloader
<1>2. Types' /\ Bootloader'
  BY <1>1, Fixed DEF IInv, Types, Bootloader, received
<1>3. ~ TakenForOld' => Kept'
  BY <1>1, Fixed, Still DEF IInv
<1>4. Working'
  BY <1>1, Validating, Going DEF IInv, Calls
<1> QED
  BY <1>2, <1>3, <1>4 DEF IInv

(* A block is compared, and the recursion goes on from it.                 *)
LEMMA CompareBlockStep ==
    ASSUME IInv, CompareBlock
    PROVE  IInv'
<1>1. /\ todo # <<>> /\ Head(todo).op = "swap"
      /\ UNCHANGED <<flash, bl, received, pending, stage, nfails>>
  BY DEF CompareBlock
<1>2. Types' /\ Bootloader'
  BY <1>1, Fixed DEF IInv, Types, Bootloader, received
<1>3. ~ TakenForOld' => Kept'
  BY <1>1, Fixed, Still DEF IInv
<1>4. Numbers /\ pending' /\ stage' \in Calls
  BY <1>1, WorkingNow
<1>5. Overlaps /\ WithTail
  BY <1>1, WorkingNow, WhereFits
<1>6. PICK k \in 0 .. 2 : Compares(k)
  BY <1>1, <1>4, <1>5, WhereTail
<1>7. Head(todo).page = k /\ Tail(todo) = Behind(k)
  <2>1. Head(todo) = Call("swap", k) /\ Tail(todo) = Behind(k)
    BY <1>4, <1>5, <1>6, ComparesHead
  <2> QED
    BY <2>1 DEF Call
<1>8. todo' = (IF Same(Dst(k), Length(k)) THEN <<>> ELSE BlockSwap(k)) \o Behind(k)
  BY <1>7 DEF CompareBlock
<1>9. ~ TakenForOld => Kept /\ Comparable(k)
  BY <1>6 DEF IInv, Compares
<1>10. /\ Overlaps'
       /\ TakenForOld' <=> TakenForOld
       /\ \A j : Behind(j)' = Behind(j) /\ After(j)' = After(j)
       /\ \A j, i : CopyAt(j, i)' = CopyAt(j, i)
       /\ \A j : Length(j)' = Length(j)
  BY <1>1, <1>5, Fixed
<1>11. Behind(k) \in Seq(Jobs)
  BY <1>4, <1>5, RestsAre
<1>12. CASE Same(Dst(k), Length(k))
  <2>1. todo' = Behind(k)
    BY <1>8, <1>11, <1>12, ConcatEmptySeq
  <2>2. ~ TakenForOld => /\ k = 0 => Progress(1, 0)
                         /\ k = 1 => Progress(2, 0)
                         /\ k = 2 => Done(size)
    BY <1>5, <1>9, <1>12, Compared DEF IInv
  <2>3. Done(size) => Done(size)'
    BY <1>1, Still DEF Done, received
  <2>4. ~ TakenForOld => /\ k < 2 => Progress(k + 1, 0)'
                         /\ k = 2 => Done(size)'
    BY <1>1, <2>2, <2>3, Still
  <2>5. Working'
    BY <1>1, <1>4, <1>5, <2>1, <2>4, Turning
  <2> QED
    BY <1>2, <1>3, <2>5 DEF IInv
<1>13. CASE ~ Same(Dst(k), Length(k))
  <2>1. ~ TakenForOld => /\ k = 0 => Progress(0, 0)
                         /\ k > 0 => Comparable(k - 1)
    BY <1>5, <1>9, <1>13, Compared DEF IInv
  <2>2. todo' = BlockSwap(k) \o Behind(k)
    BY <1>8, <1>13
  <2>3. CASE k = 0
    <3>1. todo' = << CopyAt(0, 0) >> \o After(0)
      BY <1>4, <1>5, <2>2, <2>3, Unrolled
    <3>2. CopyAt(0, 0) \in Jobs /\ After(0) \in Seq(Jobs) /\ 0 \in 0 .. Length(0) - 1
      BY <1>4, <1>5, JobsAre, RestsAre, Blocks DEF Numbers
    <3>3. Copies(0, 0)'
      BY <1>1, <1>10, <2>1, <2>3, <3>1, Still DEF Copies
    <3>4. WithTail'
      BY <1>10, <3>2, <3>3 DEF WithTail
    <3> QED
      BY <1>2, <1>3, <1>4, <1>10, <3>1, <3>2, <3>4, Going, Cons DEF IInv
  <2>4. ASSUME NEW j \in {0, 1}, k = j + 1
        PROVE  IInv'
    <3>1. todo' = << Call("swap", j) >> \o Behind(j)
      <4>1. (j = 0 /\ k = 1) \/ (j = 1 /\ k = 2)
        BY <2>4
      <4> QED
        BY <4>1, <1>4, <1>5, <2>2, Unrolled
    <3>2. Call("swap", j) \in Jobs /\ Behind(j) \in Seq(Jobs)
      BY <1>4, <1>5, JobsAre, RestsAre
    <3>3. ~ TakenForOld => Comparable(j)
      BY <2>1, <2>4
    <3>4. Compares(j)'
      BY <1>1, <1>10, <3>1, <3>3, Still DEF Compares, Call
    <3>5. WithTail'
      BY <3>4 DEF WithTail
    <3> QED
      BY <1>2, <1>3, <1>4, <1>10, <3>1, <3>2, <3>5, Going, Cons DEF IInv
  <2> QED
    BY <2>3, <2>4
<1> QED
  BY <1>12, <1>13

(* A page of the SoftDevice's place is written: what does not depend on    *)
(* which.                                                                  *)
LEMMA Wrote ==
    ASSUME IInv, UNCHANGED << bl, received, pending >>, NEW o \in 0 .. size - 1,
           NEW v \in PageContents, flash' = [flash EXCEPT ![Start + o] = v],
           stage' = stage \/ (stage' = "off" /\ stage # "done"), nfails' \in 0 .. MaxFails
    PROVE  Types' /\ Bootloader'
<1>1. flash' \in [Pages -> PageContents]
  BY WriteAt DEF IInv
<1>2. flash'[bl_image_start'] = flash[bl_image_start]
  BY Beside DEF IInv
<1>3. Types'
  BY <1>1 DEF IInv, Types, received
<1>4. Bootloader'
  BY <1>2 DEF IInv, Bootloader, received
<1> QED
  BY <1>3, <1>4

(* A page is erased, of a copy or to be cleared.                           *)
LEMMA ErasePageStep ==
    ASSUME IInv, ErasePage
    PROVE  IInv'
<1>1. /\ todo # <<>> /\ Head(todo).op = "erase"
      /\ flash' = [flash EXCEPT ![Head(todo).page] = Blank]
      /\ todo' = << Begun(Head(todo)) >> \o Tail(todo)
      /\ UNCHANGED <<bl, received, pending, stage, nfails>>
  BY DEF ErasePage, Begun
<1>2. Numbers /\ pending' /\ stage' \in Calls
  BY <1>1, WorkingNow
<1>3. /\ Overlaps' <=> Overlaps
      /\ TakenForOld' <=> TakenForOld
      /\ \A j : Behind(j)' = Behind(j) /\ After(j)' = After(j)
      /\ \A j, i : CopyAt(j, i)' = CopyAt(j, i)
      /\ \A j : Length(j)' = Length(j)
  BY <1>1, Fixed
<1>4. Blank \in PageContents /\ nfails' \in 0 .. MaxFails /\ Types
  BY <1>1, Values DEF IInv, Types
<1>5. CASE ~ Overlaps
  <2>1. Fitting
    BY <1>1, <1>5, WorkingNow
  <2>2. PICK i \in 0 .. size - 1 : Fits(i)
    BY <1>1, <1>2, <1>5, <2>1, WhereFits
  <2> DEFINE c == Copy(sd_image_start + i, Start + i, size - i)
  <2>3. /\ Head(todo) = c \/ Head(todo) = Begun(c)
        /\ Tail(todo) = <<>>
    BY <1>2, <1>5, <2>2, FitsHead
  <2>4. Head(todo) = c /\ c.page = Start + i
    BY <1>1, <2>3 DEF Copy, Begun
  <2>5. flash' = [flash EXCEPT ![Start + i] = Blank]
    BY <1>1, <2>4
  <2>6. ~ TakenForOld /\ Kept /\ Done(i)
    BY <1>5, <2>2 DEF TakenForOld, IInv, Fits
  <2>7. Kept' /\ Done(i)'
    BY <1>1, <1>4, <1>5, <2>5, <2>6, CopyingFits
  <2>8. todo' = << Begun(c) >>
    <3>1. c \in Jobs /\ Begun(c) \in Jobs
      BY <1>2, <1>5, JobsAre
    <3>2. << Begun(c) >> \in Seq(Jobs)
      BY <3>1
    <3> QED
      BY <1>1, <2>3, <2>4, <3>2, ConcatEmptySeq
  <2>9. Fits(i)'
    BY <1>1, <2>7, <2>8 DEF Fits, received, sd_image_start, Start, SOFTDEVICE_REGION_START
  <2>10. Fitting' /\ todo' # <<>>
    BY <1>1, <2>8, <2>9 DEF Fitting, received
  <2>11. Working'
    BY <1>2, <1>3, <1>5, <2>10, Going
  <2>12. Types' /\ Bootloader'
    BY <1>1, <1>4, <2>5, Wrote
  <2> QED
    BY <2>7, <2>11, <2>12 DEF IInv
<1>6. CASE Overlaps
  <2>1. WithTail
    BY <1>1, <1>6, WorkingNow
  <2>2. Clears \/ \E k \in 0 .. 2 : \E i \in 0 .. Length(k) - 1 : Copies(k, i)
    BY <1>1, <1>2, <1>6, <2>1, WhereTail
  <2>3. ASSUME NEW k \in 0 .. 2, NEW i \in 0 .. Length(k) - 1, Copies(k, i)
        PROVE  IInv'
    <3>1. /\ Head(todo) = CopyAt(k, i) \/ Head(todo) = Begun(CopyAt(k, i))
          /\ Tail(todo) = After(k)
      BY <1>2, <1>6, <2>3, CopiesHead
    <3>2. Head(todo) = CopyAt(k, i) /\ Head(todo).page = Dst(k) + i
      BY <1>1, <3>1 DEF CopyAt, Copy, Begun
    <3>3. /\ flash' = [flash EXCEPT ![Dst(k) + i] = Blank]
          /\ todo' = << Begun(CopyAt(k, i)) >> \o After(k)
      BY <1>1, <3>1, <3>2
    <3>4. ~ TakenForOld => Kept' /\ Progress(k, i)'
      <4>1. ~ TakenForOld => Kept /\ Progress(k, i)
        BY <2>3 DEF IInv, Copies
      <4>2. flash' = [flash EXCEPT ![Dst(k) + i] = Blank] /\ received' = received
        BY <1>1, <3>3
      <4> QED
        BY <1>4, <1>6, <4>1, <4>2, Copying
    <3>5. Copies(k, i)'
      BY <1>3, <3>3, <3>4 DEF Copies, Begun
    <3>6. Begun(CopyAt(k, i)) \in Jobs /\ After(k) \in Seq(Jobs)
      BY <1>2, <1>6, JobsAre, RestsAre
    <3>7. WithTail' /\ todo' # <<>>
      BY <1>3, <3>3, <3>5, <3>6, Cons DEF WithTail
    <3>8. Working'
      BY <1>2, <1>3, <1>6, <3>7, Going
    <3>9. /\ k * Half + i \in 0 .. size - 1
          /\ flash' = [flash EXCEPT ![Start + (k * Half + i)] = Blank]
      BY <1>2, <1>6, <3>3, PageOf
    <3>10. Types' /\ Bootloader'
      BY <1>1, <1>4, <3>9, Wrote
    <3> QED
      BY <1>3, <3>4, <3>8, <3>10 DEF IInv
  <2>4. CASE Clears
    <3> DEFINE rest == << Clear(0), Call("swap", 2) >>
               last == << Call("swap", 2) >>
    <3>1. \/ Head(todo) = Clear(1) /\ Tail(todo) = rest
          \/ Head(todo) = Clear(0) /\ Tail(todo) = last /\ flash[Start + Half] = Blank
      <4>1. Begun(Clear(0)).op = "write" /\ Begun(Clear(1)).op = "write"
        BY Ops
      <4> QED
        BY <1>1, <1>2, <1>6, <2>4, <4>1, ClearsHead
    <3>2. PICK o \in {0, Half} : /\ Head(todo).page = Start + o
                                 /\ o = 0 => flash[Start + Half] = Blank
                                 /\ o \in 0 .. size - 1
      <4>1. /\ Clear(1).page = Start + Half /\ Clear(0).page = Start + 0
            /\ 0 # Half /\ 0 \in 0 .. size - 1 /\ Half \in 0 .. size - 1
        BY <1>2, <1>6, Blocks DEF Clear, Copy, Numbers
      <4> QED
        BY <3>1, <4>1
    <3>3. flash' = [flash EXCEPT ![Start + o] = Blank]
      BY <1>1, <3>2
    <3>4. flash'[Start + Half] = Blank
      <4>1. Half \in 0 .. 3 * Half
        BY <1>2 DEF Numbers
      <4>2. /\ flash'[Start + o] = Blank
            /\ \A i \in 0 .. 3 * Half : i # o => flash'[Start + i] = flash[Start + i]
        BY <1>1, <1>4, <3>2, <3>3, WriteAt
      <4>3. o = Half \/ o = 0
        OBVIOUS
      <4> QED
        BY <3>2, <4>1, <4>2, <4>3
    <3>5. ~ TakenForOld => Kept' /\ Intact(0, Half)'
      BY <1>1, <1>4, <1>6, <2>4, <3>2, <3>3, Clearing DEF IInv, Clears
    <3>6. \/ todo' = << Begun(Clear(1)), Clear(0), Call("swap", 2) >>
          \/ todo' = << Begun(Clear(0)), Call("swap", 2) >>
      <4>1. /\ Begun(Clear(1)) \in Jobs /\ Begun(Clear(0)) \in Jobs /\ Clear(0) \in Jobs
            /\ Call("swap", 2) \in Jobs
        BY <1>2, <1>6, JobsAre
      <4>2. << Begun(Clear(1)) >> \o rest = << Begun(Clear(1)), Clear(0), Call("swap", 2) >>
        BY <4>1, JobTuples
      <4>3. << Begun(Clear(0)) >> \o last = << Begun(Clear(0)), Call("swap", 2) >>
        BY <4>1, JobTuples
      <4> QED
        BY <1>1, <3>1, <4>2, <4>3
    <3>7. Clears' /\ todo' # <<>>
      <4>1. ~ TakenForOld' => Intact(0, Half)'
        BY <1>3, <3>5
      <4>2. (flash[Start + Half] = Blank)'
        BY <3>4 DEF Start, SOFTDEVICE_REGION_START, Blank
      <4>3. (todo \in {<< Begun(Clear(1)), Clear(0), Call("swap", 2) >>,
                       << Clear(0), Call("swap", 2) >>,
                       << Begun(Clear(0)), Call("swap", 2) >>})'
        BY <3>6 DEF Begun, Clear, Call, Copy, Dst, SOFTDEVICE_REGION_START
      <4>4. Clears'
        BY <4>1, <4>2, <4>3 DEF Clears
      <4>5. todo' # <<>>
        BY <3>6
      <4> QED
        BY <4>4, <4>5
    <3>8. WithTail'
      BY <3>7 DEF WithTail
    <3>9. Working'
      BY <1>2, <1>3, <1>6, <3>7, <3>8, Going
    <3>10. Types' /\ Bootloader'
      BY <1>1, <1>4, <3>2, <3>3, Wrote
    <3> QED
      BY <1>3, <3>5, <3>9, <3>10 DEF IInv
  <2> QED
    BY <2>2, <2>3, <2>4
<1> QED
  BY <1>5, <1>6

(* A page is written; a page that is cleared is copied from itself.        *)
LEMMA WritePageStep ==
    ASSUME IInv, WritePage
    PROVE  IInv'
<1> DEFINE c == Head(todo)
           next == Copy(c.from + 1, c.page + 1, c.len - 1)
<1>1. /\ todo # <<>> /\ c.op = "write"
      /\ flash' = [flash EXCEPT ![c.page] = flash[c.from]]
      /\ todo' = (IF c.len > 1 THEN << next >> ELSE <<>>) \o Tail(todo)
      /\ UNCHANGED <<bl, received, pending, stage, nfails>>
  BY DEF WritePage
<1>2. Numbers /\ pending' /\ stage' \in Calls
  BY <1>1, WorkingNow
<1>3. /\ Overlaps' <=> Overlaps
      /\ TakenForOld' <=> TakenForOld
      /\ \A j : Behind(j)' = Behind(j) /\ After(j)' = After(j)
      /\ \A j, i : CopyAt(j, i)' = CopyAt(j, i)
      /\ \A j : Length(j)' = Length(j)
  BY <1>1, Fixed
<1>4. nfails' \in 0 .. MaxFails /\ Types /\ \A p \in Pages : flash[p] \in PageContents
  BY <1>1 DEF IInv, Types
<1>5. CASE ~ Overlaps
  <2>1. Fitting
    BY <1>1, <1>5, WorkingNow
  <2>2. PICK i \in 0 .. size - 1 : Fits(i)
    BY <1>1, <1>2, <1>5, <2>1, WhereFits
  <2> DEFINE d == Copy(sd_image_start + i, Start + i, size - i)
             v == flash[sd_image_start + i]
  <2>3. /\ c = d \/ c = Begun(d)
        /\ Tail(todo) = <<>>
    BY <1>2, <1>5, <2>2, FitsHead
  <2>4. c = Begun(d)
    BY <1>1, <2>3 DEF Copy
  <2>5. c.page = Start + i /\ c.from = sd_image_start + i /\ c.len = size - i
    BY <2>4 DEF Copy, Begun
  <2>6. flash' = [flash EXCEPT ![Start + i] = v] /\ v \in PageContents
    <3>1. sd_image_start + i \in Pages
      BY <1>2, <1>5, Blocks DEF Numbers
    <3> QED
      BY <1>1, <1>4, <2>5, <3>1
  <2>7. ~ TakenForOld /\ Kept /\ Done(i)
    BY <1>5, <2>2 DEF TakenForOld, IInv, Fits
  <2>8. Kept' /\ Done(i + 1)'
    BY <1>1, <1>4, <1>5, <2>6, <2>7, CopyingFits
  <2>9. Types' /\ Bootloader'
    BY <1>1, <1>4, <2>6, Wrote
  <2>10. CASE i + 1 < size
    <3>1. todo' = << next >>
      <4>1. c.len > 1
        BY <1>2, <2>5, <2>10 DEF Numbers
      <4>2. todo' = << next >> \o <<>>
        BY <1>1, <2>3, <4>1
      <4>3. next \in {next} /\ << next >> \in Seq({next})
        OBVIOUS
      <4> HIDE DEF next
      <4> QED
        BY <4>2, <4>3, ConcatEmptySeq
    <3>2. next = Copy(sd_image_start + (i + 1), Start + (i + 1), size - (i + 1))
      BY <1>2, <2>5, Blocks DEF Numbers
    <3>3. i + 1 \in 0 .. size - 1
      BY <1>2, <2>10 DEF Numbers
    <3>4. Fits(i + 1)'
      BY <1>1, <2>8, <3>1, <3>2
         DEF Fits, received, Copy, sd_image_start, Start, SOFTDEVICE_REGION_START
    <3>5. Fitting'
      BY <1>1, <3>3, <3>4 DEF Fitting, received
    <3>7. todo' # <<>>
      <4> HIDE DEF next
      <4> QED
        BY <3>1
    <3>6. Working'
      BY <1>2, <1>3, <1>5, <3>5, <3>7, Going
    <3> QED
      BY <2>8, <2>9, <3>6 DEF IInv
  <2>11. CASE ~ (i + 1 < size)
    <3>1. i + 1 = size /\ ~ (c.len > 1)
      BY <1>2, <2>5, <2>11 DEF Numbers
    <3>2. todo' = <<>>
      <4>1. todo' = <<>> \o <<>>
        BY <1>1, <2>3, <3>1
      <4>2. <<>> \in Seq(Jobs)
        OBVIOUS
      <4> QED
        BY <4>1, <4>2, ConcatEmptySeq
    <3>3. Done(size)'
      BY <1>1, <2>8, <3>1 DEF Done, received
    <3>4. Working'
      BY <3>2, <3>3 DEF Working, Rests
    <3> QED
      BY <2>8, <2>9, <3>4 DEF IInv
  <2> QED
    BY <2>10, <2>11
<1>6. CASE Overlaps
  <2>1. WithTail
    BY <1>1, <1>6, WorkingNow
  <2>2. Clears \/ \E k \in 0 .. 2 : \E i \in 0 .. Length(k) - 1 : Copies(k, i)
    BY <1>1, <1>2, <1>6, <2>1, WhereTail
  <2>3. ASSUME NEW k \in 0 .. 2, NEW i \in 0 .. Length(k) - 1, Copies(k, i)
        PROVE  IInv'
    <3> DEFINE v == flash[Dst(k) + 2 * Half + i]
    <3>1. /\ c = CopyAt(k, i) \/ c = Begun(CopyAt(k, i))
          /\ Tail(todo) = After(k)
      BY <1>2, <1>6, <2>3, CopiesHead
    <3>2. c = Begun(CopyAt(k, i))
      BY <1>1, <3>1 DEF CopyAt, Copy
    <3>3. c.page = Dst(k) + i /\ c.from = Dst(k) + 2 * Half + i /\ c.len = Length(k) - i
      BY <3>2 DEF CopyAt, Copy, Begun
    <3>4. /\ k * Half + i \in 0 .. size - 1 /\ i \in Nat
          /\ Dst(k) + i = Start + (k * Half + i)
          /\ Dst(k) + 2 * Half + i = sd_image_start + (k * Half + i)
      BY <1>2, <1>6, PageOf
    <3>5. v \in PageContents
      <4>1. sd_image_start + (k * Half + i) \in Pages
        <5>1. \A o \in 0 .. size - 1 : sd_image_start + o \in Pages
          BY <1>2, Blocks DEF Numbers
        <5> QED
          BY <3>4, <5>1
      <4> QED
        BY <1>4, <3>4, <4>1
    <3>6. flash' = [flash EXCEPT ![Dst(k) + i] = v]
      BY <1>1, <3>3
    <3>7. Types' /\ Bootloader'
      BY <1>1, <1>4, <3>4, <3>5, <3>6, Wrote
    <3>8. ~ TakenForOld => Kept' /\ Progress(k, i + 1)'
      <4>1. ~ TakenForOld => Kept /\ Progress(k, i)
        BY <2>3 DEF IInv, Copies
      <4> HIDE DEF c, next
      <4>2. received' = received
        BY <1>1
      <4>3. v = flash[Dst(k) + 2 * Half + i]
        OBVIOUS
      <4> HIDE DEF v
      <4> QED
        BY <1>4, <1>6, <3>5, <3>6, <4>1, <4>2, <4>3, Copying
    <3>9. /\ Dst(k) \in Int /\ Length(k) \in Int
          /\ CopyAt(k, i + 1) = Copy(Dst(k) + 2 * Half + (i + 1), Dst(k) + (i + 1),
                                     Length(k) - (i + 1))
      BY <1>2, Blocks DEF CopyAt, Numbers
    <3>10. CASE i + 1 < Length(k)
      <4>1. i + 1 \in 0 .. Length(k) - 1 /\ c.len > 1
        BY <3>3, <3>4, <3>9, <3>10
      <4>2. next = CopyAt(k, i + 1)
        BY <1>2, <3>3, <3>4, <3>9 DEF Numbers
      <4>3. todo' = << CopyAt(k, i + 1) >> \o After(k)
        BY <1>1, <3>1, <4>1, <4>2
      <4>4. Copies(k, i + 1)'
        BY <1>3, <3>8, <4>3 DEF Copies
      <4>5. CopyAt(k, i + 1) \in Jobs /\ After(k) \in Seq(Jobs)
        BY <1>2, <1>6, <4>1, JobsAre, RestsAre
      <4>6. WithTail' /\ todo' # <<>>
        BY <1>3, <4>1, <4>3, <4>4, <4>5, Cons DEF WithTail
      <4>7. Working'
        BY <1>2, <1>3, <1>6, <4>6, Going
      <4> QED
        BY <1>3, <3>7, <3>8, <4>7 DEF IInv
    <3>11. CASE ~ (i + 1 < Length(k))
      <4>1. i + 1 = Length(k) /\ ~ (c.len > 1)
        BY <3>3, <3>4, <3>9, <3>11
      <4>2. After(k) \in Seq(Jobs)
        BY <1>2, <1>6, RestsAre
      <4>3. todo' = After(k)
        BY <1>1, <3>1, <4>1, <4>2, ConcatEmptySeq
      <4>4. Checks(k)'
        BY <1>3, <3>8, <4>1, <4>3 DEF Checks
      <4>5. After(k) # <<>>
        BY <1>2, <1>6, JobsAre, RestsAre, Cons DEF After
      <4>6. WithTail' /\ todo' # <<>>
        BY <4>3, <4>4, <4>5 DEF WithTail
      <4>7. Working'
        BY <1>2, <1>3, <1>6, <4>6, Going
      <4> QED
        BY <1>3, <3>7, <3>8, <4>7 DEF IInv
    <3> QED
      BY <3>10, <3>11
  <2>4. CASE Clears
    <3> DEFINE rest == << Clear(0), Call("swap", 2) >>
               last == << Call("swap", 2) >>
    <3>1. /\ \/ c = Begun(Clear(1)) /\ Tail(todo) = rest
             \/ c = Begun(Clear(0)) /\ Tail(todo) = last
          /\ flash[Start + Half] = Blank
      <4>1. Clear(0).op = "erase" /\ Clear(1).op = "erase"
        BY Ops
      <4> QED
        BY <1>1, <1>2, <1>6, <2>4, <4>1, ClearsHead
    <3>2. /\ \A k : /\ Begun(Clear(k)).page = Dst(k) /\ Begun(Clear(k)).from = Dst(k)
                    /\ Begun(Clear(k)).len = 1
      BY DEF Begun, Clear, Copy
    <3>3. c.page = c.from /\ ~ (c.len > 1)
      BY <3>1, <3>2
    <3>4. flash' = flash /\ received' = received
      <4>1. flash \in [Pages -> PageContents]
        BY <1>4 DEF Types
      <4>2. flash' = [flash EXCEPT ![c.page] = flash[c.page]]
        BY <1>1, <3>3
      <4> HIDE DEF c
      <4> QED
        BY <1>1, <4>1, <4>2
    <3>5. /\ Clear(0) \in Jobs /\ Call("swap", 2) \in Jobs
      BY <1>2, <1>6, JobsAre
    <3>6. todo' = Tail(todo)
      <4>1. rest \in Seq(Jobs) /\ last \in Seq(Jobs)
        BY <3>5
      <4> QED
        BY <1>1, <3>1, <3>3, <4>1, ConcatEmptySeq
    <3>7. ~ TakenForOld' => Kept'
      BY <1>1, <1>3, <3>4, Still DEF IInv
    <3>8. Types' /\ Bootloader'
      BY <1>1, <3>4, Fixed DEF IInv, Types, Bootloader, received
    <3>9. ~ TakenForOld => Kept /\ Intact(0, Half)
      BY <2>4 DEF IInv, Clears
    <3>10. CASE Tail(todo) = rest
      <4>1. ~ TakenForOld' => Intact(0, Half)'
        BY <1>3, <3>4, <3>9, Still
      <4>2. (flash[Start + Half] = Blank)'
        BY <3>1, <3>4 DEF Start, SOFTDEVICE_REGION_START, Blank
      <4>3. (todo \in {<< Begun(Clear(1)), Clear(0), Call("swap", 2) >>,
                       << Clear(0), Call("swap", 2) >>,
                       << Begun(Clear(0)), Call("swap", 2) >>})'
        BY <3>6, <3>10 DEF Begun, Clear, Call, Copy, Dst, SOFTDEVICE_REGION_START
      <4>4. Clears'
        BY <4>1, <4>2, <4>3 DEF Clears
      <4>5. todo' # <<>>
        BY <3>6, <3>10
      <4>6. WithTail'
        BY <4>4 DEF WithTail
      <4>7. Working'
        BY <1>2, <1>3, <1>6, <4>5, <4>6, Going
      <4> QED
        BY <3>7, <3>8, <4>7 DEF IInv
    <3>11. CASE Tail(todo) = last
      <4>1. last = last \o Behind(2)
        <5>1. last \in Seq(Jobs)
          BY <3>5
        <5> QED
          BY <5>1, ConcatEmptySeq DEF Behind
      <4>2. ~ TakenForOld => Comparable(2)
        <5>1. SUFFICES ASSUME ~ TakenForOld
                       PROVE  Differs
          BY DEF Comparable
        <5>2. Half \in Half .. size - 1 /\ Half \in Half .. 2 * Half - 1
          BY <1>2, <1>6, Blocks DEF Numbers
        <5>3. Intact(Half, size)
          BY <1>6, <3>9, <5>1 DEF Kept
        <5>4. flash[sd_image_start + Half] = New(Half)
          BY <5>2, <5>3 DEF Intact, Image
        <5> QED
          BY <1>4, <3>1, <5>2, <5>4, Values DEF Differs
      <4>3. Compares(2)'
        BY <1>3, <3>4, <3>6, <3>11, <4>1, <4>2, Still DEF Compares, Call
      <4>4. WithTail'
        BY <4>3 DEF WithTail
      <4>5. todo' # <<>>
        BY <3>6, <3>11
      <4>6. Working'
        BY <1>2, <1>3, <1>6, <4>4, <4>5, Going
      <4> QED
        BY <3>7, <3>8, <4>6 DEF IInv
    <3> QED
      BY <3>1, <3>10, <3>11
  <2> QED
    BY <2>2, <2>3, <2>4
<1> QED
  BY <1>5, <1>6

(* A check succeeds.                                                       *)
LEMMA CheckBlockStep ==
    ASSUME IInv, CheckBlock
    PROVE  IInv'
<1>1. /\ todo # <<>> /\ Head(todo).op \in {"check", "success"} /\ todo' = Tail(todo)
      /\ UNCHANGED <<flash, bl, received, pending, stage, nfails>>
  BY DEF CheckBlock
<1>2. Numbers /\ pending' /\ stage' \in Calls
  BY <1>1, WorkingNow
<1>3. Types' /\ Bootloader'
  BY <1>1, Fixed DEF IInv, Types, Bootloader, received
<1>4. ~ TakenForOld' => Kept'
  BY <1>1, Fixed, Still DEF IInv
<1>5. Done(size) => Done(size)'
  BY <1>1, Still DEF Done, received
<1>6. CASE ~ Overlaps
  <2>1. Fitting
    BY <1>1, <1>6, WorkingNow
  <2>2. Tail(todo) = <<>> /\ Done(size)
    BY <1>1, <1>2, <1>6, <2>1, WhereFits
  <2>3. Working'
    BY <1>1, <1>5, <2>2 DEF Working, Rests
  <2> QED
    BY <1>3, <1>4, <2>3 DEF IInv
<1>7. CASE Overlaps
  <2>1. WithTail
    BY <1>1, <1>7, WorkingNow
  <2>2. PICK k \in 0 .. 2 : Checks(k)
    BY <1>1, <1>2, <1>7, <2>1, WhereTail
  <2>3. todo' = Behind(k)
    BY <1>1, <1>2, <1>7, <2>2, ChecksHead
  <2>4. ~ TakenForOld => Progress(k, Length(k))
    BY <2>2 DEF Checks
  <2>5. ~ TakenForOld => /\ k < 2 => Progress(k + 1, 0)
                         /\ k = 2 => Done(size)
    <3>1. CASE k = 0
      BY <1>2, <2>4, <3>1, Blocks DEF Progress, Numbers
    <3>2. CASE k = 1
      <4>1. 1 * Half + Length(1) = 2 * Half + 0
        BY <1>2, Blocks DEF Numbers
      <4> QED
        BY <2>4, <3>2, <4>1 DEF Progress
    <3>3. CASE k = 2
      <4>1. 2 * Half + Length(2) = size
        BY <1>2, Blocks DEF Numbers
      <4> QED
        BY <2>4, <3>3, <4>1 DEF Progress
    <3> QED
      BY <3>1, <3>2, <3>3
  <2>6. ~ TakenForOld => /\ k < 2 => Progress(k + 1, 0)'
                         /\ k = 2 => Done(size)'
    BY <1>1, <1>5, <2>5, Still
  <2>7. Working'
    BY <1>1, <1>2, <1>7, <2>3, <2>6, Turning
  <2> QED
    BY <1>3, <1>4, <2>7 DEF IInv
<1> QED
  BY <1>6, <1>7

(* A call fails: the swap begins, or the chip is reset.                    *)
LEMMA CallFailsStep ==
    ASSUME IInv, CallFails
    PROVE  IInv'
<1>1. /\ todo # <<>>
      /\ UNCHANGED <<flash, bl, received, pending, nfails>>
  BY DEF CallFails, Failed
<1>2. pending /\ stage \in Calls
  BY <1>1, WorkingNow
<1>3. ~ TakenForOld' => Kept'
  BY <1>1, Fixed, Still DEF IInv
<1>4. CASE stage = "validate"
  <2>1. stage' = "swap" /\ todo' = dfu_sd_image_swap
    BY <1>4 DEF CallFails, Enter
  <2>2. Types' /\ Bootloader'
    BY <1>1, <1>2, <2>1, Fixed DEF IInv, Types, Bootloader, received
  <2>3. Working'
    BY <1>1, <1>2, <2>1, Swapping, Going DEF IInv, Calls
  <2> QED
    BY <1>3, <2>2, <2>3 DEF IInv
<1>5. CASE stage # "validate"
  <2>1. stage' = "off" /\ todo' = <<>>
    BY <1>5 DEF CallFails, Reset, Enter
  <2>2. Types' /\ Bootloader'
    BY <1>1, <1>2, <2>1, Fixed DEF IInv, Types, Bootloader, received
  <2>3. Working'
    BY <2>1 DEF Working, Rests
  <2> QED
    BY <1>3, <2>2, <2>3 DEF IInv
<1> QED
  BY <1>4, <1>5

(* A call has returned.                                                    *)
LEMMA CallReturnsStep ==
    ASSUME IInv, CallReturns
    PROVE  IInv'
<1>1. /\ todo = <<>>
      /\ UNCHANGED <<flash, bl, received, pending, nfails>>
      /\ stage \in Calls
  BY DEF CallReturns, Calls
<1>2. pending
  BY <1>1 DEF IInv, Bootloader, Calls
<1>3. ~ TakenForOld' => Kept'
  BY <1>1, Fixed, Still DEF IInv
<1>4. ~ TakenForOld' => Done(size)'
  <2>1. ~ TakenForOld => Done(size)
    BY <1>1 DEF IInv, Working, Rests, Calls
  <2>2. Done(size) => Done(size)'
    BY <1>1, Still DEF Done, received
  <2> QED
    BY <1>1, <2>1, <2>2, Fixed
<1>5. CASE /\ stage' = "swap" /\ todo' = dfu_sd_image_swap
  <2>1. Types' /\ Bootloader'
    BY <1>1, <1>2, <1>5, Fixed DEF IInv, Types, Bootloader, received
  <2>2. Working'
    BY <1>1, <1>2, <1>5, Swapping, Going DEF IInv, Calls
  <2> QED
    BY <1>3, <2>1, <2>2 DEF IInv
<1>6. CASE /\ stage' = "revalidate" /\ todo' = dfu_sd_image_validate
  <2>1. Types' /\ Bootloader'
    BY <1>1, <1>2, <1>6, Fixed DEF IInv, Types, Bootloader, received
  <2>2. Working'
    BY <1>1, <1>2, <1>6, Validating, Going DEF IInv, Calls
  <2> QED
    BY <1>3, <2>1, <2>2 DEF IInv
<1>7. CASE /\ todo' = <<>>
           /\ \/ stage' = "bl"
              \/ stage' = "finalize" /\ dfu_bl_image_validate
  <2>1. Types' /\ Bootloader'
    BY <1>1, <1>2, <1>7, Fixed
       DEF IInv, Types, Bootloader, received, dfu_bl_image_validate
  <2>2. Working'
    BY <1>4, <1>7 DEF Working, Rests
  <2> QED
    BY <1>3, <2>1, <2>2 DEF IInv
<1> QED
  BY <1>5, <1>6, <1>7 DEF CallReturns, Enter

(* The bootloader is copied, and the settings page is saved.               *)
LEMMA RestStep ==
    ASSUME IInv, dfu_bl_image_swap \/ Finalize
    PROVE  IInv'
<1>1. /\ todo = <<>> /\ stage \in {"bl", "finalize"}
      /\ UNCHANGED <<flash, received, nfails>>
  BY DEF dfu_bl_image_swap, Finalize, IInv, Working
<1>2. ~ TakenForOld' => Kept'
  BY <1>1, Fixed, Still DEF IInv
<1>3. ~ TakenForOld' => Done(size)'
  <2>1. ~ TakenForOld => Done(size)
    BY <1>1 DEF IInv, Working, Rests
  <2>2. Done(size) => Done(size)'
    BY <1>1, Still DEF Done, received
  <2> QED
    BY <1>1, <2>1, <2>2, Fixed
<1>4. todo' = <<>>
  BY DEF dfu_bl_image_swap, Finalize, Reset, Enter
<1>5. Working'
  BY <1>3, <1>4 DEF Working, Rests
<1>6. CASE dfu_bl_image_swap
  <2>1. /\ stage = "bl" /\ pending' = pending
        /\ \/ hasBl /\ bl' = flash[bl_image_start] /\ stage' = "off"
           \/ ~ hasBl /\ bl' = bl /\ stage' = "finalize"
    BY <1>6 DEF dfu_bl_image_swap, Reset, Enter, IInv, Types
  <2>2. Types' /\ Bootloader'
    BY <1>1, <2>1, Fixed DEF IInv, Types, Bootloader, received
  <2> QED
    BY <1>2, <1>5, <2>2 DEF IInv
<1>7. CASE Finalize
  <2>1. stage = "finalize" /\ pending' = FALSE /\ stage' = "done" /\ bl' = bl
    BY <1>7 DEF Finalize, Enter
  <2>2. Types' /\ Bootloader'
    BY <1>1, <2>1, Fixed DEF IInv, Types, Bootloader, received
  <2> QED
    BY <1>2, <1>5, <2>2 DEF IInv
<1> QED
  BY <1>6, <1>7

(* The power fails, perhaps while a page is written.                       *)
LEMMA PowerFailsStep ==
    ASSUME IInv, PowerFails
    PROVE  IInv'
<1>1. /\ stage \notin {"off", "done"} /\ stage' = "off" /\ todo' = <<>>
      /\ nfails' = nfails + 1 /\ nfails < MaxFails
      /\ UNCHANGED <<bl, received, pending>>
  BY DEF PowerFails, Reset, Enter
<1>2. Numbers /\ nfails' \in 0 .. MaxFails /\ Types
  BY <1>1, TheNumbers, SdSwapAssumption DEF IInv, Types
<1>3. Working'
  BY <1>1 DEF Working, Rests
<1>4. CASE flash' = flash
  <2>1. Types' /\ Bootloader'
    BY <1>1, <1>2, <1>4, Fixed DEF IInv, Types, Bootloader, received
  <2>2. ~ TakenForOld' => Kept'
    BY <1>1, <1>4, Fixed, Still DEF IInv
  <2> QED
    BY <1>3, <2>1, <2>2 DEF IInv
<1>5. ASSUME todo # <<>>, Head(todo).op = "write", NEW torn \in Torn,
             flash' = [flash EXCEPT ![Head(todo).page] = torn]
      PROVE  IInv'
  <2>1. torn \in PageContents
    BY <1>2, <1>5, Values
  <2>2. /\ Overlaps' <=> Overlaps
        /\ TakenForOld' <=> TakenForOld
    BY <1>1, Fixed
  <2>3. CASE ~ Overlaps
    <3>1. Fitting
      BY <1>5, <2>3, WorkingNow
    <3>2. PICK i \in 0 .. size - 1 : Fits(i)
      BY <1>2, <1>5, <2>3, <3>1, WhereFits
    <3>3. Head(todo).page = Start + i
      <4> DEFINE d == Copy(sd_image_start + i, Start + i, size - i)
      <4>1. Head(todo) = d \/ Head(todo) = Begun(d)
        BY <1>2, <2>3, <3>2, FitsHead
      <4>2. d.page = Start + i /\ Begun(d).page = Start + i
        BY DEF Copy, Begun
      <4> QED
        BY <4>1, <4>2
    <3>4. flash' = [flash EXCEPT ![Start + i] = torn]
      BY <1>5, <3>3
    <3>5. ~ TakenForOld /\ Kept /\ Done(i)
      BY <2>3, <3>2 DEF TakenForOld, IInv, Fits
    <3>6. Kept'
      BY <1>1, <1>2, <2>1, <2>3, <3>4, <3>5, CopyingFits
    <3>7. Types' /\ Bootloader'
      BY <1>1, <1>2, <2>1, <3>4, Wrote
    <3> QED
      BY <1>3, <3>6, <3>7 DEF IInv
  <2>4. CASE Overlaps
    <3>1. WithTail
      BY <1>5, <2>4, WorkingNow
    <3>2. Clears \/ \E k \in 0 .. 2 : \E i \in 0 .. Length(k) - 1 : Copies(k, i)
      BY <1>2, <1>5, <2>4, <3>1, WhereTail
    <3>3. ASSUME NEW k \in 0 .. 2, NEW i \in 0 .. Length(k) - 1, Copies(k, i)
          PROVE  IInv'
      <4>1. Head(todo).page = Dst(k) + i
        <5>1. Head(todo) = CopyAt(k, i) \/ Head(todo) = Begun(CopyAt(k, i))
          BY <1>2, <2>4, <3>3, CopiesHead
        <5>2. CopyAt(k, i).page = Dst(k) + i /\ Begun(CopyAt(k, i)).page = Dst(k) + i
          BY DEF CopyAt, Copy, Begun
        <5> QED
          BY <5>1, <5>2
      <4>2. flash' = [flash EXCEPT ![Dst(k) + i] = torn]
        BY <1>5, <4>1
      <4>3. ~ TakenForOld => Kept /\ Progress(k, i)
        BY <3>3 DEF IInv, Copies
      <4>4. ~ TakenForOld => Kept'
        BY <1>1, <1>2, <2>1, <2>4, <4>2, <4>3, Copying
      <4>5. /\ k * Half + i \in 0 .. size - 1
            /\ flash' = [flash EXCEPT ![Start + (k * Half + i)] = torn]
        BY <1>2, <2>4, <4>2, PageOf
      <4>6. Types' /\ Bootloader'
        BY <1>1, <1>2, <2>1, <4>5, Wrote
      <4> QED
        BY <1>3, <2>2, <4>4, <4>6 DEF IInv
    <3>4. CASE Clears
      <4>1. /\ Head(todo) = Begun(Clear(1)) \/ Head(todo) = Begun(Clear(0))
            /\ flash[Start + Half] = Blank
        <5>1. Clear(0).op = "erase" /\ Clear(1).op = "erase"
          BY Ops
        <5> QED
          BY <1>2, <1>5, <2>4, <3>4, <5>1, ClearsHead
      <4>2. PICK o \in {0, Half} : Head(todo).page = Start + o /\ o \in 0 .. size - 1
        <5>1. /\ Dst(1) = Start + Half /\ Dst(0) = Start + 0
              /\ 0 \in 0 .. size - 1 /\ Half \in 0 .. size - 1
          BY <1>2, <2>4, Blocks DEF Numbers
        <5>2. Begun(Clear(1)).page = Dst(1) /\ Begun(Clear(0)).page = Dst(0)
          BY DEF Begun, Clear, Copy
        <5> QED
          BY <4>1, <5>1, <5>2
      <4>3. flash' = [flash EXCEPT ![Start + o] = torn]
        BY <1>5, <4>2
      <4>4. ~ TakenForOld => Kept /\ Intact(0, Half)
        BY <3>4 DEF IInv, Clears
      <4>5. ~ TakenForOld => Kept'
        BY <1>1, <1>2, <1>5, <2>4, <4>1, <4>3, <4>4, Clearing
      <4>6. Types' /\ Bootloader'
        BY <1>1, <1>2, <2>1, <4>2, <4>3, Wrote
      <4> QED
        BY <1>3, <2>2, <4>5, <4>6 DEF IInv
    <3> QED
      BY <3>2, <3>3, <3>4
  <2> QED
    BY <2>3, <2>4
<1> QED
  BY <1>4, <1>5 DEF PowerFails

(* The images have been received.                                          *)
LEMMA Starts ==
    ASSUME Init
    PROVE  IInv
<1> USE DEF Init
<1>1. Numbers
  BY SdSwapAssumption DEF Numbers
<1>2. /\ sd_image_start = MBR_SIZE + Half + Half /\ Start = MBR_SIZE
      /\ SOFTDEVICE_REGION_START = MBR_SIZE
      /\ bl_image_start = MBR_SIZE + Half + Half + size
      /\ Pages = MBR_SIZE .. MBR_SIZE + Half + Half + Half + Half + Half
      /\ Overlaps <=> size > Half + Half
  BY <1>1, Blocks
<1>3. \A p \in Pages :
        flash[p] = IF p < sd_image_start THEN Old(p - SOFTDEVICE_REGION_START)
                   ELSE IF p < bl_image_start THEN New(p - sd_image_start)
                   ELSE IF p = bl_image_start /\ hasBl THEN NewBl ELSE Blank
  OBVIOUS
<1>4. flash \in [Pages -> PageContents]
  <2>1. \A i \in 0 .. 3 * Half - 1 : Old(i) \in PageContents /\ New(i) \in PageContents
    BY DEF Old, New, PageContents
  <2>2. Blank \in PageContents /\ NewBl \in PageContents
    BY DEF PageContents
  <2>3. \A p \in Pages :
           /\ p < sd_image_start => p - SOFTDEVICE_REGION_START \in 0 .. 3 * Half - 1
           /\ ~ (p < sd_image_start) /\ p < bl_image_start =>
                 p - sd_image_start \in 0 .. 3 * Half - 1
    BY <1>1, <1>2 DEF Numbers
  <2>4. \A p \in Pages : flash[p] \in PageContents
    BY <1>3, <2>1, <2>2, <2>3
  <2>5. flash = [p \in Pages |-> flash[p]]
    OBVIOUS
  <2> QED
    BY <2>4, <2>5
<1>5. Types
  BY <1>1, <1>4 DEF Types, Numbers
<1>6. Bootloader
  <2>1. /\ bl_image_start \in Pages /\ ~ (bl_image_start < sd_image_start)
        /\ ~ (bl_image_start < bl_image_start)
    BY <1>1, <1>2 DEF Numbers
  <2> QED
    BY <1>3, <2>1 DEF Bootloader
<1>7. \A i \in 0 .. size - 1 : Image(i)
  <2> TAKE i \in 0 .. size - 1
  <2>1. /\ sd_image_start + i \in Pages /\ ~ (sd_image_start + i < sd_image_start)
        /\ sd_image_start + i < bl_image_start
        /\ (sd_image_start + i) - sd_image_start = i
    BY <1>1, <1>2 DEF Numbers
  <2> QED
    BY <1>3, <2>1 DEF Image
<1>8. \A i \in 0 .. 2 * Half - 1 : flash[Start + i] = Old(i)
  <2> TAKE i \in 0 .. 2 * Half - 1
  <2>1. /\ Start + i \in Pages /\ Start + i < sd_image_start
        /\ (Start + i) - SOFTDEVICE_REGION_START = i
    BY <1>1, <1>2 DEF Numbers
  <2> QED
    BY <1>3, <2>1
<1>9. ~ TakenForOld => Kept
  <2>1. SUFFICES ASSUME ~ TakenForOld, Overlaps
                 PROVE  Kept
    BY <1>7 DEF Kept, Intact
  <2>2. Intact(Half, size) /\ Intact(0, Half)
    BY <1>1, <1>2, <1>7, <2>1 DEF Intact, Numbers
  <2>3. CASE Start + 2 * Half < size
    <3>1. OldInfo
      <4>1. InfoPage \in 0 .. 2 * Half - 1
        BY <1>1 DEF Numbers
      <4>2. QED
        <5> HIDE DEF Init
        <5>1. flash[Start + InfoPage] = << "old", InfoPage >>
          BY <1>8, <4>1 DEF Old
        <5> QED
          BY <5>1 DEF OldInfo
    <3> QED
      BY <2>1, <2>2, <2>3, <3>1 DEF Kept
  <2>4. CASE ~ (Start + 2 * Half < size)
    <3>1. PICK i \in Half .. 2 * Half - 1 : i \notin like
      <4>1. size <= SOFTDEVICE_REGION_START + 2 * Half
        BY <1>1, <1>2, <2>4 DEF Numbers
      <4> QED
        BY <2>1, <4>1 DEF TakenForOld
    <3>2. i \in 0 .. 2 * Half - 1 /\ i \in 0 .. size - 1
      BY <1>1, <1>2, <2>1 DEF Numbers
    <3>3. flash[Start + i] = << "old", i >> /\ flash[sd_image_start + i] = << "new", i >>
      BY <1>7, <1>8, <3>1, <3>2 DEF Image, New, Old
    <3>4. Differs
      BY <3>3 DEF Differs
    <3> QED
      BY <2>1, <2>2, <3>4 DEF Kept
  <2> QED
    BY <2>3, <2>4
<1>10. Working
  BY DEF Working, Rests
<1> QED
  BY <1>5, <1>6, <1>9, <1>10 DEF IInv

(* Every step keeps the invariant.                                         *)
LEMMA Steps ==
    ASSUME IInv, [Next]_vars
    PROVE  IInv'
<1>1. CASE UNCHANGED vars
  <2>1. /\ UNCHANGED << flash, received >>
        /\ UNCHANGED << bl, pending, stage, todo, nfails >>
    BY <1>1 DEF vars
  <2>2. Types' /\ Bootloader'
    BY <2>1, Fixed DEF IInv, Types, Bootloader, received
  <2>3. ~ TakenForOld' => Kept'
    BY <2>1, Fixed, Still DEF IInv
  <2>4. Done(size)' <=> Done(size)
    BY <2>1, Still DEF Done, received
  <2>5. CASE todo = <<>>
    BY <2>1, <2>2, <2>3, <2>4, <2>5, Fixed DEF IInv, Working, Rests
  <2>6. CASE todo # <<>>
    <3>1. /\ pending' /\ stage' \in Calls /\ todo' # <<>>
          /\ Overlaps' <=> Overlaps
      BY <2>1, <2>6, WorkingNow, Fixed
    <3>2. WithTail => WithTail'
      <4>1. /\ TakenForOld' <=> TakenForOld
            /\ \A j : Behind(j)' = Behind(j) /\ After(j)' = After(j)
            /\ \A j, i : CopyAt(j, i)' = CopyAt(j, i)
            /\ \A j : Length(j)' = Length(j)
        BY <2>1, Fixed
      <4>2. /\ \A k : Comparable(k)' <=> Comparable(k)
            /\ \A k, i : Progress(k, i)' <=> Progress(k, i)
            /\ Intact(0, Half)' <=> Intact(0, Half)
        BY <2>1, Still
      <4>3. \A k : Compares(k) => Compares(k)'
        BY <2>1, <4>1, <4>2 DEF Compares, Call
      <4>4. \A k : Checks(k) => Checks(k)'
        BY <2>1, <4>1, <4>2 DEF Checks
      <4>5. \A k, i : Copies(k, i) => Copies(k, i)'
        BY <2>1, <4>1, <4>2 DEF Copies, Begun
      <4>6. Clears => Clears'
        BY <2>1, <4>1, <4>2
           DEF Clears, Clear, Begun, Copy, Call, Dst, Start, SOFTDEVICE_REGION_START, Blank
      <4> QED
        BY <2>1, <4>1, <4>3, <4>4, <4>5, <4>6 DEF WithTail, Call
    <3>3. Fitting => Fitting'
      BY <2>1, <2>4, Still
         DEF Fitting, Fits, received, Call, Begun, Copy, Start, SOFTDEVICE_REGION_START,
             sd_image_start
    <3>4. Working'
      BY <2>6, <3>1, <3>2, <3>3, WorkingNow, Going
    <3> QED
      BY <2>2, <2>3, <3>4 DEF IInv
  <2> QED
    BY <2>5, <2>6
<1>2. CASE PowerOn
  BY <1>2, PowerOnStep
<1>3. CASE CompareBlock
  BY <1>3, CompareBlockStep
<1>4. CASE ErasePage
  BY <1>4, ErasePageStep
<1>5. CASE WritePage
  BY <1>5, WritePageStep
<1>6. CASE CheckBlock
  BY <1>6, CheckBlockStep
<1>7. CASE CallFails
  BY <1>7, CallFailsStep
<1>8. CASE CallReturns
  BY <1>8, CallReturnsStep
<1>9. CASE dfu_bl_image_swap
  BY <1>9, RestStep
<1>10. CASE Finalize
  BY <1>10, RestStep
<1>11. CASE PowerFails
  BY <1>11, PowerFailsStep
<1> QED
  BY <1>1, <1>2, <1>3, <1>4, <1>5, <1>6, <1>7, <1>8, <1>9, <1>10, <1>11 DEF Next, System

(* Whatever losses of power cut dfu_sd_image_swap() and its block swaps    *)
(* short, what they have done so far and what they have left to do fit     *)
(* together, as the invariant says.                                        *)
THEOREM SwapInvariant == Spec => []IInv
<1>1. Init => IInv
  BY Starts
<1>2. IInv /\ [Next]_vars => IInv'
  BY Steps
<1> QED
  BY <1>1, <1>2, PTL DEF Spec

(* It implies the property that the runs check.                            *)
LEMMA Shows ==
    ASSUME IInv
    PROVE  SwapWhole
<1>0. Numbers
  BY TheNumbers DEF IInv
<1>1. TypeOK
  <2>1. todo \in Seq(Jobs)
    <3>1. CASE todo = <<>>
      <4>1. <<>> \in Seq(Jobs)
        OBVIOUS
      <4> QED
        BY <3>1, <4>1
    <3>2. CASE todo # <<>>
      BY <3>2, WorkingNow, WhereTail, WhereFits
    <3> QED
      BY <3>1, <3>2
  <2>2. \A i \in DOMAIN todo : todo[i] \in Jobs
    BY <2>1, LenProperties, ElementOfSeq
  <2>3. \A i \in DOMAIN todo :
          \/ todo[i].op \in {"swap", "check", "success", "error"}
          \/ /\ todo[i].op \in {"erase", "write"}
             /\ todo[i].page .. todo[i].page + todo[i].len - 1 \subseteq Region
    BY <2>2 DEF Jobs, Kinds
  <2> QED
    BY <2>3 DEF TypeOK, IInv, Types
<1>2. ASSUME ~ TakenForOld
      PROVE  WholeAfter
  <2>1. SUFFICES ASSUME ~ pending
                 PROVE  Done(size) /\ (hasBl => bl = NewBl)
    BY DEF WholeAfter, Done
  <2>2. stage = "done" /\ todo = <<>>
    BY <2>1 DEF IInv, Bootloader, Working
  <2> QED
    BY <1>2, <2>1, <2>2 DEF IInv, Bootloader, Working, Rests
<1>3. ASSUME ~ TakenForOld
      PROVE  NothingLost
  <2>1. ASSUME NEW i \in 0 .. size - 1
        PROVE  InPlace(i) \/ Image(i)
    <3>1. CASE ~ Overlaps
      BY <1>3, <3>1 DEF IInv, Kept, Intact
    <3>2. CASE Overlaps
      <4>1. \/ i \in Half .. size - 1
            \/ i \in 0 .. Half - 1 /\ i \in 0 .. 2 * Half - 1
        BY <1>0 DEF Numbers
      <4>2. /\ Intact(Half, size)
            /\ Intact(0, Half) \/ Done(2 * Half)
        BY <1>3, <3>2 DEF IInv, Kept
      <4> QED
        BY <4>1, <4>2 DEF Intact, Done
    <3> QED
      BY <3>1, <3>2
  <2> QED
    BY <2>1 DEF NothingLost, Image, IInv, Bootloader
<1> QED
  BY <1>1, <1>2, <1>3 DEF SwapWhole

(* While the bootloader swaps, every page of the received SoftDevice is    *)
(* behind the old one or in its place, and the bootloader is where it was  *)
(* put; when the settings page says that it is over, both are in place.    *)
(* This is so for every size of the blocks, of the image and of the MBR,   *)
(* in every behaviour, unless the image is taken for the old SoftDevice.   *)
THEOREM SwapAlwaysWhole == Spec => []SwapWhole
<1>1. IInv => SwapWhole
  BY Shows
<1> QED
  BY <1>1, SwapInvariant, PTL
=============================================================================
