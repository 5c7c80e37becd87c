-------------------------- MODULE ChecksumsProofs --------------------------
(***************************************************************************)
(* What the two checksums detect, for data of any length.                  *)
(***************************************************************************)
EXTENDS Checksums, TLAPS

-----------------------------------------------------------------------------
(* Addition modulo 255, kept folded below *)

Digit == 0..254
Octet == 0..255
Plus(a, b) == (a + b) % 255
Alias(b, c) == (b - c) % 255 = 0

LEMMA PlusRange ==
  ASSUME NEW a \in Digit, NEW b \in Octet PROVE Plus(a, b) \in Digit
BY DEF Plus, Digit, Octet

LEMMA AliasIs ==
  ASSUME NEW b \in Octet, NEW c \in Octet
  PROVE  Alias(b, c) <=> b - c \in {-255, 0, 255}
<1>1. CASE b >= c
  <2>1. PICK d \in 0..255 : d = b - c
    BY <1>1 DEF Octet
  <2>2. d % 255 = 0 <=> d \in {0, 255}
    OBVIOUS
  <2> QED BY <2>1, <2>2 DEF Alias
<1>2. CASE b < c
  <2>1. PICK d \in 1..255 : b - c = -d
    <3>1. c - b \in 1..255 /\ b - c = -(c - b)
      BY <1>2 DEF Octet
    <3> QED BY <3>1
  <2>2. CASE d = 255
    <3>1. (-255) % 255 = 0
      OBVIOUS
    <3> QED BY <2>1, <2>2, <3>1 DEF Alias
  <2>3. CASE d # 255
    <3>1. (-d) % 255 = 255 - d
      BY <2>3
    <3>2. ~Alias(b, c)
      BY <2>1, <2>3, <3>1 DEF Alias
    <3>3. -d \notin {-255, 0, 255}
      BY <2>3
    <3> QED BY <2>1, <3>2, <3>3
  <2> QED BY <2>2, <2>3
<1> QED BY <1>1, <1>2 DEF Octet

LEMMA SamePlus ==
  ASSUME NEW a \in Digit, NEW b \in Octet, NEW c \in Octet
  PROVE  Plus(a, b) = Plus(a, c) <=> Alias(b, c)
<1>1. Plus(a, b) = Plus(a, c) <=> b - c \in {-255, 0, 255}
  BY DEF Plus, Digit, Octet
<1> QED BY <1>1, AliasIs

LEMMA PlusCancels ==
  ASSUME NEW a \in Digit, NEW b \in Digit, NEW c \in Octet, a # b
  PROVE  Plus(a, c) # Plus(b, c) /\ Plus(c, a) # Plus(c, b)
BY DEF Plus, Digit, Octet

LEMMA PlusCommutes ==
  ASSUME NEW a \in Digit, NEW b \in Octet, NEW c \in Octet
  PROVE  Plus(Plus(a, b), c) = Plus(Plus(a, c), b)
BY DEF Plus, Digit, Octet

LEMMA ToByte == ASSUME NEW a \in Digit PROVE a \in Octet
BY DEF Digit, Octet

-----------------------------------------------------------------------------
(* The parameter check.  A changed byte leaves sum1 different for good; two *)
(* swapped neighbours leave sum1 alone and sum2 different for good.         *)

Sums == [sum1 : Digit, sum2 : Digit]

SumsTell(change1, s, t) ==
  /\ s \in Sums /\ t \in Sums
  /\ change1 \in {"none", "alias", "byte", "swap"}
  /\ change1 \in {"none", "alias"} => s = t
  /\ change1 = "byte" => s.sum1 # t.sum1
  /\ change1 = "swap" => s.sum1 = t.sum1 /\ s.sum2 # t.sum2

StoreInv == job = "store" => SumsTell(change, tx, rx)

LEMMA SumsParts ==
  ASSUME NEW s \in Sums PROVE s.sum1 \in Digit /\ s.sum2 \in Digit
BY DEF Sums

LEMMA SumByteIs ==
  ASSUME NEW s \in Sums, NEW b \in Octet
  PROVE  /\ SumByte(s, b) \in Sums
         /\ SumByte(s, b).sum1 = Plus(s.sum1, b)
         /\ SumByte(s, b).sum2 = Plus(s.sum2, SumByte(s, b).sum1)
<1>1. s.sum1 \in Digit /\ s.sum2 \in Digit
  BY SumsParts
<1>2. Plus(s.sum1, b) \in Digit
  BY <1>1, PlusRange
<1>3. Plus(s.sum2, Plus(s.sum1, b)) \in Digit
  BY <1>1, <1>2, PlusRange, ToByte
<1>4. SumByte(s, b) = [sum1 |-> Plus(s.sum1, b), sum2 |-> Plus(s.sum2, Plus(s.sum1, b))]
  BY DEF SumByte, Plus
<1> QED BY <1>2, <1>3, <1>4 DEF Sums

(* Two sums are equal when their parts are.                                *)
LEMMA SumsEqual ==
  ASSUME NEW s \in Sums, NEW t \in Sums, s.sum1 = t.sum1, s.sum2 = t.sum2
  PROVE  s = t
BY DEF Sums

(* A byte that is the same in the copy keeps what is known.                *)
LEMMA SameByteKeeps ==
  ASSUME NEW ch, NEW s, NEW t, SumsTell(ch, s, t), NEW b \in Octet
  PROVE  SumsTell(ch, SumByte(s, b), SumByte(t, b))
<1> DEFINE p == SumByte(s, b)
           q == SumByte(t, b)
<1>1. s \in Sums /\ t \in Sums
  BY DEF SumsTell
<1>2. /\ p \in Sums /\ p.sum1 = Plus(s.sum1, b) /\ p.sum2 = Plus(s.sum2, p.sum1)
      /\ q \in Sums /\ q.sum1 = Plus(t.sum1, b) /\ q.sum2 = Plus(t.sum2, q.sum1)
  BY <1>1, SumByteIs
<1>3. s = t => p = q
  OBVIOUS
<1> HIDE DEF p, q
<1>4. s.sum1 # t.sum1 => p.sum1 # q.sum1
  BY <1>1, <1>2, SumsParts, PlusCancels
<1>5. s.sum1 = t.sum1 => p.sum1 = q.sum1
  BY <1>2
<1>6. s.sum1 = t.sum1 /\ s.sum2 # t.sum2 => p.sum2 # q.sum2
  BY <1>1, <1>2, <1>5, SumsParts, ToByte, PlusCancels
<1>7. SumsTell(ch, p, q)
  BY <1>2, <1>3, <1>4, <1>5, <1>6 DEF SumsTell
<1> QED BY <1>7 DEF p, q

(* The byte that differs: sum1 tells, unless one is 0x00 and the other 0xFF. *)
LEMMA OtherByteTells ==
  ASSUME NEW s \in Sums, NEW b \in Octet, NEW c \in Octet
  PROVE  /\ Alias(b, c) => SumByte(s, b) = SumByte(s, c)
         /\ ~Alias(b, c) => SumByte(s, b).sum1 # SumByte(s, c).sum1
<1> DEFINE p == SumByte(s, b)
           q == SumByte(s, c)
<1>1. /\ p \in Sums /\ p.sum1 = Plus(s.sum1, b) /\ p.sum2 = Plus(s.sum2, p.sum1)
      /\ q \in Sums /\ q.sum1 = Plus(s.sum1, c) /\ q.sum2 = Plus(s.sum2, q.sum1)
  BY SumByteIs
<1> HIDE DEF p, q
<1>2. p.sum1 = q.sum1 <=> Alias(b, c)
  BY <1>1, SumsParts, SamePlus
<1>3. Alias(b, c) => p = q
  BY <1>1, <1>2, SumsEqual
<1> QED BY <1>2, <1>3 DEF p, q

(* The two that are swapped: sum2 tells, unless they alias.                *)
LEMMA SwapTells ==
  ASSUME NEW s \in Sums, NEW b \in Octet, NEW c \in Octet,
         NEW t, t = SumByte(SumByte(s, b), c),
         NEW u, u = SumByte(SumByte(s, c), b)
  PROVE  /\ t \in Sums /\ u \in Sums /\ t.sum1 = u.sum1
         /\ Alias(b, c) => t = u
         /\ ~Alias(b, c) => t.sum2 # u.sum2
<1> DEFINE p == SumByte(s, b)
           q == SumByte(s, c)
<1>1. /\ p \in Sums /\ p.sum1 = Plus(s.sum1, b) /\ p.sum2 = Plus(s.sum2, p.sum1)
      /\ q \in Sums /\ q.sum1 = Plus(s.sum1, c) /\ q.sum2 = Plus(s.sum2, q.sum1)
  BY SumByteIs
<1> HIDE DEF p, q
<1>2. /\ t \in Sums /\ t.sum1 = Plus(p.sum1, c) /\ t.sum2 = Plus(p.sum2, t.sum1)
      /\ u \in Sums /\ u.sum1 = Plus(q.sum1, b) /\ u.sum2 = Plus(q.sum2, u.sum1)
  <2>1. t = SumByte(p, c) /\ u = SumByte(q, b)
    BY DEF p, q
  <2> QED BY <1>1, <2>1, SumByteIs
<1>3. t.sum1 = u.sum1
  BY <1>1, <1>2, SumsParts, PlusCommutes
<1>4. p.sum1 = q.sum1 <=> Alias(b, c)
  BY <1>1, SumsParts, SamePlus
<1>5. Alias(b, c) => t = u
  <2>1. Alias(b, c) => t.sum2 = u.sum2
    BY <1>1, <1>2, <1>3, <1>4
  <2> QED BY <1>2, <1>3, <2>1, SumsEqual
<1>6. ~Alias(b, c) => t.sum2 # u.sum2
  <2> SUFFICES ASSUME ~Alias(b, c) PROVE t.sum2 # u.sum2
    OBVIOUS
  <2>1. p.sum2 # q.sum2
    BY <1>1, <1>4, SumsParts, ToByte, PlusCancels
  <2> QED BY <1>1, <1>2, <1>3, <2>1, SumsParts, ToByte, PlusCancels
<1> QED BY <1>2, <1>3, <1>5, <1>6

LEMMA StoreByteKeeps ==
  ASSUME StoreInv, NEW b \in StoreBytes, NEW c \in StoreBytes, StoreByte(b, c)
  PROVE  StoreInv'
<1>1. b \in Octet /\ c \in Octet
  BY ChecksumConstants DEF Octet
<1>2. SumsTell(change, tx, rx) /\ tx' = SumByte(tx, b) /\ rx' = SumByte(rx, c)
  BY DEF StoreInv, StoreByte
<1>3. CASE b = c
  <2>1. change' = change
    BY <1>3 DEF StoreByte
  <2>2. SumsTell(change', tx', rx')
    BY <1>1, <1>2, <1>3, <2>1, SameByteKeeps
  <2> QED BY <2>2 DEF StoreInv
<1>4. CASE b # c
  <2>1. tx = rx /\ tx \in Sums
    BY <1>2, <1>4 DEF StoreByte, SumsTell
  <2>2. tx' \in Sums /\ rx' \in Sums
    BY <1>1, <1>2, <2>1, SumByteIs
  <2>3. /\ Alias(b, c) => tx' = rx'
        /\ ~Alias(b, c) => tx'.sum1 # rx'.sum1
    BY <1>1, <1>2, <2>1, OtherByteTells
  <2>4. change' = IF Alias(b, c) THEN "alias" ELSE "byte"
    BY <1>4 DEF StoreByte, Alias
  <2>5. SumsTell(change', tx', rx')
    BY <2>2, <2>3, <2>4 DEF SumsTell
  <2> QED BY <2>5 DEF StoreInv
<1> QED BY <1>3, <1>4

LEMMA StoreSwapKeeps ==
  ASSUME StoreInv, NEW b \in StoreBytes, NEW c \in StoreBytes, StoreSwap(b, c)
  PROVE  StoreInv'
<1>1. b \in Octet /\ c \in Octet
  BY ChecksumConstants DEF Octet
<1>2. tx = rx /\ tx \in Sums
  BY DEF StoreInv, StoreSwap, SumsTell
<1>3. tx' = SumByte(SumByte(tx, b), c) /\ rx' = SumByte(SumByte(tx, c), b)
  BY <1>2 DEF StoreSwap
<1>4. /\ tx' \in Sums /\ rx' \in Sums /\ tx'.sum1 = rx'.sum1
      /\ Alias(b, c) => tx' = rx'
      /\ ~Alias(b, c) => tx'.sum2 # rx'.sum2
  BY <1>1, <1>2, <1>3, SwapTells
<1>5. change' = IF Alias(b, c) THEN "alias" ELSE "swap"
  BY DEF StoreSwap, Alias
<1>6. SumsTell(change', tx', rx')
  BY <1>4, <1>5 DEF SumsTell
<1> QED BY <1>6 DEF StoreInv

(* iolink_ds_calc_checksum tells two sets of parameters of any length apart *)
(* that differ in one byte or in the order of two neighbours, except that  *)
(* it takes 0x00 and 0xFF for the same byte.                               *)
THEOREM ChecksumSeesChange == Spec => []ChangeIsSeen
<1>1. Init => StoreInv
  BY DEF Init, StoreInv, SumsTell, Sums, SumInit, Digit
<1>2. StoreInv /\ [Next]_vars => StoreInv'
  <2> SUFFICES ASSUME StoreInv, [Next]_vars PROVE StoreInv'
    OBVIOUS
  <2>1. ASSUME NEW b \in FrameBytes, NEW F \in FlipSets, FrameByte(b, F) PROVE StoreInv'
    BY <2>1 DEF FrameByte, StoreInv
  <2>2. ASSUME NEW F \in FlipSets, FrameCheck(F) PROVE StoreInv'
    BY <2>2 DEF FrameCheck, StoreInv
  <2>3. CASE UNCHANGED vars
    BY <2>3 DEF vars, StoreInv
  <2> QED BY <2>1, <2>2, <2>3, StoreByteKeeps, StoreSwapKeeps DEF Next
<1>3. StoreInv => ChangeIsSeen
  <2> SUFFICES ASSUME StoreInv, job = "store"
               PROVE  calc_checksum(tx) = calc_checksum(rx) <=> change \in {"none", "alias"}
    BY DEF ChangeIsSeen
  <2>1. SumsTell(change, tx, rx)
    BY DEF StoreInv
  <2>2. /\ tx.sum1 \in Digit /\ tx.sum2 \in Digit /\ rx.sum1 \in Digit /\ rx.sum2 \in Digit
    BY <2>1 DEF SumsTell, Sums
  <2>3. calc_checksum(tx) = calc_checksum(rx) <=> tx.sum1 = rx.sum1 /\ tx.sum2 = rx.sum2
    <3>1. ASSUME NEW a \in Digit, NEW b \in Digit, NEW c \in Digit, NEW d \in Digit
          PROVE  b * 256 + a = d * 256 + c <=> a = c /\ b = d
      BY DEF Digit
    <3> QED BY <2>2, <3>1 DEF calc_checksum
  <2>4. tx = rx <=> tx.sum1 = rx.sum1 /\ tx.sum2 = rx.sum2
    BY <2>1, SumsEqual DEF SumsTell
  <2> QED BY <2>1, <2>3, <2>4 DEF SumsTell
<1> QED BY <1>1, <1>2, <1>3, PTL DEF Spec

-----------------------------------------------------------------------------
(* The frame check: a byte by its bits *)

LEMMA BitsAre == Bits = {0, 1, 2, 3, 4, 5, 6, 7}
BY DEF Bits

LEMMA XorIn ==
  ASSUME NEW a, NEW b, NEW i PROVE i \in Xor(a, b) <=> ~(i \in a <=> i \in b)
BY DEF Xor

LEMMA XorByte ==
  ASSUME NEW a \in Byte, NEW b \in Byte PROVE Xor(a, b) \in Byte
BY DEF Xor, Byte

(* Bytes with the same bits are the same.                                  *)
LEMMA SameBits ==
  ASSUME NEW a \in Byte, NEW b \in Byte,
         0 \in a <=> 0 \in b, 1 \in a <=> 1 \in b, 2 \in a <=> 2 \in b, 3 \in a <=> 3 \in b,
         4 \in a <=> 4 \in b, 5 \in a <=> 5 \in b, 6 \in a <=> 6 \in b, 7 \in a <=> 7 \in b
  PROVE  a = b
<1>1. a \subseteq {0, 1, 2, 3, 4, 5, 6, 7} /\ b \subseteq {0, 1, 2, 3, 4, 5, 6, 7}
  BY BitsAre DEF Byte
<1>2. a \subseteq b
  BY <1>1
<1>3. b \subseteq a
  BY <1>1
<1> QED BY <1>2, <1>3

(* d is c after one turn of the inner loop.                                *)
Turned(c, d) ==
  /\ 0 \notin d
  /\ 1 \in d <=> 0 \in c
  /\ 2 \in d <=> ~(1 \in c <=> 7 \in c)
  /\ 3 \in d <=> 2 \in c
  /\ 4 \in d <=> ~(3 \in c <=> 7 \in c)
  /\ 5 \in d <=> ~(4 \in c <=> 7 \in c)
  /\ 6 \in d <=> ~(5 \in c <=> 7 \in c)
  /\ 7 \in d <=> 6 \in c

LEMMA DoubledIs ==
  ASSUME NEW c \in Byte
  PROVE  /\ Doubled(c) \in Byte
         /\ 0 \notin Doubled(c)
         /\ 1 \in Doubled(c) <=> 0 \in c
         /\ 2 \in Doubled(c) <=> 1 \in c
         /\ 3 \in Doubled(c) <=> 2 \in c
         /\ 4 \in Doubled(c) <=> 3 \in c
         /\ 5 \in Doubled(c) <=> 4 \in c
         /\ 6 \in Doubled(c) <=> 5 \in c
         /\ 7 \in Doubled(c) <=> 6 \in c
<1>1. \A i \in c : i \in 0..7
  BY DEF Byte, Bits
<1>2. \A i \in Doubled(c) : i \in 0..7
  BY <1>1 DEF Doubled
<1>3. Doubled(c) \in Byte
  BY <1>2 DEF Byte, Bits
<1>4. \A k \in 1..7 : k \in Doubled(c) <=> k - 1 \in c
  BY <1>1 DEF Doubled
<1>5. 0 \notin Doubled(c)
  BY <1>1 DEF Doubled
<1> QED BY <1>3, <1>4, <1>5

LEMMA ShiftOnceIs ==
  ASSUME NEW c \in Byte PROVE ShiftOnce(c) \in Byte /\ Turned(c, ShiftOnce(c))
<1>1. CASE 7 \in c
  <2>1. ShiftOnce(c) = Xor(Doubled(c), {2, 4, 5, 6})
    BY <1>1 DEF ShiftOnce
  <2>2. {2, 4, 5, 6} \in Byte
    BY BitsAre DEF Byte
  <2>3. ShiftOnce(c) \in Byte
    BY <2>1, <2>2, DoubledIs, XorByte
  <2>4. \A i : i \in ShiftOnce(c) <=> ~(i \in Doubled(c) <=> i \in {2, 4, 5, 6})
    BY <2>1, XorIn
  <2> QED BY <1>1, <2>3, <2>4, DoubledIs DEF Turned
<1>2. CASE 7 \notin c
  <2>1. ShiftOnce(c) = Doubled(c)
    BY <1>2 DEF ShiftOnce
  <2> QED BY <1>2, <2>1, DoubledIs DEF Turned
<1> QED BY <1>1, <1>2

(* Exactly one of the two.                                                 *)
Ne(a, b) == ~(a <=> b)

(* d is c after the eight turns of the inner loop.                         *)
Turned8(c, d) ==
  /\ 0 \notin d /\ 1 \notin d
  /\ 2 \in d <=> Ne(Ne(Ne(Ne(0 \in c, 2 \in c), 3 \in c), 6 \in c), 7 \in c)
  /\ 3 \in d <=> Ne(Ne(Ne(1 \in c, 3 \in c), 4 \in c), 7 \in c)
  /\ 4 \in d <=> Ne(Ne(Ne(Ne(Ne(0 \in c, 3 \in c), 4 \in c), 5 \in c), 6 \in c), 7 \in c)
  /\ 5 \in d <=> Ne(Ne(Ne(Ne(Ne(0 \in c, 1 \in c), 2 \in c), 3 \in c), 4 \in c), 5 \in c)
  /\ 6 \in d <=> Ne(Ne(Ne(Ne(0 \in c, 1 \in c), 4 \in c), 5 \in c), 7 \in c)
  /\ 7 \in d <=> Ne(Ne(Ne(1 \in c, 2 \in c), 5 \in c), 6 \in c)

LEMMA Shift8Is ==
  ASSUME NEW c \in Byte PROVE Shift8[c] \in Byte /\ Turned8(c, Shift8[c])
<1> DEFINE c1 == ShiftOnce(c)
           c2 == ShiftOnce(c1)
           c3 == ShiftOnce(c2)
           c4 == ShiftOnce(c3)
           c5 == ShiftOnce(c4)
           c6 == ShiftOnce(c5)
           c7 == ShiftOnce(c6)
           c8 == ShiftOnce(c7)
<1>0. Shift8[c] = c8
  BY DEF Shift8, Shift2
<1>1. c1 \in Byte /\ Turned(c, c1)
  BY ShiftOnceIs
<1> HIDE DEF c1
<1>2. c2 \in Byte /\ Turned(c1, c2)
  BY <1>1, ShiftOnceIs
<1> HIDE DEF c2
<1>3. c3 \in Byte /\ Turned(c2, c3)
  BY <1>2, ShiftOnceIs
<1> HIDE DEF c3
<1>4. c4 \in Byte /\ Turned(c3, c4)
  BY <1>3, ShiftOnceIs
<1> HIDE DEF c4
<1>5. c5 \in Byte /\ Turned(c4, c5)
  BY <1>4, ShiftOnceIs
<1> HIDE DEF c5
<1>6. c6 \in Byte /\ Turned(c5, c6)
  BY <1>5, ShiftOnceIs
<1> HIDE DEF c6
<1>7. c7 \in Byte /\ Turned(c6, c7)
  BY <1>6, ShiftOnceIs
<1> HIDE DEF c7
<1>8. c8 \in Byte /\ Turned(c7, c8)
  BY <1>7, ShiftOnceIs
<1> HIDE DEF c8
<1>9. Turned8(c, c8)
  BY <1>1, <1>2, <1>3, <1>4, <1>5, <1>6, <1>7, <1>8 DEF Turned, Turned8, Ne
<1> QED BY <1>0, <1>8, <1>9

LEMMA Shift8Linear ==
  ASSUME NEW a \in Byte, NEW b \in Byte
  PROVE  Shift8[Xor(a, b)] = Xor(Shift8[a], Shift8[b])
<1> DEFINE s == Xor(a, b)
           u == Shift8[a]
           v == Shift8[b]
           w == Shift8[s]
           x == Xor(u, v)
<1>1. s \in Byte /\ \A i : i \in s <=> ~(i \in a <=> i \in b)
  BY XorByte, XorIn
<1> HIDE DEF s
<1>2. /\ u \in Byte /\ Turned8(a, u)
      /\ v \in Byte /\ Turned8(b, v)
      /\ w \in Byte /\ Turned8(s, w)
  BY <1>1, Shift8Is
<1> HIDE DEF u, v, w
<1>3. x \in Byte /\ \A i : i \in x <=> ~(i \in u <=> i \in v)
  BY <1>2, XorByte, XorIn
<1> HIDE DEF x
<1>4. /\ 0 \in w <=> 0 \in x
      /\ 1 \in w <=> 1 \in x
      /\ 2 \in w <=> 2 \in x
      /\ 3 \in w <=> 3 \in x
      /\ 4 \in w <=> 4 \in x
      /\ 5 \in w <=> 5 \in x
      /\ 6 \in w <=> 6 \in x
      /\ 7 \in w <=> 7 \in x
  BY <1>1, <1>2, <1>3 DEF Turned8, Ne
<1>5. w = x
  BY <1>2, <1>3, <1>4, SameBits
<1> QED BY <1>5 DEF s, u, v, w, x

(* The difference of the two registers.                                    *)
Err == Xor(tx, rx)

(* A register after a byte uses its six upper bits; of those every byte    *)
(* that follows loses none.                                                *)
Upper(c) == c \in Byte /\ 0 \notin c /\ 1 \notin c

LEMMA UpperStays ==
  ASSUME NEW c, Upper(c), Shift8[c] = {} PROVE c = {}
<1>1. c \in Byte /\ Turned8(c, {}) /\ 0 \notin c /\ 1 \notin c /\ {} \in Byte
  BY Shift8Is DEF Upper, Byte
<1>2. 2 \notin c /\ 3 \notin c /\ 4 \notin c /\ 5 \notin c /\ 6 \notin c /\ 7 \notin c
  BY <1>1 DEF Turned8, Ne
<1> QED BY <1>1, <1>2, SameBits

LEMMA Shift8Upper ==
  ASSUME NEW c \in Byte PROVE Upper(Shift8[c])
BY Shift8Is DEF Upper, Turned8

LEMMA NoneTurned == Shift8[{}] = {}
<1>1. {} \in Byte /\ Turned8({}, Shift8[{}]) /\ Shift8[{}] \in Byte
  BY Shift8Is DEF Byte
<1>2. /\ 2 \notin Shift8[{}] /\ 3 \notin Shift8[{}] /\ 4 \notin Shift8[{}]
      /\ 5 \notin Shift8[{}] /\ 6 \notin Shift8[{}] /\ 7 \notin Shift8[{}]
      /\ 0 \notin Shift8[{}] /\ 1 \notin Shift8[{}]
  BY <1>1 DEF Turned8, Ne
<1> QED BY <1>1, <1>2, SameBits

(* Flips within six bits of one byte are seen.                             *)
LEMMA BurstInByte ==
  ASSUME NEW F \in Byte, F # {}, \A i, j \in F : i - j < 6 PROVE Shift8[F] # {}
<1> SUFFICES ASSUME Shift8[F] = {} PROVE FALSE
  OBVIOUS
<1>1. Turned8(F, {})
  BY Shift8Is
<1>2. /\ ~(6 \in F /\ 0 \in F) /\ ~(7 \in F /\ 0 \in F) /\ ~(7 \in F /\ 1 \in F)
  OBVIOUS
<1>3. /\ 0 \notin F /\ 1 \notin F /\ 2 \notin F /\ 3 \notin F
      /\ 4 \notin F /\ 5 \notin F /\ 6 \notin F /\ 7 \notin F
  BY <1>1, <1>2 DEF Turned8, Ne
<1> QED BY <1>3, BitsAre DEF Byte

(* Flips G at the end of one byte and F at the start of the next, all      *)
(* within six bits.                                                        *)
Straddles(G, F) ==
  /\ G \in Byte /\ F \in Byte /\ G # {} /\ F # {}
  /\ \A i \in G, j \in F : i + 8 - j < 6

StraddleBits(G, F) ==
  /\ 5 \notin G /\ 6 \notin G /\ 7 \notin G
  /\ 0 \notin F /\ 1 \notin F /\ 2 \notin F
  /\ 1 \in G => 3 \notin F
  /\ 2 \in G => 3 \notin F /\ 4 \notin F
  /\ 3 \in G => 3 \notin F /\ 4 \notin F /\ 5 \notin F
  /\ 4 \in G => 3 \notin F /\ 4 \notin F /\ 5 \notin F /\ 6 \notin F
  /\ 0 \in G \/ 1 \in G \/ 2 \in G \/ 3 \in G \/ 4 \in G
  /\ 3 \in F \/ 4 \in F \/ 5 \in F \/ 6 \in F \/ 7 \in F

LEMMA StraddlesAre ==
  ASSUME NEW G, NEW F, Straddles(G, F) PROVE StraddleBits(G, F)
<1>1. /\ \E i \in {0, 1, 2, 3, 4, 5, 6, 7} : i \in G
      /\ \E i \in {0, 1, 2, 3, 4, 5, 6, 7} : i \in F
  BY BitsAre DEF Straddles, Byte
<1>2. PICK g \in {0, 1, 2, 3, 4, 5, 6, 7} : g \in G
  BY <1>1
<1>3. PICK f \in {0, 1, 2, 3, 4, 5, 6, 7} : f \in F
  BY <1>1
<1>4. \A i \in {0, 1, 2, 3, 4, 5, 6, 7} : i \in G => i + 8 - f < 6
  BY <1>3 DEF Straddles
<1>5. \A i \in {0, 1, 2, 3, 4, 5, 6, 7} : i \in F => g + 8 - i < 6
  BY <1>2 DEF Straddles
<1>6. 5 \notin G /\ 6 \notin G /\ 7 \notin G
  BY <1>4
<1>7. 0 \notin F /\ 1 \notin F /\ 2 \notin F
  BY <1>5
<1>8. /\ 1 \in G => 3 \notin F
      /\ 2 \in G => 3 \notin F /\ 4 \notin F
      /\ 3 \in G => 3 \notin F /\ 4 \notin F /\ 5 \notin F
      /\ 4 \in G => 3 \notin F /\ 4 \notin F /\ 5 \notin F /\ 6 \notin F
  BY DEF Straddles
<1> QED BY <1>1, <1>6, <1>7, <1>8 DEF StraddleBits

(* They are seen when both bytes are data ...                              *)
LEMMA BurstInTwoBytes ==
  ASSUME NEW G, NEW F, Straddles(G, F) PROVE Shift8[Xor(Shift8[G], F)] # {}
<1> SUFFICES ASSUME Shift8[Xor(Shift8[G], F)] = {} PROVE FALSE
  OBVIOUS
<1> DEFINE u == Shift8[G]
           x == Xor(u, F)
<1>1. G \in Byte /\ F \in Byte /\ StraddleBits(G, F)
  BY StraddlesAre DEF Straddles
<1>2. u \in Byte /\ Turned8(G, u)
  BY <1>1, Shift8Is
<1> HIDE DEF u
<1>3. x \in Byte /\ \A i : i \in x <=> ~(i \in u <=> i \in F)
  BY <1>1, <1>2, XorByte, XorIn
<1>4. Turned8(x, {})
  <2>1. Shift8[x] = {}
    BY DEF u
  <2> QED BY <1>3, <2>1, Shift8Is
<1> HIDE DEF x
<1> QED BY <1>1, <1>2, <1>3, <1>4 DEF Turned8, StraddleBits, Ne

(* ... and when the second is the check byte, with or without the zero     *)
(* byte before it.                                                         *)
LEMMA ResultBits ==
  ASSUME NEW c, Upper(c)
  PROVE  /\ 0 \in CrcResult(c) <=> 2 \in c
         /\ 1 \in CrcResult(c) <=> 3 \in c
         /\ 2 \in CrcResult(c) <=> 4 \in c
         /\ 3 \in CrcResult(c) <=> 5 \in c
         /\ 4 \in CrcResult(c) <=> 6 \in c
         /\ 5 \in CrcResult(c) <=> 7 \in c
         /\ 6 \notin CrcResult(c) /\ 7 \notin CrcResult(c)
         /\ CrcResult(c) \in Byte
<1>1. \A i \in c : i \in 2..7
  <2>1. \A i \in c : i \in 0..7 /\ i # 0 /\ i # 1
    BY DEF Upper, Byte, Bits
  <2> QED BY <2>1
<1>2. \A k \in 0..7 : k \in CrcResult(c) <=> k + 2 \in c
  BY <1>1 DEF CrcResult
<1>3. \A i \in CrcResult(c) : i \in 0..5
  BY <1>1 DEF CrcResult
<1>4. CrcResult(c) \in Byte
  BY <1>3 DEF Byte, Bits
<1> QED BY <1>2, <1>3, <1>4

LEMMA BurstAtEnd ==
  ASSUME NEW G, NEW F, Straddles(G, F)
  PROVE  CrcResult(Shift8[G]) # F /\ CrcResult(Shift8[Shift8[G]]) # F
<1> DEFINE u == Shift8[G]
           v == Shift8[u]
<1>1. G \in Byte /\ F \in Byte /\ StraddleBits(G, F)
  BY StraddlesAre DEF Straddles
<1>2. u \in Byte /\ Turned8(G, u) /\ Upper(u)
  BY <1>1, Shift8Is, Shift8Upper
<1> HIDE DEF u
<1>3. v \in Byte /\ Turned8(u, v) /\ Upper(v)
  BY <1>2, Shift8Is, Shift8Upper
<1> HIDE DEF v
<1>4. CrcResult(u) # F
  <2> SUFFICES ASSUME CrcResult(u) = F PROVE FALSE
    OBVIOUS
  <2> QED BY <1>1, <1>2, ResultBits DEF Turned8, StraddleBits, Ne
<1>5. CrcResult(v) # F
  <2> SUFFICES ASSUME CrcResult(v) = F PROVE FALSE
    OBVIOUS
  <2> QED BY <1>1, <1>2, <1>3, ResultBits DEF Turned8, StraddleBits, Ne
<1> QED BY <1>4, <1>5 DEF u, v

-----------------------------------------------------------------------------
(* The frame check, whatever the data: only the difference of the two      *)
(* registers counts, and the flips alone drive it.                         *)

(* The registers' difference when the check byte is compared.              *)
EndErr == IF len = 1 THEN Shift8[Err] ELSE Err

(* The flips of the byte with number n - 1, as bits.                       *)
LastFlips(S, n) == {i \in Bits : 8 * n - 1 - i \in S}

Burst(S) == \A p, q \in S : q - p < 6

RegInv ==
  /\ len \in Nat /\ tx \in Byte /\ rx \in Byte
  /\ flipped \subseteq 0..(8 * len - 1)
  /\ len > 0 => Upper(Err)
  /\ flipped = {} => Err = {}

BurstInv ==
  Burst(flipped) /\ flipped # {} =>
    /\ Err # {}
    /\ flipped \subseteq (8 * len - 8)..(8 * len - 1) => Err = Shift8[LastFlips(flipped, len)]

LEMMA ErrStep ==
  ASSUME NEW b \in FrameBytes, NEW F \in FlipSets, RegInv, FrameByte(b, F)
  PROVE  /\ F \in Byte /\ tx' \in Byte /\ rx' \in Byte /\ Err \in Byte
         /\ Err' = Shift8[Xor(Err, F)] /\ Upper(Err')
<1>1. b \in Byte /\ F \in Byte
  BY ChecksumConstants DEF Byte, Bits, FlipSets
<1>2. tx \in Byte /\ rx \in Byte /\ Err \in Byte
  BY XorByte DEF RegInv, Err
<1> DEFINE s == Xor(tx, b)
           r == Xor(rx, Xor(b, F))
<1>3. s \in Byte /\ r \in Byte
  BY <1>1, <1>2, XorByte
<1>4. tx' = Shift8[s] /\ rx' = Shift8[r]
  BY DEF FrameByte, CrcByte, OnWire
<1>5. Xor(s, r) = Xor(Err, F)
  <2>1. \A i : i \in Xor(s, r) <=> i \in Xor(Err, F)
    BY DEF Xor, Err
  <2> QED BY <2>1
<1> HIDE DEF s, r
<1>6. Err' = Xor(tx', rx')
  BY DEF Err
<1>7. Err' = Shift8[Xor(s, r)]
  BY <1>3, <1>4, <1>6, Shift8Linear
<1>8. Xor(Err, F) \in Byte
  BY <1>1, <1>2, XorByte
<1> QED BY <1>1, <1>2, <1>3, <1>4, <1>5, <1>7, <1>8, Shift8Is, Shift8Upper

LEMMA ResultLinear ==
  ASSUME NEW a \in Byte, NEW b \in Byte
  PROVE  CrcResult(Xor(a, b)) = Xor(CrcResult(a), CrcResult(b))
<1>1. \A c \in Byte : \A k : k \in CrcResult(c) <=> k \in 0..5 /\ k + 2 \in c
  <2> SUFFICES ASSUME NEW c \in Byte, NEW k
               PROVE  k \in CrcResult(c) <=> k \in 0..5 /\ k + 2 \in c
    OBVIOUS
  <2>1. \A i \in c : i \in 0..7
    BY DEF Byte, Bits
  <2> QED BY <2>1 DEF CrcResult
<1>2. Xor(a, b) \in Byte
  BY XorByte
<1>3. \A k : k \in CrcResult(Xor(a, b)) <=> k \in Xor(CrcResult(a), CrcResult(b))
  BY <1>1, <1>2, XorIn
<1> QED BY <1>3

LEMMA CheckStep ==
  ASSUME NEW F \in FlipSets, RegInv, FrameCheck(F)
  PROVE  /\ F \in Byte /\ Upper(EndErr)
         /\ EndErr = {} => Err = {}
         /\ crc_ok' => CrcResult(EndErr) = F
<1>1. F \in Byte /\ {} \in Byte
  BY DEF FlipSets, Byte
<1>2. tx \in Byte /\ rx \in Byte /\ Err \in Byte /\ len > 0 /\ Upper(Err)
  BY XorByte DEF RegInv, Err, FrameCheck
<1>3. Upper(EndErr)
  BY <1>2, Shift8Upper DEF EndErr
<1>4. EndErr = {} => Err = {}
  BY <1>2, UpperStays DEF EndErr
<1> DEFINE t == CrcEnd(tx)
           r == CrcEnd(rx)
<1>5. t \in Byte /\ r \in Byte /\ Xor(t, r) = EndErr
  <2>1. CASE len = 1
    <3>1. Xor(tx, {}) = tx /\ Xor(rx, {}) = rx
      BY DEF Xor
    <3>2. t = Shift8[tx] /\ r = Shift8[rx] /\ EndErr = Shift8[Err]
      BY <2>1, <3>1 DEF CrcEnd, CrcByte, EndErr
    <3> QED BY <1>2, <3>2, Shift8Is, Shift8Linear DEF Err
  <2>2. CASE len # 1
    <3>1. t = tx /\ r = rx /\ EndErr = Err
      BY <2>2 DEF CrcEnd, EndErr
    <3> QED BY <1>2, <3>1 DEF Err
  <2> QED BY <2>1, <2>2
<1>6. crc_ok' => CrcResult(r) = Xor(CrcResult(t), F)
  BY DEF FrameCheck, CrcMatches, OnWire
<1> HIDE DEF t, r
<1>7. CrcResult(EndErr) = Xor(CrcResult(t), CrcResult(r))
  BY <1>5, ResultLinear
<1>8. CrcResult(r) = Xor(CrcResult(t), F) => Xor(CrcResult(t), CrcResult(r)) = F
  <2>1. \A x, y : Xor(x, Xor(x, y)) = y
    <3> SUFFICES ASSUME NEW x, NEW y PROVE Xor(x, Xor(x, y)) = y
      OBVIOUS
    <3>1. \A i : i \in Xor(x, Xor(x, y)) <=> i \in y
      BY DEF Xor
    <3> QED BY <3>1
  <2> QED BY <2>1
<1> QED BY <1>1, <1>3, <1>4, <1>6, <1>7, <1>8

(* The flips of a byte lie behind the earlier ones.                        *)
NewFlips(F) == {8 * len + 7 - i : i \in F}

LEMMA NewFlipsAre ==
  ASSUME NEW F \in Byte, RegInv
  PROVE  /\ NewFlips(F) \subseteq (8 * len)..(8 * len + 7)
         /\ F # {} => NewFlips(F) # {}
         /\ F = {} => NewFlips(F) = {}
         /\ \A i \in F : 8 * len + 7 - i \in NewFlips(F) /\ i \in 0..7
         /\ \A p \in NewFlips(F) : 8 * len + 7 - p \in F
         /\ \A p \in flipped : p \in 0..(8 * len - 1)
<1>1. len \in Nat /\ \A i \in F : i \in 0..7
  BY DEF RegInv, Byte, Bits
<1>2. \A p \in NewFlips(F) : p \in (8 * len)..(8 * len + 7)
  BY <1>1 DEF NewFlips
<1>3. \A i \in F : 8 * len + 7 - i \in NewFlips(F)
  BY DEF NewFlips
<1>4. \A p \in NewFlips(F) : 8 * len + 7 - p \in F
  BY <1>1 DEF NewFlips
<1>5. F = {} => NewFlips(F) = {}
  BY DEF NewFlips
<1>6. F # {} => NewFlips(F) # {}
  BY <1>3
<1> QED BY <1>1, <1>2, <1>3, <1>4, <1>5, <1>6 DEF RegInv

LEMMA RegStep ==
  ASSUME NEW b \in FrameBytes, NEW F \in FlipSets, RegInv, FrameByte(b, F)
  PROVE  RegInv'
<1>1. /\ F \in Byte /\ tx' \in Byte /\ rx' \in Byte /\ Err \in Byte
      /\ Err' = Shift8[Xor(Err, F)] /\ Upper(Err')
  BY ErrStep
<1>2. /\ len \in Nat /\ len' = len + 1 /\ flipped' = flipped \cup NewFlips(F)
  BY DEF FrameByte, RegInv, Flips, NewFlips
<1>3. flipped' \subseteq 0..(8 * len' - 1)
  <2>1. \A p \in flipped' : p \in 0..(8 * len + 7)
    BY <1>1, <1>2, NewFlipsAre
  <2> QED BY <1>2, <2>1
<1>4. flipped' = {} => Err' = {}
  <2> SUFFICES ASSUME flipped' = {} PROVE Err' = {}
    OBVIOUS
  <2>1. flipped = {} /\ NewFlips(F) = {}
    BY <1>2
  <2>2. F = {} /\ Err = {}
    BY <1>1, <2>1, NewFlipsAre DEF RegInv
  <2>3. Xor(Err, F) = {}
    BY <2>2 DEF Xor
  <2> QED BY <1>1, <2>3, NoneTurned
<1>5. len' \in Nat
  BY <1>2
<1> QED BY <1>1, <1>3, <1>4, <1>5 DEF RegInv

(* A burst that goes on in the next byte began in the one before it.       *)
LEMMA BurstStraddles ==
  ASSUME NEW F \in Byte, RegInv, flipped # {}, F # {}, Burst(flipped \cup NewFlips(F))
  PROVE  /\ flipped \subseteq (8 * len - 8)..(8 * len - 1)
         /\ Straddles(LastFlips(flipped, len), F)
<1> DEFINE G == LastFlips(flipped, len)
<1>1. len \in Nat
  BY DEF RegInv
<1>2. PICK j \in F : j \in 0..7
  BY DEF Byte, Bits
<1>3. \A p \in flipped : p \in 0..(8 * len - 1) /\ 8 * len + 7 - j - p < 6
  <2>1. PICK n \in flipped \cup NewFlips(F) : n = 8 * len + 7 - j
    BY NewFlipsAre
  <2>2. \A p \in flipped : n - p < 6
    BY DEF Burst
  <2>3. \A p \in flipped : p \in 0..(8 * len - 1)
    BY NewFlipsAre
  <2> QED BY <1>1, <1>2, <2>1, <2>2, <2>3
<1>4. \A p \in flipped : p \in (8 * len - 8)..(8 * len - 1)
  BY <1>1, <1>2, <1>3
<1>5. G \in Byte
  BY DEF LastFlips, Byte
<1>6. G # {}
  <2>1. PICK p \in flipped : p \in (8 * len - 8)..(8 * len - 1)
    BY <1>4
  <2>2. 8 * len - 1 - p \in 0..7 /\ 8 * len - 1 - (8 * len - 1 - p) = p
    BY <1>1, <2>1
  <2> QED BY <2>1, <2>2 DEF LastFlips, Bits
<1>7. \A i \in G, k \in F : i + 8 - k < 6
  <2> SUFFICES ASSUME NEW i \in G, NEW k \in F PROVE i + 8 - k < 6
    OBVIOUS
  <2>1. i \in 0..7 /\ k \in 0..7 /\ 8 * len - 1 - i \in flipped
    BY NewFlipsAre DEF LastFlips, Bits
  <2>2. 8 * len + 7 - k \in NewFlips(F)
    BY NewFlipsAre
  <2>3. (8 * len + 7 - k) - (8 * len - 1 - i) < 6
    BY <2>1, <2>2 DEF Burst
  <2> QED BY <1>1, <2>1, <2>3
<1> QED BY <1>4, <1>5, <1>6, <1>7 DEF Straddles

LEMMA BurstStep ==
  ASSUME NEW b \in FrameBytes, NEW F \in FlipSets, RegInv, BurstInv, FrameByte(b, F)
  PROVE  BurstInv'
<1>1. /\ F \in Byte /\ Err \in Byte /\ Err' = Shift8[Xor(Err, F)]
  BY ErrStep
<1>2. /\ len \in Nat /\ len' = len + 1 /\ flipped' = flipped \cup NewFlips(F)
  BY DEF FrameByte, RegInv, Flips, NewFlips
<1> SUFFICES ASSUME Burst(flipped'), flipped' # {}
             PROVE  /\ Err' # {}
                    /\ flipped' \subseteq (8 * len' - 8)..(8 * len' - 1) =>
                         Err' = Shift8[LastFlips(flipped', len')]
  BY DEF BurstInv, Burst, LastFlips
<1>3. ASSUME flipped # {}
      PROVE  ~(flipped' \subseteq (8 * len' - 8)..(8 * len' - 1))
  <2>1. PICK p \in flipped : p \in 0..(8 * len - 1)
    BY <1>1, <1>3, NewFlipsAre
  <2>2. p \in flipped' /\ p \notin (8 * len' - 8)..(8 * len' - 1)
    BY <1>2, <2>1
  <2> QED BY <2>2
<1>4. ASSUME flipped # {} PROVE Upper(Err) /\ Burst(flipped)
  <2>1. PICK p \in flipped : p \in 0..(8 * len - 1)
    BY <1>1, <1>4, NewFlipsAre
  <2>2. len > 0
    BY <1>2, <2>1
  <2> QED BY <1>2, <2>2 DEF RegInv, Burst
<1>5. CASE F = {}
  <2>1. flipped' = flipped /\ Xor(Err, F) = Err
    BY <1>1, <1>2, <1>5, NewFlipsAre DEF Xor
  <2>2. Err # {} /\ Upper(Err)
    BY <1>4, <2>1 DEF BurstInv
  <2> QED BY <1>1, <1>3, <2>1, <2>2, UpperStays
<1>6. CASE F # {} /\ flipped = {}
  <2>1. Err = {} /\ flipped' = NewFlips(F)
    BY <1>2, <1>6 DEF RegInv
  <2>2. Err' = Shift8[F]
    <3>1. Xor(Err, F) = F
      BY <2>1 DEF Xor
    <3> QED BY <1>1, <3>1
  <2>3. \A i, j \in F : i - j < 6
    <3> SUFFICES ASSUME NEW i \in F, NEW j \in F PROVE i - j < 6
      OBVIOUS
    <3>1. /\ 8 * len + 7 - i \in flipped' /\ 8 * len + 7 - j \in flipped'
          /\ i \in 0..7 /\ j \in 0..7
      BY <1>1, <2>1, NewFlipsAre
    <3>2. (8 * len + 7 - j) - (8 * len + 7 - i) < 6
      BY <3>1 DEF Burst
    <3> QED BY <1>2, <3>1, <3>2
  <2>4. LastFlips(flipped', len') = F
    <3>1. ASSUME NEW i \in F PROVE i \in LastFlips(flipped', len')
      <4>1. 8 * len + 7 - i \in flipped' /\ i \in 0..7
        BY <1>1, <2>1, NewFlipsAre
      <4>2. 8 * len' - 1 - i = 8 * len + 7 - i
        BY <1>2, <4>1
      <4> QED BY <4>1, <4>2 DEF LastFlips, Bits
    <3>2. ASSUME NEW i \in LastFlips(flipped', len') PROVE i \in F
      <4>1. 8 * len' - 1 - i \in flipped' /\ i \in 0..7
        BY DEF LastFlips, Bits
      <4>2. 8 * len + 7 - (8 * len' - 1 - i) \in F
        BY <1>1, <2>1, <4>1, NewFlipsAre
      <4>3. 8 * len + 7 - (8 * len' - 1 - i) = i
        BY <1>2, <4>1
      <4> QED BY <4>2, <4>3
    <3> QED BY <3>1, <3>2
  <2> QED BY <1>1, <1>6, <2>2, <2>3, <2>4, BurstInByte
<1>7. CASE F # {} /\ flipped # {}
  <2>1. /\ flipped \subseteq (8 * len - 8)..(8 * len - 1)
        /\ Straddles(LastFlips(flipped, len), F)
    BY <1>1, <1>2, <1>7, BurstStraddles
  <2>2. Err = Shift8[LastFlips(flipped, len)]
    BY <1>4, <1>7, <2>1 DEF BurstInv
  <2>3. Err' # {}
    BY <1>1, <2>1, <2>2, BurstInTwoBytes
  <2> QED BY <1>3, <1>7, <2>3
<1> QED BY <1>5, <1>6, <1>7

LEMMA BurstCheck ==
  ASSUME NEW F \in FlipSets, RegInv, BurstInv, FrameCheck(F)
  PROVE  BurstsAreRefused'
<1>1. /\ F \in Byte /\ Upper(EndErr)
      /\ EndErr = {} => Err = {}
      /\ crc_ok' => CrcResult(EndErr) = F
  BY CheckStep
<1>2. len \in Nat /\ flipped' = flipped \cup NewFlips(F)
  BY DEF FrameCheck, RegInv, Flips, NewFlips
<1> SUFFICES ASSUME crc_ok', flipped' # {}, Burst(flipped') PROVE FALSE
  <2>1. \A p \in flipped' : p \in Int
    BY <1>1, <1>2, NewFlipsAre
  <2>2. \A p, q \in flipped' : q - p >= 6 \/ q - p < 6
    BY <2>1
  <2> QED BY <2>2 DEF Burst, BurstsAreRefused
<1>3. CASE F = {}
  <2>1. flipped' = flipped
    BY <1>1, <1>2, <1>3, NewFlipsAre
  <2>2. EndErr \in Byte /\ {} \in Byte
    BY <1>1 DEF Upper, Byte
  <2>3. EndErr = {}
    BY <1>1, <1>3, <2>2, ResultBits, SameBits DEF Upper
  <2> QED BY <1>1, <2>1, <2>3 DEF BurstInv
<1>4. CASE F # {} /\ flipped = {}
  <2>1. Err = {} /\ EndErr = {}
    BY <1>4, NoneTurned DEF RegInv, EndErr
  <2>2. CrcResult({}) = {}
    BY DEF CrcResult
  <2> QED BY <1>1, <1>4, <2>1, <2>2
<1>5. CASE F # {} /\ flipped # {}
  <2>1. /\ flipped \subseteq (8 * len - 8)..(8 * len - 1)
        /\ Straddles(LastFlips(flipped, len), F)
    BY <1>1, <1>2, <1>5, BurstStraddles
  <2>2. Burst(flipped)
    BY <1>2 DEF Burst
  <2>3. Err = Shift8[LastFlips(flipped, len)]
    BY <1>5, <2>1, <2>2 DEF BurstInv
  <2> QED BY <1>1, <2>1, <2>3, BurstAtEnd DEF EndErr
<1> QED BY <1>3, <1>4, <1>5

FrameInv ==
  job = "frame" => /\ phase \in {"data", "checked"}
                   /\ phase = "data" => RegInv /\ BurstInv

(* iolink_dll_process takes no frame, of any length and with any data,     *)
(* whose flipped bits all lie within six consecutive bits of the line, the *)
(* check byte included.  FrameInv is what makes it inductive: the flips    *)
(* alone drive the difference of the two registers, a register that        *)
(* differs stays different, and a burst reaches over two bytes at most.    *)
THEOREM FrameCheckRefusesBursts == Spec => []BurstsAreRefused
<1>1. Init => FrameInv /\ BurstsAreRefused
  <2> SUFFICES ASSUME Init PROVE FrameInv /\ BurstsAreRefused
    OBVIOUS
  <2>1. BurstsAreRefused
    BY DEF Init, BurstsAreRefused
  <2>2. ASSUME job = "frame" PROVE RegInv /\ BurstInv
    <3>1. tx = CrcSeed /\ rx = CrcSeed /\ flipped = {} /\ len = 0
      BY <2>2 DEF Init
    <3>2. CrcSeed \in Byte
      BY BitsAre DEF CrcSeed, Byte
    <3>3. Err = {}
      BY <3>1 DEF Err, Xor
    <3> QED BY <3>1, <3>2, <3>3 DEF RegInv, BurstInv
  <2> QED BY <2>1, <2>2 DEF FrameInv, Init
<1>2. FrameInv /\ BurstsAreRefused /\ [Next]_vars => FrameInv' /\ BurstsAreRefused'
  <2> SUFFICES ASSUME FrameInv, BurstsAreRefused, [Next]_vars
               PROVE  FrameInv' /\ BurstsAreRefused'
    OBVIOUS
  <2>1. ASSUME NEW b \in FrameBytes, NEW F \in FlipSets, FrameByte(b, F)
        PROVE  FrameInv' /\ BurstsAreRefused'
    <3>1. RegInv /\ BurstInv /\ phase' = "data"
      BY <2>1 DEF FrameInv, FrameByte
    <3>2. RegInv' /\ BurstInv'
      BY <2>1, <3>1, RegStep, BurstStep
    <3> QED BY <3>1, <3>2 DEF FrameInv, BurstsAreRefused
  <2>2. ASSUME NEW F \in FlipSets, FrameCheck(F)
        PROVE  FrameInv' /\ BurstsAreRefused'
    <3>1. RegInv /\ BurstInv /\ phase' = "checked"
      BY <2>2 DEF FrameInv, FrameCheck
    <3> QED BY <2>2, <3>1, BurstCheck DEF FrameInv
  <2>3. ASSUME NEW b \in StoreBytes, NEW c \in StoreBytes, StoreByte(b, c) \/ StoreSwap(b, c)
        PROVE  FrameInv' /\ BurstsAreRefused'
    BY <2>3 DEF StoreByte, StoreSwap, FrameInv, BurstsAreRefused
  <2>4. CASE UNCHANGED vars
    BY <2>4 DEF vars, FrameInv, BurstsAreRefused, RegInv, BurstInv, Err, Upper, Burst, LastFlips
  <2> QED BY <2>1, <2>2, <2>3, <2>4 DEF Next
<1> QED BY <1>1, <1>2, PTL DEF Spec

-----------------------------------------------------------------------------
(* Two flips.  One flipped bit leaves a power of x in the difference of    *)
(* the registers, and there are 15 of them.                                *)

Powers == {0, 1, 2, 3, 4, 5, 6, 7, 8, 9, 10, 11, 12, 13, 14}

(* The register holds x^k, its bit 2 being x^0.                            *)
IsPower(k, c) ==
  /\ k \in Powers /\ 0 \notin c /\ 1 \notin c
  /\ 2 \in c <=> k \in {0, 6, 8, 9, 12, 13}
  /\ 3 \in c <=> k \in {1, 7, 9, 10, 13, 14}
  /\ 4 \in c <=> k \in {2, 6, 9, 10, 11, 12, 13, 14}
  /\ 5 \in c <=> k \in {3, 6, 7, 8, 9, 10, 11, 14}
  /\ 6 \in c <=> k \in {4, 6, 7, 10, 11, 13}
  /\ 7 \in c <=> k \in {5, 7, 8, 11, 12, 14}

Later8(k) == IF k < 7 THEN k + 8 ELSE k - 7

LEMMA PowerTurns ==
  ASSUME NEW k, NEW c \in Byte, IsPower(k, c) PROVE IsPower(Later8(k), Shift8[c])
<1>1. Turned8(c, Shift8[c]) /\ k \in Powers
  BY Shift8Is DEF IsPower
<1>2. ASSUME NEW d, Turned8(c, d) PROVE IsPower(Later8(k), d)
  BY <1>1, <1>2 DEF IsPower, Turned8, Ne, Powers, Later8
<1> QED BY <1>1, <1>2

LEMMA BitTurns ==
  ASSUME NEW i \in 0..7 PROVE {i} \in Byte /\ IsPower(i + 6, Shift8[{i}])
<1>1. {i} \in Byte
  BY DEF Byte, Bits
<1>2. Turned8({i}, Shift8[{i}])
  BY <1>1, Shift8Is
<1>3. ASSUME NEW d, Turned8({i}, d) PROVE IsPower(i + 6, d)
  BY <1>3 DEF IsPower, Turned8, Ne, Powers
<1> QED BY <1>1, <1>2, <1>3

LEMMA PowerIsOne ==
  ASSUME NEW k, NEW m, NEW c, IsPower(k, c), IsPower(m, c) PROVE k = m
BY DEF IsPower, Powers

LEMMA PowerNotNone ==
  ASSUME NEW k PROVE ~IsPower(k, {})
BY DEF IsPower, Powers

(* The six powers that are a bit of the result.                            *)
LEMMA ResultPower ==
  ASSUME NEW c, Upper(c), NEW i \in 0..7, CrcResult(c) = {i}
  PROVE  IsPower(i, c) /\ i \in 0..5
<1>1. /\ 0 \in {i} <=> 2 \in c
      /\ 1 \in {i} <=> 3 \in c
      /\ 2 \in {i} <=> 4 \in c
      /\ 3 \in {i} <=> 5 \in c
      /\ 4 \in {i} <=> 6 \in c
      /\ 5 \in {i} <=> 7 \in c
      /\ 6 \notin {i} /\ 7 \notin {i}
  BY ResultBits
<1> QED BY <1>1 DEF Upper, IsPower, Powers

LEMMA ModLater8 ==
  ASSUME NEW n \in Nat PROVE (n + 8) % 15 = Later8(n % 15) /\ n % 15 \in 0..14
BY DEF Later8

LEMMA ModSame ==
  ASSUME NEW n \in Nat, NEW m \in Nat, n % 15 = m, m <= n PROVE (n - m) % 15 = 0
OBVIOUS

PairInv ==
  /\ \A p : flipped = {p} => IsPower((8 * len + 5 - p) % 15, Err)
  /\ \A p, q : flipped = {p, q} /\ p < q /\ Err = {} => (q - p) % 15 = 0

(* The bits of one byte.                                                   *)
LEMMA FlipsOfOne ==
  ASSUME NEW F \in Byte, RegInv, NEW p, NewFlips(F) = {p}
  PROVE  /\ F = {8 * len + 7 - p} /\ 8 * len + 7 - p \in 0..7
         /\ p \in (8 * len)..(8 * len + 7)
<1>1. len \in Nat
  BY DEF RegInv
<1>2. p \in (8 * len)..(8 * len + 7) /\ 8 * len + 7 - p \in F
  BY NewFlipsAre
<1>3. \A i \in F : i = 8 * len + 7 - p
  <2> SUFFICES ASSUME NEW i \in F PROVE i = 8 * len + 7 - p
    OBVIOUS
  <2>1. 8 * len + 7 - i = p /\ i \in 0..7
    BY NewFlipsAre
  <2> QED BY <1>1, <2>1
<1>4. F = {8 * len + 7 - p}
  BY <1>2, <1>3
<1> QED BY <1>1, <1>2, <1>4

LEMMA FlipsOfTwo ==
  ASSUME NEW F \in Byte, RegInv, NEW p, NEW q, NewFlips(F) = {p, q}, p < q
  PROVE  \E i, j \in 0..7 : i # j /\ F = {i, j}
<1>1. len \in Nat
  BY DEF RegInv
<1>2. /\ p \in (8 * len)..(8 * len + 7) /\ 8 * len + 7 - p \in F
      /\ q \in (8 * len)..(8 * len + 7) /\ 8 * len + 7 - q \in F
  BY NewFlipsAre
<1>3. PICK i \in 0..7, j \in 0..7 : i = 8 * len + 7 - p /\ j = 8 * len + 7 - q
  BY <1>1, <1>2
<1>4. \A k \in F : k = i \/ k = j
  <2> SUFFICES ASSUME NEW k \in F PROVE k = i \/ k = j
    OBVIOUS
  <2>1. 8 * len + 7 - k \in {p, q} /\ k \in 0..7
    BY NewFlipsAre
  <2> QED BY <1>1, <1>2, <1>3, <2>1
<1>5. F = {i, j} /\ i # j
  BY <1>1, <1>2, <1>3, <1>4
<1> QED BY <1>5

(* How two flips, or one, spread over the earlier bytes and the last one.  *)
LEMMA PairSplits ==
  ASSUME NEW F \in Byte, RegInv, NEW p, NEW q, p < q,
         flipped \cup NewFlips(F) = {p, q}
  PROVE  \/ flipped = {p, q} /\ F = {}
         \/ flipped = {} /\ NewFlips(F) = {p, q}
         \/ flipped = {p} /\ NewFlips(F) = {q}
<1>1. /\ len \in Nat /\ \A r \in flipped : r \in 0..(8 * len - 1)
      /\ \A r \in NewFlips(F) : r \in (8 * len)..(8 * len + 7)
  BY NewFlipsAre DEF RegInv
<1>2. \A r \in flipped, s \in NewFlips(F) : r < s
  BY <1>1
<1>3. p \in Int /\ q \in Int /\ p # q /\ ~(q < p) /\ ~(p < p) /\ ~(q < q)
  <2>1. p \in Int /\ q \in Int
    BY <1>1
  <2> QED BY <2>1
<1>4. CASE flipped = {}
  BY <1>4
<1>5. CASE NewFlips(F) = {}
  <2>1. F = {}
    BY <1>5, NewFlipsAre
  <2> QED BY <1>5, <2>1
<1>6. CASE flipped # {} /\ NewFlips(F) # {}
  <2>1. PICK r \in flipped, s \in NewFlips(F) : r \in {p, q} /\ s \in {p, q}
    BY <1>6
  <2>2. r = p /\ s = q
    BY <1>2, <1>3, <2>1
  <2>3. q \notin flipped /\ p \notin NewFlips(F)
    BY <1>2, <1>3, <2>1, <2>2
  <2> QED BY <2>1, <2>2, <2>3
<1> QED BY <1>4, <1>5, <1>6

LEMMA OneSplits ==
  ASSUME NEW F \in Byte, RegInv, NEW p, flipped \cup NewFlips(F) = {p}
  PROVE  \/ flipped = {p} /\ F = {}
         \/ flipped = {} /\ NewFlips(F) = {p}
<1>1. /\ len \in Nat /\ \A r \in flipped : r \in 0..(8 * len - 1)
      /\ \A r \in NewFlips(F) : r \in (8 * len)..(8 * len + 7)
  BY NewFlipsAre DEF RegInv
<1>2. ~(p \in flipped /\ p \in NewFlips(F))
  BY <1>1
<1>3. NewFlips(F) = {} => F = {}
  BY NewFlipsAre
<1> QED BY <1>2, <1>3

LEMMA PairStep ==
  ASSUME NEW b \in FrameBytes, NEW F \in FlipSets, RegInv, PairInv, FrameByte(b, F)
  PROVE  PairInv'
<1>1. /\ F \in Byte /\ Err \in Byte /\ Err' = Shift8[Xor(Err, F)]
  BY ErrStep
<1>2. /\ len \in Nat /\ len' = len + 1 /\ flipped' = flipped \cup NewFlips(F)
      /\ flipped # {} => Upper(Err)
  <2>1. len \in Nat /\ len' = len + 1 /\ flipped' = flipped \cup NewFlips(F)
    BY DEF FrameByte, RegInv, Flips, NewFlips
  <2>2. flipped # {} => len > 0
    BY <1>1, <2>1, NewFlipsAre
  <2> QED BY <2>1, <2>2 DEF RegInv
<1>3. F = {} => Xor(Err, F) = Err
  BY DEF Xor
<1>4. flipped = {} => Xor(Err, F) = F
  BY DEF Xor, RegInv
<1>5. ASSUME NEW p, flipped' = {p} PROVE IsPower((8 * len' + 5 - p) % 15, Err')
  <2>1. CASE flipped = {p} /\ F = {}
    <3>1. IsPower((8 * len + 5 - p) % 15, Err) /\ Err' = Shift8[Err]
      BY <1>1, <1>3, <2>1 DEF PairInv
    <3>2. p \in 0..(8 * len - 1)
      BY <2>1, <1>1, NewFlipsAre
    <3>3. PICK n \in Nat : n = 8 * len + 5 - p
      BY <1>2, <3>2
    <3>4. 8 * len' + 5 - p = n + 8
      BY <1>2, <3>2, <3>3
    <3>5. IsPower(Later8(n % 15), Err')
      BY <1>1, <3>1, <3>3, PowerTurns
    <3> QED BY <3>4, <3>5, ModLater8
  <2>2. CASE flipped = {} /\ NewFlips(F) = {p}
    <3>1. F = {8 * len + 7 - p} /\ 8 * len + 7 - p \in 0..7 /\ p \in (8 * len)..(8 * len + 7)
      BY <1>1, <2>2, FlipsOfOne
    <3>2. PICK i \in 0..7 : i = 8 * len + 7 - p
      BY <3>1
    <3>3. Err' = Shift8[{i}]
      BY <1>1, <1>4, <2>2, <3>1, <3>2
    <3>4. 8 * len' + 5 - p = i + 6
      BY <1>2, <3>1, <3>2
    <3>5. (i + 6) % 15 = i + 6
      OBVIOUS
    <3> QED BY <3>3, <3>4, <3>5, BitTurns
  <2> QED BY <1>1, <1>2, <1>5, <2>1, <2>2, OneSplits
<1>6. ASSUME NEW p, NEW q, flipped' = {p, q}, p < q, Err' = {} PROVE (q - p) % 15 = 0
  <2>1. CASE flipped = {p, q} /\ F = {}
    <3>1. Shift8[Err] = {} /\ Upper(Err)
      BY <1>1, <1>2, <1>3, <1>6, <2>1
    <3>2. Err = {}
      BY <3>1, UpperStays
    <3> QED BY <1>6, <2>1, <3>2 DEF PairInv
  <2>2. CASE flipped = {} /\ NewFlips(F) = {p, q}
    <3>1. PICK i \in 0..7, j \in 0..7 : i # j /\ F = {i, j}
      BY <1>1, <1>6, <2>2, FlipsOfTwo
    <3>2. Shift8[F] = {}
      BY <1>1, <1>4, <1>6, <2>2
    <3>3. F = Xor({i}, {j})
      BY <3>1 DEF Xor
    <3>4. Xor(Shift8[{i}], Shift8[{j}]) = {}
      BY <3>2, <3>3, BitTurns, Shift8Linear
    <3>5. Shift8[{i}] = Shift8[{j}]
      <4>1. \A k : ~(k \in Xor(Shift8[{i}], Shift8[{j}]))
        BY <3>4
      <4> QED BY <4>1 DEF Xor
    <3>6. IsPower(i + 6, Shift8[{i}]) /\ IsPower(j + 6, Shift8[{i}])
      BY <3>5, BitTurns
    <3>7. i + 6 = j + 6
      BY <3>6, PowerIsOne
    <3> QED BY <3>1, <3>7
  <2>3. CASE flipped = {p} /\ NewFlips(F) = {q}
    <3>1. F = {8 * len + 7 - q} /\ 8 * len + 7 - q \in 0..7 /\ q \in (8 * len)..(8 * len + 7)
      BY <1>1, <2>3, FlipsOfOne
    <3>2. PICK i \in 0..7 : i = 8 * len + 7 - q
      BY <3>1
    <3>3. p \in 0..(8 * len - 1)
      BY <2>3, <1>1, NewFlipsAre
    <3>4. PICK n \in Nat : n = 8 * len + 5 - p
      BY <1>2, <3>3
    <3>5. IsPower(n % 15, Err)
      BY <2>3, <3>4 DEF PairInv
    <3>6. IsPower(Later8(n % 15), Shift8[Err])
      BY <1>1, <3>5, PowerTurns
    <3>7. Xor(Shift8[Err], Shift8[{i}]) = {}
      <4>1. F = {i} /\ {i} \in Byte
        BY <3>1, <3>2, BitTurns
      <4> QED BY <1>1, <1>6, <4>1, Shift8Linear
    <3>8. Shift8[Err] = Shift8[{i}]
      <4>1. \A k : ~(k \in Xor(Shift8[Err], Shift8[{i}]))
        BY <3>7
      <4> QED BY <4>1 DEF Xor
    <3>9. Later8(n % 15) = i + 6
      <4>1. IsPower(i + 6, Shift8[Err])
        BY <3>8, BitTurns
      <4> QED BY <3>6, <4>1, PowerIsOne
    <3>10. (n + 8) % 15 = i + 6
      BY <3>9, ModLater8
    <3>11. q - p = (n + 8) - (i + 6) /\ i + 6 <= n + 8 /\ n + 8 \in Nat /\ i + 6 \in Nat
      BY <1>2, <3>1, <3>2, <3>3, <3>4
    <3> QED BY <3>10, <3>11, ModSame
  <2> QED BY <1>1, <1>2, <1>6, <2>1, <2>2, <2>3, PairSplits
<1> QED BY <1>5, <1>6 DEF PairInv

LEMMA PairCheck ==
  ASSUME NEW F \in FlipSets, RegInv, PairInv, FrameCheck(F)
  PROVE  PairsAre15Apart'
<1>1. /\ F \in Byte /\ Upper(EndErr)
      /\ EndErr = {} => Err = {}
      /\ crc_ok' => CrcResult(EndErr) = F
  BY CheckStep
<1>2. len \in Nat /\ len' = len /\ flipped' = flipped \cup NewFlips(F) /\ Err \in Byte
  BY XorByte DEF FrameCheck, RegInv, Flips, NewFlips, Err
<1> SUFFICES ASSUME crc_ok', NEW p, NEW q, p < q, flipped' = {p, q}
             PROVE  (Exponent(p, len) - Exponent(q, len)) % 15 = 0
  BY <1>2 DEF PairsAre15Apart
<1>3. CASE flipped = {p, q} /\ F = {}
  <2>1. EndErr \in Byte /\ {} \in Byte
    BY <1>1 DEF Upper, Byte
  <2>2. EndErr = {}
    BY <1>1, <1>3, <2>1, ResultBits, SameBits DEF Upper
  <2>3. (q - p) % 15 = 0
    BY <1>1, <1>3, <2>2 DEF PairInv
  <2>4. p \in 0..(8 * len - 1) /\ q \in 0..(8 * len - 1)
    BY <1>1, <1>3, NewFlipsAre
  <2>5. Exponent(p, len) - Exponent(q, len) = q - p
    BY <1>2, <2>4 DEF Exponent
  <2> QED BY <2>3, <2>5
<1>4. CASE flipped = {} /\ NewFlips(F) = {p, q}
  <2>1. Err = {} /\ EndErr = {}
    BY <1>4, NoneTurned DEF RegInv, EndErr
  <2>2. CrcResult({}) = {}
    BY DEF CrcResult
  <2>3. F = {}
    BY <1>1, <2>1, <2>2
  <2> QED BY <1>1, <1>4, <2>3, NewFlipsAre
<1>5. CASE flipped = {p} /\ NewFlips(F) = {q}
  <2>1. F = {8 * len + 7 - q} /\ 8 * len + 7 - q \in 0..7 /\ q \in (8 * len)..(8 * len + 7)
    BY <1>1, <1>5, FlipsOfOne
  <2>2. PICK i \in 0..7 : i = 8 * len + 7 - q
    BY <2>1
  <2>3. p \in 0..(8 * len - 1)
    BY <1>5, <1>1, NewFlipsAre
  <2>4. PICK n \in Nat : n = 8 * len + 5 - p
    BY <1>2, <2>3
  <2>5. IsPower(n % 15, Err)
    BY <1>5, <2>4 DEF PairInv
  <2>6. IsPower(i, EndErr) /\ i \in 0..5
    BY <1>1, <2>1, <2>2, ResultPower
  <2>7. Exponent(q, len) = i
    BY <1>2, <2>1, <2>2 DEF Exponent
  <2>8. PICK m \in Nat : m = Exponent(p, len) /\ m >= 6 /\ IsPower(m % 15, EndErr)
    <3>1. CASE len = 1
      <4>1. Exponent(p, len) = n + 8 /\ EndErr = Shift8[Err] /\ n + 8 >= 6 /\ n + 8 \in Nat
        BY <1>2, <2>3, <2>4, <3>1 DEF Exponent, EndErr
      <4>2. IsPower(Later8(n % 15), EndErr)
        BY <1>2, <2>5, <4>1, PowerTurns
      <4> QED BY <4>1, <4>2, ModLater8
    <3>2. CASE len # 1
      <4>1. Exponent(p, len) = n /\ EndErr = Err /\ n >= 6
        BY <1>2, <2>3, <2>4, <3>2 DEF Exponent, EndErr
      <4> QED BY <2>5, <4>1
    <3> QED BY <3>1, <3>2
  <2>9. m % 15 = i
    BY <2>6, <2>8, PowerIsOne
  <2>10. (m - i) % 15 = 0
    BY <2>6, <2>8, <2>9, ModSame
  <2> QED BY <2>7, <2>8, <2>10
<1> QED BY <1>1, <1>2, <1>3, <1>4, <1>5, PairSplits

PairFrameInv ==
  job = "frame" => /\ phase \in {"data", "checked"}
                   /\ phase = "data" => RegInv /\ PairInv

(* When iolink_dll_process takes a frame of any length in which two bits   *)
(* were flipped, these lie a multiple of 15 powers of x apart.  PairInv is *)
(* what makes it inductive: one flip leaves in the difference of the       *)
(* registers the power of x that its distance gives, modulo 15.            *)
THEOREM PairsTakenAre15Apart == Spec => []PairsAre15Apart
<1>1. Init => PairFrameInv /\ PairsAre15Apart
  <2> SUFFICES ASSUME Init PROVE PairFrameInv /\ PairsAre15Apart
    OBVIOUS
  <2>1. PairsAre15Apart
    BY DEF Init, PairsAre15Apart
  <2>2. ASSUME job = "frame" PROVE RegInv /\ PairInv
    <3>1. tx = CrcSeed /\ rx = CrcSeed /\ flipped = {} /\ len = 0
      BY <2>2 DEF Init
    <3>2. CrcSeed \in Byte
      BY BitsAre DEF CrcSeed, Byte
    <3>3. Err = {}
      BY <3>1 DEF Err, Xor
    <3> QED BY <3>1, <3>2, <3>3 DEF RegInv, PairInv
  <2> QED BY <2>1, <2>2 DEF PairFrameInv, Init
<1>2. PairFrameInv /\ PairsAre15Apart /\ [Next]_vars => PairFrameInv' /\ PairsAre15Apart'
  <2> SUFFICES ASSUME PairFrameInv, PairsAre15Apart, [Next]_vars
               PROVE  PairFrameInv' /\ PairsAre15Apart'
    OBVIOUS
  <2>1. ASSUME NEW b \in FrameBytes, NEW F \in FlipSets, FrameByte(b, F)
        PROVE  PairFrameInv' /\ PairsAre15Apart'
    <3>1. RegInv /\ PairInv /\ phase' = "data"
      BY <2>1 DEF PairFrameInv, FrameByte
    <3>2. RegInv' /\ PairInv'
      BY <2>1, <3>1, RegStep, PairStep
    <3> QED BY <3>1, <3>2 DEF PairFrameInv, PairsAre15Apart
  <2>2. ASSUME NEW F \in FlipSets, FrameCheck(F)
        PROVE  PairFrameInv' /\ PairsAre15Apart'
    <3>1. RegInv /\ PairInv /\ phase' = "checked"
      BY <2>2 DEF PairFrameInv, FrameCheck
    <3> QED BY <2>2, <3>1, PairCheck DEF PairFrameInv
  <2>3. ASSUME NEW b \in StoreBytes, NEW c \in StoreBytes, StoreByte(b, c) \/ StoreSwap(b, c)
        PROVE  PairFrameInv' /\ PairsAre15Apart'
    BY <2>3 DEF StoreByte, StoreSwap, PairFrameInv, PairsAre15Apart
  <2>4. CASE UNCHANGED vars
    BY <2>4 DEF vars, PairFrameInv, PairsAre15Apart, RegInv, PairInv, Err, Upper
  <2> QED BY <2>1, <2>2, <2>3, <2>4 DEF Next
<1> QED BY <1>1, <1>2, PTL DEF Spec
=============================================================================
