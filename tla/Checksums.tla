----------------------------- MODULE Checksums -----------------------------
(***************************************************************************)
(* The two checksums of the stack, computed byte by byte on both ends.     *)
(*                                                                         *)
(* The frame check (iolink_crc6 and iolink_checksum_ck of crc.c, and the   *)
(* comparison in iolink_dll_process): a frame is sent over a cable that    *)
(* may flip bits, tx is the sender's register and rx the receiver's.       *)
(*                                                                         *)
(* The parameter check (iolink_ds_calc_checksum of data_storage.c): tx is  *)
(* the sum over one set of parameters and rx the sum over a copy of it     *)
(* with one byte changed or two neighbouring bytes swapped.                *)
(***************************************************************************)
EXTENDS Integers, Sequences, FiniteSets, FiniteSetsExt

CONSTANTS
  FrameBytes,   \* the bytes frames are made of, each the set of its one bits
  StoreBytes,   \* the bytes parameters are made of
  LongLen,      \* bound: bytes of a frame before its check byte
  MaxFlips,     \* bound: the bits the cable flips in a frame, ...
  ShortLen,     \* ... one less if it has more than this many bytes
  StoreLen      \* bound: bytes of a set of parameters

ASSUME ChecksumConstants ==
  /\ FrameBytes \subseteq SUBSET (0..7) /\ StoreBytes \subseteq 0..255
  /\ LongLen \in 1..254 /\ ShortLen \in 0..LongLen
  /\ MaxFlips \in Nat /\ StoreLen \in Nat

VARIABLES
  job,        \* "frame" or "store"
  phase,      \* "data", then "checked"
  len,        \* the bytes sent so far
  tx, rx,     \* the sums
  flipped,    \* history: the bits the cable flipped, numbered as sent
  change,     \* history: how the copy of the parameters differs
  crc_ok      \* the receiver's verdict on the frame

vars == <<job, phase, len, tx, rx, flipped, change, crc_ok>>

Bits == 0..7
Byte == SUBSET Bits

Xor(a, b) == (a \ b) \cup (b \ a)

-----------------------------------------------------------------------------
(* crc.c.  A byte is the set of its bits that are one.                     *)

Doubled(crc) == {i + 1 : i \in crc \ {7}}

(* Mutant: the polynomial is not moved to the top of the register. *)
ShiftOnceLow(crc) == IF 7 \in crc THEN Xor(Doubled(crc), {0, 2, 3, 4}) ELSE Doubled(crc)

(* One turn of the inner loop on the 8 bits of the register: 0x1D << 2 has *)
(* bits 2, 4, 5 and 6.                                                     *)
ShiftOnce(crc) == IF 7 \in crc THEN Xor(Doubled(crc), {2, 4, 5, 6}) ELSE Doubled(crc)

Shift2(crc) == ShiftOnce(ShiftOnce(crc))

Shift8 == [crc \in Byte |-> Shift2(Shift2(Shift2(Shift2(crc))))]

CrcSeed == {0, 2, 4}
CrcByte(crc, b) == Shift8[Xor(crc, b)]
CrcResult(crc)  == {i - 2 : i \in crc \ {0, 1}}

(* What is left to add to the register before the check byte is compared:  *)
(* a frame of two bytes is checked with iolink_checksum_ck(mc, 0), which   *)
(* appends a zero byte.                                                    *)
CrcEnd(crc) == IF len = 1 THEN CrcByte(crc, {}) ELSE crc

(* Mutant: only the six bits of the result are compared. *)
CrcMatchesLow(crc, ck) == CrcResult(crc) = ck \ {6, 7}

(* The whole check byte is compared, its two upper bits too.               *)
CrcMatches(crc, ck) == CrcResult(crc) = ck

-----------------------------------------------------------------------------
(* data_storage.c: iolink_ds_calc_checksum *)

SumInit == [sum1 |-> 0, sum2 |-> 0]

(* Mutant: a plain sum. *)
SumBytePlain(s, b) ==
  LET sum1 == (s.sum1 + b) % 255
  IN  [sum1 |-> sum1, sum2 |-> 0]

SumByte(s, b) ==
  LET sum1 == (s.sum1 + b) % 255
  IN  [sum1 |-> sum1, sum2 |-> (s.sum2 + sum1) % 255]

calc_checksum(s) == s.sum2 * 256 + s.sum1

-----------------------------------------------------------------------------
Init ==
  /\ job \in {"frame", "store"}
  /\ phase = "data" /\ len = 0
  /\ tx = IF job = "frame" THEN CrcSeed ELSE SumInit
  /\ rx = tx
  /\ flipped = {} /\ change = "none"
  /\ crc_ok = FALSE

(* The bits that the cable may flip in a byte.                             *)
FlipSets == {F \in Byte : Cardinality(F) <= MaxFlips}

(* The cable: a byte arrives with the bits of F flipped.                   *)
Flips(F) ==
  /\ Cardinality(flipped) + Cardinality(F) <= MaxFlips - (IF len <= ShortLen THEN 0 ELSE 1)
  /\ flipped' = flipped \cup {8 * len + 7 - i : i \in F}

OnWire(b, F) == Xor(b, F)

FrameByte(b, F) ==
  /\ job = "frame" /\ phase = "data" /\ len < LongLen
  /\ Flips(F)
  /\ tx' = CrcByte(tx, b)
  /\ rx' = CrcByte(rx, OnWire(b, F))
  /\ len' = len + 1
  /\ UNCHANGED <<job, phase, change, crc_ok>>

(* The check byte.  A frame of the master has two bytes, or at least four: *)
(* two of header, the on-request data and the check byte.                  *)
FrameCheck(F) ==
  /\ job = "frame" /\ phase = "data" /\ (len = 1 \/ len >= 3)
  /\ Flips(F)
  /\ crc_ok' = CrcMatches(CrcEnd(rx), OnWire(CrcResult(CrcEnd(tx)), F))
  /\ phase' = "checked"
  /\ UNCHANGED <<job, len, tx, rx, change>>

(* A parameter byte b that is c in the copy.                               *)
StoreByte(b, c) ==
  /\ job = "store" /\ len < StoreLen
  /\ b # c => change = "none"
  /\ tx' = SumByte(tx, b) /\ rx' = SumByte(rx, c)
  /\ len' = len + 1
  /\ change' = IF b = c THEN change ELSE IF (b - c) % 255 = 0 THEN "alias" ELSE "byte"
  /\ UNCHANGED <<job, phase, flipped, crc_ok>>

StoreSwap(b, c) ==
  /\ job = "store" /\ len + 2 <= StoreLen
  /\ change = "none" /\ b # c
  /\ tx' = SumByte(SumByte(tx, b), c) /\ rx' = SumByte(SumByte(rx, c), b)
  /\ len' = len + 2
  /\ change' = IF (b - c) % 255 = 0 THEN "alias" ELSE "swap"
  /\ UNCHANGED <<job, phase, flipped, crc_ok>>

Next ==
  \/ \E b \in FrameBytes, F \in FlipSets : FrameByte(b, F)
  \/ \E F \in FlipSets : FrameCheck(F)
  \/ \E b, c \in StoreBytes : StoreByte(b, c) \/ StoreSwap(b, c)

Spec == Init /\ [][Next]_vars

-----------------------------------------------------------------------------
(* Properties *)

(* x^n modulo x^6 + x^4 + x^3 + x^2 + 1, the polynomial crc.h names, as    *)
(* the set of its exponents.                                               *)
PowerOfX[n \in 0..(8 * (LongLen + 2))] ==
  IF n = 0 THEN {0}
  ELSE LET p == {i + 1 : i \in PowerOfX[n - 1]}
       IN  IF 6 \in p THEN Xor(p, {0, 2, 3, 4, 6}) ELSE p

(* The exponent of bit p of a frame of n data bytes, counted from the last *)
(* bit of the check byte; the appended zero byte lies before that one.     *)
Exponent(p, n) == 8 * n + 7 - p + (IF n = 1 /\ p < 8 THEN 8 ELSE 0) -
                    (IF p < 8 * n THEN 2 ELSE 0)

Syndrome(n) == FoldSet(LAMBDA p, sum : Xor(PowerOfX[Exponent(p, n)], sum), {}, flipped)

(* What the register computes is what crc.h says, whatever the data: a     *)
(* frame with flipped bits is accepted exactly if none of them is one of   *)
(* the two upper bits of the check byte and the polynomial of the flipped  *)
(* bits is a multiple of x^6 + x^4 + x^3 + x^2 + 1.                        *)
AcceptedIsMultiple ==
  job = "frame" /\ phase = "checked" =>
    (crc_ok <=> /\ {8 * len, 8 * len + 1} \cap flipped = {}
                /\ Syndrome(len) = {})

(* iolink_dll_process never takes a frame in which all flipped bits lie    *)
(* within six consecutive bits of the line, the check byte included.       *)
BurstsAreRefused ==
  job = "frame" /\ phase = "checked" /\ crc_ok /\ flipped # {} =>
    \E p, q \in flipped : q - p >= 6

(* When iolink_dll_process takes a frame with two flipped bits, these are  *)
(* 15 powers of x apart, or a multiple of that, x^15 being 1 for this      *)
(* polynomial; the check byte counts as if it followed the 8 bits of the   *)
(* register without their two lowest.                                      *)
PairsAre15Apart ==
  job = "frame" /\ phase = "checked" /\ crc_ok =>
    \A p, q \in flipped :
      p < q /\ flipped = {p, q} => (Exponent(p, len) - Exponent(q, len)) % 15 = 0

(* iolink_ds_calc_checksum tells two sets of parameters apart that differ  *)
(* in one byte or in the order of two neighbours, except that it takes     *)
(* 0x00 and 0xFF for the same byte.                                        *)
ChangeIsSeen ==
  job = "store" =>
    (calc_checksum(tx) = calc_checksum(rx) <=> change \in {"none", "alias"})
=============================================================================
