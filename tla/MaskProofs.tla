------------------------------ MODULE MaskProofs ------------------------------
(***************************************************************************)
(* For every length and every width of the integers: the loop of DeriveKey *)
(* fills the mask with the stream of hashes, and what is opened is what    *)
(* was sealed, as long as the length is one that int arithmetic bears.     *)
(***************************************************************************)
EXTENDS Mask, TLAPS

Looping == step \in {"sealing", "opening"}

-----------------------------------------------------------------------------
(* Arithmetic.                                                             *)

\* x % m for the two ranges that occur.
LEMMA ModBelow == ASSUME NEW m \in Nat \ {0}, NEW a \in 0 .. m - 1
                  PROVE  a % m = a
  BY SMT
LEMMA ModAbove == ASSUME NEW m \in Nat \ {0}, NEW a \in m .. 2 * m - 1
                  PROVE  a % m = a - m
  BY SMT
LEMMA ModRange == ASSUME NEW m \in Nat \ {0}, NEW a \in Int
                  PROVE  a % m \in 0 .. m - 1
  BY SMT

\* A multiple of h below another one leaves room for a block of h.
LEMMA NextMultiple ==
  ASSUME NEW c \in Nat, NEW d \in Nat, NEW h \in Nat \ {0}, c < d
  PROVE  c * h + h <= d * h
  BY SMT

\* A place in the stream has one block and one offset.
LEMMA OnePlace ==
  ASSUME NEW h \in Nat \ {0}, NEW c \in Nat, NEW d \in Nat,
         NEW j \in 0 .. h - 1, NEW k \in 0 .. h - 1, c * h + j = d * h + k
  PROVE  c = d /\ j = k
<1>1. c < d => c * h + h <= d * h
  BY NextMultiple
<1>2. d < c => d * h + h <= c * h
  BY NextMultiple
<1>3. c * h \in Int /\ d * h \in Int
  OBVIOUS
<1> QED
  BY <1>1, <1>2, <1>3

LEMMA Widths ==
  /\ HashSize \in Nat \ {0} /\ IntMax \in Nat /\ SizeMax \in Nat
  /\ SigLen \in 0 .. SizeMax /\ ULen \in 0 .. SizeMax /\ MaxLen \in 0 .. SizeMax
  BY WidthAssumption

\* A sum of two sizes wraps once at most.
LEMMA SizeIs ==
  ASSUME NEW a \in 0 .. 2 * SizeMax + 1
  PROVE  Size(a) = IF a <= SizeMax THEN a ELSE a - (SizeMax + 1)
<1> DEFINE m == SizeMax + 1
<1>1. m \in Nat \ {0} /\ a \in Nat /\ a <= 2 * m - 1
  BY Widths
<1>2. a <= SizeMax <=> a <= m - 1
  BY Widths
<1>3. Size(a) = a % m
  BY DEF Size
<1> HIDE DEF m
<1>4. CASE a <= m - 1
  <2>1. a % m = a
    BY <1>4, <1>1, ModBelow
  <2> QED
    BY <2>1, <1>2, <1>3, <1>4
<1>5. CASE ~(a <= m - 1)
  <2>1. a % m = a - m
    <3>1. a \in m .. 2 * m - 1
      BY <1>5, <1>1
    <3> QED
      BY <3>1, <1>1, ModAbove
  <2> QED
    BY <2>1, <1>2, <1>3, <1>5 DEF m
<1> QED
  BY <1>4, <1>5

\* The length is a size_t, and DeriveKey's argument an int.
LEMMA Lengths ==
  ASSUME msg_len \in 0 .. MaxLen
  PROVE  /\ plaintext_len \in 0 .. SizeMax
         /\ derived_key_len \in Int /\ derived_key_len <= IntMax
<1>1. msg_len + SigLen \in Int /\ SizeMax + 1 \in Nat \ {0}
  BY Widths
<1>2. plaintext_len \in 0 .. SizeMax
  BY <1>1, ModRange, Widths DEF plaintext_len, Size
<1>3. 2 * (IntMax + 1) \in Nat \ {0}
  BY Widths
<1>4. UInt(plaintext_len) \in 0 .. 2 * (IntMax + 1) - 1
  BY <1>2, <1>3, ModRange, Widths DEF UInt
<1> QED
  BY <1>2, <1>4, Widths DEF derived_key_len, Int32

\* A length that int arithmetic bears is passed as it is.
LEMMA SafeLength ==
  ASSUME msg_len \in 0 .. MaxLen, Safe
  PROVE  derived_key_len = plaintext_len
<1>1. plaintext_len \in 0 .. IntMax
  BY Lengths, Widths DEF Safe
<1>2. plaintext_len \in 0 .. 2 * (IntMax + 1) - 1 /\ 2 * (IntMax + 1) \in Nat \ {0}
  BY <1>1, Widths
<1>3. UInt(plaintext_len) = plaintext_len
  BY <1>2, ModBelow DEF UInt
<1> QED
  BY <1>1, <1>3, Widths DEF derived_key_len, Int32

\* The overflow checks make the lengths add up, on both sides.
LEMMA FitLengths ==
  ASSUME msg_len \in 0 .. MaxLen, Fits
  PROVE  plaintext_len = msg_len + SigLen /\ v_len = plaintext_len
<1>1. plaintext_len \in 0 .. SizeMax
  BY Lengths
<1>2. plaintext_len = msg_len + SigLen
  <2>1. msg_len + SigLen \in 0 .. 2 * SizeMax + 1
    BY Widths
  <2> QED
    BY <2>1, SizeIs, Widths DEF plaintext_len, Fits
<1>3. Size(ULen + plaintext_len) = ULen + plaintext_len
  <2>1. ULen + plaintext_len \in 0 .. 2 * SizeMax + 1
    BY <1>1, Widths
  <2> QED
    BY <2>1, <1>1, SizeIs, Widths DEF Fits
<1>4. v_len = Size(plaintext_len)
  BY <1>1, <1>3, Widths DEF v_len
<1>5. Size(plaintext_len) = plaintext_len
  BY <1>1, SizeIs, Widths
<1> QED
  BY <1>2, <1>4, <1>5

-----------------------------------------------------------------------------
(* The invariant.                                                          *)

\* The overflow checks were passed.
FitsInv == step \in {"sealing", "sealed", "opening", "opened"} => Fits

\* Between two turns a whole number of blocks is there, or all of the mask.
LoopInv ==
    Safe /\ Looping =>
        /\ generated <= plaintext_len
        /\ generated < plaintext_len => generated = counter * HashSize

SealedInv ==
    Safe /\ step \in {"sealed", "opening", "opened"} =>
        \A i \in Index : V[i].byte = Plain(i) /\ InStream(V[i].by, i)

OpenedInv ==
    Safe => /\ step # "wild"
            /\ step = "opened" => \A i \in Index : text[i] = Plain(i)

MaskInv ==
    /\ TypeOK /\ FitsInv
    /\ LoopInv /\ EachByteOnce /\ SealedInv /\ OpenedInv

LEMMA MaskInit == Init => MaskInv
  BY Widths DEF Init, MaskInv, TypeOK, FitsInv, LoopInv, EachByteOnce, SealedInv,
                OpenedInv, Looping

\* The length of the message, and what depends on it alone, stays.
LEMMA MaskFrame ==
  ASSUME msg_len' = msg_len
  PROVE  /\ plaintext_len' = plaintext_len /\ derived_key_len' = derived_key_len
         /\ Index' = Index /\ v_len' = v_len
         /\ Safe' = Safe /\ Fits' = Fits
         /\ \A i : Plain(i)' = Plain(i)
<1>1. plaintext_len' = plaintext_len
  BY DEF plaintext_len, Size
<1>2. derived_key_len' = derived_key_len
  BY <1>1 DEF derived_key_len, Int32, UInt
<1>3. Index' = Index
  BY <1>1 DEF Index
<1>4. v_len' = v_len
  BY <1>1 DEF v_len, Size
<1>5. Safe' = Safe
  BY <1>1 DEF Safe
<1>6. Fits' = Fits
  BY <1>1 DEF Fits, Size
<1>7. \A i : Plain(i)' = Plain(i)
  BY DEF Plain
<1> QED
  BY <1>1, <1>2, <1>3, <1>4, <1>5, <1>6, <1>7

LEMMA KeepsLength == [Next]_vars => msg_len' = msg_len
  BY DEF Next, vars, Seal, Open, Block, SealXor, OpenXor

\* The places of the mask start unset.
LEMMA Fresh ==
  ASSUME NewMask, msg_len' = msg_len
  PROVE  /\ mask' \in [Index -> MaskByte] /\ generated' = 0 /\ counter' = 0
         /\ \A i \in Index : mask'[i] = Unset
  BY Widths DEF NewMask, MaskByte, Unset

LEMMA SealPreserves == MaskInv /\ Seal => MaskInv'
<1> SUFFICES ASSUME MaskInv, Seal PROVE MaskInv'
  OBVIOUS
<1>1. msg_len' = msg_len /\ step = "idle" /\ step' \in {"sealing", "refused"}
      /\ (step' = "sealing" => Fits) /\ V' = V /\ text' = text /\ NewMask
  BY DEF Seal
<1>2. /\ Index' = Index /\ plaintext_len' = plaintext_len /\ Fits' = Fits
      /\ Safe' = Safe
  BY <1>1, MaskFrame
<1>3. /\ mask' \in [Index -> MaskByte] /\ generated' = 0 /\ counter' = 0
      /\ \A i \in Index : mask'[i] = Unset
  BY <1>1, Fresh
<1>4. plaintext_len \in 0 .. SizeMax
  BY Lengths DEF MaskInv, TypeOK
<1>5. TypeOK'
  BY <1>1, <1>2, <1>3, Widths DEF MaskInv, TypeOK
<1>6. FitsInv' /\ OpenedInv' /\ SealedInv'
  BY <1>1, <1>2 DEF FitsInv, OpenedInv, SealedInv
<1>7. LoopInv'
  BY <1>2, <1>3, <1>4, Widths DEF LoopInv
<1>8. EachByteOnce'
  <2>1. \A i \in Index : ~(i < generated')
    BY <1>3, <1>4 DEF Index
  <2> QED
    BY <1>2, <1>3, <2>1 DEF EachByteOnce
<1> QED
  BY <1>5, <1>6, <1>7, <1>8 DEF MaskInv

LEMMA OpenPreserves == MaskInv /\ Open => MaskInv'
<1> SUFFICES ASSUME MaskInv, Open PROVE MaskInv'
  OBVIOUS
<1>1. msg_len' = msg_len /\ step = "sealed" /\ step' \in {"opening", "refused"}
      /\ V' = V /\ text' = text /\ NewMask
  BY DEF Open
<1>2. /\ Index' = Index /\ plaintext_len' = plaintext_len /\ Fits' = Fits
      /\ Safe' = Safe /\ \A i : Plain(i)' = Plain(i)
  BY <1>1, MaskFrame
<1>3. /\ mask' \in [Index -> MaskByte] /\ generated' = 0 /\ counter' = 0
      /\ \A i \in Index : mask'[i] = Unset
  BY <1>1, Fresh
<1>4. plaintext_len \in 0 .. SizeMax
  BY Lengths DEF MaskInv, TypeOK
<1>5. TypeOK'
  BY <1>1, <1>2, <1>3, Widths DEF MaskInv, TypeOK
<1>6. FitsInv' /\ OpenedInv'
  BY <1>1, <1>2 DEF MaskInv, FitsInv, OpenedInv
<1>7. SealedInv'
  BY <1>1, <1>2 DEF MaskInv, SealedInv, InStream
<1>8. LoopInv'
  BY <1>2, <1>3, <1>4, Widths DEF LoopInv
<1>9. EachByteOnce'
  <2>1. \A i \in Index : ~(i < generated')
    BY <1>3, <1>4 DEF Index
  <2> QED
    BY <1>2, <1>3, <2>1 DEF EachByteOnce
<1> QED
  BY <1>5, <1>6, <1>7, <1>8, <1>9 DEF MaskInv

\* What the copy of one turn is, overflow or not.
LEMMA Turn ==
  ASSUME MaskInv, Block
  PROVE  /\ msg_len' = msg_len /\ V' = V /\ text' = text
         /\ Looping /\ generated < derived_key_len
         /\ \E sum \in Sums :
              LET copied == generated .. generated + copy_size(sum) - 1
              IN  \/ /\ copied \subseteq Index /\ generated + copy_size(sum) <= IntMax
                     /\ mask' = [i \in Index |->
                                   IF i \in copied
                                   THEN [block |-> counter, at |-> i - generated]
                                   ELSE mask[i]]
                     /\ generated' = generated + copy_size(sum)
                     /\ counter' = UInt(counter + 1)
                     /\ step' = step
                  \/ /\ ~(copied \subseteq Index /\ generated + copy_size(sum) <= IntMax)
                     /\ step' = "wild" /\ mask' = mask
                     /\ generated' = generated /\ counter' = counter
  BY DEF Block, Looping, next_counter

\* A turn copies between one byte and a block.
LEMMA CopySize ==
  ASSUME MaskInv, Looping, generated < derived_key_len, NEW sum \in Sums
  PROVE  copy_size(sum) \in 1 .. HashSize
<1>1. generated \in Int /\ derived_key_len \in Int
  BY Lengths DEF MaskInv, TypeOK
<1>2. sum \in Int /\ sum <= generated + HashSize
  BY <1>1, Widths DEF Sums
<1> QED
  BY <1>1, <1>2, Widths DEF copy_size

\* A length that int arithmetic bears lets every block be added up.
LEMMA SafeTurn ==
  ASSUME MaskInv, Safe, Looping, generated < derived_key_len, NEW sum \in Sums
  PROVE  /\ generated = counter * HashSize /\ sum = generated + HashSize
         /\ generated + copy_size(sum) <= plaintext_len
         /\ generated + copy_size(sum) < plaintext_len =>
                copy_size(sum) = HashSize
         /\ plaintext_len <= IntMax /\ UInt(counter + 1) = counter + 1
<1>1. /\ derived_key_len = plaintext_len
      /\ plaintext_len \in Nat /\ generated \in Nat /\ counter \in Nat
  BY SafeLength, Lengths DEF MaskInv, TypeOK
<1>2. generated = counter * HashSize
  BY <1>1 DEF MaskInv, LoopInv
<1>3. PICK q \in 0 .. IntMax : q * HashSize <= IntMax /\ plaintext_len <= q * HashSize
  BY DEF Safe
<1>4. counter < q
  <2>1. CASE q < counter
    <3>1. q * HashSize + HashSize <= counter * HashSize
      BY <2>1, <1>1, NextMultiple, Widths
    <3>2. q * HashSize \in Int
      BY Widths
    <3> QED
      BY <3>1, <3>2, <1>1, <1>2, <1>3, Widths
  <2>2. CASE q = counter
    BY <2>2, <1>1, <1>2, <1>3, Widths
  <2> QED
    BY <2>1, <2>2, <1>1
<1>5. counter * HashSize + HashSize <= q * HashSize
  BY <1>1, <1>4, NextMultiple, Widths
<1>6. generated + HashSize <= IntMax
  <2>1. q * HashSize \in Int
    BY Widths
  <2> QED
    BY <2>1, <1>1, <1>2, <1>3, <1>5, Widths
<1>7. sum = generated + HashSize
  BY <1>1, <1>6, Widths DEF Sums
<1>8. plaintext_len <= IntMax
  <2>1. q * HashSize \in Int
    BY Widths
  <2> QED
    BY <2>1, <1>1, <1>3, Widths
<1>9. UInt(counter + 1) = counter + 1
  <2>1. counter + 1 \in 0 .. 2 * (IntMax + 1) - 1 /\ 2 * (IntMax + 1) \in Nat \ {0}
    BY <1>1, <1>4, Widths
  <2> QED
    BY <2>1, ModBelow DEF UInt
<1> QED
  BY <1>1, <1>2, <1>7, <1>8, <1>9, Widths DEF copy_size

LEMMA BlockPreserves == MaskInv /\ Block => MaskInv'
<1> SUFFICES ASSUME MaskInv, Block PROVE MaskInv'
  OBVIOUS
<1>1. /\ msg_len' = msg_len /\ V' = V /\ text' = text
      /\ Looping /\ generated < derived_key_len
  BY Turn
<1>2. /\ Index' = Index /\ plaintext_len' = plaintext_len /\ Fits' = Fits
      /\ Safe' = Safe /\ \A i : Plain(i)' = Plain(i)
  BY <1>1, MaskFrame
<1>3. /\ plaintext_len \in 0 .. SizeMax /\ generated \in Nat /\ counter \in Nat
      /\ mask \in [Index -> MaskByte]
  BY Lengths, <1>1 DEF MaskInv, TypeOK, Looping
<1>4. ASSUME NEW sum \in Sums,
             generated .. generated + copy_size(sum) - 1 \subseteq Index,
             generated + copy_size(sum) <= IntMax,
             mask' = [i \in Index |->
                        IF i \in generated .. generated + copy_size(sum) - 1
                        THEN [block |-> counter, at |-> i - generated]
                        ELSE mask[i]],
             generated' = generated + copy_size(sum),
             counter' = UInt(counter + 1), step' = step
      PROVE  MaskInv'
  <2>1. copy_size(sum) \in 1 .. HashSize
    BY <1>1, CopySize
  <2>2. TypeOK'
    <3>1. counter' \in 0 .. 2 * IntMax + 1
      <4>1. 2 * (IntMax + 1) \in Nat \ {0} /\ counter + 1 \in Int
        BY <1>3, Widths
      <4>2. UInt(counter + 1) \in 0 .. 2 * (IntMax + 1) - 1
        BY <4>1, ModRange DEF UInt
      <4> QED
        BY <4>2, <1>4, Widths
    <3>2. mask' \in [Index -> MaskByte]
      <4>1. ASSUME NEW i \in generated .. generated + copy_size(sum) - 1
            PROVE  [block |-> counter, at |-> i - generated] \in MaskByte
        BY <2>1, <1>3, Widths DEF MaskByte
      <4> QED
        BY <4>1, <1>3, <1>4
    <3> QED
      BY <1>1, <1>2, <1>3, <1>4, <2>1, <3>1, <3>2, Widths
         DEF MaskInv, TypeOK, Looping
  <2>3. FitsInv' /\ OpenedInv'
    BY <1>1, <1>2, <1>4 DEF MaskInv, FitsInv, OpenedInv, Looping
  <2>4. SealedInv'
    BY <1>1, <1>2, <1>4 DEF MaskInv, SealedInv, InStream, Looping
  <2>5. LoopInv' /\ EachByteOnce'
    <3> SUFFICES ASSUME Safe PROVE LoopInv' /\ EachByteOnce'
      BY <1>2 DEF LoopInv, EachByteOnce
    <3>1. /\ generated = counter * HashSize
          /\ generated + copy_size(sum) <= plaintext_len
          /\ generated + copy_size(sum) < plaintext_len => copy_size(sum) = HashSize
          /\ counter' = counter + 1
      BY <1>1, <1>4, SafeTurn
    <3>2. LoopInv'
      <4>1. (counter + 1) * HashSize = counter * HashSize + HashSize
        BY <1>3, Widths
      <4> QED
        BY <1>2, <1>3, <1>4, <2>1, <3>1, <4>1 DEF LoopInv
    <3>3. ASSUME NEW i \in Index
          PROVE  IF i < generated' THEN InStream(mask'[i], i) ELSE mask'[i] = Unset
      <4>1. CASE i < generated
        <5>1. mask'[i] = mask[i] /\ InStream(mask[i], i)
          BY <4>1, <1>1, <1>3, <1>4 DEF MaskInv, EachByteOnce, Looping, Index
        <5> QED
          BY <5>1, <4>1, <1>3, <1>4, <2>1 DEF Index
      <4>2. CASE i \in generated .. generated + copy_size(sum) - 1
        <5>1. mask'[i] = [block |-> counter, at |-> i - generated]
          BY <4>2, <1>4
        <5>2. InStream(mask'[i], i)
          BY <5>1, <4>2, <3>1, <1>3, Widths DEF InStream, Index
        <5> QED
          BY <5>2, <4>2, <1>3, <1>4, <2>1 DEF Index
      <4>3. CASE i >= generated + copy_size(sum)
        <5>1. mask'[i] = mask[i] /\ mask[i] = Unset
          BY <4>3, <1>1, <1>3, <1>4, <2>1 DEF MaskInv, EachByteOnce, Looping, Index
        <5> QED
          BY <5>1, <4>3, <1>3, <1>4, <2>1 DEF Index
      <4> QED
        BY <4>1, <4>2, <4>3, <1>3, <2>1 DEF Index
    <3> QED
      BY <3>2, <3>3, <1>2, <1>4 DEF EachByteOnce
  <2> QED
    BY <2>2, <2>3, <2>4, <2>5 DEF MaskInv
<1>5. ASSUME NEW sum \in Sums,
             ~(/\ generated .. generated + copy_size(sum) - 1 \subseteq Index
               /\ generated + copy_size(sum) <= IntMax),
             step' = "wild", mask' = mask, generated' = generated, counter' = counter
      PROVE  MaskInv'
  <2>1. ~Safe
    <3> SUFFICES ASSUME Safe PROVE FALSE
      OBVIOUS
    <3>1. /\ generated + copy_size(sum) <= plaintext_len /\ plaintext_len <= IntMax
          /\ copy_size(sum) \in Int
      BY <1>1, SafeTurn, CopySize
    <3>2. ASSUME NEW i \in generated .. generated + copy_size(sum) - 1
          PROVE  i \in Index
      BY <3>1, <1>3 DEF Index
    <3>3. generated .. generated + copy_size(sum) - 1 \subseteq Index
      BY <3>2
    <3>4. generated + copy_size(sum) <= IntMax
      BY <3>1, <1>3, Widths
    <3> QED
      BY <3>3, <3>4, <1>5
  <2>2. TypeOK'
    BY <1>1, <1>2, <1>3, <1>5 DEF MaskInv, TypeOK
  <2>3. FitsInv' /\ OpenedInv' /\ SealedInv' /\ LoopInv' /\ EachByteOnce'
    BY <1>2, <1>5, <2>1 DEF FitsInv, OpenedInv, SealedInv, LoopInv, EachByteOnce
  <2> QED
    BY <2>2, <2>3 DEF MaskInv
<1> QED
  BY Turn, <1>4, <1>5

\* The mask is complete when a loop ends that int arithmetic bears.
LEMMA Complete ==
  ASSUME MaskInv, Safe, Looping, Derived
  PROVE  \A i \in Index : InStream(mask[i], i)
<1>1. generated >= plaintext_len /\ generated \in Nat /\ plaintext_len \in Nat
  BY SafeLength, Lengths DEF MaskInv, TypeOK, Derived
<1> QED
  BY <1>1 DEF MaskInv, EachByteOnce, Looping, Index

LEMMA SealXorPreserves == MaskInv /\ SealXor => MaskInv'
<1> SUFFICES ASSUME MaskInv, SealXor PROVE MaskInv'
  OBVIOUS
<1>1. /\ msg_len' = msg_len /\ step = "sealing" /\ step' = "sealed" /\ Derived
      /\ V' = [i \in Index |-> [byte |-> Plain(i), by |-> mask[i]]]
      /\ mask' = mask /\ generated' = generated /\ counter' = counter
      /\ text' = text
  BY DEF SealXor
<1>2. /\ Index' = Index /\ plaintext_len' = plaintext_len /\ Fits' = Fits
      /\ Safe' = Safe /\ \A i : Plain(i)' = Plain(i)
  BY <1>1, MaskFrame
<1>3. mask \in [Index -> MaskByte] /\ msg_len \in Nat
  BY <1>1, Widths DEF MaskInv, TypeOK
<1>4. TypeOK'
  <2>1. \A i \in Index : Plain(i) \in Byte
    BY <1>3 DEF Plain, Byte, Index
  <2> QED
    BY <1>1, <1>2, <1>3, <2>1 DEF MaskInv, TypeOK
<1>5. FitsInv' /\ OpenedInv' /\ LoopInv' /\ EachByteOnce'
  BY <1>1, <1>2 DEF MaskInv, FitsInv, OpenedInv, LoopInv, EachByteOnce, Looping
<1>6. SealedInv'
  <2>1. Safe => \A i \in Index : InStream(mask[i], i)
    BY <1>1, Complete DEF Looping
  <2> QED
    BY <1>1, <1>2, <2>1 DEF SealedInv, InStream
<1> QED
  BY <1>4, <1>5, <1>6 DEF MaskInv

\* Both sides derived the same mask, so every byte comes back.
LEMMA SameMask ==
  ASSUME MaskInv, Safe, step = "opening", Derived, NEW i \in Index
  PROVE  mask[i] = V[i].by /\ mask[i] # Unset /\ V[i].byte = Plain(i)
<1>1. /\ InStream(mask[i], i) /\ InStream(V[i].by, i) /\ V[i].byte = Plain(i)
  BY Complete DEF MaskInv, SealedInv, Looping
<1>2. mask[i] \in MaskByte /\ V[i].by \in MaskByte
  BY DEF MaskInv, TypeOK
<1>3. /\ mask[i].block \in Nat /\ mask[i].at \in 0 .. HashSize - 1
      /\ V[i].by.block \in Nat /\ V[i].by.at \in 0 .. HashSize - 1
      /\ mask[i].block * HashSize + mask[i].at
            = V[i].by.block * HashSize + V[i].by.at
  BY <1>1, <1>2, Widths DEF MaskByte, InStream
<1>4. mask[i].block = V[i].by.block /\ mask[i].at = V[i].by.at
  <2> DEFINE c == mask[i].block
             d == V[i].by.block
             j == mask[i].at
             k == V[i].by.at
  <2>1. /\ c \in Nat /\ d \in Nat /\ j \in 0 .. HashSize - 1 /\ k \in 0 .. HashSize - 1
        /\ c * HashSize + j = d * HashSize + k
    BY <1>3
  <2> HIDE DEF c, d, j, k
  <2>2. c = d /\ j = k
    BY <2>1, OnePlace, Widths
  <2> QED
    BY <2>2 DEF c, d, j, k
<1> QED
  BY <1>1, <1>2, <1>3, <1>4 DEF MaskByte, Unset

LEMMA OpenXorPreserves == MaskInv /\ OpenXor => MaskInv'
<1> SUFFICES ASSUME MaskInv, OpenXor PROVE MaskInv'
  OBVIOUS
<1>1. /\ msg_len' = msg_len /\ step = "opening" /\ step' = "opened" /\ Derived
      /\ text' = [i \in Index |-> IF mask[i] = V[i].by /\ mask[i] # Unset
                                  THEN V[i].byte ELSE Garbled]
      /\ mask' = mask /\ generated' = generated /\ counter' = counter
      /\ V' = V
  BY DEF OpenXor
<1>2. /\ Index' = Index /\ plaintext_len' = plaintext_len /\ Fits' = Fits
      /\ Safe' = Safe /\ \A i : Plain(i)' = Plain(i)
  BY <1>1, MaskFrame
<1>3. TypeOK'
  <2>1. Garbled \in Byte /\ \A i \in Index : V[i].byte \in Byte
    BY <1>1 DEF MaskInv, TypeOK, Garbled, Byte
  <2> QED
    BY <1>1, <1>2, <2>1 DEF MaskInv, TypeOK
<1>4. FitsInv' /\ LoopInv' /\ EachByteOnce'
  BY <1>1, <1>2 DEF MaskInv, FitsInv, LoopInv, EachByteOnce, Looping
<1>5. SealedInv'
  BY <1>1, <1>2 DEF MaskInv, SealedInv, InStream
<1>6. OpenedInv'
  <2>1. Safe => \A i \in Index : text'[i] = Plain(i)
    BY <1>1, SameMask
  <2> QED
    BY <1>1, <1>2, <2>1 DEF OpenedInv
<1> QED
  BY <1>3, <1>4, <1>5, <1>6 DEF MaskInv

LEMMA MaskStep == MaskInv /\ [Next]_vars => MaskInv'
<1> SUFFICES ASSUME MaskInv, [Next]_vars PROVE MaskInv'
  OBVIOUS
<1>1. CASE Seal
  BY <1>1, SealPreserves
<1>2. CASE Open
  BY <1>2, OpenPreserves
<1>3. CASE Block
  BY <1>3, BlockPreserves
<1>4. CASE SealXor
  BY <1>4, SealXorPreserves
<1>5. CASE OpenXor
  BY <1>5, OpenXorPreserves
<1>6. CASE UNCHANGED vars
  <2>1. msg_len' = msg_len /\ step' = step /\ mask' = mask /\ V' = V /\ text' = text
        /\ generated' = generated /\ counter' = counter
    BY <1>6 DEF vars
  <2>2. /\ Index' = Index /\ plaintext_len' = plaintext_len /\ Fits' = Fits
        /\ Safe' = Safe /\ \A i : Plain(i)' = Plain(i)
    BY <2>1, MaskFrame
  <2> QED
    BY <2>1, <2>2 DEF MaskInv, TypeOK, FitsInv, LoopInv, EachByteOnce, SealedInv,
                      OpenedInv, Looping, InStream
<1> QED
  BY <1>1, <1>2, <1>3, <1>4, <1>5, <1>6 DEF Next

LEMMA MaskAlways == Spec => []MaskInv
<1> QED
  BY MaskInit, MaskStep, PTL DEF Spec

-----------------------------------------------------------------------------
(* The theorems.                                                           *)

\* The variables keep their types: a count is an int whatever the length.
THEOREM MaskTyped == Spec => []TypeOK
<1>1. MaskInv => TypeOK
  BY DEF MaskInv
<1> QED
  BY <1>1, MaskAlways, PTL

\* DeriveKey's loop puts every byte of the stream of hashes in its place, for
\* every length, hash size and width of the integers.
THEOREM DeriveKeyIsRight == Spec => []EachByteOnce
<1>1. MaskInv => EachByteOnce
  BY DEF MaskInv
<1> QED
  BY <1>1, MaskAlways, PTL

\* What is opened is the message and the signature that were sealed.
LEMMA OpenedIsSealed == MaskInv => OpensAsSealed
<1> SUFFICES ASSUME MaskInv, Safe
             PROVE  /\ step # "wild"
                    /\ step = "opened" =>
                         /\ message = [i \in 0 .. msg_len - 1 |->
                                          [part |-> "msg", at |-> i]]
                         /\ signature = [i \in 0 .. SigLen - 1 |->
                                            [part |-> "sig", at |-> i]]
  BY DEF OpensAsSealed
<1>1. step # "wild"
  BY DEF MaskInv, OpenedInv
<1>2. ASSUME step = "opened"
      PROVE  /\ message = [i \in 0 .. msg_len - 1 |-> [part |-> "msg", at |-> i]]
             /\ signature = [i \in 0 .. SigLen - 1 |-> [part |-> "sig", at |-> i]]
  <2>1. /\ msg_len \in Nat /\ v_len = msg_len + SigLen
        /\ plaintext_len = msg_len + SigLen
    BY <1>2, FitLengths, Widths DEF MaskInv, FitsInv, TypeOK
  <2>2. \A i \in 0 .. msg_len + SigLen - 1 : text[i] = Plain(i)
    <3>1. \A i \in Index : text[i] = Plain(i)
      BY <1>1, <1>2 DEF MaskInv, OpenedInv
    <3>2. Index = 0 .. msg_len + SigLen - 1
      BY <2>1, Widths DEF Index
    <3> QED
      BY <3>1, <3>2
  <2>3. v_len - SigLen = msg_len
    BY <2>1, Widths
  <2>4. message = [i \in 0 .. msg_len - 1 |-> [part |-> "msg", at |-> i]]
    <3>1. ASSUME NEW i \in 0 .. msg_len - 1
          PROVE  text[i] = [part |-> "msg", at |-> i]
      <4>1. i \in 0 .. msg_len + SigLen - 1 /\ i < msg_len
        BY <2>1, Widths
      <4>2. Plain(i) = [part |-> "msg", at |-> i]
        BY <4>1 DEF Plain
      <4> QED
        BY <4>1, <4>2, <2>2
    <3> QED
      BY <2>3, <3>1 DEF message
  <2>5. signature = [i \in 0 .. SigLen - 1 |-> [part |-> "sig", at |-> i]]
    <3>1. ASSUME NEW i \in 0 .. SigLen - 1
          PROVE  text[msg_len + i] = [part |-> "sig", at |-> i]
      <4> DEFINE j == msg_len + i
      <4>1. j \in 0 .. msg_len + SigLen - 1 /\ ~(j < msg_len) /\ j - msg_len = i
        BY <2>1, Widths
      <4> HIDE DEF j
      <4>2. Plain(j) = [part |-> "sig", at |-> j - msg_len]
        BY <4>1 DEF Plain
      <4>3. text[j] = [part |-> "sig", at |-> i]
        BY <4>1, <4>2, <2>2
      <4> QED
        BY <4>3 DEF j
    <3> QED
      BY <2>3, <3>1 DEF signature
  <2> QED
    BY <2>4, <2>5
<1> QED
  BY <1>1, <1>2

\* Sealing and opening are inverse, with the lengths taken from the ciphertext,
\* and nothing is written beyond a buffer.
THEOREM RoundTrip == Spec => []OpensAsSealed
  BY MaskAlways, OpenedIsSealed, PTL

-----------------------------------------------------------------------------
(* Beyond int.                                                             *)

\* The lengths that no int holds, as far as the first that is 0 again.
TooLong == plaintext_len \in IntMax + 1 .. 2 * (IntMax + 1)

LEMMA NegativeLength == TooLong => derived_key_len <= 0
<1> SUFFICES ASSUME TooLong PROVE derived_key_len <= 0
  OBVIOUS
<1> DEFINE m == 2 * (IntMax + 1)
           n == plaintext_len
<1>1. /\ m \in Nat \ {0} /\ n \in Nat /\ n > IntMax /\ n <= m
      /\ m = 2 * IntMax + 2 /\ IntMax \in Nat
  BY Widths DEF TooLong
<1>2. UInt(n) = n % m
  BY DEF UInt
<1> HIDE DEF m, n
<1>3. CASE n < m
  <2>1. n % m = n
    BY <1>1, <1>3, ModBelow
  <2> QED
    BY <1>1, <1>2, <1>3, <2>1 DEF derived_key_len, Int32, n, m
<1>4. CASE n = m
  <2>1. n % m = 0
    <3>1. n \in m .. 2 * m - 1
      BY <1>1, <1>4
    <3> QED
      BY <1>1, <1>4, <3>1, ModAbove
  <2> QED
    BY <1>1, <1>2, <2>1 DEF derived_key_len, Int32, n, m
<1> QED
  BY <1>1, <1>3, <1>4

\* The mask is what malloc returned, so nothing is hidden by the hashes, and
\* what is opened is no byte of the message.
NothingMasked ==
    /\ step \in {"sealed", "opening", "opened"} =>
          \A i \in Index : V[i].by = Unset
    /\ step = "opened" => \A i \in Index : text[i] = Garbled

Unfilled ==
    TooLong => /\ generated = 0
               /\ step \notin {"idle", "refused"} =>
                     \A i \in Index : mask[i] = Unset
               /\ NothingMasked

LEMMA UnfilledStep == Unfilled /\ [Next]_vars => Unfilled'
<1> SUFFICES ASSUME Unfilled, [Next]_vars, TooLong' PROVE Unfilled'
  BY DEF Unfilled
<1>0. msg_len' = msg_len
  BY DEF Next, Seal, Open, Block, SealXor, OpenXor, vars
<1>1. plaintext_len' = plaintext_len /\ Index' = Index
  BY <1>0 DEF plaintext_len, Index
<1>2. TooLong
  BY <1>1 DEF TooLong
<1>3. derived_key_len <= 0 /\ generated = 0
  BY <1>2, NegativeLength DEF Unfilled
<1>4. CASE Seal \/ Open
  BY <1>1, <1>2, <1>4 DEF Seal, Open, NewMask, Unfilled, NothingMasked
<1>5. ~Block
  <2>1. derived_key_len \in Int
    BY Widths, <1>2 DEF TooLong, derived_key_len, Int32, UInt
  <2> QED
    BY <1>3, <2>1 DEF Block
<1>6. CASE SealXor
  BY <1>1, <1>2, <1>6 DEF SealXor, Unfilled, NothingMasked
<1>7. CASE OpenXor
  BY <1>1, <1>2, <1>7 DEF OpenXor, Unfilled, NothingMasked
<1>8. CASE UNCHANGED vars
  BY <1>1, <1>2, <1>8 DEF vars, Unfilled, NothingMasked
<1> QED
  BY <1>4, <1>5, <1>6, <1>7, <1>8 DEF Next

\* "Full-length mask" (ibe.c:60): from the first length that is no int, the
\* loop of ibe.c:18 is never entered and the message is masked with whatever
\* memory malloc returned, whatever the widths and the hash.
THEOREM NeverMasked == Spec => [](TooLong => NothingMasked)
<1>1. Init => Unfilled
  BY DEF Init, Unfilled, NothingMasked
<1>2. Unfilled => (TooLong => NothingMasked)
  BY DEF Unfilled
<1> QED
  BY <1>1, <1>2, UnfilledStep, PTL DEF Spec

==============================================================================
