--------------------------------- MODULE Mask ---------------------------------
(***************************************************************************)
(* Sealing and opening a message with its signature (Encrypt, Decrypt and  *)
(* DeriveKey of crypto-c/src/ibe.c, between the lengths that their callers *)
(* compute in wasm_wrappers.c, encrypt.c and decrypt.c), for two sides     *)
(* that share the secret.  A byte of a mask is a place in the stream of    *)
(* hashes SHA256(secret || counter), or whatever malloc returned.  Lengths *)
(* are size_t, DeriveKey counts in int, and its counter is unsigned.       *)
(***************************************************************************)
EXTENDS Integers

CONSTANTS
    HashSize,   \* SHA256_DIGEST_LENGTH
    IntMax,     \* the largest int
    SizeMax,    \* the largest size_t
    SigLen,     \* bytes of a signature
    ULen,       \* bytes of the ciphertext's first part
    MaxLen      \* bound on the length of a message

ASSUME WidthAssumption ==
    /\ HashSize \in Nat \ {0}
    /\ {IntMax, SizeMax, SigLen, ULen, MaxLen} \subseteq Nat
    /\ MaxLen <= SizeMax /\ SigLen <= SizeMax /\ ULen <= SizeMax

VARIABLES
    msg_len,    \* the length of the message
    step,       \* "idle", "sealing", "sealed", "opening", "opened",
                \* "refused", "wild": memory is overwritten
    mask, generated, counter,   \* DeriveKey's
    V,          \* the ciphertext: the bytes and what they are masked with
    text        \* what was opened

vars == <<msg_len, step, mask, generated, counter, V, text>>

Size(n) == n % (SizeMax + 1)
UInt(n) == n % (2 * (IntMax + 1))

\* A size_t passed as an int.
Int32(n) == IF UInt(n) > IntMax THEN UInt(n) - 2 * (IntMax + 1) ELSE UInt(n)

plaintext_len   == Size(msg_len + SigLen)
derived_key_len == Int32(plaintext_len)

Index    == 0 .. plaintext_len - 1
MaskByte == [block : Nat \cup {-1}, at : 0 .. HashSize - 1]
Byte     == [part : {"msg", "sig", "junk"}, at : Nat]

\* Bytes of which nothing is known.
Unset   == [block |-> -1, at |-> 0]
Garbled == [part |-> "junk", at |-> 0]

\* The plaintext is the message and then its signature.
Plain(i) == IF i < msg_len THEN [part |-> "msg", at |-> i]
                           ELSE [part |-> "sig", at |-> i - msg_len]

TypeOK ==
    /\ msg_len \in 0 .. MaxLen
    /\ step \in {"idle", "sealing", "sealed", "opening", "opened", "refused", "wild"}
    /\ generated \in 0 .. IntMax
    /\ counter \in 0 .. 2 * IntMax + 1
    /\ step # "idle" => mask \in [Index -> MaskByte]
    /\ step \in {"sealed", "opening", "opened"} =>
          V \in [Index -> [byte : Byte, by : MaskByte]]
    /\ step = "opened" => text \in [Index -> Byte]

Init ==
    /\ msg_len \in 0 .. MaxLen
    /\ step = "idle"
    /\ mask = <<>> /\ generated = 0 /\ counter = 0
    /\ V = <<>> /\ text = <<>>

-----------------------------------------------------------------------------

\* Mutant: the mask is not allocated.
NewMaskNoMalloc == mask' = mask /\ generated' = 0 /\ counter' = 0

\* malloc(message_len) and the first lines of DeriveKey.
NewMask ==
    /\ mask' = [i \in Index |-> Unset]
    /\ generated' = 0
    /\ counter' = 0

\* The overflow checks of wasm_encrypt_buffer.
Fits ==
    /\ msg_len <= plaintext_len /\ SigLen <= plaintext_len
    /\ plaintext_len <= Size(ULen + plaintext_len)

Seal ==
    /\ step = "idle"
    /\ NewMask
    /\ step' = IF Fits THEN "sealing" ELSE "refused"
    /\ UNCHANGED <<msg_len, V, text>>

\* wasm_decrypt_buffer takes the lengths from the ciphertext alone.
v_len == Size(Size(ULen + plaintext_len) - ULen)

Open ==
    /\ step = "sealed"
    /\ NewMask
    /\ step' = IF v_len < SigLen THEN "refused" ELSE "opening"
    /\ UNCHANGED <<msg_len, V, text>>

\* generated + hash_size: signed overflow is undefined; it wraps, or the
\* comparison is done without it.
Sums == {generated + HashSize}
          \cup (IF generated + HashSize > IntMax
                THEN {generated + HashSize - 2 * (IntMax + 1)} ELSE {})

\* Mutant: the last block is not cut.
copy_sizeWhole(sum) == HashSize

\* Mutant: the last block is cut one byte short.
copy_sizeShort(sum) == IF sum > derived_key_len THEN derived_key_len - generated - 1
                                                ELSE HashSize

copy_size(sum) == IF sum > derived_key_len THEN derived_key_len - generated
                                           ELSE HashSize

\* Mutant: every block has the same counter.
next_counterStuck == counter

next_counter == UInt(counter + 1)

\* One turn of DeriveKey's loop; a copy beyond the mask, or a count beyond int,
\* may do anything.
Block ==
    /\ step \in {"sealing", "opening"}
    /\ generated < derived_key_len
    /\ \E sum \in Sums :
         LET copied == generated .. generated + copy_size(sum) - 1
         IN  IF copied \subseteq Index /\ generated + copy_size(sum) <= IntMax
             THEN /\ mask' = [i \in Index |->
                                IF i \in copied
                                THEN [block |-> counter, at |-> i - generated]
                                ELSE mask[i]]
                  /\ generated' = generated + copy_size(sum)
                  /\ counter' = next_counter
                  /\ UNCHANGED step
             ELSE /\ step' = "wild"
                  /\ UNCHANGED <<mask, generated, counter>>
    /\ UNCHANGED <<msg_len, V, text>>

Derived == generated >= derived_key_len

SealXor ==
    /\ step = "sealing" /\ Derived
    /\ V' = [i \in Index |-> [byte |-> Plain(i), by |-> mask[i]]]
    /\ step' = "sealed"
    /\ UNCHANGED <<msg_len, mask, generated, counter, text>>

OpenXor ==
    /\ step = "opening" /\ Derived
    /\ text' = [i \in Index |-> IF mask[i] = V[i].by /\ mask[i] # Unset
                                THEN V[i].byte ELSE Garbled]
    /\ step' = "opened"
    /\ UNCHANGED <<msg_len, mask, generated, counter, V>>

Next == Seal \/ Open \/ Block \/ SealXor \/ OpenXor

Spec     == Init /\ [][Next]_vars
FairSpec == Spec /\ WF_vars(Next)

-----------------------------------------------------------------------------
(* Properties.                                                             *)

\* The lengths that DeriveKey's int arithmetic bears: up to the last multiple
\* of the hash's size.
Safe == \E q \in 0 .. IntMax :
           q * HashSize <= IntMax /\ plaintext_len <= q * HashSize

\* Byte i of the mask is byte i of the stream of hashes: each of its bytes
\* masks one byte and no block is used twice (ibe.c:18-28).
InStream(b, i) == b.block >= 0 /\ b.block * HashSize + b.at = i
EachByteOnce ==
    Safe /\ step \in {"sealing", "opening"} =>
        \A i \in Index : IF i < generated THEN InStream(mask[i], i)
                                          ELSE mask[i] = Unset

\* What is opened is split into the message and the signature that were sealed,
\* with lengths taken from the ciphertext alone, and nothing is written beyond
\* a mask (wasm_wrappers.c:389-449, decrypt.c:153-155, ibe.c:24-25).
message   == [i \in 0 .. v_len - SigLen - 1 |-> text[i]]
signature == [i \in 0 .. SigLen - 1 |-> text[v_len - SigLen + i]]
OpensAsSealed ==
    Safe =>
        /\ step # "wild"
        /\ step = "opened" =>
              /\ message = [i \in 0 .. msg_len - 1 |-> [part |-> "msg", at |-> i]]
              /\ signature = [i \in 0 .. SigLen - 1 |-> [part |-> "sig", at |-> i]]

\* Every sealing and opening ends, whatever the length (ibe.c:18).
Ends == <>(step \in {"opened", "refused", "wild"})
===============================================================================
