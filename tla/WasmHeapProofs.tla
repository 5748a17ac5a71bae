---------------------------- MODULE WasmHeapProofs ----------------------------
(***************************************************************************)
(* What holds of WasmHeap for every number of handlers and every capacity. *)
(* The proof is the proof outline of each program: an assertion before     *)
(* each of its operations, checked one operation at a time.                *)
(***************************************************************************)
EXTENDS WasmHeap, FiniteSetTheorems, TLAPS

-----------------------------------------------------------------------------
(* The proof outlines.                                                     *)

\* What Decrypt and Encrypt of ibe.c, and DeriveKey under them, leave freed.
DecryptScratch == {"g_T", "g_T_bytes", "mask", "input_buffer"}
EncryptScratch == DecryptScratch \cup {"Q", "r"}

\* Before operation n of a C function no other local holds a freed block ...
Gone(fn, n) ==
  CASE fn = "sign" -> IF n <= 12 THEN {} ELSE SignLocals
    [] fn = "encrypt" ->
         (CASE n \in 1 .. 19 -> {} [] n = 20 -> {"input_buffer"}
            [] n = 21 -> {"input_buffer", "g_T_bytes"}
            [] n \in 22 .. 25 -> EncryptScratch
            [] OTHER -> EncryptScratch \cup EncryptAll)
    [] fn = "decrypt" ->
         (CASE n \in 1 .. 14 -> {} [] n = 15 -> {"input_buffer"}
            [] n = 16 -> {"input_buffer", "g_T_bytes"}
            [] n = 17 -> DecryptScratch
            [] OTHER -> DecryptScratch \cup DecryptLocals)
    [] OTHER -> IF n <= 18 THEN {} ELSE VerifyLocals

\* ... and no other local is live.
Held(fn, n) ==
  CASE fn = "sign" ->
         (CASE n = 1 -> {} [] n \in 2 .. 10 -> SignLocals
            [] n \in 11 .. 12 -> SignLocals \cup {"out"} [] OTHER -> {"out"})
    [] fn = "encrypt" ->
         (CASE n = 1 -> {} [] n \in 2 .. 10 -> EncryptLocals
            [] n = 11 -> EncryptLocals \cup {"plaintext_buffer"}
            [] n \in 12 .. 21 -> EncryptAll \cup (EncryptScratch \ Gone(fn, n))
            [] n \in 22 .. 23 -> EncryptAll
            [] n \in 24 .. 25 -> EncryptAll \cup {"out"} [] OTHER -> {"out"})
    [] fn = "decrypt" ->
         (CASE n = 1 -> {} [] n \in 2 .. 9 -> DecryptLocals
            [] n \in 10 .. 16 -> DecryptLocals \cup {"out"} \cup (DecryptScratch \ Gone(fn, n))
            [] n = 17 -> DecryptLocals \cup {"out"} [] OTHER -> {"out"})
    [] OTHER ->
         (CASE n = 1 -> {} [] n \in 2 .. 18 -> VerifyLocals [] OTHER -> {})

\* The operation of each handler that throws unless a pointer is set.
CheckedAt ==
  [upload |-> [sigLen |-> 4, encULen |-> 4, encTotalLen |-> 4, privKey |-> 6,
               msg |-> 8, pubParams |-> 10, recipientId |-> 12, sig |-> 14,
               enc |-> 17],
   view   |-> [decLen |-> 3, sigLen |-> 3, privKey |-> 5, ciphertext |-> 7,
               dec |-> 9, pubParams |-> 12, senderId |-> 14, msgData |-> 16,
               sigData |-> 18]]

\* Before operation n of a handler these pointers are set.
Ensured(kind, n) == {x \in DOMAIN CheckedAt[kind] : CheckedAt[kind][x] < n}

-----------------------------------------------------------------------------
(* The invariant: every handler, and the C function that runs, is where    *)
(* its outline says.                                                       *)

Under(f, held, gone) ==
    \A x \in Local : /\ f[x] = "live" => x \in held
                     /\ f[x] = "gone" => x \in gone

HandlerOK(h) ==
    /\ \A x \in Pointer : ptr[h][x] # "gone"
    /\ at[h] = Idle => h # onStack /\ Live(ptr[h]) = {}
    /\ at[h] # Idle =>
          /\ at[h].kind \in DOMAIN JS
          /\ at[h].next \in 1 .. Len(JS[at[h].kind]) + 1
          /\ at[h].next <= Len(JS[at[h].kind]) =>
                \A x \in Ensured(at[h].kind, at[h].next) : ptr[h][x] = "live"

\* The function writes its result where the handler has not looked yet.
CalleeOK ==
    callee # NoCall =>
      /\ callee.fn \in DOMAIN C
      /\ callee.next \in 1 .. Len(C[callee.fn]) + 1
      /\ Under(callee.local, Held(callee.fn, callee.next), Gone(callee.fn, callee.next))
      /\ onStack \in Handler
      /\ callee.out \notin Ensured(at[onStack].kind, at[onStack].next)

HeapInv ==
    /\ TypeOK
    /\ ~misused
    /\ lost["return"] = 0
    /\ \A h \in Handler : HandlerOK(h)
    /\ CalleeOK
-----------------------------------------------------------------------------
(* Each operation of a C function keeps to the function's outline.         *)

Ops == [op : {"must", "try", "check", "free"}, of : SUBSET Local, undo : SUBSET Local]

\* o leads from one assertion of fn's outline to the next, frees nothing twice,
\* and where it may return it has freed what is live.
Sound(fn, n, o) ==
    /\ o \in Ops
    /\ o.undo \cap Gone(fn, n) = {}
    /\ o.op \in {"must", "try"} => /\ Held(fn, n) \cup o.of \subseteq Held(fn, n + 1)
                                   /\ Gone(fn, n) \subseteq Gone(fn, n + 1)
    /\ o.op \in {"try", "check"} => Held(fn, n) \subseteq o.undo
    /\ o.op = "check" => /\ Held(fn, n) \subseteq Held(fn, n + 1)
                         /\ Gone(fn, n) \subseteq Gone(fn, n + 1)
    /\ o.op = "free" => /\ o.of \cap Gone(fn, n) = {}
                        /\ Held(fn, n) \ o.of \subseteq Held(fn, n + 1)
                        /\ Gone(fn, n) \cup o.of \subseteq Gone(fn, n + 1)

LEMMA SoundSign ==
  /\ Len(C["sign"]) = 12
  /\ \A n \in 1 .. 12 : Sound("sign", n, C["sign"][n])
<1>1. Len(C["sign"]) = 12
  BY DEF C, wasm_sign_buffer
<1>2. ASSUME NEW n \in 1 .. 12
      PROVE  Sound("sign", n, C["sign"][n])
  <2>0. n = 1 \/ n \in 2 .. 9 \/ n \in 10 .. 12
    OBVIOUS
  <2> USE DEF C, wasm_sign_buffer, Sound, Ops, Held, Gone, Local,
      SignLocals, DecryptLocals, EncryptLocals, EncryptAll, VerifyLocals,
      Must, MustOr, Try, Check, Clear
  <2>1. CASE n = 1
    BY <2>1
  <2>2. CASE n \in 2 .. 9
    BY <2>2
  <2>3. CASE n \in 10 .. 12
    BY <2>3
  <2> QED
    BY <2>0, <2>1, <2>2, <2>3
<1> QED
  BY <1>1, <1>2

LEMMA SoundEncrypt ==
  /\ Len(C["encrypt"]) = 25
  /\ \A n \in 1 .. 25 : Sound("encrypt", n, C["encrypt"][n])
<1>1. Len(C["encrypt"]) = 25
  BY DEF C, wasm_encrypt_buffer, Encrypt
<1>2. ASSUME NEW n \in 1 .. 25
      PROVE  Sound("encrypt", n, C["encrypt"][n])
  <2>0. n \in 1 .. 5 \/ n \in 6 .. 11 \/ n \in 12 .. 18 \/ n \in 19 .. 20 \/
        n = 21 \/ n \in 22 .. 25
    OBVIOUS
  <2> USE DEF C, wasm_encrypt_buffer, Encrypt, Sound, Ops, Held, Gone,
      Local, SignLocals, DecryptLocals, EncryptLocals, EncryptAll,
      VerifyLocals, DecryptScratch, EncryptScratch, Must, MustOr, Try, Check,
      Clear
  <2>1. CASE n \in 1 .. 5
    BY <2>1
  <2>2. CASE n \in 6 .. 11
    BY <2>2
  <2>3. CASE n \in 12 .. 18
    BY <2>3
  <2>4. CASE n \in 19 .. 20
    BY <2>4
  <2>5. CASE n = 21
    BY <2>5
  <2>6. CASE n \in 22 .. 25
    BY <2>6
  <2> QED
    BY <2>0, <2>1, <2>2, <2>3, <2>4, <2>5, <2>6
<1> QED
  BY <1>1, <1>2

LEMMA SoundDecrypt ==
  /\ Len(C["decrypt"]) = 17
  /\ \A n \in 1 .. 17 : Sound("decrypt", n, C["decrypt"][n])
<1>1. Len(C["decrypt"]) = 17
  BY DEF C, wasm_decrypt_buffer, Decrypt
<1>2. ASSUME NEW n \in 1 .. 17
      PROVE  Sound("decrypt", n, C["decrypt"][n])
  <2>0. n \in 1 .. 5 \/ n \in 6 .. 9 \/ n \in 10 .. 13 \/ n \in 14 .. 15 \/
        n = 16 \/ n = 17
    OBVIOUS
  <2> USE DEF C, wasm_decrypt_buffer, Decrypt, Sound, Ops, Held, Gone,
      Local, SignLocals, DecryptLocals, EncryptLocals, EncryptAll,
      VerifyLocals, DecryptScratch, EncryptScratch, Must, MustOr, Try, Check,
      Clear
  <2>1. CASE n \in 1 .. 5
    BY <2>1
  <2>2. CASE n \in 6 .. 9
    BY <2>2
  <2>3. CASE n \in 10 .. 13
    BY <2>3
  <2>4. CASE n \in 14 .. 15
    BY <2>4
  <2>5. CASE n = 16
    BY <2>5
  <2>6. CASE n = 17
    BY <2>6
  <2> QED
    BY <2>0, <2>1, <2>2, <2>3, <2>4, <2>5, <2>6
<1> QED
  BY <1>1, <1>2

LEMMA SoundVerify ==
  /\ Len(C["verify"]) = 18
  /\ \A n \in 1 .. 18 : Sound("verify", n, C["verify"][n])
<1>1. Len(C["verify"]) = 18
  BY DEF C, wasm_verify_buffer
<1>2. ASSUME NEW n \in 1 .. 18
      PROVE  Sound("verify", n, C["verify"][n])
  <2>0. n \in 1 .. 5 \/ n \in 6 .. 10 \/ n \in 11 .. 15 \/ n \in 16 .. 18
    OBVIOUS
  <2> USE DEF C, wasm_verify_buffer, Sound, Ops, Held, Gone, Local,
      SignLocals, DecryptLocals, EncryptLocals, EncryptAll, VerifyLocals,
      Must, MustOr, Try, Check, Clear
  <2>1. CASE n \in 1 .. 5
    BY <2>1
  <2>2. CASE n \in 6 .. 10
    BY <2>2
  <2>3. CASE n \in 11 .. 15
    BY <2>3
  <2>4. CASE n \in 16 .. 18
    BY <2>4
  <2> QED
    BY <2>0, <2>1, <2>2, <2>3, <2>4
<1> QED
  BY <1>1, <1>2
LEMMA SoundC ==
  ASSUME NEW fn \in DOMAIN C
  PROVE  /\ Len(C[fn]) \in Nat
         /\ \A n \in 1 .. Len(C[fn]) : Sound(fn, n, C[fn][n])
         /\ Held(fn, Len(C[fn]) + 1) \subseteq {"out"}
         /\ "out" \notin Gone(fn, Len(C[fn]) + 1)
<1>1. fn \in {"sign", "encrypt", "decrypt", "verify"}
  BY DEF C
<1>2. /\ Len(C[fn]) \in Nat
      /\ \A n \in 1 .. Len(C[fn]) : Sound(fn, n, C[fn][n])
  <2>1. CASE fn = "sign"
    BY <2>1, SoundSign
  <2>2. CASE fn = "encrypt"
    BY <2>2, SoundEncrypt
  <2>3. CASE fn = "decrypt"
    BY <2>3, SoundDecrypt
  <2>4. CASE fn = "verify"
    BY <2>4, SoundVerify
  <2> QED
    BY <1>1, <2>1, <2>2, <2>3, <2>4
<1>3. /\ Held(fn, Len(C[fn]) + 1) \subseteq {"out"}
      /\ "out" \notin Gone(fn, Len(C[fn]) + 1)
  <2>1. CASE fn = "sign"
    BY <2>1, SoundSign DEF Held, Gone, SignLocals
  <2>2. CASE fn = "encrypt"
    BY <2>2, SoundEncrypt
       DEF Held, Gone, EncryptAll, EncryptLocals, EncryptScratch, DecryptScratch
  <2>3. CASE fn = "decrypt"
    BY <2>3, SoundDecrypt DEF Held, Gone, DecryptLocals, DecryptScratch
  <2>4. CASE fn = "verify"
    BY <2>4, SoundVerify DEF Held, Gone, VerifyLocals
  <2> QED
    BY <1>1, <2>1, <2>2, <2>3, <2>4
<1> QED
  BY <1>2, <1>3

-----------------------------------------------------------------------------
(* Each operation of a handler keeps to the handler's outline.             *)

\* A pointer is set anew only before it is checked, and what is passed to a C
\* function has been checked.
SoundJS(kind, n, o) ==
    /\ o.of \subseteq Pointer
    /\ o.op \in {"malloc", "unless", "call", "throws", "await"}
    /\ Ensured(kind, n + 1) \subseteq
          Ensured(kind, n) \cup (IF o.op = "unless" THEN o.of ELSE {})
    /\ o.op = "malloc" => o.of \cap Ensured(kind, n + 1) = {}
    /\ o.op = "call" => /\ o.of \subseteq Ensured(kind, n)
                        /\ o.fn \in DOMAIN C
                        /\ o.out \in {"verdict"} \cup Pointer
                        /\ o.out \notin Ensured(kind, n + 1)

LEMMA SoundUpload ==
  /\ Len(JS["upload"]) = 19
  /\ \A n \in 1 .. 19 : SoundJS("upload", n, JS["upload"][n])
<1> USE DEF JS, handleUploadAndEncrypt, Pass, SoundJS, Ensured, CheckedAt,
        Pointer, Malloc, Unless, Call, Throws, Await
<1>1. Len(JS["upload"]) = 19
  OBVIOUS
<1>2. \A n \in 1 .. 4 : SoundJS("upload", n, JS["upload"][n])
  OBVIOUS
<1>3. \A n \in 5 .. 8 : SoundJS("upload", n, JS["upload"][n])
  OBVIOUS
<1>4. \A n \in 9 .. 12 : SoundJS("upload", n, JS["upload"][n])
  OBVIOUS
<1>5. SoundJS("upload", 13, JS["upload"][13])
  BY DEF C
<1>6. \A n \in 14 .. 15 : SoundJS("upload", n, JS["upload"][n])
  OBVIOUS
<1>7. SoundJS("upload", 16, JS["upload"][16])
  BY DEF C
<1>8. \A n \in 17 .. 19 : SoundJS("upload", n, JS["upload"][n])
  OBVIOUS
<1> HIDE DEF SoundJS, JS
<1> QED
  BY <1>1, <1>2, <1>3, <1>4, <1>5, <1>6, <1>7, <1>8

LEMMA SoundView ==
  /\ Len(JS["view"]) = 19
  /\ \A n \in 1 .. 19 : SoundJS("view", n, JS["view"][n])
<1> DEFINE o(n) == JS["view"][n]
<1>1. Len(JS["view"]) = 19
  BY DEF JS, handleDecryptAndVerify, Pass
<1>2. ASSUME NEW n \in 1 .. 19
      PROVE  SoundJS("view", n, o(n))
  <2> USE DEF JS, handleDecryptAndVerify, Pass, Malloc, Unless, Call, Throws,
              Await
  <2>1. /\ o(n).of \subseteq Pointer
        /\ o(n).op \in {"malloc", "unless", "call", "throws", "await"}
    BY DEF Pointer
  <2>2. Ensured("view", n + 1) \subseteq
          Ensured("view", n) \cup (IF o(n).op = "unless" THEN o(n).of ELSE {})
    BY DEF Ensured, CheckedAt
  <2>3. o(n).op = "malloc" => o(n).of \cap Ensured("view", n + 1) = {}
    BY DEF Ensured, CheckedAt
  <2>4. o(n).op = "call" => /\ o(n).of \subseteq Ensured("view", n)
                            /\ o(n).fn \in DOMAIN C
                            /\ o(n).out \in {"verdict"} \cup Pointer
                            /\ o(n).out \notin Ensured("view", n + 1)
    <3>1. CASE n = 8
      BY <3>1 DEF Ensured, CheckedAt, Pointer, C
    <3>2. CASE n = 19
      BY <3>2 DEF Ensured, CheckedAt, Pointer, C
    <3>3. CASE n \notin {8, 19}
      BY <3>3
    <3> QED
      BY <3>1, <3>2, <3>3
  <2> HIDE DEF o
  <2> QED
    BY <2>1, <2>2, <2>3, <2>4 DEF SoundJS
<1> QED
  BY <1>1, <1>2
LEMMA SoundHandler ==
  ASSUME NEW kind \in DOMAIN JS
  PROVE  /\ Len(JS[kind]) \in Nat
         /\ \A n \in 1 .. Len(JS[kind]) : SoundJS(kind, n, JS[kind][n])
<1>1. kind \in {"upload", "view"}
  BY DEF JS
<1>2. CASE kind = "upload"
  BY <1>2, SoundUpload
<1>3. CASE kind = "view"
  BY <1>3, SoundView
<1> QED
  BY <1>1, <1>2, <1>3

-----------------------------------------------------------------------------
(* Counting the blocks of a function's locals.                             *)

LEMMA LocalFinite == IsFiniteSet(Local)
<1> DEFINE f == <<"pairing", "g", "P_pub", "U", "plaintext_buffer", "V", "d", "h",
                  "sigma", "Q", "temp_G1", "lhs_GT", "rhs_GT", "out", "r", "g_T",
                  "g_T_bytes", "mask", "input_buffer">>
<1>1. IsFiniteSet(1 .. 19)
  BY FS_Interval, 1 \in Int, 19 \in Int, Zenon
<1>2. f \in Surjection(1 .. 19, Local)
  BY DEF Surjection, Local, EncryptAll, EncryptLocals, DecryptLocals, SignLocals,
         VerifyLocals
<1> QED
  BY <1>1, <1>2, FS_Surjection

LEMMA LocalCount ==
  ASSUME NEW xs \in SUBSET Local
  PROVE  Cardinality(xs) \in Nat
  BY LocalFinite, FS_Subset, FS_CardinalityType

-----------------------------------------------------------------------------
(* The C function that runs.                                               *)

CallType == [fn : {"none"} \cup DOMAIN C, next : Nat,
             out : {"none", "verdict"} \cup Pointer, local : [Local -> Status]]

LEMMA NoCallType == NoCall \in CallType
  BY DEF NoCall, CallType, Status

LEMMA HeapInit == Init => HeapInv
<1>1. Init => TypeOK
  <2>1. Idle \in [kind : {"idle", "upload", "view"}, next : Nat]
    BY DEF Idle
  <2>2. NoPtr \in [Pointer -> Status]
    BY DEF NoPtr, Status
  <2>3. NoCall.fn = "none"
    BY DEF NoCall
  <2>4. Init => callee \in CallType
    BY NoCallType DEF Init
  <2>5. Init => /\ at \in [Handler -> [kind : {"idle", "upload", "view"}, next : Nat]]
                /\ ptr \in [Handler -> [Pointer -> Status]]
    BY <2>1, <2>2 DEF Init
  <2>6. Init => callee.fn = "none" /\ misused \in BOOLEAN
    BY <2>3 DEF Init
  <2>7. Init => lost \in [{"again", "return", "exit"} -> Nat] /\ onStack = Nobody
    BY DEF Init
  <2> QED
    BY <2>4, <2>5, <2>6, <2>7 DEF TypeOK, CallType
<1>2. ASSUME Init, NEW h \in Handler
      PROVE  HandlerOK(h)
  BY <1>2, HeapAssumption DEF Init, HandlerOK, NoPtr, Live
<1> QED
  BY <1>1, <1>2 DEF Init, HeapInv, CalleeOK

LEMMA Running ==
  ASSUME HeapInv, callee.fn # "none"
  PROVE  /\ callee.fn \in DOMAIN C
         /\ callee.next \in 1 .. Len(C[callee.fn]) + 1
         /\ callee.local \in [Local -> Status]
         /\ Under(callee.local, Held(callee.fn, callee.next),
                  Gone(callee.fn, callee.next))
         /\ onStack \in Handler /\ at[onStack] # Idle
         /\ callee.out \notin Ensured(at[onStack].kind, at[onStack].next)
  BY DEF HeapInv, TypeOK, CalleeOK, HandlerOK, NoCall
\* The next operation, or the end of the program.
LEMMA CurrentOp ==
  ASSUME HeapInv, NEW do, InC(do)
  PROVE  /\ callee.fn # "none" /\ callee.next + 1 \in 1 .. Len(C[callee.fn]) + 1
         /\ Sound(callee.fn, callee.next, cOp) /\ cOp.op = do
  BY Running, SoundC DEF InC, cOp

\* The function moves to its next operation.
LEMMA AdvanceInv ==
  ASSUME HeapInv, callee.fn # "none", callee.next + 1 \in 1 .. Len(C[callee.fn]) + 1,
         NEW f \in [Local -> Status],
         Under(f, Held(callee.fn, callee.next + 1), Gone(callee.fn, callee.next + 1)),
         Advance(f), UNCHANGED <<at, ptr, onStack>>, ~misused', misused' \in BOOLEAN,
         lost' \in [{"again", "return", "exit"} -> Nat], lost'["return"] = 0
  PROVE  HeapInv'
<1>0. /\ callee \in CallType
      /\ callee.next + 1 \in Nat
  BY DEF HeapInv, TypeOK, CallType
<1>1. /\ callee' = [callee EXCEPT !.local = f, !.next = callee.next + 1]
      /\ callee' \in CallType
  BY <1>0 DEF Advance, CallType
<1>2. /\ callee'.fn = callee.fn /\ callee'.next = callee.next + 1
      /\ callee'.out = callee.out /\ callee'.local = f
  BY <1>0, <1>1 DEF CallType
<1>3. TypeOK'
  BY <1>1, <1>2 DEF HeapInv, TypeOK, CallType
<1>4. CalleeOK'
  BY <1>2, Running DEF CalleeOK
<1>5. \A h \in Handler : HandlerOK(h)'
  BY DEF HeapInv, HandlerOK
<1> QED
  BY <1>3, <1>4, <1>5 DEF HeapInv
LEMMA LoseType ==
  ASSUME HeapInv, NEW how \in {"again", "return", "exit"}, NEW xs \in SUBSET Local,
         LoseAs(how, Cardinality(xs)), how = "return" => xs = {}
  PROVE  /\ lost' \in [{"again", "return", "exit"} -> Nat]
         /\ lost'["return"] = 0
<1>1. /\ lost \in [{"again", "return", "exit"} -> Nat] /\ lost["return"] = 0
      /\ lost' = [lost EXCEPT ![how] = lost[how] + Cardinality(xs)]
  BY DEF HeapInv, TypeOK, LoseAs
<1>2. Cardinality(xs) \in Nat
  BY LocalCount
<1>3. how = "return" => Cardinality(xs) = 0
  BY FS_EmptySet
<1> QED
  BY <1>1, <1>2, <1>3

\* The function returns and leaves at most its result.
LEMMA ReturnInv ==
  ASSUME HeapInv, callee.fn # "none", NEW left \in [Local -> Status],
         NEW result \in {"null", "live"}, Return(left, result),
         Live(left) \subseteq IF result = "live" THEN {"out"} ELSE {},
         UNCHANGED <<at, onStack>>, ~misused', misused' \in BOOLEAN
  PROVE  HeapInv'
<1>1. /\ callee' = NoCall
      /\ ptr' = IF callee.out \in Pointer
                THEN [ptr EXCEPT ![onStack][callee.out] = result] ELSE ptr
  BY DEF Return
<1>2. /\ lost' \in [{"again", "return", "exit"} -> Nat]
      /\ lost'["return"] = 0
  <2> DEFINE xs == Live(left) \ IF result = "live" THEN {"out"} ELSE {}
  <2>1. LoseAs("return", Cardinality(xs))
    BY DEF Return
  <2>2. xs = {}
    OBVIOUS
  <2> HIDE DEF xs
  <2> QED
    BY <2>1, <2>2, LoseType
<1>3. /\ ptr' \in [Handler -> [Pointer -> Status]]
      /\ \A h \in Handler, x \in Pointer :
            \/ ptr'[h][x] = ptr[h][x]
            \/ h = onStack /\ x = callee.out /\ ptr'[h][x] \in {"null", "live"}
  BY <1>1, Running DEF HeapInv, TypeOK, Status
<1>4. TypeOK'
  BY <1>1, <1>2, <1>3, NoCallType DEF HeapInv, TypeOK, CallType, NoCall
<1>5. ASSUME NEW h \in Handler
      PROVE  HandlerOK(h)'
  <2>1. HandlerOK(h) /\ onStack \in Handler /\ at[onStack] # Idle
    BY Running DEF HeapInv
  <2>2. \A x \in Pointer : ptr'[h][x] # "gone"
    BY <1>3, <2>1 DEF HandlerOK
  <2>3. at[h] = Idle => Live(ptr'[h]) = {}
    BY <1>3, <2>1 DEF HandlerOK, Live, HeapInv, TypeOK
  <2>4. ASSUME at[h] # Idle, at[h].next <= Len(JS[at[h].kind]),
               NEW x \in Ensured(at[h].kind, at[h].next)
        PROVE  ptr'[h][x] = "live"
    <3>1. x \in Pointer
      BY <2>1, <2>4 DEF HandlerOK, Ensured, CheckedAt, Pointer, JS
    <3>2. ptr[h][x] = "live"
      BY <2>1, <2>4 DEF HandlerOK
    <3>3. h = onStack => x # callee.out
      BY <2>4, Running
    <3> QED
      BY <1>3, <3>1, <3>2, <3>3
  <2> QED
    BY <2>1, <2>2, <2>3, <2>4 DEF HandlerOK
<1> QED
  BY <1>1, <1>2, <1>4, <1>5 DEF HeapInv, CalleeOK

\* exit() ends the function, and the handler at its finally block.
LEMMA ExitInv ==
  ASSUME HeapInv, callee.fn # "none", NEW left \in [Local -> Status], Exit(left),
         UNCHANGED onStack, ~misused', misused' \in BOOLEAN
  PROVE  HeapInv'
<1>1. /\ callee' = NoCall /\ ptr' = ptr
      /\ at' = [at EXCEPT ![onStack].next = Len(JS[at[onStack].kind]) + 1]
  BY DEF Exit
<1>2. /\ lost' \in [{"again", "return", "exit"} -> Nat]
      /\ lost'["return"] = 0
  <2>1. Live(left) \subseteq Local
    BY DEF Live
  <2> QED
    BY <2>1, LoseType DEF Exit
<1>3. /\ onStack \in Handler /\ at[onStack] # Idle /\ at[onStack].kind \in DOMAIN JS
      /\ Len(JS[at[onStack].kind]) + 1 \in Nat
  BY Running, SoundHandler DEF HeapInv, HandlerOK
<1>4. /\ at' \in [Handler -> [kind : {"idle", "upload", "view"}, next : Nat]]
      /\ at'[onStack].kind = at[onStack].kind
      /\ at'[onStack].next = Len(JS[at[onStack].kind]) + 1
      /\ \A h \in Handler \ {onStack} : at'[h] = at[h]
  BY <1>1, <1>3 DEF HeapInv, TypeOK
<1>5. TypeOK'
  BY <1>1, <1>2, <1>4, NoCallType DEF HeapInv, TypeOK, CallType, NoCall
<1>6. ASSUME NEW h \in Handler
      PROVE  HandlerOK(h)'
  <2>1. HandlerOK(h)
    BY DEF HeapInv
  <2>2. CASE h = onStack
    <3>1. at'[h] # Idle
      BY <1>3, <1>4, <2>2 DEF Idle, JS
    <3> QED
      BY <1>1, <1>3, <1>4, <2>1, <2>2, <3>1 DEF HandlerOK
  <2>3. CASE h # onStack
    BY <1>1, <1>4, <2>1, <2>3 DEF HandlerOK
  <2> QED
    BY <2>2, <2>3
<1> QED
  BY <1>1, <1>2, <1>5, <1>6 DEF HeapInv, CalleeOK
\* Freeing live or missing blocks is no misuse.
LEMMA FreedOK ==
  ASSUME HeapInv, callee.fn # "none", NEW xs \in SUBSET Local,
         xs \cap Gone(callee.fn, callee.next) = {}, Misuse(callee.local, xs)
  PROVE  /\ ~misused' /\ misused' \in BOOLEAN
         /\ Freed(callee.local, xs) \in [Local -> Status]
         /\ Under(Freed(callee.local, xs), Held(callee.fn, callee.next) \ xs,
                  Gone(callee.fn, callee.next) \cup xs)
<1>1. /\ callee.local \in [Local -> Status]
      /\ Under(callee.local, Held(callee.fn, callee.next), Gone(callee.fn, callee.next))
  BY Running
<1>2. ~ \E x \in xs : callee.local[x] = "gone"
  BY <1>1 DEF Under
<1>3. ~misused /\ (misused' = (misused \/ \E x \in xs : callee.local[x] = "gone"))
  BY DEF HeapInv, Misuse
<1> QED
  BY <1>1, <1>2, <1>3 DEF Freed, Under, Status

LEMMA HeapAllocate ==
  ASSUME HeapInv, Allocate
  PROVE  HeapInv'
<1> DEFINE f == [x \in Local |-> IF x \in cOp.of THEN "live" ELSE callee.local[x]]
<1>1. /\ callee.fn # "none" /\ callee.next + 1 \in 1 .. Len(C[callee.fn]) + 1
      /\ Sound(callee.fn, callee.next, cOp) /\ cOp.op \in {"must", "try"}
  BY CurrentOp DEF Allocate
<1>2. /\ f \in [Local -> Status]
      /\ Under(f, Held(callee.fn, callee.next + 1), Gone(callee.fn, callee.next + 1))
  BY <1>1, Running DEF Sound, Under, Status
<1>3. Advance(f) /\ UNCHANGED <<at, ptr, onStack, misused>>
  BY DEF Allocate, locals
<1>4. ~misused' /\ misused' \in BOOLEAN
  BY <1>3 DEF HeapInv, TypeOK
<1>5. lost' \in [{"again", "return", "exit"} -> Nat] /\ lost'["return"] = 0
  <2>1. cOp.of \cap Live(locals) \in SUBSET Local
    BY <1>1 DEF Sound, Ops
  <2> QED
    BY <2>1, LoseType DEF Allocate
<1> QED
  BY <1>1, <1>2, <1>3, <1>4, <1>5, AdvanceInv

LEMMA HeapPassCheck ==
  ASSUME HeapInv, PassCheck
  PROVE  HeapInv'
<1>1. /\ callee.fn # "none" /\ callee.next + 1 \in 1 .. Len(C[callee.fn]) + 1
      /\ Sound(callee.fn, callee.next, cOp) /\ cOp.op = "check"
  BY CurrentOp DEF PassCheck
<1>2. /\ callee.local \in [Local -> Status]
      /\ Under(callee.local, Held(callee.fn, callee.next + 1),
               Gone(callee.fn, callee.next + 1))
  BY <1>1, Running DEF Sound, Under
<1>3. Advance(callee.local) /\ UNCHANGED <<at, ptr, onStack, lost, misused>>
  BY DEF PassCheck, locals
<1>4. /\ ~misused' /\ misused' \in BOOLEAN
      /\ lost' \in [{"again", "return", "exit"} -> Nat] /\ lost'["return"] = 0
  BY <1>3 DEF HeapInv, TypeOK
<1> QED
  BY <1>1, <1>2, <1>3, <1>4, AdvanceInv

LEMMA HeapFree ==
  ASSUME HeapInv, Free
  PROVE  HeapInv'
<1>1. /\ callee.fn # "none" /\ callee.next + 1 \in 1 .. Len(C[callee.fn]) + 1
      /\ Sound(callee.fn, callee.next, cOp) /\ cOp.op = "free"
  BY CurrentOp DEF Free
<1>2. cOp.of \in SUBSET Local /\ cOp.of \cap Gone(callee.fn, callee.next) = {}
  BY <1>1 DEF Sound, Ops
<1>3. /\ ~misused' /\ misused' \in BOOLEAN
      /\ Freed(callee.local, cOp.of) \in [Local -> Status]
      /\ Under(Freed(callee.local, cOp.of), Held(callee.fn, callee.next) \ cOp.of,
               Gone(callee.fn, callee.next) \cup cOp.of)
  BY <1>1, <1>2, FreedOK DEF Free, locals
<1>4. Under(Freed(callee.local, cOp.of), Held(callee.fn, callee.next + 1),
            Gone(callee.fn, callee.next + 1))
  BY <1>1, <1>3 DEF Sound, Under
<1>5. /\ Advance(Freed(callee.local, cOp.of)) /\ UNCHANGED <<at, ptr, onStack>>
      /\ lost' \in [{"again", "return", "exit"} -> Nat] /\ lost'["return"] = 0
  BY DEF Free, locals, HeapInv, TypeOK
<1> QED
  BY <1>1, <1>3, <1>4, <1>5, AdvanceInv

LEMMA HeapDie ==
  ASSUME HeapInv, Die
  PROVE  HeapInv'
<1>1. callee.fn # "none" /\ Sound(callee.fn, callee.next, cOp)
  BY CurrentOp DEF Die
<1>2. cOp.undo \in SUBSET Local /\ cOp.undo \cap Gone(callee.fn, callee.next) = {}
  BY <1>1 DEF Sound, Ops
<1>3. /\ ~misused' /\ misused' \in BOOLEAN
      /\ Freed(callee.local, cOp.undo) \in [Local -> Status]
  BY <1>1, <1>2, FreedOK DEF Die, locals
<1> QED
  BY <1>1, <1>3, ExitInv DEF Die, locals

LEMMA HeapReturnNull ==
  ASSUME HeapInv, ReturnNull
  PROVE  HeapInv'
<1>1. /\ callee.fn # "none" /\ Sound(callee.fn, callee.next, cOp)
      /\ cOp.op \in {"try", "check"}
  BY CurrentOp DEF ReturnNull
<1>2. cOp.undo \in SUBSET Local /\ cOp.undo \cap Gone(callee.fn, callee.next) = {}
  BY <1>1 DEF Sound, Ops
<1>3. /\ ~misused' /\ misused' \in BOOLEAN
      /\ Freed(callee.local, cOp.undo) \in [Local -> Status]
      /\ Under(Freed(callee.local, cOp.undo),
               Held(callee.fn, callee.next) \ cOp.undo,
               Gone(callee.fn, callee.next) \cup cOp.undo)
  BY <1>1, <1>2, FreedOK DEF ReturnNull, locals
<1>4. Live(Freed(callee.local, cOp.undo)) = {}
  BY <1>1, <1>3 DEF Sound, Under, Live
<1> QED
  BY <1>1, <1>3, <1>4, ReturnInv DEF ReturnNull, locals

LEMMA HeapReturnResult ==
  ASSUME HeapInv, ReturnResult
  PROVE  HeapInv'
<1>1. callee.fn # "none" /\ callee.next > Len(C[callee.fn])
  BY DEF ReturnResult
<1>2. /\ callee.fn \in DOMAIN C /\ callee.next = Len(C[callee.fn]) + 1
      /\ callee.local \in [Local -> Status]
      /\ Under(callee.local, Held(callee.fn, callee.next),
               Gone(callee.fn, callee.next))
  BY <1>1, Running, SoundC
<1>3. /\ Held(callee.fn, callee.next) \subseteq {"out"}
      /\ "out" \notin Gone(callee.fn, callee.next)
  BY <1>2, SoundC
<1>4. callee.local["out"] \in {"null", "live"}
  BY <1>2, <1>3 DEF Under, Status, Local
<1>5. Live(callee.local) \subseteq IF callee.local["out"] = "live" THEN {"out"} ELSE {}
  BY <1>2, <1>3 DEF Under, Live
<1>6. ~misused' /\ misused' \in BOOLEAN
  BY DEF ReturnResult, HeapInv, TypeOK
<1> QED
  BY <1>1, <1>2, <1>4, <1>5, <1>6, ReturnInv DEF ReturnResult, locals
-----------------------------------------------------------------------------
(* The handlers.                                                           *)

\* The operation a handler is at, and what its outline says of it.
LEMMA CurrentJS ==
  ASSUME HeapInv, NEW h \in Handler, NEW do, InJS(h, do)
  PROVE  /\ h = onStack /\ callee = NoCall
         /\ at[h] # Idle /\ at[h].kind \in DOMAIN JS
         /\ at[h].next \in 1 .. Len(JS[at[h].kind])
         /\ Len(JS[at[h].kind]) \in Nat
         /\ SoundJS(at[h].kind, at[h].next, jOp(h)) /\ jOp(h).op = do
         /\ \A x \in Ensured(at[h].kind, at[h].next) : ptr[h][x] = "live"
<1>1. h = onStack /\ callee.fn = "none" /\ jOp(h).op = do
      /\ at[h].next <= Len(JS[at[h].kind])
  BY DEF InJS
<1>2. callee = NoCall
  BY <1>1 DEF HeapInv, CalleeOK, C
<1>3. at[h] # Idle /\ HandlerOK(h)
  BY <1>1 DEF HeapInv, HandlerOK
<1> QED
  BY <1>1, <1>2, <1>3, SoundHandler DEF HandlerOK, jOp

\* One handler moves.
LEMMA HandlerInv ==
  ASSUME HeapInv, NEW h \in Handler, HandlerOK(h)',
         at' \in [Handler -> [kind : {"idle", "upload", "view"}, next : Nat]],
         ptr' \in [Handler -> [Pointer -> Status]],
         \A k \in Handler \ {h} : at'[k] = at[k] /\ ptr'[k] = ptr[k],
         onStack \in {h, Nobody}, onStack' \in {h, Nobody},
         callee = NoCall, UNCHANGED <<callee, lost>>, ~misused', misused' \in BOOLEAN
  PROVE  HeapInv'
<1>1. TypeOK'
  BY DEF HeapInv, TypeOK, NoCall
<1>2. ASSUME NEW k \in Handler \ {h}
      PROVE  HandlerOK(k)'
  <2>1. HandlerOK(k) /\ at'[k] = at[k] /\ ptr'[k] = ptr[k]
    BY DEF HeapInv
  <2>2. k # onStack'
    BY HeapAssumption
  <2> QED
    BY <2>1, <2>2 DEF HandlerOK, Live
<1> QED
  BY <1>1, <1>2 DEF HeapInv, CalleeOK

\* It moves to another of its operations, or to its finally block.
LEMMA MoveInv ==
  ASSUME HeapInv, NEW h \in Handler, h = onStack, callee = NoCall,
         at[h].kind \in DOMAIN JS, NEW n \in 1 .. Len(JS[at[h].kind]) + 1,
         at' = [at EXCEPT ![h].next = n],
         n <= Len(JS[at[h].kind]) =>
            \A x \in Ensured(at[h].kind, n) : ptr[h][x] = "live",
         onStack' \in {h, Nobody}, UNCHANGED <<ptr, callee, lost, misused>>
  PROVE  HeapInv'
<1>1. n \in Nat
  BY SoundHandler
<1>2. /\ at' \in [Handler -> [kind : {"idle", "upload", "view"}, next : Nat]]
      /\ at'[h].kind = at[h].kind /\ at'[h].next = n
      /\ \A k \in Handler \ {h} : at'[k] = at[k]
  BY <1>1 DEF HeapInv, TypeOK
<1>3. HandlerOK(h)'
  <2>1. at'[h] # Idle
    BY <1>2 DEF Idle, JS
  <2> QED
    BY <1>2, <2>1 DEF HandlerOK, HeapInv
<1>4. /\ ptr' \in [Handler -> [Pointer -> Status]] /\ ~misused' /\ misused' \in BOOLEAN
  BY DEF HeapInv, TypeOK
<1> QED
  BY <1>2, <1>3, <1>4, HandlerInv

LEMMA ThrowInv ==
  ASSUME HeapInv, NEW h \in Handler, h = onStack, callee = NoCall,
         at[h].kind \in DOMAIN JS, Throw(h), UNCHANGED <<ptr, onStack, callee, lost, misused>>
  PROVE  HeapInv'
<1>1. PICK n : n = Len(JS[at[h].kind]) + 1
  OBVIOUS
<1>2. n \in 1 .. Len(JS[at[h].kind]) + 1 /\ ~(n <= Len(JS[at[h].kind]))
  BY <1>1, SoundHandler
<1>3. at' = [at EXCEPT ![h].next = n]
  BY <1>1 DEF Throw
<1> QED
  BY <1>2, <1>3, MoveInv

LEMMA ProceedInv ==
  ASSUME HeapInv, NEW h \in Handler, h = onStack, callee = NoCall,
         at[h].kind \in DOMAIN JS, at[h].next \in 1 .. Len(JS[at[h].kind]), Proceed(h),
         \A x \in Ensured(at[h].kind, at[h].next + 1) : ptr[h][x] = "live",
         onStack' \in {h, Nobody}, UNCHANGED <<ptr, callee, lost, misused>>
  PROVE  HeapInv'
<1>1. PICK n : n = at[h].next + 1
  OBVIOUS
<1>2. n \in 1 .. Len(JS[at[h].kind]) + 1
  BY <1>1, SoundHandler
<1>3. at' = [at EXCEPT ![h].next = n]
  BY <1>1 DEF Proceed
<1> QED
  BY <1>1, <1>2, <1>3, MoveInv

LEMMA HeapResume ==
  ASSUME HeapInv, NEW h \in Handler, NEW kind \in DOMAIN JS, Resume(h, kind)
  PROVE  HeapInv'
<1>1. callee = NoCall
  BY HeapAssumption DEF HeapInv, CalleeOK, Resume
<1>2. 1 \in 1 .. Len(JS[kind]) + 1 /\ kind \in {"upload", "view"}
  BY SoundHandler DEF JS
<1>3. Ensured(kind, 1) = {}
  BY DEF Ensured, CheckedAt, JS
<1>4. /\ at' = [at EXCEPT ![h] = [kind |-> kind, next |-> 1]]
      /\ onStack = Nobody /\ onStack' = h /\ UNCHANGED <<ptr, callee, lost, misused>>
  BY DEF Resume
<1>5. /\ at' \in [Handler -> [kind : {"idle", "upload", "view"}, next : Nat]]
      /\ at'[h].kind = kind /\ at'[h].next = 1
      /\ \A k \in Handler \ {h} : at'[k] = at[k]
  BY <1>2, <1>4 DEF HeapInv, TypeOK
<1>6. HandlerOK(h)'
  <2>1. at'[h] # Idle
    BY <1>2, <1>5 DEF Idle
  <2> QED
    BY <1>2, <1>3, <1>4, <1>5, <2>1 DEF HandlerOK, HeapInv
<1>7. /\ ptr' \in [Handler -> [Pointer -> Status]] /\ ~misused' /\ misused' \in BOOLEAN
  BY <1>4 DEF HeapInv, TypeOK
<1> QED
  BY <1>1, <1>4, <1>5, <1>6, <1>7, HandlerInv

LEMMA HeapAllot ==
  ASSUME HeapInv, NEW h \in Handler, Allot(h)
  PROVE  HeapInv'
<1>1. /\ InJS(h, "malloc") /\ UNCHANGED <<onStack, callee, lost, misused>>
      /\ at' = [at EXCEPT ![h].next = at[h].next + 1]
  BY DEF Allot, Proceed
<1>2. /\ h = onStack /\ callee = NoCall /\ at[h].kind \in DOMAIN JS
      /\ at[h].next \in 1 .. Len(JS[at[h].kind]) /\ Len(JS[at[h].kind]) \in Nat
      /\ SoundJS(at[h].kind, at[h].next, jOp(h)) /\ jOp(h).op = "malloc"
      /\ \A x \in Ensured(at[h].kind, at[h].next) : ptr[h][x] = "live"
  BY <1>1, CurrentJS
<1>3. PICK s \in {"null", "live"} :
         ptr' = [ptr EXCEPT ![h] =
                   [x \in Pointer |-> IF x \in jOp(h).of THEN s ELSE ptr[h][x]]]
  BY DEF Allot
<1>4. /\ ptr' \in [Handler -> [Pointer -> Status]]
      /\ \A k \in Handler \ {h} : ptr'[k] = ptr[k]
      /\ \A x \in Pointer : ptr'[h][x] = IF x \in jOp(h).of THEN s ELSE ptr[h][x]
  BY <1>3 DEF HeapInv, TypeOK, Status
<1>5. /\ at' \in [Handler -> [kind : {"idle", "upload", "view"}, next : Nat]]
      /\ at'[h].kind = at[h].kind /\ at'[h].next = at[h].next + 1
      /\ \A k \in Handler \ {h} : at'[k] = at[k]
  BY <1>1 DEF HeapInv, TypeOK
<1>6. HandlerOK(h)'
  <2>1. at'[h] # Idle
    BY <1>2, <1>5 DEF Idle, JS
  <2>2. \A x \in Pointer : ptr'[h][x] # "gone"
    BY <1>3, <1>4 DEF HandlerOK, HeapInv
  <2>3. \A x \in Ensured(at[h].kind, at[h].next + 1) : ptr'[h][x] = "live"
    <3>1. Ensured(at[h].kind, at[h].next + 1) \subseteq Pointer
      BY <1>2 DEF Ensured, CheckedAt, Pointer, JS
    <3> QED
      BY <1>2, <1>4, <3>1 DEF SoundJS
  <2> QED
    BY <1>2, <1>5, <2>1, <2>2, <2>3 DEF HandlerOK
<1>7. ~misused' /\ misused' \in BOOLEAN
  BY <1>1 DEF HeapInv, TypeOK
<1> QED
  BY <1>1, <1>2, <1>4, <1>5, <1>6, <1>7, HandlerInv

LEMMA HeapThrowIfNull ==
  ASSUME HeapInv, NEW h \in Handler, ThrowIfNull(h)
  PROVE  HeapInv'
<1>1. InJS(h, "unless") /\ UNCHANGED <<ptr, onStack, callee, lost, misused>>
  BY DEF ThrowIfNull
<1>2. /\ h = onStack /\ callee = NoCall /\ at[h].kind \in DOMAIN JS
      /\ at[h].next \in 1 .. Len(JS[at[h].kind]) /\ Len(JS[at[h].kind]) \in Nat
      /\ SoundJS(at[h].kind, at[h].next, jOp(h)) /\ jOp(h).op = "unless"
      /\ \A x \in Ensured(at[h].kind, at[h].next) : ptr[h][x] = "live"
  BY <1>1, CurrentJS
<1>3. CASE \E x \in jOp(h).of : ptr[h][x] = "null"
  <2>1. Throw(h)
    BY <1>3 DEF ThrowIfNull
  <2> QED
    BY <1>1, <1>2, <2>1, ThrowInv
<1>4. CASE ~ \E x \in jOp(h).of : ptr[h][x] = "null"
  <2>1. \A x \in jOp(h).of : ptr[h][x] = "live"
    BY <1>2, <1>4 DEF SoundJS, HeapInv, TypeOK, HandlerOK, Status
  <2>2. \A x \in Ensured(at[h].kind, at[h].next + 1) : ptr[h][x] = "live"
    BY <1>2, <2>1 DEF SoundJS
  <2>3. Proceed(h)
    BY <1>4 DEF ThrowIfNull
  <2> QED
    BY <1>1, <1>2, <2>2, <2>3, ProceedInv
<1> QED
  BY <1>3, <1>4
LEMMA HeapThrowOrNot ==
  ASSUME HeapInv, NEW h \in Handler, ThrowOrNot(h)
  PROVE  HeapInv'
<1>1. InJS(h, "throws") /\ UNCHANGED <<ptr, onStack, callee, lost, misused>>
  BY DEF ThrowOrNot
<1>2. /\ h = onStack /\ callee = NoCall /\ at[h].kind \in DOMAIN JS
      /\ at[h].next \in 1 .. Len(JS[at[h].kind])
      /\ SoundJS(at[h].kind, at[h].next, jOp(h)) /\ jOp(h).op = "throws"
      /\ \A x \in Ensured(at[h].kind, at[h].next) : ptr[h][x] = "live"
  BY <1>1, CurrentJS
<1>3. \A x \in Ensured(at[h].kind, at[h].next + 1) : ptr[h][x] = "live"
  BY <1>2 DEF SoundJS
<1>4. CASE Throw(h)
  BY <1>1, <1>2, <1>4, ThrowInv
<1>5. CASE Proceed(h)
  BY <1>1, <1>2, <1>3, <1>5, ProceedInv
<1> QED
  BY <1>4, <1>5 DEF ThrowOrNot

LEMMA HeapSuspend ==
  ASSUME HeapInv, NEW h \in Handler, Suspend(h)
  PROVE  HeapInv'
<1>1. /\ InJS(h, "await") /\ Proceed(h) /\ onStack' = Nobody
      /\ UNCHANGED <<ptr, callee, lost, misused>>
  BY DEF Suspend
<1>2. /\ h = onStack /\ callee = NoCall /\ at[h].kind \in DOMAIN JS
      /\ at[h].next \in 1 .. Len(JS[at[h].kind])
      /\ SoundJS(at[h].kind, at[h].next, jOp(h)) /\ jOp(h).op = "await"
      /\ \A x \in Ensured(at[h].kind, at[h].next) : ptr[h][x] = "live"
  BY <1>1, CurrentJS
<1>3. \A x \in Ensured(at[h].kind, at[h].next + 1) : ptr[h][x] = "live"
  BY <1>2 DEF SoundJS
<1> QED
  BY <1>1, <1>2, <1>3, ProceedInv

LEMMA HeapAnswered ==
  ASSUME HeapInv, NEW h \in Handler, Answered(h)
  PROVE  HeapInv'
<1>1. callee = NoCall
  BY HeapAssumption DEF HeapInv, CalleeOK, Answered
<1>2. /\ at[h] # Idle /\ onStack = Nobody /\ onStack' = h
      /\ UNCHANGED <<at, ptr, callee, lost, misused>>
  BY DEF Answered
<1>3. HandlerOK(h)'
  BY <1>2 DEF HandlerOK, HeapInv
<1>4. /\ at' \in [Handler -> [kind : {"idle", "upload", "view"}, next : Nat]]
      /\ ptr' \in [Handler -> [Pointer -> Status]] /\ ~misused' /\ misused' \in BOOLEAN
  BY <1>2 DEF HeapInv, TypeOK
<1> QED
  BY <1>1, <1>2, <1>3, <1>4, HandlerInv

\* What is passed to a C function has been checked.
LEMMA HeapCallC ==
  ASSUME HeapInv, NEW h \in Handler, CallC(h)
  PROVE  HeapInv'
<1>1. /\ InJS(h, "call") /\ UNCHANGED <<ptr, onStack, lost>>
      /\ misused' = (misused \/ \E x \in jOp(h).of : ptr[h][x] # "live")
      /\ callee' = [NoCall EXCEPT !.fn = jOp(h).fn, !.next = 1, !.out = jOp(h).out]
      /\ at' = [at EXCEPT ![h].next = at[h].next + 1]
  BY DEF CallC, Proceed
<1>2. /\ h = onStack /\ at[h].kind \in DOMAIN JS /\ Len(JS[at[h].kind]) \in Nat
      /\ at[h].next \in 1 .. Len(JS[at[h].kind])
      /\ SoundJS(at[h].kind, at[h].next, jOp(h)) /\ jOp(h).op = "call"
      /\ \A x \in Ensured(at[h].kind, at[h].next) : ptr[h][x] = "live"
  BY <1>1, CurrentJS
<1>3. ~misused' /\ misused' \in BOOLEAN
  <2>1. ~misused /\ ~ \E x \in jOp(h).of : ptr[h][x] # "live"
    BY <1>2 DEF HeapInv, SoundJS
  <2> QED
    BY <1>1, <2>1
<1>4. /\ at' \in [Handler -> [kind : {"idle", "upload", "view"}, next : Nat]]
      /\ at'[h].kind = at[h].kind /\ at'[h].next = at[h].next + 1
      /\ \A k \in Handler \ {h} : at'[k] = at[k]
  BY <1>1 DEF HeapInv, TypeOK
<1>5. /\ callee' \in CallType /\ callee'.fn = jOp(h).fn /\ callee'.next = 1
      /\ callee'.out = jOp(h).out /\ callee'.local = [x \in Local |-> "null"]
  BY <1>1, <1>2 DEF CallType, NoCall, SoundJS, Status
<1>6. jOp(h).fn \in DOMAIN C /\ jOp(h).out \notin Ensured(at[h].kind, at[h].next + 1)
  BY <1>2 DEF SoundJS
<1>7. CalleeOK'
  <2>1. callee'.next \in 1 .. Len(C[callee'.fn]) + 1
    BY <1>5, <1>6, SoundC
  <2>2. Under(callee'.local, Held(callee'.fn, callee'.next), Gone(callee'.fn, callee'.next))
    BY <1>5 DEF Under
  <2> QED
    BY <1>1, <1>2, <1>4, <1>5, <1>6, <2>1, <2>2 DEF CalleeOK
<1>8. TypeOK'
  BY <1>1, <1>2, <1>3, <1>4, <1>5, HeapAssumption DEF HeapInv, TypeOK, CallType
<1>9. ASSUME NEW k \in Handler
      PROVE  HandlerOK(k)'
  <2>1. CASE k = h
    <3>1. at'[h] # Idle
      BY <1>2, <1>4 DEF Idle, JS
    <3>2. \A x \in Ensured(at[h].kind, at[h].next + 1) : ptr[h][x] = "live"
      BY <1>2 DEF SoundJS
    <3> QED
      BY <1>1, <1>2, <1>4, <2>1, <3>1, <3>2 DEF HandlerOK, HeapInv
  <2>2. CASE k # h
    BY <1>1, <1>4, <2>2 DEF HandlerOK, HeapInv
  <2> QED
    BY <2>1, <2>2
<1> QED
  BY <1>1, <1>3, <1>7, <1>8, <1>9 DEF HeapInv

\* The finally block frees every pointer that is not null.
LEMMA HeapFinally ==
  ASSUME HeapInv, NEW h \in Handler, Finally(h)
  PROVE  HeapInv'
<1>1. /\ onStack = h /\ callee.fn = "none" /\ at' = [at EXCEPT ![h] = Idle]
      /\ ptr' = [ptr EXCEPT ![h] = [x \in Pointer |-> "null"]]
      /\ misused' = (misused \/ \E x \in Pointer : ptr[h][x] = "gone")
      /\ onStack' = Nobody /\ UNCHANGED <<callee, lost>>
  BY DEF Finally, HeldBy, Misuse
<1>2. callee = NoCall
  BY <1>1 DEF HeapInv, CalleeOK, C
<1>3. ~misused' /\ misused' \in BOOLEAN
  <2>1. ~misused /\ ~ \E x \in Pointer : ptr[h][x] = "gone"
    BY DEF HeapInv, HandlerOK
  <2> QED
    BY <1>1, <2>1
<1>4. /\ at' \in [Handler -> [kind : {"idle", "upload", "view"}, next : Nat]]
      /\ at'[h] = Idle /\ \A k \in Handler \ {h} : at'[k] = at[k]
  BY <1>1 DEF HeapInv, TypeOK, Idle
<1>5. /\ ptr' \in [Handler -> [Pointer -> Status]]
      /\ ptr'[h] = [x \in Pointer |-> "null"]
      /\ \A k \in Handler \ {h} : ptr'[k] = ptr[k]
  BY <1>1 DEF HeapInv, TypeOK, Status
<1>6. HandlerOK(h)'
  BY <1>1, <1>4, <1>5, HeapAssumption DEF HandlerOK, Live
<1> QED
  BY <1>1, <1>2, <1>3, <1>4, <1>5, <1>6, HandlerInv

-----------------------------------------------------------------------------
(* The theorems.                                                           *)

LEMMA HeapStep ==
  ASSUME HeapInv, [Next]_vars
  PROVE  HeapInv'
<1>1. CASE CStep
  BY <1>1, HeapAllocate, HeapDie, HeapReturnNull, HeapPassCheck, HeapFree,
     HeapReturnResult DEF CStep
<1>2. ASSUME NEW h \in Handler, JStep(h)
      PROVE  HeapInv'
  BY <1>2, HeapAllot, HeapThrowIfNull, HeapThrowOrNot, HeapCallC, HeapSuspend,
     HeapAnswered, HeapFinally DEF JStep
<1>3. ASSUME NEW h \in Handler, NEW kind \in DOMAIN JS, Resume(h, kind)
      PROVE  HeapInv'
  BY <1>3, HeapResume
<1>4. CASE UNCHANGED vars
  BY <1>4 DEF vars, HeapInv, TypeOK, HandlerOK, CalleeOK
<1> QED
  BY <1>1, <1>2, <1>3, <1>4 DEF Next

\* Every handler, and the C function above it, is always where its proof outline
\* says, whatever fails (wasm_wrappers.c, FileUpload.jsx, FileList.jsx).
THEOREM Outline == Spec => []HeapInv
<1> QED
  BY HeapInit, HeapStep, PTL DEF Spec

\* The variables keep their types: at most one C function runs, above a handler.
THEOREM HeapTypes == Spec => []TypeOK
<1>1. HeapInv => TypeOK
  BY DEF HeapInv
<1> QED
  BY <1>1, Outline, PTL

\* No block is freed twice or used after it was freed, however many handlers share
\* the heap and however small it is.
THEOREM MemorySafe == Spec => []NoMisuse
<1>1. HeapInv => NoMisuse
  BY DEF HeapInv, NoMisuse
<1> QED
  BY <1>1, Outline, PTL

\* A handler that ended holds nothing, and a C function that returned left nothing
\* but its result.
THEOREM NothingLost == Spec => []NothingLeft
<1>1. HeapInv => NothingLeft
  BY DEF HeapInv, NothingLeft, HandlerOK
<1> QED
  BY <1>1, Outline, PTL

===============================================================================
