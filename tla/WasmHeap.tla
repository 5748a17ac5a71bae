------------------------------- MODULE WasmHeap -------------------------------
(***************************************************************************)
(* The heap of the page's WASM module: the functions of wasm_wrappers.c    *)
(* and ibe.c, and the two handlers of FileUpload.jsx and FileList.jsx that *)
(* pass buffers to them.  JavaScript is on one stack: a handler runs until *)
(* it awaits, with at most one C function above it.  Any malloc may fail.  *)
(* A variable that holds a freed block is "gone".  What a C function and a *)
(* handler do with the heap, in order, is a sequence of operations.        *)
(***************************************************************************)
EXTENDS Sequences, FiniteSets, Naturals

CONSTANTS
    Handler,    \* activations of the two event handlers
    Nobody,     \* nobody runs
    Capacity    \* blocks the heap has room for

ASSUME HeapAssumption == Nobody \notin Handler /\ Capacity \in Nat

-----------------------------------------------------------------------------
(* The C functions.                                                        *)

\* element_init, pairing_init and the mallocs of ibe.c: DIE when there is no
\* memory, some after freeing the buffers of undo.
Must(x)         == [op |-> "must", of |-> {x}, undo |-> {}]
MustOr(x, undo) == [op |-> "must", of |-> {x}, undo |-> undo]

\* A malloc of the wrappers: without memory, undo is freed and NULL returned.
Try(x, undo)    == [op |-> "try", of |-> {x}, undo |-> undo]

\* A test of arguments, lengths or bytes that may make the function return.
Check(undo)     == [op |-> "check", of |-> {}, undo |-> undo]

\* element_clear, pairing_clear and free.
Clear(xs)       == [op |-> "free", of |-> xs, undo |-> {}]

SignLocals == {"pairing", "d", "h", "sigma"}
wasm_sign_buffer ==
    << Check({}), Must("pairing"), Must("d"), Must("h"), Must("sigma"),
       Must("d"), Check(SignLocals),                        \* deserialize
       Must("h"),                                           \* hash_message_to_Zr
       Check(SignLocals), Try("out", SignLocals), Check(SignLocals \cup {"out"}),
       Clear(SignLocals) >>

\* Mutant: Encrypt clears the caller's U as well.
EncryptClearsU ==
    << Must("Q"), Must("r"), Must("U"), Must("g_T"), Must("g_T_bytes"),
       MustOr("mask", {"g_T_bytes"}), Must("input_buffer"), Clear({"input_buffer"}),
       Clear({"g_T_bytes"}), Clear({"mask", "Q", "r", "g_T", "U"}) >>

Encrypt ==
    << Must("Q"), Must("r"), Must("U"), Must("g_T"), Must("g_T_bytes"),
       MustOr("mask", {"g_T_bytes"}),
       Must("input_buffer"), Clear({"input_buffer"}),       \* DeriveKey
       Clear({"g_T_bytes"}), Clear({"mask", "Q", "r", "g_T"}) >>

EncryptLocals == {"pairing", "g", "P_pub", "U"}
EncryptAll    == EncryptLocals \cup {"plaintext_buffer", "V"}
wasm_encrypt_buffer ==
    << Check({}), Must("pairing"), Must("g"), Must("P_pub"), Must("U"),
       Must("g"), Must("P_pub"), Check(EncryptLocals),      \* deserialize
       Check(EncryptLocals), Try("plaintext_buffer", EncryptLocals),
       Try("V", EncryptLocals \cup {"plaintext_buffer"}) >>
    \o Encrypt \o
    << Check(EncryptAll), Try("out", EncryptAll), Check(EncryptAll \cup {"out"}),
       Clear(EncryptAll) >>

Decrypt ==
    << Must("g_T"), Must("g_T_bytes"), MustOr("mask", {"g_T_bytes"}),
       Must("input_buffer"), Clear({"input_buffer"}),       \* DeriveKey
       Clear({"g_T_bytes"}), Clear({"mask", "g_T"}) >>

DecryptLocals == {"pairing", "d", "U"}
wasm_decrypt_buffer ==
    << Check({}), Must("pairing"), Must("d"), Must("U"), Check(DecryptLocals),
       Must("d"), Check(DecryptLocals),                     \* deserialize
       Check(DecryptLocals), Try("out", DecryptLocals) >>
    \o Decrypt \o << Clear(DecryptLocals) >>

VerifyLocals == {"pairing", "g", "P_pub", "Q", "h", "sigma", "temp_G1", "lhs_GT", "rhs_GT"}
wasm_verify_buffer ==
    << Check({}), Must("pairing"), Must("g"), Must("P_pub"), Must("Q"), Must("h"),
       Must("sigma"), Must("temp_G1"), Must("lhs_GT"), Must("rhs_GT"),
       Must("g"), Must("P_pub"), Check(VerifyLocals),       \* deserialize
       Must("sigma"), Check(VerifyLocals),                  \* deserialize
       Must("Q"), Must("h"),                                \* hashes
       Clear(VerifyLocals) >>

C == [sign |-> wasm_sign_buffer, encrypt |-> wasm_encrypt_buffer,
      decrypt |-> wasm_decrypt_buffer, verify |-> wasm_verify_buffer]

Local == EncryptAll \cup DecryptLocals \cup SignLocals \cup VerifyLocals
           \cup {"out", "r", "g_T", "g_T_bytes", "mask", "input_buffer"}

-----------------------------------------------------------------------------
(* The handlers, from the await before their first malloc.                 *)

Malloc(x)         == [op |-> "malloc", of |-> {x}]
Unless(xs)        == [op |-> "unless", of |-> xs]
Pass(x)           == << Malloc(x), Unless({x}) >>           \* passBufferToWasm
Call(fn, xs, out) == [op |-> "call", of |-> xs, fn |-> fn, out |-> out]
Throws            == [op |-> "throws", of |-> {}]
Await             == [op |-> "await", of |-> {}]

handleUploadAndEncrypt ==
    << Malloc("sigLen"), Malloc("encULen"), Malloc("encTotalLen"),
       Unless({"sigLen", "encULen", "encTotalLen"}) >>
    \o Pass("privKey") \o Pass("msg") \o Pass("pubParams") \o Pass("recipientId") \o
    << Call("sign", {"privKey", "msg", "sigLen"}, "sig"), Unless({"sig"}), Throws,
       Call("encrypt", {"pubParams", "recipientId", "msg", "sig", "encULen",
                        "encTotalLen"}, "enc"), Unless({"enc"}), Throws,
       Await >>

handleDecryptAndVerify ==
    << Malloc("decLen"), Malloc("sigLen"), Unless({"decLen", "sigLen"}) >>
    \o Pass("privKey") \o Pass("ciphertext") \o
    << Call("decrypt", {"privKey", "ciphertext", "decLen", "sigLen"}, "dec"),
       Unless({"dec"}), Throws >>
    \o Pass("pubParams") \o Pass("senderId") \o Pass("msgData") \o Pass("sigData") \o
    << Call("verify", {"pubParams", "senderId", "msgData", "sigData"}, "verdict") >>

JS == [upload |-> handleUploadAndEncrypt, view |-> handleDecryptAndVerify]

Pointer == {"sigLen", "encULen", "encTotalLen", "privKey", "msg", "pubParams",
            "recipientId", "sig", "enc", "decLen", "ciphertext", "dec", "senderId",
            "msgData", "sigData"}

-----------------------------------------------------------------------------
VARIABLES
    at,      \* each handler's kind and next operation
    ptr,     \* its pointers
    onStack, \* the handler that runs
    callee,  \* the C function above it
    lost,    \* blocks no variable points to any more, by how they were lost
    misused  \* a block was freed twice or used after it was freed

vars == <<at, ptr, onStack, callee, lost, misused>>

Status  == {"null", "live", "gone"}
Idle    == [kind |-> "idle", next |-> 0]
NoCall  == [fn |-> "none", next |-> 0, out |-> "none", local |-> [x \in Local |-> "null"]]
NoPtr   == [x \in Pointer |-> "null"]

TypeOK ==
    /\ at \in [Handler -> [kind : {"idle", "upload", "view"}, next : Nat]]
    /\ ptr \in [Handler -> [Pointer -> Status]]
    /\ onStack \in Handler \cup {Nobody}
    /\ callee \in [fn : {"none"} \cup DOMAIN C, next : Nat,
                   out : {"none", "verdict"} \cup Pointer, local : [Local -> Status]]
    /\ callee.fn # "none" => onStack # Nobody
    /\ lost \in [{"again", "return", "exit"} -> Nat]
    /\ misused \in BOOLEAN

Init ==
    /\ at = [h \in Handler |-> Idle]
    /\ ptr = [h \in Handler |-> NoPtr]
    /\ onStack = Nobody
    /\ callee = NoCall
    /\ lost = [c \in {"again", "return", "exit"} |-> 0]
    /\ misused = FALSE

Live(f)  == {x \in DOMAIN f : f[x] = "live"}
used     == lost["again"] + lost["return"] + lost["exit"] + Cardinality(Live(callee.local))
              + Cardinality({p \in Handler \X Pointer : ptr[p[1]][p[2]] = "live"})
HasRoom  == used < Capacity

\* Freeing the blocks of some variables, and whether each was there.
Freed(f, xs)   == [x \in DOMAIN f |-> IF x \in xs THEN "gone" ELSE f[x]]
Misuse(f, xs)  == misused' = (misused \/ \E x \in xs : f[x] = "gone")
LoseAs(how, n) == lost' = [lost EXCEPT ![how] = @ + n]

-----------------------------------------------------------------------------
(* Steps of the C function that runs.                                      *)

cOp    == C[callee.fn][callee.next]
locals == callee.local
InC(do) == callee.fn # "none" /\ callee.next <= Len(C[callee.fn]) /\ cOp.op = do

Advance(f) == callee' = [callee EXCEPT !.local = f, !.next = @ + 1]

\* Back in the handler: nothing points to the locals now, but to a result.
Return(left, result) ==
    /\ LoseAs("return", Cardinality(
           Live(left) \ IF result = "live" THEN {"out"} ELSE {}))
    /\ ptr' = IF callee.out \in Pointer
              THEN [ptr EXCEPT ![onStack][callee.out] = result] ELSE ptr
    /\ callee' = NoCall

\* DIE and pbc_die: exit() throws through the C frames into the handler.
Exit(left) ==
    /\ LoseAs("exit", Cardinality(Live(left)))
    /\ callee' = NoCall
    /\ at' = [at EXCEPT ![onStack].next = Len(JS[at[onStack].kind]) + 1]
    /\ UNCHANGED ptr

\* An element that is initialised again loses its first memory.
Allocate ==
    /\ InC("must") \/ InC("try")
    /\ HasRoom
    /\ LoseAs("again", Cardinality(cOp.of \cap Live(locals)))
    /\ Advance([x \in Local |-> IF x \in cOp.of THEN "live" ELSE locals[x]])
    /\ UNCHANGED <<at, ptr, onStack, misused>>

Die ==
    /\ InC("must")
    /\ Misuse(locals, cOp.undo)
    /\ Exit(Freed(locals, cOp.undo))
    /\ UNCHANGED onStack

ReturnNull ==
    /\ InC("try") \/ InC("check")
    /\ Misuse(locals, cOp.undo)
    /\ Return(Freed(locals, cOp.undo), "null")
    /\ UNCHANGED <<at, onStack>>

PassCheck ==
    /\ InC("check")
    /\ Advance(locals)
    /\ UNCHANGED <<at, ptr, onStack, lost, misused>>

Free ==
    /\ InC("free")
    /\ Misuse(locals, cOp.of)
    /\ Advance(Freed(locals, cOp.of))
    /\ UNCHANGED <<at, ptr, onStack, lost>>

ReturnResult ==
    /\ callee.fn # "none" /\ callee.next > Len(C[callee.fn])
    /\ Return(locals, locals["out"])
    /\ UNCHANGED <<at, onStack, misused>>

CStep == Allocate \/ Die \/ ReturnNull \/ PassCheck \/ Free \/ ReturnResult

-----------------------------------------------------------------------------
(* Steps of a handler.                                                     *)

jOp(h) == JS[at[h].kind][at[h].next]
InJS(h, do) ==
    /\ onStack = h /\ callee.fn = "none"
    /\ at[h].next <= Len(JS[at[h].kind]) /\ jOp(h).op = do

Proceed(h) == at' = [at EXCEPT ![h].next = @ + 1]

\* Mutant: a failed handler starts again.
ThrowRetry(h) == at' = [at EXCEPT ![h].next = 1]

Throw(h)   == at' = [at EXCEPT ![h].next = Len(JS[at[h].kind]) + 1]

\* The file is read, or the document downloaded.
Resume(h, kind) ==
    /\ onStack = Nobody /\ at[h] = Idle
    /\ onStack' = h
    /\ at' = [at EXCEPT ![h] = [kind |-> kind, next |-> 1]]
    /\ UNCHANGED <<ptr, callee, lost, misused>>

Allot(h) ==
    /\ InJS(h, "malloc")
    /\ \E s \in {"null"} \cup (IF HasRoom THEN {"live"} ELSE {}) :
          ptr' = [ptr EXCEPT ![h] =
                    [x \in Pointer |-> IF x \in jOp(h).of THEN s ELSE @[x]]]
    /\ Proceed(h)
    /\ UNCHANGED <<onStack, callee, lost, misused>>

ThrowIfNull(h) ==
    /\ InJS(h, "unless")
    /\ IF \E x \in jOp(h).of : ptr[h][x] = "null" THEN Throw(h) ELSE Proceed(h)
    /\ UNCHANGED <<ptr, onStack, callee, lost, misused>>

ThrowOrNot(h) ==
    /\ InJS(h, "throws")
    /\ Throw(h) \/ Proceed(h)
    /\ UNCHANGED <<ptr, onStack, callee, lost, misused>>

\* Mutant: the call is asynchronous.
CallAsync(h) ==
    /\ InJS(h, "call")
    /\ callee' = [NoCall EXCEPT !.fn = jOp(h).fn, !.next = 1, !.out = jOp(h).out]
    /\ onStack' = Nobody
    /\ Proceed(h)
    /\ UNCHANGED <<ptr, lost, misused>>

CallC(h) ==
    /\ InJS(h, "call")
    /\ misused' = (misused \/ \E x \in jOp(h).of : ptr[h][x] # "live")
    /\ callee' = [NoCall EXCEPT !.fn = jOp(h).fn, !.next = 1, !.out = jOp(h).out]
    /\ Proceed(h)
    /\ UNCHANGED <<ptr, onStack, lost>>

\* apiClient.post: others run until it is answered.
Suspend(h) ==
    /\ InJS(h, "await")
    /\ onStack' = Nobody
    /\ Proceed(h)
    /\ UNCHANGED <<ptr, callee, lost, misused>>

Answered(h) ==
    /\ onStack = Nobody /\ at[h] # Idle
    /\ onStack' = h
    /\ UNCHANGED <<at, ptr, callee, lost, misused>>

\* Mutant: one of the pointers is left out.
HeldByMost == Pointer \ {"recipientId"}

\* The pointers that the finally blocks free.
HeldBy == Pointer

\* The finally block: whatever is not null is freed.
Finally(h) ==
    /\ onStack = h /\ callee.fn = "none"
    /\ at[h].next > Len(JS[at[h].kind])
    /\ Misuse(ptr[h], HeldBy)
    /\ ptr' = [ptr EXCEPT ![h] = [x \in Pointer |-> IF x \in HeldBy THEN "null" ELSE @[x]]]
    /\ at' = [at EXCEPT ![h] = Idle]
    /\ onStack' = Nobody
    /\ UNCHANGED <<callee, lost>>

JStep(h) ==
    \/ Allot(h) \/ ThrowIfNull(h) \/ ThrowOrNot(h) \/ CallC(h) \/ Suspend(h)
    \/ Answered(h) \/ Finally(h)

Next ==
    \/ CStep
    \/ \E h \in Handler : JStep(h) \/ \E kind \in DOMAIN JS : Resume(h, kind)

Spec == Init /\ [][Next]_vars

\* What is on the stack runs on; the browser ends every request, and the event
\* loop delivers each answer, whatever else keeps the page busy.
FairSpec ==
    /\ Spec
    /\ WF_vars(CStep)
    /\ \A h \in Handler : WF_vars(JStep(h)) /\ SF_vars(Answered(h))

-----------------------------------------------------------------------------
(* Properties.                                                             *)

\* Whichever malloc, test or request fails, in two handlers at once, no block is
\* freed twice, and no freed or missing one is passed to a C function
\* (FileUpload.jsx:206-214, FileList.jsx:233-241, the error paths of
\* wasm_wrappers.c).
NoMisuse == ~misused

\* A handler that has ended holds no block, and a C function that returns leaves
\* nothing but its result, on success and on every error path; what it loses is
\* lost by initialising an element again, or by exit.
NothingLeft ==
    /\ lost["return"] = 0
    /\ \A h \in Handler : at[h] = Idle => Live(ptr[h]) = {}

\* A handler ends whatever fails: the exit of the C program, too, gets to its
\* finally block (FileUpload.jsx:199-217, bls_ibe_util.h:14).
HandlersEnd == \A h \in Handler : at[h] # Idle ~> at[h] = Idle
===============================================================================
