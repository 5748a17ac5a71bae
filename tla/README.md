# Secure document sharing: a TLA+ model

The repository is a small platform for sharing signed and encrypted documents inside one
domain (`@iiita.ac.in`). A member registers with an e-mail OTP, the server derives an
identity-based private key for the address, the browser fetches that key, signs and encrypts
documents with it in WebAssembly, and the recipient's browser decrypts and verifies them.
This directory holds TLA+ modules translated from that code, the TLC configurations that
check them, and machine-checked (TLAPS) proofs about them.

## 1. Inventory

| Part | Source | State it keeps | Operations |
|---|---|---|---|
| Registration | `server/controllers/authController.js` 36-226, `server/utils/executeKeygen.js`, `server/utils/sendEmail.js`, `server/models/*.js` | collections `pendingregistrations`, `users`; key files in `NATIVE_CRYPTO_DIR` and `USER_KEYS_DIR` | `initiateRegistration`, `verifyRegistration`, `executeKeygen`, TTL reaper |
| Key generation process | `crypto-c/src/keygen.c`, `save_user_private_key` in `bls_ibe_util.c` 164-180 | one file per address, written in place | open (truncate), write, exit |
| Login and key service | `authController.loginUser`, `middleware/authMiddleware.js`, `controllers/userController.js` | none (reads `users` and key files) | login, authenticate a request, `getPrivateKey` |
| Document store | `controllers/filecontroller.js`, `models/Document.js`, `routes/fileRoutes.js` | collection `documents` | upload, list received, download |
| Browser session | `client/src/context/AuthContext.jsx`, `main.jsx`, `App.jsx`, `ProtectedRoute.jsx` | token in `localStorage`; per `AuthProvider`: token, user, private key, loading flag, error | initial load, login, logout, `fetchPrivateKey` |
| Upload form | `client/src/components/FileUpload.jsx` | form fields, busy flag, WASM buffers | sign, encrypt, upload |
| Document viewer | `client/src/components/FileList.jsx` | the selected document, its decrypted buffer, name and verdict | decrypt and verify, download |
| Registration page | `client/src/pages/Register.jsx` | which form is shown, the address it is about, loading flag, a timer | submit details, submit OTP, go back |
| Dashboard, login | `client/src/pages/{Dashboard,Login}.jsx` | WASM module, parameters, list of received documents | load, fetch list, log in |
| Cryptographic core | `crypto-c/src/ibe.c`, `bls_ibe_util.c`, `src/wasm_wrappers.c` (the deployed wrappers; `crypto-c/src/wasm_wrappers.c` is an older copy) | WASM heap | sign, encrypt, decrypt, verify |
| Command-line tools | `crypto-c/src/{setup,encrypt,decrypt,sign,verify}.c` | files | master key setup, offline variants of the above |

How the parts interact: the browser calls the Express routes over HTTP with a JWT; handlers
share MongoDB and two directories; `verifyRegistration` starts the `keygen` process, whose
only result is a file that the server then renames; the key service reads the renamed file;
the browser hands the key to the WASM functions; documents travel through the document store
with the sender's and the recipient's addresses beside the ciphertext. The signer's and the
recipient's addresses are also the identities of the cryptographic scheme, so the strings must
agree everywhere.

What is hard here. Handlers are interleaved at every `await`: the check of one and the write
of another are apart (`authController.js` 58/66/89 and 139/192). Key generation runs in
processes of their own that all write the same two paths for an address, outlive a crash of
the server and may be killed by a timeout. Answers reach the browser later than the state that
asked for them (login, logout, an older fetch, another document). A multi-step registration
may fail or crash between any two writes, with no transaction. An answer may be lost while its
handler runs on, and the user tries again. In the WASM module any allocation may fail, `DIE`
ends the C program from within any depth of calls, and each call loses some memory for good.
The command-line tools may be stopped between and inside the writes of files that belong
together. Lengths pass through `size_t`, `int` and `unsigned int`.

What makes each part correct (section 4 says where the code falls short of it):

- Registration: one account and one counting OTP for an address; an account only from an OTP
  submitted in time; the account has its key file; an OTP is used up only for a reason; every
  request is answered.
- Key service: a client gets the key of the account the token names, and only that.
- Session: the key in use is the key of the user shown; no key survives a logout; loading ends.
- Document store and viewer: only the recipient gets a document; a document offered for saving
  was verified against its sender; the recipient a sender names can find the document.
- Registration page: a success is reported once, and is one; the form for the OTP is shown
  only when there is an OTP in the mail; every wait ends.
- Cryptographic core: decryption undoes encryption, verification accepts exactly the signer's
  signatures, buffers are released exactly once, lengths fit their types.
- Command-line tools: keys, signatures and ciphertexts of different setups are never taken for
  one another, whichever run was stopped.

## 2. Plan

Modules, in the order of their importance to the system:

| # | Module | Models | State |
|---|---|---|---|
| 1 | `Enrolment` | what registration promises (abstract) | done |
| 2 | `Registration` | both handlers, key generation, TTL reaper, crashes; implements 1 | done, proved |
| 3 | `Session` | providers, token, key requests of the browser | done, proved |
| 4 | `Sharing` | dashboard, upload, viewer, document store; extends 3, implements 11 | done, proved |
| 5 | `KeyService` | login, `getPrivateKey`; extends 2 | done, proved |
| 6 | `RegisterPage` | the two stages of `Register.jsx`, lost answers, retries; extends 2 | done, proved |
| 7 | `Provenance` | what the command-line tools promise of their files (abstract) | done |
| 8 | `CommandLine` | the six tools, their files, the scheme as arithmetic on exponents; implements 7 | done, proved |
| 9 | `Mask` | `DeriveKey`, `Encrypt`'s and `Decrypt`'s masking, the split of a ciphertext, with the widths of the integers | done, proved |
| 10 | `WasmHeap` | allocations and releases of the wrappers and of the two handlers over every failing step | done, proved |
| 11 | `Mailbox` | what the browser side promises of documents (abstract) | done |

What could still be added: posting and saving an upload as two steps; the loading of the WASM
module and of the parameters in `Dashboard.jsx`.

## 3. Modules and the code

`Registration` has one `Request` slot per concurrent HTTP request. `pc[r]` names the `await`
at which the handler of slot `r` is suspended (`"idle"`: no handler); an action is everything
a handler does from one await to the next, so whatever JavaScript runs without interruption is
one step, and everything else may happen in between. `req` and `doc` are the handler's
locals. `pending` and `users` are the two collections; the unique indexes are conditions of
`SavePending` and `SaveUser`. A rejected call is `CallRejected` when it had no effect, and a
second disjunct of the action when it had one. `child[r]`, `ident[r]` and `fd[r]` are the keygen
process a slot started: they survive `Crash`, and a stream follows its file through a rename.
`nativeKey` and `userKey` are the files of an address before and after the rename. Passwords
stand for their hashes. `now` counts units of ten minutes, so `OtpLifetime` and `TtlDelay`
(`index: { expires: '10m' }`) are both 1; the comment at `PendingRegistration.js:29` speaks of
a delay of 0, which the code does not have and the proof of `OfferStaysRedeemable` excludes.

`Enrolment` knows offers, submitted OTPs, granted offers and accounts. `Registration`'s
`Enrolment == INSTANCE Enrolment WITH ...` maps pending documents to offers, handlers between
`findOne` and the check to reviews, and handlers from there to the save of the account to
granted offers.

`KeyService` adds slots for login and key requests beside all of `Registration` (`Register` is
`Registration`'s `Next`; a crash takes the service's handlers too). A token is the member whose
account it was made of. `AccessKey` and `ReadKey` are the two awaits in which `getPrivateKey`
looks at the file.

`Session` has two providers per tab, `Inner(t)` (used by pages) and `Outer(t)` (mounted by
`main.jsx` around the former, and loading the session as well). `ctx[p]` is the React state of
a provider, `stored` is `localStorage.token`, `call` the key requests in flight with the
provider that awaits each. `Load` is the effect of both providers; `KeyArrives`, `FetchDenied`
and `FetchFails` are the branches of `fetchPrivateKey`. `IncompleteKeys` says whether the server
may answer with an empty key, which it may (a file that keygen has truncated and not yet written,
see `IncompleteIsTransient`). The provider stores it as the key, with no error: it is `Empty` in
`ctx`, which the buttons take for no key. `SessionTab` and `Sharing` run with such answers.

`Sharing` extends `Session`. `page[t]` is the Dashboard with its FileUpload, `view[t]` the
FileList, `job` the handlers suspended at an await: reading the file to upload, or downloading
a document. A handler keeps the key it took when its button was pressed and runs on after its
component is unmounted (`live`). A document opens with the key of the identity it was encrypted
for and verifies for the identity whose key signed it, which is all the pages depend on.
`LoginStep` is a login that is answered when the user may already be on the Dashboard of an
older session.

`Mailbox` knows the documents posted, whose session each tab is and what it shows. `Sharing`'s
`Mail == INSTANCE Mailbox WITH ...` maps the stored documents, the token of the inner provider and
the viewer's buffer to them.

`RegisterPage` extends `Registration`: every request comes from a page. `waitsFor[p]` is the
slot whose answer the page awaits (`isLoading`). `Lose` is a connection that breaks at any
moment: the handler runs on and its answer is gone. `mailbox` holds the OTPs whose mail
`sendMail` reports as sent; any OTP may be submitted, as one mailed by a failing call or as a guess. `leaving[p]` is the timer of line 118.

`ToolFiles` names the files of one directory, with the names `decrypt` derives: `BaseName` cuts
at the last dot before the identity's last part, as `extract_base_filename` does.
`Provenance` says of what each file may have been made. `CommandLine` is the tools: an action computes a tool's output files
(`todo`), `OpenFile` and `WriteFile` write them one by one, `Stop` ends the tool anywhere, and
leaves the file it writes empty or cut short. An element of a group is its exponent, `Mul` the
product of exponents, so `e(Q, P_pub)^r` is `Mul(Mul(H[id], P), r)`; what is assumed of `Mul` are
the laws of a commutative group, and that hashes do not collide by accident.

`Mask` has the bytes of one message: a byte of the mask is its place in the stream of hashes,
or `Unset`, what `malloc` returned. `Size`, `UInt` and `Int32` are the widths of `size_t`,
`unsigned int` and `int`; a sum that overflows `int` wraps or is compared without it (`Sums`). A
copy beyond the buffer is the step to `"wild"`.

`WasmHeap` has the C functions and the handlers as sequences of operations on the heap, in the
order of the code: `Must` (PBC's allocations and the mallocs of `ibe.c`, which `DIE`), `Try`
(mallocs of the wrappers, with what their error branch frees), `Check` (any test that returns),
`Clear`. JavaScript has one stack: a handler runs until it awaits. `lost` counts blocks nothing
points to, by how they were lost; the loss never ends, so `Capacity` is reached.

## 4. Runs

| Run | Bounds | Question |
|---|---|---|
| `RegistrationRace` | 1 address, 2 requests, 2 passwords, 2 OTPs, 2 documents, 3 points in time, 1 crash, failing keygens | uniqueness, ownership of the account, who uses up an OTP that counts, refinement of `Enrolment` |
| `RegisterPage` | 2 pages, 1 address, 2 requests, 1 OTP, 2 documents, failing keygens | what the pages report; every wait ends |
| `KeyServiceRead` | 1 member with two spellings, 2 requests, 2 passwords, 1 client, 1 crash, no failing keygen | canonical addresses; the key file is there, is completed, and is what a client is served |
| `SessionTab` | 1 tab, 2 members, 3 calls, keys that may be empty | loading, settled sessions, the stored token and who takes it away |
| `Sharing` | 1 tab, 2 members, 1 call, keys that may be empty, 2 handlers, 2 documents | what is shown, to whom; two handlers on one view; refinement of `Mailbox` |
| `CommandLine` | 2 identities (one with a dot), 1 message of 2 texts, 2 setups, 2 generators, 7 runs of tools, exponents modulo 31 | who is accepted and who can open; refinement of `Provenance` |
| `Mask` | hashes of 4 bytes, `int` to 15, `size_t` to 63, lengths 0 to 63 | for the lengths of `Safe`: each byte of the mask once, the round trip; for all: every loop ends |
| `WasmHeap` | 2 handlers, room for 30 blocks | nothing freed twice or used after it was freed, nothing held, every handler ends |

The bounds: every race of `Registration` found by hand needs two handlers of one address, and
three points in time are before, at and after the expiry of an OTP and of the TTL. `MaxPending = 2`
lets an initiation replace an earlier one. In `KeyServiceRead` the crash leaves a keygen process
behind, which writes the file while a handler of the restarted server installs it; a slot is free
only when its process has ended, so at most two processes write one file. `RegisterPage` has neither the clock nor a crash,
which `RegistrationRace` has: what it asks is about lost answers and retries, and the proofs of
its safety properties hold with both. In `Session` the load of a tab takes two calls, and
the third lets a login overtake them. In `Sharing` two documents and two handlers are what the
selection can confuse, and one call in flight is a login or a key request that the handlers do
not wait for. Seven runs of tools are the shortest that use a key, a signature or a ciphertext of an older setup:
setup, text, keygen, sign, encrypt, setup again and decrypt. In `Mask` the lengths go past
the largest `int` and past the sum that overflows `size_t`. Thirty blocks are the pointers of two
suspended uploads (nine each) and the locals of a call; every operation of each function then
meets a full heap. Symmetry is used only where slots, passwords, OTPs or members are
interchangeable and no liveness property is checked. Deadlock is checked except where the
system may stop: in `RegisterPage` both pages may have been left, in `CommandLine` the runs are
used up, in `Mask` the message is opened.

The other four runs expect a violation; each finds one disagreement between the code and what
its comments say (`findings` in `PROJECT.json`):

| Run | Bounds | Shows |
|---|---|---|
| `RegistrationKeyLost` | 1 address, 2 requests, failing keygens | the clean-up of a failed keygen deletes the complete key of an existing account |
| `SessionStaleKey` | 1 tab, 2 members, 3 calls | the answer of an earlier session's key request becomes the key of the next one |
| `SharingSelected` | 1 tab, 2 members, 2 handlers, 2 documents | an earlier document's content under the name of the one selected last |
| `SharingSender` | 1 tab, 2 members, 1 handler, 1 document | a document stored as sent by a member who did not choose it |

`AccountKeyStays` looks at the step that loses a complete key, since `AccountHasKeyFile` fails on
a shorter path once keygen processes may fail: one handler installs the file that another one's
process has still open, the account is saved, and then that process is killed by its timeout
(`executeKeygen.js:35`), so that the file in `USER_KEYS_DIR` stays incomplete.

Shorter paths of the same kind, seen while modelling and not kept as runs: the incomplete file
that the clean-up of a failed keygen means to delete stays in the other directory
(`executeKeygen.js:41`); a key request that is answered after a logout brings the key back
(`AuthContext.jsx:71`, beside the comment of line 43); the outer provider's logout takes the token
of the inner one's session (`AuthContext.jsx:40`; `OnlyOuterDenialStrips` says that nothing else does); a recipient typed in capitals is stored as typed
and matches no account (`filecontroller.js:34`); a key file is served with status 200 while a second
verification rewrites it (`userController.js:58`; `IncompleteIsTransient` says what limits this), and
the session that receives it waits for nothing with neither a usable key nor an error
(`AuthContext.jsx:69-72`): the list says "Private key not yet available", though nothing is on its
way (`FileList.jsx:283`; `SettledSession` says that there is no other way to such a session); `decrypt` cuts
the name of its output at the second last dot, which is inside the receiver's address
(`decrypt.c:26`, beside the comment of line 11); the elements that `wasm_encrypt_buffer` initialises
"to ensure they are cleared" (line 200) are initialised again by the functions it calls, and
the first memory is lost (`WasmHeap`'s `lost["again"]`); from 2^31 bytes on the "full-length mask" of
`ibe.c:60` is never filled (in `Mask`: `derived_key_len` is negative and every byte is `Unset`).

Fairness is stated only where liveness is checked. `FairServiceSpec` and `FairPageSpec` assume
that a suspended handler's await settles and that the operating system runs the keygen
processes: the MongoDB driver, bcrypt and nodemailer settle their promises, and `execFile` kills
its child after 5 s; and `FairPageSpec` that an answer arrives, or its connection is found
broken. `FairSessionSpec` assumes that the browser ends every call. `WasmHeap`'s `FairSpec`
assumes that what is on the stack runs on (weak fairness) and that the event loop delivers each
settled promise, whatever other handlers run in between (strong fairness of `Answered`, which is
disabled whenever one of them runs). `Mask`'s lets the program run. Nothing is assumed of
users, clients, the clock, the TTL reaper or crashes.

## 5. Proofs

All theorems hold for any number of requests, addresses, tabs, members, clients, handlers and
documents, from the assumptions the modules state about their constants (`Lower` is idempotent
and fixes members; `Null` is none of the values it is compared with; exponents form a
commutative group; widths and bounds are numbers).

- `RegistrationProofs`. `TypeCorrect` needs `LocalsOK`: what a suspended handler holds (a
  document at the awaits where it is used, no child unless it waits for it). `Uniqueness` is
  inductive with it. `KeyFiles`: `AccountHasKeyFile` alone is not inductive, since the file may
  be incomplete; `KeyInv` adds that streams belong to files, that an incomplete file has a
  writer, and that an installed file stays from before its account is saved. The delicate step
  is `Install`, where streams follow the file, or lose it. The theorem has the hypothesis
  `~KeygenMayFail`, which it needs: a failing keygen breaks it by the path of section 4 and by that
  of `RegistrationKeyLost`. `AccountKeys` is what remains when keygen processes fail: the clean-up of
  one started again for an account is the only step that removes a complete key.
  `Refinement`: each action maps to an action of `Enrolment` or leaves the mapped state alone
  (`MappingInv` holds the facts about handlers that the mapping needs). `Redeemable`: document ids
  are unique and below `nextId` (`IdInv`), and a handler that is about to delete by id has a reason:
  the document is expired or its address has an account (`ReasonInv`); so what a handler removes is
  the document it verified. Its hypothesis is `TtlDelay > 0`.
- `KeyServiceProofs`. The service leaves `Registration`'s variables alone
  (`ServiceImplementsRegistration`), so `KeyInv` holds beside it. With the invariant that tokens
  and handlers belong to accounts (accounts are never removed), a token is never answered 404
  (`KeyServed`), and an incomplete file that is served has a process that completes it
  (`IncompleteServed`). Both have the hypothesis `~KeygenMayFail`.
- `SessionProofs`. `LoadingCorrect` for any number of tabs; for one tab `OneTabStored`: no
  request bears another user's token, `OneTabStripped`, and `OneTabSettled`: a settled session has a
  key, be it empty, or an error; `OneTabReady` says that the key is a member's if keys are not served
  incomplete. With two tabs a login in one changes the token the other
  one sends. `KeyOfUser`: in every execution in which the calls a provider awaits bear the token of
  one user (`CallsAgree`), the key in use is that of the user shown. `SessionStaleKey` violates it,
  so this says that overlapping calls are the only way.
- `SharingProofs`. `SharingImplementsSession`; `DownloadCorrect` and `BusyCorrect` by the
  invariant `ShareInv` (what shows "Processing" has a live handler, a live handler belongs to a
  mounted page, and a page that is not mounted shows nothing); `ShownSigned` for any number of tabs.
  For one tab `ShownCorrect`, by `TokensOK`: the live handler of a view bears the token of the
  session, since every change of session takes FileList down; and `MailboxKept`, the refinement, by
  `TokensOK` and `StoreOK`: ids are counted upwards, and what is decrypted is stored. With two
  tabs, a late list can offer another member's document while the other tab's token fetches it.
  Three theorems bound the violations of section 4 by a hypothesis on the execution: `ShownSelected`
  (no tab runs two decryptions at once), `SenderUploaded` (nobody else logs in while a file
  is uploaded) and, from that one and `KeyOfUser`, `StoredSigned`: every stored document bears the
  signature of its sender.
- `RegisterPageProofs`. `PageImplementsRegistration` step by step, so `TypeOK` and `Uniqueness` hold
  beneath the pages. `SuccessReportedOnce` and `OtpFormHasMail` need `PageInv`: a slot is awaited by
  one page only and for the address its form is about (`WaitInv`, `OneWaiter`), and the success of an
  address is with one holder: the handler that saved the account, then its answer 201 on the
  way to a page (`ArrivingInv`), then the page that was told (`ToldInv`). It is inductive because
  accounts are never removed and only the handler that created the account goes on to
  success (`WinnerOwnsAccount`). An awaited answer 200 to an initiation has its mail.
- `CommandLineProofs`. `ToolsTyped`; `VerifyIsRight` and `DecryptIsRight` by the invariant that the
  bytes of every complete file, written or yet to be written, are the exponents its history says,
  with the two pairing equations proved from the laws of the group; `ToolsKeepProvenance` since
  what is yet to be written was made of files that have not changed while the tool runs.
- `MaskProofs`. `MaskTyped` for all lengths; `DeriveKeyIsRight` by the loop invariant that
  `generated` is `counter` whole hashes, or all of the mask; `RoundTrip` from it. Both are about lengths
  up to the last multiple of the hash's size that is an `int` (`Safe`): beyond it the sum of
  line 24 may overflow. `NeverMasked` says what happens from the first length that is no `int`:
  the loop is not entered and the message is masked with uninitialised memory.
- `WasmHeapProofs`, for any number of handlers and any capacity. `NoMisuse` alone is not
  inductive: whether an operation is safe depends on what the operations before it left. `Gone(fn, n)`
  and `Held(fn, n)` are therefore a proof outline: the locals that are freed, and that are live,
  before operation `n` of a C function, and `Ensured` what is live in a handler before its
  operation `n`. `HeapInv` says that the state agrees with the outline at every depth of the stack,
  and in every handler that is suspended (`Outline`). The lemmas `Sound...` check each function's
  text against it, operation by operation and for every exit; the actions then follow whatever the
  text is. `MemorySafe` and `NothingLost` are its consequences.

Only model-checked: liveness (`SubmittingEnds`, `KeyCompleted`, `LoadingEnds`, `Ends`, `HandlersEnd`),
which is out of the prover's reach, as are `ENABLED`, induction over data and `RECURSIVE` operators
(there is none). What `RegistrationKeyLost` and the other three runs violate is proved under the
hypotheses named above.

## 6. Not modelled

- How PBC and OpenSSL compute (curves, points, SHA-256): exponents and places in a stream stand
  for it. The loading of the WASM module and its parameters.
- Two command-line tools at the same time, and the encoding of points in files.
- Refused requests that change nothing: validation errors, missing, malformed or expired tokens.
- Configuration: `JWT_SECRET`, `USER_KEYS_DIR` (which has a default in `executeKeygen.js` and none
  in `userController.js`), connection of the database and of the mail server.
- `readFile` as several reads: the key is written by one flush at `fclose`, so a reader sees the
  empty file or the key.
- Posting an upload and saving the document are one step; requests for a member's list that are
  in flight together are one element of `asked`, since their answers differ only in their age.
- The doubled effects of React's StrictMode in development builds, and a stored token that cannot
  be decoded, which the code handles as an expired one.
- Pages that only render, and vendored or generated code: nearly all of the repository's lines are
  the sources of OpenSSL, GMP and PBC under `crypto-c/deps-src`, which this program only calls.
