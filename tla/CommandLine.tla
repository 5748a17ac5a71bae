------------------------------ MODULE CommandLine ------------------------------
(***************************************************************************)
(* The command-line tools setup, keygen, sign, encrypt, decrypt and verify *)
(* of crypto-c, run one after the other in one directory, and the scheme   *)
(* they compute.  A tool reads its input files, computes, and writes its   *)
(* output files one by one; it can be stopped, or fail to write, at any of *)
(* these steps.                                                            *)
(*                                                                         *)
(* An element of G1, of GT or of Zr is modelled by its exponent: a power   *)
(* and a pairing both multiply exponents.                                  *)
(***************************************************************************)
EXTENDS ToolFiles

CONSTANTS
    Exp,         \* exponents other than 0
    Mul(_, _),   \* their product
    H,           \* of an identity: the exponent of its hash in G1
    Hash,        \* of a text: its hash in Zr
    Generator,   \* what element_random may give for g
    Ephemeral,   \* and for r
    MaxRuns      \* bound on the tools run and the texts written

ASSUME ExpAssumption ==
    /\ Master \cup Generator \cup Ephemeral \subseteq Exp
    /\ H \in [Identity -> Exp] /\ Hash \in [Text -> Exp]
    /\ MaxRuns \in Nat

\* The exponents of a group of prime order.
ASSUME GroupAssumption ==
    \A a, b, c \in Exp :
        /\ Mul(a, b) \in Exp
        /\ Mul(a, b) = Mul(b, a)
        /\ Mul(a, Mul(b, c)) = Mul(Mul(a, b), c)
        /\ Mul(a, b) = Mul(a, c) => b = c

\* No two of these hashes and secrets multiply to the same exponent: the order
\* of the group has 160 bits.
ASSUME NoAccidentAssumption ==
    \A i, j \in Identity, s, x \in Master :
        /\ Mul(H[i], s) = Mul(H[j], x) => i = j /\ s = x
        /\ \A t, u \in Text :
            Mul(Mul(H[i], s), Hash[t]) = Mul(Mul(H[j], x), Hash[u])
                => i = j /\ s = x /\ t = u

VARIABLES
    files,  \* the directory
    todo,   \* the files the running tool has yet to write, with their content
    opened, \* the first of them is open, and therefore empty
    runs    \* tools run and texts written so far

vars == <<files, todo, opened, runs>>

\* The bytes of a file are the exponents `num', and in a ciphertext the sealed
\* signature `inner'.  `what' is history, but for whether the bytes are
\* complete: no tool can read where bytes come from.
Content == [what : What, num : Seq(Exp), inner : Seq(Exp)]
Holds(what, num)        == [what |-> what, num |-> num, inner |-> <<>>]
Seals(what, num, inner) == [what |-> what, num |-> num, inner |-> inner]

TypeOK ==
    /\ files \in [File -> Content]
    /\ todo \in Seq(File \X Content)
    /\ opened \in BOOLEAN
    /\ opened => todo # <<>>
    /\ runs \in 0 .. MaxRuns

Init ==
    /\ files = [f \in File |-> Holds(Missing, <<>>)]
    /\ todo = <<>>
    /\ opened = FALSE
    /\ runs = 0

-----------------------------------------------------------------------------
(* What the tools read and compute.  A file that is missing, empty or      *)
(* short makes a tool exit before it writes anything.                      *)

Is(f, tag) == files[f].what.is = tag
num(f, i)  == files[f].num[i]
text(n)    == files[TextFile(n)].what.text

\* Mutant: the hash of the message is left out.
signatureBare(d, h) == d

\* sigma = d^h
signature(d, h) == Mul(d, h)

\* Mutant: P_pub does not enter the secret.
sharedSecretNoP(id, P, r) == Mul(H[id], r)

\* g_T = e(Q, P_pub)^r, and e(U, d) for the receiver.
sharedSecret(id, P, r) == Mul(Mul(H[id], P), r)
recoveredSecret(U, d) == Mul(U, d)

\* verify: whether e(sigma, g) = e(Q^h, P_pub).
Accepts(id, n) ==
    Mul(num(SigFile(n), 1), num(PP, 1))
        = Mul(Mul(H[id], Hash[text(n)]), num(PP, 2))

\* Its inputs are complete; of noise it finds no valid signature.
CanVerify(n) == Is(PP, "params") /\ Is(SigFile(n), "sig") /\ Is(TextFile(n), "text")

-----------------------------------------------------------------------------
(* The tools, to the first file they write.                                *)

Run(writes) ==
    /\ todo = <<>>
    /\ runs < MaxRuns
    /\ todo' = writes
    /\ runs' = runs + 1
    /\ UNCHANGED <<files, opened>>

\* Mutant: the master secret is saved before the parameters.
SetupMasterFirst ==
    \E g \in Generator, s \in Master :
        Run(<< <<MSK, Holds([is |-> "msk", of |-> s], <<s>>)>>,
               <<PP, Holds([is |-> "params", of |-> s], <<g, Mul(g, s)>>)>> >>)

Setup ==
    \E g \in Generator, s \in Master :
        Run(<< <<PP, Holds([is |-> "params", of |-> s], <<g, Mul(g, s)>>)>>,
               <<MSK, Holds([is |-> "msk", of |-> s], <<s>>)>> >>)

Keygen(id) ==
    /\ Is(MSK, "msk")
    /\ Run(<< <<KeyFile(id),
                Holds([is |-> "key", id |-> id, of |-> files[MSK].what.of],
                      <<Mul(H[id], num(MSK, 1))>>)>> >>)

\* A user signs and sends what can be read.
Sign(id, n) ==
    /\ Is(KeyFile(id), "key") /\ Is(TextFile(n), "text")
    /\ Run(<< <<SigFile(n),
                Holds([is |-> "sig", id |-> id,
                       of |-> files[KeyFile(id)].what.of, text |-> text(n)],
                      <<signature(num(KeyFile(id), 1), Hash[text(n)])>>)>> >>)

\* encrypt takes any file for a signature that is not empty.
Encrypt(n, id) ==
    /\ Is(PP, "params") /\ Is(TextFile(n), "text")
    /\ files[SigFile(n)].what \in Signature \cup {Cut, Noise}
    /\ \E r \in Ephemeral :
        Run(<< <<EncFile(n, id),
                 Seals([is |-> "enc", id |-> id, of |-> files[PP].what.of,
                        text |-> text(n), sig |-> files[SigFile(n)].what],
                       <<Mul(num(PP, 1), r), sharedSecret(id, num(PP, 2), r)>>,
                       files[SigFile(n)].num)>> >>)

\* decrypt's two outputs, when the secrets agree and the last 65 bytes are
\* those of the signature, and when not.
Plain(e) ==
    << Holds([is |-> "text", text |-> files[e].what.text], <<>>),
       Holds(files[e].what.sig, files[e].inner) >>
Garbled == << Holds(Noise, <<>>), Holds(Noise, <<>>) >>

Opens(k, e) ==
    /\ Is(e, "enc")
    /\ recoveredSecret(num(e, 1), num(KeyFile(k), 1)) = num(e, 2)
    /\ files[e].what.sig # Cut

Decrypt(k, n, id) ==
    LET e   == EncFile(n, id)
        out == IF Opens(k, e) THEN Plain(e) ELSE Garbled
    IN  /\ Is(KeyFile(k), "key") /\ (Is(e, "enc") \/ Is(e, "cut"))
        /\ Run(<< <<TextFile(BaseName(n, id)), out[1]>>,
                  <<SigFile(BaseName(n, id)), out[2]>> >>)

-----------------------------------------------------------------------------
(* Writing.                                                                *)

target == todo[1][1]

\* fopen(.., "wb")
OpenFile ==
    /\ todo # <<>> /\ ~opened
    /\ files' = [files EXCEPT ![target] = Holds(Empty, <<>>)]
    /\ opened' = TRUE
    /\ UNCHANGED <<todo, runs>>

\* Mutant: the file is not closed.
WriteNoClose ==
    /\ opened
    /\ files' = [files EXCEPT ![target] = todo[1][2]]
    /\ todo' = Tail(todo)
    /\ UNCHANGED <<opened, runs>>

WriteFile ==
    /\ opened
    /\ files' = [files EXCEPT ![target] = todo[1][2]]
    /\ opened' = FALSE
    /\ todo' = Tail(todo)
    /\ UNCHANGED runs

\* The tool dies: killed, or by DIE when it cannot open or write the file.
Stop ==
    /\ todo # <<>>
    /\ files' \in {files} \cup
         (IF opened THEN {[files EXCEPT ![target] = Holds(Cut, <<>>)]} ELSE {})
    /\ opened' = FALSE
    /\ todo' = <<>>
    /\ UNCHANGED runs

\* A user writes a message.
Edit(n, t) ==
    /\ todo = <<>>
    /\ runs < MaxRuns
    /\ runs' = runs + 1
    /\ files' = [files EXCEPT ![TextFile(n)] =
                    Holds([is |-> "text", text |-> t], <<>>)]
    /\ UNCHANGED <<todo, opened>>

Next ==
    \/ Setup
    \/ \E id \in Identity : Keygen(id)
    \/ \E id \in Identity, n \in TextName : Sign(id, n)
    \/ \E id \in Identity, n \in Document : Encrypt(n, id)
    \/ \E k, id \in Identity, n \in Document : Decrypt(k, n, id)
    \/ OpenFile \/ WriteFile \/ Stop
    \/ \E n \in Document, t \in Text : Edit(n, t)

Spec == Init /\ [][Next]_vars

-----------------------------------------------------------------------------
(* Properties.                                                             *)

\* verify accepts a signature exactly when the named signer made it for this
\* text with a key of the setup whose parameters are in use, whichever tools
\* were run again, stopped or fed with files of an older setup (verify.c:56-72).
AcceptsOwnOnly ==
    \A id \in Identity, n \in TextName :
        CanVerify(n) =>
            (Accepts(id, n) <=>
               files[SigFile(n)].what = [is |-> "sig", id |-> id,
                                         of |-> files[PP].what.of,
                                         text |-> text(n)])

\* decrypt gives back the message and the signature exactly when the key was
\* issued to the receiver by the setup whose parameters encrypted it
\* (ibe.c:33-105, decrypt.c:144-161).
OpensForReceiverOnly ==
    \A k, id \in Identity, n \in Document :
        LET key == files[KeyFile(k)].what
            enc == files[EncFile(n, id)].what
        IN  (key.is = "key" /\ enc.is = "enc") =>
                (Opens(k, EncFile(n, id)) <=>
                    key.id = enc.id /\ key.of = enc.of /\ enc.sig # Cut)

\* Every step the tools take on the files is one that Provenance allows.
Promise == INSTANCE Provenance WITH kept <- [f \in File |-> files[f].what]
ImplementsProvenance == Promise!Spec
===============================================================================
