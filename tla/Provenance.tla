------------------------------ MODULE Provenance ------------------------------
(***************************************************************************)
(* What the command-line tools promise of the files they leave behind,     *)
(* without the mathematics: a private key belongs to an identity and to    *)
(* the setup whose master secret issued it, a signature to a signer, a     *)
(* setup and a text, a ciphertext to a receiver and a setup, and it opens  *)
(* with the key of that receiver and that setup only.                      *)
(***************************************************************************)
EXTENDS ToolFiles

VARIABLE kept   \* what each file is

Is(f, tag) == kept[f].is = tag

Becomes(f, what) == kept' = [kept EXCEPT ![f] = what]

NewParams == \E s \in Master : Becomes(PP, [is |-> "params", of |-> s])

\* The master secret is saved beside its own parameters only.
NewMaster == Is(PP, "params") /\ Becomes(MSK, [is |-> "msk", of |-> kept[PP].of])

Issue(id) ==
    /\ Is(MSK, "msk")
    /\ Becomes(KeyFile(id), [is |-> "key", id |-> id, of |-> kept[MSK].of])

Edit(n, t) == Becomes(TextFile(n), [is |-> "text", text |-> t])

Sign(id, n) ==
    /\ Is(KeyFile(id), "key") /\ Is(TextFile(n), "text")
    /\ Becomes(SigFile(n), [is |-> "sig", id |-> id, of |-> kept[KeyFile(id)].of,
                            text |-> kept[TextFile(n)].text])

Seal(n, id) ==
    /\ Is(PP, "params") /\ Is(TextFile(n), "text")
    /\ kept[SigFile(n)] \in Signature \cup {Cut, Noise}
    /\ Becomes(EncFile(n, id),
               [is |-> "enc", id |-> id, of |-> kept[PP].of,
                text |-> kept[TextFile(n)].text, sig |-> kept[SigFile(n)]])

\* The ciphertext opens with the key of its receiver, and is split right if
\* what was sealed as a signature has the length of one.
Opens(key, enc) ==
    /\ key.is = "key" /\ enc.is = "enc"
    /\ key.id = enc.id /\ key.of = enc.of
    /\ enc.sig # Cut

Open(k, n, id) ==
    LET key == kept[KeyFile(k)]
        enc == kept[EncFile(n, id)]
        out == BaseName(n, id)
    IN  IF Opens(key, enc)
        THEN \/ Becomes(TextFile(out), [is |-> "text", text |-> enc.text])
             \/ Becomes(SigFile(out), enc.sig)
        ELSE /\ key.is = "key" /\ enc.is \in {"enc", "cut"}
             /\ Becomes(TextFile(out), Noise) \/ Becomes(SigFile(out), Noise)

\* A tool that is stopped leaves the file it writes empty or cut short.
Break(f) == Becomes(f, Empty) \/ Becomes(f, Cut)

Init == kept = [f \in File |-> Missing]

Next ==
    \/ NewParams \/ NewMaster
    \/ \E id \in Identity : Issue(id)
    \/ \E n \in Document, t \in Text : Edit(n, t)
    \/ \E id \in Identity, n \in TextName : Sign(id, n)
    \/ \E n \in Document, id \in Identity : Seal(n, id)
    \/ \E k, id \in Identity, n \in Document : Open(k, n, id)
    \/ \E f \in File : Break(f)

Spec == Init /\ [][Next]_kept

===============================================================================
