--------------------------- MODULE CommandLineProofs ---------------------------
(***************************************************************************)
(* Proofs about CommandLine, for every group that meets its assumptions.   *)
(***************************************************************************)
EXTENDS CommandLine, TLAPS

\* What each operand of the scheme is.
LEMMA OperandsInExp ==
    /\ \A i \in Identity : H[i] \in Exp
    /\ \A t \in Text : Hash[t] \in Exp
    /\ \A s \in Master : s \in Exp
    /\ \A g \in Generator : g \in Exp
    /\ \A r \in Ephemeral : r \in Exp
BY ExpAssumption

LEMMA MulCloses == ASSUME NEW a \in Exp, NEW b \in Exp PROVE Mul(a, b) \in Exp
BY GroupAssumption

LEMMA MulCommutes ==
    ASSUME NEW a \in Exp, NEW b \in Exp PROVE Mul(a, b) = Mul(b, a)
BY GroupAssumption

LEMMA MulAssociates ==
    ASSUME NEW a \in Exp, NEW b \in Exp, NEW c \in Exp
    PROVE  Mul(a, Mul(b, c)) = Mul(Mul(a, b), c)
BY GroupAssumption

LEMMA MulCancels ==
    ASSUME NEW a \in Exp, NEW b \in Exp, NEW c \in Exp, Mul(a, b) = Mul(a, c)
    PROVE  b = c
BY GroupAssumption

\* The order of four factors that verify multiplies does not matter.
LEMMA Regroup ==
    ASSUME NEW a \in Exp, NEW b \in Exp, NEW c \in Exp, NEW d \in Exp
    PROVE  Mul(Mul(a, b), Mul(c, d)) = Mul(c, Mul(Mul(a, d), b))
<1>1. Mul(a, b) \in Exp /\ Mul(c, d) \in Exp
  BY MulCloses
<1>2. Mul(Mul(a, b), Mul(c, d)) = Mul(Mul(c, d), Mul(a, b))
  BY <1>1, MulCommutes
<1>3. Mul(Mul(c, d), Mul(a, b)) = Mul(c, Mul(d, Mul(a, b)))
  BY <1>1, MulAssociates
<1>4. Mul(d, Mul(a, b)) = Mul(Mul(d, a), b)
  BY MulAssociates
<1>5. Mul(d, a) = Mul(a, d)
  BY MulCommutes
<1> QED  BY <1>2, <1>3, <1>4, <1>5

\* The verification equation holds for the signer, the setup and the text of
\* the signature and for nothing else (verify.c:54-68).
LEMMA VerificationEquation ==
    ASSUME NEW g \in Exp, NEW i \in Identity, NEW j \in Identity,
           NEW s \in Master, NEW x \in Master, NEW t \in Text, NEW u \in Text
    PROVE  Mul(Mul(Mul(H[j], x), Hash[u]), g)
             = Mul(Mul(H[i], Hash[t]), Mul(g, s))
           <=> i = j /\ s = x /\ t = u
<1> DEFINE made  == Mul(Mul(H[j], x), Hash[u])
           named == Mul(Mul(H[i], s), Hash[t])
<1>1. /\ H[i] \in Exp /\ H[j] \in Exp /\ Hash[t] \in Exp /\ Hash[u] \in Exp
      /\ s \in Exp /\ x \in Exp
  BY OperandsInExp
<1>2. made \in Exp /\ named \in Exp
  BY <1>1, MulCloses
<1>3. Mul(made, g) = Mul(g, made)
  BY <1>2, MulCommutes
<1>4. Mul(Mul(H[i], Hash[t]), Mul(g, s)) = Mul(g, named)
  BY <1>1, Regroup
<1>5. Mul(g, made) = Mul(g, named) => made = named
  <2> HIDE DEF made, named
  <2> QED  BY <1>2, MulCancels
<1>6. made = named => i = j /\ s = x /\ t = u
  BY NoAccidentAssumption
<1> QED  BY <1>3, <1>4, <1>5, <1>6

\* The receiver's secret is the sender's for the receiver's own key of the
\* same setup and for no other key (ibe.c:52-54, 92-93).
LEMMA SecretEquation ==
    ASSUME NEW U \in Exp, NEW i \in Identity, NEW j \in Identity,
           NEW s \in Master, NEW x \in Master
    PROVE  Mul(U, Mul(H[i], s)) = Mul(U, Mul(H[j], x)) <=> i = j /\ s = x
<1>1. Mul(H[i], s) \in Exp /\ Mul(H[j], x) \in Exp
  BY OperandsInExp, MulCloses
<1>2. Mul(U, Mul(H[i], s)) = Mul(U, Mul(H[j], x)) => Mul(H[i], s) = Mul(H[j], x)
  BY <1>1, MulCancels
<1>3. Mul(H[i], s) = Mul(H[j], x) => i = j /\ s = x
  BY NoAccidentAssumption
<1> QED  BY <1>2, <1>3

\* The secret Encrypt computes is that of U = g^r and the receiver's key.
LEMMA SenderSecret ==
    ASSUME NEW g \in Exp, NEW r \in Exp, NEW i \in Identity, NEW s \in Master
    PROVE  Mul(Mul(H[i], Mul(g, s)), r) = Mul(Mul(g, r), Mul(H[i], s))
<1>1. H[i] \in Exp /\ s \in Exp
  BY OperandsInExp
<1>2. Mul(g, s) \in Exp
  BY <1>1, MulCloses
<1>3. Mul(Mul(g, r), Mul(H[i], s)) = Mul(H[i], Mul(Mul(g, s), r))
  BY <1>1, Regroup
<1>4. Mul(H[i], Mul(Mul(g, s), r)) = Mul(Mul(H[i], Mul(g, s)), r)
  BY <1>1, <1>2, MulAssociates
<1> QED  BY <1>3, <1>4

-----------------------------------------------------------------------------
(* Names and contents.                                                     *)

\* Files of different kinds or names are different.
LEMMA FilesDiffer ==
    /\ PP # MSK
    /\ \A i : KeyFile(i) # PP /\ KeyFile(i) # MSK
    /\ \A n : TextFile(n) # PP /\ TextFile(n) # MSK
    /\ \A n : SigFile(n) # PP /\ SigFile(n) # MSK
    /\ \A n, i : EncFile(n, i) # PP /\ EncFile(n, i) # MSK
    /\ \A n, i : TextFile(n) # KeyFile(i) /\ SigFile(n) # KeyFile(i)
    /\ \A n, m : TextFile(n) # SigFile(m)
    /\ \A n, m, i : /\ EncFile(n, i) # TextFile(m)
                   /\ EncFile(n, i) # SigFile(m)
    /\ \A n, i, j : EncFile(n, i) # KeyFile(j)
    /\ \A i, j : KeyFile(i) = KeyFile(j) => i = j
BY DEF PP, MSK, KeyFile, TextFile, SigFile, EncFile

LEMMA FilesExist ==
    /\ PP \in File /\ MSK \in File
    /\ \A i \in Identity : KeyFile(i) \in File
    /\ \A n \in TextName : TextFile(n) \in File /\ SigFile(n) \in File
    /\ \A n \in Document, i \in Identity :
         /\ EncFile(n, i) \in File
         /\ BaseName(n, i) \in TextName
    /\ Document \subseteq TextName
BY DEF File, TextName

\* The fields of a file's content follow from what it is.
LEMMA WhatFields ==
    ASSUME NEW w \in What
    PROVE  /\ w.is \in {"params", "msk"} =>
                w.of \in Master /\ w = [is |-> w.is, of |-> w.of]
           /\ w.is = "key" =>
                /\ w.id \in Identity /\ w.of \in Master
                /\ w = [is |-> "key", id |-> w.id, of |-> w.of]
           /\ w.is = "sig" =>
                /\ w.id \in Identity /\ w.of \in Master /\ w.text \in Text
                /\ w \in Signature
                /\ w = [is |-> "sig", id |-> w.id, of |-> w.of, text |-> w.text]
           /\ w.is = "text" => w.text \in Text /\ w = [is |-> "text", text |-> w.text]
           /\ w.is = "enc" =>
                /\ w.id \in Identity /\ w.of \in Master /\ w.text \in Text
                /\ w.sig \in Signature \cup {Cut, Noise}
BY SMTT(30) DEF What, Signature, Missing, Empty, Cut, Noise

LEMMA WhatHas ==
    /\ Missing \in What /\ Empty \in What /\ Cut \in What /\ Noise \in What
    /\ Signature \subseteq What
    /\ \A s \in Master : /\ [is |-> "params", of |-> s] \in What
                         /\ [is |-> "msk", of |-> s] \in What
    /\ \A i \in Identity, s \in Master :
         /\ [is |-> "key", id |-> i, of |-> s] \in What
         /\ \A t \in Text :
              /\ [is |-> "sig", id |-> i, of |-> s, text |-> t] \in Signature
              /\ \A g \in Signature \cup {Cut, Noise} :
                   [is |-> "enc", id |-> i, of |-> s, text |-> t, sig |-> g] \in What
    /\ \A t \in Text : [is |-> "text", text |-> t] \in What
BY SMTT(30) DEF What, Signature

-----------------------------------------------------------------------------
(* The inductive invariant.                                                *)

sigNum(w) == <<Mul(Mul(H[w.id], w.of), Hash[w.text])>>

\* The numbers of a content are those its history says.
Sound(c) ==
    /\ c.what.is = "params" => \E g \in Exp : c.num = <<g, Mul(g, c.what.of)>>
    /\ c.what.is = "msk" => c.num = <<c.what.of>>
    /\ c.what.is = "key" => c.num = <<Mul(H[c.what.id], c.what.of)>>
    /\ c.what.is = "sig" => c.num = sigNum(c.what)
    /\ c.what.is = "enc" =>
        /\ \E U \in Exp : c.num = <<U, Mul(U, Mul(H[c.what.id], c.what.of))>>
        /\ c.what.sig.is = "sig" => c.inner = sigNum(c.what.sig)

FilesSound ==
    /\ \A f \in File : Sound(files[f])
    /\ \A i \in Identity : Is(KeyFile(i), "key") => files[KeyFile(i)].what.id = i

\* What decrypt writes to f.
FitsOpened(k, n, id, f, w) ==
    LET key == files[KeyFile(k)].what
        enc == files[EncFile(n, id)].what
    IN  /\ key.is = "key" /\ enc.is \in {"enc", "cut"}
        /\ f \in {TextFile(BaseName(n, id)), SigFile(BaseName(n, id))}
        /\ IF Promise!Opens(key, enc)
           THEN \/ f = TextFile(BaseName(n, id)) /\ w = [is |-> "text", text |-> enc.text]
                \/ f = SigFile(BaseName(n, id)) /\ w = enc.sig
           ELSE w = Noise

\* The write of w to f is one that Provenance allows in the present directory.
Fits(f, w) ==
    \/ f = PP /\ \E s \in Master : w = [is |-> "params", of |-> s]
    \/ /\ f = MSK /\ Is(PP, "params")
       /\ w = [is |-> "msk", of |-> files[PP].what.of]
    \/ \E id \in Identity :
        /\ f = KeyFile(id) /\ Is(MSK, "msk")
        /\ w = [is |-> "key", id |-> id, of |-> files[MSK].what.of]
    \/ \E id \in Identity, n \in TextName :
        /\ f = SigFile(n) /\ Is(KeyFile(id), "key") /\ Is(TextFile(n), "text")
        /\ w = [is |-> "sig", id |-> id, of |-> files[KeyFile(id)].what.of,
                text |-> text(n)]
    \/ \E n \in Document, id \in Identity :
        /\ f = EncFile(n, id) /\ Is(PP, "params") /\ Is(TextFile(n), "text")
        /\ files[SigFile(n)].what \in Signature \cup {Cut, Noise}
        /\ w = [is |-> "enc", id |-> id, of |-> files[PP].what.of,
                text |-> text(n), sig |-> files[SigFile(n)].what]
    \/ \E k, id \in Identity, n \in Document : FitsOpened(k, n, id, f, w)

\* The tools that write two files: the second write fits once the first is done.
SecondFits ==
    \/ /\ todo[1][1] = PP /\ todo[2][1] = MSK
       /\ todo[1][2].what.is = "params"
       /\ todo[2][2].what = [is |-> "msk", of |-> todo[1][2].what.of]
    \/ \E k, id \in Identity, n \in Document :
        /\ todo[1][1] = TextFile(BaseName(n, id))
        /\ todo[2][1] = SigFile(BaseName(n, id))
        /\ FitsOpened(k, n, id, todo[2][1], todo[2][2].what)

WriteOK(u) ==
    /\ u \in File \X Content /\ Sound(u[2])
    /\ \A i \in Identity :
        u[1] = KeyFile(i) /\ u[2].what.is = "key" => u[2].what.id = i

TodoFits ==
    \/ todo = <<>>
    \/ \E u : todo = <<u>> /\ WriteOK(u) /\ Fits(u[1], u[2].what)
    \/ \E u, v :
        /\ todo = <<u, v>> /\ WriteOK(u) /\ WriteOK(v)
        /\ Fits(u[1], u[2].what) /\ SecondFits

IInv == TypeOK /\ FilesSound /\ TodoFits

\* The decision of decrypt agrees with the history of the two files.
LEMMA OpensAgrees ==
    ASSUME TypeOK, FilesSound, NEW k \in Identity, NEW n \in Document,
           NEW id \in Identity, Is(KeyFile(k), "key"), Is(EncFile(n, id), "enc")
    PROVE  Opens(k, EncFile(n, id))
             <=> Promise!Opens(files[KeyFile(k)].what, files[EncFile(n, id)].what)
<1> DEFINE key == files[KeyFile(k)]
           enc == files[EncFile(n, id)]
<1>1. key \in Content /\ enc \in Content /\ Sound(key) /\ Sound(enc)
  BY FilesExist DEF TypeOK, FilesSound
<1>2. key.what \in What /\ enc.what \in What
  BY <1>1 DEF Content
<1>3. key.what.is = "key" /\ enc.what.is = "enc"
  BY DEF Is
<1>4. /\ key.what.id \in Identity /\ key.what.of \in Master
      /\ enc.what.id \in Identity /\ enc.what.of \in Master
  BY <1>2, <1>3, WhatFields
<1>5. key.num[1] = Mul(H[key.what.id], key.what.of)
  BY <1>1, <1>3 DEF Sound
<1>6. PICK U \in Exp : enc.num = <<U, Mul(U, Mul(H[enc.what.id], enc.what.of))>>
  BY <1>1, <1>3 DEF Sound
<1>7. Opens(k, EncFile(n, id)) <=>
        /\ Mul(U, Mul(H[key.what.id], key.what.of))
             = Mul(U, Mul(H[enc.what.id], enc.what.of))
        /\ enc.what.sig # Cut
  BY <1>3, <1>5, <1>6 DEF Opens, num, recoveredSecret, Is
<1>8. Opens(k, EncFile(n, id)) <=>
        /\ key.what.id = enc.what.id /\ key.what.of = enc.what.of
        /\ enc.what.sig # Cut
  BY <1>4, <1>7, SecretEquation
<1> QED  BY <1>3, <1>8 DEF Promise!Opens, Cut, Promise!Cut

-----------------------------------------------------------------------------
(* How the writes preserve the invariant.                                  *)

LEMMA InitHolds == Init => IInv
<1> SUFFICES ASSUME Init PROVE IInv
  OBVIOUS
<1>1. Holds(Missing, <<>>) \in Content
  BY WhatHas DEF Holds, Content
<1>2. files \in [File -> Content]
  BY <1>1 DEF Init
<1>3. TypeOK
  <2>1. todo \in Seq(File \X Content)
    BY DEF Init
  <2>2. runs \in 0 .. MaxRuns
    BY ExpAssumption DEF Init
  <2>3. opened \in BOOLEAN /\ (opened => todo # <<>>)
    BY DEF Init
  <2> QED  BY <1>2, <2>1, <2>2, <2>3 DEF TypeOK
<1>4. FilesSound
  BY FilesExist DEF Init, FilesSound, Sound, Is, Holds, Missing
<1> QED  BY <1>3, <1>4 DEF Init, IInv, TodoFits

\* A content that is sound and of the right name keeps the directory sound.
LEMMA FilesStaySound ==
    ASSUME TypeOK, FilesSound, NEW u, WriteOK(u),
           files' = [files EXCEPT ![u[1]] = u[2]]
    PROVE  files' \in [File -> Content] /\ FilesSound'
<1>1. files' \in [File -> Content]
  BY DEF TypeOK, WriteOK
<1>2. \A f \in File : Sound(files'[f])
  BY DEF TypeOK, FilesSound, WriteOK
<1>3. \A i \in Identity :
        files'[KeyFile(i)].what.is = "key" => files'[KeyFile(i)].what.id = i
  BY FilesExist DEF TypeOK, FilesSound, WriteOK, Is
<1> QED  BY <1>1, <1>2, <1>3 DEF FilesSound, Is

\* An unfinished file is sound.
LEMMA BrokenOK ==
    ASSUME NEW f \in File
    PROVE  /\ WriteOK(<<f, Holds(Empty, <<>>)>>)
           /\ WriteOK(<<f, Holds(Cut, <<>>)>>)
<1>1. Holds(Empty, <<>>) \in Content /\ Holds(Cut, <<>>) \in Content
  BY WhatHas DEF Holds, Content
<1>2. Sound(Holds(Empty, <<>>)) /\ Sound(Holds(Cut, <<>>))
  BY DEF Sound, Holds, Empty, Cut
<1>3. Holds(Empty, <<>>).what.is # "key" /\ Holds(Cut, <<>>).what.is # "key"
  BY DEF Holds, Empty, Cut
<1> QED  BY <1>1, <1>2, <1>3 DEF WriteOK

\* No tool reads the file it is writing.
LEMMA FitsKept ==
    ASSUME TypeOK, NEW f, NEW w, Fits(f, w), NEW c,
           files' = [files EXCEPT ![f] = c]
    PROVE  Fits(f, w)'
<1> USE DEF TypeOK, Is, text
<1>1. ASSUME f = PP, NEW s \in Master, w = [is |-> "params", of |-> s]
      PROVE  Fits(f, w)'
  BY <1>1 DEF Fits
<1>2. ASSUME f = MSK, Is(PP, "params"),
             w = [is |-> "msk", of |-> files[PP].what.of]
      PROVE  Fits(f, w)'
  BY <1>2, FilesDiffer, FilesExist DEF Fits
<1>3. ASSUME NEW id \in Identity, f = KeyFile(id), Is(MSK, "msk"),
             w = [is |-> "key", id |-> id, of |-> files[MSK].what.of]
      PROVE  Fits(f, w)'
  BY <1>3, FilesDiffer, FilesExist DEF Fits
<1>4. ASSUME NEW id \in Identity, NEW n \in TextName,
             f = SigFile(n), Is(KeyFile(id), "key"), Is(TextFile(n), "text"),
             w = [is |-> "sig", id |-> id, of |-> files[KeyFile(id)].what.of,
                  text |-> text(n)]
      PROVE  Fits(f, w)'
  <2>1. files'[KeyFile(id)] = files[KeyFile(id)] /\ files'[TextFile(n)] = files[TextFile(n)]
    BY <1>4, FilesDiffer, FilesExist
  <2> QED  BY <1>4, <2>1 DEF Fits
<1>5. ASSUME NEW n \in Document, NEW id \in Identity,
             f = EncFile(n, id), Is(PP, "params"), Is(TextFile(n), "text"),
             files[SigFile(n)].what \in Signature \cup {Cut, Noise},
             w = [is |-> "enc", id |-> id, of |-> files[PP].what.of,
                  text |-> text(n), sig |-> files[SigFile(n)].what]
      PROVE  Fits(f, w)'
  <2>1. /\ files'[PP] = files[PP]
        /\ files'[TextFile(n)] = files[TextFile(n)]
        /\ files'[SigFile(n)] = files[SigFile(n)]
    BY <1>5, FilesDiffer, FilesExist
  <2> QED  BY <1>5, <2>1 DEF Fits
<1>6. ASSUME NEW k \in Identity, NEW id \in Identity, NEW n \in Document,
             FitsOpened(k, n, id, f, w)
      PROVE  Fits(f, w)'
  <2>1. f \in {TextFile(BaseName(n, id)), SigFile(BaseName(n, id))}
    BY <1>6 DEF FitsOpened
  <2>2. /\ files'[KeyFile(k)] = files[KeyFile(k)]
        /\ files'[EncFile(n, id)] = files[EncFile(n, id)]
    BY <2>1, FilesDiffer, FilesExist
  <2>3. FitsOpened(k, n, id, f, w)'
    BY <1>6, <2>2 DEF FitsOpened
  <2> QED  BY <2>3 DEF Fits
<1> QED  BY <1>1, <1>2, <1>3, <1>4, <1>5, <1>6 DEF Fits

\* A tool that has one file to write.
LEMMA RunOne ==
    ASSUME IInv, NEW u, WriteOK(u), Fits(u[1], u[2].what), Run(<<u>>)
    PROVE  IInv'
<1>1. /\ todo = <<>> /\ todo' = <<u>> /\ files' = files
      /\ opened' = opened /\ runs' = runs + 1 /\ runs < MaxRuns
  BY DEF Run
<1>2. TypeOK'
  <2>1. todo' \in Seq(File \X Content) /\ todo' # <<>>
    BY <1>1 DEF WriteOK
  <2>2. runs' \in 0 .. MaxRuns
    BY <1>1, ExpAssumption DEF IInv, TypeOK
  <2> QED  BY <1>1, <2>1, <2>2 DEF IInv, TypeOK
<1>3. FilesSound'
  BY <1>1 DEF IInv, FilesSound, Is
<1>4. Fits(u[1], u[2].what)'
  BY <1>1 DEF Fits, FitsOpened, Is, text
<1>5. TodoFits'
  BY <1>1, <1>4 DEF TodoFits
<1> QED  BY <1>2, <1>3, <1>5 DEF IInv

\* A tool that has two files to write.
LEMMA RunTwo ==
    ASSUME IInv, NEW u, NEW v, WriteOK(u), WriteOK(v), Fits(u[1], u[2].what),
           Run(<<u, v>>), SecondFits'
    PROVE  IInv'
<1>1. /\ todo = <<>> /\ todo' = <<u, v>> /\ files' = files
      /\ opened' = opened /\ runs' = runs + 1 /\ runs < MaxRuns
  BY DEF Run
<1>2. TypeOK'
  <2>1. todo' \in Seq(File \X Content) /\ todo' # <<>>
    BY <1>1 DEF WriteOK
  <2>2. runs' \in 0 .. MaxRuns
    BY <1>1, ExpAssumption DEF IInv, TypeOK
  <2> QED  BY <1>1, <2>1, <2>2 DEF IInv, TypeOK
<1>3. FilesSound'
  BY <1>1 DEF IInv, FilesSound, Is
<1>4. Fits(u[1], u[2].what)'
  BY <1>1 DEF Fits, FitsOpened, Is, text
<1>5. TodoFits'
  BY <1>1, <1>4 DEF TodoFits
<1> QED  BY <1>2, <1>3, <1>5 DEF IInv

LEMMA NumsInSeq ==
    ASSUME NEW w \in What, NEW a \in Exp, NEW b \in Exp
    PROVE  /\ Holds(w, <<>>) \in Content
           /\ Holds(w, <<a>>) \in Content
           /\ Holds(w, <<a, b>>) \in Content
           /\ \A q \in Seq(Exp) : Seals(w, <<a, b>>, q) \in Content
<1>1. <<>> \in Seq(Exp) /\ <<a>> \in Seq(Exp) /\ <<a, b>> \in Seq(Exp)
  OBVIOUS
<1> QED  BY <1>1 DEF Holds, Seals, Content

LEMMA SetupHolds == IInv /\ Setup => IInv'
<1> SUFFICES ASSUME IInv, Setup PROVE IInv'
  OBVIOUS
<1>1. PICK g \in Generator, s \in Master :
        Run(<< <<PP, Holds([is |-> "params", of |-> s], <<g, Mul(g, s)>>)>>,
               <<MSK, Holds([is |-> "msk", of |-> s], <<s>>)>> >>)
  BY DEF Setup
<1> DEFINE p == Holds([is |-> "params", of |-> s], <<g, Mul(g, s)>>)
           m == Holds([is |-> "msk", of |-> s], <<s>>)
<1>2. g \in Exp /\ s \in Exp /\ Mul(g, s) \in Exp
  BY OperandsInExp, MulCloses
<1>3. p \in Content /\ m \in Content
  BY <1>2, WhatHas, NumsInSeq
<1>4. Sound(p) /\ Sound(m)
  BY <1>2 DEF Sound, Holds
<1>5. WriteOK(<<PP, p>>) /\ WriteOK(<<MSK, m>>)
  BY <1>3, <1>4, FilesExist, FilesDiffer DEF WriteOK, Holds
<1>6. Fits(PP, p.what)
  BY DEF Fits, Holds
<1>7. SecondFits'
  BY <1>1 DEF Run, SecondFits, Holds
<1> HIDE DEF p, m
<1> QED  BY <1>1, <1>5, <1>6, <1>7, RunTwo DEF p, m

LEMMA KeygenHolds == ASSUME NEW id \in Identity PROVE IInv /\ Keygen(id) => IInv'
<1> SUFFICES ASSUME IInv, Keygen(id) PROVE IInv'
  OBVIOUS
<1> DEFINE s == files[MSK].what.of
           c == Holds([is |-> "key", id |-> id, of |-> s],
                      <<Mul(H[id], num(MSK, 1))>>)
<1>1. Is(MSK, "msk") /\ Run(<< <<KeyFile(id), c>> >>)
  BY DEF Keygen
<1>2. files[MSK] \in Content /\ Sound(files[MSK])
  BY FilesExist DEF IInv, TypeOK, FilesSound
<1>3. s \in Master /\ num(MSK, 1) = s
  BY <1>1, <1>2, WhatFields DEF Content, Is, Sound, num
<1>4. Mul(H[id], s) \in Exp
  BY <1>3, OperandsInExp, MulCloses
<1>5. c \in Content /\ Sound(c)
  BY <1>3, <1>4, WhatHas, NumsInSeq DEF Sound, Holds
<1>6. WriteOK(<<KeyFile(id), c>>)
  BY <1>5, FilesExist, FilesDiffer DEF WriteOK, Holds
<1>7. Fits(KeyFile(id), c.what)
  BY <1>1 DEF Fits, Holds
<1> HIDE DEF c
<1> QED  BY <1>1, <1>6, <1>7, RunOne

LEMMA SignHolds ==
    ASSUME NEW id \in Identity, NEW n \in TextName
    PROVE  IInv /\ Sign(id, n) => IInv'
<1> SUFFICES ASSUME IInv, Sign(id, n) PROVE IInv'
  OBVIOUS
<1> DEFINE k == files[KeyFile(id)]
           w == [is |-> "sig", id |-> id, of |-> k.what.of, text |-> text(n)]
           c == Holds(w, <<signature(num(KeyFile(id), 1), Hash[text(n)])>>)
<1>1. /\ Is(KeyFile(id), "key") /\ Is(TextFile(n), "text")
      /\ Run(<< <<SigFile(n), c>> >>)
  BY DEF Sign
<1>2. k \in Content /\ Sound(k) /\ files[TextFile(n)] \in Content /\ k.what.id = id
  BY <1>1, FilesExist DEF IInv, TypeOK, FilesSound
<1>3. /\ k.what.of \in Master /\ text(n) \in Text
      /\ num(KeyFile(id), 1) = Mul(H[id], k.what.of)
  BY <1>1, <1>2, WhatFields DEF Content, Is, Sound, num, text
<1>4. Mul(Mul(H[id], k.what.of), Hash[text(n)]) \in Exp
  BY <1>3, OperandsInExp, MulCloses
<1>5. w \in What
  BY <1>3, WhatHas
<1>6. c \in Content
  BY <1>3, <1>4, <1>5, NumsInSeq DEF signature
<1>7. Sound(c)
  BY <1>3 DEF Sound, Holds, signature, sigNum
<1>8. WriteOK(<<SigFile(n), c>>)
  BY <1>6, <1>7, FilesExist, FilesDiffer DEF WriteOK, Holds
<1>9. Fits(SigFile(n), c.what)
  BY <1>1 DEF Fits, Holds
<1> HIDE DEF c
<1> QED  BY <1>1, <1>8, <1>9, RunOne

LEMMA EncryptHolds ==
    ASSUME NEW id \in Identity, NEW n \in Document
    PROVE  IInv /\ Encrypt(n, id) => IInv'
<1> SUFFICES ASSUME IInv, Encrypt(n, id) PROVE IInv'
  OBVIOUS
<1> DEFINE p == files[PP]
           sg == files[SigFile(n)]
           w == [is |-> "enc", id |-> id, of |-> p.what.of,
                 text |-> text(n), sig |-> sg.what]
           c(r) == Seals(w, <<Mul(num(PP, 1), r), sharedSecret(id, num(PP, 2), r)>>,
                         sg.num)
<1>1. /\ Is(PP, "params") /\ Is(TextFile(n), "text")
      /\ sg.what \in Signature \cup {Cut, Noise}
  BY DEF Encrypt
<1>2. PICK r \in Ephemeral : Run(<< <<EncFile(n, id), c(r)>> >>)
  BY DEF Encrypt
<1>3. n \in TextName
  BY FilesExist
<1>4. /\ p \in Content /\ Sound(p) /\ sg \in Content /\ Sound(sg)
      /\ files[TextFile(n)] \in Content
  BY <1>3, FilesExist DEF IInv, TypeOK, FilesSound
<1>5. p.what.of \in Master /\ text(n) \in Text /\ sg.num \in Seq(Exp)
  BY <1>1, <1>4, WhatFields DEF Content, Is, text
<1>6. PICK g \in Exp : p.num = <<g, Mul(g, p.what.of)>>
  BY <1>1, <1>4 DEF Sound, Is
<1> DEFINE U == Mul(g, r)
<1>7. U \in Exp /\ Mul(U, Mul(H[id], p.what.of)) \in Exp
  BY <1>5, OperandsInExp, MulCloses
<1>8. c(r).num = <<U, Mul(U, Mul(H[id], p.what.of))>>
  BY <1>5, <1>6, OperandsInExp, SenderSecret DEF Seals, num, sharedSecret
<1>9. w \in What
  BY <1>1, <1>5, WhatHas
<1>10. c(r) \in Content
  BY <1>5, <1>7, <1>8, <1>9, NumsInSeq DEF Seals
<1>11. Sound(c(r))
  <2>1. c(r).what = w /\ c(r).inner = sg.num
    BY DEF Seals
  <2>2. sg.what.is = "sig" => sg.num = sigNum(sg.what)
    BY <1>4 DEF Sound
  <2>3. w.is = "enc" /\ w.id = id /\ w.of = p.what.of /\ w.sig = sg.what
    OBVIOUS
  <2>4. \E V \in Exp : c(r).num = <<V, Mul(V, Mul(H[w.id], w.of))>>
    BY <1>7, <1>8, <2>3
  <2> HIDE DEF c, w
  <2> QED  BY <2>1, <2>2, <2>3, <2>4 DEF Sound
<1>12. WriteOK(<<EncFile(n, id), c(r)>>)
  BY <1>10, <1>11, FilesExist, FilesDiffer DEF WriteOK, Seals
<1>13. Fits(EncFile(n, id), c(r).what)
  BY <1>1 DEF Fits, Seals
<1> HIDE DEF c
<1> QED  BY <1>2, <1>12, <1>13, RunOne

LEMMA DecryptHolds ==
    ASSUME NEW k \in Identity, NEW id \in Identity, NEW n \in Document
    PROVE  IInv /\ Decrypt(k, n, id) => IInv'
<1> SUFFICES ASSUME IInv, Decrypt(k, n, id) PROVE IInv'
  OBVIOUS
<1> DEFINE e == EncFile(n, id)
           enc == files[e]
           key == files[KeyFile(k)]
           out == IF Opens(k, e) THEN Plain(e) ELSE Garbled
           base == BaseName(n, id)
           u == <<TextFile(base), out[1]>>
           v == <<SigFile(base), out[2]>>
<1>1. Is(KeyFile(k), "key") /\ (Is(e, "enc") \/ Is(e, "cut")) /\ Run(<<u, v>>)
  BY DEF Decrypt
<1>2. enc \in Content /\ Sound(enc) /\ base \in TextName
  BY FilesExist DEF IInv, TypeOK, FilesSound
<1>3. enc.what.is = "enc" => enc.what.text \in Text /\ enc.what.sig \in Signature \cup {Cut, Noise}
  BY <1>2, WhatFields DEF Content
<1>4. Opens(k, e) <=> Promise!Opens(key.what, enc.what)
  <2>1. CASE Is(e, "enc")
    BY <1>1, <2>1, OpensAgrees DEF IInv
  <2>2. CASE ~Is(e, "enc")
    BY <2>2 DEF Opens, Promise!Opens, Is
  <2> QED  BY <2>1, <2>2
<1>5. CASE Opens(k, e)
  <2>1. enc.what.is = "enc"
    BY <1>5 DEF Opens, Is
  <2>2. /\ out[1] = Holds([is |-> "text", text |-> enc.what.text], <<>>)
        /\ out[2] = Holds(enc.what.sig, enc.inner)
    BY <1>5 DEF Plain
  <2>3. [is |-> "text", text |-> enc.what.text] \in What /\ enc.what.sig \in What
    BY <1>3, <2>1, WhatHas
  <2>4. out[1] \in Content /\ out[2] \in Content
    <3>1. <<>> \in Seq(Exp) /\ enc.inner \in Seq(Exp)
      BY <1>2 DEF Content
    <3>2. Holds([is |-> "text", text |-> enc.what.text], <<>>) \in Content
      BY <2>3, <3>1 DEF Holds, Content
    <3>3. Holds(enc.what.sig, enc.inner) \in Content
      <4> DEFINE q == enc.inner
      <4>1. q \in Seq(Exp)
        BY <3>1
      <4> HIDE DEF q
      <4>2. Holds(enc.what.sig, q) \in Content
        BY <2>3, <3>1, <4>1 DEF Holds, Content
      <4> QED  BY <4>2 DEF q
    <3> HIDE DEF out
    <3> QED  BY <2>2, <3>2, <3>3
  <2>5. Sound(out[1])
    BY <2>2 DEF Sound, Holds
  <2>6. enc.what.sig.is \in {"sig", "cut", "noise"}
    BY <1>3, <2>1 DEF Signature, Cut, Noise
  <2>7. Sound(out[2])
    BY <1>2, <2>1, <2>2, <2>6 DEF Sound, Holds
  <2>8. WriteOK(u) /\ WriteOK(v)
    BY <1>2, <2>4, <2>5, <2>7, FilesExist, FilesDiffer DEF WriteOK
  <2>9. FitsOpened(k, n, id, u[1], u[2].what) /\ FitsOpened(k, n, id, v[1], v[2].what)
    BY <1>1, <1>4, <1>5, <2>2 DEF FitsOpened, Holds, Is
  <2>10. Fits(u[1], u[2].what)
    BY <2>9 DEF Fits
  <2>11. SecondFits'
    BY <1>1, <2>9 DEF Run, SecondFits, FitsOpened
  <2> HIDE DEF u, v
  <2> QED  BY <1>1, <2>8, <2>10, <2>11, RunTwo
<1>6. CASE ~Opens(k, e)
  <2>1. out[1] = Holds(Noise, <<>>) /\ out[2] = Holds(Noise, <<>>)
    BY <1>6 DEF Garbled
  <2>2. Holds(Noise, <<>>) \in Content /\ Sound(Holds(Noise, <<>>))
    BY WhatHas DEF Holds, Content, Sound, Noise
  <2>3. WriteOK(u) /\ WriteOK(v)
    BY <1>2, <2>1, <2>2, FilesExist, FilesDiffer DEF WriteOK
  <2>4. FitsOpened(k, n, id, u[1], u[2].what) /\ FitsOpened(k, n, id, v[1], v[2].what)
    BY <1>1, <1>4, <1>6, <2>1 DEF FitsOpened, Holds, Is
  <2>5. Fits(u[1], u[2].what)
    BY <2>4 DEF Fits
  <2>6. SecondFits'
    BY <1>1, <2>4 DEF Run, SecondFits, FitsOpened
  <2> HIDE DEF u, v
  <2> QED  BY <1>1, <2>3, <2>5, <2>6, RunTwo
<1> QED  BY <1>5, <1>6

LEMMA EditHolds ==
    ASSUME NEW n \in Document, NEW t \in Text
    PROVE  IInv /\ Edit(n, t) => IInv'
<1> SUFFICES ASSUME IInv, Edit(n, t) PROVE IInv'
  OBVIOUS
<1> DEFINE c == Holds([is |-> "text", text |-> t], <<>>)
           u == <<TextFile(n), c>>
<1>1. c \in Content /\ Sound(c)
  BY WhatHas DEF Holds, Content, Sound
<1>2. WriteOK(u)
  BY <1>1, FilesExist, FilesDiffer DEF WriteOK
<1>3. files' \in [File -> Content] /\ FilesSound'
  <2>1. files' = [files EXCEPT ![u[1]] = u[2]]
    BY DEF Edit
  <2> QED  BY <1>2, <2>1, FilesStaySound DEF IInv
<1>4. /\ todo = <<>> /\ todo' = todo /\ opened' = opened
      /\ runs' = runs + 1 /\ runs < MaxRuns
  BY DEF Edit
<1>5. runs' \in 0 .. MaxRuns
  BY <1>4, ExpAssumption DEF IInv, TypeOK
<1> QED  BY <1>3, <1>4, <1>5 DEF IInv, TypeOK, TodoFits

\* The pending writes go on fitting while the first file is open.
LEMMA OpenFileHolds == IInv /\ OpenFile => IInv'
<1> SUFFICES ASSUME IInv, OpenFile PROVE IInv'
  OBVIOUS
<1> DEFINE c == Holds(Empty, <<>>)
<1>1. /\ todo # <<>> /\ todo' = todo /\ opened' = TRUE /\ runs' = runs
      /\ files' = [files EXCEPT ![target] = c]
  BY DEF OpenFile
<1>2. PICK u : /\ WriteOK(u) /\ Fits(u[1], u[2].what) /\ target = u[1]
               /\ \/ todo = <<u>>
                  \/ \E v : todo = <<u, v>> /\ WriteOK(v) /\ SecondFits
  BY <1>1 DEF IInv, TodoFits, target
<1>3. files' \in [File -> Content] /\ FilesSound'
  <2>1. WriteOK(<<u[1], c>>)
    BY <1>2, BrokenOK DEF WriteOK
  <2> HIDE DEF c
  <2>2. files' = [files EXCEPT ![<<u[1], c>>[1]] = <<u[1], c>>[2]]
    BY <1>1, <1>2
  <2> QED  BY <2>1, <2>2, FilesStaySound DEF IInv
<1>4. TypeOK'
  BY <1>1, <1>3 DEF IInv, TypeOK
<1>5. Fits(u[1], u[2].what)'
  <2> HIDE DEF c
  <2> QED  BY <1>1, <1>2, FitsKept DEF IInv
<1>6. CASE todo = <<u>>
  <2>1. todo' = <<u>>
    BY <1>1, <1>6
  <2>2. WriteOK(u) /\ Fits(u[1], u[2].what)'
    BY <1>2, <1>5
  <2> QED  BY <1>3, <1>4, <2>1, <2>2 DEF IInv, TodoFits
<1>7. ASSUME NEW v, todo = <<u, v>>, WriteOK(v), SecondFits
      PROVE  TodoFits'
  <2>1. ASSUME NEW k \in Identity, NEW id \in Identity, NEW n \in Document,
               todo[1][1] = TextFile(BaseName(n, id)),
               todo[2][1] = SigFile(BaseName(n, id)),
               FitsOpened(k, n, id, todo[2][1], todo[2][2].what)
        PROVE  SecondFits'
    <3>1. /\ files'[KeyFile(k)] = files[KeyFile(k)]
          /\ files'[EncFile(n, id)] = files[EncFile(n, id)]
      BY <1>1, <1>2, <2>1, FilesDiffer, FilesExist DEF target, IInv, TypeOK
    <3> QED  BY <1>1, <2>1, <3>1 DEF SecondFits, FitsOpened
  <2>2. SecondFits'
    BY <1>1, <1>7, <2>1 DEF SecondFits
  <2> QED  BY <1>1, <1>2, <1>5, <1>7, <2>2 DEF TodoFits
<1> QED  BY <1>2, <1>3, <1>4, <1>6, <1>7 DEF IInv

LEMMA TailInSeq ==
    ASSUME NEW S, NEW q \in Seq(S), q # <<>> PROVE Tail(q) \in Seq(S)
OBVIOUS

\* A write leaves the directory sound and the next write fitting.
LEMMA WriteFileHolds == IInv /\ WriteFile => IInv'
<1> SUFFICES ASSUME IInv, WriteFile PROVE IInv'
  OBVIOUS
<1>1. /\ todo # <<>> /\ todo' = Tail(todo) /\ opened' = FALSE /\ runs' = runs
      /\ files' = [files EXCEPT ![target] = todo[1][2]]
  BY DEF WriteFile, IInv, TypeOK
<1>2. PICK u : /\ WriteOK(u) /\ Fits(u[1], u[2].what) /\ todo[1] = u
               /\ \/ todo = <<u>>
                  \/ \E v : todo = <<u, v>> /\ WriteOK(v) /\ SecondFits
  BY <1>1 DEF IInv, TodoFits
<1>3. files' \in [File -> Content] /\ FilesSound'
  BY <1>1, <1>2, FilesStaySound DEF IInv, target
<1>4. TypeOK'
  <2>1. todo' \in Seq(File \X Content)
    BY <1>1, TailInSeq DEF IInv, TypeOK
  <2>2. opened' \in BOOLEAN /\ ~opened' /\ runs' \in 0 .. MaxRuns
    BY <1>1 DEF IInv, TypeOK
  <2> QED  BY <1>3, <2>1, <2>2 DEF TypeOK
<1>5. CASE todo = <<u>>
  <2>1. todo' = <<>>
    BY <1>1, <1>5
  <2> QED  BY <1>3, <1>4, <2>1 DEF IInv, TodoFits
<1>6. ASSUME NEW v, todo = <<u, v>>, WriteOK(v), SecondFits
      PROVE  TodoFits'
  <2>1. todo' = <<v>> /\ todo[2] = v
    BY <1>1, <1>6
  <2>2. ASSUME todo[1][1] = PP, todo[2][1] = MSK, todo[1][2].what.is = "params",
               todo[2][2].what = [is |-> "msk", of |-> todo[1][2].what.of]
        PROVE  Fits(v[1], v[2].what)'
    <3>1. files'[PP] = todo[1][2]
      BY <1>1, <2>2, FilesExist DEF target, IInv, TypeOK
    <3> QED  BY <2>1, <2>2, <3>1 DEF Fits, Is
  <2>3. ASSUME NEW k \in Identity, NEW id \in Identity, NEW n \in Document,
               todo[1][1] = TextFile(BaseName(n, id)),
               FitsOpened(k, n, id, todo[2][1], todo[2][2].what)
        PROVE  Fits(v[1], v[2].what)'
    <3>1. /\ files'[KeyFile(k)] = files[KeyFile(k)]
          /\ files'[EncFile(n, id)] = files[EncFile(n, id)]
      BY <1>1, <2>3, FilesDiffer, FilesExist DEF target, IInv, TypeOK
    <3>2. FitsOpened(k, n, id, v[1], v[2].what)'
      BY <2>1, <2>3, <3>1 DEF FitsOpened
    <3> QED  BY <3>2 DEF Fits
  <2>4. Fits(v[1], v[2].what)'
    BY <1>6, <2>2, <2>3 DEF SecondFits
  <2> QED  BY <1>6, <2>1, <2>4 DEF TodoFits
<1> QED  BY <1>2, <1>3, <1>4, <1>5, <1>6 DEF IInv

LEMMA StopHolds == IInv /\ Stop => IInv'
<1> SUFFICES ASSUME IInv, Stop PROVE IInv'
  OBVIOUS
<1> DEFINE c == Holds(Cut, <<>>)
<1>1. /\ todo # <<>> /\ todo' = <<>> /\ opened' = FALSE /\ runs' = runs
      /\ files' = files \/ files' = [files EXCEPT ![target] = c]
  BY DEF Stop
<1>2. PICK u : WriteOK(u) /\ target = u[1]
  BY <1>1 DEF IInv, TodoFits, target
<1>3. files' \in [File -> Content] /\ FilesSound'
  <2>1. CASE files' = files
    BY <2>1 DEF IInv, TypeOK, FilesSound, Is
  <2>2. CASE files' = [files EXCEPT ![target] = c]
    <3>1. WriteOK(<<u[1], c>>)
      BY <1>2, BrokenOK DEF WriteOK
    <3> HIDE DEF c
    <3>2. files' = [files EXCEPT ![<<u[1], c>>[1]] = <<u[1], c>>[2]]
      BY <1>2, <2>2
    <3> QED  BY <3>1, <3>2, FilesStaySound DEF IInv
  <2> QED  BY <1>1, <2>1, <2>2
<1>4. TypeOK'
  <2>1. todo' \in Seq(File \X Content)
    BY <1>1
  <2>2. opened' \in BOOLEAN /\ ~opened' /\ runs' \in 0 .. MaxRuns
    BY <1>1 DEF IInv, TypeOK
  <2> QED  BY <1>3, <2>1, <2>2 DEF TypeOK
<1> QED  BY <1>1, <1>3, <1>4 DEF IInv, TodoFits

LEMMA StepHolds == IInv /\ [Next]_vars => IInv'
<1> SUFFICES ASSUME IInv, [Next]_vars PROVE IInv'
  OBVIOUS
<1>1. CASE Setup
  BY <1>1, SetupHolds
<1>2. ASSUME NEW id \in Identity, Keygen(id) PROVE IInv'
  BY <1>2, KeygenHolds
<1>3. ASSUME NEW id \in Identity, NEW n \in TextName, Sign(id, n) PROVE IInv'
  BY <1>3, SignHolds
<1>4. ASSUME NEW id \in Identity, NEW n \in Document, Encrypt(n, id) PROVE IInv'
  BY <1>4, EncryptHolds
<1>5. ASSUME NEW k \in Identity, NEW id \in Identity, NEW n \in Document,
             Decrypt(k, n, id)
      PROVE  IInv'
  BY <1>5, DecryptHolds
<1>6. CASE OpenFile
  BY <1>6, OpenFileHolds
<1>7. CASE WriteFile
  BY <1>7, WriteFileHolds
<1>8. CASE Stop
  BY <1>8, StopHolds
<1>9. ASSUME NEW n \in Document, NEW t \in Text, Edit(n, t) PROVE IInv'
  BY <1>9, EditHolds
<1>10. CASE UNCHANGED vars
  <2>1. files' = files /\ todo' = todo /\ opened' = opened /\ runs' = runs
    BY <1>10 DEF vars
  <2>2. TypeOK'
    BY <2>1 DEF IInv, TypeOK
  <2>3. FilesSound'
    BY <2>1 DEF IInv, FilesSound, Is
  <2>4. \A f, w : Fits(f, w) => Fits(f, w)'
    BY <2>1 DEF Fits, FitsOpened, Is, text
  <2>5. SecondFits => SecondFits'
    BY <2>1 DEF SecondFits, FitsOpened
  <2>6. TodoFits'
    BY <2>1, <2>4, <2>5 DEF IInv, TodoFits
  <2> QED  BY <2>2, <2>3, <2>6 DEF IInv
<1> QED  BY <1>1, <1>2, <1>3, <1>4, <1>5, <1>6, <1>7, <1>8, <1>9, <1>10 DEF Next

LEMMA Invariance == Spec => []IInv
BY InitHolds, StepHolds, PTL DEF Spec

\* Every file and every pending write is one of the tools', whatever stops them.
THEOREM ToolsTyped == Spec => []TypeOK
BY Invariance, PTL DEF IInv

\* verify accepts what the named signer signed under the setup in use, and
\* nothing else, in every group that meets the assumptions.
THEOREM VerifyIsRight == Spec => []AcceptsOwnOnly
<1>1. IInv => AcceptsOwnOnly
  <2> SUFFICES ASSUME IInv, NEW id \in Identity, NEW n \in TextName, CanVerify(n)
               PROVE  Accepts(id, n) <=>
                        files[SigFile(n)].what
                          = [is |-> "sig", id |-> id,
                             of |-> files[PP].what.of, text |-> text(n)]
    BY DEF AcceptsOwnOnly
  <2> DEFINE w == files[SigFile(n)].what
             p == files[PP].what
  <2>1. /\ files[PP] \in Content /\ Sound(files[PP])
        /\ files[SigFile(n)] \in Content /\ Sound(files[SigFile(n)])
        /\ files[TextFile(n)] \in Content
    BY FilesExist DEF IInv, TypeOK, FilesSound
  <2>2. p.is = "params" /\ w.is = "sig" /\ files[TextFile(n)].what.is = "text"
    BY DEF CanVerify, Is
  <2>3. /\ p.of \in Master /\ w.id \in Identity /\ w.of \in Master /\ w.text \in Text
        /\ w = [is |-> "sig", id |-> w.id, of |-> w.of, text |-> w.text]
        /\ text(n) \in Text
    BY <2>1, <2>2, WhatFields DEF Content, text
  <2>4. PICK g \in Exp : files[PP].num = <<g, Mul(g, p.of)>>
    BY <2>1, <2>2 DEF Sound
  <2>5. num(SigFile(n), 1) = Mul(Mul(H[w.id], w.of), Hash[w.text])
    BY <2>1, <2>2 DEF Sound, sigNum, num
  <2>6. Accepts(id, n) <=>
          Mul(Mul(Mul(H[w.id], w.of), Hash[w.text]), g)
            = Mul(Mul(H[id], Hash[text(n)]), Mul(g, p.of))
    BY <2>4, <2>5 DEF Accepts, num
  <2>7. Accepts(id, n) <=> w.id = id /\ w.of = p.of /\ w.text = text(n)
    BY <2>3, <2>6, VerificationEquation
  <2> HIDE DEF w
  <2>8. w = [is |-> "sig", id |-> id, of |-> p.of, text |-> text(n)]
          <=> w.id = id /\ w.of = p.of /\ w.text = text(n)
    BY <2>3
  <2> QED  BY <2>7, <2>8 DEF w
<1> QED  BY <1>1, Invariance, PTL

\* decrypt gives the message back to the receiver's key of the same setup, and
\* to no other key.
THEOREM DecryptIsRight == Spec => []OpensForReceiverOnly
<1>1. IInv => OpensForReceiverOnly
  BY OpensAgrees DEF IInv, OpensForReceiverOnly, Promise!Opens, Is, Cut, Promise!Cut
<1> QED  BY <1>1, Invariance, PTL

-----------------------------------------------------------------------------
(* The refinement.                                                         *)

keptNow == [f \in File |-> files[f].what]

LEMMA SameFiles ==
    /\ Promise!File = File /\ Promise!TextName = TextName
    /\ Promise!PP = PP /\ Promise!MSK = MSK
    /\ \A i : Promise!KeyFile(i) = KeyFile(i)
    /\ \A n : Promise!TextFile(n) = TextFile(n) /\ Promise!SigFile(n) = SigFile(n)
    /\ \A n, i : /\ Promise!EncFile(n, i) = EncFile(n, i)
                /\ Promise!BaseName(n, i) = BaseName(n, i)
    /\ Promise!Missing = Missing /\ Promise!Empty = Empty
    /\ Promise!Cut = Cut /\ Promise!Noise = Noise
    /\ Promise!Signature = Signature
BY DEF File, TextName, PP, MSK, KeyFile, TextFile, SigFile, EncFile, BaseName,
       Missing, Empty, Cut, Noise, Signature,
       Promise!File, Promise!TextName, Promise!PP, Promise!MSK, Promise!KeyFile,
       Promise!TextFile, Promise!SigFile, Promise!EncFile, Promise!BaseName,
       Promise!Missing, Promise!Empty, Promise!Cut, Promise!Noise, Promise!Signature

LEMMA NoStep == files' = files => keptNow' = keptNow
BY DEF keptNow

\* A write of c to f makes f what c is.
LEMMA Becoming ==
    ASSUME TypeOK, NEW f \in File, NEW c, files' = [files EXCEPT ![f] = c]
    PROVE  [g \in File |-> files'[g].what]
             = [[g \in File |-> files[g].what] EXCEPT ![f] = c.what]
BY DEF TypeOK

LEMMA FittingWrite ==
    ASSUME TypeOK, NEW f \in File, NEW c, Fits(f, c.what),
           files' = [files EXCEPT ![f] = c]
    PROVE  Promise!Next
<1> DEFINE w == c.what
<1>1. [g \in File |-> files'[g].what] = [[g \in File |-> files[g].what] EXCEPT ![f] = w]
  BY Becoming
<1>2. \A x \in File : [g \in File |-> files[g].what][x] = files[x].what
  OBVIOUS
<1>3. \A x \in File : \A tag : [g \in File |-> files[g].what][x].is = tag <=> Is(x, tag)
  BY DEF Is
<1> HIDE DEF w
<1>4. ASSUME f = PP, NEW s \in Master, w = [is |-> "params", of |-> s]
      PROVE  Promise!Next
  BY <1>1, <1>4, SameFiles DEF Promise!Next, Promise!NewParams, Promise!Becomes
<1>5. ASSUME f = MSK, Is(PP, "params"), w = [is |-> "msk", of |-> files[PP].what.of]
      PROVE  Promise!Next
  <2>1. Promise!NewMaster
    BY <1>1, <1>2, <1>3, <1>5, SameFiles, FilesExist
       DEF Promise!NewMaster, Promise!Becomes, Promise!Is
  <2> QED  BY <2>1 DEF Promise!Next
<1>6. ASSUME NEW id \in Identity, f = KeyFile(id), Is(MSK, "msk"),
             w = [is |-> "key", id |-> id, of |-> files[MSK].what.of]
      PROVE  Promise!Next
  <2>1. Promise!Issue(id)
    BY <1>1, <1>2, <1>3, <1>6, SameFiles, FilesExist
       DEF Promise!Issue, Promise!Becomes, Promise!Is
  <2> QED  BY <2>1 DEF Promise!Next
<1>7. ASSUME NEW id \in Identity, NEW n \in TextName,
             f = SigFile(n), Is(KeyFile(id), "key"), Is(TextFile(n), "text"),
             w = [is |-> "sig", id |-> id, of |-> files[KeyFile(id)].what.of,
                  text |-> text(n)]
      PROVE  Promise!Next
  <2>1. Promise!Sign(id, n)
    BY <1>1, <1>2, <1>3, <1>7, SameFiles, FilesExist
       DEF Promise!Sign, Promise!Becomes, Promise!Is, text
  <2> QED  BY <2>1, SameFiles DEF Promise!Next
<1>8. ASSUME NEW n \in Document, NEW id \in Identity,
             f = EncFile(n, id), Is(PP, "params"), Is(TextFile(n), "text"),
             files[SigFile(n)].what \in Signature \cup {Cut, Noise},
             w = [is |-> "enc", id |-> id, of |-> files[PP].what.of,
                  text |-> text(n), sig |-> files[SigFile(n)].what]
      PROVE  Promise!Next
  <2>1. Promise!Seal(n, id)
    BY <1>1, <1>2, <1>3, <1>8, SameFiles, FilesExist
       DEF Promise!Seal, Promise!Becomes, Promise!Is, text
  <2> QED  BY <2>1 DEF Promise!Next
<1>9. ASSUME NEW k \in Identity, NEW id \in Identity, NEW n \in Document,
             FitsOpened(k, n, id, f, w)
      PROVE  Promise!Next
  <2>1. Promise!Open(k, n, id)
    BY <1>1, <1>2, <1>9, SameFiles, FilesExist
       DEF Promise!Open, Promise!Becomes, FitsOpened
  <2> QED  BY <2>1 DEF Promise!Next
<1>10. Fits(f, w)
  BY DEF w
<1> QED  BY <1>4, <1>5, <1>6, <1>7, <1>8, <1>9, <1>10 DEF Fits

LEMMA BrokenWrite ==
    ASSUME TypeOK, NEW f \in File,
           files' = [files EXCEPT ![f] = Holds(Empty, <<>>)]
             \/ files' = [files EXCEPT ![f] = Holds(Cut, <<>>)]
    PROVE  Promise!Next
<1>1. \/ [g \in File |-> files'[g].what] = [[g \in File |-> files[g].what] EXCEPT ![f] = Empty]
      \/ [g \in File |-> files'[g].what] = [[g \in File |-> files[g].what] EXCEPT ![f] = Cut]
  <2>1. Holds(Empty, <<>>).what = Empty /\ Holds(Cut, <<>>).what = Cut
    BY DEF Holds
  <2>2. ASSUME NEW c, files' = [files EXCEPT ![f] = c]
        PROVE  [g \in File |-> files'[g].what]
                 = [[g \in File |-> files[g].what] EXCEPT ![f] = c.what]
    BY <2>2, Becoming
  <2>3. CASE files' = [files EXCEPT ![f] = Holds(Empty, <<>>)]
    BY <2>1, <2>2, <2>3
  <2>4. CASE files' = [files EXCEPT ![f] = Holds(Cut, <<>>)]
    BY <2>1, <2>2, <2>4
  <2> QED  BY <2>3, <2>4
<1> QED  BY <1>1, SameFiles DEF Promise!Next, Promise!Break, Promise!Becomes

\* The tools implement what Provenance promises: whatever step a tool takes,
\* each file is, to whoever may use it, what its history says.
THEOREM ToolsKeepProvenance == Spec => ImplementsProvenance
<1>1. Init => Promise!Init
  BY SameFiles DEF Init, Promise!Init, Holds
<1>2. IInv /\ [Next]_vars => [Promise!Next]_keptNow
  <2> SUFFICES ASSUME IInv, [Next]_vars PROVE Promise!Next \/ keptNow' = keptNow
    OBVIOUS
  <2>1. CASE files' = files
    BY <2>1, NoStep
  <2>2. CASE OpenFile \/ Stop
    <3>1. target \in File \/ todo = <<>>
      BY DEF IInv, TypeOK, TodoFits, WriteOK, target
    <3> QED  BY <2>1, <2>2, <3>1, BrokenWrite DEF IInv, OpenFile, Stop
  <2>3. CASE WriteFile
    <3>1. todo # <<>> /\ files' = [files EXCEPT ![target] = todo[1][2]]
      BY <2>3 DEF WriteFile, IInv, TypeOK
    <3>2. target \in File /\ Fits(target, todo[1][2].what)
      BY <3>1 DEF IInv, TodoFits, WriteOK, target
    <3> QED  BY <3>1, <3>2, FittingWrite DEF IInv
  <2>4. ASSUME NEW n \in Document, NEW t \in Text, Edit(n, t)
        PROVE  Promise!Next
    <3>1. [g \in File |-> files'[g].what]
            = [[g \in File |-> files[g].what] EXCEPT
                  ![TextFile(n)] = [is |-> "text", text |-> t]]
      BY <2>4, FilesExist DEF IInv, TypeOK, Edit, Holds
    <3> QED  BY <3>1, SameFiles DEF Promise!Next, Promise!Edit, Promise!Becomes
  <2>5. CASE UNCHANGED vars
    BY <2>1, <2>5 DEF vars
  <2>6. CASE Next
    BY <2>1, <2>2, <2>3, <2>4, <2>6
       DEF Next, Setup, Keygen, Sign, Encrypt, Decrypt, Run
  <2> QED  BY <2>5, <2>6
<1>3. Promise!Spec <=> Promise!Init /\ [][Promise!Next]_keptNow
  BY DEF Promise!Spec, keptNow
<1> QED  BY <1>1, <1>2, <1>3, Invariance, PTL DEF Spec, ImplementsProvenance

===============================================================================
