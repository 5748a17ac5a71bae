------------------------------- MODULE ToolFiles -------------------------------
(***************************************************************************)
(* The files of the command-line tools of crypto-c: their names and what   *)
(* each may be.                                                            *)
(***************************************************************************)
EXTENDS Sequences, Naturals

CONSTANTS
    Identity,   \* user identities, as the sequences of their dot-free parts
    Document,   \* names of message files, in the same form
    Text,       \* what a message file may say
    Master,     \* master secrets of the setups
    NoName      \* fills the places of a file's name that are not used

ASSUME NamesAssumption ==
    /\ Identity \subseteq Seq(STRING) \ {<<>>}
    /\ Document \subseteq Seq(STRING)

\* extract_base_filename of the name <n>.<id>.enc: what precedes the second
\* last dot.
BaseName(n, id) == SubSeq(n \o id, 1, Len(n \o id) - 1)

TextName == Document \cup {BaseName(n, id) : n \in Document, id \in Identity}

PP             == <<"params", NoName, NoName>>
MSK            == <<"msk", NoName, NoName>>
KeyFile(id)    == <<"key", NoName, id>>
TextFile(n)    == <<"text", n, NoName>>
SigFile(n)     == <<"sig", n, NoName>>
EncFile(n, id) == <<"enc", n, id>>

File == {PP, MSK} \cup {KeyFile(id) : id \in Identity}
          \cup {TextFile(n) : n \in TextName} \cup {SigFile(n) : n \in TextName}
          \cup {EncFile(n, id) : n \in Document, id \in Identity}

\* No file, an empty one, one cut short, and the bytes a wrong key gives.
Missing == [is |-> "missing"]
Empty   == [is |-> "empty"]
Cut     == [is |-> "cut"]
Noise   == [is |-> "noise"]

Signature == [is : {"sig"}, id : Identity, of : Master, text : Text]

What == {Missing, Empty, Cut, Noise} \cup Signature
          \cup [is : {"params", "msk"}, of : Master]
          \cup [is : {"key"}, id : Identity, of : Master]
          \cup [is : {"text"}, text : Text]
          \cup [is : {"enc"}, id : Identity, of : Master, text : Text,
                sig : Signature \cup {Cut, Noise}]

===============================================================================
