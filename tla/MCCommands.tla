----------------------------- MODULE MCCommands -----------------------------
(* An instance of Commands for TLC: three accounts, one on the ledger, one *)
(* in the keystore, and one whose keystore file holds another's key.       *)
EXTENDS Commands

CONSTANTS a1, a2, a3

Scalar(t, size) == Type(t, size, None)
Array(elem, size) == Type("array", size, elem)

\* Two widths stand for 8 to 64 bits and two for 128 and 256; no case takes 4 bits or 3 bytes.
Natives == {2, 3}
Bigs == {5, 6}
Bits == 6
Lengths == {1, 2}
AddressBytes == 2

Scalars == {Scalar("int", 2), Scalar("uint", 3), Scalar("uint", 4), Scalar("uint", 5), Scalar("int", 6),
            Scalar("bool", 1), Scalar("string", 0), Scalar("address", 2), Scalar("bytes", 0),
            Scalar("fixed", 2), Scalar("fixed", 3), Scalar("function", 3)}

\* Numbers in and out of the ranges, up to three bytes of hexadecimal, a word, and "true"
Number(n) == Text(n, <<1>>, n >= 0, FALSE)
Hex(b) == Text(NoNumber, b, TRUE, FALSE)
Word == Text(NoNumber, <<>>, FALSE, FALSE)
SomeTexts == {Number(-1), Number(1), Number(6), Number(40), Hex(<<1>>), Hex(<<1, 2>>), Hex(<<1, 2, 3>>),
          Hex(<<>>), Word, Text(NoNumber, <<>>, FALSE, TRUE)}

Lists == {<<Number(1)>>, <<Number(1), Number(6)>>, <<Hex(<<1, 2>>), Hex(<<>>)>>, <<Number(6), Word>>}

Cases ==
    {[types |-> <<t>>, args |-> <<<<x>>>>] : t \in Scalars, x \in SomeTexts}
    \union {[types |-> <<Array(t, n)>>, args |-> <<l>>] :
               t \in {Scalar("int", 2), Scalar("uint", 3), Scalar("fixed", 2), Array(Scalar("uint", 3), 0)},
               n \in {0, 2}, l \in Lists}
    \union {[types |-> <<Scalar("uint", 3)>>, args |-> <<<<Number(1), Number(6)>>>>],
             [types |-> <<Scalar("uint", 3)>>, args |-> <<>>],
             [types |-> <<>>, args |-> <<>>],
             [types |-> <<Scalar("bool", 1), Scalar("int", 2)>>, args |-> <<<<Word>>, <<Number(1)>>>>]}

Files == [a \in Addresses |-> IF a = a1 THEN None ELSE a2]

=============================================================================
