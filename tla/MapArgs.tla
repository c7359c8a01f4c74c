------------------------------- MODULE MapArgs -------------------------------
(***************************************************************************)
(* What the commands make of the arguments on their line (map_args.go),    *)
(* and what becomes of that in the data of a transaction.                  *)
(*                                                                         *)
(* An argument is a text, and for an array the texts between its commas:   *)
(* never none, for an empty argument is one empty text.  A text is what it *)
(* can be read as: a number or None; hexadecimal, up to its first other    *)
(* character, and whole if there is none; "true" in any case of letters.   *)
(*                                                                         *)
(* Widths are scaled: NativeSizes stand for 8, 16, 32 and 64 bits, BigSizes *)
(* for 128 and 256, WordBits for the 256 bits of a word, FixedSizes for    *)
(* the lengths of fixed bytes that the code has a case for.                *)
(***************************************************************************)
EXTENDS Integers, Sequences

CONSTANTS NativeSizes, BigSizes, WordBits, FixedSizes, AddressLen, NoNumber

ASSUME SizeAssumption ==
    /\ \A n \in NativeSizes \union BigSizes : n \in 1..WordBits
    /\ NativeSizes \cap BigSizes = {}
    /\ WordBits \in Nat /\ AddressLen \in Nat
    /\ NoNumber \notin Int

Text(num, lead, whole, true) == [num |-> num, lead |-> lead, whole |-> whole, true |-> true]
Texts == [num: Int \union {NoNumber}, lead: Seq(Nat), whole: BOOLEAN, true: BOOLEAN]
Arguments == Seq(Texts) \ {<<>>}

Type(t, size, elem) == [t |-> t, size |-> size, elem |-> elem]

Ok(v) == [end |-> "ok", val |-> v]
Error == [end |-> "error", val |-> <<>>]
Panic == [end |-> "panic", val |-> <<>>]

\* The numbers of a type, and what a conversion to it leaves of any.
Numbers(type) ==
    IF type.t = "uint" THEN 0..(2 ^ type.size - 1)
    ELSE -(2 ^ (type.size - 1))..(2 ^ (type.size - 1) - 1)

Converted(type, n) ==
    CHOOSE m \in Numbers(type) : m % (2 ^ type.size) = n % (2 ^ type.size)

\* ParseInt and ParseUint refuse what the width does not hold.
Parses_AnyWidth(type, n) == TRUE
Parses(type, n) == n \in Numbers(type)

\* Big integers are taken as they come.  Of the other sizes none has a case.
MapNumber(type, text) ==
    IF text.num = NoNumber THEN Error
    ELSE IF type.size \in BigSizes THEN Ok(text.num)
    ELSE IF type.size \in NativeSizes /\ Parses(type, text.num)
    THEN Ok(Converted(type, text.num))
    ELSE Error

Zeros(n) == [i \in 1..n |-> 0]
Fit(bytes, n) == SubSeq(bytes \o Zeros(n), 1, n)

\* Addresses are cropped or filled from the left, and are never refused.
FitLeft(bytes, n) == LET b == Zeros(n) \o bytes IN SubSeq(b, Len(b) - n + 1, Len(b))

MapScalar(type, text) ==
    CASE type.t \in {"int", "uint"} -> MapNumber(type, text)
      [] type.t = "bool" -> Ok(text.true)
      [] type.t = "string" -> Ok(text)
      [] type.t = "address" -> Ok(FitLeft(text.lead, AddressLen))
      [] type.t = "bytes" -> IF text.whole THEN Ok(text.lead) ELSE Panic
      [] type.t = "fixed" -> IF type.size \notin FixedSizes THEN Error
                             ELSE IF text.whole THEN Ok(Fit(text.lead, type.size)) ELSE Panic
      [] OTHER -> Error

\* The first that fails ends the loop.
First(S) == CHOOSE i \in S : \A j \in S : i <= j

InOrder(results) ==
    LET bad == {i \in DOMAIN results : results[i].end # "ok"}
    IN  IF bad = {} THEN Ok([i \in DOMAIN results |-> results[i].val]) ELSE results[First(bad)]

\* A text with commas, for a type that is no array
Whole(arg) == IF Len(arg) = 1 THEN arg[1] ELSE Text(NoNumber, arg[1].lead, FALSE, FALSE)

\* An array of arrays is an error.  The number of elements is not looked at.
MapInput(type, arg) ==
    IF type.t = "array" THEN InOrder([i \in DOMAIN arg |-> MapScalar(type.elem, arg[i])])
    ELSE MapScalar(type, Whole(arg))

MapStringArgs(types, args) ==
    IF Len(types) # Len(args) THEN Error
    ELSE InOrder([i \in DOMAIN types |-> MapInput(types[i], args[i])])

-----------------------------------------------------------------------------
(* The ABI, packing values into words and reading them back.  An array     *)
(* whose length is part of its type has that length (size 0: any length).  *)

Packs(type, v) == type.t = "array" => type.size \in {0, Len(v)}

PackScalar(type, v) == IF type.t \in {"int", "uint"} THEN v % (2 ^ WordBits) ELSE v

Pack(type, v) ==
    IF type.t = "array" THEN [i \in DOMAIN v |-> PackScalar(type.elem, v[i])] ELSE PackScalar(type, v)

Read(type, w) == Converted(Type(type.t, WordBits, type.elem), w)

-----------------------------------------------------------------------------
(* What a caller means by a text.  As an address or as fixed bytes it      *)
(* means something only if it has their length: a longer or a shorter one  *)
(* is cut or filled without a word, and is sent as bytes that nobody       *)
(* wrote.  A big integer out of its type's range is sent as another.       *)

SaysScalar(type, text, w) ==
    CASE type.t \in {"int", "uint"} ->
             type.size \in NativeSizes \/ text.num \in Numbers(type) => Read(type, w) = text.num
      [] type.t = "bool" -> w = text.true
      [] type.t = "string" -> w = text
      [] type.t = "address" -> Len(text.lead) = AddressLen => w = text.lead
      [] type.t = "bytes" -> w = text.lead
      [] type.t = "fixed" -> Len(text.lead) = type.size => w = text.lead

Says(type, arg, w) ==
    IF type.t = "array"
    THEN Len(w) = Len(arg) /\ \A i \in DOMAIN w : SaysScalar(type.elem, arg[i], w[i])
    ELSE SaysScalar(type, Whole(arg), w)

=============================================================================
