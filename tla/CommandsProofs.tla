--------------------------- MODULE CommandsProofs ---------------------------
(* Theorems about Commands, for any accounts, ledger, keystore and         *)
(* arguments.                                                              *)
EXTENDS Commands, FiniteSetTheorems, WellFoundedInduction, TLAPS

AnyAccount == [from: Addresses \union {Zero}, signer: Addresses \union {Bad, None}]

\* Whose key can sign for an account: the three places keys are kept, and what the options say.
Rightful(a) ==
    a.signer = a.from
    => /\ opt.from # Zero => a.from = opt.from
       /\ a.signer \in Addresses
       /\ \/ opt.ledger /\ a.signer \in OnLedger
          \/ ~opt.ledger /\ a.signer = opt.fromPk
          \/ ~opt.ledger /\ opt.fromPk = None /\ KeyFile[a.from] = a.signer

\* An account that the options lead to signs as they say or not at all.
LEMMA AccountsAreRightful ==
    ASSUME opt \in Options, NEW a \in Accounts
    PROVE  [from |-> a.from, signer |-> a.signer] \in AnyAccount /\ Rightful(a)
<1> USE CommandAssumption DEF Options, AnyAccount, Rightful, Failed, Nothing, Account
<1>1. CASE opt.ledger
  BY <1>1 DEF Accounts, LedgerAccount
<1>2. CASE ~opt.ledger /\ opt.fromPk # None
  <2>1. a \in RawKeyAccount
    BY <1>2 DEF Accounts
  <2>2. CASE opt.fromPk = Bad \/ opt.from \notin {Zero, opt.fromPk}
    BY <2>1, <2>2 DEF RawKeyAccount
  <2>3. CASE opt.fromPk # Bad /\ opt.from \in {Zero, opt.fromPk}
    <3>1. a \in {Account(opt.fromPk, opt.fromPk), Nothing}
      BY <2>1, <2>3 DEF RawKeyAccount
    <3>. QED
      BY <1>2, <2>3, <3>1
  <2>. QED
    BY <2>2, <2>3
<1>3. CASE ~opt.ledger /\ opt.fromPk = None /\ opt.keystoreDir # None
  <2>1. a \in KeystoreAccount
    BY <1>3 DEF Accounts
  <2>. QED
    BY <1>3, <2>1 DEF KeystoreAccount
<1>4. CASE ~opt.ledger /\ opt.fromPk = None /\ opt.keystoreDir = None
  BY <1>4 DEF Accounts
<1>. QED
  BY <1>1, <1>2, <1>3, <1>4

-----------------------------------------------------------------------------
(* Numbers: what the packing of one into a word and its reading leave.     *)

\* A power of two is the number of sets of as many numbers.
LEMMA PowerIsPositive ==
    ASSUME NEW n \in Nat
    PROVE  2 ^ n \in Nat /\ 2 ^ n >= 1 /\ IsFiniteSet(SUBSET (1..n))
           /\ Cardinality(SUBSET (1..n)) = 2 ^ n
<1>1. IsFiniteSet(1..n) /\ Cardinality(1..n) = n
  BY FS_Interval
<1>2. IsFiniteSet(SUBSET (1..n)) /\ Cardinality(SUBSET (1..n)) = 2 ^ n
  BY <1>1, FS_SUBSET
<1>3. 2 ^ n \in Nat
  BY <1>2, FS_CardinalityType
<1>4. 2 ^ n # 0
  BY <1>2, FS_EmptySet
<1>. QED
  BY <1>2, <1>3, <1>4

\* The more bits, the more.
LEMMA PowerGrows ==
    ASSUME NEW m \in Nat, NEW n \in Nat, m <= n
    PROVE  2 ^ m <= 2 ^ n
<1>1. SUBSET (1..m) \subseteq SUBSET (1..n)
  OBVIOUS
<1>2. IsFiniteSet(SUBSET (1..n)) /\ Cardinality(SUBSET (1..n)) = 2 ^ n
  BY PowerIsPositive
<1>3. Cardinality(SUBSET (1..m)) = 2 ^ m
  BY PowerIsPositive
<1>4. SUBSET (1..m) \in SUBSET (SUBSET (1..n))
  BY <1>1
<1>5. Cardinality(SUBSET (1..m)) <= Cardinality(SUBSET (1..n))
  BY <1>2, <1>4, FS_Subset
<1>. QED
  BY <1>2, <1>3, <1>5

\* Of the sets of the first n+1 numbers, half have the last.
LEMMA PowerDoubles ==
    ASSUME NEW n \in Nat
    PROVE  2 ^ (n + 1) = 2 ^ n + 2 ^ n
<1> DEFINE all == SUBSET (1..(n + 1))
           without == SUBSET (1..n)
           with == {A \in all : n + 1 \in A}
           add == [A \in without |-> A \union {n + 1}]
<1>1. ASSUME NEW A \in without PROVE A \union {n + 1} \in with /\ n + 1 \notin A /\ A \in all
  <2>1. n + 1 \notin A
    OBVIOUS
  <2>2. \A x \in A \union {n + 1} : x \in 1..(n + 1)
    OBVIOUS
  <2>. QED
    BY <2>1, <2>2
<1>2. ASSUME NEW A \in all, n + 1 \notin A PROVE A \in without
  <2>1. \A x \in A : x \in 1..n
    <3> SUFFICES ASSUME NEW x \in A PROVE x \in 1..n
      OBVIOUS
    <3>1. x \in 1..(n + 1) /\ x # n + 1
      BY <1>2
    <3>. QED
      BY <3>1
  <2>. QED
    BY <2>1
<1>3. ASSUME NEW A \in with
      PROVE  A \ {n + 1} \in without /\ (A \ {n + 1}) \union {n + 1} = A
  <2>1. A \ {n + 1} \in all
    BY DEF with
  <2>. QED
    BY <1>2, <2>1 DEF with
<1>4. add \in [without -> with]
  BY <1>1
<1>5. \A A, B \in without : add[A] = add[B] => A = B
  <2> SUFFICES ASSUME NEW A \in without, NEW B \in without, add[A] = add[B] PROVE A = B
    OBVIOUS
  <2>1. A \union {n + 1} = B \union {n + 1} /\ n + 1 \notin A /\ n + 1 \notin B
    BY <1>1
  <2>. QED
    BY <2>1
<1>6. \A A \in with : \E B \in without : add[B] = A
  BY <1>3
<1>7. without \intersect with = {}
  BY <1>1
<1>8. all = without \union with
  <2>1. \A A \in all : A \in without \union with
    BY <1>2
  <2>2. \A A \in without \union with : A \in all
    BY <1>1
  <2>. QED
    BY <2>1, <2>2
<1>9. IsFiniteSet(without) /\ Cardinality(without) = 2 ^ n
  BY PowerIsPositive
<1>10. Cardinality(all) = 2 ^ (n + 1)
  <2>1. n + 1 \in Nat
    OBVIOUS
  <2>. QED
    BY <2>1, PowerIsPositive
<1> HIDE DEF all, without, with, add
<1>11. DOMAIN add = without
  BY <1>4
<1>12. add \in Bijection(without, with)
  BY <1>4, <1>5, <1>6, <1>11 DEF Bijection, Injection, Surjection, IsInjective
<1>13. IsFiniteSet(with) /\ Cardinality(with) = 2 ^ n
  BY <1>9, <1>12, FS_Bijection DEF ExistsBijection
<1>14. Cardinality(without \intersect with) = 0
  BY <1>7, FS_EmptySet
<1>15. Cardinality(without \union with) = 2 ^ n + 2 ^ n - 0
  BY <1>9, <1>13, <1>14, FS_Union
<1>16. 2 ^ n \in Nat
  BY PowerIsPositive
<1>. QED
  BY <1>8, <1>10, <1>15, <1>16

\* Of consecutive numbers, no more than the modulus, no two leave the same remainder.
LEMMA OneOfAWidth ==
    ASSUME NEW W \in Nat, W >= 1, NEW a \in Int,
           NEW m \in a..(a + W - 1), NEW n \in a..(a + W - 1), m % W = n % W
    PROVE  m = n
<1> DEFINE p == m \div W
           q == n \div W
<1>1. m = W * p + (m % W) /\ n = W * q + (n % W) /\ p \in Int /\ q \in Int
  OBVIOUS
<1> HIDE DEF p, q
<1>2. m - n = W * (p - q)
  BY <1>1
<1>3. m - n < W /\ n - m < W
  OBVIOUS
<1>4. ~(p - q >= 1)
  BY <1>1, <1>2, <1>3
<1>5. ~(q - p >= 1)
  BY <1>1, <1>2, <1>3
<1>. QED
  BY <1>1, <1>2, <1>4, <1>5

\* How many numbers a type has
Width(type) == 2 ^ type.size

\* The numbers of a type are as many consecutive ones as its size can tell apart.
LEMMA NumbersAreAWidth ==
    ASSUME NEW type, type.t \in {"int", "uint"}, type.size \in Nat \ {0}
    PROVE  /\ Width(type) \in Nat /\ Width(type) >= 1
           /\ \E a \in Int : Numbers(type) = a..(a + Width(type) - 1)
<1>1. 2 ^ type.size \in Nat /\ 2 ^ type.size >= 1 /\ 2 ^ (type.size - 1) \in Nat
  <2>1. type.size \in Nat /\ type.size - 1 \in Nat
    OBVIOUS
  <2>. QED
    BY <2>1, PowerIsPositive
<1>2. 2 ^ type.size = 2 ^ (type.size - 1) + 2 ^ (type.size - 1)
  <2> DEFINE n == type.size - 1
  <2>1. n \in Nat /\ n + 1 = type.size
    OBVIOUS
  <2> HIDE DEF n
  <2>2. 2 ^ (n + 1) = 2 ^ n + 2 ^ n
    BY <2>1, PowerDoubles
  <2>. QED
    BY <2>1, <2>2 DEF n
<1> DEFINE W == Width(type)
           H == 2 ^ (type.size - 1)
<1>3. Numbers(type) = IF type.t = "uint" THEN 0..(W - 1) ELSE (-H)..(H - 1)
  BY DEF Numbers, Width
<1>4. W \in Nat /\ W >= 1 /\ H \in Nat /\ W = H + H
  BY <1>1, <1>2 DEF Width
<1> HIDE DEF H, W
<1>5. CASE type.t = "uint"
  <2>1. Numbers(type) = 0..(0 + W - 1)
    BY <1>3, <1>4, <1>5
  <2>. QED
    BY <1>4, <2>1 DEF W
<1>6. CASE type.t = "int"
  <2>1. Numbers(type) = (-H)..((-H) + W - 1) /\ -H \in Int
    BY <1>3, <1>4, <1>6
  <2>. QED
    BY <1>4, <2>1 DEF W
<1>. QED
  BY <1>5, <1>6

\* A conversion leaves the number that it should.
LEMMA ConvertedIs ==
    ASSUME NEW type, type.t \in {"int", "uint"}, type.size \in Nat \ {0},
           NEW k \in Numbers(type), NEW n, k % Width(type) = n % Width(type)
    PROVE  Converted(type, n) = k
<1> DEFINE W == Width(type)
<1>3. Converted(type, n) = CHOOSE m \in Numbers(type) : m % W = n % W
  BY DEF Converted, Width
<1>4. k % W = n % W
  OBVIOUS
<1>1. PICK a \in Int : Numbers(type) = a..(a + W - 1)
  BY NumbersAreAWidth
<1>2. W \in Nat /\ W >= 1
  BY NumbersAreAWidth
<1> HIDE DEF W
<1> DEFINE c == Converted(type, n)
<1>5. c \in Numbers(type) /\ c % W = n % W
  BY <1>3, <1>4
<1> HIDE DEF c
<1>6. c = k
  BY <1>1, <1>2, <1>4, <1>5, OneOfAWidth
<1>. QED
  BY <1>6 DEF c

\* A number of a type is one of a word that is read by it.
LEMMA NumbersOfAWord ==
    ASSUME NEW type, type.t \in {"int", "uint"}, type.size \in 1..WordBits
    PROVE  Numbers(type) \subseteq Numbers(Type(type.t, WordBits, type.elem))
<1> DEFINE s == type.size
           W == 2 ^ s
           V == 2 ^ WordBits
           H == 2 ^ (s - 1)
           G == 2 ^ (WordBits - 1)
<1>1. WordBits \in Nat /\ s \in Nat /\ s - 1 \in Nat /\ WordBits - 1 \in Nat /\ s <= WordBits
      /\ s - 1 <= WordBits - 1
  BY SizeAssumption
<1>2. W \in Nat /\ V \in Nat /\ W <= V
  BY <1>1, PowerIsPositive, PowerGrows
<1>3. H \in Nat /\ G \in Nat /\ H <= G
  <2> DEFINE i == s - 1
             j == WordBits - 1
  <2>1. i \in Nat /\ j \in Nat /\ i <= j
    BY <1>1
  <2> HIDE DEF i, j
  <2>2. 2 ^ i \in Nat /\ 2 ^ j \in Nat /\ 2 ^ i <= 2 ^ j
    BY <2>1, PowerIsPositive, PowerGrows
  <2>. QED
    BY <2>2 DEF i, j
<1>4. Numbers(type) = IF type.t = "uint" THEN 0..(W - 1) ELSE (-H)..(H - 1)
  BY DEF Numbers
<1>5. Numbers(Type(type.t, WordBits, type.elem))
      = IF type.t = "uint" THEN 0..(V - 1) ELSE (-G)..(G - 1)
  BY DEF Numbers, Type
<1> HIDE DEF s, W, V, H, G
<1>. QED
  BY <1>2, <1>3, <1>4, <1>5

\* A number of a type, packed into a word, is read back.
LEMMA NumberIsRead ==
    ASSUME NEW type, type.t \in {"int", "uint"}, type.size \in 1..WordBits, NEW n \in Numbers(type)
    PROVE  Read(type, n % (2 ^ WordBits)) = n
<1> DEFINE word == Type(type.t, WordBits, type.elem)
           V == Width(word)
           r == n % V
<1>1. word.t \in {"int", "uint"} /\ word.size \in Nat \ {0} /\ V = 2 ^ WordBits
  BY SizeAssumption DEF Type, Width
<1>2. n \in Numbers(word)
  BY NumbersOfAWord
<1>3. Read(type, n % (2 ^ WordBits)) = Converted(word, r)
  BY <1>1 DEF Read
<1> HIDE DEF word
<1>4. V \in Nat /\ V >= 1 /\ \E a \in Int : Numbers(word) = a..(a + V - 1)
  BY <1>1, NumbersAreAWidth
<1> HIDE DEF V
<1>5. n % V = r % V
  <2>1. n \in Int
    BY <1>2, <1>4
  <2>2. r \in 0..(V - 1)
    BY <1>4, <2>1
  <2>3. r % V = r
    BY <1>4, <2>2
  <2>. QED
    BY <2>3
<1> HIDE DEF r
<1>6. n % Width(word) = r % Width(word)
  BY <1>5 DEF V
<1>7. Converted(word, r) = n
  BY <1>1, <1>2, <1>6, ConvertedIs
<1>. QED
  BY <1>3, <1>7

-----------------------------------------------------------------------------
(* Arguments: what is packed of a text says what is written.               *)

\* A set of numbers has a first.
LEMMA FirstIsIn ==
    ASSUME NEW S \in SUBSET Nat, S # {}
    PROVE  First(S) \in S
<1>1. PICK x \in S : \A y \in S : ~(<<y, x>> \in OpToRel(<, Nat))
  BY WFMin, NatLessThanWellFounded
<1>2. \A y \in S : x <= y
  <2> SUFFICES ASSUME NEW y \in S, y < x PROVE FALSE
    OBVIOUS
  <2>1. <<y, x>> \in {ss \in Nat \X Nat : ss[1] < ss[2]}
    OBVIOUS
  <2>2. {ss \in Nat \X Nat : ss[1] < ss[2]} = OpToRel(<, Nat)
    BY DEF OpToRel
  <2>. QED
    BY <1>1, <2>1, <2>2
<1>. QED
  BY <1>2 DEF First

\* A result of a loop that went through has the values of all its steps.
LEMMA AllInOrder ==
    ASSUME NEW results, DOMAIN results \subseteq Nat, InOrder(results).end = "ok"
    PROVE  /\ \A i \in DOMAIN results : results[i].end = "ok"
           /\ InOrder(results).val = [i \in DOMAIN results |-> results[i].val]
<1> DEFINE bad == {i \in DOMAIN results : results[i].end # "ok"}
<1>1. bad = {}
  <2> SUFFICES ASSUME bad # {} PROVE FALSE
    OBVIOUS
  <2>1. results[First(bad)].end = "ok"
    BY DEF InOrder
  <2>2. First(bad) \in bad
    BY FirstIsIn
  <2>. QED
    BY <2>1, <2>2
<1>2. InOrder(results).val = [i \in DOMAIN results |-> results[i].val]
  BY <1>1 DEF InOrder, Ok
<1>. QED
  BY <1>1, <1>2

\* A number is sent as itself if its type holds it.
LEMMA NumberSays ==
    ASSUME NEW type, type.t \in {"int", "uint"}, NEW text \in Texts,
           MapNumber(type, text).end = "ok",
           type.size \in NativeSizes \/ text.num \in Numbers(type)
    PROVE  Read(type, PackScalar(type, MapNumber(type, text).val)) = text.num
<1> DEFINE v == MapNumber(type, text).val
<1>1. type.size \in 1..WordBits /\ text.num \in Int
  BY SizeAssumption DEF MapNumber, Error, Texts
<1>2. text.num \in Numbers(type) /\ v = text.num
  <2>1. CASE type.size \in BigSizes
    BY <2>1, SizeAssumption DEF MapNumber, Error, Ok
  <2>2. CASE type.size \notin BigSizes
    <3>1. text.num \in Numbers(type) /\ v = Converted(type, text.num)
      BY <2>2 DEF MapNumber, Error, Ok, Parses
    <3>2. type.size \in Nat \ {0}
      BY <1>1, SizeAssumption
    <3>3. Converted(type, text.num) = text.num
      BY <3>1, <3>2, ConvertedIs
    <3>. QED
      BY <3>1, <3>3
  <2>. QED
    BY <2>1, <2>2
<1>3. PackScalar(type, v) = text.num % (2 ^ WordBits)
  BY <1>2 DEF PackScalar
<1>. QED
  BY <1>1, <1>2, <1>3, NumberIsRead

\* What follows a prefix is all of the rest.
LEMMA AfterPrefix ==
    ASSUME NEW z \in Seq(Nat), NEW s \in Seq(Nat)
    PROVE  /\ Len(z \o s) = Len(z) + Len(s)
           /\ SubSeq(z \o s, Len(z) + 1, Len(z) + Len(s)) = s
<1> DEFINE b == z \o s
           t == SubSeq(b, Len(z) + 1, Len(z) + Len(s))
<1>1. Len(z) \in Nat /\ Len(s) \in Nat
  OBVIOUS
<1>2. b \in Seq(Nat) /\ Len(b) = Len(z) + Len(s)
      /\ \A i \in 1..Len(s) : b[Len(z) + i] = s[i]
  OBVIOUS
<1> HIDE DEF b
<1>3. t = [i \in 1..Len(s) |-> b[Len(z) + i]]
  BY <1>1, <1>2
<1>4. s = [i \in 1..Len(s) |-> s[i]]
  OBVIOUS
<1>5. t = s
  BY <1>2, <1>3, <1>4
<1>. QED
  BY <1>2, <1>5 DEF b

\* An address of the right length is not changed.
LEMMA FitLeftKeeps ==
    ASSUME NEW bytes \in Seq(Nat)
    PROVE  FitLeft(bytes, Len(bytes)) = bytes
<1> DEFINE n == Len(bytes)
           z == Zeros(n)
<1>1. n \in Nat /\ z \in Seq(Nat) /\ Len(z) = n
  BY DEF Zeros
<1>2. FitLeft(bytes, n) = SubSeq(z \o bytes, Len(z \o bytes) - n + 1, Len(z \o bytes))
  BY DEF FitLeft
<1> HIDE DEF z
<1>3. /\ Len(z \o bytes) = Len(z) + Len(bytes)
      /\ SubSeq(z \o bytes, Len(z) + 1, Len(z) + Len(bytes)) = bytes
  BY <1>1, AfterPrefix
<1> HIDE DEF n
<1>4. Len(z) + Len(bytes) - n + 1 = Len(z) + 1
  BY <1>1 DEF n
<1>. QED
  BY <1>2, <1>3, <1>4 DEF n

\* Nor are fixed bytes of the right length.
LEMMA FitKeeps ==
    ASSUME NEW bytes \in Seq(Nat)
    PROVE  Fit(bytes, Len(bytes)) = bytes
<1> DEFINE n == Len(bytes)
           b == bytes \o Zeros(n)
<1>1. n \in Nat /\ Zeros(n) \in Seq(Nat) /\ Len(Zeros(n)) = n
  BY DEF Zeros
<1>2. b \in Seq(Nat) /\ Len(b) = n + n /\ \A i \in 1..n : b[i] = bytes[i]
  BY <1>1
<1> HIDE DEF b
<1>3. SubSeq(b, 1, n) = [i \in 1..n |-> b[i]]
  BY <1>1, <1>2
<1>4. bytes = [i \in 1..n |-> bytes[i]]
  OBVIOUS
<1>5. SubSeq(b, 1, n) = bytes
  BY <1>2, <1>3, <1>4
<1>. QED
  BY <1>5 DEF Fit, b

\* What is packed of a text says what is written, whatever its type.
LEMMA ScalarSays ==
    ASSUME NEW type, NEW text \in Texts, MapScalar(type, text).end = "ok"
    PROVE  SaysScalar(type, text, PackScalar(type, MapScalar(type, text).val))
<1>1. CASE type.t \in {"int", "uint"}
  <2>1. MapScalar(type, text) = MapNumber(type, text)
    BY <1>1 DEF MapScalar
  <2> DEFINE w == PackScalar(type, MapNumber(type, text).val)
  <2>2. type.size \in NativeSizes \/ text.num \in Numbers(type) => Read(type, w) = text.num
    BY <1>1, <2>1, NumberSays
  <2> HIDE DEF w
  <2>3. SaysScalar(type, text, w)
    BY <1>1, <2>2 DEF SaysScalar
  <2>. QED
    BY <2>1, <2>3 DEF w
<1>2. CASE type.t = "address"
  <2>1. Len(text.lead) = AddressLen => FitLeft(text.lead, AddressLen) = text.lead
    BY FitLeftKeeps DEF Texts
  <2>. QED
    BY <1>2, <2>1 DEF SaysScalar, MapScalar, Ok, PackScalar
<1>3. CASE type.t \in {"bool", "string"}
  BY <1>3 DEF SaysScalar, MapScalar, Ok, PackScalar
<1>4. CASE type.t = "bytes"
  BY <1>4 DEF SaysScalar, MapScalar, Ok, PackScalar, Panic
<1>5. CASE type.t = "fixed"
  <2>1. Len(text.lead) = type.size => Fit(text.lead, type.size) = text.lead
    BY FitKeeps DEF Texts
  <2>. QED
    BY <1>5, <2>1 DEF SaysScalar, MapScalar, Ok, PackScalar, Panic, Error
<1>6. type.t \in {"int", "uint", "address", "bool", "string", "bytes", "fixed"}
  BY DEF MapScalar, Error
<1>. QED
  BY <1>1, <1>2, <1>3, <1>4, <1>5, <1>6

\* So do the words of an argument.
LEMMA InputSays ==
    ASSUME NEW type, NEW arg \in Arguments, MapInput(type, arg).end = "ok"
    PROVE  Says(type, arg, Pack(type, MapInput(type, arg).val))
<1>1. CASE type.t = "array"
  <2> DEFINE results == [i \in DOMAIN arg |-> MapScalar(type.elem, arg[i])]
             w == Pack(type, MapInput(type, arg).val)
  <2>1. MapInput(type, arg) = InOrder(results)
    BY <1>1 DEF MapInput
  <2>2. arg \in Seq(Texts) /\ DOMAIN arg = 1..Len(arg) /\ Len(arg) \in Nat
    BY DEF Arguments
  <2>3. /\ \A i \in DOMAIN arg : results[i].end = "ok"
        /\ MapInput(type, arg).val = [i \in DOMAIN arg |-> results[i].val]
    <3>1. DOMAIN results = DOMAIN arg /\ DOMAIN results \subseteq Nat
      BY <2>2
    <3> HIDE DEF results
    <3>. QED
      BY <2>1, <3>1, AllInOrder
  <2>4. w = [i \in DOMAIN arg |-> PackScalar(type.elem, results[i].val)]
    BY <1>1, <2>3 DEF Pack
  <2>5. Len(w) = Len(arg)
    BY <2>2, <2>4
  <2>6. ASSUME NEW i \in DOMAIN arg PROVE SaysScalar(type.elem, arg[i], w[i])
    <3>1. arg[i] \in Texts
      BY <2>2
    <3>2. MapScalar(type.elem, arg[i]).end = "ok"
      BY <2>3
    <3>. QED
      BY <2>4, <3>1, <3>2, ScalarSays
  <2>. QED
    BY <1>1, <2>4, <2>5, <2>6 DEF Says
<1>2. CASE type.t # "array"
  <2>1. Whole(arg) \in Texts
    <3>1. arg \in Seq(Texts) /\ arg # <<>>
      BY DEF Arguments
    <3>2. arg[1] \in Texts
      BY <3>1
    <3>. QED
      BY <3>2 DEF Whole, Text, Texts
  <2>. QED
    BY <1>2, <2>1, ScalarSays DEF MapInput, Says, Pack
<1>. QED
  BY <1>1, <1>2

\* Arguments that are mapped are as many as the inputs, and so are the values, and what is
\* packed of each says what is written.
LEMMA MappedSays ==
    ASSUME NEW c \in ArgCases, NEW vals, MapStringArgs(c.types, c.args).end = "ok",
           vals = MapStringArgs(c.types, c.args).val
    PROVE  /\ DOMAIN c.args = DOMAIN c.types /\ DOMAIN vals = DOMAIN c.types
           /\ \A i \in DOMAIN c.types : Says(c.types[i], c.args[i], Pack(c.types[i], vals[i]))
<1> DEFINE results == [i \in DOMAIN c.types |-> MapInput(c.types[i], c.args[i])]
<1>1. Len(c.types) = Len(c.args) /\ MapStringArgs(c.types, c.args) = InOrder(results)
  BY DEF MapStringArgs, Error
<1>2. DOMAIN c.args = DOMAIN c.types /\ DOMAIN c.types \subseteq Nat
  BY <1>1, CommandAssumption
<1>3. /\ \A i \in DOMAIN c.types : results[i].end = "ok"
      /\ vals = [i \in DOMAIN c.types |-> results[i].val]
  <2>1. DOMAIN results = DOMAIN c.types
    OBVIOUS
  <2> HIDE DEF results
  <2>. QED
    BY <1>1, <1>2, <2>1, AllInOrder
<1>4. ASSUME NEW i \in DOMAIN c.types
      PROVE  Says(c.types[i], c.args[i], Pack(c.types[i], vals[i]))
  <2>1. c.args[i] \in Arguments
    BY <1>2, CommandAssumption
  <2>2. MapInput(c.types[i], c.args[i]).end = "ok" /\ vals[i] = MapInput(c.types[i], c.args[i]).val
    BY <1>3
  <2>. QED
    BY <2>1, <2>2, InputSays
<1>. QED
  BY <1>2, <1>3, <1>4

-----------------------------------------------------------------------------
(* The invariant.  What is sent depends on the account, which no step      *)
(* after its own changes, and that on the options.                         *)

CallShape ==
    /\ DOMAIN call.vals = DOMAIN call.types /\ DOMAIN call.args = DOMAIN call.types
    /\ \A i \in DOMAIN call.types :
          Says(call.types[i], call.args[i], Pack(call.types[i], call.vals[i]))

Steps == {"new", "backend", "chain", "account", "compile", "request", "args", "values",
          "sign", "confirm", "print", "end"}

Control ==
    /\ opt \in Options /\ pc \in Steps
    /\ out \in {"nothing", "bytecode", "address", "hash", "values", "events"}
    /\ exit \in {"running", "ok", "fatal", "panic"}
    /\ pc \in {"sign", "confirm"} => Sends

Sent ==
    sent # None => /\ sent.from = account.from /\ sent.key = account.signer
                   /\ account.signer = account.from
                   /\ sent.data = Words

\* Nothing is sent up to the signature.
Before == {"new", "backend", "chain", "account", "compile", "request", "args", "values", "sign"}

IInv == Control /\ CallShape /\ account \in AnyAccount /\ Rightful(account) /\ Sent
        /\ (pc \in Before => sent = None)

LEMMA InitIInv == Init => IInv
  BY CommandAssumption
     DEF Init, IInv, Control, Steps, CallShape, AnyAccount, Rightful, Sent, Before

\* The steps up to the account's, and the ones after it that leave it and the arguments alone.
LEMMA PlainSteps ==
    ASSUME IInv,
           New \/ Backend \/ ChainID \/ Compile \/ Request \/ UseValues \/ Confirm \/ Output \/ Ended
    PROVE  IInv'
<1>1. UNCHANGED <<opt, account, call, sent>>
  BY DEF New, Backend, ChainID, Compile, Request, UseValues, Confirm, Output, Ended, vars
<1>2. CallShape' /\ (account \in AnyAccount)' /\ Rightful(account)' /\ Sent'
  BY <1>1 DEF IInv, CallShape, AnyAccount, Rightful, Sent, Words
<1>3. pc' \in Before => pc \in Before
  BY DEF New, Backend, ChainID, Compile, Request, UseValues, Confirm, Output, Ended, vars,
         Goto, Fatal, End, Before
<1>4. Control'
  <2> USE <1>1 DEF IInv, Control, Steps, Goto, Fatal, End, Sends
  <2>1. CASE New \/ Backend \/ ChainID
    BY <2>1 DEF New, Backend, ChainID
  <2>2. CASE Compile \/ Request
    BY <2>2 DEF Compile, Request
  <2>3. CASE UseValues
    BY <2>3 DEF UseValues
  <2>4. CASE Confirm
    <3>1. opt.cmd \in {"deploy", "tx", "call"}
      BY <2>4 DEF Confirm
    <3>. QED
      BY <2>4, <3>1 DEF Confirm
  <2>5. CASE Output
    BY <2>5 DEF Output, PrintedAs
  <2>6. CASE Ended
    BY <2>6 DEF Ended, vars
  <2>. QED
    BY <2>1, <2>2, <2>3, <2>4, <2>5, <2>6
<1>. QED
  BY <1>1, <1>2, <1>3, <1>4 DEF IInv

\* The account is one that the options lead to.
LEMMA AccountStep ==
    ASSUME IInv, InitAccount
    PROVE  IInv'
<1>1. PICK a \in Accounts : account' = [from |-> a.from, signer |-> a.signer]
  BY DEF InitAccount
<1>2. account' \in AnyAccount /\ Rightful(account')
  <2>1. [from |-> a.from, signer |-> a.signer] \in AnyAccount /\ Rightful(a)
    BY AccountsAreRightful DEF IInv, Control
  <2>. QED
    BY <1>1, <2>1 DEF Rightful
<1>3. UNCHANGED <<opt, call, sent, out>> /\ sent = None /\ pc' \in {"compile", "end"}
  BY DEF InitAccount, IInv, Goto, Fatal, End, Before
<1>4. Control'
  BY <1>3 DEF InitAccount, IInv, Control, Steps, Sends, Goto, Fatal, End
<1>5. CallShape' /\ Sent'
  BY <1>3 DEF IInv, CallShape, Sent
<1>. QED
  BY <1>2, <1>3, <1>4, <1>5 DEF IInv, Rightful

\* The values are as many as the inputs, and mean what the arguments say.
LEMMA MapStep ==
    ASSUME IInv, MapInputs
    PROVE  IInv'
<1>1. UNCHANGED <<opt, account, sent, out>> /\ pc' \in {"values", "end"} /\ sent = None
  BY DEF MapInputs, Goto, End, IInv, Before
<1>2. CASE UNCHANGED call /\ pc' = "end" /\ exit' \in {"panic", "fatal"}
  <2>1. Control' /\ Sent' /\ CallShape'
    BY <1>1, <1>2 DEF IInv, Control, CallShape, Sent, Steps, Sends
  <2>. QED
    BY <1>1, <2>1 DEF IInv, Rightful
<1>3. ASSUME NEW c \in ArgCases, MapStringArgs(c.types, c.args).end = "ok", UNCHANGED exit,
             call' = [types |-> c.types, args |-> c.args, vals |-> MapStringArgs(c.types, c.args).val]
      PROVE  IInv'
  <2> DEFINE vals == MapStringArgs(c.types, c.args).val
  <2>1. /\ DOMAIN c.args = DOMAIN c.types /\ DOMAIN vals = DOMAIN c.types
        /\ \A i \in DOMAIN c.types : Says(c.types[i], c.args[i], Pack(c.types[i], vals[i]))
    BY <1>3, MappedSays
  <2>2. call'.types = c.types /\ call'.args = c.args /\ call'.vals = vals
    BY <1>3
  <2> HIDE DEF vals
  <2>3. CallShape'
    BY <2>1, <2>2 DEF CallShape
  <2>4. Control' /\ Sent'
    BY <1>1, <1>3 DEF IInv, Control, Sent, Steps, Sends
  <2>. QED
    BY <1>1, <2>3, <2>4 DEF IInv, Rightful
<1>. QED
  BY <1>2, <1>3 DEF MapInputs, Goto, End

\* Only an account that can sign for itself signs, and it signs the words of the arguments.
LEMMA SignStep ==
    ASSUME IInv, Sign
    PROVE  IInv'
<1>1. UNCHANGED <<opt, account, call, out>> /\ pc' \in {"confirm", "end"} /\ Sends
  BY DEF Sign, IInv, Control, Goto, Fatal, End
<1>2. Words' = Words
  BY <1>1 DEF Words
<1>3. Sent'
  BY <1>1, <1>2 DEF Sign, IInv, Sent, Authorized
<1>4. Control'
  BY <1>1 DEF Sign, IInv, Control, Steps, Sends, Goto, Fatal, End
<1>5. CallShape'
  BY <1>1 DEF IInv, CallShape
<1>6. pc' \notin Before
  BY <1>1 DEF Before
<1>. QED
  BY <1>1, <1>3, <1>4, <1>5, <1>6 DEF IInv, Rightful

THEOREM Invariance == Spec => []IInv
<1>1. IInv /\ [Next]_vars => IInv'
  <2>1. ASSUME IInv, UNCHANGED vars PROVE IInv'
    <3>1. Control' /\ CallShape' /\ Sent'
      BY <2>1 DEF vars, IInv, Control, Steps, CallShape, Sent, Sends, Words
    <3>. QED
      BY <2>1, <3>1 DEF vars, IInv, Rightful
  <2>. QED
    BY <2>1, PlainSteps, AccountStep, MapStep, SignStep DEF Next
<1>. QED
  BY <1>1, InitIInv, PTL DEF Spec

\* Every variable keeps to its domain.
THEOREM TypeCorrect == Spec => []TypeOK
<1>1. IInv => TypeOK
  BY DEF IInv, TypeOK, Control, Steps, CallShape, AnyAccount, Rightful, Sent
<1>. QED
  BY <1>1, Invariance, PTL

\* A transaction goes out from the account that is named, signed with its key, whichever of
\* the three places has it.
THEOREM NamedAccountSends == Spec => []SentByNamedAccount
<1>1. IInv => SentByNamedAccount
  BY DEF IInv, SentByNamedAccount, Rightful, Sent
<1>. QED
  BY <1>1, Invariance, PTL

\* The data of a transaction, sent or printed, says what the arguments on the line say.
THEOREM DataAsMeant == Spec => []ArgumentsAsMeant
<1>1. IInv => ArgumentsAsMeant
  <2> SUFFICES ASSUME IInv PROVE ArgumentsAsMeant
    OBVIOUS
  <2>1. \A i \in DOMAIN Words : Says(call.types[i], call.args[i], Words[i])
    BY DEF IInv, CallShape, Words
  <2>2. sent # None => sent.data = Words
    BY DEF IInv, Sent
  <2>. QED
    BY <2>1, <2>2 DEF ArgumentsAsMeant
<1>. QED
  BY <1>1, Invariance, PTL

=============================================================================
