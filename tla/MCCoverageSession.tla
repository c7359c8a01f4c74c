-------------------------- MODULE MCCoverageSession --------------------------
(* An instance of MarkedSession for TLC: Bank inherits from a contract in  *)
(* a file of its own, Counter is that contract, and Vault nests blocks.    *)
EXTENDS MarkedSession

CONSTANTS c1, c2

\* A: five lines, two of them empty; B: one; C: two.
SmallText == [f \in {"A", "B", "C"} |->
                 CASE f = "A" -> <<2, 0, 0, 13, 4>> [] f = "B" -> <<9>> [] f = "C" -> <<12, 12>>]

S(start, len, file) == [start |-> start, len |-> len, file |-> file]
Stmt(kind, start, len, file) == Node(kind, S(start, len, file), <<>>)
Body(start, len, file, kids) == Node("block", S(start, len, file), kids)

\* In A a statement that starts in column 1, a branch with a block and a require in it, one
\* that ends early, and an event; there are two requires.
FileA ==
    Node("file", S(0, 23, 0),
      << Node("view", S(0, 23, 0), <<Body(0, 23, 0,
           << Node("branch", S(5, 9, 0), <<Body(7, 6, 0, << Stmt("require", 8, 2, 0),
                                                            Stmt("return", 11, 2, 0) >>)>>),
              Stmt("emit", 17, 1, 0), Stmt("requireVar", 20, 2, 0) >>)>>) >>)

FileB(i) == Node("file", S(0, 9, i),
              << Node("nonpayable", S(0, 9, i),
                      <<Body(0, 9, i, <<Stmt("plain", 2, 3, i), Stmt("plain", 6, 2, i)>>)>>) >>)

\* Two blocks that open together, the first in the second, with a statement each; a block and
\* a statement within what is no block.
FileC ==
    Node("file", S(0, 25, 0),
      << Node("pure", S(0, 25, 0), <<Body(0, 25, 0,
           << Body(1, 9, 0, << Body(2, 4, 0, <<Stmt("plain", 3, 1, 0)>>), Stmt("plain", 7, 1, 0) >>),
              Node("unchecked", S(13, 10, 0), << Stmt("plain", 14, 1, 0),
                                                 Body(16, 3, 0, <<Stmt("plain", 17, 1, 0)>>) >>) >>)>>)
      >>)

Made(name, own, where, files, entry) ==
    [name |-> name, coverage |-> TRUE, own |-> own, paths |-> where, files |-> files, entry |-> entry,
     spots |-> UNION {ToSet(AddCoverageMarkers(files[i]).listed) : i \in DOMAIN files}]

Bank == Made("Bank", 0, <<"A", "B">>, <<FileA, FileB(1)>>, {<<1, 1>>, <<2, 1>>})
Counter == Made("Counter", 0, <<"B">>, <<FileB(0)>>, {<<1, 1>>})
Vault == Made("Vault", 0, <<"C">>, <<FileC>>, {<<1, 1>>})

Session == {Bank, Counter, Vault}

Order(op, k) == [op |-> op, contract |-> k, known |-> TRUE, unpack |-> FALSE]
\* With the event in the ABI, an unpacker of the caller's makes no difference to the model.
SmallOrders ==
    {Order("tx", Bank), Order("deploy", Bank), Order("tx", Counter), Order("tx", Vault),
     Order("logs", Bank)}
    \union {[Order("logs", Bank) EXCEPT !.known = FALSE, !.unpack = u] : u \in BOOLEAN}

CallSymmetry == Permutations(Calls)

\* What the theorems about the collector and its sessions assume of contracts holds here.
ASSUME InstanceAssumption == Compiled /\ Placed /\ StartsApart

=============================================================================
