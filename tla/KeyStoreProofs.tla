--------------------------- MODULE KeyStoreProofs ---------------------------
(* Theorems about KeyStore, for any goroutines, accounts, passwords and    *)
(* trees of wallet files.                                                  *)
EXTENDS KeyStore, TLAPS

\* The files are wallets.
LEMMA FilesAreWallets == Files \subseteq Wallet /\ None \notin Files
<1>1. \A d \in Dirs : \A i \in DOMAIN Wallets[d] : Wallets[d][i] \in Wallet \union {Bad}
  BY KeyStoreAssumption
<1>2. \A f \in Files : f \in Wallet
  <2>. SUFFICES ASSUME NEW f \in Files PROVE f \in Wallet
    OBVIOUS
  <2>1. f # Bad /\ f \in UNION {{Wallets[d][i] : i \in DOMAIN Wallets[d]} : d \in Dirs}
    BY DEF Files
  <2>2. PICK d \in Dirs : f \in {Wallets[d][i] : i \in DOMAIN Wallets[d]}
    BY <2>1
  <2>. QED
    BY <1>1, <2>1, <2>2
<1>. QED
  BY <1>2, KeyStoreAssumption

\* Where a walk has not ended there is a file.
LEMMA WalkedFile ==
    ASSUME NEW d \in Dirs, NEW i \in Nat \ {0}, ~WalkEnds(d, i)
    PROVE  /\ i \in DOMAIN Wallets[d]
           /\ Wallets[d][i] \in Files
<1>1. Wallets[d] \in Seq(Wallet \union {Bad})
  BY KeyStoreAssumption
<1>2. i \in DOMAIN Wallets[d] /\ Wallets[d][i] # Bad
  BY <1>1 DEF WalkEnds
<1>3. Wallets[d][i] \in UNION {{Wallets[e][j] : j \in DOMAIN Wallets[e]} : e \in Dirs}
  BY <1>2
<1>. QED
  BY <1>2, <1>3 DEF Files

-----------------------------------------------------------------------------
(* Types                                                                   *)

\* Every way out of PrivateKey keeps them.
LEMMA LeaveTypeOK ==
    ASSUME TypeOK, NEW p \in Procs, NEW k \in Addresses \union {None}, req[p] \in Request,
           Leave(p, k), UNCHANGED <<dirs, paths, given, req, reload, signed>>,
           keys' \in [Addresses -> [Passwords -> Addresses \union {None}]]
    PROVE  TypeOK'
<1>1. guard' \in [Addresses -> Procs \union {None}] /\ got' \in [Procs -> Addresses \union {None}]
  BY DEF TypeOK, Leave
<1>2. file' \in [Procs -> Files \union {None}]
  BY DEF TypeOK, Leave
<1>3. /\ pc' \in [Procs -> {"idle", "lock", "look", "decrypt", "out", "signing", "returned",
                           "reload", "walk"}]
      /\ \A q \in Procs : pc'[q] \in Asking => req'[q] \in Request
      /\ \A q \in Procs : pc'[q] = "decrypt" => file'[q] \in Files
  BY DEF TypeOK, Leave, Goto, Asking
<1>. QED
  BY <1>1, <1>2, <1>3 DEF TypeOK

\* The calls for a key keep the types.
LEMMA CallTypeOK ==
    ASSUME TypeOK, NEW p \in Procs,
           Call(p) \/ Lock(p) \/ Inside(p) \/ Sign(p) \/ Drop(p)
    PROVE  TypeOK'
<1> USE KeyStoreAssumption, FilesAreWallets DEF TypeOK, Goto, Leave, locals, cache, Asking
<1>1. CASE Call(p)
  BY <1>1 DEF Call
<1>2. CASE Lock(p)
  BY <1>2 DEF Lock
<1>3. CASE Look(p)
  <2>1. req[p] \in Request
    BY <1>3 DEF Look
  <2>2. CachedKey(req[p].account, req[p].password) \in Addresses \union {None}
    BY <2>1 DEF CachedKey, CacheSlot, Request
  <2>3. paths[req[p].account] \in Files \union {None}
    BY <2>1 DEF Request
  <2>4. CASE \E k \in Addresses \union {None} : Leave(p, k) /\ UNCHANGED <<dirs, cache, req, reload, signed>>
    <3>. PICK k \in Addresses \union {None} : Leave(p, k) /\ UNCHANGED <<dirs, cache, req, reload, signed>>
      BY <2>4
    <3>. QED
      BY <2>1, LeaveTypeOK
  <2>5. CASE /\ paths[req[p].account] # None
             /\ file' = [file EXCEPT ![p] = paths[req[p].account]]
             /\ pc' = [pc EXCEPT ![p] = "decrypt"]
             /\ UNCHANGED <<dirs, cache, guard, got, req, reload, signed>>
    BY <2>1, <2>3, <2>5
  <2>. QED
    BY <1>3, <2>2, <2>4, <2>5 DEF Look, NoPath
<1>4. CASE Decrypt(p)
  <2>1. req[p] \in Request /\ file[p] \in Wallet
    BY <1>4 DEF Decrypt
  <2>2. req[p].account \in Addresses /\ req[p].password \in Passwords /\ file[p].owner \in Addresses
    BY <2>1 DEF Request, Wallet
  <2>3. /\ UNCHANGED <<dirs, paths, given, req, reload, signed>>
        /\ \/ keys' = [keys EXCEPT ![req[p].account][req[p].password] = file[p].owner]
              /\ Leave(p, file[p].owner)
           \/ Leave(p, None) /\ UNCHANGED keys
    BY <1>4 DEF Decrypt, StoreKey, CacheSlot
  <2>4. keys' \in [Addresses -> [Passwords -> Addresses \union {None}]]
    <3>1. CASE UNCHANGED keys
      BY <3>1
    <3>2. CASE keys' = [keys EXCEPT ![req[p].account][req[p].password] = file[p].owner]
      BY <2>2, <3>2
    <3>. QED
      BY <2>3, <3>1, <3>2
  <2>. QED
    BY <2>1, <2>2, <2>3, <2>4, LeaveTypeOK
<1>5. CASE Result(p)
  BY <1>5 DEF Result
<1>6. CASE Sign(p)
  BY <1>6 DEF Sign, MaySign
<1>7. CASE Drop(p)
  BY <1>7 DEF Drop
<1>. QED
  BY <1>1, <1>2, <1>3, <1>4, <1>5, <1>6, <1>7 DEF Inside

\* So do the reloads of a directory ...
LEMMA ReloadTypeOK ==
    ASSUME TypeOK, NEW p \in Procs, AddPath(p) \/ Reload(p) \/ NextDir(p) \/ SetPath(p)
    PROVE  TypeOK'
<1> USE KeyStoreAssumption DEF TypeOK, Goto, locals, cache, Asking
<1>1. CASE AddPath(p)
  BY <1>1 DEF AddPath
<1>2. CASE Reload(p)
  BY <1>2 DEF Reload
<1>3. CASE NextDir(p)
  <2>1. reload' \in [Procs -> [todo: SUBSET Dirs, dir: Dirs \union {None}, at: Nat \ {0}]]
    <3>1. CASE UNCHANGED reload
      BY <3>1
    <3>2. ASSUME NEW d \in reload[p].todo,
                 reload' = [reload EXCEPT ![p] = [todo |-> @.todo \ {d}, dir |-> d, at |-> 1]]
          PROVE  reload' \in [Procs -> [todo: SUBSET Dirs, dir: Dirs \union {None}, at: Nat \ {0}]]
      <4>1. [todo |-> reload[p].todo \ {d}, dir |-> d, at |-> 1]
              \in [todo: SUBSET Dirs, dir: Dirs \union {None}, at: Nat \ {0}]
        OBVIOUS
      <4>. QED
        BY <3>2, <4>1
    <3>. QED
      BY <1>3, <3>1, <3>2 DEF NextDir
  <2>2. UNCHANGED pc \/ pc' = [pc EXCEPT ![p] = "idle"]
    BY <1>3 DEF NextDir
  <2>3. UNCHANGED <<dirs, paths, keys, given, guard, req, file, got, signed>>
    BY <1>3 DEF NextDir
  <2>. QED
    BY <2>1, <2>2, <2>3
<1>4. CASE SetPath(p)
  <2> DEFINE r == reload[p]
  <2>1. r.dir \in Dirs /\ r.at \in Nat \ {0} /\ r.todo \subseteq Dirs
    BY <1>4 DEF SetPath
  <2>2. CASE WalkEnds(r.dir, r.at)
    <3>1. reload' = [reload EXCEPT ![p] = [todo |-> r.todo, dir |-> None, at |-> 1]]
      BY <1>4, <2>2 DEF SetPath, AfterWalk
    <3>2. reload' \in [Procs -> [todo: SUBSET Dirs, dir: Dirs \union {None}, at: Nat \ {0}]]
      BY <2>1, <3>1
    <3>. QED
      BY <1>4, <2>2, <3>2 DEF SetPath
  <2>3. CASE ~WalkEnds(r.dir, r.at)
    <3>1. Wallets[r.dir][r.at] \in Files
      BY <2>1, <2>3, WalkedFile
    <3>2. Wallets[r.dir][r.at].claims \in Addresses
      BY <3>1, FilesAreWallets DEF Wallet
    <3>3. paths' = [paths EXCEPT ![Wallets[r.dir][r.at].claims] = Wallets[r.dir][r.at]]
      BY <1>4, <2>3 DEF SetPath
    <3>4. paths' \in [Addresses -> Files \union {None}]
      BY <3>1, <3>3
    <3>5. reload' = [reload EXCEPT ![p].at = @ + 1]
      BY <1>4, <2>3 DEF SetPath
    <3>6. reload' \in [Procs -> [todo: SUBSET Dirs, dir: Dirs \union {None}, at: Nat \ {0}]]
      <4>0. r \in [todo: SUBSET Dirs, dir: Dirs \union {None}, at: Nat \ {0}] /\ r.at + 1 \in Nat \ {0}
        BY <2>1
      <4>1. [r EXCEPT !.at = @ + 1] \in [todo: SUBSET Dirs, dir: Dirs \union {None}, at: Nat \ {0}]
        BY <4>0
      <4>2. reload' = [reload EXCEPT ![p] = [r EXCEPT !.at = @ + 1]]
        BY <3>5
      <4>. QED
        BY <4>1, <4>2
    <3>. QED
      BY <1>4, <3>4, <3>6 DEF SetPath
  <2>. QED
    BY <2>2, <2>3
<1>. QED
  BY <1>1, <1>2, <1>3, <1>4

\* ... and the setters.
LEMMA SetterTypeOK ==
    ASSUME TypeOK,
           \/ \E d \in Dirs : RemovePath(d)
           \/ \E a \in Addresses, w \in Passwords : UnsetKey(a, w)
           \/ \E a, k \in Addresses : SetPrivateKey(a, k)
           \/ \E f \in Files : SetPathOf(f)
           \/ \E a \in Addresses : UnsetPath(a)
    PROVE  TypeOK'
<1> USE DEF TypeOK, locals, cache
<1>1. CASE \E d \in Dirs : RemovePath(d)
  BY <1>1 DEF RemovePath
<1>2. CASE \E a \in Addresses, w \in Passwords : UnsetKey(a, w)
  BY <1>2 DEF UnsetKey, CacheSlot
<1>3. CASE \E a, k \in Addresses : SetPrivateKey(a, k)
  BY <1>3, KeyStoreAssumption DEF SetPrivateKey, StoreKey, CacheSlot
<1>4. CASE \E f \in Files : SetPathOf(f)
  <2>. PICK f \in Files : SetPathOf(f)
    BY <1>4
  <2>1. f.claims \in Addresses
    BY FilesAreWallets DEF Wallet
  <2>2. paths' \in [Addresses -> Files \union {None}]
    BY <2>1 DEF SetPathOf
  <2>. QED
    BY <2>2 DEF SetPathOf
<1>5. CASE \E a \in Addresses : UnsetPath(a)
  BY <1>5 DEF UnsetPath
<1>. QED
  BY <1>1, <1>2, <1>3, <1>4, <1>5

\* Every variable keeps to its domain.
THEOREM TypeCorrect == Spec => []TypeOK
<1>1. Init => TypeOK
  BY KeyStoreAssumption DEF Init, TypeOK, Asking
<1>2. TypeOK /\ [Next]_vars => TypeOK'
  <2> SUFFICES ASSUME TypeOK, [Next]_vars PROVE TypeOK'
    OBVIOUS
  <2>1. CASE UNCHANGED vars
    BY <2>1 DEF vars, TypeOK, Asking
  <2>. QED
    BY <2>1, CallTypeOK, ReloadTypeOK, SetterTypeOK DEF Next
<1>. QED
  BY <1>1, <1>2, PTL DEF Spec

-----------------------------------------------------------------------------
(* The account's mutex                                                     *)

\* One goroutine at a time looks for an account's key, and it holds the mutex: who would
\* enter finds it held, and who leaves was the one inside; and a mutex that is held is held
\* by someone inside, so that no way out of PrivateKey forgets to give it back.
THEOREM OneInside == Spec => []OneAtATime
<1>1. Init => OneAtATime
  BY DEF Init, OneAtATime
<1>2. TypeOK /\ OneAtATime /\ [Next]_vars
      => \A q \in Procs : pc'[q] \in {"look", "decrypt"} => guard'[req'[q].account] = q
  <2> SUFFICES ASSUME TypeOK, OneAtATime, [Next]_vars,
                      NEW q \in Procs, pc'[q] \in {"look", "decrypt"}
               PROVE  guard'[req'[q].account] = q
    OBVIOUS
  <2> USE DEF OneAtATime, Goto
  <2>1. CASE UNCHANGED <<guard, pc, req>>
    BY <2>1
  <2>2. ASSUME NEW p \in Procs, Call(p) \/ Drop(p) PROVE guard'[req'[q].account] = q
    BY <2>2 DEF Call, Drop, TypeOK
  <2>3. ASSUME NEW p \in Procs, Lock(p) PROVE guard'[req'[q].account] = q
    <3>1. q # p => pc[q] \in {"look", "decrypt"}
      BY <2>3 DEF Lock, TypeOK
    <3>2. req[p].account \in Addresses /\ guard[req[p].account] = None
      BY <2>3 DEF Lock, MayEnter, TypeOK, Asking, Request
    <3>3. guard' = [guard EXCEPT ![req[p].account] = p] /\ req' = req
      BY <2>3 DEF Lock, locals
    <3>4. CASE q = p
      BY <3>2, <3>3, <3>4 DEF TypeOK
    <3>5. CASE q # p
      BY <3>1, <3>2, <3>3, <3>5, KeyStoreAssumption DEF TypeOK
    <3>. QED
      BY <3>4, <3>5
  <2>4. ASSUME NEW p \in Procs, Look(p) \/ Decrypt(p) PROVE guard'[req'[q].account] = q
    <3>1. req' = req /\ pc[p] \in {"look", "decrypt"} /\ guard[req[p].account] = p
      BY <2>4 DEF Look, Decrypt
    <3>2. \/ guard' = guard /\ pc' = [pc EXCEPT ![p] = "decrypt"]
          \/ guard' = [guard EXCEPT ![req[p].account] = None] /\ pc' = [pc EXCEPT ![p] = "out"]
      BY <2>4 DEF Look, Decrypt, Leave
    <3>3. pc[q] \in {"look", "decrypt"}
      BY <3>1, <3>2 DEF TypeOK
    <3>4. CASE guard' = guard
      BY <3>1, <3>3, <3>4
    <3>5. CASE guard' = [guard EXCEPT ![req[p].account] = None] /\ pc' = [pc EXCEPT ![p] = "out"]
      <4>1. q # p
        BY <3>5 DEF TypeOK
      <4>2. req[q].account # req[p].account
        BY <3>1, <3>3, <4>1
      <4>. QED
        BY <3>1, <3>3, <3>5, <4>2 DEF TypeOK
    <3>. QED
      BY <3>2, <3>4, <3>5
  <2>5. ASSUME NEW p \in Procs, Result(p) \/ Sign(p) PROVE guard'[req'[q].account] = q
    BY <2>5 DEF Result, Sign, TypeOK, locals
  <2>6. ASSUME NEW p \in Procs, AddPath(p) \/ Reload(p) \/ NextDir(p) \/ SetPath(p)
        PROVE  guard'[req'[q].account] = q
    BY <2>6 DEF AddPath, Reload, NextDir, SetPath, TypeOK, locals
  <2>7. CASE \/ \E d \in Dirs : RemovePath(d)
             \/ \E a \in Addresses, w \in Passwords : UnsetKey(a, w)
             \/ \E a, k \in Addresses : SetPrivateKey(a, k)
             \/ \E f \in Files : SetPathOf(f)
             \/ \E a \in Addresses : UnsetPath(a)
    BY <2>1, <2>7 DEF RemovePath, UnsetKey, SetPrivateKey, SetPathOf, UnsetPath, locals
  <2>. QED
    BY <2>1, <2>2, <2>3, <2>4, <2>5, <2>6, <2>7 DEF Next, Inside, vars
<1>3. TypeOK /\ OneAtATime /\ [Next]_vars
      => \A a \in Addresses :
            guard'[a] # None => pc'[guard'[a]] \in {"look", "decrypt"} /\ req'[guard'[a]].account = a
  <2> SUFFICES ASSUME TypeOK, OneAtATime, [Next]_vars, NEW a \in Addresses, guard'[a] # None
               PROVE  pc'[guard'[a]] \in {"look", "decrypt"} /\ req'[guard'[a]].account = a
    OBVIOUS
  <2> USE DEF OneAtATime, Goto
  <2>1. ASSUME guard' = guard,
               \A q \in Procs : pc[q] \in {"look", "decrypt"} => pc'[q] \in {"look", "decrypt"}
                                                              /\ req'[q] = req[q]
        PROVE  pc'[guard'[a]] \in {"look", "decrypt"} /\ req'[guard'[a]].account = a
    BY <2>1 DEF TypeOK
  <2>2. ASSUME NEW p \in Procs, Lock(p)
        PROVE  pc'[guard'[a]] \in {"look", "decrypt"} /\ req'[guard'[a]].account = a
    <3>1. /\ pc[p] = "lock" /\ req[p].account \in Addresses
          /\ guard' = [guard EXCEPT ![req[p].account] = p]
          /\ req' = req /\ pc' = [pc EXCEPT ![p] = "look"]
      BY <2>2 DEF Lock, locals, TypeOK, Asking, Request
    <3>2. CASE a = req[p].account
      BY <3>1, <3>2 DEF TypeOK
    <3>3. CASE a # req[p].account
      BY <3>1, <3>3 DEF TypeOK
    <3>. QED
      BY <3>2, <3>3
  <2>3. ASSUME NEW p \in Procs, Look(p) \/ Decrypt(p)
        PROVE  pc'[guard'[a]] \in {"look", "decrypt"} /\ req'[guard'[a]].account = a
    <3>1. req' = req /\ pc[p] \in {"look", "decrypt"} /\ guard[req[p].account] = p
      BY <2>3 DEF Look, Decrypt
    <3>2. \/ guard' = guard /\ pc' = [pc EXCEPT ![p] = "decrypt"]
          \/ guard' = [guard EXCEPT ![req[p].account] = None] /\ pc' = [pc EXCEPT ![p] = "out"]
      BY <2>3 DEF Look, Decrypt, Leave
    <3>3. CASE guard' = guard /\ pc' = [pc EXCEPT ![p] = "decrypt"]
      BY <2>1, <3>1, <3>3 DEF TypeOK
    <3>4. CASE guard' = [guard EXCEPT ![req[p].account] = None] /\ pc' = [pc EXCEPT ![p] = "out"]
      <4>1. a # req[p].account /\ guard'[a] = guard[a]
        BY <3>4 DEF TypeOK
      <4>2. guard[a] \in Procs /\ guard[a] # p
        BY <3>1, <4>1 DEF TypeOK
      <4>. QED
        BY <3>1, <3>4, <4>1, <4>2 DEF TypeOK
    <3>. QED
      BY <3>2, <3>3, <3>4
  <2>4. CASE UNCHANGED <<guard, pc, req>>
    BY <2>1, <2>4
  <2>5. ASSUME NEW p \in Procs,
               \/ Call(p) \/ Drop(p) \/ Result(p) \/ Sign(p)
               \/ AddPath(p) \/ Reload(p) \/ NextDir(p) \/ SetPath(p)
        PROVE  pc'[guard'[a]] \in {"look", "decrypt"} /\ req'[guard'[a]].account = a
    <3>1. guard' = guard /\ pc[p] \notin {"look", "decrypt"}
      BY <2>5 DEF Call, Drop, Result, Sign, AddPath, Reload, NextDir, SetPath, locals
    <3>2. \A q \in Procs : q # p => pc'[q] = pc[q] /\ req'[q] = req[q]
      BY <2>5 DEF Call, Drop, Result, Sign, AddPath, Reload, NextDir, SetPath, locals, TypeOK
    <3>. QED
      BY <2>1, <3>1, <3>2
  <2>6. CASE \/ \E d \in Dirs : RemovePath(d)
             \/ \E b \in Addresses, w \in Passwords : UnsetKey(b, w)
             \/ \E b, k \in Addresses : SetPrivateKey(b, k)
             \/ \E f \in Files : SetPathOf(f)
             \/ \E b \in Addresses : UnsetPath(b)
    BY <2>4, <2>6 DEF RemovePath, UnsetKey, SetPrivateKey, SetPathOf, UnsetPath, locals
  <2>. QED
    BY <2>2, <2>3, <2>4, <2>5, <2>6 DEF Next, Inside, vars
<1>4. TypeOK /\ OneAtATime /\ [Next]_vars => OneAtATime'
  BY <1>2, <1>3 DEF OneAtATime
<1>. QED
  BY <1>1, <1>4, TypeCorrect, PTL DEF Spec

-----------------------------------------------------------------------------
(* Decryptions                                                             *)

\* No wallet is decrypted while its key is cached: two goroutines that decrypt hold the mutexes
\* of two accounts, so that neither stores what the other looked for.
THEOREM DecryptsOnce == Spec => []DecryptedOnce
<1>1. Init => DecryptedOnce
  BY DEF Init, DecryptedOnce
<1>2. TypeOK /\ OneAtATime /\ DecryptedOnce /\ [Next]_vars => DecryptedOnce'
  <2> SUFFICES ASSUME TypeOK, OneAtATime, DecryptedOnce, [Next]_vars,
                      NEW q \in Procs, pc'[q] = "decrypt"
               PROVE  LET r == req'[q]
                          k == keys'[r.account][r.password]
                      IN  k = None \/ (r.password = Empty /\ <<r.account, k>> \in given')
    BY DEF DecryptedOnce
  <2> DEFINE a == req[q].account
             w == req[q].password
             Fine == keys[a][w] = None \/ (w = Empty /\ <<a, keys[a][w]>> \in given)
             Goal == keys'[a][w] = None \/ (w = Empty /\ <<a, keys'[a][w]>> \in given')
  <2>1. pc[q] = "decrypt" => Fine /\ req[q] \in Request /\ a \in Addresses /\ w \in Passwords
    BY DEF DecryptedOnce, TypeOK, Asking, Request
  <2>2. ASSUME pc[q] = "decrypt", req'[q] = req[q],
               given \subseteq given', keys'[a][w] \in {keys[a][w], None}
        PROVE  Goal
    BY <2>1, <2>2
  <2>3. CASE UNCHANGED <<pc, req, keys, given>>
    BY <2>2, <2>3
  <2>4. ASSUME NEW p \in Procs, Call(p) \/ Lock(p) \/ Result(p) \/ Sign(p) \/ Drop(p)
        PROVE  req'[q] = req[q] /\ Goal
    <3>1. pc[q] = "decrypt" /\ req'[q] = req[q] /\ UNCHANGED <<keys, given>>
      BY <2>4 DEF Call, Lock, Result, Sign, Drop, Goto, cache, locals, TypeOK
    <3>. QED
      BY <2>2, <3>1
  <2>5. ASSUME NEW p \in Procs, AddPath(p) \/ Reload(p) \/ NextDir(p) \/ SetPath(p)
        PROVE  req'[q] = req[q] /\ Goal
    <3>1. pc[q] = "decrypt" /\ req'[q] = req[q] /\ UNCHANGED <<keys, given>>
      BY <2>5 DEF AddPath, Reload, NextDir, SetPath, Goto, cache, locals, TypeOK
    <3>. QED
      BY <2>2, <3>1
  <2>6. ASSUME NEW p \in Procs, Look(p) PROVE req'[q] = req[q] /\ Goal
    <3>1. req' = req /\ UNCHANGED <<keys, given>>
      BY <2>6 DEF Look, cache
    <3>2. CASE q = p
      <4>1. CachedKey(a, w) = None
        BY <2>6, <3>2 DEF Look, Leave, Goto, TypeOK
      <4>. QED
        BY <3>1, <4>1 DEF CachedKey, CacheSlot
    <3>3. CASE q # p
      <4>1. pc[q] = "decrypt"
        BY <2>6, <3>3 DEF Look, Leave, Goto, TypeOK
      <4>. QED
        BY <2>2, <3>1, <4>1
    <3>. QED
      BY <3>1, <3>2, <3>3
  <2>7. ASSUME NEW p \in Procs, Decrypt(p) PROVE req'[q] = req[q] /\ Goal
    <3>1. pc[p] = "decrypt" /\ pc' = [pc EXCEPT ![p] = "out"] /\ UNCHANGED <<req, given>>
      BY <2>7 DEF Decrypt, Leave, Goto
    <3>2. q # p /\ pc[q] = "decrypt"
      BY <3>1 DEF TypeOK
    <3>3. req[p].account # a
      BY <3>1, <3>2 DEF OneAtATime
    <3>4. keys'[a][w] = keys[a][w]
      <4>1. UNCHANGED keys \/ keys' = [keys EXCEPT ![req[p].account][req[p].password] = file[p].owner]
        BY <2>7 DEF Decrypt, StoreKey, CacheSlot
      <4>. QED
        BY <2>1, <3>2, <3>3, <4>1 DEF TypeOK
    <3>. QED
      BY <2>2, <3>1, <3>2, <3>4
  <2>8. ASSUME NEW b \in Addresses, NEW v \in Passwords, UnsetKey(b, v)
        PROVE  req'[q] = req[q] /\ Goal
    <3>1. pc[q] = "decrypt" /\ req' = req /\ given' = given
      BY <2>8 DEF UnsetKey, locals
    <3>2. keys'[a][w] \in {keys[a][w], None}
      BY <2>1, <2>8, <3>1 DEF UnsetKey, CacheSlot, TypeOK
    <3>. QED
      BY <2>2, <3>1, <3>2
  <2>9. ASSUME NEW b \in Addresses, NEW k \in Addresses, SetPrivateKey(b, k)
        PROVE  req'[q] = req[q] /\ Goal
    <3>1. /\ pc[q] = "decrypt" /\ req' = req /\ given' = given \union {<<b, k>>}
          /\ keys' = [keys EXCEPT ![b][Empty] = k]
      BY <2>9 DEF SetPrivateKey, StoreKey, CacheSlot, locals
    <3>2. CASE b = a /\ w = Empty
      <4>1. keys'[a][w] = k
        BY <2>1, <3>1, <3>2 DEF TypeOK
      <4>. QED
        BY <3>1, <3>2, <4>1
    <3>3. CASE ~(b = a /\ w = Empty)
      <4>1. keys'[a][w] = keys[a][w]
        BY <2>1, <3>1, <3>3 DEF TypeOK
      <4>. QED
        BY <2>2, <3>1, <4>1
    <3>. QED
      BY <3>2, <3>3
  <2>10. UNCHANGED vars => UNCHANGED <<pc, req, keys, given>>
    BY DEF vars
  <2>11. req'[q] = req[q] /\ Goal
    <3>1. CASE UNCHANGED vars
      BY <2>3, <2>10, <3>1
    <3>2. CASE \/ \E d \in Dirs : RemovePath(d)
               \/ \E f \in Files : SetPathOf(f)
               \/ \E b \in Addresses : UnsetPath(b)
      BY <2>3, <3>2 DEF RemovePath, SetPathOf, UnsetPath, cache, locals
    <3>. QED
      BY <2>4, <2>5, <2>6, <2>7, <2>8, <2>9, <3>1, <3>2 DEF Next, Inside
  <2>. QED
    BY <2>11
<1>. QED
  BY <1>1, <1>2, TypeCorrect, OneInside, PTL DEF Spec

-----------------------------------------------------------------------------
(* Signatures.  A signature is for the address of the key that made it,    *)
(* and for a personal one the account is that address.                     *)

MayUse(p) == got[p] # None /\ (req[p].op = "personal" => got[p] = req[p].account)

OwnSignature ==
    \A p \in Procs : /\ pc[p] = "signing" => MayUse(p)
                     /\ signed[p] # None => pc[p] = "returned" /\ signed[p] = got[p] /\ MayUse(p)

LEMMA SignsForOwner == Spec => []OwnSignature
<1>1. Init => OwnSignature
  BY DEF Init, OwnSignature
<1>2. TypeOK /\ OwnSignature /\ [Next]_vars => OwnSignature'
  <2> SUFFICES ASSUME TypeOK, OwnSignature, [Next]_vars PROVE OwnSignature'
    OBVIOUS
  <2> USE DEF OwnSignature, MayUse
  <2>1. CASE UNCHANGED <<pc, signed, got, req>>
    BY <2>1
  <2>2. ASSUME NEW p \in Procs, Sign(p) PROVE OwnSignature'
    BY <2>2 DEF Sign, MaySign, Goto, cache, TypeOK
  <2>3. ASSUME NEW p \in Procs, Result(p) PROVE OwnSignature'
    <3>1. /\ pc[p] = "out" /\ UNCHANGED <<signed, got, req>>
          /\ pc' = [pc EXCEPT ![p] = "returned"] \/ (pc' = [pc EXCEPT ![p] = "signing"] /\ MayUse(p))
      BY <2>3 DEF Result, Goto, locals
    <3>. QED
      BY <3>1 DEF TypeOK
  <2>4. ASSUME NEW p \in Procs, Drop(p) PROVE OwnSignature'
    BY <2>4 DEF Drop, Goto, TypeOK
  <2>5. ASSUME NEW p \in Procs, Call(p) \/ Lock(p) \/ Look(p) \/ Decrypt(p) PROVE OwnSignature'
    BY <2>5 DEF Call, Lock, Look, Decrypt, Leave, Goto, locals, TypeOK
  <2>6. ASSUME NEW p \in Procs, AddPath(p) \/ Reload(p) \/ NextDir(p) \/ SetPath(p)
        PROVE  OwnSignature'
    BY <2>6 DEF AddPath, Reload, NextDir, SetPath, Goto, locals, TypeOK
  <2>7. CASE \/ \E d \in Dirs : RemovePath(d)
             \/ \E a \in Addresses, w \in Passwords : UnsetKey(a, w)
             \/ \E a, k \in Addresses : SetPrivateKey(a, k)
             \/ \E f \in Files : SetPathOf(f)
             \/ \E a \in Addresses : UnsetPath(a)
    BY <2>1, <2>7 DEF RemovePath, UnsetKey, SetPrivateKey, SetPathOf, UnsetPath, locals
  <2>8. UNCHANGED vars => UNCHANGED <<pc, signed, got, req>>
    BY DEF vars
  <2>. QED
    BY <2>1, <2>2, <2>3, <2>4, <2>5, <2>6, <2>7, <2>8 DEF Next, Inside
<1>. QED
  BY <1>1, <1>2, TypeCorrect, PTL DEF Spec

-----------------------------------------------------------------------------
(* Passwords.  That a caller's password opens a wallet of the account      *)
(* depends on the cache having each key under a password that opens it,    *)
(* and on the path that is known for an account being a wallet of it.      *)

CacheOpens == \A a \in Addresses, w \in Passwords : keys[a][w] # None => Opens(given, a, w, keys[a][w])
PathsClaim == \A a \in Addresses : paths[a] # None => paths[a].claims = a
KeysOpen ==
    \A p \in Procs : pc[p] \in {"out", "signing", "returned"} /\ got[p] # None
                    => Opens(given, req[p].account, req[p].password, got[p])
FileClaims == \A p \in Procs : pc[p] = "decrypt" => file[p].claims = req[p].account

KeyInv == CacheOpens /\ PathsClaim /\ FileClaims /\ KeysOpen

\* What opens an account goes on to do so.
LEMMA OpensStays ==
    \A g, h, a, w, k : g \subseteq h /\ Opens(g, a, w, k) => Opens(h, a, w, k)
  BY DEF Opens

\* The steps that leave alone what the invariant is about, or take from it.
LEMMA KeyInvStays ==
    ASSUME TypeOK, KeyInv, UNCHANGED <<keys, given, paths, file, req, got>>,
           \A p \in Procs : \/ pc'[p] = pc[p] \/ pc'[p] \in {"idle", "look", "reload", "walk"}
                            \/ /\ pc[p] \in {"out", "signing", "returned"}
                               /\ pc'[p] \in {"signing", "returned"}
    PROVE  KeyInv'
<1>1. CacheOpens' /\ PathsClaim'
  BY OpensStays DEF KeyInv, CacheOpens, PathsClaim
<1>2. FileClaims'
  BY DEF KeyInv, FileClaims
<1>3. KeysOpen'
  BY OpensStays DEF KeyInv, KeysOpen
<1>. QED
  BY <1>1, <1>2, <1>3 DEF KeyInv

\* A call that goes out with a key that the password opens, or with none.
LEMMA LeaveKeyInv ==
    ASSUME TypeOK, KeyInv, NEW p \in Procs, NEW k \in Addresses \union {None}, req[p] \in Request,
           Leave(p, k), k # None => Opens(given, req[p].account, req[p].password, k),
           UNCHANGED <<paths, given, req>>, CacheOpens'
    PROVE  KeyInv'
<1>1. PathsClaim'
  BY DEF KeyInv, PathsClaim
<1>2. FileClaims'
  BY DEF KeyInv, FileClaims, Leave, Goto, TypeOK
<1>3. KeysOpen'
  <2> SUFFICES ASSUME NEW q \in Procs, pc'[q] \in {"out", "signing", "returned"}, got'[q] # None
               PROVE  Opens(given', req'[q].account, req'[q].password, got'[q])
    BY DEF KeysOpen
  <2>1. CASE q = p
    BY <2>1, OpensStays DEF Leave, TypeOK
  <2>2. CASE q # p
    <3>1. pc'[q] = pc[q] /\ got'[q] = got[q]
      BY <2>2 DEF Leave, Goto, TypeOK
    <3>. QED
      BY <3>1, OpensStays DEF KeyInv, KeysOpen
  <2>. QED
    BY <2>1, <2>2
<1>. QED
  BY <1>1, <1>2, <1>3 DEF KeyInv

\* A goroutine looks for a key in the cache.
LEMMA LookKeyInv ==
    ASSUME TypeOK, KeyInv, NEW p \in Procs, Look(p)
    PROVE  KeyInv'
<1> DEFINE a == req[p].account
           w == req[p].password
<1>1. req[p] \in Request /\ a \in Addresses /\ w \in Passwords
  BY DEF Look, TypeOK, Asking, Request
<1>2. CacheOpens'
  BY OpensStays DEF Look, cache, KeyInv, CacheOpens
<1>3. CASE keys[a][w] # None /\ Leave(p, keys[a][w])
  <2>1. keys[a][w] \in Addresses \union {None} /\ Opens(given, a, w, keys[a][w])
    BY <1>1, <1>3 DEF TypeOK, KeyInv, CacheOpens
  <2>. QED
    BY <1>1, <1>2, <1>3, <2>1, LeaveKeyInv DEF Look, cache
<1>4. CASE Leave(p, None)
  BY <1>1, <1>2, <1>4, LeaveKeyInv DEF Look, cache
<1>5. CASE paths[a] # None /\ file' = [file EXCEPT ![p] = paths[a]] /\ Goto(p, "decrypt") /\ got' = got
  <2>1. PathsClaim' /\ req' = req
    BY DEF Look, cache, KeyInv, PathsClaim
  <2>2. FileClaims'
    BY <1>1, <1>5, <2>1 DEF KeyInv, FileClaims, PathsClaim, Goto, TypeOK
  <2>3. KeysOpen'
    BY <1>5, <2>1, OpensStays DEF Look, cache, KeyInv, KeysOpen, Goto, TypeOK
  <2>. QED
    BY <1>2, <2>1, <2>2, <2>3 DEF KeyInv
<1>. QED
  BY <1>3, <1>4, <1>5 DEF Look, CachedKey, CacheSlot, NoPath

\* A wallet is decrypted with the caller's password or not at all.
LEMMA DecryptKeyInv ==
    ASSUME TypeOK, KeyInv, NEW p \in Procs, Decrypt(p)
    PROVE  KeyInv'
<1> DEFINE a == req[p].account
           w == req[p].password
<1>1. /\ req[p] \in Request /\ a \in Addresses /\ w \in Passwords
      /\ file[p] \in Files /\ file[p].owner \in Addresses /\ file[p].claims = a
  BY FilesAreWallets DEF Decrypt, TypeOK, Asking, Request, Wallet, KeyInv, FileClaims
<1>2. UNCHANGED <<paths, given, req>>
  BY DEF Decrypt
<1>3. CASE file[p].password = w /\ StoreKey(a, w, file[p].owner) /\ Leave(p, file[p].owner)
  <2>1. Opens(given, a, w, file[p].owner)
    BY <1>1, <1>3 DEF Opens
  <2>2. CacheOpens'
    <3> SUFFICES ASSUME NEW b \in Addresses, NEW v \in Passwords, keys'[b][v] # None
                 PROVE  Opens(given', b, v, keys'[b][v])
      BY DEF CacheOpens
    <3>1. keys' = [keys EXCEPT ![a][w] = file[p].owner]
      BY <1>3 DEF StoreKey, CacheSlot
    <3>2. CASE b = a /\ v = w
      BY <1>1, <1>2, <2>1, <3>1, <3>2, OpensStays DEF TypeOK
    <3>3. CASE ~(b = a /\ v = w)
      <4>1. keys'[b][v] = keys[b][v]
        BY <3>1, <3>3 DEF TypeOK
      <4>. QED
        BY <1>2, <4>1, OpensStays DEF KeyInv, CacheOpens
    <3>. QED
      BY <3>2, <3>3
  <2>. QED
    BY <1>1, <1>2, <1>3, <2>1, <2>2, LeaveKeyInv
<1>4. CASE Leave(p, None) /\ UNCHANGED keys
  <2>1. CacheOpens'
    BY <1>2, <1>4, OpensStays DEF KeyInv, CacheOpens
  <2>. QED
    BY <1>1, <1>2, <1>4, <2>1, LeaveKeyInv
<1>. QED
  BY <1>3, <1>4 DEF Decrypt

\* The setters and a reload: a path is set for the account that its file claims, a key under
\* the empty password.
LEMMA SettersKeyInv ==
    ASSUME TypeOK, KeyInv,
           \/ \E p \in Procs : SetPath(p)
           \/ \E a \in Addresses, w \in Passwords : UnsetKey(a, w)
           \/ \E a, k \in Addresses : SetPrivateKey(a, k)
           \/ \E f \in Files : SetPathOf(f)
           \/ \E a \in Addresses : UnsetPath(a)
    PROVE  KeyInv'
<1>1. UNCHANGED <<pc, req, file, got>> /\ given \subseteq given'
  BY DEF SetPath, UnsetKey, SetPrivateKey, SetPathOf, UnsetPath, locals
<1>2. FileClaims' /\ KeysOpen'
  BY <1>1, OpensStays DEF KeyInv, FileClaims, KeysOpen
<1>3. ASSUME UNCHANGED paths PROVE PathsClaim'
  BY <1>3 DEF KeyInv, PathsClaim
<1>4. ASSUME UNCHANGED keys PROVE CacheOpens'
  BY <1>1, <1>4, OpensStays DEF KeyInv, CacheOpens
<1>5. PathsClaim'
  <2>1. ASSUME NEW f \in Files, paths' = [paths EXCEPT ![f.claims] = f] PROVE PathsClaim'
    BY <2>1, FilesAreWallets DEF KeyInv, PathsClaim, TypeOK, Wallet
  <2>2. ASSUME NEW p \in Procs, SetPath(p) PROVE PathsClaim'
    <3>1. reload[p].dir \in Dirs /\ reload[p].at \in Nat \ {0}
      BY <2>2 DEF SetPath, TypeOK
    <3>2. CASE WalkEnds(reload[p].dir, reload[p].at)
      BY <2>2, <3>2 DEF SetPath, KeyInv, PathsClaim
    <3>3. CASE ~WalkEnds(reload[p].dir, reload[p].at)
      BY <2>1, <2>2, <3>1, <3>3, WalkedFile DEF SetPath
    <3>. QED
      BY <3>2, <3>3
  <2>3. ASSUME NEW a \in Addresses, UnsetPath(a) PROVE PathsClaim'
    BY <2>3 DEF UnsetPath, KeyInv, PathsClaim, TypeOK
  <2>. QED
    BY <1>3, <2>1, <2>2, <2>3 DEF UnsetKey, SetPrivateKey, SetPathOf
<1>6. CacheOpens'
  <2>1. ASSUME NEW a \in Addresses, NEW w \in Passwords, UnsetKey(a, w) PROVE CacheOpens'
    <3>1. \A b \in Addresses, v \in Passwords : keys'[b][v] \in {keys[b][v], None}
      BY <2>1 DEF UnsetKey, CacheSlot, TypeOK
    <3>. QED
      BY <1>1, <3>1, OpensStays DEF KeyInv, CacheOpens
  <2>2. ASSUME NEW a \in Addresses, NEW k \in Addresses, SetPrivateKey(a, k) PROVE CacheOpens'
    <3>1. Opens(given', a, Empty, k)
      BY <2>2 DEF SetPrivateKey, Opens
    <3>2. \A b \in Addresses, v \in Passwords :
             keys'[b][v] = keys[b][v] \/ (b = a /\ v = Empty /\ keys'[b][v] = k)
      BY <2>2, KeyStoreAssumption DEF SetPrivateKey, StoreKey, CacheSlot, TypeOK
    <3>. QED
      BY <1>1, <3>1, <3>2, OpensStays DEF KeyInv, CacheOpens
  <2>. QED
    BY <1>4, <2>1, <2>2 DEF SetPath, SetPathOf, UnsetPath
<1>. QED
  BY <1>2, <1>5, <1>6 DEF KeyInv

\* Nobody gets a key with a password that does not open a wallet of the account, and so nobody
\* signs in the name of an address without the password of a wallet with its key.
THEOREM OnlyThePassword == Spec => []PasswordOpens
<1>1. Init => KeyInv
  BY DEF Init, KeyInv, CacheOpens, PathsClaim, FileClaims, KeysOpen
<1>2. TypeOK /\ KeyInv /\ [Next]_vars => KeyInv'
  <2> SUFFICES ASSUME TypeOK, KeyInv, [Next]_vars PROVE KeyInv'
    OBVIOUS
  <2>1. CASE UNCHANGED vars
    BY <2>1, KeyInvStays DEF vars
  <2>2. ASSUME NEW p \in Procs, Call(p) PROVE KeyInv'
    <3>1. UNCHANGED <<keys, given, paths, file, got>> /\ pc[p] = "idle"
      BY <2>2 DEF Call, cache
    <3>2. \A q \in Procs : (q = p /\ pc'[q] = "lock") \/ (pc'[q] = pc[q] /\ req'[q] = req[q])
      <4>1. PICK r \in Request : req' = [req EXCEPT ![p] = r]
        BY <2>2 DEF Call
      <4>. QED
        BY <2>2, <4>1 DEF Call, Goto, TypeOK
    <3>3. CacheOpens' /\ PathsClaim' /\ FileClaims'
      BY <3>1, <3>2, OpensStays DEF KeyInv, CacheOpens, PathsClaim, FileClaims
    <3>4. KeysOpen'
      BY <3>1, <3>2, OpensStays DEF KeyInv, KeysOpen
    <3>. QED
      BY <3>3, <3>4 DEF KeyInv
  <2>3. ASSUME NEW p \in Procs, Drop(p) PROVE KeyInv'
    <3>1. UNCHANGED <<keys, given, paths, file>>
      BY <2>3 DEF Drop, cache
    <3>2. \A q \in Procs : pc'[q] = "idle" \/ (pc'[q] = pc[q] /\ req'[q] = req[q] /\ got'[q] = got[q])
      BY <2>3 DEF Drop, Goto, TypeOK
    <3>3. CacheOpens' /\ PathsClaim' /\ FileClaims'
      BY <3>1, <3>2, OpensStays DEF KeyInv, CacheOpens, PathsClaim, FileClaims
    <3>4. KeysOpen'
      BY <3>1, <3>2, OpensStays DEF KeyInv, KeysOpen
    <3>. QED
      BY <3>3, <3>4 DEF KeyInv
  <2>4. ASSUME NEW p \in Procs, Lock(p) \/ Result(p) \/ Sign(p) PROVE KeyInv'
    BY <2>4, KeyInvStays DEF Lock, Result, Sign, Goto, cache, locals, TypeOK
  <2>5. ASSUME NEW p \in Procs, AddPath(p) \/ Reload(p) \/ NextDir(p) PROVE KeyInv'
    BY <2>5, KeyInvStays DEF AddPath, Reload, NextDir, Goto, cache, locals, TypeOK
  <2>6. ASSUME NEW d \in Dirs, RemovePath(d) PROVE KeyInv'
    BY <2>6, KeyInvStays DEF RemovePath, cache, locals
  <2>. QED
    BY <2>1, <2>2, <2>3, <2>4, <2>5, <2>6, LookKeyInv, DecryptKeyInv, SettersKeyInv DEF Next, Inside
<1>3. KeyInv /\ OwnSignature => PasswordOpens
  BY DEF KeyInv, KeysOpen, OwnSignature, MayUse, PasswordOpens
<1>. QED
  BY <1>1, <1>2, <1>3, TypeCorrect, SignsForOwner, PTL DEF Spec

-----------------------------------------------------------------------------
(* Reloads.  A wallet of a registered directory that has no path yet is    *)
(* still before some goroutine: it has its reload to start, the directory  *)
(* to walk, or the file to come to.  AddPath registers first and lists     *)
(* then; that is why no directory is missed.                               *)

Ahead(p, d, i) ==
    \/ pc[p] = "reload"
    \/ pc[p] = "walk" /\ d \in reload[p].todo
    \/ pc[p] = "walk" /\ reload[p].dir = d /\ reload[p].at <= i

HasPath(d, i) == paths[Wallets[d][i].claims] # None

RegInv ==
    /\ CacheAlone => dirs = {}
    /\ \A d \in dirs : \A i \in Reached(d) : HasPath(d, i) \/ \E p \in Procs : Ahead(p, d, i)

\* What a walk has ended before is not reached.
LEMMA EndedBefore ==
    ASSUME NEW d \in Dirs, NEW n \in Nat \ {0}, WalkEnds(d, n), NEW i \in Reached(d)
    PROVE  i \in Nat /\ ~(n <= i)
<1>1. Wallets[d] \in Seq(Wallet \union {Bad})
  BY KeyStoreAssumption
<1>2. i \in 1..Len(Wallets[d])
  BY <1>1 DEF Reached
<1>. QED
  BY <1>1, <1>2 DEF WalkEnds, Reached

\* A goroutine's step in a reload keeps the others where they are, and what it comes to has a
\* path after it.
LEMMA ReloadRegInv ==
    ASSUME TypeOK, RegInv, NEW p \in Procs, AddPath(p) \/ Reload(p) \/ NextDir(p) \/ SetPath(p)
    PROVE  RegInv'
<1>1. CacheAlone => dirs' = {}
  BY DEF RegInv, AddPath, Reload, NextDir, SetPath
<1>. SUFFICES ASSUME NEW d \in dirs', NEW i \in Reached(d), ~HasPath(d, i)'
              PROVE  \E q \in Procs : Ahead(q, d, i)'
  BY <1>1 DEF RegInv, Reached
<1>2. \A q \in Procs : q # p => pc'[q] = pc[q] /\ reload'[q] = reload[q]
  BY DEF AddPath, Reload, NextDir, SetPath, Goto, locals, TypeOK
<1>3. CASE AddPath(p)
  BY <1>3 DEF AddPath, Goto, TypeOK, Ahead
<1>4. CASE ~AddPath(p)
  <2>1. d \in dirs /\ d \in Dirs
    BY <1>4 DEF Reload, NextDir, SetPath, TypeOK
  <2>2. i \in Nat /\ Wallets[d][i] \in Files /\ Wallets[d][i].claims \in Addresses
    <3>1. Wallets[d] \in Seq(Wallet \union {Bad})
      BY <2>1, KeyStoreAssumption
    <3>2. i \in 1..Len(Wallets[d]) /\ Wallets[d][i] # Bad
      BY <3>1 DEF Reached
    <3>3. ~WalkEnds(d, i)
      BY <3>1, <3>2 DEF WalkEnds
    <3>. QED
      BY <2>1, <3>2, <3>3, WalkedFile, FilesAreWallets DEF Wallet
  <2>3. ~HasPath(d, i)
    <3>1. CASE UNCHANGED paths
      BY <3>1 DEF HasPath
    <3>2. CASE SetPath(p) /\ paths' # paths
      <4>1. PICK a \in Addresses, f \in Files : paths' = [paths EXCEPT ![a] = f]
        <5>1. reload[p].dir \in Dirs /\ reload[p].at \in Nat \ {0}
          BY <3>2 DEF SetPath, TypeOK
        <5>2. ~WalkEnds(reload[p].dir, reload[p].at)
          BY <3>2 DEF SetPath
        <5>3. Wallets[reload[p].dir][reload[p].at] \in Files
          BY <5>1, <5>2, WalkedFile
        <5>. QED
          BY <3>2, <5>2, <5>3, FilesAreWallets DEF SetPath, Wallet
      <4>. QED
        BY <2>2, <4>1, FilesAreWallets DEF HasPath, TypeOK
    <3>. QED
      BY <1>4, <3>1, <3>2 DEF Reload, NextDir, cache
  <2>4. PICK q \in Procs : Ahead(q, d, i)
    BY <2>1, <2>3 DEF RegInv
  <2>5. CASE q # p
    BY <1>2, <2>4, <2>5 DEF Ahead
  <2>6. CASE q = p /\ Reload(p)
    BY <2>1, <2>6 DEF Reload, Goto, TypeOK, Ahead
  <2>7. CASE q = p /\ NextDir(p)
    <3>1. d \in reload[p].todo /\ pc[p] = "walk" /\ reload[p].todo # {}
      BY <2>1, <2>4, <2>7, KeyStoreAssumption DEF NextDir, Ahead
    <3>2. PICK e \in reload[p].todo :
             reload' = [reload EXCEPT ![p] = [todo |-> @.todo \ {e}, dir |-> e, at |-> 1]]
      BY <2>7, <3>1 DEF NextDir
    <3>3. pc'[p] = "walk"
      BY <2>7, <3>1 DEF NextDir
    <3>4. reload'[p] = [todo |-> reload[p].todo \ {e}, dir |-> e, at |-> 1]
      BY <3>2 DEF TypeOK
    <3>5. 1 <= i
      BY <2>1, <2>2, KeyStoreAssumption DEF Reached
    <3>. QED
      BY <3>1, <3>3, <3>4, <3>5 DEF Ahead
  <2>8. CASE q = p /\ SetPath(p)
    <3>1. /\ reload[p].dir \in Dirs /\ reload[p].at \in Nat \ {0}
          /\ pc'[p] = "walk" /\ pc[p] = "walk"
      BY <2>8 DEF SetPath, TypeOK
    <3>2. CASE WalkEnds(reload[p].dir, reload[p].at)
      <4>1. reload'[p] = [todo |-> reload[p].todo, dir |-> None, at |-> 1]
        BY <2>8, <3>2 DEF SetPath, AfterWalk, TypeOK
      <4>2. ~(reload[p].dir = d /\ reload[p].at <= i)
        BY <2>1, <3>1, <3>2, EndedBefore
      <4>3. d \in reload[p].todo
        BY <2>4, <2>8, <3>1, <4>2 DEF Ahead
      <4>. QED
        BY <3>1, <4>1, <4>3 DEF Ahead
    <3>3. CASE ~WalkEnds(reload[p].dir, reload[p].at)
      <4>1. reload' = [reload EXCEPT ![p].at = @ + 1]
        BY <2>8, <3>3 DEF SetPath
      <4>2. /\ reload'[p].todo = reload[p].todo /\ reload'[p].dir = reload[p].dir
            /\ reload'[p].at = reload[p].at + 1
        BY <4>1 DEF TypeOK
      <4>3. ~(reload[p].dir = d /\ reload[p].at = i)
        <5> SUFFICES ASSUME reload[p].dir = d, reload[p].at = i PROVE FALSE
          OBVIOUS
        <5>1. paths' = [paths EXCEPT ![Wallets[d][i].claims] = Wallets[d][i]]
          BY <2>8, <3>3 DEF SetPath
        <5>2. paths'[Wallets[d][i].claims] = Wallets[d][i]
          BY <2>2, <5>1 DEF TypeOK
        <5>. QED
          BY <2>2, <5>2, FilesAreWallets DEF HasPath
      <4>4. reload[p].dir = d /\ reload[p].at <= i => reload[p].at + 1 <= i
        BY <2>2, <3>1, <4>3
      <4>. QED
        BY <2>4, <2>8, <3>1, <4>2, <4>4 DEF Ahead
    <3>. QED
      BY <3>2, <3>3
  <2>. QED
    BY <1>4, <2>5, <2>6, <2>7, <2>8
<1>. QED
  BY <1>3, <1>4

\* When no reload is under way, no wallet of a registered directory is without a path.
THEOREM AllRegistered == Spec => []Registered
<1>1. Init => RegInv
  BY DEF Init, RegInv
<1>2. TypeOK /\ RegInv /\ [Next]_vars => RegInv'
  <2> SUFFICES ASSUME TypeOK, RegInv, [Next]_vars PROVE RegInv'
    OBVIOUS
  <2>1. ASSUME UNCHANGED <<dirs, paths, reload>>,
               \A p \in Procs : pc'[p] = pc[p] \/ pc[p] \notin {"reload", "walk"}
        PROVE  RegInv'
    BY <2>1 DEF RegInv, Ahead, HasPath, Reached
  <2>2. ASSUME NEW p \in Procs, Call(p) \/ Lock(p) \/ Inside(p) \/ Sign(p) \/ Drop(p) PROVE RegInv'
    <3>1. UNCHANGED <<dirs, paths, reload>>
      BY <2>2 DEF Call, Lock, Inside, Look, Decrypt, Result, Sign, Drop, locals, cache
    <3>2. pc[p] \notin {"reload", "walk"}
      BY <2>2 DEF Call, Lock, Inside, Look, Decrypt, Result, Sign, Drop
    <3>3. \A q \in Procs : q = p \/ pc'[q] = pc[q]
      BY <2>2 DEF Call, Lock, Inside, Look, Decrypt, Result, Sign, Drop, Leave, Goto, TypeOK
    <3>. QED
      BY <2>1, <3>1, <3>2, <3>3
  <2>3. ASSUME NEW d \in Dirs, RemovePath(d) PROVE RegInv'
    BY <2>3 DEF RemovePath, RegInv, Ahead, HasPath, Reached, locals, cache
  <2>4. CASE CacheAlone /\ UNCHANGED dirs
    BY <2>4 DEF RegInv
  <2>5. ASSUME NEW a \in Addresses, NEW w \in Passwords, UnsetKey(a, w) PROVE RegInv'
    BY <2>1, <2>5 DEF UnsetKey, locals
  <2>6. CASE UNCHANGED vars
    BY <2>1, <2>6 DEF vars
  <2>. QED
    BY <2>2, <2>3, <2>4, <2>5, <2>6, ReloadRegInv
       DEF Next, SetPrivateKey, SetPathOf, UnsetPath
<1>3. RegInv => Registered
  BY DEF RegInv, Registered, Ahead, HasPath
<1>. QED
  BY <1>1, <1>2, <1>3, TypeCorrect, PTL DEF Spec

-----------------------------------------------------------------------------
(* Every call for a key comes back.  The provers know nothing of ENABLED:  *)
(* that who is inside may go on, and that a free mutex may be taken, is a  *)
(* hypothesis, WaitsForHolderOnly, an invariant of the run key_store.      *)
(* What is proved is the rest of the argument, for any goroutines and any  *)
(* changes of directories and keys between their steps.                    *)

AtLock(p) == pc[p] = "lock"
AtLook(p) == pc[p] = "look"
AtDecrypt(p) == pc[p] = "decrypt"
AtOut(p) == pc[p] = "out"
Back(p) == pc[p] \in {"signing", "returned"}
Free(p) == AtLock(p) /\ guard[req[p].account] = None
HeldBy(p, q) == AtLock(p) /\ guard[req[p].account] = q /\ pc[q] \in {"look", "decrypt"}

\* Once it has the mutex, the goroutine gives it back, and returns.
GetsOut(p) ==
    /\ [](AtLook(p) \/ AtDecrypt(p) => <>AtOut(p))
    /\ [](AtOut(p) => <>Back(p))

\* A goroutine moves by its own steps only.
LEMMA OthersStay ==
    ASSUME TypeOK, [Next]_vars, NEW p \in Procs,
           pc[p] \in {"lock", "look", "decrypt", "out"}
    PROVE  \/ pc'[p] = pc[p] /\ req'[p] = req[p]
           \/ Lock(p) \/ Inside(p)
<1> USE DEF TypeOK, Goto
<1>1. ASSUME NEW q \in Procs, q # p,
             \/ Call(q) \/ Lock(q) \/ Look(q) \/ Decrypt(q) \/ Result(q) \/ Sign(q) \/ Drop(q)
             \/ AddPath(q) \/ Reload(q) \/ NextDir(q) \/ SetPath(q)
      PROVE  pc'[p] = pc[p] /\ req'[p] = req[p]
  BY <1>1 DEF Call, Lock, Look, Decrypt, Result, Sign, Drop, AddPath, Reload, NextDir, SetPath,
              Leave, locals
<1>2. ~(Call(p) \/ Sign(p) \/ Drop(p) \/ AddPath(p) \/ Reload(p) \/ NextDir(p) \/ SetPath(p))
  BY DEF Call, Sign, Drop, AddPath, Reload, NextDir, SetPath
<1>3. CASE \/ \E d \in Dirs : RemovePath(d)
           \/ \E a \in Addresses, w \in Passwords : UnsetKey(a, w)
           \/ \E a, k \in Addresses : SetPrivateKey(a, k)
           \/ \E f \in Files : SetPathOf(f)
           \/ \E a \in Addresses : UnsetPath(a)
  BY <1>3 DEF RemovePath, UnsetKey, SetPrivateKey, SetPathOf, UnsetPath, locals
<1>4. CASE UNCHANGED vars
  BY <1>4 DEF vars
<1>. QED
  BY <1>1, <1>2, <1>3, <1>4 DEF Next, Inside

\* Where a step inside PrivateKey leads.
LEMMA InsideLeads ==
    ASSUME TypeOK, NEW p \in Procs, Inside(p)
    PROVE  /\ req' = req
           /\ pc[p] = "look" => pc'[p] \in {"decrypt", "out"}
           /\ pc[p] = "decrypt" => pc'[p] = "out"
           /\ pc[p] = "out" => Back(p)'
           /\ pc[p] \in {"look", "decrypt", "out"}
<1> USE DEF TypeOK, Goto
<1>1. CASE Look(p)
  BY <1>1 DEF Look, Leave
<1>2. CASE Decrypt(p)
  BY <1>2 DEF Decrypt, Leave
<1>3. CASE Result(p)
  BY <1>3 DEF Result, Back, locals
<1>. QED
  BY <1>1, <1>2, <1>3 DEF Inside

\* Who is inside comes out.
LEMMA ComesOut ==
    ASSUME NEW p \in Procs
    PROVE  []TypeOK /\ [][Next]_vars /\ []WaitsForHolderOnly /\ FairTo(p)
           => GetsOut(p)
<1> USE DEF AtLook, AtDecrypt, AtOut
<1>1. WaitsForHolderOnly /\ (AtLook(p) \/ AtDecrypt(p) \/ AtOut(p)) => ENABLED <<Inside(p)>>_vars
  BY DEF WaitsForHolderOnly
<1>2. TypeOK /\ [Next]_vars /\ AtLook(p) => AtLook(p)' \/ AtDecrypt(p)' \/ AtOut(p)'
  BY OthersStay, InsideLeads DEF Lock
<1>3. TypeOK /\ [Next]_vars /\ AtDecrypt(p) => AtDecrypt(p)' \/ AtOut(p)'
  BY OthersStay, InsideLeads DEF Lock
<1>4. TypeOK /\ [Next]_vars /\ AtOut(p) => AtOut(p)' \/ Back(p)'
  BY OthersStay, InsideLeads DEF Lock
<1>5. TypeOK /\ <<Inside(p)>>_vars /\ AtLook(p) => AtDecrypt(p)' \/ AtOut(p)'
  BY InsideLeads
<1>6. TypeOK /\ <<Inside(p)>>_vars /\ AtDecrypt(p) => AtOut(p)'
  BY InsideLeads
<1>7. TypeOK /\ <<Inside(p)>>_vars /\ AtOut(p) => Back(p)'
  BY InsideLeads
<1>. QED
  BY <1>1, <1>2, <1>3, <1>4, <1>5, <1>6, <1>7, PTL DEF FairTo, GetsOut

\* A mutex that is held passes from one goroutine to another only when it has been given back.
LEMMA HeldOrGivenBack ==
    ASSUME TypeOK, [Next]_vars, NEW a \in Addresses, guard[a] # None
    PROVE  guard'[a] \in {guard[a], None}
<1>1. CASE UNCHANGED guard
  BY <1>1
<1>2. ASSUME NEW q \in Procs, Lock(q) PROVE guard'[a] \in {guard[a], None}
  <2>1. req[q].account \in Addresses /\ guard[req[q].account] = None
    BY <1>2 DEF Lock, MayEnter, TypeOK, Asking, Request
  <2>2. guard' = [guard EXCEPT ![req[q].account] = q]
    BY <1>2 DEF Lock
  <2>. QED
    BY <2>1, <2>2 DEF TypeOK
<1>3. ASSUME NEW q \in Procs, Look(q) \/ Decrypt(q) PROVE guard'[a] \in {guard[a], None}
  <2>1. guard' = guard \/ guard' = [guard EXCEPT ![req[q].account] = None]
    BY <1>3 DEF Look, Decrypt, Leave
  <2>. QED
    BY <2>1 DEF TypeOK
<1>4. ASSUME NEW q \in Procs,
             \/ Call(q) \/ Result(q) \/ Sign(q) \/ Drop(q)
             \/ AddPath(q) \/ Reload(q) \/ NextDir(q) \/ SetPath(q)
      PROVE  UNCHANGED guard
  BY <1>4 DEF Call, Result, Sign, Drop, AddPath, Reload, NextDir, SetPath, locals
<1>5. CASE \/ \E d \in Dirs : RemovePath(d)
           \/ \E b \in Addresses, w \in Passwords : UnsetKey(b, w)
           \/ \E b, k \in Addresses : SetPrivateKey(b, k)
           \/ \E f \in Files : SetPathOf(f)
           \/ \E b \in Addresses : UnsetPath(b)
  BY <1>1, <1>5 DEF RemovePath, UnsetKey, SetPrivateKey, SetPathOf, UnsetPath
<1>. QED
  BY <1>1, <1>2, <1>3, <1>4, <1>5 DEF Next, Inside, vars

\* Who holds the mutex another waits for gives it back.
LEMMA HolderLeaves ==
    ASSUME NEW p \in Procs, NEW q \in Procs
    PROVE  []TypeOK /\ []OneAtATime /\ [][Next]_vars /\ []WaitsForHolderOnly /\ FairTo(q)
           => [](HeldBy(p, q) => <>(Free(p) \/ ~AtLock(p)))
<1>1. TypeOK /\ OneAtATime' /\ [Next]_vars /\ HeldBy(p, q)
      => HeldBy(p, q)' \/ Free(p)' \/ ~AtLock(p)'
  <2> SUFFICES ASSUME TypeOK, OneAtATime', [Next]_vars, HeldBy(p, q), AtLock(p)',
                      guard'[req'[p].account] # None
               PROVE  HeldBy(p, q)'
    BY DEF Free
  <2>1. req'[p] = req[p]
    BY OthersStay, InsideLeads DEF HeldBy, AtLock, Lock, locals
  <2>2. req[p].account \in Addresses
    BY DEF HeldBy, AtLock, TypeOK, Asking, Request
  <2>3. guard[req[p].account] = q /\ guard'[req[p].account] # None
    BY <2>1 DEF HeldBy
  <2>4. guard'[req[p].account] = q
    BY <2>2, <2>3, HeldOrGivenBack, KeyStoreAssumption
  <2>5. pc'[q] \in {"look", "decrypt"}
    BY <2>2, <2>3, <2>4 DEF OneAtATime
  <2>. QED
    BY <2>1, <2>4, <2>5 DEF HeldBy
<1>2. HeldBy(p, q) => (AtLook(q) \/ AtDecrypt(q)) /\ ~AtOut(q)
  BY DEF HeldBy, AtLook, AtDecrypt, AtOut
<1>3. []TypeOK /\ [][Next]_vars /\ []WaitsForHolderOnly /\ FairTo(q)
      => GetsOut(q)
  BY ComesOut
<1>. QED
  BY <1>1, <1>2, <1>3, PTL DEF GetsOut

\* A mutex that is held is given back, whoever holds it.
LEMMA GivenBack ==
    ASSUME NEW p \in Procs
    PROVE  []TypeOK /\ []OneAtATime /\ [][Next]_vars /\ []WaitsForHolderOnly /\ Fairness
           => [](AtLock(p) => <>(Free(p) \/ ~AtLock(p)))
<1>1. ASSUME NEW q \in Procs
      PROVE  []TypeOK /\ []OneAtATime /\ [][Next]_vars /\ []WaitsForHolderOnly /\ Fairness
             => [](HeldBy(p, q) => <>(Free(p) \/ ~AtLock(p)))
  <2>1. Fairness => FairTo(q)
    BY DEF Fairness
  <2>. QED
    BY <2>1, HolderLeaves, PTL
<1>2. []TypeOK /\ []OneAtATime /\ [][Next]_vars /\ []WaitsForHolderOnly /\ Fairness
      => [](\A q \in Procs : (HeldBy(p, q) => <>(Free(p) \/ ~AtLock(p))))
  BY <1>1
<1>3. (\A q \in Procs : (HeldBy(p, q) => <>(Free(p) \/ ~AtLock(p))))
      => ((\E q \in Procs : HeldBy(p, q)) => <>(Free(p) \/ ~AtLock(p)))
  OBVIOUS
<1>4. TypeOK /\ OneAtATime /\ AtLock(p) => Free(p) \/ \E q \in Procs : HeldBy(p, q)
  <2> SUFFICES ASSUME TypeOK, OneAtATime, AtLock(p), guard[req[p].account] # None
               PROVE  HeldBy(p, guard[req[p].account]) /\ guard[req[p].account] \in Procs
    BY DEF Free
  <2>1. req[p].account \in Addresses
    BY DEF AtLock, TypeOK, Asking, Request
  <2>. QED
    BY <2>1 DEF HeldBy, OneAtATime, TypeOK
<1>. QED
  BY <1>2, <1>3, <1>4, PTL

\* Every call for a key comes back: who waits finds the mutex free again and again, for each
\* who holds it comes out, and strong fairness is what a mutex gives that hands over to who
\* has waited for long.
THEOREM EveryKeyCallReturns == FairSpec /\ []WaitsForHolderOnly => KeyCallReturns
<1>1. ASSUME NEW p \in Procs
      PROVE  FairSpec /\ []WaitsForHolderOnly => [](AtLock(p) => <>Back(p))
  <2>1. WaitsForHolderOnly /\ Free(p) => ENABLED <<Lock(p)>>_vars
    BY DEF WaitsForHolderOnly, Free, AtLock
  <2>2. TypeOK /\ [Next]_vars /\ AtLock(p) => AtLock(p)' \/ AtLook(p)'
    BY OthersStay, InsideLeads DEF AtLock, AtLook, Lock, Goto, TypeOK
  <2>3. TypeOK /\ <<Lock(p)>>_vars => AtLook(p)'
    BY DEF Lock, Goto, TypeOK, AtLook
  <2>4. Free(p) => AtLock(p)
    BY DEF Free
  <2>5. AtLook(p) => ~AtLock(p)
    BY DEF AtLock, AtLook
  <2>6. Fairness => FairTo(p)
    BY DEF Fairness
  <2>7. []TypeOK /\ [][Next]_vars /\ []WaitsForHolderOnly /\ FairTo(p)
        => GetsOut(p)
    BY ComesOut
  <2>8. []TypeOK /\ []OneAtATime /\ [][Next]_vars /\ []WaitsForHolderOnly /\ Fairness
        => [](AtLock(p) => <>(Free(p) \/ ~AtLock(p)))
    BY GivenBack
  <2>9. []TypeOK /\ [][Next]_vars /\ []WaitsForHolderOnly /\ FairTo(p)
        /\ [](AtLock(p) => <>(Free(p) \/ ~AtLock(p)))
        => [](AtLock(p) => <>AtLook(p))
    BY <2>1, <2>2, <2>3, <2>4, <2>5, PTL DEF FairTo
  <2>. QED
    BY <2>6, <2>7, <2>8, <2>9, TypeCorrect, OneInside, PTL DEF FairSpec, Spec, GetsOut
<1>2. FairSpec /\ []WaitsForHolderOnly => \A p \in Procs : [](AtLock(p) => <>Back(p))
  BY <1>1
<1>. QED
  BY <1>2, PTL DEF KeyCallReturns, AtLock, Back
=============================================================================
