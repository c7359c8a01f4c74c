------------------------------ MODULE KeyStore ------------------------------
(***************************************************************************)
(* The keystore: keyStore (keystore/keystore.go) over keyCache             *)
(* (keystore/keycache.go), used by several goroutines.  Two sync.Maps hold *)
(* the paths of wallet files and the decrypted keys, a mutex per account   *)
(* guards decryption, a read-write mutex the list of directories.          *)
(*                                                                         *)
(* A private key is named by the address it belongs to.  A wallet file     *)
(* claims an address; the key inside may belong to another.                *)
(***************************************************************************)
EXTENDS Naturals, FiniteSets, Sequences

CONSTANTS
    Procs,        \* goroutines
    Addresses,    \* accounts, and the keys that belong to them
    Passwords,
    Empty,        \* the empty password
    Dirs,         \* keystore directories, named by numbers in the order of their names
    Wallets,      \* Wallets[d]: the files of d in the order of filepath.Walk
    Bad,          \* a file that is not a wallet
    CacheAlone,   \* the cache is used without the keystore: its setters are within reach
    None

Wallet == [dir: Dirs, claims: Addresses, owner: Addresses, password: Passwords]

ASSUME KeyStoreAssumption ==
    /\ Dirs \subseteq Nat /\ IsFiniteSet(Dirs)
    /\ Wallets \in [Dirs -> Seq(Wallet \union {Bad})]
    /\ Empty \in Passwords
    /\ CacheAlone \in BOOLEAN
    /\ Bad \notin Wallet
    /\ None \notin Wallet /\ None \notin Addresses /\ None \notin Procs /\ None \notin Dirs

VARIABLES
    dirs,      \* the directories registered
    paths,     \* paths[a]: the wallet file known for account a
    keys,      \* keys[a][w]: the key cached for account a and password w
    given,     \* the pairs given to SetPrivateKey so far
    guard,     \* guard[a]: the goroutine that holds the account's mutex
    pc,        \* pc[p]: where goroutine p is
    req,       \* req[p]: the operation it is in, its account and password
    file,      \* file[p]: the wallet file it is decrypting
    got,       \* got[p]: the key it was given
    reload,    \* reload[p]: the directories it has still to walk, and its place in one
    signed     \* signed[p]: the address that it has a signature of

vars == <<dirs, paths, keys, given, guard, pc, req, file, got, reload, signed>>

Request == [op: {"key", "signer", "personal"}, account: Addresses, password: Passwords]

Init ==
    /\ dirs = {}
    /\ paths = [a \in Addresses |-> None]
    /\ keys = [a \in Addresses |-> [w \in Passwords |-> None]]
    /\ given = {}
    /\ guard = [a \in Addresses |-> None]
    /\ pc = [p \in Procs |-> "idle"]
    /\ req = [p \in Procs |-> None]
    /\ file = [p \in Procs |-> None]
    /\ got = [p \in Procs |-> None]
    /\ reload = [p \in Procs |-> [todo |-> {}, dir |-> None, at |-> 1]]
    /\ signed = [p \in Procs |-> None]

-----------------------------------------------------------------------------
(* What the steps are made of                                              *)

cache == <<paths, keys, given>>
locals == <<req, file, got, reload, signed>>

Goto(p, l) == pc' = [pc EXCEPT ![p] = l]

\* The entry of the key map: sha1 of the account, a dash and the password.
CacheSlot_AnyPassword(a, w) == Empty
CacheSlot(a, w) == w

CachedKey(a, w) == keys[a][CacheSlot(a, w)]
StoreKey(a, w, k) == keys' = [keys EXCEPT ![a][CacheSlot(a, w)] = k]

NoPath_Unchecked(a) == FALSE
NoPath(a) == paths[a] = None

\* LoadOrStore gives every caller the same mutex.
MayEnter_OwnMutex(p) == TRUE
MayEnter_OneMutex(p) == \A a \in Addresses : guard[a] = None
MayEnter(p) == guard[req[p].account] = None

\* The deferred Unlock, on every way out.
Leave_KeepsLock(p, k) ==
    /\ guard' = IF k = None THEN guard ELSE [guard EXCEPT ![req[p].account] = None]
    /\ Goto(p, "out")
    /\ got' = [got EXCEPT ![p] = k]
    /\ file' = [file EXCEPT ![p] = None]
Leave(p, k) ==
    /\ guard' = [guard EXCEPT ![req[p].account] = None]
    /\ Goto(p, "out")
    /\ got' = [got EXCEPT ![p] = k]
    /\ file' = [file EXCEPT ![p] = None]

\* forEachWallet: the walk through a directory ends at its first file that is no wallet.
WalkEnds(d, i) == i > Len(Wallets[d]) \/ Wallets[d][i] = Bad

\* The signer made from a key signs for the key's own address only.
MaySign(from, k) == from = k

-----------------------------------------------------------------------------
(* PrivateKey, SignerFn, PersonalSignFn                                    *)

Call(p) ==
    /\ pc[p] = "idle"
    /\ \E r \in Request : req' = [req EXCEPT ![p] = r]
    /\ Goto(p, "lock")
    /\ UNCHANGED <<dirs, cache, guard, file, got, reload, signed>>

Lock(p) ==
    /\ pc[p] = "lock" /\ MayEnter(p)
    /\ guard' = [guard EXCEPT ![req[p].account] = p]
    /\ Goto(p, "look")
    /\ UNCHANGED <<dirs, cache, locals>>

\* The cached key, or the path of the account's wallet file.
Look(p) ==
    /\ pc[p] = "look"
    /\ LET r == req[p] IN
          \/ CachedKey(r.account, r.password) # None /\ Leave(p, CachedKey(r.account, r.password))
          \/ /\ CachedKey(r.account, r.password) = None
             /\ IF NoPath(r.account) THEN Leave(p, None)
                ELSE /\ file' = [file EXCEPT ![p] = paths[r.account]]
                     /\ Goto(p, "decrypt")
                     /\ UNCHANGED <<guard, got>>
    /\ UNCHANGED <<dirs, cache, req, reload, signed>>

\* The file is read and DecryptKey tried; scrypt makes this the long step.
Decrypt(p) ==
    /\ pc[p] = "decrypt"
    /\ \/ /\ file[p].password = req[p].password
          /\ StoreKey(req[p].account, req[p].password, file[p].owner)
          /\ Leave(p, file[p].owner)
       \/ Leave(p, None) /\ UNCHANGED keys
    /\ UNCHANGED <<dirs, paths, given, req, reload, signed>>

\* What the caller gets: the key, a signer, or for PersonalSignFn an error if the key is not
\* the account's.
Result(p) ==
    /\ pc[p] = "out"
    /\ IF \/ req[p].op = "key" \/ got[p] = None
          \/ req[p].op = "personal" /\ got[p] # req[p].account
       THEN Goto(p, "returned") ELSE Goto(p, "signing")
    /\ UNCHANGED <<dirs, cache, guard, locals>>

\* The signer is used, for whatever address, and refuses or signs.
Sign(p) ==
    /\ pc[p] = "signing"
    /\ \E from \in Addresses :
          signed' = IF MaySign(from, got[p])
                    THEN [signed EXCEPT ![p] = from] ELSE signed
    /\ Goto(p, "returned")
    /\ UNCHANGED <<dirs, cache, guard, req, file, got, reload>>

\* The goroutine is done with what it got.
Drop(p) ==
    /\ pc[p] = "returned"
    /\ Goto(p, "idle")
    /\ req' = [req EXCEPT ![p] = None]
    /\ got' = [got EXCEPT ![p] = None]
    /\ signed' = [signed EXCEPT ![p] = None]
    /\ UNCHANGED <<dirs, cache, guard, file, reload>>

-----------------------------------------------------------------------------
(* AddPath, RemovePath, and the setters of the cache                       *)

\* AddPath registers the directory under the mutex ...
AddPath(p) ==
    /\ pc[p] = "idle" /\ ~CacheAlone
    /\ \E d \in Dirs : dirs' = dirs \union {d}
    /\ Goto(p, "reload")
    /\ UNCHANGED <<cache, guard, locals>>

\* ... and reads the list back, all of it, in a section of its own.
Reload(p) ==
    /\ pc[p] = "reload"
    /\ reload' = [reload EXCEPT ![p] = [todo |-> dirs, dir |-> None, at |-> 1]]
    /\ Goto(p, "walk")
    /\ UNCHANGED <<dirs, cache, guard, req, file, got, signed>>

\* The directories are walked in the order of their names.
NextDir(p) ==
    /\ pc[p] = "walk" /\ reload[p].dir = None
    /\ IF reload[p].todo = {}
       THEN Goto(p, "idle") /\ UNCHANGED reload
       ELSE /\ \E d \in reload[p].todo :
                  /\ \A e \in reload[p].todo : d <= e
                  /\ reload' = [reload EXCEPT ![p] = [todo |-> @.todo \ {d}, dir |-> d, at |-> 1]]
            /\ UNCHANGED pc
    /\ UNCHANGED <<dirs, cache, guard, req, file, got, signed>>

\* A walk that ends early is no reason to leave out the directories after it.
AfterWalk_Stops(todo) == {}
AfterWalk(todo) == todo

\* The path of one wallet after the other is set, over whatever was there.
SetPath(p) ==
    /\ pc[p] = "walk" /\ reload[p].dir # None
    /\ LET r == reload[p]
       IN  IF WalkEnds(r.dir, r.at)
           THEN /\ reload' = [reload EXCEPT ![p] = [todo |-> AfterWalk(r.todo), dir |-> None, at |-> 1]]
                /\ UNCHANGED paths
           ELSE /\ paths' = [paths EXCEPT ![Wallets[r.dir][r.at].claims] = Wallets[r.dir][r.at]]
                /\ reload' = [reload EXCEPT ![p].at = @ + 1]
    /\ UNCHANGED <<dirs, keys, given, guard, pc, req, file, got, signed>>

\* The paths of its wallets stay.
RemovePath(d) ==
    /\ d \in dirs
    /\ dirs' = dirs \ {d}
    /\ UNCHANGED <<cache, guard, pc, locals>>

\* UnsetKey takes no mutex: a decryption under way puts the key back.
UnsetKey(a, w) ==
    /\ keys' = [keys EXCEPT ![a][CacheSlot(a, w)] = None]
    /\ UNCHANGED <<dirs, paths, given, guard, pc, locals>>

SetPrivateKey(a, k) ==
    /\ CacheAlone
    /\ StoreKey(a, Empty, k)
    /\ given' = given \union {<<a, k>>}
    /\ UNCHANGED <<dirs, paths, guard, pc, locals>>

SetPathOf(f) ==
    /\ CacheAlone
    /\ paths' = [paths EXCEPT ![f.claims] = f]
    /\ UNCHANGED <<dirs, keys, given, guard, pc, locals>>

UnsetPath(a) ==
    /\ CacheAlone
    /\ paths' = [paths EXCEPT ![a] = None]
    /\ UNCHANGED <<dirs, keys, given, guard, pc, locals>>

Files == (UNION {{Wallets[d][i] : i \in DOMAIN Wallets[d]} : d \in Dirs}) \ {Bad}

Inside(p) == Look(p) \/ Decrypt(p) \/ Result(p)

Next ==
    \/ \E p \in Procs : \/ Call(p) \/ Lock(p) \/ Inside(p) \/ Sign(p) \/ Drop(p)
                        \/ AddPath(p) \/ Reload(p) \/ NextDir(p) \/ SetPath(p)
    \/ \E d \in Dirs : RemovePath(d)
    \/ \E a \in Addresses, w \in Passwords : UnsetKey(a, w)
    \/ \E a, k \in Addresses : SetPrivateKey(a, k)
    \/ \E f \in Files : SetPathOf(f)
    \/ \E a \in Addresses : UnsetPath(a)

Spec == Init /\ [][Next]_vars

\* Goroutines run on; a sync.Mutex hands over to who has waited for long.
FairTo(p) == WF_vars(Inside(p)) /\ SF_vars(Lock(p))

Fairness == \A p \in Procs : FairTo(p)

FairSpec == Spec /\ Fairness

-----------------------------------------------------------------------------
(* What the keystore guarantees                                            *)

Asking == {"lock", "look", "decrypt", "out", "signing", "returned"}

\* Every variable keeps to its domain, and what is decrypted is a wallet file.
TypeOK ==
    /\ dirs \subseteq Dirs
    /\ paths \in [Addresses -> Files \union {None}]
    /\ keys \in [Addresses -> [Passwords -> Addresses \union {None}]]
    /\ given \subseteq Addresses \X Addresses
    /\ guard \in [Addresses -> Procs \union {None}]
    /\ pc \in [Procs -> {"idle", "lock", "look", "decrypt", "out", "signing", "returned",
                         "reload", "walk"}]
    /\ req \in [Procs -> Request \union {None}]
    /\ \A p \in Procs : pc[p] \in Asking => req[p] \in Request
    /\ file \in [Procs -> Files \union {None}]
    /\ \A p \in Procs : pc[p] = "decrypt" => file[p] \in Files
    /\ got \in [Procs -> Addresses \union {None}]
    /\ reload \in [Procs -> [todo: SUBSET Dirs, dir: Dirs \union {None}, at: Nat \ {0}]]
    /\ signed \in [Procs -> Addresses \union {None}]

\* Account a's wallet, or what was set for it, opens with w to k.
Opens(set, a, w, k) ==
    \/ \E f \in Files : f.claims = a /\ f.password = w /\ f.owner = k
    \/ w = Empty /\ <<a, k>> \in set

\* Nobody gets a key with a password that does not open a wallet file of the account, though
\* another has opened it before; keys set without a password go by the empty one.  So nobody
\* signs in the name of an address without the password of a wallet with its key, though a
\* wallet may claim an address that its key does not have, which PersonalSignFn refuses
\* (keycache.go:62-65, 68, 74, 96, 119-135, 146).
PasswordOpens ==
    \A p \in Procs :
        LET r == req[p] IN
        /\ pc[p] \in {"out", "signing", "returned"} /\ got[p] # None
           => Opens(given, r.account, r.password, got[p])
        /\ signed[p] # None
           => /\ Opens(given, r.account, r.password, signed[p])
              /\ r.op = "personal" => signed[p] = r.account

\* One goroutine at a time looks for an account's key and decrypts its wallet, and it is the
\* one that holds the mutex; nobody holds one that is not inside (keycache.go:70-72).
OneAtATime ==
    /\ \A p \in Procs : pc[p] \in {"look", "decrypt"} => guard[req[p].account] = p
    /\ \A a \in Addresses :
          guard[a] # None => pc[guard[a]] \in {"look", "decrypt"} /\ req[guard[a]].account = a

\* No wallet is decrypted while its key is cached: who has waited for the mutex finds what the
\* one before it has decrypted.  Only SetPrivateKey, which takes no mutex, may put a key in the
\* cache meanwhile (keycache.go:62-65, 70-77, 96).
DecryptedOnce ==
    \A p \in Procs :
        pc[p] = "decrypt"
        => LET r == req[p]
               k == keys[r.account][r.password]
           IN  k = None \/ (r.password = Empty /\ <<r.account, k>> \in given)

\* The wallets of a directory that a walk comes to
Reached(d) == {i \in DOMAIN Wallets[d] : \A j \in 1..i : Wallets[d][j] # Bad}

\* When no reload is under way, every wallet that can be reached in a directory still
\* registered has a path to its account, whatever AddPath and RemovePath ran together
\* (keystore.go:117-145).
Registered ==
    (\A p \in Procs : pc[p] \notin {"reload", "walk"})
    => \A d \in dirs : \A i \in Reached(d) : paths[Wallets[d][i].claims] # None

\* Who is inside PrivateKey waits for nobody, and who comes to an account's mutex only for the
\* one who holds it: not for a call of another account, nor for a change of the directories
\* (keycache.go:68-72).
WaitsForHolderOnly ==
    \A p \in Procs :
        /\ pc[p] \in {"look", "decrypt", "out"} => ENABLED <<Inside(p)>>_vars
        /\ pc[p] = "lock" /\ guard[req[p].account] = None => ENABLED <<Lock(p)>>_vars

\* Every call for a key comes back, with an error too (the deferred Unlock, keycache.go:72).
KeyCallReturns == \A p \in Procs : pc[p] = "lock" ~> pc[p] \in {"signing", "returned"}

=============================================================================
