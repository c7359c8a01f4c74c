------------------------------ MODULE Commands ------------------------------
(***************************************************************************)
(* One run of the etherman command: deploy, tx, call, logs or build        *)
(* (deploy.go, tx.go, call.go, logs.go, build.go) with the account that it *)
(* makes of its options (options_keys.go), down to the calls of the        *)
(* deployer, of which the outcome is all that counts here.                 *)
(*                                                                         *)
(* A key is named by its address.  An address that does not parse is the   *)
(* zero address; so is the one of an option that was not given.            *)
(***************************************************************************)
EXTENDS MapArgs

CONSTANTS
    ArgCases,    \* what a contract's inputs may be, with arguments that a line may have
    Addresses,   \* accounts, and the keys that belong to them
    Zero,        \* the zero address
    OnLedger,    \* the accounts of the ledger
    KeyFile,     \* KeyFile[a]: the key in the keystore's file for a
    Bad,         \* a raw key that is not one, a keystore directory that is none
    None

ASSUME CommandAssumption ==
    /\ OnLedger \subseteq Addresses
    /\ KeyFile \in [Addresses -> Addresses \union {None}]
    /\ {Zero, Bad, None} \cap Addresses = {}
    /\ Zero # None /\ Bad # None /\ Zero # Bad
    /\ \A c \in ArgCases : DOMAIN c.types = 1..Len(c.types) /\ c.args \in Seq(Arguments)

Options == [cmd: {"deploy", "tx", "call", "logs", "build"}, bytecode: BOOLEAN, cover: BOOLEAN,
            ledger: BOOLEAN, fromPk: Addresses \union {Bad, None},
            keystoreDir: {"dir", Bad, None}, from: Addresses \union {Zero}]

VARIABLES
    opt,       \* the options
    pc,        \* the next step
    account,   \* fromAddress and, by the address of its key, signerFn
    call,      \* the inputs of the method or constructor, the arguments, the values made of them
    sent,      \* the transaction sent: its sender, the key that signed it, the words of its data
    out,       \* what the deployer returned
    exit       \* how the process ended

vars == <<opt, pc, account, call, sent, out, exit>>

Init ==
    /\ opt \in Options
    /\ pc = "new"
    /\ account = [from |-> Zero, signer |-> None]
    /\ call = [types |-> <<>>, args |-> <<>>, vals |-> <<>>]
    /\ sent = None
    /\ out = "nothing"
    /\ exit = "running"

-----------------------------------------------------------------------------
(* initEthereumAccountsManager                                             *)

Failed == [from |-> Zero, signer |-> None, err |-> TRUE]

\* errors.Wrap of an err that is nil is nil: no address, no signer and no error.
Nothing == [from |-> Zero, signer |-> None, err |-> FALSE]

Account(a, key) == [from |-> a, signer |-> key, err |-> FALSE]

\* The wallet that holds the account is looked for when it has to sign.
LedgerAccount == IF opt.from = Zero THEN {Nothing}
                 ELSE {Failed, Account(opt.from, IF opt.from \in OnLedger THEN opt.from ELSE Bad)}

RawKeyAccount_Unchecked ==
    IF opt.from \notin {Zero, opt.fromPk} THEN {Nothing} ELSE {Account(opt.fromPk, opt.fromPk)}
RawKeyAccount_FromIgnored == IF opt.fromPk = Bad THEN {Failed} ELSE {Account(opt.fromPk, opt.fromPk)}
\* Here an address that does not parse is not the same as none: Zero stands for either.
RawKeyAccount ==
    IF opt.fromPk = Bad THEN {Failed}
    ELSE IF opt.from \notin {Zero, opt.fromPk} THEN {Nothing}
    ELSE {Account(opt.fromPk, opt.fromPk)} \union (IF opt.from = Zero THEN {Nothing} ELSE {})

\* The file, the passphrase or the directory may be wrong.
KeystoreAccount ==
    IF opt.from = Zero THEN {Nothing}
    ELSE IF opt.keystoreDir = Bad \/ KeyFile[opt.from] = None THEN {Failed}
    ELSE {Failed, Account(opt.from, KeyFile[opt.from])}

Accounts ==
    CASE opt.ledger -> LedgerAccount
      [] ~opt.ledger /\ opt.fromPk # None -> RawKeyAccount
      [] ~opt.ledger /\ opt.fromPk = None /\ opt.keystoreDir # None -> KeystoreAccount
      [] OTHER -> {Failed}

-----------------------------------------------------------------------------
(* The steps of a command                                                  *)

Goto(l) == pc' = l /\ UNCHANGED exit
End(e) == pc' = "end" /\ exit' = e
Fatal == End("fatal")

\* The bytecode of a deployment and of a transaction's method, without a signature.
Offline == opt.bytecode /\ opt.cmd \in {"deploy", "tx"}

Sends == opt.cmd \in {"deploy", "tx"} \/ (opt.cmd = "call" /\ opt.cover)

New ==
    /\ pc = "new"
    /\ Fatal \/ Goto(IF Sends THEN "backend" ELSE "compile")
    /\ UNCHANGED <<opt, account, call, sent, out>>

Backend ==
    /\ pc = "backend"
    /\ Fatal \/ Goto("chain")
    /\ UNCHANGED <<opt, account, call, sent, out>>

ChainID ==
    /\ pc = "chain"
    /\ Fatal \/ Goto("account")
    /\ UNCHANGED <<opt, account, call, sent, out>>

InitAccount ==
    /\ pc = "account"
    /\ \E a \in Accounts :
          /\ account' = [from |-> a.from, signer |-> a.signer]
          /\ IF a.err THEN Fatal ELSE Goto("compile")
    /\ UNCHANGED <<opt, call, sent, out>>

\* getCompiledContract of the operation; Fatalln on its error
Compile ==
    /\ pc = "compile"
    /\ \/ Fatal /\ UNCHANGED out
       \/ opt.cmd = "build" /\ out' = "bytecode" /\ Goto("print")
       \/ opt.cmd # "build" /\ Goto("request") /\ UNCHANGED out
    /\ UNCHANGED <<opt, account, call, sent>>

\* The operation's requests, if it is not offline, up to the method.  One that the contract
\* does not have ends tx and call, with no error if none came before.
Request ==
    /\ pc = "request"
    /\ \/ Fatal /\ UNCHANGED out
       \/ opt.cmd \in {"tx", "call"} /\ Goto("print") /\ UNCHANGED out
       \/ opt.cmd = "logs" /\ out' = "events" /\ Goto("print")
       \/ opt.cmd # "logs" /\ Goto("args") /\ UNCHANGED out
    /\ UNCHANGED <<opt, account, call, sent>>

\* The command's input mapper: Fatalln on arguments that cannot be mapped
MapInputs ==
    /\ pc = "args"
    /\ \E c \in ArgCases :
          LET m == MapStringArgs(c.types, c.args)
          IN  IF m.end = "ok"
              THEN call' = [types |-> c.types, args |-> c.args, vals |-> m.val] /\ Goto("values")
              ELSE UNCHANGED call /\ End(IF m.end = "panic" THEN "panic" ELSE "fatal")
    /\ UNCHANGED <<opt, account, sent, out>>

AllPack == \A i \in DOMAIN call.types : Packs(call.types[i], call.vals[i])
Words == [i \in DOMAIN call.types |-> Pack(call.types[i], call.vals[i])]

\* Offline, the values are packed and printed; BytecodeOnly is set by deploy and tx, not by
\* call.  A call that is not covered, or of a contract that is not, is made.  For the others
\* tx and deploy make a signer from FromPk if they have none, and there is no FromPk; a
\* covered call asks for a signer first.
UseValues ==
    /\ pc = "values"
    /\ \/ /\ Offline
          /\ IF AllPack THEN out' = "bytecode" /\ Goto("print") ELSE Fatal /\ UNCHANGED out
       \/ opt.cmd = "call" /\ AllPack /\ out' = "values" /\ Goto("print")
       \/ opt.cmd = "call" /\ Fatal /\ UNCHANGED out
       \/ /\ Sends /\ ~Offline /\ account.signer = None
          /\ IF opt.cmd = "call" THEN Fatal ELSE End("panic")
          /\ UNCHANGED out
       \/ Sends /\ ~Offline /\ account.signer # None /\ Goto("sign") /\ UNCHANGED out
    /\ UNCHANGED <<opt, account, call, sent>>

\* A keyed signer refuses any sender but its own; the ledger, an account it does not have.
Authorized == account.signer = account.from

Sign ==
    /\ pc = "sign"
    /\ IF AllPack /\ Authorized
       THEN sent' = [from |-> account.from, key |-> account.signer, data |-> Words] /\ Goto("confirm")
       ELSE Fatal /\ UNCHANGED sent
    /\ UNCHANGED <<opt, account, call, out>>

\* Sent and, unless told otherwise, confirmed; call has its answer from there.
Confirm ==
    /\ pc = "confirm"
    /\ \/ Fatal /\ UNCHANGED out
       \/ /\ out' = CASE opt.cmd = "deploy" -> "address" [] opt.cmd = "tx" -> "hash"
                      [] opt.cmd = "call" -> "values"
          /\ Goto("print")
    /\ UNCHANGED <<opt, account, call, sent>>

\* call --bytecode takes the first value for a byte slice.
PrintedAs ==
    IF opt.cmd # "call" \/ ~opt.bytecode THEN {"ok"}
    ELSE IF out = "nothing" THEN {"panic"} ELSE {"ok", "panic"}

\* build --standard-json reads the sources again, and may fail.
Output ==
    /\ pc = "print"
    /\ \E e \in PrintedAs \union (IF opt.cmd = "build" THEN {"fatal"} ELSE {}) : End(e)
    /\ UNCHANGED <<opt, account, call, sent, out>>

Ended == pc = "end" /\ UNCHANGED vars

Next ==
    \/ New \/ Backend \/ ChainID \/ InitAccount \/ Compile \/ Request \/ MapInputs \/ UseValues
    \/ Sign \/ Confirm \/ Output \/ Ended

Spec == Init /\ [][Next]_vars

-----------------------------------------------------------------------------
(* What a run guarantees                                                   *)

\* Every variable keeps to its domain.
TypeOK ==
    /\ opt \in Options
    /\ pc \in {"new", "backend", "chain", "account", "compile", "request", "args", "values",
               "sign", "confirm", "print", "end"}
    /\ account \in [from: Addresses \union {Zero}, signer: Addresses \union {Bad, None}]
    /\ DOMAIN call.vals = DOMAIN call.types /\ DOMAIN call.args = DOMAIN call.types
    /\ sent # None => sent.from \in Addresses /\ sent.key \in Addresses
    /\ out \in {"nothing", "bytecode", "address", "hash", "values", "events"}
    /\ exit \in {"running", "ok", "fatal", "panic"}

\* A transaction goes out from the account that --from names, if it names one, and is signed
\* by that account's key, whichever of the ledger, the raw key and the keystore has it and
\* whatever the keystore's files are labelled (options_keys.go:85-202).
SentByNamedAccount ==
    sent # None
    => /\ opt.from # Zero => sent.from = opt.from
       /\ sent.key = sent.from
       /\ \/ opt.ledger /\ sent.key \in OnLedger
          \/ ~opt.ledger /\ sent.key = opt.fromPk
          \/ ~opt.ledger /\ opt.fromPk = None /\ KeyFile[sent.from] = sent.key

\* The data that is sent, or printed to be sent, says what the arguments on the line say: read
\* by its type, each word is the number, the address, the bytes or the list that was written.
\* A number that the type does not hold goes out as no other.  Nothing is said of what nobody
\* checks: the range of a number of 128 or 256 bits (map_args.go:42, 82), and the length of the
\* text of an address or of fixed bytes, which is cut or filled (map_args.go:127, 133-232).
ArgumentsAsMeant ==
    LET Mean(words) == \A i \in DOMAIN words : Says(call.types[i], call.args[i], words[i])
    IN  /\ sent # None => Mean(sent.data)
        /\ out = "bytecode" /\ opt.cmd # "build" => Mean(Words)

-----------------------------------------------------------------------------
(* What is said of it and does not hold                                    *)

\* "If specified, must exist in keystore, ledger or match the privkey" (options_keys.go:46):
\* with an address specified, the account is set up without an error only if it can sign.
FromMustMatch ==
    pc = "compile" /\ Sends /\ opt.from # Zero => account.signer # None

=============================================================================
