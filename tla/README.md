# A verification project for etherman

etherman compiles Solidity contracts with `solc`, caches what it compiled,
deploys contracts, sends transactions to their methods, calls them, reads their
logs, and measures the coverage of a test session. It is a command (`main.go`
and one file for each command) over a Go package (`deployer/`), which other
programs use directly, with many calls on one `Deployer` at the same time.

This directory holds TLA+ models of it, the TLC configurations that check them on small
instances, and TLAPS proofs for every instance of their invariants, of the refinements
between them and of three liveness properties. Every definition is translated from the
source; `PROJECT.json` gives the lines of each (`map`), the hazards the properties are
aimed at (`hazards`), and for each property a mutation of the model that breaks it
(`mutants`).

    tlc -workers 4 -config TxRace.cfg MCTxPipeline
    tlapm TxPipelineProofs.tla

## 1. Inventory

| component | source | state | operations |
|---|---|---|---|
| transactions and deployments | `deployer_tx.go`, `deployer_deploy.go`, `util.go`, `contract.go`, `coverage_event.go` | the locals of each call; the named results `txHash`, `err` | `Tx`, `Deploy` |
| client | `client.go` | `initClientOnce`, `client` | `Backend`, `SendTransactionWithRet` |
| build cache | `build_cache.go`, `util.go:135-212` | a directory of JSON files | `LoadContract`, `StoreContract`, `Clear`; `getCompiledContract` |
| keystore | `keystore/` | `paths` and its mutex; two `sync.Map`s; a mutex per account | `PrivateKey`, `SignerFn`, `PersonalSignFn`, `AddPath`, `RemovePath`, setters of the cache |
| compiler front end | `sol/sol.go` | none between calls; four maps within one | `Compile`, `CompileWithCoverage` |
| AST orchestration | `sol/sol_coverage.go` | none | `addCoverageMarkers` and what it calls |
| coverage collector | `coverage.go` | sources, lines and counts, under a mutex | `LoadContract`, `AddStatement`, `CollectCoverageEvent`, `CollectCoverageRevert`, the reports |
| HTML report | `coverage_html.go` | none | `htmlOutput` |
| calls, logs | `deployer_call.go`, `deployer_logs.go` | the locals of each call | `Call`, `Logs` |
| commands | `main.go`, `deploy.go`, `tx.go`, `call.go`, `logs.go`, `build.go`, `options*.go` | the options; the account made of them | the five commands |
| argument mapping | `map_args.go` | none | `mapStringArgs` |
| standard JSON | `standard_json.go` | none | `collectPathsToStandardJSON` |

How they interact. A command makes a `Deployer` of its options and an account of
its key options (a signer from the ledger, a raw key, or the keystore), then makes
one call. `Tx` and `Deploy` get the compiled contract from the cache or from
`solc`, take the one client of the deployer, ask the node for chain ID and nonce,
sign, send, wait for the receipt and, with coverage, give its events to the
collector, which calls of a session share. Calls run in goroutines of their own
and meet in four places: the client, the collector, the account's nonce at the
node, and the cache directory, where other processes meet them too. The keystore
is shared by whoever asks for keys.

What is hard. Calls of one account read the same nonce (`NonceAt` at the latest
block) and compete at the node. A send may time out and arrive all the same. A
receipt is asked for twice, by steps with deadlines of their own. Cache entries
are truncated and then filled, and keyed by a hash taken at another time than the
text was compiled. Keys are decrypted under a mutex for each account and removed
without it. Directories are added in one critical section and listed in another.
Names, indexes and paths of sources are matched by ranging over Go maps. Errors
are wrapped that are nil.

What makes each part correct: a confirmation means a transaction in the chain, and
a hash can always be traced; a build answers the request whoever else is in the
directory; a key is given only to its password, which nobody's signature does without,
and is decrypted once; file numbers in the bytecode index the paths they are read by; a count
is how often the calls have read that a statement was executed, and a report loses and
doubles none of them; the values of a covered call are read from a chain that holds its
transaction; a transaction goes out from the account that was named and says what the command
line says.

## 2. Modules

`EthNode` is external: an account nonce, a pool, receipts. It may refuse anything,
mine in any order the nonces allow, evict, replace by price, mine what it is sent at
once as development nodes do, and serve another program on the same account.

**`TxOutcome`** is the promise of `Tx` and `Deploy` without clients, requests, deadlines or
pools: a call signs one transaction or none, the chain settles one for each nonce of an
account, and a call reports once, nothing that the chain contradicts.

**`TxPipeline`** (extends `EthNode`) implements it: any number of calls of `Tx` and `Deploy`
on one deployer. A step is the code between two RPCs. `pc[c]` is the RPC the call waits for,
`hash` and `err` are the named results, which the code hands out on early returns as
they stand. `Start` is everything up to `Backend`, with the call that only wants the
bytecode; `Backend` and `DialEnds` are `sync.Once`; `GetChainID`, `ReadNonce`, `Cover`
(`GetCoverageEventInfo`, `LoadContract`, `AddStatement`: before the send in `Tx`, after
the confirmation in `Deploy`), `Prepare` (method, signer, gas price, packing, signing),
`SendAccepted`, `SendRefused`, `SendTimeout`, `AwaitTx`, `AwaitTimeout`, `RevertReason`
and its panic, `CollectEvents`. A transaction is the record of its fields, and its hash
is the record: signing is deterministic, so that two calls with the same nonce, price
and payload send the same transaction. The refinement mapping reads the outcome off the
results that a caller sees (`ResultOf`).

**`CallPipeline`** (extends `TxPipeline`): `Deployer.Call` among and around those calls, on
the same deployer, node and collector. `at[c]` is where a Call stands, and `"none"` for a
`Tx` or `Deploy`. `CallStart`, `CallBackend`, `CallDialEnds`, `CallChainID`, `CallCover` and
`CallPlain` are its own requests; while `at[c] = "tx"` the Tx within takes the steps of
`TxPipeline`, and `CallTxReturned`, `CallReceipt` and `CallValues` are what follows: the tag
in a fetched reason, the second wait, whose error is dropped, and the values under the
deadline that was set before all of it. `read[c]` is how much of the account's chain the
values are from.

**`BuildOutcome`** is what `getCompiledContract` promises, without a word of a cache: a build
returns what a compiler would have made of the source at one moment between its call and its
return, or nothing. Where the source may be edited between a compilation and its store
(`Steady` is false), a build that may use the cache can be given an earlier text's contract.

**`BuildCache`** implements it: `getCompiledContract` by several builds, each a goroutine or a process.
A contract remembers the text it was compiled from. The entry's file is name in lower
case, hash, coverage suffix. `StoreOpen` truncates and `StoreWrite` fills; two writers of
one file may leave either entry or a mixture; `Clear` unlinks under a writer. `Edit`
changes the source, `Kill` ends a build between any two steps. The mapping (`Outcome`) forgets
the directory, and keeps of a build whether it is under way and which text it looked at last:
the one it hashed, and once it has compiled, the one it compiled.

**`KeyStore`**: `keyStore` over `keyCache`. A key is named by the address it belongs to,
and a wallet file claims an address that may be another. `Lock`, `Look`, `Decrypt` are
`PrivateKey`, with the deferred unlock in `Leave`. `AddPath` is the first critical section
of the method of that name, and `Reload` takes the lock of the second: `reloadPathsCache`
walks the directories one by one (`NextDir`), in the order of their names, and registers a
file at a time (`SetPath`), until a file that is no wallet ends the walk of its directory
(`WalkEnds`).

**`CompileOutput`**: from the output of `solc` to the contracts, in both modes, and on to the
standard JSON that `build` makes of their paths (`CollectStandardJSON`). Each range over a
Go map is a choice among all the results its orders can give.

**`CoverageAST`**: `addCoverageMarkers` as operators on trees. A node has a kind, a position
and children. `Blocks` finds the blocks deepest first, and each is orchestrated and put back
where it was found (`Orchestrate`, `OrchestrateBlock`), one within another included. `Walked`
is the reference: one walk over the tree. `Executions` says what the EVM makes of a marked
body: what it logs, what it comes to, how it ends, and with which tag.

**`CoverageCollector`**: its operations hold the mutex throughout, so each is a step.
Positions become lines by `LineStart` and `PosToLine`, computed as in the code.
**`CoverageReport`** extends it by the profiles of the HTML report, their sorting and merging.
The map gives the statements in any order and `sort.Sort` leaves those of one start in any
order, so that a profile is any arrangement in order of start (`Sorted`); `Merged` is the loop
over it.

**`CoverageSession`** (extends `CoverageReport`): calls of `Tx`, `Deploy` and `Logs` that load
the sources (`Load`), list the statements (`Add`), run the marked code (`Execute`) and bring
its logs and tags to the collector they share (`CollectLog`, `CollectTag`), one mutex section
to a step, so that calls interleave between any two logs. `Fetch` and `Return` are the rest
of `Deployer.Logs`. An execution (`ran`) is not what a call comes to know: a call may end
before it hears of its own (`Hears`, `Fails`), may be told a reason without its tag (`Told`),
and a `Logs` may read the receipt of any call's (`got`, and `whose` it is). What the marks are is a parameter: the positions listed (`Listed`), what a
run of the marked code logs and comes to (`Runs`), and where the statements are (`Sites`).
**`MarkedSession`** extends it and `CoverageAST` and says what they are: what
`addCoverageMarkers` makes of the sources, and the EVM of that.

**`MapArgs`**: `mapStringArgs` and the packing of what it returns, as operators. A text is what
it can be read as (a number, bytes of hexadecimal, "true"); widths are scaled.
**`Commands`** (extends `MapArgs`): one run of a command. The account is what
`initEthereumAccountsManager` makes of the options, with the errors that are nil where it
wraps a nil one; a call of the deployer is its outcome.

`TxPipelineProofs`, `CallPipelineProofs`, `BuildCacheProofs`, `KeyStoreProofs`,
`CompileOutputProofs`, `CoverageCollectorProofs`, `CoverageSessionProofs` and `CommandsProofs`
hold the theorems. `MC*` modules give the instances. Operators named `X_Variant` are mutations of
`X`; they are used by nothing but the mutant runs.

    TxOutcome <= TxPipeline -> EthNode          Commands -> MapArgs
                     ^                          KeyStore     CompileOutput
                CallPipeline                    MarkedSession -> CoverageSession, CoverageAST
    BuildOutcome <= BuildCache                  CoverageSession -> CoverageReport -> CoverageCollector

(`->` extends, `<=` is implemented by.)

## 3. Runs

| run | instance | what it shows |
|---|---|---|
| `tx_calls` | 2 calls, each a `Tx`, a `Deploy` or a `Call`, with a collector or without, awaited or not, bytecode only, of a missing method; 1 foreign transaction; one of them with a deadline of the caller, fairness | `HashTracksTransaction`, `OneDialer`, `CoverageMatchesChain`, `CoverageComplete`, `ReadsOwnWrite`, `FetchedTagCounted`, `KeepsPromise` (the refinement), `WaitsForDialerOnly`, `EveryCallReturns`, `CallReturns`; types by `CallTypeOK` |
| `tx_race` | 3 calls of one account, 2 prices, symmetric | `OneWinnerPerNonce`, `NonceAfterConfirmed`, `AddressHoldsOwnCode`, `NoGap` |
| `cache_shared` | 2 builds, names that collide in lower case, 2 texts, kills, edits except while storing | `CompilesAtOneMoment` (the refinement), `TypeOK` |
| `key_cache` | 2 goroutines, 2 accounts, 2 passwords, one wallet mislabelled, setters | `PasswordOpens` (of keys and signatures), `DecryptedOnce` |
| `key_store` | 2 goroutines, 2 directories, one with a bad file, fairness | `OneAtATime`, `WaitsForHolderOnly`, `Registered`, `KeyCallReturns`, `TypeOK` |
| `compile` | 3 sources, 3 names, one an interface, symmetric in paths | `IndexNamesFile`, `AnswersToItsName`, `EveryFileListed`, `StandardJSONComplete`, `TypeOK` |
| `collector` | 2 calls, each a `Tx`, a `Deploy` or a `Logs`, over 3 contracts: of two files, of a file of those, of nested blocks | `CountsAreExecutions`, `MarkedOnce`, `LogsInOrder`, `CountsAreReports`, `CountsGrow`, `NoCrash`, `ShownAtItsLine`, `OneRowPerStatement` |
| `commands` | 3 accounts: on the ledger, in the keystore, mislabelled; every option; every type of argument with numbers in and out of range and hexadecimal of every length | `SentByNamedAccount`, `ArgumentsAsMeant`, `TypeOK` |
| `tx_overall`, `cache_edited`, `compile_two`, `cmd_from` | see section 4 | what the code says of itself and does not do |

`CountsAreExecutions` relates three things: what is counted, what the calls have read
(`TimesRead`), and what was executed (`TimesRun`). Counts are exactly what was read by calls
that had the sources, and never more. They are what was executed only if each execution is
read, and by one call: a `Logs` for a transaction whose own call has its receipt counts it
again, and an execution that no call hears of is not counted. The property says all of that, and
the instance has each of the cases.

`ArgumentsAsMeant` says nothing where the code does not look: a number of 128 or 256 bits out of
its range, an address or fixed bytes written with another length than theirs.

`CompilesAtOneMoment` is more than that a build is answered as it asked: a hit is of the text
that the build hashed, and a miss, or a build past the cache, of the source at that moment; both
older properties, `AnswersTheRequest` and `NoStaleHit`, follow (section 5). `ConfirmedIsMined`
follows from `KeepsPromise`. `WaitsForDialerOnly` and `WaitsForHolderOnly` say of each place
where a call can stand who else it waits for there, as `ENABLED` formulas: that is where a
deadline that was left out, or one mutex for all accounts, would show, and it is what the
proofs of liveness take from the runs.

What the properties say is in the comment above each; why a broken program would break them
is in `mutants`, one for each property.

Why the bounds are enough. Two calls show every pairwise race, and one of them may be a Call
with its Tx within; the third in `tx_race` is the bystander whose transaction replaces, or is
replaced, between the other two. Two prices are the least at which replacement happens. One
foreign transaction (`MaxForeign`) moves the account under a call that has read its nonce; it
is the only bound on counters of the node besides the number of calls, since no other action
adds a nonce. Two builds suffice for two writers and for a reader of a half-written entry. Two
texts are before and after an edit. Three sources and three names (`MaxSources`) give two
contracts in a file, one name in two files, and a source with none, at once. The collector's
sources have empty lines, a last line, a position in the first column, statements that share
a start, an event of the program's own, requires with a literal reason and without, a branch,
a return before the end, two blocks that open together and a block that is not marked;
`MaxReports` (20) is above what two executions can report. Of the widths of integers two stand
for 8 to 64 bits and two for 128 and 256, at a word of 6 bits; a number fits all of them, some,
or only the widest. For everything that section 5 proves, the theorems lift the bound.

### Symmetry

`Calls`, `Builders`, `Procs` and `Paths` are permuted in runs of invariants and of action
properties that name no element (`tx_race`, `collector`, `cache_shared`, `key_cache`,
`compile`). `tx_calls` and `key_store`, which check liveness, use none.

### Deadlock

Checked in every run. A model that may stop says when, by `Terminated`, `CallTerminated`,
`Done` or `Ended`.

### Fairness

`TxPipeline`: weak fairness of `Bounded(c)`, the steps that wait for nothing or that a
context with a deadline brings about: each RPC of the call but one has one
(`context.WithTimeout` with `RPCTimeout`, `CallTimeout` or `TxTimeout`). The node has no
fairness at all. `Start` has none: `solc` runs without a deadline. The exception is the
`eth_call` of `getRevertReason`, which runs under the caller's context: `ReasonDeadline` is
enabled only if that has a deadline (`CallerDeadline`).

`CallPipeline` (`CallFairTo`): weak fairness of `Outer(c)`, what Call does by itself (its requests have
`CallTimeout` or `TxTimeout`), and of the same `Bounded` steps of a Tx within. The Tx within
is given `context.Background()`, so that a Call is never in `CallerDeadline`; `CallReturns`
names the two places where that leaves it (`HeldUp`).

`KeyStore` (`FairTo`): weak fairness of the steps inside `PrivateKey`, strong fairness of `Lock`: a Go
mutex hands over to a waiter that has waited for more than a millisecond.

The other modules promise nothing about progress: builds may be killed, and the collector,
compiler and commands run straight through.

## 4. What the code says of itself and does not do

Each of these is a run that TLC must find violated; `findings` quotes the lines.

| run | statement | what happens |
|---|---|---|
| `tx_overall` | the timeout is overall, wait included (`options.go:102`) | the search for a revert reason has no deadline but the caller's, and the commands give none |
| `cache_edited` | `codeHash` (`build_cache.go:30`) | after an edit between compilation and store it is the hash of a later text, which loads the old code from then on |
| `compile_two` | several contracts in a file are refused (`sol.go:247`) | the check never fires |
| `cmd_from` | `--from` must match (`options_keys.go:46`) | a mismatch is no error and leaves no signer |

Others came up while modelling. The models have the steps, but it takes one look at a line
rather than a search to see them:

- A reply with a revert reason in the layout that `util.go:53-58` gives panics at
  `util.go:73`: `errorABIJSON` has a comma too many, and the error is dropped
  (`RevertReasonPanics`).
- `Tx` and `Call` for a method that the contract does not have return neither a result nor
  an error (`deployer_tx.go:140`; `Prepare`, `CallChainID`).
- The context given to `Call` does not reach the transaction of a covered call, and the
  error of the second wait is dropped (`deployer_call.go:167`; `HeldUp`, `CallReceipt`).
- A cache entry of a contract whose name differs in case loads as the nil contract, with
  an error that wraps a nil one (`build_cache.go:118`; `Checked`); and an entry that
  another build is writing ends the build as a failed compilation (`util.go:144`;
  `LoadRead`). A torn entry that stays does so to every later build of the text, until the
  cache is cleared; `CompilesAtOneMoment` lets a build return nothing, and does not exclude it.
- A source that declares no contract of its own stands in `AllPaths` as the empty string,
  which `build --standard-json` then tries to read, and fails (`sol.go:150`; `PathOf`,
  `CollectStandardJSON`). With coverage such a source ends the build (`NoAST`).
- Numbers for `int128`, `uint128`, `int256` and `uint256` are taken as they come: one out of
  range is sent as another (`map_args.go:42`, `82`). Fixed bytes are cut or filled with zeros
  when the text has another length (`map_args.go:132-232`; `Fit`), and so are addresses, from
  the other end (`map_args.go:127`; `FitLeft`), without an error. All of these are excepted in
  `ArgumentsAsMeant`. Hexadecimal that does not parse ends the process (`MapScalar`).
- `Logs` with a collector counts again the events that the transaction's own call, or another
  `Logs`, has counted (`deployer_logs.go:127`; `CollectLog`).
- A coverage tag that comes in the error of `getRevertReason` is returned by `Tx` as it is,
  neither collected nor trimmed (`deployer_tx.go:224`). `Call` collects it of the `Tx` within,
  as `FetchedTagCounted` says; of a `Tx` alone it is lost.
- A `require` with one argument ends the process (`sol_coverage.go:409`).
- `deploy --bytecode` and `tx --bytecode`, which are not to interact with the endpoint,
  dial it and ask for the chain ID first (`deploy.go:41-52`; `Backend`, `ChainID`).
- `call --bytecode` calls the contract and then takes what it returned for bytes
  (`call.go:102`; `PrintedAs`).

## 5. Proofs

All theorems hold for any values of the constants, from the assumptions named in the modules
(`NodeAssumption`, `PipelineAssumption`, `CacheAssumption`, `KeyStoreAssumption`,
`CompileAssumption`, `CommandAssumption`, `SizeAssumption`, `CollectorAssumption`,
`SessionAssumption`) and, for the collector and its sessions, the hypotheses below.

**`TxPipelineProofs`**, for any number of calls, accounts, payloads, prices and foreign
transactions:

- `TypeCorrect`, `ConfirmedMined`, `HashTracked`, `OneWinner`, `NoGapLeft`, `AddressOwned`,
  `OneClientEver`: the invariants of the same subject; `NonceMovesOn`, the action property.
- They follow from `Invariance`, `Spec => []IInv`. The properties speak of a call that has
  returned, and whether a confirmation is of the chain depends on the chain: `IInv` adds
  that the nonces of mined transactions are below the account's count and unique
  (`ChainInv`), and for each call where its transaction, hash and nonce stand at each point
  (`CallInv`): nothing is signed before the send, what is on the wire is the call's own
  transaction, a nonce once read is not above the count, and a call past its
  confirmation has a hash that succeeded. `OneWinner` then needs no argument about races:
  two successful transactions of one nonce are one.
- One lemma for each kind of step (a call's, the node's) and each part of `IInv`; the
  node's moves keep what calls know because receipts and counts only grow.

Its second part is the refinement: `PipelineKeepsPromise`, `Spec => KeepsPromise`. Initial states map to
initial states; a step of a call signs, reports or stutters (`ClientKeepsPromise`), and a step
of the node settles or stutters (`NodeKeepsPromise`). `IInv` is not enough: `PInv` adds that
what is in the pool was signed by a call (`PoolInv`), that whoever looks for a revert reason
has seen the receipt of a revert (`ReasonInv`), and that a call under way has no error yet
(`NoErrorYet`), or `"unsent"` and `"reverted"` might be reported untruly.

**`CallPipelineProofs`**: with any number of Calls among the others, `CallTypeCorrect`,
`CountsMatchChain`, `CountsComplete`, `OwnWriteRead`, `TagCounted`, `OneDialerEver`,
`ConfirmedAmongCalls`, and `CallsKeepPromise`, the refinement again. From `CallInvariance`:
`CInv` is `PInv` and, for each call, what it may have counted at each point (`CountInv`:
nothing before its transaction is executed, so that "once" holds), where its Tx stands
while the Call is before, in or after it (`OuterInv`: after it, the transaction has
succeeded, which is why the dropped error of the second wait does no harm), and who dials
(`DialerInv`). A step is within a Tx or Deploy, and then the lemmas of `TxPipelineProofs`
apply, or beside it (`StepsAside`).

Its second part is liveness. `EveryCallComesBack` and `CallComesBack` are `EveryCallReturns` and
`CallReturns` for any number of calls, from `FairCallSpec` and `[]WaitsForDialerOnly`: the
provers know nothing of `ENABLED`, so that what is enabled is a hypothesis, and the run checks
it. What is proved is the argument. A call has a rank, its distance from the return (`Rank`,
and `OuterRank` for a Call around its Tx), which each of its own steps lowers (`ClientMoves`,
`OuterStepFalls`) and no other step touches but a panic, which ends all (`MovesAlone`): with
weak fairness it comes below each rank (`Descent`, `OuterDescent`), one after the other. The
exception is `Backend`, where it may wait for another goroutine. Someone dials while the client
is being dialed (`ProgressInv`); whoever that is does not wait itself (`DialerReturns`); and
the client, once there or given up, stays so (`OnceMovesOn`): so the wait ends (`PastBackend`)
although the step there is disabled and enabled again. A Tx within a Call ends or is stuck in
the search for a reason (`EveryTxEnds`), and the Call goes on from there (`PastTx`).

**`BuildCacheProofs`**, for any number of builds, names, texts and whatever `Lower` does:
`CacheKeepsPromise`, `Spec => CompilesAtOneMoment`, that `BuildCache` implements `BuildOutcome`;
read off that promise, `RequestAnswered`, `Spec => []Outcome!AnswersTheRequest`; `HitsFresh`,
`NoStaleHit` where edits keep off the gap between compilation and store; `TypeCorrect`. The
strengthening is that an entry is a contract that its text declares, in the mode of its file's
name, and of the text of its file's name where edits keep off (`DiskInv`), and what each build
has in hand when it writes (`BuildInv`). The steps of a build that return are answers
(`Answered`: by a hit, by what was compiled, or by nothing); those that hash and compile are
looks; a step of the store stutters or answers what was compiled, a kill answers nothing, and a
clear stutters (`BuildKeepsPromise`).

**`KeyStoreProofs`**, for any number of goroutines, directories and files: `TypeCorrect`;
`OneInside` (whoever is between `Look` and `Leave` holds the account's mutex, and nobody else
holds one); `DecryptsOnce`, which follows from it: two that decrypt hold the mutexes of two
accounts, so that neither stores the key that the other has looked for in vain;
`OnlyThePassword`, by `OwnSignature` (a signature is by the key that was given, and a personal
one by the account's) and by `KeyInv`: every key in the cache was set by someone or is that of a file
that the password opens (`CacheOpens`), and a file being decrypted claims the account asked
for (`PathsClaim`, `FileClaims`); `AllRegistered`, by `RegInv`: each readable wallet of a
registered directory has its path set, or some goroutine has it still ahead (`Ahead`): in the
directory it walks, in one it has yet to walk, or in the list that it has not read yet.
`EveryKeyCallReturns` is `KeyCallReturns`, from `FairSpec` and `[]WaitsForHolderOnly`, checked by
the run: who is inside comes out (`ComesOut`); a mutex passes from one goroutine to another
only when it was given back (`HeldOrGivenBack`), and by `OneInside` whoever holds it is inside,
so that it is given back (`GivenBack`) however many wait for it; and who waits finds it free
again and again, for which strong fairness is needed.

**`CompileOutputProofs`**, for any sources, names and orders of the maps: `NumbersNameFiles`,
`NameIsAnswered`, `AllFilesListed`, `StandardJSONIsComplete`, `TypeCorrect`. By `ListInv`: the list made so
far is, in covered builds, the sources up to the index, and in plain ones their paths without
repetition; with `Named` (a name stands only at an index that it claims) a path that
is not blank is that of its own source, so that nothing is met twice.

**`CoverageCollectorProofs`**, for any texts, contracts and number of reports: `TypeCorrect`,
`NeverCrashes`, `CountsExact`, `LinesExact`, `CountsOnlyGrow`, `RowsOnce`. They are about contracts that are
`Compiled` (one of a name, each source once, file numbers in range: what `IndexNamesFile` and
`EveryFileListed` say of the compiler's) and `Placed` (each statement within the text of its
source, as solc's positions are); TLC finds both in the instance of `collector`
(`InstanceAssumption`). The arithmetic of lines is proved from the lengths alone:

- `LineStarts`: the recursive function of line starts has a value for each line, by least
  counterexample; `NewlineAt`: a line ends after as many characters as there are up to its
  newline, so that what the code adds up is what a reader counts.
- `OnSomeLine`: every position of a text is on a line. `StatementsApart`: line and column tell
  positions apart, although a boundary holds the first column of the next line.
- `LineIsTrue`: the first line that holds a position is the one after as many newlines as are
  before it, unless the position is just after one. `LinesExact` follows.
- `RInv` adds what is known of the sources read, and that what was heard is a statement.
- `RowsOnce`, the invariant `OneRowPerStatement`, for every arrangement of the statements. Both
  recursions are shown to have values (`StepByStep`), then what `Sorted` gives (`First`: each
  statement once, in order of start) and, block by block, what `Merged` has made so far
  (`Rowed`: a row for each extent that came, the last of them the last block's, each with
  the executions of its statements). That a block of another extent than the last row's has
  no row (`RowIsNew`) needs `StartsApart`: two statements of a source that start together
  are one. Of two that start together and end apart, counted under two names, the sort could
  leave one between the two counts of the other, and the loop looks no further than the last
  row. Statements of Solidity start apart, those within another included; TLC finds
  `StartsApart` in the instance.

**`CoverageSessionProofs`**, for any number of calls, contracts, runs and statements:

- `ShapeOfSession`: where a call stands and what it then has (`Flow`): a receipt that is one of
  its contract's runs, told in full or without its reason, and sources if it saw them.
- `SessionImplements`, `SessionSpec => Spec`: the callers keep to what the collector's
  specification allows; they never report what it does not know or cannot place. With it
  `SessionKeepsCollector` and `SessionKeepsReport` carry the theorems about the collector and
  its report over to sessions.
- `TraceOfSession`: an execution, once there, stays, and what a call has of a receipt or a reason
  was told of one of its contract's executions, that of `whose` call it was.
- `ExecutionsCounted`, the invariant `CountsAreExecutions`, if marks are `Faithful`: a run has
  as many events or tags for a statement as it comes to it. That is a property of marking,
  which TLC checks of the marks that the code makes (in `MarkedOnce`). The count alone is not
  inductive: it is compared with calls still in the middle of their logs. `Tally` bounds
  what was heard by sets of pairs of a call and a log: those that any call has come past
  (`Possible`), and those of calls that had the sources and met no error (`Sure`). A step that
  tells the collector nothing may add to the first and take from the second (`Quiet`); one
  that does adds one pair to the first, at most that to the second, and one to the count
  (`Loud`). When the calls have ended, both are what the receipts hold, and by `PairsAsMany`
  there are as many of those as there are readings (`CountsFromTally`). From readings to
  executions (`ReadingsOfRuns`) there is a map by `whose`: it is one to one if no two calls
  read one execution, and onto if each is read.
- `LogsAsAsked`, the invariant `LogsInOrder`, with no hypotheses: at each log of a receipt the
  events so far are the wanted ones before it (`Gathered`), each at the place that the number of
  wanted ones up to it gives (`Below`).

**`CommandsProofs`**, for any accounts, ledger, keystore and arguments: `TypeCorrect`;
`NamedAccountSends`, by `Rightful`: an account that can sign is one of the options' choosing,
which all four ways to make one keep, wrapped nil errors included; and `DataAsMeant`, the
invariant `ArgumentsAsMeant`, for any word size and widths: what was sent is what `Read` finds
in each text, scalar by scalar (`ScalarSays`: a number in range comes back from its two's
complement, `NumberIsRead`; fixed bytes and addresses of their type's length are not changed,
`FitKeeps`, `FitLeftKeeps`) and through arrays (`MappedSays`).

Only model-checked: what is enabled (`WaitsForDialerOnly`, `WaitsForHolderOnly`), since `ENABLED`
is beyond the provers, and is a hypothesis of the three theorems about liveness; `MarkedOnce`,
which rests on recursive operators over trees, as `CoverageAST` declares them, where a proof
would be an induction over data; and everything in section 4.

## 6. Not modelled, and limits

- The HTML page (`coverage_html.go`): its boundaries are computed by the library of the Go
  cover tool (`cover.Boundaries`), and the rest is layout. What is counted and merged
  for it is in `CoverageReport`.
- `options.go` and the setters of `deployer.go`: parsing of durations, prices and log levels,
  and the search for `solc`. The options that matter are constants of the models or, in
  `Commands`, variables; a constructor that fails is `New`'s `Fatal`.
- `solc`, the ledger, the node and the file system are external: any answer that the code
  tells apart, in any order.
- Imports are not part of a text in `BuildCache`, as they are not part of the key in the
  code: an entry goes stale when an import changes. The model would only restate it.
- The node keeps its chain: no reorganisation. `awaitTx` takes the first receipt for final
  and has no confirmations to wait for.
- A carriage return is dropped by `bufio.ScanLines` and not counted; the texts of the
  collector's instance have none.
- The collector's instance has one contract to a name, for the collector knows them by
  name alone; with two, the file numbers of one index the sources of the other.
- `CoverageAST` takes only ASTs that the code gets through: no `require` with one argument.
  The JSON of the nodes that it inserts is theirs by kind.
- What `UnsetKey` does to a decryption under way and `RemovePath` to the paths of its wallets
  is in `KeyStore`; no property is about it, since nothing says what should happen.
- Formatting, logs, JSON, colours, and the text of errors are left out.

## 7. Plan

Done: the modules above, in the order `EthNode`, `TxPipeline`, `BuildCache`, `KeyStore`,
`CompileOutput`, `CoverageCollector`, `Commands`, `TxOutcome`, `CallPipeline`, `CoverageAST`,
`CoverageReport`, `CoverageSession`, `MapArgs`, `MarkedSession`, `BuildOutcome`, and the proofs of
section 5.

What is left is small or a matter of tools:

1. A walk of `CoverageAST` as a recursive function on a bounded set of trees, in which
   `MarkedOnce`, and with it `Faithful`, could be stated for the prover.
2. Two contracts of one name in one session, if the collector gets a key of its own for them.
3. With a prover that knows `ENABLED`, `WaitsForDialerOnly` and `WaitsForHolderOnly` as theorems;
   the theorems about liveness then need no hypothesis.
