# bce2: a TLA+ model of the block chain exporter

bce2 reads the blocks of a Bitcoin chain in order of height, gives every
transaction and every address a serial number (its place in the order of first
appearance), and prints the blocks as rows of tables. The numbers live in two
key-value stores that outlast the process, so that a later run can go on where
an earlier one stopped. This directory holds TLA+ modules for the parts of the
program where that can go wrong, configurations that check them with TLC, and
theorems checked with TLAPS. Source lines are given as paths in the repository
(`src/main.cpp`, `include/bce.h`); `PROJECT.json` maps every definition to the
lines it stands for.

## Inventory

| Component | State | Operations | Status |
|---|---|---|---|
| Resolving (`src/bk/bk.cpp`, `tx.cpp`, `vin.cpp`, `vout.cpp`) | a block with its transactions, inputs and outputs; an id for each, `addr_is_new` for each output; loop positions | `BK_T/TX_T/VIN_T/VOUT_T::resolve`, `BK_T/TX_T/VOUT_T::rollback` | modelled (`Resolve`), on the block that building and parsing deliver |
| Key-value stores (`src/kv/tk.cpp`, `include/kv/base.h`) | a map from keys to serial numbers, on file or in memory | `count, add, get, get_or_add, del, clear, open, close` | modelled (`KvStore`, `Session`) |
| Sessions (`src/main.cpp`, `src/kv/kv.cpp`) | options, counters, the files of both stores, the stamp `bce2.chk` | `set_cache`, the main loop, `DBSTAMP_T::check/update/close`, `stop_cache` | modelled (`Session`), with an engine and without |
| Output (`src/out/out.cpp`, `show.cpp`) | the counter of printed addresses | `out_bk` ... `out_addr`, `prn_bk` | the rows of `out_bk` with the ids in them (`Session`); copied columns, the format and `prn_bk` are not modelled |
| Loader (`src/load/bkidx.cpp`, `datfarm.cpp`) | table of offsets, 16 open files, a line of stdin | `init_bkloader`, `load_bk`, `stdin_bk`, `DATFARM_T::open/read` | modelled (`Loader`); in `Session` a load delivers a block or fails |
| Wire format (`src/uniptr.cpp`, the constructors in `src/bk`) | a pointer into the block | `take_*`, constructors | modelled (`Parse`, against `WireFormat`) |
| Parsing (`TX_T::parse`, `VOUT_T::parse`) | hashes and addresses; a hashing thread per transaction with `-m` | `parse`, `mk_hash`, `join` | modelled (`Parse`) |
| Addresses (`src/bk/addr.cpp`) | the kind and the keys of an output script | `addr_decode`, the constructors `ADDR_*_T`, `as_key`, `repr`, `as_json` | modelled (`Address`, `Printing`) |
| Encodings (`src/crypt/base58.cpp`, `bech32.cpp`, `uintxxx.cpp`) | none | `EncodeBase58`, `Bech32Encode`, `ripe2addr`, `wpkh2addr`, `wsh2addr` | modelled (`Encode`); hash functions are library code |
| Options (`src/cfg/opts.cpp`, `include/cfg/config_file.h`) | `OPTS`; the map of names and values; `direct` | `load_opts`, `load_cfg` with `ReadFile`, `cli` | modelled (`Opts`) |
| `btcbklocs` (`tools/btcbklocs.cpp`) | the key that is looked up, the number of the line, the output | `get_varint`, `decode_rec`, `main` | modelled (`BkLocs`, with the loader `LocsLoader`) |
| `btclocview`, logging, `misc.cpp` | none, or counters for messages | printing | not modelled: text only |
| KC and BDB engines (`src/kv/kc.cpp`, `bdb.cpp`) | - | - | not modelled: their classes no longer fit the interface, so they cannot be built |

### How the parts interact

`main` calls everything, in one thread (the hashing thread of `-m` is joined
before `TX_T::parse` returns). `set_cache` opens and checks the stores and
leaves them, with the stamp, in globals (`TxDB`, `AddrDB`, `StampDB`); the
`resolve` methods use these globals and the counters in `COUNT`. The loop is
load, build, parse, resolve, update the stamp, print. Any failure leaves the
loop, and `stop_cache` closes the stores and then the stamp. Runs communicate
only through three files: two stores and the stamp, which names the next height
and the two counts. Before all of that stands another program: `btcbklocs` looks
up the blocks of a list of hashes in the index of bitcoind and writes the
locs-file, which `init_bkloader` reads.

### What is hard

* **Failure midway.** A transaction may fail at any input or output, a block at
  any transaction, and undoing itself may fail. Ids are counts of records, and
  undoing goes from the front, so that between two deletions the count is the
  number of a record that still exists.
* **Two views of one fact.** `COUNT.tx` and `COUNT.addr` are kept beside the
  stores; an address is new if its id is not below the counter.
* **Crashes.** Three files are written without a common commit: the stamp is
  emptied when it is opened and buffered until it is closed, the stores are
  synchronized when they are closed.
* **Order of checks.** `set_cache` clears before it checks the stamp and
  normalises `-f` after that; several options meet code that runs before the
  code they are meant for.
* **Offsets.** The constructors move one pointer through the bytes of a block; a
  wrong width anywhere shifts all that follows. What is hashed of a segwit
  transaction is cut out by three offsets that this walk leaves.
* **A thread.** With `-m` the hash is computed beside the parsing of outputs.
* **One record, two sources.** The config file and the command line set the same
  `OPTS`, and what conflicts is decided argument by argument.
* **A file that was begun.** `btcbklocs` opens its output before it knows whether
  there is anything to write, stops at the first line it does not accept, and does not
  look at whether its writes succeed.
* **Limits.** 2^32-1 is at once a number that is never given, the answer to a
  failed call, and the mark of an omitted option.

The list with lines is `hazards` in `PROJECT.json`.

### What makes each component correct

* Resolving: a block is committed whole or not at all; numbers are those of
  first appearance, without gaps and never given twice; nothing of an earlier
  block is ever touched; an input names an older transaction; every block ends.
* Stores: a call adds, finds or deletes one record, or changes nothing.
* Sessions: a run works only on stores that hold exactly the blocks before its
  first height; an orderly stop can be resumed; a run ends.
* Output: over all runs on the same stores the rows are one output: a row for each
  transaction and address, in order, and no row that names one whose row is not
  there yet.
* Loader: a read lies within the table and within the file; the window never
  closes a file that is being read; the order of loads does not matter.
* Wire and parsing: a walk ends at the end of the block; the hash is that of
  the bytes without witnesses and is complete before it is used.
* Addresses: an output is stored iff its script names an owner; two outputs have
  one key iff they have one owner, whatever the forms of their scripts.
* Encodings: who reads a printed address, and checks its sum, finds the hash.
* Options: what is said last counts, and the command line is said last; blocks
  come from one source, and a conflict is reported only if two are named.
* `btcbklocs`: the entry at height n is the block at height n of the chain that
  the hashes name, however far the tool came; and so is the block that bce2 loads.

## Modules

| Module | What it is |
|---|---|
| `KvStore` | The calls of a store as functions: a store is a total function from keys to uint32, `NotFound` = 2^32-1 for an absent key. `Count` cuts the engine's int64; `GetOrAddValue` asks for the count first, as the code does, so that a full store answers for no key. |
| `Resolve` | One action per store call of `resolve` and `rollback`, because a store call is what can fail and what a crash can fall between; loop ends and returns are actions too. |
| `Numbering` | The reference: which number each key ought to get. Keys are seen at places of a block (transaction, output), and a new one gets the number of keys there are before the place where it is first seen. There is no recursion in it, so that it can be proved about. |
| `Ledger` | The abstract specification: blocks are committed whole and in order; a failure stops, or, if undoing fails too, tears. |
| `ResolveLedger` | The refinement mapping from `Resolve` to `Ledger`: while a block is in hand, the ledger is the stores as they were. |
| `Session` | Runs of the program over the same files: `set_cache` step by step, the loop around `Resolve`, `stop_cache`, exceptions and crashes. |
| `Loader` | The two loaders and the loop of `main` around them: the table of offsets, the window of open files, the lines of stdin. |
| `Address` | `addr_decode` and `as_key` as functions: from a script to an address and its key. |
| `BkLocs` | The tool `btcbklocs`, line by line; a record of the index is bytes. |
| `LocsLoader` | `btcbklocs` and `Loader` one after the other. |
| `Opts` | `load_opts`: lines of the config file, arguments of the command line, and a look at what they name. |
| `Encode` | base58 and bech32 as functions, a text being the places of its symbols in the alphabet. |
| `Printing` | Which texts are printed for the addresses `Parse` has found, and the reference: how a text is read. |
| `Parse` | From the bytes of a block to objects: the walk of the constructors, then hashes and addresses, with the thread of `-m`. |
| `WireFormat` | The reference: how a block is serialized, and which scripts name whom. |
| `Layout`, `ScriptForms` | The same two references as relations, without a recursion: which bytes a block may have, part by part, and which scripts name whom, form by form. The theorems are about these; TLC checks that what `WireFormat` puts together fits them. |
| `ResolveInv`, `SessionInv` | The inductive invariants of `Resolve` and of `Session`, in named parts. |
| `ResolveProofs` | Lemmas on store calls; type correctness and the safety theorems of `Resolve`. |
| `LedgerProofs` | The numbers that a block gives are those of `Numbering`, and `Resolve` implements `Ledger`. |
| `SessionProofs`, `OutputProofs` | The invariant of the sessions and what follows for the stores; what all sessions have printed. |
| `LoaderProofs`, `ParseProofs`, `OptsProofs` | The invariants of these modules (`LoaderProofs` has those of `BkLocs` and `LocsLoader` too), and their theorems. |
| `AddressProofs` | What `Decode` and `AsKey` give for each form of a script, and `AddrsRight`; the arithmetic of base58 and bech32, and `PrintedRight`. |
| `MCResolve`, `MCSession`, `MCLoader`, `MCParse`, `MCOpts` | Instances for TLC. |

The modules meet at what they hand on. `Session` composes itself with the loop
around `Resolve`, and `LocsLoader` the tool with the loader; what `Opts` promises of
`-f` and `-n` (`OptsTypeOK`) is what `Loader` and `Session` begin with; `Loader` has given `main` the block that `Parse` begins with;
`Resolve` takes for granted what `Parse` is checked for: hashes that are right
and complete, and keys that tell owners apart.

### Resolve and the code

`pc` is the place in the nest of calls: `idle` (between two blocks, in `main`),
`tx`, `vin`, `vout` (in the loops of `BK_T::resolve` and `TX_T::resolve`),
`txback` (in the `TX_T::rollback` that a failed `TX_T::resolve` calls),
`bkback` (in the ones that `BK_T::rollback` calls, for every transaction from
the first on), `resolved` and `failed` (what `BK_T::resolve` answered) and
`aborted` (`get()` threw and nobody caught it). `ti` and `vi` are the loop
variables. `txid`, `addr_id` and `addr_is_new` are the members of the same
names, by transaction and by <<transaction, output>>. `txdb0` and `addrdb0` are
history: the stores when the block was begun.

A transaction is its hash, the hashes its inputs spend and the addresses of its
outputs. `Coinbase` stands for an input that spends nothing, `NoAddr` for an
output with no address or with an incomplete one (`is_full()` is false). No
transaction spends itself, as a hash covers the inputs. The block that is
loaded at a height is any of `Chain[height + 1]`: what a real chain holds there
and blocks that do not fit. At a height of `BK_GLITCH` the constructor skips the
transactions.

`Faults` names the calls that may fail for a reason of the engine's own. A call
that fails changes nothing (so does `clear()` in `Session`), and `get()` throws. `Starts`
is what `set_cache()` may leave `main` with.

In `Ledger` a block may fail only if it brings something (`Fallible`). At a glitch height
it brings nothing, so that a block whose transactions are not skipped there, and which
then fails as a duplicate, is no step of the ledger.

### Session and the code

`stage` is the place in `main`. The files are variables of their own, written
when they are closed or when the process is gone; `stamp` is `Absent`, an empty
file or three numbers. `buffered` is what `DBSTAMP_T::file` has not written yet:
`seekp(0)` writes out the stamp of the block before, and the new one waits.

Assumptions about what is not in the repository: a store that is closed in order
holds what it held; one that is not (a crash, or a `Close` that fails) has lost
its last records or none (`Truncated`); one that is cleared is empty, or is as it was if
the engine fails (`Cleared`). `clear()` drops what the engine says (`include/kv/tk.h:24`)
and `set_cache` only counts again, so that `ClearTx` and `ClearAddr` go on in both cases.
`SessionFaults` names what may fail besides the calls of `Faults`: opening, clearing and
closing a store, loading a block, writing the stamp. `MaxSessions` and `MaxCrashes` bound the
number of runs and of crashes.

`OutRows` is what `out_bk` prints: a row is its letter and the ids it names.
`OutRows`, `OutTx`, `OutVins` and `OutVouts` are the loops of `out_bk` and `out_tx`, as
recursive functions that hand on the counter of `out_addr` with the rows. A `b` row
names only the height and is left out. Without an
engine (`PlainBlock`) a block is loaded, parsed and printed by what it says itself;
`stop_cache` has nothing to close then.

Three history variables: `printed`, the rows of all runs on the stores on file (or
`Absent` once a block was resolved without `-o`); `trusted`, which is true from a
beginning on empty stores on, as long as every later run that goes on with them found
a true stamp to check (`BegunEmpty`: a run that begins at block 0, `FromScratch`, on stores
that are empty indeed, `NewStores`; the code looks only at the former, and stores that a
failed `clear()` left full are not trusted); and `truestamp`: the stamp, if there is one, was written by a run
on trusted stores. `truestamp` came with the proof. Without it `TrustedCanonical` held in
three runs with one crash and could not be proved, and for a reason: `-f 0` clears the
stores but not the stamp (`src/kv/kv.cpp:76`), so that after a crash in the first block a
later run finds a stamp of stores that are gone; with four runs and two crashes the two
counts can agree with it by chance. `-i` with `-f` omitted, which is let in on any stores,
was also taken for a beginning on empty ones (now it is no `FromScratch`). What is left open by the
code is said under Findings.

### Loader and the code

`step` is the place in `main`, `load_bk` or `stdin_bk`; `streams` are the
members of `DATFARM_T::file` that are open, `opened` is the static queue of
`datfarm.cpp`. `entry` and `size` are the local variables of `load_bk`, kept
between its three calls of `DATFARM_T::read`, each of which is a step and may
open a file, close another one, or fail. A file is a sequence of 4-byte words;
offsets and sizes count words, so that `offset - 8` of the code is
`Before(2)`, which wraps as a uint32 does (`OffWrap`). A line of stdin is the
number of its hex digits and whether it ends in a newline. A file that exists
can be opened and read to its end; one that does not cannot.

Undefined behaviour is a choice: past the end of the table lies any entry of
`Garbage`, or no memory; the member of `file` at index `qty`, which `open()`
lets through, ends the model in `undefined`. `loaded` is history: what `main`
was given.

### BkLocs, LocsLoader and the code

`tool` is the place in the `main` of the tool: `off`, `read` (the loop), `ok` and
`failed` (the exit codes). `hashes` is the file of hashes, a line being the hash it
holds, its length and whether it ends: `getline(...).eof()` drops a last line without
a newline. `key` is the buffer that `sscanf` writes into, and keeps what it held when
a line of 64 symbols is no hex number (`Unreadable`); before the first line it holds
nothing that is in the index. `TakeByte` is one turn of `get_varint`; `Numbers` folds it
over a record and the zero byte behind it. `table` is what was written to the stream,
`locs` the file, which holds any number of the entries written first, and `cut` says that a
part of the next one follows them (`Flushed`). After an `exit()` in the loop or a kill
that is so because the stream is a local variable of `main`, which is not destroyed by
`exit()`; after the loop because nobody looks at what `write()` and `close()` return
(`tools/btcbklocs.cpp:231`): on a full disk the tool says that the records are ok, and the
file is shorter. Of a stream it is assumed that after a write that failed nothing more is
written, so that the file is a beginning of what was to be written. That the index and the hash file can be opened is a
choice of `ToolStarts`, and so is the tool's own command line.

`Places` is the reference: what a record that is whole says. It is made in
`MCLoader` together with the bytes of the record, by an encoder that goes the other
way; the model of the tool never looks at it.

In `LocsLoader` either the tool is never started, and the loader takes any of
`LocsFiles`, or bce2 begins after the tool has ended and takes what it left
(`TakeMade`), `failed` or not. A file that ends with a part of an entry is refused for its
size; nothing else in a locs-file tells that entries are missing.

### Opts and the code

`config` is the config file, a line being a name and a value without blanks; comments
and lines without `=` are lines with a name that is not asked for. `ReadLine` is a turn
of `ReadFile`, which puts a line into `data`; `LoadCfg` is the rest of it and of `load_cfg`:
the ten names are bound to ten variables, three of them of types that throw at text
(`CfgThrows`), six through local variables. `args` is what `getopt` returns one by one;
each letter is an action, `Set` its common form: a check, then an assignment or an
error. `OptDirect` and `OptStdin` are the two that look at each other.

A text is one of a small set of strings; `Number` says which texts begin with a number.
`atoi` reads no number as 0, and of a number that an int cannot hold it keeps the low
bits, as glibc does (`Low`). `-v` without an attached argument calls `atoi(NULL)`, and the
model ends there (`OptVerboseUndefined`). `Worlds` is what the file system answers, and
whether stdin can be positioned: `ftell()` succeeds on any regular file, so that a file
redirected to stdin is refused as "empty" whatever it holds (`src/cfg/opts.cpp:175`). That
`$HOME` is set is assumed.

### Encode, Printing and the code

`TakeByte58` is one turn of the loop of `EncodeBase58` over all digits, where the code stops
early at digits that are still zero; `Digits58` drops these zeros afterwards, as the
code does with what is left of them. `ConvertBits` keeps the accumulator of 12 bits.
`PolyMod` works on sets of bits, in which exclusive or is parity. `Crc`, the first bytes
of a double SHA256, is a constant. `Repr` gives a list of texts: commas and quotes of
`repr()` and `as_json()` are left out.

### Parse and the code

`block.bytes` is `BK_T::data`, byte by byte, and `ptr` is the `UNIPTR_T` that all
constructors move, as an offset. `step` is the constructor `main` is in (`head`,
`tx`, `vin`, `vout`, `wit`), `built` when `BK_T` is constructed, then `parse` and
`addr` in `parse()`, `parsed` or `aborted`. The last element of `txs` is the
transaction under construction. Each transaction, input, output and witness is
a step, and so is each item of a witness that is skipped. A `string_view` is
`[at, len]`; a hash of an input is the place of its pointer. `Throws` collects
the exceptions of the constructors, which nobody catches.

`hashing` is the set of transactions that a thread runs `mk_hash()` for;
`EndParseTx` is `join`. `Hash256` and `Hash160` are constants, so that a hash that
is not computed (`NoHash`) differs from any other. `ThreadFails` is a system that
refuses a thread. Behind a block lies memory that is not in it: zeros here.

A script is decoded as the code does it, by bytes of the memory from its begin
on: a witness program is taken by its second byte without a look at the length
of the script. `sort_multisig()` sorts a copy, and therefore does nothing.

## Runs

| Run | States | Question |
|---|---|---|
| `resolve_faults` | 55,076 | Fitting and failing blocks at four heights (one a glitch), every call free to fail. Invariants of counters, numbers and rollback, the inductive invariants, and the refinement of `Ledger`. |
| `resolve_limit` | 34,054 | All blocks of at most two small transactions on stores with three numbers, from empty stores and from stores of an earlier run. Numbers run out at every place of a block. No engine failure: rollbacks must succeed, numbers have no gaps, every block ends. |
| `session_orderly` | 8,578 | Three runs with any `-f`, `-n`, `-i`, `-o` and engine or none, no damage, but ids that may be refused, stores that may not open and blocks that may not load: resuming works where it should, the rows of all runs are one output, runs end. |
| `session_damage` | 1,305,830 | Three runs, one crash anywhere, failing calls, stores that are not cleared, exceptions and files: what the stamp of stores that were begun empty lets through is exactly what the blocks before add up to. What is let in for want of a stamp, or was not cleared, has gaps or more than it should; addresses are mistaken there (`VoutMismatch`, which deletes a record of an earlier block), the transactions are not (`DamageSparesTxs`). Only such stores lead to the second half of `VoutTakenForNew`. |
| `loader` | 175,051 | The tool over lists of up to four hashes: records with numbers of one to three bytes, with and without data and undo, cut off, too big, of another height, absent; lines that are too short, unreadable or do not end; stopped anywhere or with writes lost. Then bce2 on what the tool left, with any `-f`. And without the tool: all tables of four good entries and tables with a bad one (too big, empty, cut off, no header, no file), over four files with a window of two; lines of stdin around every limit. |
| `parse` | 48,010 | Blocks of two transactions with numbers, scripts and witnesses around every width, in the least width and in wider ones; every two of sixteen output scripts that name owners, in all forms, and fourteen scripts that name none; a glitch height; blocks that throw at each number; every command line; every scheduling of the thread. |
| `opts` | 142,834 | Config files of one line with every name and kind of value, of two lines with one name, and whole ones; command lines of one argument of any kind, of two of those that meet, of three that name sources. What is said last counts; one source. |
| `opts_override` | violation | `-d` after `stdin=true` is refused (below). |
| `loader_all` | violation | `-n 0` leaves the table (below). |
| `session_info` | violation | `-i -f 0` empties the stores (below). |
| `session_omitted` | violation | an omitted `-f` is refused on empty stores (below). |
| `session_one_empty` | violation | one store is empty and the other is not (below). |

### The properties

* `CountsAgree`, `IdsUnique`, `NoGaps`: the counters are the numbers of records
  at every step, even between the deletions of a rollback; a number is never
  given twice; except while a block is being undone the next number is free.
* `RollbackRestores`, `RollbackSucceeds`, `KeepsCommitted`, `NoOrphanAddr`: what
  a failed block leaves. They are separate because undoing can fail: then
  `KeepsCommitted` and `NoOrphanAddr` are what is left.
* `SpendsEarlier`: what `VIN_T::resolve` found is an older transaction.
* `NumbersAsSeen`: at every step of a block, what it has added so far carries the numbers of
  the reference. The refinement rests on it.
* `ImplementsLedger`: all of it seen from outside. `resolve_faults` checks it, with every call
  free to fail; that it holds where numbers run out is proved (`LedgerImplemented`).
* `TrustedCanonical`, `StopIsResumable`: what a run begins with, and what it leaves, on stores
  that were empty when they were begun.
* `SInv`: the inductive invariant of the sessions (Proofs, below).
* `DamageSparesTxs`: what is left on stores that no orderly run leaves: transactions
  are counted rightly, none of an earlier block is lost (`TxsSafe`).
* `OutputRefers`, `OutInv`: the rows of all runs, one after another, at the end of each
  block, and its inductive invariant, of which `IdsNext` is a part: the ids that a block
  keeps are the next ones in the order of its places. The ids of the `t` rows are 0, 1, ... in this order,
  those of the `a` rows too, and a row names no id whose row is not before it.
* `LocsRight`, `LoadedAsAsked`: entry by entry, and then block by block, what was asked
  for by hash, however short the file has become.
* `WindowOK`, `LoadedRight`, `NeverStopsShort`: the window of open files is
  exact and is not to be noticed, by what is loaded or by what fails.
* `LineTakenIffWhole`: the limits of a line of stdin.
* `WalkRight`, `HashesRight`: what the walk finds, and what is hashed, is what was
  serialized, by a reference that goes the other way.
* `HashesReady`: a hash is complete when it can be read, thread or not.
* `AddrsRight`: which outputs are stored, and under one key or two. Keys of a multisig
  in another order are another owner: `sort_multisig()` sorts a copy.
* `PrintedRight`: the printed text, read backwards, is the hash of the owner.
* `LastSaidCounts`, `OneSource`: what `main` gets, against a reference that looks at the
  whole config file and command line at once.
* `BlockEnds`, `SessionEnds`, `LoopEnds`, `ParseEnds`: liveness.

### Bounds, and why they are enough

* `MaxU32` is 9 where numbers must not run out and 3 where they must: the code
  compares ids with the counter and with 2^32-1 and does nothing else with them.
  The theorems hold for every value.
* A transaction has at most two inputs and three outputs, a block at most three
  transactions: enough for an address that is new, repeated within the
  transaction, in another one of the block, or known from an earlier block; for
  a failure at the first, a middle and the last place; for a rollback with
  transactions before and after the one that fails. Theorems hold for all blocks.
* Three runs: one that fills the stores, one that damages them, one that is let
  in or refused. One crash, besides exceptions and failing files. That this is not
  enough for everything `truestamp` has shown: the configuration was run once with four
  runs and two crashes, and the theorems hold for any number of both.
* A window of two files and tables over four: every file is closed and opened
  again in some order. `MaxBkSize` is 3, so that blocks and lines below, at and
  above it are a few words long. -n is at most 7, more than any table has. The
  theorems hold for every window, size and table.
* Numbers of 0, 1, 2, 3, 252, 253 and 300 and both wide forms of small ones:
  every width `take_varuint` knows, just below and at the change. Numbers of more
  than 65535 stand for more bytes than TLC can be given; the theorem about types
  holds for them too. One to three transactions, one or two inputs and outputs: a
  loop that is not entered, left at once, and repeated.
* An int of 16 values in `Opts`: all comparisons are with 0 and with limits inside of
  it, and texts give numbers below, at and above each of these and above the width.
  More than three arguments or two lines add nothing that two cannot meet; the
  theorems hold for all.
* Records of `btcbklocs` with numbers just below and above 128 and 16512, where they get
  a byte more, in front of each of the numbers that are used.
* Blocks are well-formed ones and ones with one byte changed so that the code
  throws; what a walk through arbitrary bytes does is left to the theorems.
* `CHECK_DEADLOCK FALSE`: at the end of the chain, after a failure and after the
  last run the program has stopped.

### Fairness

`FairSpec` is weak fairness of `Next` in `Resolve`, `FairPipe` of `PipeNext` in
`LocsLoader` (the tool and the loader one after the other), `FairSession` of `Process` in `Session`: the program is one thread
there, no call of it blocks, and so it takes its next step. `FairParse` is weak
fairness of the main thread, which waits in `join` only, and of the hashing
thread, which waits for nothing. Nothing makes a user start a run, and nothing
makes a crash happen.

### Findings

* `loader_all`: `-n 0` is said to mean all blocks, and any -n may be larger than
  what is left; nothing compares the height with the table, which is read past
  its end.
* `opts_override`: `doc/Usage.md` says that the command line overwrites the config file;
  with `stdin=true` there, `-d` and `-l` are refused as a conflict with a `-c` that was
  not given, and nothing takes `stdin=true` back.
* `session_info`: `doc/bce2.1.adoc` says `-i` prints the state of the stores and
  exits; with `-f 0` it clears both first.
* `session_omitted`: on empty stores the program says that `-f` can be omitted;
  with a stamp left of an earlier run it then refuses (`4294967295` is compared
  with the stamp's height, since `-f` is normalised after the check).
* `session_one_empty`: what the message calls impossible is what a crash between
  the two `clear()`, or in the first block, leaves; from then on every run is
  refused, one with `-f 0` too.

What the model shows besides, without a doc that says otherwise:

* a stamp outlives its stores: after `-f 0` and a crash in the first block a later run
  compares its stores with the height and the counts of stores that were cleared
  (`src/kv/kv.cpp:76`). `truestamp` keeps these cases out of `TrustedCanonical`;
* `clear()` may fail unnoticed: with `-f 0` the run then begins at block 0 on old records
  (`src/kv/kv.cpp:74`), `check()` is skipped, and from the first block on the stamp speaks
  for these stores. Such stores are not `trusted` either; they are among those of
  `DamageSparesTxs`;
* before the first stamp is written nothing marks a damaged store, so that a run with
  `-f` > 0 is let in (`src/kv/kv.cpp:109`). `trusted` keeps these cases out of
  `TrustedCanonical`, and `DamageSparesTxs` is about what they lead to;
* a file whose number is the number of blocks in the table passes the check in
  `src/load/datfarm.cpp:17` and is looked for past the end of the array (action
  `Undefined`);
* the constructor of a multisig address sorts its hashes, but `sort_multisig()` gets its
  vector by value (`src/bk/addr.cpp:169`), so that the keys stay in the order of the script;
* `logby` of a multiple of 2^32 makes a step of 0 (`LogStep`), which `src/main.cpp:71`
  divides by; `-v` alone reads a null pointer; an unknown `kvtype` is no error unless
  `verbose` is set;
* a table that `btcbklocs` left half-way is a table like any other, and the last hash of
  a file without a newline at its end is not in it; nor is a table that lost its end on a
  full disk told from a whole one, by the tool or by bce2.

## Proofs

Everything is proved for all values of the constants under their assumptions: of
`Resolve`, for all sets of transactions and addresses, all chains, all sets of faults and
every greatest uint32 (`MaxU32Assumption`, `ResolveAssumption`: finite sets of keys, types
of the constants). The theorems about addresses and numbers are about runs from
`FitStarts`: stores that orderly runs leave, numbered without gaps or repeats.

* `TypeCorrect`: `TypeOK`.
* `TxsSafeCorrect`: `TxsSafe`, on any stores.
* `Inductive`: `IInv`.
* `CountsCorrect`, `IdsUniqueCorrect`, `CommittedKept`, `RollbackCorrect`,
  `RollbackSucceedsCorrect`, `NoGapsCorrect`, `NoOrphanAddrCorrect`,
  `SpendsEarlierCorrect`: the safety properties that the runs check.
* `NumbersAsSeenCorrect`, `LedgerImplemented`, `IdsNextCorrect`: `NumbersAsSeen`,
  `ImplementsLedger`, `IdsNext`.

The argument. None of the safety properties is inductive: a rollback reads the ids in the
block, so that what it does to the stores depends on what those ids mean. `IInv` says
it: the transactions with an id, and the outputs with an id and `addr_is_new`,
are a *log* of the records the block has added, one to one, and everything else
is as it was (`Log`). `LogPut` and `LogDeleted` are the two ways a log goes on.
To show that an output marked as new is new (`VoutNewEffect`), the store must
have no gaps while the block goes forward (`Numbers`); `NoMismatch` shows that
the code's own check of the new number then never fails. Going back,
`BackPhase` says which outputs are behind, so that a transaction is deleted only
after all of its outputs (`DelTxOutputs`). `TxInv` is the part about
transactions; it does not need the numbers to be without gaps.

That the ledger is implemented needs what the numbers *are*. `NumbersAsSeen` says it for
a block half-way: a store has got exactly the keys seen before the place that
resolving has come to (`TxPlace`, `AddrPlace`), each under its number of `Numbering`. One
store call is one place (`Seen` grows by its key), and a key that has got a number keeps
it as the reference's. After the last place this is the atomic commit of `Ledger`; every
other step maps to a stutter, a stop or a tear. `IdsNext` looks at the same from the
side of the block: which ids its transactions and outputs have been given.

Of the sessions, for all chains, options, faults and any number of runs and crashes
(`SessionAssumption`: one block at each height, heights and numbers fit a uint32; that a stamp
that is `Absent` is no stamp). `Truncated`, what is left of a file that was not closed in
order, is assumed of the engine:

* `SessionTypeCorrect`: `SessionTypeOK`; `SInvCorrect`: `SInv`.
* `TrustedCanonicalCorrect`, `DamageSparesTxsCorrect`: `TrustedCanonical`, `DamageSparesTxs`.
* `StopIsResumableCorrect`: `StopIsResumable`, if closing a file does not fail. It and
  `TrustedCanonical` speak of stores that were empty when they were begun: `clear()` may fail
  in all of these theorems, and of stores that it left full `DamageSparesTxs` says what is safe.
* `OutInvCorrect`, `OutputRefersCorrect`: `OutInv` and `OutputRefers`, in runs that are
  `Orderly`: no crash, no exception, no failure to clear, to delete, to write the stamp or to close.
  After any of these the stores and the output may be apart, and the code does nothing
  about it. Ids that are refused, blocks that fail and are undone, files that cannot be
  opened and blocks that cannot be loaded are all in.

The argument for the stamp. A stamp is two counts and a height; that two counts agree says
nothing about two stores in general. It does if the store is `Near` what it is compared
with: it lacks some of those records and has no others, or it has all of them and others
under later numbers (`TrustedNear`). Losing the last records keeps a store near the content
of every height (`NearTruncated`), and so does every step of resolving and undoing,
because the numbers are those of `Numbering` (`LoopNear`, from `IInv` and
`NumbersAsSeen`). A store that is near the content of a height and has its count *is* that
content (`NearSame`). The rest of `SInv` follows the stamp through the file and its
buffer (`TrueStamps`, `Buffered`), and a session through `set_cache` (`Accepted`) and
`stop_cache` (`ClosedWhole`). `Fit` is the set of heights whose content can be counted: a
chain with more keys than numbers is allowed, and stops there.

The argument for the output. `PrintedOfBase`: what was printed is one output of the stores
on file, those of the block in hand not counted. A block adds to it what `IdsNext`
says of its ids. `OutRowsUnfold`, `OutVinsUnfold` and `OutVoutsUnfold` give the loops of
`out_bk` turn by turn, and `PrintBlock` goes through them: the counter of `out_addr` may
be behind the ids but not before them, so that "new" and "above the counter" come to
the same at each output.

Of the loader, for all files, tables, sizes of the window and options
(`LoaderAssumption`: files are shorter than what an offset can count):

* `LoaderTypeCorrect`, `WindowCorrect`: `LoaderTypeOK`, `WindowOK`.
* `LoadedRightCorrect`, `NeverStopsShortCorrect`: every block given is the one
  its entry names, and no entry that names a block fails.
* `LineTakenCorrect`: `LineTakenIffWhole`, for every `MAX_BK_SIZE` and any lines.

The invariant is `WindowInv` (`WindowOK` in the form of a queue, with the types)
and `EntryInv`, which says what each of the three reads of `load_bk` has found
out, and from which file: that the file is still the one of the entry although
others may be closed between two reads is what makes the three agree.

Of `btcbklocs`, for all indexes (records of any bytes), all files of hashes and limits
(`BkLocsAssumption`):

* `ToolTypeCorrect`: `ToolTypeOK`; it holds because `decode_rec` refuses what does not fit.
* `LocsCorrect`: `LocsRight`, if `PlacesRight`: a record that decodes at all decodes to what
  it means. Decoding is a fold over bytes, whose value for every input would need an
  induction along the encoder, which the model has for TLC only (`MCLoader`); TLC checks `LocsRight` without the hypothesis, over
  records that an encoder made. What is proved is the rest: that no stale key, no
  record of another height, no early end and no lost write puts an entry at another line.

The invariant is `ToolInv`: each entry was made of the line of its number
(`EntriesInv`); the key is the hash of the last entry, whose height is not the next
one, so that an unreadable line is never accepted (`KeyInv`); the file is a beginning of
the table (`LocsInv`), which is all that can be said of it: not that it is the whole one.

Of both together (`LocsLoaderAssumption`: an offset that the tool lets through fits):

* `LoadedAsAskedCorrect`: `LoadedAsAsked`, if `PlacesRight`. The invariant `PipeInv` puts
  those of the tool and of the loader together with one conjunct of its own: the
  loader's table is what the tool has left (`TableInv`).
* `PipeLoaderCorrect`: what is proved of the loader alone holds after the tool too.

Of the options, for all config files, command lines, texts, engines and widths of an
int (`OptsAssumption`):

* `OptsTypeCorrect`: `OptsTypeOK`.
* `OneSourceCorrect`: `OneSource`. `SourceInv` says what `direct` and `fromcin` know of the
  arguments that were taken, and that after a conflict nothing is.
* `LastSaidCorrect`: `LastSaidCounts`. `SaidInv` says of the values so far that they are those
  that were said last so far, of a config file that was read to its end the whole of it. What
  the code makes of a number that does not fit is compared as the code computes it:
  modulo the width (`SameLow`).

Of parsing, for all bytes, well-formed or not, all options and any hash
functions (`ParseAssumption`: what is loaded is bytes):

* `ParseTypeCorrect`: `ParseTypeOK`.
* `HashesReadyCorrect`: `HashesReady`.

The invariant is `PInv`. `ThreadInv` says that there is one thread at most, that
of the transaction whose outputs are parsed, and that it alone may be missing a
hash; `CompleteNext` and `SameHashSrc`, that no other step touches what a hash is
computed from.

Of the walk, for all blocks that have a layout (`AllLaid`), good ones and ones that are
to be refused, of any number of parts and bytes:

* `WalkRightCorrect`, `HashesRightCorrect`: `WalkRight`, `HashesRight`.

A layout (`Laid`) is a table of places: each part of a block stands between its place and the
next one, whatever it holds, with a number in front of it in any width a node may write.
It takes the place of a recursive serialization, over which an induction would be needed; the
walk has a place at every step, and the invariant `WInv` says that `ptr` is that
place, that the parts before it have been read as they are, and that nothing before it is to
be refused. `WalkRight` itself is about the end of the walk, so that it says nothing at
the steps before. The lemmas on `VarUint`, one for each width, are the only ones that look at the
bytes of a number. That the blocks of `MCParse` have layouts is the assumption
`MCLaid` there, which TLC evaluates.

Of addresses, for all such blocks whose outputs have the owners that their scripts name
(`AllOwned`), and any `Hash160`:

* `AddrsRightCorrect`: `AddrsRight`.

`Owned` says which scripts name whom, form by form, and which name nobody; `MCOwned` has TLC
evaluate it for the outputs of `MCParse`. A lemma for each form goes through `Decode`
(`OwnerFound`, `NobodyFound`). That keys tell owners apart (`KeysTell`) is
a matter of lengths and first bytes, and for several keys of `FlattenSeq`: lists of
20-byte hashes are the same if they are the same one behind the other (`FlattenTells`).
A multisig of one key has the key of that key. `AddrInv` follows the addresses through the loops and
beside the thread. As `WalkRight` is needed too, `AllLaid` is assumed again.

Of what is printed, for the same blocks, all hashes and any `Crc` of which only the length
of its value is assumed (`CrcFits`: 4 bytes):

* `PrintedRightCorrect`: `PrintedRight`.

`Reaches` has a part that says which address stands for which owner (`StandsFor`), so that a text is
one of three things, and each is read back:

* base58: what `EncodeBase58` writes for any bytes is read as these bytes (`ReadAgain`).
  A sequence of digits writes a number (`Table`, `Chain`): `TakeByte58` makes 256 times the
  number and a byte of it, `Times58Plus` of the reader 58 times and a digit, and without
  zeros in front there is one sequence for a number. That nothing is carried out of the
  digits, which the code asserts (`src/crypt/base58.cpp:40`), is a part of it: 256^n is not more than
  58^Size58(n) (`Capacity`), since it holds for n up to 7 and 8 bytes more have 11 digits more (256^8 <= 58^11).
* bech32: `ConvertBits` conserves bits (`ConvertedSame`). What it keeps of `acc` are the bits that are left
  over and some that are never read again; what a mask of 12 bits cuts off is not read either.
* the checksum (`ChecksumRight`): a symbol in the place of a 0 changes the lowest five bits of
  the sum, and each step moves them up by five without losing one (`FreeStep`); so six symbols can set all 30 bits,
  and those of `CreateChecksum` make the sum 1, whatever precedes them.

Texts then tell owners apart (`TextsTell`): by the text read back, its prefix, the length
of the hash, the alphabet and the number of texts.

Induction. The library's induction theorems take an operator and cannot be used here. The
proofs that need induction use sets instead: `Induct` (a set with 0 and, with each number,
the next, is all of `Nat`) follows from `WFMin`, and recursive functions are unfolded by a
lemma each (`CanonUnfold`, `OutRowsUnfold`).

Only model-checked: liveness, and what a record of the index decodes to.

## Not modelled

* `btclocview` and logging print and keep no state; `log.cpp` reads the counters only.
* `prn_bk`: what a block says of itself, without ids.
* The Kyoto Cabinet and Berkeley DB engines: their classes lack methods of the
  interface, so that they cannot be built.
* The format of rows and the columns that are copied as they are (times, amounts).
* The inside of tkrzw, LevelDB and of streams: what they promise is assumed at the
  actions named external in `PROJECT.json`.
* The command line of `btcbklocs` (two paths and a switch), and `$HOME` not being set.

## What could come next

`PlacesRight` from a relation between a record and its numbers, as `Layout` is one between
a block and its parts.
