# A verification of mcp-attest

mcp-attest keeps a tamper-evident record of what an MCP server's tools were
asked and what they answered. A proxy forwards JSON-RPC requests and appends
one signed, hash-chained record per answer to a JSON Lines file; the caller is
handed a receipt for its record. Anyone with the server's public key can check a
receipt or walk the whole file, and two signed tree heads of one length with two
heads show that a server tells two stories.

This directory holds TLA+ models of that code (`src/mcp_attest/`), the TLC
configurations that check them on small instances, and TLAPS proofs of the
properties that matter most for instances of any size.

## The system

| part | state it keeps | operations | what makes it correct |
|---|---|---|---|
| `log.py` AttestationLog | the file; per object `_write_lock`; the `flock` on the file | `append`, `emit_sth`, `chain_length`, `head_hash`, `iter_records`, `read_record` | the file is one chain; an append is atomic; a receipt is for the record at its seq and survives any crash; a tree head names a head the log had; every append ends |
| `entry.py` wire types | none (frozen data) | `entry_hash`, `to_canonical_*`, `to_dict`, `from_dict` | what is written reads back as what was signed; what verifies says what was signed |
| `verifier.py` | the loop's `expected_prev` and index | `verify_chain`, `verify_receipt`, `verify_sth`, `detect_equivocation` | accepts only what was signed, blames the first line that was not, accuses no honest server |
| `crypto.py` | none | `sign`, `verify`, `hash_bytes`, key generation | Ed25519 and BLAKE2b, taken as perfect here |
| `canonical.py` | none | `dumps`, `loads`, `hash` | one value, one byte string; what has none is refused |
| `proxy.py` AttestingProxy | the calls it awaits | `handle` | a call has at most one record, of its request and its answer; a receipt goes with one |
| `cli.py` | the two key files, tree head files | `keygen`, `sth`, `compare-sth`, `verify`, `inspect`, `demo` | a tree head is signed only with the pair that was asked for; exit code 3 is proof |

How they meet. Calls of `handle` are under way at the same time on one proxy,
each awaiting its upstream; the params of a request are shared with whoever
else holds that object. When upstream has answered, `handle` calls `append`, from
threads and from several processes that share one file. An append opens the
file, takes the object's `_write_lock` and then the `flock`, reads the whole file
for its last record, builds and signs the next, writes, flushes and fsyncs it,
unlocks, closes, and returns a receipt. `emit_sth` and all readers go through the
file with no lock at all. A verifier has nothing but the file, a receipt or a
tree head, and the public key. `keygen` and `sth` share two key files, again
without a lock.

What is hard here: the interleavings of append in threads and processes; a
short write that a lock-free reader sees; a process death or a power loss within
a write and what the next append makes of the torn line; a flush that fails and
is done again by `close()` after the unlock; two reads of the file in one tree
head; params that change while upstream runs, answers out of order and calls
cancelled between the effect and the record; conversions between Python and
JSON that may or may not keep what was signed; and, for the verifier and the
auditor, files edited in every way by someone who may hold other logs and tree
heads signed by the same key. `PROJECT.json` lists each hazard at its line.

## The modules

Under test:

- **Attestation** – the records and the rule that links them. A `Call` stands for
  every field of an entry that the chain does not read. A hash *is* the list of
  what it commits to (seq, call and signer of every record up to it), which is
  BLAKE2b taken as collision free; a signature is the key it verifies under.
- **AttestationLog** – `log.py`. The file is a sequence of lines, as a reader
  parses them, and the pieces of records after the last newline (`tail`);
  `images` are the contents a power loss may leave, reset by `fsync`. Each call
  of append has a `pc` whose values are the places where another thread, a crash
  or an error can come in. One action per place: `Begin` (the checks before the
  locks), `TakeWriteLock`, `TakeFlock`, `Scan` (the scan, and the entry built and
  signed), `WriteFront` and `WriteRest` (a short write and the one that ends the
  line), `Sync`, `Unlock` (the `finally`), `Close` (leaving the `with`). `failed`
  is an exception on its way out. `emit_sth` is `CountLines`, one read of the file
  at a time until there is nothing more, and then `ReadHead`. The failures are
  `IOError` (an `OSError` of flock, read, write or fsync), `CloseFlushes` (what
  `close()` does with a buffer that a failed flush left), `Crash` (a process dies,
  its locks go) and `PowerLoss`.
- **AtomicLog** – what append promises: a call is attested in one step that
  extends the chain, or rejected with no trace; it returns only when attested.
  AttestationLog implements it where nothing fails.
- **CrashLog** – what it still promises where processes die and the machine stops:
  a call writes one line in one step, a record that extends all that can be read or,
  only once somebody has died, a line nobody can read; it returns after that;
  a power loss takes lines from the end, but no record whose receipt is out.
  AttestationLog implements it (`Spec`) where there are no disk errors. `DiskSpec`
  adds them: a call that met one raises (`Break`), its line written or not.
  AttestationLog implements that where one process writes; Proxy is built on it.
- **Proxy** – `proxy.py`, over CrashLog with disk errors. `Forward` (request id read, params kept by
  reference, upstream called), `Answer` and `Abandon` (upstream, or the task being
  cancelled), `Change` (the params object changed in place), `Attest` (append
  has written, with the entry made of the response) and `Return`; or an exception:
  `Refuse` (before the locks), `DiskError` (before or within the write, of which
  `close()` may still do the rest) and `SyncError` (after it: fsync, the unlock or the
  close). After a disk error a later line may be spoilt, its receipt out
  notwithstanding. The death of the proxy's own process is left out, for it ends
  all its calls.
- **ChainWalk** – the loop of `verify_chain`, an action per check, on the lines
  `iter_records` yields. Two modules use it:
- **Verifier** – `verify_chain` on any file, and `verify_receipt` as the operator
  `ReceiptVerdict`, which gives the exception or "ok". `History` is what the
  server's key has signed: one log if it is honest, several if it equivocates or
  its log forked. A line whose signature verifies carries an entry the key has
  signed (`FileAssumption`: no forgeries); all else about a file is free, other
  spellings of a signature included.
- **LiveVerifier** – `verify_chain` begun at any moment on the file of
  AttestationLog, read without a lock while it grows. `RestOfLine` is what a reader
  that was given a line without its newline gets next; whether that is more than the
  newline is `RestIsBlank` of AttestationLog, which `CountLines` asks too. The verifier
  holds the key of all who append (`OneServerAssumption`).
- **Audit** – one run of `compare-sth` on two files an auditor was sent:
  `ReadPubkey`, `LoadA`, `LoadB` (`SignedTreeHead.from_dict` and what it raises),
  `VerifyA`, `VerifyB` (`verify_sth` inside `detect_equivocation`), `Compare`, and the
  exit codes, that of an uncaught exception included.
- **Keys** – runs of `keygen` (`Generate`, `OpenPriv`, `WritePriv`, `OpenPub`,
  `WritePub`; a `write_bytes` empties the file and then fills it) and of `sth`
  (`Check`, `ReadPub`, `ReadPriv`, `Mint`, `SelfVerify`) on the same two files;
  `Stop` ends any of them anywhere. `alone` remembers a keygen that began when no
  other was under way.
- **Wire** – a record from `append` to its line and back through
  `SignedRecord.from_dict`, with the types its values have in Python and in JSON and
  the exceptions of `int`, `float` and `str`. One field stands for each way of
  conversion. `Edit` is someone who edits the line; `Read` is `iter_records`,
  `AppendNext` the scan of the next append and the hash it takes.
- **Canonical** – `dumps`, `loads` and `hash` on nested dicts, lists and tuples
  with string and int keys: `Hash` (in append), `Send` (the object goes to the caller
  as JSON), `Rehash` (the caller, in `verify_receipt`).

Beside these, **MC…** are the instances TLC runs, and **AttestationLogProofs**,
**FailureProofs**, **LiveVerifierProofs**, **VerifierProofs**, **ProxyProofs**,
**AuditProofs**, **KeysProofs**, **WireProofs** hold the theorems.

Definitions marked *Faulty* stand beside the one they resemble: each is a bug
the code could have had, and shows that a property can fail.

Details of the translation that are easy to miss:

- Records are what a reader parses. A line whose JSON differs but whose
  `from_dict` gives the same fields (`"seq": "0"`) is the same record, to the code
  as to the model. Which lines those are is what Wire is about.
- `Garbled` is a line `json.loads` or `from_dict` refuses: append skips it with a
  warning, `iter_records` raises. `Undecodable` is a line that is not UTF-8: it
  raises in both, for append decodes outside its `try`. A torn line becomes
  the second when it ends within a multi-byte character, which only calls in
  `Wide` have.
- A record starts where the file ends. After a torn write the next record is on
  the torn line, and the two parse to no record.
- A lock-free reader and `CountLines` see the line under way; a newline alone is a
  blank line, which all readers skip. A reader that has been given the line under
  way is later given its rest as a line of its own.
- A full disk may let a failed flush write a part; `close()` then tries what is
  left again, writes all of it or nothing (of a record not begun also a part), and
  append raises. A record is never cut in more than two pieces.
- A power loss keeps some prefix of what was written since the last fsync. File
  systems that reorder the writes of one file are not modelled, nor is a
  failed fsync after which the kernel takes the pages for clean.
- `flock` and `_write_lock` are not fair, and neither is the model.
- The tree heads of Audit carry a time as an int, a float or NaN: it is signed as
  it was given and checked as `from_dict` made it.

## The runs

Each finishes in a minute or two. `CHECK_DEADLOCK` is on but in KeyFiles,
where all commands come to an end and nothing is left to do; elsewhere `Idle` or
`Done` stutters where all is over, and only there.

| run | instance | shows |
|---|---|---|
| NoFault | 5 appends in two writing processes and on a read-only log, one with no canonical params, one whose entry has no canonical form; two `emit_sth`; short writes | `ChainIntact`, `ReceiptsFindRecord`, `OnlyBadCallsRaise`, `TreeHeadsFresh`, `SettledHeadsAgree`, and that append implements AtomicLog |
| Crashes | 4 appends, two processes, deaths and power losses at any step | `ReadableChain`: the lines that parse are one chain whatever crashed; `OnlyTornTextStopsAppends`; append implements CrashLog |
| OneProcess | 3 appends, all failures, one process | `ReadableChain` holds under disk errors too, for `_write_lock` is held until `close()` has flushed; append implements CrashLog with disk errors |
| AllFaults | 3 appends, two processes, all failures, fairness | `ReceiptsDurable`: what a receipt was given for and can be read stays; `WaitsForTheLiving`: whoever waits for a lock waits for a call that is alive and further on; `AppendsEnd`: no failure leaves an append waiting for ever |
| LiveVerify | 3 appends in two processes and a verifier, deaths and power losses | `HonestNeverBlamed`: no reading of a growing log looks like tampering while nobody has died; `VerifierSeesReceipts`: what is called good holds the records of all receipts that were out |
| EditedFiles | two logs of one key (calls a, b, c and a, d, b); every file of at most 3 lines from their records, forgeries, other spellings and junk | `AcceptsOnlyHistory`, `BlamesFirstDifference`, `RaisesOnlyAtMalformed`; `ReceiptVerdictExact`: of an accepted file, `verify_receipt` says of any receipt of the key whether its record and all before it are there, were replaced, or are lost (`IndexError`) |
| ProxyCalls | 3 calls, two of them with one params object, one without an id; answers with both members, an error alone, or no dict; values with and without canonical form; disk errors before, within and after each write | `ReceiptsAttestAnswers`: what is in the log of a call is one record of its own request and answer, and goes with a receipt or with a disk error within `append`; `AnsweredCallsEnd`: a call whose upstream is done ends though others never answer |
| Evidence | a server that signed five tree heads, forks among them; every pair of files from any payload under any of their signatures, a stranger's, none, or malformed | `EvidenceIsProof`, `ForksFound` |
| WireLines | every kind of entry; up to two edits of a field, of the keys or of what holds them | `ReadsBack`, `AcceptedSaysTheSame` |
| KeyFiles | 3 keygens and 2 sth, each stopped anywhere; symmetric | `NeverMintsMixedPair`, `LoneKeygenPairs` |
| CanonicalForms | 500-odd dicts of up to two keys, alone and in a list, a tuple or a dict | `OneTextPerValue`, `CallerHashesTheSame` |
| FalseEquivocation | 2 appends, 2 tree heads | the counterexample below |

Why these bounds. A fork of the chain needs two writers, a fork through a cached
head two processes, a gap after a torn line three appends; the one false pair of
tree heads needs two emissions and an append. A splice needs two logs with three
positions, a common first record and one call that stands in both. Answers out
of order and a shared params object need two calls, and a call that waits for
ever a third. Each property has a mutant of the code which breaks it within
these bounds. The bounds that are named in the modules are `MaxLines`
(MCVerifier) and `MaxEdits` (Wire); all others are the sizes of the constant sets.

**Where the code differs from what is said of it.** TLC finds a counterexample for
each of these. FalseEquivocation is among the listed runs, since an honest server
is the one harmed by it; the others are run by hand, each with the configuration
of its name on the module given.

| configuration | module | the claim | what happens |
|---|---|---|---|
| FalseEquivocation | MCAttestationLog | PROTOCOL.md 7: one length and two heads prove misbehaviour | `emit_sth` reads length and head apart; an append between makes an honest server sign a false pair |
| LostHead | MCAttestationLog | the same | a head that was signed before its record was fsynced, and a power loss: another record takes the place |
| CountTwice | MCAttestationLog | log.py 93: the number of entries | a scan that meets a short write counts one line as two |
| TornTail | MCAttestationLog | log.py 6-8: reopening after a crash picks up the chain; PROTOCOL.md 3: seq increases by exactly 1 | the record after a torn line is lost to every reader, its receipt is out, and its seq is given again |
| SplitCharacter | MCAttestationLog | log.py 277: do not crash an append on a malformed line | a torn character raises from every later append |
| LateFlush | MCAttestationLog | log.py 49-51: the locks make append safe with several processes | after a failed flush `close()` writes the record without the lock, next to another record of the same seq |
| Truncation | MCVerifier | log.py 171: the chain catches truncation | `verify_chain` accepts a log that was cut off after a record |
| VerifyRaises | MCVerifier | verifier.py 108: returns a result rather than raising | a line that does not parse, or a signature that is no hex, raises |
| ReceiptError | MCVerifier | verifier.py 61: raises a `VerificationError` subclass | an `IndexError` or `ValueError` comes through |
| ParamsChanged | MCProxy | proxy.py 59-62: the audit trail reflects exactly what was sent | params changed in place while upstream runs are hashed as changed |
| BothMembers | MCProxy | proxy.py 36: a response with an error member is attested as an error | with a result beside it, it is attested as ok |
| LostAnswer | MCProxy | README: audit log of every call | a call cancelled after upstream answered, or whose payload has no canonical form, leaves no record |
| IntegerTimes | MCAudit | cli.py 192: exit code 3 for two histories of one length | with a time given as an int the signature fails on the file, and no fork is found |
| MalformedHead | MCAudit | cli.py 191: exit code 2 for a malformed file | no object, null, NaN or no hex end in an uncaught exception, exit code 1 |
| IntegerCallTimes | MCWire | PROTOCOL.md 5: a caller can verify independently | a record with int times no longer verifies once it is read back |
| RespelledLine | MCWire | README: any byte change invalidates | `"seq": "0"` or `0.5` reads as the 0 that was signed |
| MalformedLine | MCWire | log.py 277: do not crash an append | only `ValueError` is caught: JSON that is no object, or null for a number, ends every later append |
| IntegerKeys | MCCanonical | canonical.py 3-8: one digest for one object, keys sorted by code point | int keys are sorted as numbers and written as strings |

**Fairness.** `FairFaultSpec` assumes that a thread that can take its next step of
append does (`WF` of `Step` and `CloseFlushes`, per call: threads of an operating
system). Nothing is assumed of failures, of calls being made, or of the locks: a
call waits for a lock under weak fairness only, and gets it because the calls
before it are finitely many. A crashed call counts as ended. `Proxy` assumes that
the event loop runs a call that can go on (`WF` of `Proceed`, per call); upstream
need never answer, and the disk may fail any call or none.

## The proofs

TLAPS proves, for every value of the constants (with the assumptions named in
the modules: key names differ, records are not junk, logs are chains, nobody
forges, the verifier holds the server's key). Every property is first checked by a run, by its name.

**The log without failures** (AttestationLogProofs)

- `ChainCorrect`, `ReceiptsCorrect`: the log is one chain and every receipt finds
  its record. Neither is inductive. `ChainInv` adds that only the holder of the
  flock is between scan and unlock (`FlockExclusive`), that what is left after the
  last newline is exactly what that holder has written so far (`TailInHand`), that
  its draft still follows the last line (`DraftsFollow`), that an exception leads out
  (`FailedLeaves`), that a written record stays at its index (`RecordsKept`), and that
  whoever writes has a key. From these: whatever `Write` adds parses to the draft,
  which extends the chain by one.
- `OnlyCallersAtFault`: an append raises only for its caller. What the scan reads
  under the flock is records alone, by `ChainInv`, so only an entry with no
  canonical form makes it fail.
- `AppendIsAtomic`: append implements AtomicLog. With `ChainInv` each step is a
  stutter but three: `WriteRest` is `Attest`, the `Close` is `Return` or `Reject`,
  and a `Begin` that raises is `Reject`.
- `HeadsAreFresh`, `SettledHeadsNeverAccuse`: `HeadInv` keeps, for each signed head,
  the line it is the hash of: that line was there when the head was signed, it
  stays what it is (`SeenGrows`, for the line under way is its writer's record or
  junk), and a head hash is as long as its line is far in the log (`HashLengths`).
  Hence two settled heads of one length are of one line.

**The log with failures** (AttestationLogProofs, FailureProofs)

- `FaultTypeCorrect`: `TypeOK` under every failure. `Typed` adds that whoever has
  something left to write has a draft.
- `ReadableThroughStops`: under deaths and power losses the lines that parse are
  one chain. `TailInHand` is no longer true: a writer may stand behind what a dead
  one left. `StopInv` says that it then writes a line that parses to nothing
  (`SpoiltIsJunk`), while behind an empty tail its record follows the last one
  (`WritesBehind`); and that every image of the disk is a chain too.
- `ReceiptsSurvive`: under all failures what a receipt was handed out for stays.
  `DurableInv` says that a call that has been through fsync has all its lines in
  every image of the disk, and no piece of its record in the open line of the
  file or of an image, where a later write could still spoil it.
- `OnlyTornTextRaises`: under deaths and power losses an append raises only for its
  caller or for a text that is torn in the file at that very moment. A scan that
  fails finds one, but the exception needs three more steps to come out (unlock,
  close, raise), while others go on. `TornFails` says that the text is still there: with
  it in the file no scan comes to its end, so nobody is writing, and what is
  torn stays torn until the machine stops, which ends the exception too.
- `AppendSurvivesStops`: under deaths and power losses append implements CrashLog.
  `WriteRest` is its `Write`, the `Close` is `Return` or `Reject`, and a stop its `Crash` or
  `PowerLoss`. `SurvivingInv` joins what is above with two facts: the lines of
  every image of the disk are the first lines of the file (`ImagesBehind`), so that a
  power loss cuts; and as long as nobody has died all of `ChainInv` holds, and the
  disk holds all of a file nobody is writing to (`DiskHasAll`), so that a line can be
  spoilt only after a death. That no lost line has a receipt out is `DurableInv`.
- `ReadableInOneProcess`: with disk errors as well, the lines that parse are one chain,
  provided all calls are made on one object (`SameProcess`). A failed flush leaves a
  record that `close()` writes after the flock is gone, so the flock protects
  nothing; `SoleInv` puts `_write_lock` in its place, which is held until after
  `close()` (`WriteLockExclusive`), and says that whatever is left to write still
  follows the last record or goes behind a torn line (`FlushesWithin`). With two
  processes it is false: LateFlush is the counterexample.
- `AppendSurvivesDiskErrors`: under all failures append implements `DiskSpec` of
  CrashLog, provided all calls are made on one object. A call that raises after
  it has built its record is a `Break`, and its line comes with `WriteRest`, with what
  `close()` writes after the unlock (`CloseFlushes`), or never. `SoleInv` makes what
  is written then a record that follows all that can be read, or a line nobody can
  read; the latter only behind what a failed or stopped call left, for as long as there is none the
  file ends in a newline or in the front of the record under way (`Clean`).
  `AppendSurvivesStops` and this share one walk through the steps (`OutcomeStep`), which asks of a writer
  only what both invariants give (`WritesWell`).
- `NobodyWaitsForTheDead`: under all failures a call that waits for a lock waits for
  one that is alive and further on, so that nobody waits in a circle or for one
  that is gone. `LocksInUse` says of each lock that its holder is alive, on that
  object, and at a line of `append` where it holds it: no way out of the two
  `with` blocks, and no death, leaves a lock behind. It is the safety half of
  `AppendsEnd`.

**The verifier** (VerifierProofs, LiveVerifierProofs)

- `HonestLogsPass`: no reading of a growing log ends in blame while nobody has died,
  for any number of threads, processes and reads that fall anywhere. `HonestLog` is
  `ChainInv` and `DiskHasAll`, so that a power loss that stops no append takes nothing
  away (`QuietStop`), and every line is signed by the server's key (`SignedByServer`). `ReadsLog` says that the lines read are those of the log up to the
  position, and that a last one read without its newline is the next line of the log or
  does not parse; `Progress`, that no line checked is junk and `expected_prev` is the
  hash of the last of them. The hard step is a read that goes on behind a line that was
  given without its newline (`ReadOn`): the walk reads on only when all before
  it parsed, so the line was whole, and nothing but its newline is left of it. A line
  that does not parse ends the walk in an exception, which is no blame; any other is
  the server's next record (`ReadableLine`).
- `ReceiptsAreSeen`: who is told that the log is good has read the record of every
  receipt that was out at the start. `LandedInv` says that a record which has been
  written is a line of the file, and one that has been synced of every image of the
  disk, or else a line there is junk (it was written behind a torn line);
  `WitnessInv` carries it from the file to the lines read, and a walk over junk does
  not end in "ok".
- `LogsAreHistories`: each line of a log that appends write under one key has its index
  as seq, that key as signer and as `prev_hash` the list of all lines before it. This
  is what `HistoryAssumption` of Verifier asks of a log, so that the theorems below
  hold of the logs AttestationLog writes.
- `WalkTypeCorrect`: `TypeOK` of Verifier, from `WalkInv`.

- `AcceptedIsHistory`, `BlameIsExact`, `RaiseIsExact`, `ReceiptsExact`: `WalkInv` says
  that the lines checked are the beginning of a signed log and that `expected_prev`
  is the hash of them all. A line in order carries an entry some log has; its
  `prev_hash`, being the list of all before it, makes that log agree with all lines
  before (`SameLinksSameRecords`). A line refused is in no log that has the lines
  before it (`NoMore`). An accepted file being the beginning of a signed log, what
  `verify_receipt` says of a receipt is decided by comparing two logs at one index
  (`VerdictOnAccepted`): the hash of the record there is the list of all up to it.

**The rest**

- `ProxyCorrect` (ProxyProofs): a call under way has its own id captured and the
  params it sent, unless they were changed (`InFlight`); handle and
  its append are equally far (`InStep`), so that an exception out of `append` is told from one
  before it; a call has no record before append has written, and afterwards one of
  what it then had, which only a spoilt line, after a disk error, takes away (`Logged`,
  `WhatIsWritten`).
- `EvidenceCorrect`, `ForksExitThree` (AuditProofs): each step of compare-sth leaves
  established what those after it need: both heads are what their files hold, and
  verified (`Established`, `Found`).
- `MintsUnderPub`, `LoneKeygenCorrect` (KeysProofs): what a run of sth has minted is the
  pair of the public key it read (`Minting`); a lone keygen has written what its
  step says (`Lone`).
- `WrittenReadsBack`, `AcceptedLineCorrect` (WireProofs): which lines are as written,
  and that a reading is the conversion of its line; the rest is cases of the
  conversions.

What only TLC checks: `OneTextPerValue` and `CallerHashesTheSame` of Canonical, whose
operators are recursive, which puts the module out of the prover's reach, as it
does induction over data; and `AppendsEnd` and `AnsweredCallsEnd`, for liveness
under fairness is beyond the prover too. That a history can be written is proved
of one log (`LogsAreHistories`); that a key has signed several is an assumption
of Verifier about a server that is not honest, not a result.

## Not modelled

- `cli.py`: `verify`, `inspect` and `demo`, which print what the library returns;
  the mode of the private key's file.
- `crypto.py`: the algorithms; key lengths but for the 32 bytes of a key file.
- `log.py`: a file that is replaced or truncated by hand while it is open; several
  log files. `verifier.py`: in `verify_receipt`, where an undecodable line lies
  within the block that is read.
- `entry.py`: `Receipt.from_dict`, which converts as `SignedRecord.from_dict` does.
- `canonical.py`: float and bool keys, keys that are equal in Python, lone
  surrogates, ints beyond a float's precision, how a number is spelt.
- `errors.py` and `__init__.py`, which have no behaviour; `examples/` and
  `scripts/`, which are sequential demonstrations.

## Plan

1. *Done*: Attestation, AttestationLog, AtomicLog, Verifier, their runs and
   theorems.
2. *Done*: Proxy over the abstract log (now CrashLog); LiveVerifier over AttestationLog and ChainWalk;
   Audit, Keys, Wire, Canonical; tree heads read by read; proofs for each but
   Canonical, and for the log under failures.
3. *Done*: `ReadableChain` under all failures with one process
   (`ReadableInOneProcess`), `OnlyTornTextStopsAppends` (`OnlyTornTextRaises`).
4. *Done*: `HonestNeverBlamed` and `VerifierSeesReceipts` (`HonestLogsPass`,
   `ReceiptsAreSeen`), and the bridge from AttestationLog to Verifier
   (`LogsAreHistories`). Every safety property of a passing run has its theorem, but
   for those of Canonical.
5. *Done*: CrashLog, the abstract log for deaths and power losses, and the proof that
   append implements it (`AppendSurvivesStops`).
6. *Done*: the same for disk errors with one process (`AppendSurvivesDiskErrors`), where
   an exception may come out of a call whose record `close()` has written after all;
   who waits for whom under all failures (`NobodyWaitsForTheDead`); the exact verdict
   on a receipt (`ReceiptsExact`).
7. Open: Canonical rewritten without recursive operators, and its two invariants
   proved by induction on the depth of an object; with two writing processes, what append
   still promises after a failed flush.
