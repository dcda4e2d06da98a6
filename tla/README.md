# Verification of the low-latency KV store

TLA+ models of the repository's snapshot format, snapshot builder, command-line
tools, store, gRPC server and blue/green deployment, TLC configurations that
check them on small instances, and TLAPS proofs of all their safety properties and
refinements for every instance.

Contents: [inventory](#the-system), [modules](#modules-and-the-code),
[runs](#runs), [findings](#findings), [proofs](#proofs),
[assumptions](#assumptions-and-abstractions), [not modelled](#not-modelled),
[plan](#plan).

## The system

The program serves immutable snapshots of 64-byte keys and 256-byte values. An
offline builder writes a snapshot file; servers memory-map it and answer gRPC
lookups through a minimal perfect hash function (MPHF). Shell scripts bring a
snapshot to one of two pools of servers and move the load balancer's listener
over to it.

| part | state | operations | talks to |
| --- | --- | --- | --- |
| snapshot format, `kv-store/src/header.rs`, `record.rs` | none: a file layout | `Header::new`, `validate`, `from_bytes`, `to_bytes`, `verify_checksum`, `align_to_4k`, record access | used by builder and store |
| index, `kv-store/src/mphf.rs` | a function and its key count | `build`, `get`, `serialize`, `deserialize` | the `ph` crate |
| builder, `snapshot-builder/src/builder.rs` | keys and values in memory; a mapped output file | `new`, `add_record`, `build` | the file system |
| builder's command line, `snapshot-builder/src/main.rs` | the input read so far | `csv`, `binary`, `random`, `validate`, `info` | builder, store |
| store, `kv-store/src/store.rs` | a read-only mapping, a copy of header fields and index | `open`, `get`, `contains`, `preload`, `iter` | the file, which others may write |
| service, `kv-server/src/server.rs` | `ArcSwap<KvStore>` | `get`, `batch_get`, `health`, `reload` | concurrent tokio tasks |
| metrics, `kv-server/src/metrics.rs` | atomic counters, a histogram | increments, `encode` | handlers, scrapes |
| server process, `kv-server/src/main.rs` | two listeners | start-up, `/health`, `/metrics` | service, load balancer |
| validator, `validator/src/main.rs` | none | `check`, `verify`, `bench`, `diff` | store |
| deployment, `deploy/scripts` | nodes' files and services, the listener's pool | download, checksum, restart, health loop, cutover | server processes, systemd, S3 |
| infrastructure, `deploy/terraform` | declarative resources | load balancer, health check of port 9091 | server processes |

What makes each correct, and what is hard:

- **Builder and format.** `build` writes through a memory map: length, index,
  records, and the header last. It may be killed, run into a failing system
  call or lose its machine between any two writes, and the 4 KB header copy is
  not atomic. What is left must not look like a snapshot that answers wrongly;
  what `build` reported as done must answer exactly. The offsets are `u64`
  arithmetic done in three places that have to agree.
- **Command lines.** A text key is cut to 64 bytes and padded: two rows may become
  one key, and then there is no index. A bad row is met after thousands of good
  ones. The validator checks a snapshot against what it has read from the
  snapshot itself.
- **Store.** `open` trusts most of the header, does not verify the checksum and
  slices before it checks lengths. `get` reads the mapping, not a copy: what
  others do to the file shows, word by word.
- **Builder and store together.** Nothing coordinates them: whether a path is
  opened before its build has ended, or rebuilt while a server has it mapped, is
  up to the operator.
- **Service and metrics.** Handlers run on several threads, so `reload` falls
  between any two accesses. Every reply must come from one snapshot; replaced
  snapshots must be released, but not under a handler; counters move at
  different moments, and a scrape reads them at yet others.
- **Process and deployment.** `/health` says OK whatever the gRPC listener does;
  the health loop of the deployment falls through after 30 tries; a failed stop
  or a failed download of the checksum goes unnoticed; the download writes to
  the path that a restarting server may open; the cutover checks nothing.

`PROJECT.json` lists every component with its status and every hazard with its
line and the properties that cover it.

## Modules and the code

```
SnapshotFormat          header.rs, record.rs: layout, arithmetic, checksum
  Mphf                  mphf.rs, and the ph crate's functions (external)
    SnapshotFiles       what open and get make of a file's contents (store.rs)
      SnapshotTools     validator; validate and info of snapshot-builder; iter
      SnapshotBuilder   builder.rs, one action per write; kills and I/O errors
        SnapshotBuilderInv      its inductive invariant
        SnapshotCopy            copies of its files that were cut short (external)
        SnapshotReports         what the tools report of its files
        SnapshotPowerLoss       loss of unsynced pages (external)
        Ingest                  csv, binary and random of snapshot-builder
      KvStore           store.rs, one action per read of the mapping
        SnapshotSystem  builder and readers interleaved
                        implements SnapshotService (abstract)
          SnapshotSystemInv     its inductive invariant
KvReply                 the reply a request is owed from one snapshot
  KvService             abstract service
  KvServer              server.rs, metrics.rs; implements KvService
    KvServerInv         its inductive invariant
    KvScrape            Metrics::encode, interleaved with the handlers
KvNode                  kv-server main.rs on each node, and systemd (external)
  Deployment            deploy-snapshot.sh, cutover.sh, and the load balancer
    DeploymentInv       its inductive invariants
```

`X_proofs` holds the proofs about `X`. Those about `SnapshotFormat` and `Mphf` are in
`SnapshotBuilder_proofs`, those about what can be read from the builder's files in
`SnapshotSafety_proofs`, those about `SnapshotCopy` in `SnapshotReports_proofs`, and those
about `KvScrape` in `KvServer_proofs`. `MC*` gives the constants of the runs their
values; `MCSnapshotFiles` those of `Misread` (below).

**SnapshotFormat.** A header page is a function from the offsets of its fields to
their words, so that it can be written word by word. `to_bytes`/`parse` are
`to_bytes`/`from_bytes`; `validate` returns the first error. All offset
arithmetic wraps modulo `U64`, as in the release profile. A digest is the pair
of the length and the contents of the byte range it was computed from (SHA-256
taken as collision free); `[0u8; 32]` is the digest of nothing.

**Mphf.** `build_mphf(keys)` is the set of all perfect and minimal functions on
the keys. Off the keys a function may return any slot or none: this is why `get`
compares keys. A key vector with duplicates has no such function; `BuildAbort` is
then the only way on.

**SnapshotFiles.** A file is its size, header page, index section and a function
from byte offsets to the records written there. A record read at an offset where one
was written is that record; where nothing was written to any of its bytes
(`Untouched`) it is zeros; and where it would be put together from the fields of the
header, from the index or from the middle of a record or two, it is `Misread`, a
constant operator that may yield any key and any value. This matters for a header
without its `data_offset` word, under which `get` reads at `slot * 320`: in the
header page, in the index, and across the records behind it, where the text of a
value can be taken for a key. `open` and `get` are functions of the file, used where
it does not change.

**SnapshotBuilder.** The position in `build` is `pc`. `CreateFile` (truncating),
`SetLen`, `WriteMphf`, then per record `WriteKey` and `WriteValue`, `Checksum`,
`WriteHeaderWord` in any order (a kill can leave any subset of the words; zero
words of the padding are not steps), `HeaderWritten`, `Flush`. The `expect` and
the slices that panic are the `killed` branches of `WriteMphf` and `WriteKey`.
`Kill` and `IoError` may end the build at each step; the file stays as it is and
another `Start` may build over it. `source`, `built` and `synced` are history:
what the last build was given, whether it returned Ok, whether it was synced.

**SnapshotPowerLoss.** A power failure leaves a synced file alone and of an
unsynced one any combination of written-back and lost pages: no file, a blank
or the current header page (one page, so no torn words), a blank, mixed or
whole index, and each key and each value either stored or zero.

**SnapshotCopy.** The first bytes of a finished snapshot, up to any of the lengths
`CutLens`: a transfer that stopped. What is cut of header and index cannot be
parsed; half a record is no record.

**SnapshotTools and SnapshotReports.** The tools keep no state, so they are
functions of the files: `check_snapshot` gives the verdicts that a sample may get,
`verify_expected` stops at the first pair that is an error or a panic and counts
the failed ones, `diff_snapshots` is the three counts. The pairs of an expected file
are well-formed ones and one of each malformed kind: an odd number of digits, a
character that is none, a key of the wrong length (skipped), a value too long
(out of bounds). SnapshotReports evaluates them on every file that the builder,
a kill or a power failure leaves.

**Ingest.** Here a key is the sequence of its bytes, because `pad` (the truncation
and the zeros) is what two texts collide by. `ReadRow` is one turn of the loop: a
line that the reader refuses ends the command (`?`), otherwise the row goes
to `add_record`; `Build` begins when no row is left. A binary file whose size is
no multiple of a record's is refused before the builder exists.

**KvStore and SnapshotSystem.** A reader opens in three steps (`OpenFile`,
`ParseHeader`, `LoadIndex`), and looks up in three (`Get`, `CompareKey`,
`CopyValue`): between them the builder may write. It keeps the length, header and
index it has read; records are read from the file as it is then. An access to a
page the file no longer has kills it (SIGBUS), as do a panic of `open` or a slice
beyond the mapping. `InPlace` and `OpenUnfinished` say what the operator does.

**KvServer and KvScrape.** `task[c]` is the handler of client c's call. A step is
one access to shared state: loading the swap, one key's lookup and counter, each
counter, the return. Handlers contain no `.await`, so a handler once started is
not dropped half way, and no lock is taken. `mapped` are the stores that are still
mapped: those that the swap or a handler holds (`InUse`). `replies` is history.
In KvScrape each family is gathered in a step of its own, in any order.

**KvNode and Deployment.** `main[n]` follows `main` of main.rs: open, preload,
spawn the metrics task, bind and serve gRPC; `listener[n]` is the metrics task,
which lives and ends by itself (a failing bind or accept ends it, `main` only logs
that). `Exit` takes both down; systemd launches an `active` service again.
`script` is deploy-snapshot.sh: one action per command that it runs on a node
(`Download` .. `Start`, then `ProbeOk`/`ProbeFails`), in a loop over the pool's
nodes; `Abort` is `set -e`. The remote shell of the download step has no `set -e`
of its own: when the checksum's download fails, `VerifyChecksum` reads the file
of an earlier deployment. `Stop` may fail unseen (`|| true`), and then `Start` does
nothing and the old process answers the probe; `unstopped` is history, the nodes
whose process outlived such a stop and has not ended since. `Cutover` is cutover.sh, also for
rollbacks. `target` and `Routed` are the load balancer, which looks at the metrics
port only and fails open. The contents of a file are only "good" (what was built),
"bad" or "absent": what a bad file does when opened is the business of the other
modules, so `Open` may accept or refuse it.

Definitions marked "Seeded fault" are not part of the models: each is a plausible
bug that replaces the definition after it, used to show that a property can fail.

## Runs

All are run with `tlc -workers 2 -config <run>.cfg <module>`. Deadlock checking is
off: every program here may stop (a builder that has ended, a client that has made
its calls, an operator who does nothing more).

| run | module | question | states |
| --- | --- | --- | --- |
| `builder` | MCSnapshotBuilder | two builds over one path, killed or failing at any point; cut copies; reports; the inductive invariant | 638 k |
| `power_loss` | MCSnapshotPowerLoss | power failure during or after a build; what checksum, check and verify together can tell | 1.7 M |
| `service` | MCSnapshotSystem | a path opened at any moment of its build; refinement of the atomic snapshot service; the inductive invariant | 171 k |
| `server` | MCKvServer | handlers and reloads interleaved; refinement of KvService; the inductive invariant | 1.9 M |
| `scrape` | MCKvScrape | scrapes of moving counters, and their inductive invariant; replaced stores are released | 495 k |
| `ingest` | MCIngest | every csv, binary and random input of up to two rows; the invariant of the rows read | 372 k |
| `deployment` | MCDeployment | two deployments, cutovers, rollbacks, two faults anywhere; a pool of one node and one of two; the inductive invariant | 1.2 M |
| `deployment_live` | MCDeployment | a live pool of two nodes, one deployment, two faults; the end of the script, and where calls go in the end | 299 k |
| `torn_header` | MCSnapshotBuilder | *violated*, see findings | |
| `rebuild_in_place` | MCSnapshotSystem | *violated*, see findings | |
| `truncated_open` | MCSnapshotBuilder | *violated*, see findings | |
| `deploy_complete` | MCDeployment | *violated*, see findings | |

What they show:

- `CheckedIsExact` and `BuiltIsExact`: a file that opens and verifies, left
  behind by any killed build, or any file whose build succeeded, returns exactly
  the added pairs. `BuiltIsExact` has one exception: `build` succeeds with more
  records than `Header::validate` admits, and that file cannot be opened.
- `LocatedIsExact`: without the checksum, too, a torn file that opens answers
  exactly, if its `data_offset` word is there. Without that word it is read in the
  wrong places, and may give a key another key's value or bytes that are no value
  at all (finding 1).
- `OpenNeverPanics`, `BuildNeverPanics`: the unchecked slices are in bounds on the
  builder's own files. `CutNeverOpens`: a copy that was cut short never opens,
  although it may panic (finding 3).
- `CheckedNeverForeign`, `BuiltIsDurable`: the checksum does not cover the index,
  so after a power failure a verified file may miss keys; it does not mix them
  up. What was reported as built is whole.
- `BuiltReportsClean`, `PassedAndCheckedIsExact`, `VerifiedIsExact`: the tools raise
  no alarm over a finished snapshot, and verify confirms a further pair exactly if
  it is true or has a key of the wrong length, which verify passes over without
  counting it. Neither `check` nor the checksum alone shows that a file is what was
  built; `check` of *every* key and the checksum do, and so does `verify` with
  every pair.
- `ImplementsService` (SnapshotSystem): a snapshot is published by the last word
  of its header, at whatever moment a reader opens the path: readers that have
  read the header whole behave like clients of a map that appears at once.
  `ReadersSurvive`: the others are safe from panics and from pages that are missing.
  `AnswersNeverForeign`: they get no foreign value either, if the `data_offset` they
  have read is not 0.
- `ImplementsService` (KvServer): each call is answered from one snapshot current
  at some moment of the call, whole batches included. `NoUseAfterUnmap`,
  `ReplacedIsUnmapped`: replaced stores live exactly as long as they are used.
  `CountersAddUp`: how far the counters may be apart, and from the replies.
  `ScrapeMatchesReplies`: what a scrape may be off by.
- `IngestIsExact`: a command that succeeds has dropped and merged no row.
  `BadInputLeavesFiles`: one that is given bad lines or colliding keys has not
  touched the snapshot at its output path.
- `ReachableIsLoaded`: whatever the listeners come up in, neither answers before
  the snapshot is open. `LiveServes`: with fewer faults than the live pool has
  nodes, and an operator who looks before a cutover, some live node serves.
  `LiveDataIsVerified`: no number of damaged downloads, stale checksum files, aborted
  deployments and restarts brings a damaged snapshot to the live pool, also if nobody
  looks before a cutover. `LiveIsDeployed`: nor another version than the one that was
  last deployed to the pool. Both rest on the commands of deploy-snapshot.sh and their
  order. What they except is a process that outlived a stop whose failure the
  script hid: it serves the version from before the deployment, and a damaged
  snapshot if one more fault has occurred (see the observations).
- `DeployEnds`: the script comes to an end, also when no health check ever succeeds.
- `ServiceRecovers`: when faults have ceased, every node of the live pool serves, and
  calls go to exactly those whose metrics listener is up, or to all if it is up on
  none. In a pool of two nodes that takes the load balancer's part seriously: a metrics
  listener that is up before the gRPC one, one healthy node of two, and none (the load
  balancer fails open) all occur, as do restarts during all of it.

**Bounds.** In `power_loss` and `service` three keys are two present and one
absent (or three present), the smallest case where an absent key meets a foreign slot;
`builder` has the room for two builds over one path, one after the other in any
state that the first was left in, with two keys. Two values tell right from wrong.
Index lengths 100 and 4096 are one that needs padding and one that ends on a page
boundary. `CutLens` are lengths below, at and above each section's boundary. `U64` is
2^20 in the runs, far above every offset, as 2^64 is; wrap-around is the business
of the proofs' assumption `BuilderAssumption`. No run of a build goes above
`MAX_RECORDS`; the proof of `BuiltIsExact` includes that case. `builder` and `ingest`
use timestamp 0, so that its header word takes no step. One builder and one reader
suffice: readers share nothing, and each path has one writer. In `ingest` keys have
two bytes and fields up to three, so that fields are cut, padded and collide. For
`server`, two clients, two reloads, three calls and batches of two let a reload
fall twice into one batch. In the deployment runs a pool with two nodes is one with
a node to spare, two deployments reach both pools, two tries of the health loop are
one that is retried and one that is given up. Two faults are enough for a node restarted
onto a damaged download, a stale checksum or a failed stop besides, and for both metrics
listeners of a pool to be gone. `deployment` runs modulo the view `SafetyView`, which
leaves out `target`: only the health check itself and `Routed` look at it. `builder`, `service`, `power_loss` and `ingest` have the
adversary's `Misread`: a key of the file followed by a value that is not zero, wherever
a read meets something else than a record. `torn_header` has the mildest one, so
that what it finds is due to nothing that is not modelled. No bound matters for
the safety properties that are proved (below), nor does the choice of `Misread`: the
proofs assume nothing of it. Symmetry permutes
non-zero keys and values, or clients; it is not used in runs of liveness.

**Fairness.** `scrape` assumes weak fairness of each handler: a handler never
waits for anything but the scheduler (no `.await`, no lock), and the tokio
runtime polls a spawned task that is ready, whatever the scrapes do.
`deployment_live` assumes it of each node's start (main and the metrics task run by
themselves; systemd restarts an active service), of the load balancer's health
checks, which are periodic, and of the script's commands, which return. Nothing is
assumed of callers, of `reload` or of operators, and faults, which are finite,
never have to occur. No other run needs fairness.

## Findings

1. `torn_header`: `get` promises the value "if found, or `None` if the key doesn't
   exist" (`store.rs:160`). TLC's trace: a build of two records is killed in the header
   copy with all words written that `open` looks at, but `data_offset` not (the words
   of the first 32 bytes are enough); slot 1 is then read at byte 320 of the header
   page, and the all-zero key is "found" there with a value of zeros that is not its
   own. With more records the reads reach the index and the records themselves at
   wrong offsets, where any key may be found. The checksum would have shown
   it, but `open`, which documents that it returns an error if the checksum does not
   match (`store.rs:86`), never looks at it: `Header::verify_checksum` has no caller
   outside tests.
2. `rebuild_in_place`: `store.rs:24-26` calls the store safe to share because the
   memory map is read-only. It maps a file that `build` truncates and rewrites in
   place; an open store then returns records it did not hold.
3. `truncated_open`: `open` slices the index out of the mapping (`store.rs:104`)
   before it compares a length with the file's (`store.rs:119`). A snapshot cut
   short inside its index is a panic in place of the documented error.
4. `deploy_complete`: the health loop (`deploy-snapshot.sh:65`) goes on after its
   last try as after a success, and the script says complete; a cutover then leaves
   no node that serves, against `architecture.md:312`.

Observations that no run is spent on, because no text of the repository says
otherwise, or the models show them directly:

- `kv_requests_total` counts successful lookups only (the handlers return before it
  when a key is malformed).
- `check` and `verify` of the validator never look at the checksum; `verify` panics
  on a key text with an odd number of digits and on a value that is too long, and
  skips pairs whose key has the wrong length without counting them.
- `has_header` is a flag that is set by default and cannot be cleared: the first row
  of a CSV file is always dropped.
- `/health` does not depend on the gRPC listener, nor on what the store holds.
- A stop that fails unseen (one fault) leaves the old process to answer the probe
  meant for the new one; the script says complete and the pool serves two versions, or
  the old one. With one fault more it may serve a damaged snapshot (a run with
  three deployments on pools of one node shows it). A first deployment gives up on a
  slow node after its last probe and says complete; the unit names the path the
  download goes to. A second deployment of that version downloads a damaged file,
  which the node, still starting, opens before the checksum ends the script. A third
  one downloads a good file, but its stop fails, and the server that has the damaged
  file open passes the health check. That this is the only way is `LiveDataIsVerified`.
- `KvServiceImpl::reload` has no caller in the server binary: a node gets another
  snapshot by a restart. The models of it are of what the service offers.

## Proofs

Eight modules hold proofs, all checked by TLAPS without exceptions:

- `SnapshotBuilder_proofs`: `AlignUp`, `SlotsDisjoint`, `HeaderRoundTrip` about the
  format; `Inductive` (Spec => []IInv), `TypeCorrect`, `PanicFree` (BuildNeverPanics).
- `SnapshotSafety_proofs`: `KillSafe` (CheckedIsExact), `BuiltUsable`
  (BuiltIsExact), `LocatedSafe` (LocatedIsExact), `OpenPanicFree`
  (OpenNeverPanics).
- `SnapshotReports_proofs`: `CutRejected` (CutNeverOpens), `ReportsClean`
  (BuiltReportsClean).
- `SnapshotPowerLoss_proofs`: `Durable` (BuiltIsDurable), `NeverForeignAfterLoss`
  (CheckedNeverForeign), `CheckMissesNothing` (PassedAndCheckedIsExact),
  `VerifyMissesNothing` (VerifiedIsExact).
- `SnapshotSystem_proofs`: `SystemInductive` (SystemInv), `Survival` (ReadersSurvive),
  `AnswersGiven` (AnswersNeverForeign), `ServiceImplemented` (ImplementsService).
- `Ingest_proofs`: `RowsKept` (RowsInv), `IngestExact` (IngestIsExact),
  `BadInputHarmless` (BadInputLeavesFiles).
- `KvServer_proofs`: `Inductive`, `TypeCorrect`, `NeverUsedAfterUnmap`
  (NoUseAfterUnmap), `CountersCorrect` (CountersAddUp), `ServiceImplemented`
  (ImplementsService); `ScrapeInductive` (ScrapeInv), `ScrapesMatch`
  (ScrapeMatchesReplies).
- `Deployment_proofs`: `TypeCorrect`, `ReachableLoaded` (ReachableIsLoaded),
  `FleetInductive` (FleetInv), `AlwaysServes` (LiveServes), `DataVerified`
  (LiveDataIsVerified), `DeployedServed` (LiveIsDeployed).

So every invariant, action property and refinement that a passing run checks holds
for all sets of keys and values, widths, texts, index lengths, timestamps, paths,
numbers of records and of builds, of cut lengths, readers, clients, calls, reloads, keys
in a batch, nodes, pools, versions, deployments and faults.

One group of theorems has a hypothesis, and needs it: those about `SnapshotSystem`
assume `~InPlace`, as an operator who rebuilds a path that is mapped breaks what they
say (finding 2). They do not assume that nobody opens an unfinished snapshot.

**The builder's argument.** None of its invariants is inductive: that a file answers
exactly once its header is there depends on what was written before. `IInv` says
what each step has established:

- `MemoryInv`: types of the process's variables;
- `FilesInv`: *every* file, abandoned ones included, is well formed and has
  either an all-zero header page or is `Complete` (full length, index, all
  records at their places) with each header word zero or final; if its build
  returned Ok, all words are final;
- `StepInv`: at each `pc`, how much of the current file is in place, and that
  the header in memory belongs to it.

The second conjunct is the heart: the header page is written only over a complete
file, so any torn header is a partial description of a good file. From it,
`OpenedCount` shows that a torn header that opens has the right record count
(the index holds it a second time), and `KillSafe` that one that verifies has
the right `data_offset`, since a digest of a range starting elsewhere has another
length. Layout rests on `AlignUp` and `SlotsDisjoint`, perfect hashing on
`PerfectSlots`. `CutRejected` follows from the header being final: with the header
page there, the length check compares the cut length with the full one. After a power
failure `IInv` no longer holds; `PowerInv` says that it does as long as there is power,
and that what was built was synced. A surviving file that verifies has all its records
(`VerifiedOffset`), so whatever slot a damaged index gives, the record there is one
that was added, and the comparison of keys does the rest (`AddedOrMissed`).

**The tools' argument.** The index that survives a power failure may be damaged; it can
send a key anywhere or nowhere. A `check` of every record looks up every key there is
in the file, and the checksum says that these are the keys that were added: none is
missed. `verify` says the same of the expected pairs, without the checksum; that no
other key is found either is a pigeonhole (`NoSlotLeft`): keys that are found are found
at different slots, and those that were added use them all up.

**The readers' argument.** What a reader has read of a file that is still written must
agree with what the file will be. `SystemInv` says: each header word a reader has is
zero or final, and the index it has is the file's (`StoreInv`); a path about to be
created does not exist (`NothingInPlace`, all that `~InPlace` is needed for); and
where a lookup is (`LookupInv`). For the refinement, a snapshot is published when its
last header word is there. A reader that has the whole header by then answers as a
client of the service; one that read a torn header is not one of its clients.

**The input's argument.** `RowsInv`: while a command runs, the rows of its input are the
records added so far, each converted, followed by the rows to come; past the input
there are none to come. A build that has an index has distinct keys (`PerfectSlots`),
so no two rows may collide by then, and none was bad. With `BuiltFiles` this is
`IngestIsExact`.

**The server's argument.** `CountersAddUp` and `NoUseAfterUnmap` depend on where each
handler is and what it holds. `KvServerInv!IInv` adds `MappedInv` (exactly the stores
held by the swap or a handler are mapped) and, per handler, `TaskInv`: it holds a
store from its load to its return, and by then what it has found (`Found`) is what
that store has for the keys passed so far. Counters are compared with cardinalities
of sets of handlers; a step of one handler moves one handler between those sets, and
the lemmas state what that does to their sizes. A scrape adds `GatheredInv`: what
it has gathered is between the replies that were out when it began and the counters
of now, both of which only grow.

**The server's refinement.** A handler is mapped to a call of KvService that is served at the
moment it loads the store: from then on its reply is determined (`Found` for the
snapshot it has loaded, and the malformed key, if there is one, that will stop it).
Later steps are stutters, and the return is the service's return, whose reply
is what the handler has computed, by `IInv`. A reload is the service's reload.

**The deployment's argument.** `StartedInv`: past `open`, main holds a snapshot, and
the metrics task exists only from `bind` on and goes with the process. Typing needs
that the script always has a node left to work on while it is at a command. What
clients get depends on what nodes *will* open when systemd restarts them, and on what
a failed stop left running. `FleetInv` adds: the pool that is worked on is neither
live nor ready (`WorkInv`); the files that units name are good in every ready pool
and on the nodes the script has verified (`FileInv`); what the nodes that the script
has made sure of (`Renewed`: those of ready pools, and those it has stopped) have open
is good (`ContentInv`) and of the version their units name (`VersionInv`), unless their
process outlived its stop, and the first of these two even then with fewer than two
faults, because a damaged file took one already; and, if all of the live pool served at
the cutover (`looked`), no more live nodes are down than faults have occurred
(`DownInv`, over `Cardinality`).

**From which assumptions.** `FormatAssumption`: the magic number is not zero,
`U64` is a multiple of 4096 above 8192. `NoneAssumption`, `GarbledAssumption`,
`AbsentAssumption`, `TextAssumption`, `NodeAssumption`: the special
values, and the malformed texts of an expected file, are not ordinary ones.
`BuilderAssumption`: index lengths are at least 8 (the key count alone), and index
and records together stay below `U64`, which holds as the builder keeps them in
memory. `OneBuild`: a machine that loses power has made one
build (stated with the power failures; their proofs do not use it). `CopyAssumption`: cut
lengths are natural numbers. `ServerAssumption`: finitely
many clients, snapshots that map finitely many keys to values, bounds that are
natural numbers. `IngestAssumption`: a key is any sequence of `KeyWidth` bytes, a value
any of `ValueWidth`, and columns hold finite texts. `DeploymentAssumption`: two disjoint
pools that are not empty, at least one try. TLC evaluates all of them in the runs.

**Model-checked only.** The liveness properties `ReplacedIsUnmapped`, `DeployEnds` and `ServiceRecovers`: liveness and what depends on `ENABLED` are out of the
proof system's reach. So is induction over data; the proofs use none. The four
violations are counterexamples of TLC's.

## Assumptions and abstractions

- External, from how the code uses them: `GOFunction` (any perfect minimal
  function; `read` rejects bytes that were never an index), page faults beyond
  the end of a file, `ArcSwap`/`Arc` (an object lives while referenced), page
  write-back, systemd, S3 and the load balancer. What `from_slice_with_conf` does on
  duplicate keys is modelled as the process not returning an index.
- Memory stores of one record's key or value and of one header word are atomic.
  A reader that meets half a key is one whose comparison fails, as with the old key.
- A handler's lookup is one step: a store is the mapping it holds, which
  `SnapshotSystem` justifies for snapshots not rebuilt in place.
- The systemd unit is not in the repository. It is taken to name the snapshot's path;
  an operator lets the units of the pool name the new version before the script runs,
  as the script itself does not.
- `aws s3 cp` replaces the file at once, so a server that has the old one mapped is not
  disturbed; what it leaves may be damaged, which is a fault.
- One deployment at a time, never to the live pool, and no cutover to a pool that a
  deployment is working on or has failed on: the scripts ask for none of this, an
  operator sees to it (`Deploy`, `Cutover`). `cutover.sh` does not look whether the pool
  serves, and neither does `Cutover`: the history variable `looked` records whether all of
  the pool's nodes did. Only `LiveServes` speaks of it: it is about cutovers at which they
  did, and false without that condition (finding 4).
- A build's directory entry is taken to be as durable as its file: `build` syncs the
  file and not the directory, so a power failure may take a new file's name away
  altogether. `BuiltIsDurable` does not cover that.
- Left out: logging, progress bars, latency values, the version string.

## Not modelled

- Bucket boundaries of the latency histogram and the text format of a scrape, printing
  of the tools, timing of `bench`, addresses and options of the command lines: no
  state of the system depends on them.
- `diff` of two different snapshots is defined (`diff_snapshots`) and checked only on a
  snapshot and itself.
- Two operators at once on one pool: nothing in the scripts coordinates them.
- Terraform beyond the listener's pool and the health check: declarative resources.

## Plan

Done, in this order: SnapshotFormat, Mphf, SnapshotFiles, SnapshotBuilder and its
proofs, SnapshotPowerLoss, KvStore, SnapshotSystem, KvServer; then SnapshotTools,
SnapshotReports, SnapshotCopy, Ingest, KvScrape, KvNode, Deployment, the proofs of
KvServer with its refinement, of SnapshotCopy, SnapshotPowerLoss and Deployment's
types; then the proofs of SnapshotSystem with its refinement, of the tools' reports,
KvScrape, Ingest and of what the live pool serves.

What would be next: an abstract specification of the deployment (a pool serves a
version, or another) with Deployment shown to implement it; a
builder's own abstract specification, of which `CheckedIsExact` is a consequence;
and what `diff` reports of two different snapshots.
