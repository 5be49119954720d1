# Aksantara: specifications and proofs

TLA+ models of the stateful core of Aksantara, a dictionary corpus service that
ingests catalog records through a durable checkpoint driver, publishes
projections and embedding releases from the result, and keeps everything in
files below a caller-owned root directory. The code is Python under
`src/src/aksantara`; paths below are relative to that package.

Nothing here runs a database or a message queue. The hard parts are the ones of
any program that keeps several files: writes that are atomic one by one and not
together, callers in threads and in other processes, crashes and injected
faults between two writes, read-modify-write without a lock, and retries that
find the half-done work of the call before.

## Inventory

| Component | State | Operations | Shares / calls | Hard behaviour |
|---|---|---|---|---|
| Checkpoint driver (`ingest/checkpoint.py`, `checkpoint_execution.py`, `checkpoint_storage.py`) | one directory per run: `request`, `preflight`, `lease`, `status`, `outcomes`, `attempts`, `checkpoint`, `report`; `idempotency.json`; two lock files; a class-level RLock | `run`, `resume`, `status`, `report` | preflight first, record processing per key; evaluation and replay read the run | crash between the five writes of a commit; a resume in a second process; heartbeat and barrier holds that read and write back; lease fencing |
| Preflight and catalog (`checkpoint_catalog.py`, `checkpoint_types.py`) | none: a function of its input | `preflight` | called by `run` and `resume`; its fingerprint names the run | the same work under other spellings and orders must be the same run |
| Record processing (`checkpoint_record.py`, `checkpoint_observation.py`, `checkpoint_authority.py`) | immutable raw, parsed, canonical and observation files | process one key: observe every binding, choose the winner, file reviews, commit the row | called by the driver; writes the review store; runs of one root share snapshots and reviews | a resume that processes the key again and finds what the cut call left; fixtures that change in between |
| Review store (`validate/review.py`) | conflicts, quarantines, decision histories | create or return, decide | record processing, API | create-or-return races; read-modify-write without a cross-process lock |
| Candidate evaluation (`checkpoint_candidate.py`) | release candidate and the evaluation announcing it | evaluate | reads seven files of a run, all its artifacts and reviews | unlocked reads beside a commit; two files put in place one after the other; some twenty copies of the same identities |
| Projection store (`projections/store.py`) | artifact, manifest, staging directories | generate, status, read, list, cleanup | API, command line | artifact replaced before its manifest; cleanup beside a writer |
| Release registry (`embeddings/registry.py`, `release.py`) | release manifests, vectors, `current.json`, `history.json`, lock file | seed, promote, rollback, verify | API, command line | two writes per transition; unlocked seeding; retry after a crash |
| Embedding builds (`embeddings/planner.py`, `work.py`, `batch_store.py`) | delta plans, candidate snapshots, vectors, build reports | plan, build | registry (seeding, not composed) | plan and build meet on disk without a lock; a chunk that fails half-way; create-only vectors found by a retry |
| Public replay, snapshots and run-state store, retrieval, parsers, agents, API, logging | see "Not modelled" | | | |

### What makes each correct

* **Driver**: one writer at a time; no file of a commit ahead of one written
  earlier; committed outcomes never change and are never reprocessed; a closed
  run stays closed and covers every selected key; a bound idempotency key finds
  a result; every call ends.
* **Preflight**: two requests have one fingerprint exactly if they ask for the
  same work, and no request of a run makes other bytes acceptable to it.
* **Record processing**: a committed row is explained by what is on disk, and a
  row that is blocked has its review in the queue.
* **Review store**: a filed review, its evidence and its decisions stay; no key
  decides twice.
* **Candidate evaluation**: a candidate is exactly the final rows of a completed
  run, reviewed where they need it, and states what the run wrote.
* **Release registry**: the pointer moves by compare-and-swap, one generation at
  a time; every transition appears once in the history; only verified and
  approved releases become current; a retry does not promote twice.
* **Projection store**: what a reader of a manifest finds is what the manifest
  describes.
* **Embedding builds**: an eligible build has all its vectors, for good, each
  with the hash of what it embeds; a cut build can be finished.

## Modules

| Module | Models |
|---|---|
| `CheckpointDriver` | `run()` and `resume()` of one checkpoint run, write by write |
| `CheckpointLedger` | what a run promises a reader: a growing ledger and a run state |
| `CheckpointProperties` | properties of the driver, its inductive invariant, the refinement mapping |
| `MCCheckpointDriver` | instances for TLC |
| `CheckpointProofs` | theorems and proofs about the driver: types, exclusion and the files of a run |
| `ReleaseRegistry` | seeding, promotion and rollback of embedding releases, file by file |
| `ReleaseRegister` | what the registry promises: a pointer moved by compare-and-swap |
| `ReleaseProperties` | properties of the registry, its inductive invariant, the refinement mapping |
| `MCReleaseRegistry` | instances for TLC |
| `ReleaseProofs` | theorems and proofs about the registry |
| `ProjectionStore` | publication, reading and cleanup of projections, file operation by file operation |
| `ProjectionProperties` | properties of the store and its inductive invariant |
| `MCProjectionStore` | the instance for TLC |
| `ProjectionProofs` | theorems and proofs about the store |
| `SourceObservation` | one observation of a binding: the bounded retry loop, and what the bytes come to |
| `RecordProcessing` | what runs over one root do with each key, write by write (extends `SourceObservation`) |
| `ReviewPipeline` | record processing composed with reviewers and candidate evaluations |
| `PipelineProperties` | properties of the three |
| `MCReviewPipeline` | catalogs and bounds for TLC |
| `PipelineProofs` | theorems and proofs about the three |
| `RunDocuments` | what commits, split commits, interrupts, cuts and resumes leave in a run's five documents |
| `CandidateJoins` | every copy of a row's identities, and the comparisons before an item is published (extends `RunDocuments`) |
| `MCCandidateJoins` | their properties and instance |
| `DocumentProofs` | theorems and proofs about the two |
| `EmbeddingBuilds` | delta plans and incremental builds, file by file |
| `EmbeddingProperties` | their properties and inductive invariant |
| `MCEmbeddingBuilds` | instances for TLC |
| `EmbeddingProofs` | theorems and proofs about the builds |
| `CatalogPreflight` | the checks, the plan and the fingerprints of a request |
| `CatalogProperties` | their properties |
| `MCCatalogPreflight` | some ninety catalogs for TLC |
| `CatalogProofs` | theorems and proofs about the preflight |
| `StableSort` | Python's stable sort, which both of these use |
| `StableSortProofs` | what sorting does, for any sequence and any strict order |

How they fit: `CatalogPreflight` says which catalogs become runs and what names
a run. `CheckpointDriver` is how a run is executed, without its content: a row
is terminal or retryable. `RecordProcessing` is that content, for several runs
that share stores, and takes from the driver that a run has one executor at a
time; `ReviewPipeline` composes it with the two other kinds of caller that read
and write the same files. `CandidateJoins` takes apart one word of the
evaluation (`Joined`), over `RunDocuments`, which has the content of the files
`CheckpointDriver` writes and takes from it that a run has one executor. The release registry, the projection store and the
embedding builds share no files with these: a release is seeded from entries,
not from a run directory. The driver and the registry compose a detailed module
with its abstract one through `INSTANCE ... WITH` in their properties module.

### CheckpointDriver

A **thread** makes calls; it lives in a **process** (`ProcessOf`). Each durable
file is a variable and each replacement of a file (`_write_state_json`:
temporary file, then rename) one step. The variables `lease`, `status`,
`outcomes`, `attempts`, `checkpoint` and `report` are the files of the same
name; `made` is how far `_create_run` got with the directory and its immutable
request files; `bound` is the set of keys `idempotency.json` binds to this run.
`flock["run"]` and `flock["resume"]` are the two lock files (`checkpoint.py` 808
and 981 really are different files), `rlock` the class-level lock.

Per thread, `pc` is the control point, `call` the arguments, `gen` the lease
generation held in memory, `rows` and `att` the outcome and attempt lists, and
`seenLease`, `seenStatus`, `seenReport` a document read and to be written back.
Every read-modify-write of the code is a read step and a write step.

What is abstracted: an outcome is `terminal` or `retryable`, which is all the
driver looks at; an attempt row is the number of its key; the revision is not
kept because every commit writes revision 1 + number of outcomes; documents keep
only the fields some decision or property reads. `interrupt_after` is 0 for
`None`. `overtaken` is a history variable: a resume was admitted while a run()
was executing.

Failures: `Abort` is an exception at any point of a call (an injected fault
before or after a write, a full disk): the call unwinds, locks are released,
files stay. `CreateRequestFails` and `HoldFails` are the two places where the
code does more than unwind. `Crash(p)` kills a process and all its threads.
Writes whose failure the code swallows (heartbeat, barrier status, interrupted
report, drift) may or may not take effect.

### ReleaseRegistry

A **worker** is a caller in any thread or process: the registry's lock is an
advisory file lock taken through a descriptor of its own, so it excludes threads
and processes alike. `manifest`, `vectors`, `history` and `current` are the
files; `lock` is the holder of `.registry.lock`. Per worker, `job` is the call
with its arguments and `cur`, `hist`, `seen` are the pointer, the history and
the manifest as it read them. `tickets` remembers what an operation id was first
used for, so that `Retry` repeats exactly that call.

`promote_release` and `rollback_release` differ only in when a call counts as a
repeat, in the recorded-release check and in the releases they write, so they
share their actions (`Serving` tells them apart). Their writes go through a
temporary file and a rename, one step each; `seed_release` writes in place and
without the lock, so each of its writes is two steps with a torn file between.
A vector's content is its hash; the manifest hash, which covers the creation
time, is the number of the seed call. `Verified` takes the vector files in one
step; a torn vector makes the code raise where the model refuses, with the same
effect on every file. Out of the model: the audit file of failed attempts, an
unavailable store, the lock fallback without `fcntl`.

A seed truncates `history.json` or `current.json` where it is, and fills the file
it opened; a transition's rename puts another file in its place. `unlinked` is the
seeds whose opened file a transition has replaced since: what they fill is gone,
and the transition's file stays. When two seeds have the same file open, the later
fill is what it holds.

`disturbed` is a history variable: a seed wrote a vector for a manifest
that is no longer its own, opened `history.json` with events in it, opened
`current.json` over an existing pointer, or filled a pointer that another seed had
filled. Nothing in the code prevents that, and the finding
`history_append_only` is one such execution; the safety properties are about the
executions, and the prefixes of executions, before it. `QuietSpec` keeps only
those, for the refinement.

### ProjectionStore

A **worker** is a caller in any thread or process. An identity is a (consumer,
track, release, versions) tuple; the versions are fixed per track, so every
identity has a staging directory of its own. `artifact` and `manifest` are the
published files, `tmpArtifact` and `tmpManifest` the files of
`.staging/<identity>`, `staged` the staging directories that exist and `dot`
whether `.staging` does; `lock` is the holder of the lock file of each identity.
An artifact is its hash; a manifest is the hash it states and its creation
time, which distinguishes two calls that produce the same bytes. `generate` may
be given any content for an identity: a release's entries, and with them the
artifact, can change under one release name.

Every file operation is a step: the two `mkdir`s behind `mkdir(parents=True)`,
the two staged writes, reading the staged bytes back, the two renames, the four
removals of the `finally` block, the final read. Readers and cleanup take no
lock and interleave with all of it. `Except` is an exception at any of these
points (an injected fault, a full disk) and unwinds as the code does: inside the
`try` block through the removal of staged files, elsewhere straight out. There is
one exception that does not unwind: `LookFails`. An exception while the published
manifest is read or compared (`store.py` 654-679) is passed over, and the call
goes on to publish as if nothing were there. `Crash` ends a worker; the operating
system releases its lock and the files stay.

Five history variables serve the properties: `answer` is what a worker's last
call returned, `ready` the workers whose call began after its identity was
published, `spoiled` those whose call a fault hit or another call took something
from (a staged file, the staging directory, `.staging` between the two `mkdir`s);
`blind` is the identities a look at which has failed, and `halved` those of them
where the publication that then went over them ended between its two renames.
The properties say what a failed look may do. Until one has failed, what is
published stays as it is. After one, what is published is overwritten; artifact
and manifest disagree between the two renames, and a reader that comes then may
answer that they do, but none returns bytes under a manifest that does not describe
them. If the publication ends between its renames, the two stay apart:
generating the content of the old manifest again answers "done" and repairs
nothing, other content is a conflict, and only another failed look lets a
publication make the identity whole.

Abstracted: refused selectors and unverified releases, which end a call before it
writes; tampering with published files, which the hash checks are for; a temporary
file torn by a crash, which is replaced or removed unread; `list` looks at one
identity at a time, because it judges each manifest on its own.

Three sentences of `docs/projection-publication.md` have no counterpart in the
code. Line 19 promises that another payload under a published identity is refused
"and never overwrites", and a comment (`store.py` 767) takes for granted that the
call "already returned" when a manifest exists: with a failed look neither is so.
Section 4 promises that an artifact whose manifest could not be committed
is removed; the branch that does so (`store.py` 756-777) runs for
`ProjectionError`, which nothing raises between the two renames, and a real
`OSError` there leaves the artifact in place. The same section puts the
`verification` fault after both renames; the code tests for it before them
(744). These two harm no reader: `AnswerIsPublished` holds with the artifact left
behind, status reports it as failed, and the next generation replaces it.

### SourceObservation, RecordProcessing, ReviewPipeline

`catalog` maps each stable key to its bindings; `file` is the state of every
fixture on disk, and `ChangeFixture` its owner changing it. Per run, `slot` says
which call executes it, `pc` where that call is, `seen` the results of the
bindings of the key at hand and `filed` how many of its reviews are filed.
`ledger` is the five revision documents, each with the revision it was written
at; `canonical`, `parsed`, `snapshots` and `observed` are the immutable stores,
`reviews` the review store. `refused` is a history variable: runs a call of which
ended in a review error.

A run has at most one executor, which is what `CheckpointDriver` establishes for
runs that are not overtaken. Across runs, the class-level lock allows one
executor per process; `run()` and `resume()` lock different files, so two
processes may have one of each at work (`TwoProcesses`).

`Observe` is one call of `observe_binding`: the retry loop is the function
`Requests` of the binding (statuses are success, transient, permanent; the
timeout flag replaces the first), and a page is what parsing it gives. The store
writes of a fetched page are steps of their own, and so are the two artifact
writes, each review, and the five writes of `_commit_revision`. A review's
identity is its kind, its key and the raw hashes; its evidence also holds the run
and the bindings, which is why another run's petition for the same identity can
be refused. `_write_immutable` is two steps, a look and a write.

A decision (`Load`, `Decide`) is a read of the record and a later write of the
whole of it; `block` does what `reject` does. An evaluation reads the report, the
checkpoint, the rows, the attempts, the status and the reviews in turn, without
a lock, judges, and stages and replaces its two files; `CommitFails` is its
handler, which removes both staged files and the candidate, whoever put it there.

The officials of a key come first by a stable sort (`StableSort`); the further keys
of that sort (the primary binding, URL, content hash) are the order in which a
catalog of the model gives the bindings.

Abstracted: names are not derived from keys (see the hazards for two keys that
share file names); the list of reviews is read in one step; a run with the fixed
limit and no shortfall is a member of `FixedRuns`; a jittered delay is 1 or 2.

### RunDocuments and CandidateJoins

`doc` is the five documents a commit replaces one after another (`After` is the
order), each with the counters, states and rows that an evaluation compares;
`job` is the executor with its rows and attempts in memory. A document that is
not there yet has the revision `Missing`. A commit split by the
checkpoint-before-cursor barrier writes the same five documents, but its report
is built without the attempts, so it states no logical attempt although the
ledger has them; nothing reads that number, and `WrittenIsEligible` says that it
may not matter. A resume takes its rows from `outcomes` and its attempts from
`attempts`.

`CandidateJoins` follows the first key of that run into a candidate. For each
document (the row, the annotated outcome, the attempt, the artifacts, the
snapshot, the review, the report) it lists the fields copied there, and the
evaluation is the list of comparisons made between copies. A copy is the run's
own value or damaged (a partial restore, a hand edit), and the worst is assumed:
two damaged copies of a field agree with each other, and a damaged hash is the
hash of what was damaged. Counters and revisions that are not damaged are compared
by value. Evaluations read all documents in one step here; `ReviewPipeline` has
the reads one by one.

### EmbeddingBuilds

`plan`, `snapshot`, `vectors`, `temporary` and `report` are the files of a
candidate release; `planner` is the call that plans, `builder` the calls that
build. Entries are written to the snapshot one by one and vectors one by one
within chunks of `ChunkSize`. An entry is its text, and so are its hashes and
the vector made of it: what a vector embeds and which hash is recorded with it
are separate fields, because they come from different files. `torn` is a history
variable: a plan was cut before its snapshot was complete. Directory scans are
one step.

All builders of a release stage an entry in one temporary file, `<id>.tmp`, without a
lock. Writing it is two steps, `OpenTemporary`, which empties it (`Torn`), and
`FillTemporary`; the rename, `PublishVector`, takes whatever is there under the
name. What a builder writes goes to the file it opened: `opened` says whether that
is still the temporary one, has been renamed to the stored one by another
builder, or has been replaced there as well. `raced` is a history variable: the
entries that two builders were staging at once.

The code says "Write atomically via tmp rename" (`batch_store.py` 320), which holds
for one builder. Of two, one may rename the file the other has just emptied, count
it and report the build eligible; the other then fills the stored file, or dies and
leaves it torn for good. Later builds pass over what they cannot parse when they
scan (161-167) and skip what exists when they write (304), so they report it
eligible as well. `EligibleIsStored` allows a torn vector in `raced` entries and
nowhere else.

A builder holds the set of its `records` and the set of those it has still `todo`;
the order in which `work.py` makes them (what is to be embedded before what is
reused, each in the order of the identifiers) is the relation `Before`, and the
record to write next its least element, `Current`. `chunk` is what the chunk at
hand has stored so far, and `committed` what the chunks before it have.

### CatalogPreflight

Preflight keeps no state, so its module is a set of operators and one action
that admits a request. An aliased field is the sequence of the values found
under its names in the order the code looks them up; a raw stable key is a word
in some spelling, with a flaw or without; texts are strings with an order of
their own (`Rank`). The checks are those of `checkpoint_catalog.py` one by one,
and the fingerprint is the document that is hashed. `CatalogForms` and the sets
before it say what a catalog is made of before it is checked: any value in any field,
several values under the aliases of a field, or none; `CatalogAssumption` asks no
more of a request than that form, and that the texts it is sorted by have a rank.

Observations and records are sorted by `StableSort`, which stands for Python's
`sorted()` and `list.sort()`. It is no recursion over the sequence: a position is
before another if its member comes before the other's, or was given earlier and does
not come after it, and its place is one more than the number of positions before it.
So a sort is something to reason about without induction.

Worth knowing, and visible in the model: an entry-level or inline binding and a
transport given as a string can never pass, for they carry no expected hash;
`max_retries` and its aliases are merged by precedence, although
`docs/checkpoint-driver.md` says aliases are never merged; sources of kind `rule`
are admitted on the official host; transports are outside both fingerprints, and
`SameRunSameBytes` shows what that may not change. Left out are the checks for control
characters in the catalog id and in a transport's path: the model admits more than the
code, and its properties hold of what it admits.

## Runs

Driver:

* `driver_two_processes` - two threads, each its own process; two keys; up to
  four calls, with `interrupt_after` absent, after the first or after the last key,
  and two failures; every interleaving. Stopping at the last key is the one way a
  closed run gets another status, which `ClosedStaysClosed` allows to the call that
  closed it. Properties hold as long as no resume is admitted beside a live run
  (`~overtaken`): when one is, the driver has no defence: it checks its fence
  once per commit (`checkpoint_execution.py` 464) and goes on to write the other
  files with the old generation, although `_check_fence` says it is called before
  every durable write. So `FewCallsOvertake` explores what the run and the resume
  then do to each other, and no further call: there only the types and
  `BoundKeyLoads` are still claimed, and both are proved for any number of calls.
* `driver_one_process` - both threads in one process, interrupts after the first
  key, three barrier settings, an unknown key bound elsewhere, two failures.
  `NeverOvertaken` shows the premise of the other run is met whenever all callers
  share a process (the API server); `ImplementsLedger` the refinement;
  `EveryCallEnds` the only liveness property.

Bounds: two keys tell first from last and give one "middle" between commits;
three calls are a run and two resumes, or a run, a resume and a replay, and four
have a replay after the second resume; two failures are enough for a failure during
the recovery of a failure. Lease
generations are bounded by the calls. The barriers left out of
`driver_one_process` share their branch with a modelled one.

Preflight:

* `catalogs` - a good catalog and some ninety that differ from it in one place
  (an alias, a second value, a type, a limit, an order, a spelling, a source),
  admitted in pairs. Both properties compare two admitted requests, so pairs are
  enough; a rule that looks at two places of one catalog has a catalog of its own.

Record processing, reviews and evaluation:

* `pipeline` - nine catalogs, each one way a key can go: officials that differ
  with evidence that agrees with one, two officials with the same content, a
  plain conflict, an exhausted, a waiting, a recovering, a permanently failing
  and a timing out transport, and two failing officials. Two runs of one catalog,
  with limits one and two, share their first key; each catalog has one cut and
  one fixture changed. Evaluations are checked on the plain conflict, with one
  run, a decision and two evaluations, because their interleaving with a run is
  the same for every catalog. One process, one reviewer, one evaluator at a time.
* `joins` - three keys, so that one is neither first nor last, whose rows are
  accepted, in conflict or retryable. Two troubles of any kind: a cut, an
  interrupt, the choice of split commits, or, once the run has completed, a
  damaged copy. The review is decided and taken back, and evaluations come at any
  time. With three damaged copies several identities can be forged consistently,
  which no comparison could notice; two already forge the one identifier the
  property excepts. Rejected and failed rows are treated by every comparison like
  quarantined ones.

Embeddings:

* `embeddings` - three prior releases and two candidates over three entries and
  chunks of two, so that a build has a full and a partial chunk. Either one call at
  a time with two revisions, two failures and three builds, or two builds of one
  candidate interleaved, step by step of each file, with one failure. A file that is
  replaced while a builder still has it open takes three builders staging one entry,
  which is beyond this run; the proofs are for any number of builders.

Registry:

* `registry` - two workers, two versions, two seeds (of one entry, or of two, so
  that a second seed of a version may add a vector), three promote or rollback
  calls under two operation ids, one failure at any point. Three calls are enough
  for v1 to v2 and back (ABA) with a stale retry after it: the first transition
  is cut before its event, so that only the generation tells the retry. States
  after a seed has written over what others wrote (`disturbed`) are not
  explored, for no property says anything about them.

Projection store:

* `projections` - three workers, two identities, two contents, three calls of any
  kind and two faults. Three workers are two writers and a reader or a cleanup;
  two identities share `.staging`; two contents are a repeat and a conflict; two
  faults leave two generations of debris, or are a failed look and a crash between
  the renames that follow. Workers, identities and contents are
  interchangeable, so the run uses symmetry; it checks no liveness. Cleanups
  visit any set of directories, because the code matches names by substring.

Bounds that are given per catalog or per prior release (`Bounds`) are there so that
a run spends its states where a case needs them; the guards use them and nothing
else does.

Fairness is weak fairness of each driver thread's next step, which the operating
system's scheduler provides; callers, failures and crashes owe nothing. The lock
steps need no strong fairness in the instances checked because calls are
bounded: a lock is not taken infinitely often. Deadlock is not checked where
calls run out; `joins` goes on for ever and is checked for it.

## What the code does otherwise

Four violation runs check a statement of the repository which the code does not
meet; each is explained, with the quoted line, in `PROJECT.json` under `findings`:

* `resume_converges` - a crash after the last `outcomes.json` and before
  `status.json` leaves a run that `resume` can never close;
* `attempt_rows` - a commit cut between `outcomes.json` and `attempts.json` loses
  its attempt row for good: the resumed run completes with fewer rows than keys,
  and no evaluation of it is ever eligible;
* `create_or_return` - a second run of a catalog that meets a key for which the
  first filed a conflict record is refused while it files its own, on every attempt,
  without any failure;
* `history_append_only` - a release is seeded and promoted, another one is seeded,
  and the history no longer has the promotion, one call after another.

Other disagreements met while modelling have no run of their own:

* Driver. "No partial run": a failure of `run()` after `request.json` leaves a
  directory that neither `run()` nor `resume()` accepts. "Same revision": a failure
  between the five writes of a commit leaves them at two. A
  heartbeat may put an old lease generation back. `interrupt_after` equal to the
  number of keys marks a completed run interrupted; cut between the two files it
  marks, the run is completed by its status and interrupted by its report, and no
  evaluation accepts it. "Each report conserves" (`selected_count ==
  unique_current_outcome_keys`): the reports of every commit but the last do not,
  and call the completion of a run that goes on `completed`. The report of a split
  commit counts no logical attempts and no source reads.
* Observation. A timeout at the end of an attempt sequence has status 0, which no
  later branch takes for a failure, so the fixture is read after all. The jittered
  delay is part of a quarantine's evidence, so a resume after a cut finds its own
  review with other evidence and is refused for ever. Two failing officials of one
  key share a quarantine identity, so a single run is refused by its own review of the
  first of them. The retry budget documented as "cumulative
  across restarts" starts anew with every call.
* Reviews. Two creators that race in `_persist_new` refuse each other or
  overwrite; `BlockedRowHasReview` is checked and proved for one process. Two concurrent
  deciders lose a decision; `ReviewsOnlyGrow` is checked and proved for one.
* Evaluation. Two evaluators of one process share their staging names, and the
  loser's handler removes the winner's candidate after it is announced.
* Registry. A promotion cut between its two writes is refused when it is retried.
* Projections. Three sentences of `docs/projection-publication.md`, see
  ProjectionStore: among them, a swallowed exception overwrites what is published.
* Embeddings. Two builds of one release may publish a torn vector as eligible, see
  EmbeddingBuilds. Builds that overlap a revision of the candidate mix its texts; a
  planner that dies leaves an old snapshot under a new plan (`torn`); a chunk that
  fails half-way stays half stored; an entry that falls back to embedding still
  records the release it was to be reused from; vectors of entries the candidate
  dropped stay; the command line seeds a missing release after a build.

## Proofs

`CheckpointProofs` proves, for any number of threads, processes, keys, calls and
failures, from `ConstantsAssumption` alone:

* `TypesHold`: `Spec => []TypeOK`;
* `OneExecutor`: `Spec => []SoleExecutor`;
* both from `ExclusionHolds`: `Spec => []ExclusionInv`.

`SoleExecutor` is not inductive: two threads might reach the executing points
one after the other if nothing said that a thread past its lock file owns it.
`ExclusionInv` adds, in layers, `CallInv` (a thread past `flock` owns its lock
file and is at a point of its own operation), `StartInv` (creating threads see
an unstarted run and executing ones a started run, so the two cannot coexist)
and `ApartInv` (without an overtaken executor a run and a resume are never both
executing). Each layer has a step lemma with one case per action, which uses the
earlier layers.

Its second part, the files of a run, proves every other safety property of the
driver's runs, and its refinement:

* `CommitsInOrder` (`CommitOrder`), `ClosedIsWhole` (`ClosedRunIsCovered`),
  `OneRowPerKey` (`OneAttemptRowPerKey`), `BoundKeysLoad` (`BoundKeyLoads`), and of
  steps `LedgerGrows` (`LedgerOnlyGrows`), `NothingRegresses` (`NoRegression`),
  `ClosedIsFinal` (`ClosedStaysClosed`), `NothingReprocessed`
  (`CommittedNotReprocessed`), all from `LedgerHolds`: `Spec => []DriverInv`;
* `OneProcessIsSafe`: `SingleProcess => (Spec => []NeverOvertaken)`;
* `DriverImplementsLedger`:
  `SingleProcess /\ N \notin InterruptPoints => (Spec => ImplementsLedger)`.

None of these is inductive, because what a commit writes comes from the memory
of a thread that loaded it, or built it up, many steps before. `DriverInv` adds to
`ExclusionInv`, in layers: `MemoryInv`, what a thread holds at each point
whoever else is at work (an interrupt comes with the key it was asked for, a run
that has committed a key finds a report), which is what `BoundKeyLoads` needs
even of overtaken runs; `CreatedInv`, a directory is created by a thread that
finds no status in it; and `LedgerInv`, as long as nobody is overtaken, which has
the properties of the files themselves (`FilesInv`), how far the files of the commit
at hand are behind the rows in memory (`RowsInvOf`), which cursors have
followed and which states the run may be in (`CursorsInvOf`), and that a
document read to be written back is still what is on disk (`SeenInvOf`). A barrier
hold can sit between any two of these points; `Place` looks through it. Every
action has a lemma that says what it does to its own thread; `OthersKept` says it
does nothing to the others, and `WriterExecutes` with `SoleExecutor` that no one
else was in a position to care.

The hypotheses are the code's. Two processes can overtake each other, and then
the ledger is not kept (see `driver_two_processes`). A run interrupted at the very
last key goes from closed to interrupted, which the abstract ledger does not allow.
`RLockInv` is the invariant of one process: whoever is past the class-level lock
holds it.

`ReleaseProofs` proves about the registry, for any number of workers, versions,
entries, operations, calls, seeds and failures, from `RegistryAssumption`:

* `HistoryAccounts`: `Spec => []HistoryExplainsPointer`;
* `AcknowledgedStays`: `Spec => []AcknowledgedIsRecorded`;
* `SwapsWhatWasCompared`: `Spec => CompareAndSwap`;
* these three from `RegistryInvHolds`: `Spec => []RegistryInv`;
* `OneEvent`: `Spec => []OneEventPerOperation`;
* `ApprovedVerifies`: `Spec => []ApprovedStaysVerified`;
* `TypesHold`: `QuietSpec => []TypeOK`;
* `RegisterIsImplemented`: `QuietSpec => ImplementsRegister`;
* these four from `ReleaseInvHolds`: `Spec => []ReleaseInv`.

That the events end at the pointer is not inductive: between the two writes of a
transition the pointer is ahead, and what is written to the history comes from
the worker's memory. `RegistryInv` is four layers. `Types` gives every variable
its type. `CallInv` ties control points to jobs, to the lock and to the outcome
of the comparison. `MemoryInv` says that what a worker read under the lock is
what the files still hold, unless a seed wrote over it. `AccountInv` is the
properties themselves, plus the fact that the pointer a worker is about to
record a move from is one the events end at. Each layer has a lemma with one
case per action and uses the layers before it.

`ReleaseInv` adds what retries and seeds call for. That an operation moves the
pointer once although it may be retried at any time is so because a retry expects
the generation its operation first expected (`TicketInv`), and the pointer has left
that generation for good once the operation moved it (`SpentInv`); an event's
generation is its operation's expectation and one, and the history's generations
increase, so no operation has two events. A release verified under the lock
could lose a vector to a seed, which takes none: but a seed files vectors only after
its manifest, and a manifest hash is of one seed call, so a hash that somebody
has read has no writer left (`Settled`), a vector file has one writer, and what
completes a manifest completes it for as long as the manifest stays
(`SeedInv`, `VerifiedInv`). `TypeOK` bounds the generation by the number of
operations, which is only true before a seed has written over the pointer: it and
the refinement are theorems of `QuietSpec`, the others of `Spec` with their own
premise `~disturbed`.

`ProjectionProofs` proves every property the run `projections` checks, for any
number of workers, identities, contents, calls and faults, from
`ProjectionAssumption`: `StoreTypes`, `ManifestDescribesArtifact`,
`NeverOverwritten`, `AnswersArePublished`, `ReadersFind`, `FailuresHaveCauses`,
all from `StoreInvHolds`: `Spec => []StoreInv`.

`VisibilityUnit` alone says nothing about a writer between its two renames.
`StoreInv` adds, in layers: `CallInv`, a worker past the lock holds the lock of
its identity; `PublishInv`, nothing is published while a writer is at work unless a
look at it has failed (`blind`), what
it staged is its own or gone (cleanup may have taken it), and before the second
rename the artifact is the one its manifest describes. Then published files of
identities that are not `blind` never change (`StaysStep`), and on that rest `AnswerInv` (the manifest a reader
compares with is the published one), `ReadyInv` (a reader that began after
publication cannot leave the way to `validated`) and `FaultInv` (a writer nobody
disturbed still has what it staged). Each layer has a step lemma with one case
per action.

`PipelineProofs` proves every property the run `pipeline` checks, for any number of
runs, keys, reviewers and evaluators, any catalog and any cuts, from
`ProcessingAssumption` and `PipelineAssumption`:

* `TypesAreKept` (`TypeOK`). What is stored comes from what an executor has in
  memory, so `TypeInv` adds that it has no more results than the key has bindings
  (`SeenTyped`), that the last one was fetched where it is being stored, and that
  an artifact is only written for a winner. That rests on what the sorting of the
  officials to the front leaves (`OfficialsAreBindings`: as many, and bindings) and
  on what a result can be (`ObservedIsTyped`); that no run commits more rows than it
  has keys comes from `PipeInv`.
* `PublishedIsWhole` (`CandidateCoversRun`). A candidate's rows were read while
  the run may still have been writing. `PipeInv` says that what an evaluation has
  read begins what is there now (`EvalInv`), that a run called completed has its
  last row (`LedgerInv`), and that what is staged or published is the rows of a
  completed run (`StagedInv`, `CandidateInv`).
* `RowsAreExplained` (`ArtifactsExplainRow`). `DiskInv` follows a key through a
  call: results that were accepted are in the stores but for the one at hand
  (`KeptInvOf`), the artifacts of the winner are written before its reviews
  (`ArtifactInvOf`), and committed rows stay explained because artifacts are
  never replaced by other bytes (`RowsInvOf`).
* `DecidedOncePerKey` (`OneDecisionPerKey`). A reviewer's copy may be stale, but
  what is written back is that copy and one event whose key it does not hold
  (`DecisionInv`).
* `BlockedRowsAreQueued` (`BlockedRowHasReview`), for one process
  (`~TwoProcesses`). `ReviewInv`: one run executes at a time (`Solo`), so nobody
  files between the look for a review and its write, identities stay unique, and
  what is filed of the key at hand is this run's (`FiledInvOf`).
* `DecisionsAreKept` (`ReviewsOnlyGrow`), for one process and one reviewer, whose
  copy is what is in the store (`Current`).
* `PublishedIsReviewed` (`CandidateIsReviewed`), under the same hypotheses.
  `ClearInv`: what an evaluation that read "completed" has seen of the reviews is
  all the run will ever file, and decisions only add to it (`SeenInv`), so what
  was cleared when judged is cleared when published.

The hypotheses are needed: with two processes the look and the write of a review
can be separated by another's write, and with two reviewers the later write drops
the decision of the other.

`DocumentProofs` proves, for any number of keys, cuts, interrupts, resumes and
split commits, from `DocumentsAssumption`:

* `WrittenRunsAreEligible` (`WrittenIsEligible`), from `DocumentsInvHolds`:
  `Spec => []DocumentsInv`.

That a completed run's documents agree is not inductive, for between the writes
of a commit they do not. `DocumentsInv` says which documents the commit at hand
has replaced (`Replaced`), and that the status does not say "completed" before
the last of them: so where it does, all five are of one commit
(`CompletedAgrees`). What remains is that every field the evaluation compares is
one that its writers write: one lemma per group of documents (`ContextIsWritten`,
`RowIsWritten`, `AttemptsAreWritten`, `ArtifactsAreWritten`), and one for the
counters (`CompletedCounts`).

* `TwoDamagesForgeNothing`:
  `Spec => [](Cardinality(damaged) <= 2 => PublishedAsWritten)`.

Each identity that is published stands in three documents at least that the
comparisons tie together: a fingerprint or a pin in the preflight and the five run
documents (`PreflightOwn`), a field of the row in the report's copy and in the
official observation or the physical attempt (`RowOwn`). So a forged one needs
three damaged copies. `PublishedInv` keeps what was published true afterwards, for
an evaluated run writes none of these documents again but for the mark of an
interrupt. The review's identifier stands in two places and is excepted.

`EmbeddingProofs` proves every property the run `embeddings` checks, for any number
of entries, texts, prior releases, builders, revisions and failures and any chunk
size, from `BuildsAssumption`:

* `RetriesFinish`: `Spec => []RetryFinishes`;
* `EligibleStaysStored`: `Separate => (Spec => []EligibleIsStored)`;
* `StrictLineage`: `Separate => (Spec => []LineageHolds)`;
* all from `BuildInvHolds`: `Spec => []BuildInv`.

A report says nothing of the builds at work, so `BuildInv` does, in layers. `TurnsInv`:
where calls take turns, a build works on the plan on disk. `PlanInv`: but for the
entries still to be written, the snapshot is of the texts the plan hashes, unless it
was cut (`torn`). `FixedInv`: as long as there is no revision, every text anywhere is
the candidate's. `WorkInv`: what a build has counted is on disk, and what it has not
counted it still has to write, in any order and over any chunks. `StagingInv`: an
entry that is not `raced` has one builder staging it, whose file is still the temporary
one when it fills it and holds its own whole vector when it renames it; and where calls
take turns nothing is raced. From these follow
`AgreeInv` (records and vectors carry the hash of their text) and `StoredInv` (what a
build counts is stored as it made it, because what is missing at its scan stays
missing until it writes it, or is written by a build of the same candidate, and then
is whole or raced). Each action has a lemma that says what it does, and each layer a
step lemma.

`Separate` says that revisions come only where plans and builds take turns, and it is
needed: a build that overlaps a revision stores one text under the hash of
another, and a second build may count the first one's vector as its own. Nothing in
the code keeps them apart.

`StableSortProofs` proves what the sorts of the models do, for any sequence and any
order. If no two positions tie (`StrictOrder`), every position has a place of its own:
places increase along the order (`Counting`), so the n of them are different and are
all of 1 to n (`Places`); the sorted sequence is a rearrangement, in order
(`Arranging`, and `SortingByKey` for a sort by a key no two members share). In an
increasing sequence, the member at place i has i - 1 members below it (`Ascending`).
So two increasing sequences of the same members are the same sequence (`OneAscent`):
what is sorted depends on what there is to sort, and not on the order it came in.

`CatalogProofs` proves both properties of the preflight, from `CatalogAssumption`, for
requests over any finite set of texts:

* `RunsAreNamedByTheirWork`: `Spec => []FingerprintNamesWork`;
* `ARunKeepsItsBytes`: `Spec => []SameRunSameBytes`;
* both from `OnlyPlansAreAdmitted`: `Spec => []Admissions`.

What was admitted is the plan of a request that passed the checks (`Admissions`); the
rest is about one or two such requests. The tuples observations are sorted by are
ordered by the first text in which they differ (`TuplesAreOrdered`), which there is,
for the checks leave in them only texts (`SourceIsRanked`), and no two observations of
an entry are of one reference (`EntryHolds`). So the observations of an entry and
the entries of a catalog have one order (`ObservationsAre`, `RecordsAre`), and that
order is part of nothing: an entry's fingerprint and its mode of comparison say what
the entry asks for, and are said by it (`AskedIsIdentified`), and two lists of entries
in the order of their keys ask for the same exactly if they do one by one
(`AskedInOrder`, by `OneAscent`). Together they make `FingerprintsAreWork`. The
selection is `FirstAreSelected`: a key's place is the number of keys before it, and
one. For the bytes, `ReadingsAre`: what a source may be accepted with is the hash in
its own identity, which the fingerprint has, at the place the fingerprint has it.

Out of the prover's reach and left to TLC: liveness, and so `EveryCallEnds`, the one
property of a passing run that no theorem states.

## Not modelled

* Public replay, retrieval and status reads: recomputation and ranking over files
  that other operations wrote; nothing changes.
* The replay cache (`save_raw`, `load_raw`) and the run-state store: nothing in
  `src/` calls them, and each is single writes without a protocol between them.
* HTTP adapters, vector and Firestore clients: what they do is decided by the
  services behind them.
* Parsers, domain types, agents, logging, HTTP routes, command lines: pure
  functions and wiring; a route is one call of a modelled operation.
* Within modelled components: malformed documents on disk (missing or ill-typed
  fields), tampering with published projections, the audit file of failed
  promotions, cost accounting of builds, the older in-memory review stores.
* Compositions left out: the API's delta-plan routes with the registry, and the
  seeding of a release by the command line after its build.
