# Verification of the protocol enforcer

TLA+ models of the protocol enforcer (`src/crates/*`), model-checked with TLC
and proved about with TLAPS. The enforcer drives an AI agent through a *profile*:
a pipeline of macro-states, each a list of sub-states that ends in a checklist.
The agent sees one step at a time; every decision is recorded in an append-only
ledger, and a session that is not in memory is rebuilt from that ledger. All of
its value lies in what it does *not* allow (a skipped step, a gate passed
without the human, an endless loop) and in the ledger telling the same story as
the running engine. These are what the models are about.

## The system

| Component | State | Operations | Interacts with |
|---|---|---|---|
| engine, `fsm/src/{profile_engine,transitions,approval,loop_back,injection}.rs` | map session id -> `SessionState` (status, position, rejection counters, parked challenge, tracked artifacts) | `start_session`, `submit_milestone`, `store_artifact` | appends to the ledger, writes the output file, stores and verifies artifacts |
| recovery, `fsm/src/recovery.rs` | none | fold of a ledger into a `SessionState` | reads ledger and profile |
| ledger, `ledger/src/ledger.rs` | one JSONL file per session | `append`, `replay`, `lines` | file system, other processes through an advisory lock |
| Merkle root, `ledger/src/{merkle,root}.rs` | none | root, inclusion proof, verification | reads the ledger's bytes |
| metrics, `ledger/src/metrics.rs` | none | counters of a session, aggregates | reads ledgers |
| gateway, `gateway/src/{server,recovery,paths}.rs` | registry id -> engine behind a lock; ledger claim and sidecar file per session | `protocol_start`, `protocol_submit_milestone`, `protocol_get_state`, `protocol_store_artifact` | concurrent callers, other gateway processes, crashes |
| validator, `manifest/src/{profile_validator,hook_validator}.rs` | none | `validate_profile`, `validate_hooks` | engine and editor rely on it |
| editor, `manifest/src/editor/*` | profile files | some forty verbs: load, mutate, validate, compare, replace; create, clone, rename, delete | other editors, the manager, people |
| manager, `manifest/src/profile_manager.rs` | the same files | add, remove and move a macro, save, clone, create, delete | the editor |
| library, `library/src/lib.rs` | prompt files | does an id resolve; serve its text | validator and engine |
| artifact store, `artifacts/src/store.rs` | blob files | store, verify | engine |
| notary, contract, wire format | none that matters here | signatures, JSON schema, texts | |

Hard behaviour:

* **Crashes between appends.** A handler makes up to three appends; the process
  may die between any two, and the ledger that remains is what the next process
  starts from.
* **Failing appends.** `append` returns `Err` with nothing written, with part of
  a line written, or with all of it written and `fdatasync` failing.
* **Memory and ledger out of step.** Some handlers change memory first, some
  append first.
* **Stale challenges.** A gate's signature must be good until the session moves
  on and worthless afterwards, over loop-backs, restarts and failures.
* **Bounds.** Four breakers bound an agent that never satisfies a checklist;
  they rest on counters that must survive loop-backs and restarts.
* **Concurrency.** Inside one process an engine is behind a mutex; between
  processes only the ledger file is shared. Nothing at all locks the profiles
  directory.
* **Legal edits, one by one.** Profiles are edited by verbs that see one macro
  or one sub-state; what the engine needs is a property of the whole pipeline.

What makes each component correct: the engine takes steps in the profile's order
and passes a gate only on a fresh signature; the fold reproduces the live state;
a transcript justifies every move by the event before it; a terminal event is the
last; a session ends whatever the client submits; the registry has one engine
per session and one `SessionStarted` per ledger; an acknowledged event is never
lost; an accepted profile has the shape the engine indexes into; a lost edit is
explained by the one window the editor leaves open; a root proves exactly the
events it was taken over.

## Modules

| Module | What it is |
|---|---|
| `Shape` | a pipeline as everything that steps over one sees it, and what the validator guarantees of it (`Runnable`) |
| `Profile` | the pipeline of a session as a constant, and the navigation helpers: first enabled, next enabled, loop target, missing criteria |
| `Engine` | one session of the engine, its ledger and its recovery; the core of the project |
| `ForcedOrder` | what the enforcer promises, in six actions: steps in order, one way back, consent at gates |
| `EngineOrder` | the refinement mapping from `Engine` to `ForcedOrder` |
| `Transcript` | what an auditor can establish from the ledger alone |
| `Merkle` | the transcript root: tree hash, inclusion path, verification |
| `Audit` | root and metrics taken of the transcripts `Engine` writes |
| `Gateway` | the processes that serve one session: registry, claim of the ledger file, sidecar, recovery on a cache miss, concurrent callers, crashes |
| `Ledger` | the ledger file piece by piece: threads and processes that append under two locks, cut lines, `replay` |
| `Documents` | a profile as a file holds it: everything that is edited and everything a validator looks at |
| `Validator` | `validate_profile` and `validate_hooks`, one conjunct per rule |
| `Verbs` | what each verb of the editor and the manager makes of a document |
| `Editor` | the profiles directory and the processes that write it |
| `MCEngine`, `MCEngineOrder`, `MCTranscript`, `MCGateway`, `MCLedger`, `MCEditor` | small instances for TLC |
| `EngineProofs`, `GuardProofs`, `OrderProofs`, `AuditProofs`, `MerkleProofs`, `GatewayProofs`, `LedgerProofs`, `EditorProofs` | theorems |

The three state machines fit together by what each takes of the next one down.
`Gateway` takes a submission as one step of an engine; `Engine` opens that step
up and takes the gateway as the start, the death and the recovery of one
session; both take an append as a step that succeeds or fails; `Ledger` opens
that up. The fourth, `Editor`, is upstream of all: `Engine` takes its profile as
a constant of which it assumes `Runnable`, and that `Editor` leaves no other
profile behind is checked and proved (`EveryFileRuns`).

### How `Engine` corresponds to the code

The engine runs under the gateway's mutex, so two handlers of one process never
interleave; what interleaves with a handler is failure. A handler is therefore
cut at its appends: one action reaches from one append to the next, and `pc`
names the append the handler goes on to. `submit_milestone` on a gate, for
example, is `AcceptApproval` (append `ApprovalAccepted`), `AdvanceApproved`
(append `SubStateAdvanced`, reposition) and, when the next sub-state is a gate
too, `EnterGate` (append `ApprovalChallengeIssued`, park it). `Crash` may come
between any two of them. `Attempt(e, before, after, next)` is one append: on
success memory becomes `after`, on failure it stays `before` and the handler
returns. `RejectChecklist` is the one handler whose `before` is not the old
session: it counts first and appends second.

`session` is the entry of the engine's map and `durable` the state that
`recover_profile_session` would compute from the ledger. Every append folds its
event into `durable` (`Apply`, arm by arm the `match` of recovery.rs), so that
recovery is `session' = durable` and histories of any length stay in a finite
state space. `ledger` keeps the transcript itself where a property is about it.

| Variable | Code |
|---|---|
| `session`, `durable` | `SessionState`, live and replayed |
| `ledger` | the events of the session's file |
| `pc`, `inflight` | position in the running handler; the artifact or output it holds |
| `published` | the start returned: the engine is registered and the sidecar written |
| `minted`, `arrival` | challenges drawn so far, and how many at the session's last move (history, for `SignatureFresh`) |
| `signed` | challenges the human has signed; a signature is the challenge it is over, and cannot be forged |
| `expired` | the wall-clock budget is used up |
| `blobs`, `tampered` | artifact files written, and those changed since |
| `deliverable`, `committed` | content of the output file, and the one whose digest `SessionCompleted` records |
| `faults` | failures so far by kind |

Abstractions: macros and sub-states are indices (ids are unique in their list);
evidence is a map from a few keys to absent, blank or present (`is_present`);
an output satisfies the contract or does not; rendered texts, timestamps and
reasons are left out. A render that fails because a library entry vanished makes
a handler return at the same points where a lost append does, and is covered by
`lost`.

Failure kinds: `crash`; `lost`, an append that returns `Err` and leaves nothing;
`unsynced`, an append that returns `Err` although the line is there. A line that
is left unfinished is the business of `Ledger`: once there is one, replay no
longer returns what was appended, and no property of `Engine` is claimed.

### How `Gateway` corresponds to the code

A session is its path, positions `1..LastStep`, and its ledger the sequence of
positions left (0 for `SessionStarted`). What interleaves here is calls:
`protocol_start` and `get_or_recover` let go of the registry's lock between
looking and inserting, and one action reaches from one of these points to the
next. `file` is the ledger file (`None` when there is none, empty when claimed),
`registry[p]` the entry of process p's map, `engine[c]` the engine that call c
built, `handle[c]` the engine it got hold of. An engine is named after the call
that built it, so two engines for one session are two names.

`protocol_start` is `Start` (validate, look), `Claim` (`create_new`), `Load` or
`LoadFails` (everything in `spawn_blocking`), `Register`, `Note` (sidecar) and
`Clean` on failure; that the claimed file cannot be removed (`Discard`) is an error
the code ignores, and a failure of its own here. `protocol_submit_milestone` is
`Submit` (look), `Recover` or `RecoverFails` (off the lock), `Install` (`entry().or_insert`), then `Execute` or
`Answer`; `protocol_get_state` and the other calls are a `Submit` with target 0.

An append fails here without a trace. One that fails after it was written puts
the ledger one position ahead of the engine, and the repeated submission would
leave the position twice; what such a failure does and does not break is asked
of `Engine` (`unsynced`).

`Routed` is an assumption about the callers, not about the code: a caller turns
to a second process only when the first one has lost the engine. Without it
(`Roaming`) the properties do not hold, see Findings. Starts are not subject to
it: two processes may be asked to start one id at the same time.

### How `Ledger` corresponds to the code

A line is two pieces and a newline, so that it can be cut before, inside and
right after the JSON. The place between the pieces of an event in `Wide` is inside
a character of several bytes, of the others it is between characters: serde_json
writes text as it is. `append` is `Call`, `LockMutex`, `LockFile`, `Write`
(repeated, any number of pieces at a time), `Sync` and `Return`; `WriteFails`
and `SyncFails` are its two error exits. `replay` has two ways to fail: `Decodes`
says that the file is text, without which it fails with `Io` before it looks at any
line (ledger.rs:94), and `Corrupt` that a line which is not the last does not parse;
`Replays` is neither. Only then does it return events: `Events` and `Parsed` are
those of the lines that parse, the latter in the order of the file (`Nth` says where
the n-th of them starts). A reader takes no lock, so all of this is evaluated in
every state. `Die` ends all
threads of a process where they stand; `PowerLoss` ends everything and keeps a
prefix of the file that contains what was synced (an assumption about the file
system). Serialisation and a poisoned mutex are left out: an event always
serialises, and nothing under the mutex panics.

### How `Editor` corresponds to the code

`disk[n]` is what the file of name n holds: `None` when there is none, `Torn`
when it does not parse, else a document. A call is a job of a process, cut at
its system calls; `phase` is what it has done so far. `edit` is `Load` (read,
parse, refuse a protected profile, mutate, validate), `Compare` (read again,
`Conflict` on a difference) and `Replace` (`atomic_write`); `create` and `clone`
are `Create` or `Clone`, `CheckTarget`, `Place`; `rename` is `LoadRename`,
`Compare`, `PlaceRenamed`, `RemoveFile`; `delete` is `LoadDelete`, `RemoveFile`.
Between two phases any other process may act, and `Abandon` is the death of the
process or an I/O error. The manager validates nothing, compares nothing and
writes in place: `ManagerLoad`, `CheckTarget`, `Truncate` (the file is `Torn`),
`FillSome` (what has been written so far parses as a shorter document,
`Beginnings`) and `Fill`; a job that is abandoned on the way leaves what is there,
and two that fill one file may leave one's beginning or a mixture that does not
parse. `Protect` is a person with a text editor, for no verb sets the flag.

`raced` is history: the files among a job's two that another process wrote
since the job last looked at them. The properties say what is true *unless* a
file was raced, and so make the windows of the code explicit instead of assuming
them away. `origin` is history too: who wrote a file last.

`Verbs` has the effect of every verb on the document, `Drafts` those that
`validate_profile` lets pass and `HookDrafts` those that also pass
`validate_hooks`. `Documents` keeps of a document what the rules can tell apart:
ids and texts are members of small sets, a library is the set of ids that
resolve, a contract is absent, usable or not.

Faithful, and worth knowing:

* `add_sub` with kind human approval can never succeed (the scaffold has no
  approver key and no verb sets one before validation), and with kind checklist
  never either (a macro has one, at the end).
* Verbs that are not hook verbs do not run `validate_hooks`: `set_criteria` can
  leave a hooked checklist with a criterion no hook attests, which the next hook
  verb then refuses. Two hooks that both went stale cannot be detached one at a
  time. `CriteriaAttested` is therefore stated of files a hook verb wrote last.
* `delete`, `create` and `clone` do not compare; only `edit` and `rename` do.
* A file the manager left torn is repaired by no verb but a rename with force
  onto it; one it left cut short, where it still parses, is a profile like any other.
  `Beginnings` has the cuts behind whole sub-states, behind the required fields of
  one, and behind a macro's fields; a cut among a macro's own fields, and a mixture
  that parses as a third document, are left out. A temporary file left by a death is
  ignored and never removed.
* The manager saves under the name *inside* the profile, not the one it loaded.
* The manager's warning says of some profiles that the start of a session will
  reject them (a looping last macro that is disabled) which the validator
  accepts, profile_manager.rs:268-273.

### How `Merkle` and `Audit` correspond to the code

A hash is the term it was taken of, so that equal hashes are equal inputs; leaf
and node hashes differ by their tag as they do by their prefix byte. The
recursions of merkle.rs are over slices, here recursive functions over the length
of a slice whose values are functions of where it begins.
`Audit` evaluates root, paths and metrics on the transcripts of `Engine`,
after every event, when the process is gone (`Read`): an auditor has only the
file. Step metrics attribute an event to the step its `step_id` names; dwell
times need a clock and are left out. (`compute_session_metrics` splits
a `step_id` at its first `/`, so a macro id with a `/` in it is misattributed;
ids are indices in the model, and the validator does not forbid such ids.)

## Runs

Bounds of the `Engine` runs: at most two failures per behaviour (`MaxFaults`), in
any combination of the kinds the run allows, so that a crash can follow a lost
append and recovery itself can be interrupted; two evidence keys, so that
rejections can differ in the keys they carry; limits of two or three, so that
each breaker has a state below, at and, after a failure, above its limit. The
pipelines are in `MCEngine`: `GatedPipeline` has a looping macro with disabled
sub-states on either side of an execute, a gate and a checklist, and a final
macro that opens with a disabled sub-state and a gate; `GateFirstPipeline` opens
with a gate, so that the challenge is part of the start, and ends in a macro
that is a checklist alone. Deadlock is not checked: a completed or failed
session stops.

`gateway` has two processes with three calls in progress, two of them at one
process, which is what two starts, two recoveries or a start and a recovery need
to meet; two positions, so that a stale copy is a different copy; and two
failures. Deadlock is checked there. `ledger` has two processes, one with two
threads, three events, the second of which has a wide character in the middle, and
two failures: a fragment, a second one, and an event to lose behind each. Writers
stop after the third event. `ledger_cut` has no wide character, so that what makes
the file unreadable there is the line in the middle, and `ledger_tail` nothing but
one wide event and one failure.

`transcript` keeps the ledger, so its histories are bounded by the limits of the
profile (`LoopedGatePipeline`: a gate that takes one refusal, a looping checklist
with two rejections and a final macro that fails at the first), by two failures and
by one output that violates the contract (`MaxUncapped`: the code does not bound
them); its longest trees have more than eight leaves, which takes every shape of
split. `engine_fsync` is the run on a profile without an output contract.

`editor` has two processes and two calls or hand edits, which is what a lost update
and a race on a rename take. Edits that build on each other come from the start: it
is any of 20 directories, whose profile to edit is as it was made or has one edit
behind it that another may build on, so that two more make sequences of three. There are three names (one
file to edit, one protected, one free) and one that leads out of the directory;
two macros with a loop, a hook and a checklist. The processes are interchangeable
(symmetry). A third concurrent call meets nothing the second does not: a job
looks at two files and is disturbed by any write of them, and the proofs hold
for any number. Deadlock is not checked: calls are used up.

| Run | Properties | What it shows |
|---|---|---|
| `engine_faults` | `LiveIsReplayed`, `LiveStandsWhereReplayed`, `RejectionsBounded`, `BreakersTripped`, `DeliverableCommitted`, `TerminalIsFinal`, `ImplementsForcedOrder` | crashes and lost appends: a restart resumes what the live engine held, or the place where it stood; work per macro is bounded by the limit plus one per failure, and exactly by the limit when nothing fails; the digest is the deliverable's; nothing follows the end; no step is skipped and no gate passed without consent |
| `engine_fsync` | `TypeOK`, `SignatureFresh`, `SignatureHonoured`, `GateAnswerable` | all three kinds of failure, no cap on refusals (bounded to two by `MaxUncapped`) and no output contract: no gate is passed on a signature from an earlier visit; and as long as nothing has failed, gates can be answered and signatures last |
| `engine_liveness` | `Terminates`, `ImplementsForcedOrder` | crashes and lost appends, on the profile that opens with a gate: every session ends, and in order |
| `transcript` | `ApprovalsReverify`, `MovesJustified`, `RejectionsNumbered`, `TerminalIsLast`, `ArtifactsVerified`, `InclusionProven`, `MetricsFollow`, `RejectionsCounted` | every transcript: an accepted approval names the last challenge issued and was signed; each move follows on its reason; rejections are numbered upwards; the final milestone is accepted only with all recorded artifacts intact; each event is proved against the root at its own place and at no neighbouring one; the metrics agree with recovery on how the session ended, on what it has passed and on the friction the breakers count |
| `gateway` | `TypeOK`, `Linear`, `NoStaleCopy`, `SingleEngine`, `AckedStays`, `StartRepeatable` | concurrent starts, submissions and recoveries, failures at every step: one start and one story per ledger, a registered engine that is up to date, one engine for all calls of a process, no acknowledged event gone with a failed start's file, and a failed start that can be repeated, if its file could be removed |
| `ledger` | `TypeOK`, `AckedReplayed`, `LossBounded`, `ReadOnce`, `ReplayGrows`, `AppendReturns` | until some line is left unfinished, whatever else fails and even if power is lost, a reader without a lock gets every acknowledged event, except at an instant at which a character is half written, when it gets an error; whatever was left unfinished, a replay that succeeds misses at most one acknowledged event, and reads none twice; every append returns |
| `editor` | `TypeOK`, `EveryFileRuns`, `CriteriaAttested`, `LossesExplained`, `NoClobber`, `RenameKeeps`, `ProtectionRaces` | two processes calling any verbs, a manager, a person: whatever the editor wrote last the engine can step through; hooked checklists are attested; an update is lost, or a protected profile overwritten, only in the windows between two system calls (and by a rename onto it); a rename cut anywhere leaves the profile under one of its names |
| `gate_challenged` | `GateChallenged` (violated) | see Findings |
| `signature_survives` | `SignatureSurvives` (violated) | see Findings |
| `gateway_roaming` | `Linear` (violated) | see Findings |
| `ledger_cut` | `CutsTolerated` (violated) | see Findings |
| `ledger_tail` | `TailTolerated` (violated) | see Findings |

**Fairness** (`FairSpec`). A handler that has begun goes on unless the process
dies (`WF` of `Continuation`): nothing in the code waits. A client that has a
session keeps calling, which recovers a session that is not in the map (`WF` of
`Recover`) and submits *something* for the current position (`WF` of
`Submission`); it need not be anything useful, it may alternate evidence keys or
send garbage signatures for ever. Only the output contract needs help: the code
does not bound outputs that violate it, so the client is assumed to submit an
acceptable one if it gets the chance again and again (`SF` of `WriteOutput`).
In `Ledger`, a thread that can go on does (`WF` of `Continue`): the number of
appends is bounded, so that no thread is overtaken for ever at a lock.

## Findings

1. `gate_challenged`: the move to a gate and the gate's challenge are two
   appends. After a crash between them the recovered session stands at a gate
   with no challenge, `check` refuses every signature and the session can only
   be ended by its breaker. The comment at profile_engine.rs:415-417 says this
   cannot happen.
2. `signature_survives`: recovery drops the challenge at `ApprovalAccepted`.
   After a crash before the `SubStateAdvanced` that follows, the session is
   back at the gate without a challenge, and the signature that was already
   accepted is refused. approval.rs:14-16 says a restart cannot do that.
3. `gateway_roaming`: an engine in a registry is never compared with the ledger
   again. When two processes hold one session (both have recovered it, or one
   has recovered what the other started), each accepts a submission for the same
   position and the ledger has the move twice. ledger.rs:34-37 and 50-54 call
   several processes on one directory supported.
4. `ledger_cut`: `append` does not look at how the file ends. Behind the fragment
   left by a crash the next event is written on the same line and is lost to
   replay although its append returned `Ok`; with one more event behind it the
   line is no longer the last, replay fails with `Corrupt`, and the session
   cannot be recovered at all. ledger.rs:84-86 takes such a line for real
   corruption, and ledger_tests.rs:159-160 asks that a crash in the middle of a
   write must not lose the session.
5. `ledger_tail`: a last line that is cut inside a character of several bytes is not
   dropped. `replay` collects the lines as text first (ledger.rs:94) and fails with
   `Io` on bytes that are not; one write that stops there, and every event of the
   session is out of reach. ledger.rs:81-83 says that a partial last line is tolerated
   and the valid prefix returned; only the comment on `lines()`, 138-140, says that
   replay fails on such bytes.

A consequence the models show and no comment denies: a process that dies between
the claim of the ledger file and the sidecar leaves a file that makes its session
id unusable, and so does a failed start whose `remove_file` fails, which nothing
reports (`StartRepeatable` is stated for behaviours without either).

Smaller disagreements between comments and code, met on the way: a rename with
force writes over a protected profile (lifecycle_ops.rs:92 looks at the target only
without force, and only whether it is there), where editor/mod.rs:42-43 and 187-188
say that a protected one cannot be overwritten and `create` and `clone` refuse it;
`ProtectionRaces` is what holds with this case excepted; a failed
session keeps its position (common.rs:41-42 says `None`); a valid signature does
not reset the count of refusals, only the next challenge does (common.rs:49-52 and
profile.rs:49-50 say it does), so that a crash between the move to a second gate and
its challenge recovers a session that counts the first gate's refusals there:
`RejectionsCounted` therefore speaks of a gate that has its challenge;
`ApprovalRejected` is not counter-neutral (events.rs:123-126, recovery.rs:197).

## Proofs

A theorem here holds for every pipeline the validator lets through, for every
limit, and for any number of calls, processes, names and failures: TLC's bounds
are gone, the abstractions of the models are not. Eight modules:

**`EngineProofs`.** The navigation helpers first: the first enabled sub-state and
the loop target exist, and the next sub-state (`NextEnabledIsNext`) is enabled,
later, and skips nothing enabled. Then `Spec => []TypeOK`. `TypeOK` is not
inductive: that an append leaves a well-formed session needs the session the
handler holds to be there, and where it stands. `TypeInv` adds that an Active
session has a position (`Held`), that a handler in progress holds a live Active
session, that `advancing` is reached only in a macro that has a next one, and
that `inflight` is what the handler stored there. The replayed side is a lemma
about the fold (`ReplayHeld`): whatever event is appended, a well-formed state
folds into one. One lemma per handler cites one lemma about `Attempt`.

The second part is why recovery is right. `ReplayInv` says, between any two
appends of any handler: where each session may stand given `pc` (`PlaceInv`),
that the live and the replayed session stand at the same place (`StandsInv`), and
that they are the same record as long as no append has failed (`MatchInv`). The
challenge is the delicate part: recovery drops it at `ApprovalAccepted` and the
engine only with the move, so between these two appends the states agree but for
it. From it: `RecoveryExact` (`LiveIsReplayed`), `RecoveryStands`
(`LiveStandsWhereReplayed`) and `EndIsFinal` (`TerminalIsFinal`). `DeliveryInv`
adds what the artifact in progress and the file on disk have to do with each
other, and gives `Delivered` (`DeliverableCommitted`).

**`GuardProofs`.** `Spec => []SignatureFresh` first, the property that would be
hardest to trust to small instances: any pipeline, any number of visits, of gates
and of failures of all three kinds. `SignatureFresh` speaks of one moment;
`SignatureInv` says of the live *and* of the replayed session that a challenge
for the place where the session stands was minted since it came there, and that
every challenge is for a gate. It allows a challenge for some other gate, which
an append that failed after it was written can leave behind, and it covers the
replayed session because a recovery makes that one the live one. The step that
matters is the loop-back, which leaves the challenge in memory: it leads to a
sub-state that is executed, and no challenge is for that (`LoopBackCurrent`).

Then the breakers. `BoundInv` bounds the counters of both sessions by their
limits plus one per failure. The slack is real: a rejection is counted in memory
before it is appended, so a lost append leaves a count of which the ledger knows
nothing, and a crash between a rejection and the failure event that should follow
it leaves a session that stands at its limit and takes one more. `WorkBounded`
(`RejectionsBounded`) follows. `OrderInv` is what holds until something fails: a
session at a gate has the challenge for it, that challenge is the only one minted
since the session came, and no counter has reached its limit between two calls.
It gives `GatesAnswerable`, `SignaturesHonoured` and `BreakersTrip`.

**`OrderProofs`.** The refinement: `Spec => ImplementsForcedOrder`. The abstract
step number is a count of enabled sub-states, so the first half is about counting:
ranks within a macro grow by one from an enabled sub-state to the next
(`RankNext`) and are carried on over macros (`BeforeNext`), two positions never
have the same number (`StepUnique`), and hence the gates and loop targets of
`ForcedOrder` are those of the profile (`GateStep`, `StepBack`). The second half is
the steps. `PassageInv` adds to `ReplayInv` that every session, live or replayed,
stands at an enabled sub-state, holds a challenge at a gate only, that nothing is
signed that is not minted yet, and what a handler has established where it stands
(`Fits`: a handler past `ApprovalAccepted` holds a signed challenge, one that
advances or completes stands at a checklist). Under it what the abstract
specification sees can be read off the live session, or off the ledger when there
is none (`Seen`), and each action is one of four turns of that session (`Turn`),
each a step of `ForcedOrder` (`TurnSeen`); `Publish` is its `Begin`, `Sign` its
`Consent`, and a crash between acceptance and move its `Lapse`.

**`AuditProofs`.** What an auditor reads. The ledger is history, so an invariant
about it has to say of *every* event what was true when it was written.
`TranscriptInv` does: each event had its `Reason`, stated of the events before it
and of the session they replay to (`Grounded`), the last event is what the running
handler has just recorded (`Brought`), and the whole ledger replays to `durable`
(what the fold makes of one more event is `ReplayAppended`, by induction over a
number, not over the data). Each action is reduced to what it `Tells` the ledger,
nothing, everything forgotten, or one event with its reason, so that the invariant
is carried over an append once (`GroundedAppended`) and not once per action. It
gives `MovesAreJustified`, `TerminalsAreLast` and, with what a handler has verified
by the time it stands at `accepting`, `ArtifactsAreVerified`. `Account` keeps the
books of the metrics: which checklists have a passing event, and for each place how
many events of friction against which counter; from it `MetricsAgree` and
`RejectionsAgree`. These five need that no append is recorded although it failed
(`unsynced`): it leaves the ledger at a place the live session is not at, and the
next event has its reason in memory only.

`ApprovalsHold` and `RejectionsAreNumbered` need no such thing, and have an
invariant of their own (`SpokenInv`) that no fault can harm. It asks less of the
live session: its count of rejections is not behind the ledger's, and the challenge
it holds is the one that was issued last. The second is inductive because a handler
that goes on to a gate holds no challenge when it gets there, so that none is left
over if the one it mints reaches the ledger only. `InclusionIsProven` needs nothing
at all: it holds of any sequence of events.

**`MerkleProofs`.** Why a root is evidence. `RootBinds`: if any path at all, of any
length and whoever made it, proves a leaf at an index against the root of a
transcript, then that leaf stands at that index. `IssuedPathProves`: the path that
is issued does prove its leaf. Both are inductions over the length of a slice, for
every slice at once (`EverySliceBinds`, `EverySliceReached`): the hash of a slice
is a node exactly if the slice splits, and equal nodes have equal halves. What it
takes of the hash is that it is injective and that leaf and node hashes differ.

**`GatewayProofs`.** `SafeInv` relates the file, the registries and the engines
the calls hold: who may have claimed the file, that a call holds the engine its
process has registered, that what was acknowledged is in the file. From it
`GatewayTyped`, `OneEngine`, `AckedStaysForever` and `Repeatable`, with two
processes or a thousand and wherever callers turn. `Lines` adds, for callers that
turn elsewhere only when the first process lost the session (`~Roaming`), that
the file is `<<0, 1, ..., n>>` and that a registered engine no call is changing
has read it to the end: `LedgerLinear` and `RegisteredCurrent`. Run
`gateway_roaming` shows that the assumption is needed.

**`LedgerProofs`.** Until some line is left unfinished, the file is whole lines and what
its one writer has written of its own, and every event whose append returned or
will return `Ok` has its line below what is synced (`StableInv`). That there is
one writer takes both locks (`LockInv`): threads of one process share a
descriptor, which the advisory lock does not tell apart, and processes share no
mutex. The other half is about reading: in such a file every start of a line is
one of three pieces in a row, all of them parse but the last
(`LineAligned`, `AlignedSound`), what power leaves is cut at a newline or
counted in `cuts`, and the only character that can be cut is the writer's
(`LinesDecode`). Together `AckedStable` (`AckedReplayed`): what was
acknowledged is in the lines a reader finds, at any instant, and its replay
succeeds at any instant at which no character is half written.

What a reader gets *after* a line was left unfinished needs more. `UniqueInv`: the
pieces of one event are in the file once, in one place; so nothing is read twice
(`NothingReadTwice`), whatever is glued to what. `SyncedInv`: the whole line of an
acknowledged event is in the file, in one piece and synced, so that power takes none
of it. If it does not parse, something stands in front of it on its line, and a
replay succeeds only if that line is the last (`MissedLast`); there is one last
line, and so at most one such event (`LossStaysBounded`). And
`ReplaysAgree` (`ReplayGrows`), an action property: what is written keeps the starts
of the lines before it, the n-th line that parses stays the n-th (`NthFirst`,
`GoodStays`), and hence an earlier replay is a prefix of a later one.

**`EditorProofs`.** The windows of the editor, for any number of processes.
`Inv` says of each job, at each phase, what it may still rely on: `base` is what
the file holds unless the file is in `raced`, the target is vacant unless it is,
a renamed profile is under one of its names unless another process wrote there.
From it `LossesAreExplained`, `NothingClobbered`, `RenamesKeep`, and, step by step,
`ProtectedProfilesRaced`.

The rest of the module is the bridge to the engine. `ValidRuns`: a document that
`validate_profile` accepts is, without its disabled macros, `Runnable`: this is
what `Profile` assumes of its constant. The rules speak of one sub-state at a
time; the loop rule and the checklist rule have to be carried over to positions
in a shorter list. `EditedTyped`, `HookEditedTyped` and `ManagerEditedTyped`: a
verb makes a document of a document. `FilesInv` then says that every draft on its
way to the disk, and every file the editor wrote last, is valid:
`EditorFilesRun` (`EveryFileRuns`) and `HookedCriteriaAttested`
(`CriteriaAttested`). `EditorTyped` (`TypeOK`) needs `FilesInv` and the three
theorems about verbs too: that a call writes documents only, and under names that
stay in the directory, is not a matter of types but of what the verbs make of what
they found.

The assumptions are those the modules declare: `ProfileAssumption` (the profile
passed the validator; discharged by `ValidRuns`), `EngineAssumption`,
`GatewayAssumption`, `LedgerAssumption`, `DocumentsAssumption`,
`VerbsAssumption` and `EditorAssumption` (the types of the constants; the last
also that the names the editor refuses have no file at the start), and
`NoneAssumption` (`None` is no session). Ten theorems about the engine
(`RecoveryStands`, `EndIsFinal`, `Delivered`, `WorkBounded`,
`EngineImplementsForcedOrder`, `MovesAreJustified`, `TerminalsAreLast`,
`ArtifactsAreVerified`, `MetricsAgree`, `RejectionsAgree`) are stated for
`"unsynced" \notin Faults`: an append that returns `Err` although its line is there
puts the ledger ahead of memory, and the retried call is recorded twice. None of
the ten is true then: with `Faults <- AnyFault` TLC violates each on the small
profiles (`RejectionsBounded` on one whose second macro has the lower limit, where
the ledger has moved on and memory still counts in the first). Three (those of
`OrderInv`) speak of the time until something fails, and `RecoveryExact` of the time
until an append does, as their properties do; the findings `gate_challenged` and
`signature_survives` show why.

Only model-checked: the liveness properties `Terminates` and `AppendReturns`, which
are out of TLAPS's reach. Every invariant and every action property the passing
runs check is a theorem. What none of the theorems says is what a recursive
definition computes in closed form: `Replayed` is related to `durable` step by step
and the tree hash slice by slice, by induction over a number.

## Not modelled

* **Cryptography, JSON schema, YAML parsing.** A signature is the challenge it is
  over, a hash is its argument, an output conforms or does not, a file parses or is
  torn. The code under them is library code.
* **Texts**: instructions, rendered injections, error messages, the wire format
  and introspection of the gateway. No state depends on them. A prompt that fails
  to resolve while a session runs makes a handler return where a lost append
  does.
* **The MCP transport**, which hands each call to a handler and keeps no state.
* **Running hooks.** The repository validates and stores hook references; a driver
  outside it runs them.
* **Dwell times and aggregates over sessions** (metrics.rs): they need a clock and
  floating point. The counters of one session are modelled (`Audit`).
* **`MetricsObserver` and the deprecated list helpers of `types/src/profile.rs`**:
  nothing calls them.
* **Files of the artifact store.** A blob is there and as stored, or tampered
  with. Each store writes a file of its own, named by a new UUID, reads it back and
  compares the hash before anything refers to it, so a blob cut short is one that
  no event and no session knows. Directories and permissions are left out.
* **A profile edited while its session runs.** A recovery against another profile
  replays positions into a pipeline they were not recorded in. The code neither
  refuses that nor says what it means, so there is nothing to check it against; it
  is listed as a hazard.

What would come next: an engine whose profile may change under it, once the code
decides what that should do; and the split of the ledger into lines by bytes
instead of pieces.
