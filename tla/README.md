# Verification of homn

TLA+ models of homn, the model-checking runs that examine them on small
instances, and theorems about them that TLAPS checks for every instance.
Paths below are relative to the repository.

## 1. The system

homn is two programs in one binary. The **ambient memory** side (`homnd`)
tails what Screenpipe captures, passes it through a gate that denies or
redacts, stores it in a brain (agidb) and extracts commitments and beliefs. The
**decision** side (`homn-daemon`, `homn-hook`) answers a coding agent's
permission requests from a rule file, asks the human when the rules say so, and
learns rules from the answers.

| Component | Code | State it keeps | Operations |
|---|---|---|---|
| Ingestion pipeline | `homnd/src/pipeline.rs`, `dedupe.rs`, `session.rs` | dedupe window, open session, counters, pause flag (all in memory) | `tick`, `process_one`, `drain` |
| Capture daemon | `homnd/src/daemon.rs`, `control.rs` | control pause flag, copy of the counters | drain loop; socket requests Status, Pause, Resume |
| Gate | `homn-gate/src/pipeline.rs`, `policy.rs`, `redaction.rs` | the compiled ingest policy | `run`; policy `evaluate`, hot reload; `redact` |
| Screenpipe tail | `homn-sources/src/screenpipe.rs` | none (reads Screenpipe's `frames`) | `fetch_since` |
| Dictation pipe | `homn-sources/src/dictation.rs` | bounded line buffer, sequence number (in memory) | accept lines, `fetch_since` |
| Watermarks | `homn-audit/src/watermarks.rs` | one row per source (durable) | `get_watermark`, `set_watermark` |
| Receipt ledger | `homn-audit/src/ledger.rs` | hash chain (durable) | `append_receipt`, `verify_ledger`, `ledger_tail` |
| Store | `homnd/src/store.rs` | the brain (durable) | `store` with extraction, `forget` |
| Commitments, beliefs | `homnd/src/commitments.rs`, `beliefs.rs`, `extract.rs`, `llm.rs` | two tables (durable) | `add`, state changes, queries; extraction |
| Audit log | `homn-audit/src/lib.rs` | decisions table (durable) | `write_decision`, `update_human_answer`, `has_recent_deny_sync`, listings |
| Decision daemon | `homn-daemon/src/*` | current rules (swapped on reload) | `decisions.create`, `decisions.resolve`, `ping` |
| Hook client | `homn-hook/src/lib.rs`, `pty.rs` | none; pty: a rolling output window | one round trip with a timeout, the prompt, the late resolve |
| Rule policy | `homn-policy/src/*` | compiled rules | evaluate, keep-last-good reload |
| Rule learning | `homn-learning/src/*` | observations, suggestions (durable) | record an answer, suggest after five in a row, accept, reject |
| MCP server | `homn-mcp/src/*` | rate limiter's permits, a handle on the brain | one tool per question, all of them reads behind the quota |
| Hook installer | `homn-hook/src/install.rs`, `setup.rs` | Claude Code's `settings.json` (the user's) | merge, remove, back up; the stages of `homn setup` |
| Evaluation harness | `homn-eval/src/*` | a brain of its own | replay a capture database, score questions, decide the gate |
| Command line | `homn-bin/src/main.rs` | policy and configuration files | rules, exclude, learn, install, setup, uninstall, forget, destroy; tables |
| Terminal UI, shared types | `homn-tui`, `homn-types` | none | the prompt; the records |

### How they interact

* `drain_loop` calls `Pipeline::tick`; tick calls, in this order, the watermark
  read, the source, and for each item the gate, the dedupe window, the
  sessionizer, the ledger and the store, then the watermark write. Each of
  these except the gate, the window and the sessionizer is awaited and may fail.
* The control socket runs as its own tasks beside the drain loop. They share
  the pause flag and the copy of the counters.
* `homn` commands, the MCP server and the two daemons open the same SQLite files
  from different processes; `homn forget` and `homn destroy` remove what the
  capture daemon is writing, and only the brain has a lock.
* The MCP server's tools read the brain, `commitments.db`, `beliefs.db` and the
  audit log; each call passes the rate limiter first.
* The commands edit the policy and settings files that the daemons, Claude Code
  and the user's editor read and write, without a lock; a file is written in
  place (truncated first) or through a temporary file and a rename.
* Rule learning appends what was accepted to the same policy file.
* The hook talks to the decision daemon over a socket, one request per tool
  call; the daemon writes the decision to the audit log.

### What makes it hard, and what must hold

* **Crashes.** The watermark, the ledger, the brain and the derived tables are
  four durable writes with a crash possible between any two; the dedupe window,
  the session and the counters are lost. No row the watermark covers may be
  without its fate; a receipt must stand behind every observation; a crash may
  repeat only the batch in progress; a lost extraction must be made good.
* **Failed calls.** Any awaited call can fail with the in-memory state half
  updated, under a caller that stops (`drain_loop`) or that retries (`drain`).
* **Edited policies.** The policy file is read at start; a replayed row can meet
  another policy than the one it was first stored under.
* **Bounded structures.** The window evicts at its capacity, the dictation
  buffer at its cap, a batch at its limit; rows without text count against one
  of the two batch limits and not the other.
* **Concurrency.** Pause against a running tick; several processes on one
  database, whose deferred transactions read before they write; a hook that
  times out against a daemon that answers late; commands and editors on one
  file; the wrapper's threads, which end in a certain order.
* **Ordering and time.** Capture times may go backwards; a session is assigned
  to an item that is then not stored.
* **Several stores for one fact.** An observation is an episode, promises and
  beliefs in three files and a position in a fourth. Each statement may fail
  alone, forget and destroy reach some of them, and a replay writes the rest
  again.
* **Small algorithms with many cases.** Overlapping redactions, globs, promises
  and doubts in free text, weekdays across time zones, rules evaluated in verb
  order, settings that hold other people's hooks.

`PROJECT.json` lists each of these at its line, with the properties that cover
it or the reason why none does.

## 2. Modules

| Module | Models |
|---|---|
| `Sessionizer` | the session rule of `session.rs` (operators only) |
| `IngestPipeline` | `tick` and `process_one`, with the source, the gate, the watermark, the ledger and the store as they meet there |
| `CaptureDaemon` | the drain loop, the control socket, crashes and restarts around one pipeline |
| `DrainDriver` | `drain`, called poll after poll on one pipeline object |
| `DurableIngest` | the abstract specification: rows arrive, are settled, are confirmed |
| `Listing` | a selection, an ordering and a sum of rows (operators only) |
| `RulePolicy` | a policy's rules, `Engine::eval` and `Engine::trace` (operators only) |
| `PolicyReload` | the rules of a running decision daemon: start, watch, reload, against a user's editor |
| `HookDecision` | permission requests end to end: hook processes, the daemon's connection tasks, the audit table |
| `PtyWrapper` | `homn run` around the requests of `HookDecision` |
| `PtyTap` | the wrapper's threads, their channel and the rolling window |
| `AuditDb` | the audit database under several processes: migrations, the hash chain, decisions and answers, the queries |
| `MemoryStores` | brain, commitments, beliefs and watermark as the daemon, `forget` and `destroy` write them |
| `McpServer` | the MCP session, its quota and its tools over `MemoryStores` |
| `IngestGate` | the gate: the policy script's outcome, globs, the redaction bank (operators only) |
| `DictationSource` | the dictation buffer and its cursor, drained through `IngestGate`, with the policy's reloader |
| `Extraction` | promises and opinions in a text, the day a promise names, the object in a model's reply |
| `RuleLearning` | observations, suggestions, the rules generated |
| `CommandLine` | the commands that edit files, as overlapping processes, over `RuleLearning` |
| `EvalHarness` | the replay, the question set, the score and the gate |
| `MC...` | the instance of each that TLC checks |
| `ListingProofs` | lemmas about the operators of `Listing`, and induction in the form they need it |
| `CaptureDaemonProofs`, `HookDecisionProofs`, `EvalHarnessProofs`, `AuditDbProofs`, `McpServerProofs`, `TextProofs`, `CommandLineProofs` | the theorems |

A definition named `Name_Variant` is `Name` with a plausible bug (a dropped
guard, an off-by-one, a missing reset). No action uses it; it is there to see
that the properties notice. `PROJECT.json` pairs one with each property; the
others break one more part of a property that several facts make up.

### IngestPipeline

`pc` is the place inside `tick`, one value per await whose effect a crash or
another process can see:

| `pc` | In the code | Steps from there |
|---|---|---|
| `idle` | not in `tick` | `BeginTick` (the pause check) |
| `fetch` | before `get_watermark` | `Fetch`, `FetchFromStart` (its query failed and `.ok()` made it "none"), `FetchFails` |
| `items` | in the loop over the batch | `ProcessDropped`, `ProcessDuplicate`, `ProcessNew`, `ReceiptFails`; `CommitWatermark`, `CommitFails` when no item is left |
| `store` | receipt written, before `Store::store` | `Store`, `StoreFails` |
| `extract` | in the brain, before the extraction is done | `Extract` (each add may fail and is only logged) |
| `paused`, `exhausted`, `drained`, `failed` | returned | the caller's |

The durable state is `watermark`, `ledger`, `brain`, `derived` and Screenpipe's
`rows`. The memory of a pipeline is `window`, `open`, `stats`, `policy` and
`pausedFlag`; a new object gets all of it anew. `batch`, `todo` and `held` are
the locals of `tick` and `process_one`; they vanish when it returns.

Abstractions. A frame is a text, an app and a time; the id of a row is its
index, so ids have no holes (`fetch_since` asks for ids above the cursor and
holes change nothing). A policy denies a set of apps and maps a text to a
redacted one per app: that is all of the gate that reaches the pipeline,
because `ingest_ctx` passes on the app and the source only. The content hash is the
pair of app and redacted text, without collisions. Receipts carry their row and
hash as history; the code's do not. A failed call has no effect of its own
(SQLite rolls back); that a call took effect and still returned an error is not
modelled. Identifiers (ULIDs) are a counter.

The gate's steps up to the first await of an item (policy, redaction, window,
session) are one action with that await, because nothing can see them apart:
the locks are the pipeline's own and a crash forgets them all. Where the await
fails, `ReceiptFails` keeps what they had already changed.

### CaptureDaemon

One process. `LoopTick`, `Ticking`, `LoopAgain` and `LoopDies` are the drain
task; `Pause` and `Resume` are the control socket's requests (Status changes
nothing); `Crash` can come at any step and loses everything in memory; `Start`
is `run_capture_daemon` with whatever policy the file now holds. `pc = "dead"`
says that the drain task has returned with an error; nothing but a restart ends
it. `late` and `pauses` are history and a bound.

### DrainDriver

The embedder keeps one `Pipeline` object and calls `drain` on each poll. After
an error the same object, with its window, is used again. The embedder may flip
`Pipeline::pause_flag` at any time. The process does not crash here; that is the
daemon's module.

### DurableIngest

Three variables: how many rows have arrived, which of them are settled by
durable state, and the position that is confirmed. It promises that a settled row stays
settled and that the position only ever moves forward over settled rows (it may
fall back after a failed read). `CaptureDaemon` maps `arrived` to `Len(rows)`,
`settled` to the rows with `Settled(r)`, `confirmed` to `watermark`.

### RulePolicy

A policy file is its sequence of rules, one a line (comments and blank lines are
left out). A rule is its verb, the calls its expression is true for, and the
calls its evaluation fails on (an error, or the budget of operations): that is
all `eval` sees of an expression. `Grouped` is the order `RuleSet::parse` keeps.
An outcome carries the line of its rule, so that `trace` can be compared with
`eval` rule by rule.

### PolicyReload

`pc` is the reloader: `start` (does the file exist?), `load`, `watch` (loaded,
watch not registered), `wait`, `debounce` (the callback's sleep), `store` (read,
not swapped in); `failed` and `unwatched` are where it may end. The file is the
user's: `Replace` renames a new version over it, `BeginWrite` and `WriteOn`
write it in place, so that it holds a prefix of the new version in between, and
`Delete` removes it. Each change queues one event once the watch exists. Cuts
are at line ends (a cut inside a line is usually a parse error, which is the
harmless case). Errors of the watcher itself, such as an overflow of the
kernel's queue, are not modelled; the code only logs them.

### HookDecision

Each request is one hook process; its place in `handle_permission_request` is
`hook[h]`, and `conn[h]` is the daemon's task for its connection:

| `hook` | In the code | Steps from there |
|---|---|---|
| `start` | not run | `Ask` (connects, or finds no daemon and answers ask) |
| `creating` | awaiting `decisions.create`, 28 s | `TakeVerdict`, `TakeError`, `Prompt`, `TimesOut`, `LosesDaemon` |
| `prompt` | in `prompt_user` | `HumanAnswers` |
| `answered` | before the second call | `Resolve` (sends it, or finds no daemon) |
| `resolving` | awaiting `decisions.resolve`, no limit | `ResolveReturns` |
| `done`, `panicked`, `killed` | ended; only `done` wrote a response | |

The daemon's `Evaluate` is `handle_decisions_create` up to its only await;
`Insert` and `InsertFails` are the await. A dropped connection does not stop a
task before it writes its response, so `TimesOut` leaves `conn` alone. `Crash`
takes all tasks with it and leaves the table; `SwapRules` is the reloader as
the tasks see it. `offered[h]` is history: the decisions the rules in force
gave while `h` asked. `Killed` is Claude Code's own limit on a hook; `Wide`
are the calls whose preview `clip` cuts inside a character. Sessions, tool
names and the payload's other fields are the request itself.

### PtyWrapper

Adds, to the whole of `HookDecision` (`RequestStep`), the clock and the time of
each request's row, Claude Code's prompt for each wrapped request and the
wrapper's reaction: `Detect` looks for a recent deny in the audit table and types
n, `DetectFails` leaves the prompt to the user. The clock counts in units of
which `Lookback` is `deny_lookback_secs`. That the prompt is found in the
terminal's bytes is taken for granted here; `PtyTap` is about that.

### PtyTap

Four threads as `pty.rs` starts them: `ReaderStep` takes up to `BufSize` bytes of
what the child has written, appends them to the window, cuts it at `WindowMax`
and looks for the prompt unless the cut fell inside a character; `stdin` sends
the user's keys; `WriterStep` types what the channel holds; `MainStep` waits for
the child, then the reader, then the writer. A lookup's answer is a choice here
(`PtyWrapper` says which it is). `looked` is history. What the module assumes of
the prompt (ASCII, no longer than the window, no beginning that is also its end)
is so of the one `PtyConfig` looks for; without the last, one cut would fall into
the next prompt.

### AuditDb

Each process opens the file, reads the version, migrates what is missing and is
then `ready` for one operation at a time. A write is one commit. An append reads
the head in a deferred transaction and becomes a writer only if nothing was
committed since (`commits` is the snapshot); otherwise it fails, as SQLite has
it. `acked` and `shown` are history. Hashes are taken to be injective: a hash is
the texts it was made from. `FirstBad` (`verify_ledger`), `Query` and `Explain` are the reads.

### MemoryStores and McpServer

`daemon.at` goes through the stages of one observation: the episode, its
promises, the supersession and the insert of its belief, then the mark once per
batch. `forgetter` unlearns the episodes of one scope one by one and then appends
a receipt; `destroyer` removes the brain and then the audit database, which
leaves a running daemon with a handle on a file that is gone (`daemon.brain` and
`daemon.audit` say which handle is good). A failed statement (`Failed`), a crash
and a destroy may come any number of times and anywhere; a run bounds them
together (`MaxTroubles`). `past` is history: what went to no
file, what each receipt covers (`Covered`: the observation, and the ids given out,
the watermark and the episodes left when it was written), which statements
failed. agidb is external: an exclusive
lock, episodes stamped with its own clock, a ranked recall.

`McpServer` adds a session and the quota; the tools are operators over the state
at the call, since none of them changes anything. A session reads the directory
it opened (`opened`), also when `homn destroy` has removed it from under it.
Instants are finer than a millisecond (`PerMilli`): the databases keep `Millis`
of them, the in-memory store compares them as they are; rows of one millisecond
come in any order. `Like` says which topic a search finds. `pending` are the timers that
give permits back, in the order of the calls. A query is a selection (`Only`) or
an ordering (`Listed`) of rows, with the test as a set and the order as a
relation (`Ranked`, `ByTime`), or, where rows may tie, a relation between them
(`CreatedBefore`, `SortsAhead`).

### IngestGate and DictationSource

A policy script is a list of guarded outcome calls, each of which may raise an
error; a capture carries the byte ranges the detectors find in it
(`CapturesAssumption`: those of one detector lie apart, as `find_iter` returns
them, and a character of the text stands for its place). The stable sort of the
hits is an order in which the detector breaks ties (`DetectorAt`).
`Evaluate` is the policy, `Redact` the bank and `Run` the whole of `Gate::run`.
`DictationSource` drains the push source through it: `Push`, `Fetch`, `GateNext`,
`Mark`, a `Stop` anywhere, and a reloader beside it, whose handle the gate does
not use. `born`, `gated` and `evicted` are history.

### Extraction

A text grows word by word (`Write`), so that TLC's states are the texts and a
property may compare a text with its beginnings. A word is a model of its
class: a word of two letters, a number, a day, a full stop, a line end. The
patterns are read off their regular expressions as what they find at a place, in
the leftmost-first way of the `regex` crate; `MatchesAreExact` compares that with
a declarative reading. `FirstObject` is the scan of `llm.rs`, byte by byte;
`Balanced` is the grammar it is compared with: over the stretches of a text,
which of them can be read as items, a string or an object being one.

### RuleLearning and CommandLine

A call is a tool and the words of its argument; `Pattern` is `normalize.rs`,
`Fires` what the policy engine makes of the generated rule. `InsertObservation`,
`CheckThreshold` and `Upsert` are the three transactions of an observation; each
of `Recorders` is a task, and the others' come between them. A row has the `ts`
its caller read from the wall clock, which may tie or step back: `Newest` is what
`ORDER BY ts DESC LIMIT k` may return. A command of `CommandLine` is a
process with a list of stages; a stage reads its file and computes the new text,
then truncates and writes it, or truncates and writes a temporary file, which has
one name for all, and renames it. `Quotes` says which lines hold the text of
which rule, `Odd` stands for settings of another shape. A command may
be killed anywhere, and two commands may overlap. `acked` and `excused` are
history: what was reported to be in a file, and how it may have gone.

### EvalHarness

A capture database that is still growing is read source by source (`ReadSource`)
and stored chunk by chunk (`Store`), and may `Fail` anywhere. Episodes keep the
text as characters because `WindowFindsWhatItCovers` is about minutes and texts.
`Score` runs a question set; for each cue agidb finds any list of distinct
episodes (`Rankings`), which a window restricts and cuts to k before the hits are
taken; the ranking itself is taken not to depend on k. A hit has a reference
(`EpisodeRef`) beside its text.

## 3. Properties and runs

| Run | Instance | States | Checks |
|---|---|---|---|
| `daemon_safety` | 3 rows from 3 frames, 2 policies, batch 2, window 1; one crash, one failed call, one failed watermark read, one Pause | 1 560 000 | `NoLoss`, `ReceiptBehindEveryObservation`, `StoredStreamKeepsItsRules`, `ExtractionCatchesUp`, `StatsAccount`, `PauseBound`, `ReplayOnlyUnconfirmed`, `ImplementsDurableIngest`, `CatchesUp` |
| `drain_poll` | 3 rows from 3 frames, 2 policies, batch 2, window 1, one failed call | 55 000 | `LeavesOnlyBehindBlankBatch`, `DrainTerminates` |
| `policy_reload` | 4 policy files (one malformed) or none, 3 edits | 39 000 | `CurrentWhenQuiet`, `TraceExplainsEval`, `DenyIsSticky`, `EditsTakeEffect` |
| `hook_safety` | 2 requests about 2 calls, 2 rulesets, one failed write, one daemon crash, prompts answered sooner or later (`AttendedSpec`) | 307 000 | `EveryVerdictAudited`, `NoSilentAllow`, `AnswersStayHome`, `OneRowPerRequest`, `HookReturns` |
| `pty_safety` | 2 wrapped requests, one with a preview that panics, 2 rulesets, one failed call, a lookback of 1, the clock from 0 to 2 | 2 300 000 | `DenyEnforcedInTime` |
| `pty_tap` | 5 outputs, a prompt of 2 bytes, a window of 4, reads of up to 6, 2 keys | 44 000 | `PromptIsServed`, `ReturnsWhenInputEnds` |
| `audit_db` | 3 processes, 3 migrations, 3 commits behind them, one end of a process | 425 000 | `ChainVerifies`, `AckedReceiptsKept`, `SchemaComplete`, `ReadsAreRight` |
| `memory_tools` | 3 observations in batches of 2, one forget, any two of crashes, failed statements and destroys, 3 instants to a millisecond, a quota of 1 in 2 ticks | 547 000 | `StoresKeepUp`, `ForgetIsHonest`, `RollingQuota`, `ToolsShowWhatIsStored` |
| `dictation_gate` | 3 pushes into a buffer of 2, one restart, one edit, 4 scripts, captures with any two of 9 detector matches that may occur together | 117 000 | `NoLineIsLost`, `RedactionIsExact`, `PolicyIsApplied` |
| `extraction` | every text of up to 5 or 6 words from 7 vocabularies, every reply of up to 6 bytes of an eighth, 28 moments, 3 zones | 116 000 | `ExtractionIsExact` |
| `command_line` | 2 processes, any two commands, 2 recorders with 3 observations at 2 times, one kill or failed read, one edit by the user | 221 000 | `LearnedRulesAreEarned`, `FilesKeepTheirLines`, `BackedUp` |
| `eval` | 2 rows of 9 kinds, 3 database shapes, 2 ingests, 4 question sets of two cues, k up to 2 | 360 000 | `EpisodesCoverTheCapture`, `GateIsSound` |

A property that several facts make up is their conjunction under one name; each
conjunct has its own definition and comment. The type invariant of a module is
a conjunct of one of these, or is proved (section 4).

**Ingestion.**

* `NoLoss`: every row at or below the watermark had no text, or a Deny receipt,
  or an Allow receipt with its content in the brain.
* `ReceiptBehindEveryObservation`: the position in an observation's redactions is
  that of the Allow receipt written for it.
* `StoredStreamKeepsItsRules`: neighbours in the stored stream share a session
  exactly when they share the app and lie within the gap, and no session spans a
  restart (`SessionBoundaries`); one pipeline stores the same content twice only
  with more than the window's capacity of lookups in between (`WindowSpacing`).
* `ExtractionCatchesUp`: every row the watermark covers that was not denied had
  an extraction from a stored copy of its content.
* `ReplayOnlyUnconfirmed`: without a failed watermark read, nothing at or below
  the watermark is stored again.
* `StatsAccount`: the counters account for every fetched item, at every place in
  a tick, and `homn status` shows those of the last tick.
* `PauseBound`: at most one batch is fetched after a Pause is answered.
* `CatchesUp`: a drain loop that stays alive and unpaused confirms every row.
* `LeavesOnlyBehindBlankBatch`: `drain` leaves rows it knew of only after a full
  batch of frames without text. `DrainTerminates`: a call of `drain` returns.
* `ImplementsDurableIngest`: the refinement.

**Decisions.**

* `CurrentWhenQuiet`, `EditsTakeEffect`: with no event left the rules are the
  file's, and a save that parses comes into force without another one.
* `TraceExplainsEval`: `trace` has `eval`'s outcome and marks exactly its rule.
* `DenyIsSticky`: what one line alone denies, the whole file denies.
* `EveryVerdictAudited`: an allow or deny given to Claude Code has a row of that
  request with that decision, or with ask if a human decided.
* `NoSilentAllow`: an allow was offered by rules in force while the hook asked,
  or given by the human.
* `AnswersStayHome`: a row carries an answer only if it asked, and only its own
  request's. `OneRowPerRequest`: also when the hook gave up before the row was
  written. `HookReturns`: a hook whose prompts are answered ends.
* `DenyEnforcedInTime`: a deny by rule that the hook was told of is typed for the
  user whenever the wrapper looks within the lookback of the decision.
* `PromptIsServed`: a prompt the child waits at is looked up, however it was cut
  by the reads (`PromptIsLookedUp`), once (`PromptIsAnsweredOnce`), and the output
  is shown to its end (`OutputIsComplete`). `ReturnsWhenInputEnds`: the wrapper
  returns once the child has exited and its input has ended.

**The audit database.**

* `ChainVerifies`: however appends overlap and wherever processes end,
  `verify_ledger` finds every row good. `AckedReceiptsKept`: a receipt that was
  acknowledged stays at its seq. `SchemaComplete`: a connection that is open
  finds every table.
* `ReadsAreRight`: an altered or missing row is reported where it is
  (`DamageIsLocated`), a query returns the newest or oldest matches up to its
  limit whatever the writers' clocks said (`QueryIsNewestMatches`), and
  `explain_decision` shows the last answer of that very decision
  (`ExplainShowsAnswer`).

**Memory.**

* `StoresKeepUp`: what the watermark covers has its episode, promise and belief,
  or a failed statement to show for it (`MarkedIsDone`); a topic with a history
  has a current belief, or a replay that will give it one (`TopicKeepsCurrent`),
  and never two, nor an outdated one (`CurrentIsLatest`).
* `ForgetIsHonest`: receipts claim what was removed and no more
  (`ReceiptsAccount`), and a forgotten episode surfaces in no tool again, nor
  does its observation, through crashes and replays, *unless* no watermark had
  passed the observation when the receipt was written, so that the replay of a
  cut-off batch stores it anew, or another episode of it was left
  (`ForgottenStaysForgotten`). A session that lost its brain to a destroy still
  shows what it opened.
* `RollingQuota`: no interval as long as the window sees more calls than the
  quota, and no permit is lost.
* `ToolsShowWhatIsStored`: the SQL of the commitments tool answers as the
  in-memory store does for every filter and moment, but for promises due in the
  millisecond of the call or of the cutoff, of which it shows none as late that
  is not; every open promise is listed as open or as overdue, and none ahead of
  one of an earlier millisecond (`StoresAgree`). What the beliefs tool puts
  first is current and not of an observation before the last marked one on its
  topic, at any moment of the writing, but between the two statements of a
  belief (`CurrentLeads`).
* `NoLineIsLost`: a dictated line is gated, evicted, still there, or below a
  cursor older than the process. `RedactionIsExact`: no counted match survives
  whole, nothing else is cut (`SecretsAreGone`), spans locate their placeholders
  (`SpansLocate`), the checksum notices a misread digit (`LuhnCatchesSlips`).
  `PolicyIsApplied`: an appended exclude wins (`ExcludeWins`), a glob matches what
  it stands for (`GlobMatches`), the reloader holds only policies that were in
  the file (`ReloaderKeepsGood`).
* `ExtractionIsExact`: matches are found, once each, and end where they first can
  (`MatchesAreExact`); no two patterns record the same words (`SaidOnce`), but
  for a debt to somebody called Will or Promised whose line ends before a "by";
  what was found stays found when the text grows (`MatchesStand`); a day is the
  day meant (`DatesAreRight`); a doubt has a topic of its own
  (`DoubtsStandApart`), unless the text itself writes "sure:";
  `first_json_object` agrees with the grammar of braces and strings
  (`ObjectIsFirst`).

**The command line and the evaluation.**

* `LearnedRulesAreEarned`: however recorders overlap and clocks step, the newest
  `Threshold` observations of a pattern had one answer at the count that led to
  its suggestion, the suggested one wherever the caller's own is among them
  (`SuggestionsAreEarned`); a learned rule stands in the policy only behind one
  that somebody answered (`PromotedOnlyIfAccepted`).
* `FilesKeepTheirLines`: what was reported in a file stays there unless a write
  was cut off, two writers overlapped or a file could not be read
  (`AcknowledgedKept`); the marked hook stands at most once (`HookedOnce`).
  `BackedUp`: what a rename replaces in `settings.json` has a backup.
* `EpisodesCoverTheCapture`: every row that says something is whole in an
  episode of that run (`EveryRowIsFound`), which a window over its minute finds
  (`WindowFindsWhatItCovers`), and the report adds up (`ReportAccounts`).
  `GateIsSound`: the brain is adopted only when it answered every kind of
  question (`GateNeedsEveryKind`), and scores grow with k (`ScoreIsMonotone`).

**Bounds.** Three rows with a batch of two give a full batch, a short batch and a
batch boundary; a window of one hash fills and evicts within them; the three
frames are a text in one app, another text in the other app that redacts to the
same, and a frame without text, at times that may come in any order; the two
policies differ in what they deny and in what a text is redacted to. One crash and one failed call
at every place, alone and together, give every pair of writes a gap between
them. Faults, rewinds, crashes, pauses and rows are bounded by `MaxFaults`,
`MaxRewinds`, `MaxCrashes`, `MaxPauses` and `MaxRows`.

Two requests are enough for one to get at the other's row and for one session's
deny to meet another's prompt; one crash and one failed write fall before,
between and after the two calls of either. `MaxTime` lets the wrapper's clock
pass the lookback by one. Three edits let one arrive in every place of the
reloader's handling of another. The outputs of `pty_tap` repeat the prompt, cut
it, put a character of two bytes before, between and behind it, or are no text;
reads of six bytes hold two prompts.

Three processes on the database are enough for a commit between another's read
and its write and for a third to be migrating. In `memory_tools` three
observations take one topic up twice, the second time with an earlier time; two
troubles let a failed statement meet a crash, or a destroy, and two crashes cut
off one batch twice. Three instants to a millisecond put a due date before, at
and behind the call within one. `MCApart` follows a session while nobody writes,
a session that has made calls while nothing is stored, and a daemon without a
brain into one trouble; `MCCalm` holds the clock still within a batch, within
a forget, and once as many episodes were stored as the feed has. What they leave out rests on the proofs. In `daemon_safety` no two
frames of one app lie further apart than the gap: that side of the session rule,
too, is proved only. `dictation_gate`
overlaps any two matches on four characters. Six words are the longest promise
or doubt the patterns need with a body of one; the seven days of `Moments`, at
each tick, meet each weekday in each zone. Two commands at once, one kill and
one edit give every pair of stages an overlap. With a threshold of two, three
observations at two times let a deny fall between the count and the upsert of an
allow, and rows tie or come late; `MCTogether` takes three overlapping observations; two in turn, a
command, a kill and an edit; or two commands and a kill or an edit. `eval` has two instants to a
minute, so that two rows share one or do not, and required two per kind; a brain
of up to two episodes is scored (`MaxScored`), in every order of its episodes and
with any of them missing.

Where a run's bounds are used up the system stops, so that most runs do not
check for deadlock; `drain_poll`, which goes on for ever, does.

**Fairness.** `WF_vars(DrainLoop)` in the daemon and `WF_vars(Drain)` under
`drain`: the task is a future the runtime polls, and it blocks on nothing but
calls that return. No fairness is assumed of Screenpipe, the user, the
embedder's poll, or of anything restarting a crashed daemon; `CatchesUp` is
conditional on the loop's staying alive for that reason. On the decision side:
`WF_reload(Reloader)`, the daemon and its watcher's thread; `WF_vars(DaemonStep(h))`
and `WF_vars(HookStep(h))` for each request (`FairSpec`), tasks a runtime polls
and processes a system schedules; and, in `AttendedSpec` only,
`WF_vars(HumanAnswers(h))`, the user at the prompt. Nobody has to restart the
daemon, swap rules, edit files or kill a hook. In `PtyTap` the reader, the writer
and the main thread run; the stdin thread blocks in its read and neither the
child nor the user owes it anything. The other modules have no liveness
property: their processes are commands, which end, and tools, which answer at
once.

### Where the code departs from its documents

The properties above say what is left of the promise; what is missing from it
is in the model as an action, a disjunct or an exception.

*Ingestion.*

* After a crash between the store and the watermark the batch is stored again:
  the dedupe window was in memory (`dedupe.rs:5`, "exactly-once stored" in
  `002/spec.md:172`). `ReplayOnlyUnconfirmed` bounds it to that batch.
* One failed call ends the drain task while the socket still answers, and
  nothing resumes it (`002/spec.md:145`); a brain that is locked does the same.
* Under `drain`, an item whose store failed is on the next poll a duplicate of
  itself and lost (`pipeline.rs:146`, `gate-pipeline.md:33`): `NoLoss` is a
  property of the daemon only.
* An error of the watermark query is taken for "never consumed"
  (`FetchFromStart`); a tick past its pause check stores its batch after Pause was
  answered ("halt all capture immediately"); `drain` calls a source drained
  after a full batch of frames without text.
* `ingest_ctx` fills neither title, domain nor incognito, so that rules on them,
  and the defaults FR-026 asks for, never fire. A gate error is receipted as
  Deny and a redaction as Allow (`gate-pipeline.md` R-4).
* The last outcome call wins: a later `redact` overrides a rule under "HARD
  DENIES" (`policies/ingest.rhai`). The ingest reloader has no caller, though the
  policy's text says a running daemon reloads it.
* A match that begins inside one that is cut leaves its tail.
* Dictation's sequence numbers restart at 0 under a durable cursor
  (`dictation.rs:5`), so that new lines below it are never fetched; unread lines
  die with the process; `bind` removes the socket of a live one. The pipe is not
  wired into the daemon.

*Memory.*

* `homn capture start` spawns the daemon without `--brain` (`main.rs:1507`), so
  that its episodes go to no file while the watermark advances.
* A forget does not ask the watermark. When a daemon is killed within a batch,
  `homn forget` removes an episode of it with a receipt, and the next daemon's
  replay stores the observation again, so that recall shows it: FR-023 has it
  that "the matched memories no longer surface in recall" (`002/spec.md:197`).
  `ForgottenStaysForgotten` bounds this to observations the watermark had not
  passed.
* An MCP session that is open when `homn destroy` removes the brain keeps its
  handle and goes on showing what was destroyed (`main.rs:1645`); whoever opens
  the new directory does not.
* `homn mcp` wires no forget handle. A forget reaches the first k of a recall or
  500 rows of a timeline, and never the commitments and beliefs.
* A promise that is overdue by less than a millisecond is open by the SQL
  (`commitments.rs:235`) and overdue by `is_overdue`; a cutoff takes in what is
  due later in its millisecond.
* `today` leaves out what is overdue, takes in what has no date, and includes
  midnight. A history row of the beliefs tool never says it is superseded. A
  belief that comes late supersedes a newer one; the in-memory store sorts by
  time alone.
* `homn destroy` leaves `commitments.db` and `beliefs.db`, asks neither lock nor
  daemon, and removes the watermarks, so that everything is ingested again.
* Extraction: a body runs across full stops, so "I'll fix it. Sarah promised x
  by Friday" is the user's promise; "by today" after noon UTC is overdue when it
  is made; "someday" and "birthday" match and give no date; a doubt never
  supersedes what it doubts, and a revision only when six first words agree;
  `llm.rs` lowercases an owner and not a counterpart, and takes the first braces
  of prose for the answer. Of "I owe Will lunch", where the line ends and the
  next begins with "by Friday", the pattern of names makes a second promise with
  the same words: `owe will`, read without regard to case.

*Decisions.*

* A save in place slower than the callback's sleep brings a prefix of the file
  into force; an empty prefix is an empty ruleset ("old rules remain active
  until new file parses cleanly"). An edit between the load and the
  registration of the watch, and a file created under a running daemon, are not
  seen.
* An answer whose `decisions.resolve` fails reaches Claude Code and never the
  audit log (`data-flow.md:226`). A hook that gave up lets Claude Code prompt
  before, or without, a row; nothing bounds the prompt or the second call
  ("NEVER blocks Claude"); `clip` panics inside a multi-byte character. The hook
  makes no second attempt to connect (`hook-protocol.md`).
* A deny rule over its budget is skipped and an allow below it allows
  (`policy-engine.md` says it asks, FR-004 agrees with the code).
* The wrapper refuses any session's prompt while a deny of any session is recent,
  calls no daemon, and types n only (`adr/0003`). It does not return with its
  child while the user presses no key: the writer thread it joins waits for the
  stdin thread's sender (`pty.rs:126`, "Drop senders so the writer thread exits").
  After more output than the window holds, with a character of several bytes
  where the window begins, a prompt is not seen.
* An append fails when another process commits between its read and its write,
  and the daemon's drain task ends with it. `explain` looks at 10 000 rows.
  `retention_days` is read by nothing.

*The command line and the evaluation.*

* `homn exclude --remove` removes the first block whose marker starts with the
  name given. `uninstall` drops a whole entry of settings that holds the hook
  beside others, and fails on blank settings after it has removed the service. A
  policy that cannot be read counts as empty and is overwritten; a write that is
  cut off leaves an empty policy that `setup` keeps.
* `record_observation` counts over whatever rows its pattern has by then, and
  suggests its own answer: a call overtaken by a threshold of later answers
  suggests against them, and one between the count and the write is not seen,
  though its comment has "the previous N observations all share this answer"
  (`homn-learning/src/lib.rs:83`).
* Nothing calls `record_observation`; a reject's expiry is read by nothing; an
  accepted pattern that is observed again makes the insert fail on its unique
  hash; a flag in second place widens the learned rule to the whole command.
* A repeated ingest stores its chunks again; a recall that fails counts as a
  miss; a window that starts inside a minute misses that minute; local
  timestamps lose their offset and short ones panic inside a character; the
  verdict is drawn at any `--k` though it is documented for recall@3.

## 4. Proofs

The theorems assume only what the modules' ASSUMEs state: batch size and
window capacity are positive, the gap is a natural number, frames and policies
have their types, and the absent value is no observation and no session. The
numbers of rows, faults, crashes and pauses are arbitrary. Those about texts
assume of the words that a name has two letters or more, of the four bytes of a
reply that they differ, and of the evaluation that a question is of one of three
kinds; texts, days and thresholds are arbitrary.

`CaptureDaemonProofs` begins with `IngestPipeline`, whoever calls it, and proves, action
by action, that a step of a tick

1. preserves `TypeInv`: the types, that no position lies past the end of the
   table, that the items left are rows with text, and that the observation in
   hand is one of them and has its receipt;
2. `Grows`: rows, ledger and brain are only added to, so that a settled row
   stays settled;
3. preserves `ReceiptBehindEveryObservation`;
4. preserves `SafeInv`, which is `NoLoss` with the two facts that make it
   inductive: `BatchCovered` (every row the batch in progress passes over is
   an item left or settled) and `WindowHonest` (until a call fails, a hash in
   the window stands for content that is in the brain or in hand).

`WindowHonest` is where the daemon and `drain` part. A failed call leaves a hash
in the window with nothing behind it. The daemon's drain task dies with that
call and the next process has an empty window, so the module
concludes `Spec => []NoLoss`; `drain` goes on with the same window, the step
back to `idle` does not preserve it, and the item that failed can be lost.

On top of `IInv` it has an inductive invariant for each of
the deeper properties, over any number of rows, crashes, failures and policies:

* `CountInv`: the counters, with the fact that the items left are finitely many
  and that a tick the pause check refused changed nothing.
* `AheadInv`: until a watermark read fails, the items in hand lie after the
  watermark.
* `ExtractInv`: of the rows a batch has passed over, those not in hand were
  blank, denied or extracted (`BatchCaught`); each hash of a running process's
  window was extracted, or is that of the observation in hand (`WindowCaught`).
  The window is what makes this inductive: a duplicate is confirmed because its
  first copy is in the window, so that copy must have had its extraction.
* `SpacingInv`: an observation of this process has its hash at the place of the
  window that its lookup number says (`Placed`), so that a hash not found was
  looked up a window ago or never.
* `SessionInv`: identifiers grow over restarts (`IdsOK`); between items the open
  session is that of the newest observation of this process (`OpenIsNewest`),
  and the one in hand continues it or not as `Joins` says (`HeldJoins`). After a
  failed tick neither holds, and need not: the failure ends the drain task.

About `drain`, in the same module, `PassInv` says what a call knows: a batch without
items ends at the last known row or after `Batch` rows without text, and so does
the watermark it becomes.

| Theorem | Statement |
|---|---|
| `CaptureDaemonProofs!TypeCorrect` | `Spec => []TypeOK` |
| `CaptureDaemonProofs!NothingLost` | `Spec => []NoLoss` |
| `CaptureDaemonProofs!ReceiptsBehind` | `Spec => []ReceiptBehindEveryObservation` |
| `CaptureDaemonProofs!PauseIsBounded` | `Spec => []PauseBound`; strengthened by: unpaused, or past the pause check, no late fetch has been counted |
| `CaptureDaemonProofs!DaemonImplementsDurableIngest` | `Spec => ImplementsDurableIngest`, from `Grows` and `NoLoss` |
| `CaptureDaemonProofs!CountersAccount` | `Spec => []StatsAccount` |
| `CaptureDaemonProofs!ReplaysUnconfirmed` | `Spec => ReplayOnlyUnconfirmed` |
| `CaptureDaemonProofs!NothingUnextracted` | `Spec => []ExtractionCatchesUp` |
| `CaptureDaemonProofs!StreamKeepsItsRules` | `Spec => []StoredStreamKeepsItsRules` |
| `CaptureDaemonProofs!LeavesOnlyBlank` | `DrainSpec => []LeavesOnlyBehindBlankBatch` |
| `CaptureDaemonProofs!DrainTypeCorrect`, `DrainReceiptsBehind` | `DrainTypeOK` and `ReceiptBehindEveryObservation` of `drain`, across failed ticks and retries |

`HookDecisionProofs` assumes of its constants only that every request has a
call, that rulesets are sequences of rules, and that the absent value is none of
the others; any number of requests, failures and crashes. None of its
properties is inductive: `EveryVerdictAudited` at the step that takes the
verdict needs to know that a reply stands on a row, and `AnswersStayHome` at
the update that the id in a resolve is the id of its own request's row. `Inv`
has those facts in three parts:

* `ConnInv`: a task before its insert has no row; a reply to a create names its
  row and that row's decision; a resolve in flight names a row of its own
  request that asked, and its hook is past the answer;
* `HookInv`: what a hook knows at each place: nothing written before it asked,
  the verdict in hand was offered, an ask row under its ticket from the prompt
  on;
* `TableInv`: a hook that has not sent its answer has no answered row, with
  `OneRowPerRequest` and `AnswersStayHome`.

`KeepHook` says that a step of one request disturbs no other; each action then
has one lemma about its own request and the table.

About the wrapper (`PtyWrapper`) the same module adds to `Inv` that a prompt is of an ended hook. A deny that
was told has its row (`EveryVerdictAudited`), so a lookup that found nothing
came after the lookback; `EndedStays` and `ConnInv` (a request with a row is not
evaluated again) keep both sides of that as they are.

About its threads (`PtyTap`) it proves `PromptIsServed` for any output, any sizes
of the window and the reads, and any prompt that fits the window and does not
begin as it ends. The window is the end of what was read, and it begins at the
first byte, behind a prompt, or is full (`WindowInv`); so a prompt at its end is
whole (`HitsApart`) and, if the child prints text, no character is cut before it
(`WindowIsText`). A prompt in the window is newer than the last lookup
(`LookupsInv`), which is why no two lookups share one. `ThreadsInv` counts the
refusals sent and the lookups that found a deny, and says what a reader that has
ended leaves behind.

About the rules of a running daemon (`PolicyReload`) the same module strengthens
`CurrentWhenQuiet` to `QuietInv`: a change behind a place that will not read again has queued an event or was missed.
`DenySurvives` is about evaluation alone: `DenyDecides` and `OnlyDenyDenies` make
"denies" and "has a deny rule that fires" the same. `TraceIsFaithful` is by
induction over the lines trace visits: what it has noted after `n` of them
depends only on the first that fired (`TraceDecides`), and that one is the line
`eval` answers with, because `Grouped` holds deny before ask before allow and
each verb in the order of the file (`GroupedLines`).

`ListingProofs` has what such proofs need. The library's induction theorems take
an operator as a parameter, which the provers do not instantiate; its minimum
principle takes a relation and a set, and `CountUp` (induction) and `Recursion`
(a recursive function satisfies its definition) are derived from that.

| Theorem | Statement |
|---|---|
| `HookDecisionProofs!TypeCorrect` | `Spec => []TypeOK` |
| `HookDecisionProofs!VerdictsAudited` | `Spec => []EveryVerdictAudited` |
| `HookDecisionProofs!AllowsSpoken` | `Spec => []NoSilentAllow` |
| `HookDecisionProofs!AnswersBelong` | `Spec => []AnswersStayHome` |
| `HookDecisionProofs!RowsUnique` | `Spec => []OneRowPerRequest` |
| `HookDecisionProofs!PtyTypeCorrect` | `PtySpec => []PtyTypeOK` |
| `HookDecisionProofs!DenyIsEnforced` | `PtySpec => []DenyEnforcedInTime` |
| `HookDecisionProofs!PromptsAreServed` | `TapSpec => []PromptIsServed` |
| `HookDecisionProofs!ReloadTypeCorrect` | `ReloadSpec => []ReloadTypeOK` |
| `HookDecisionProofs!QuietIsCurrent` | `ReloadSpec => []CurrentWhenQuiet` |
| `HookDecisionProofs!DenySurvives` | `ReloadSpec => []DenyIsSticky` |
| `HookDecisionProofs!TraceIsFaithful` | `ReloadSpec => []TraceExplainsEval` |

`AuditDbProofs` is for any number of processes, receipts, decisions, commits and
crashes. `ChainVerifies` needs to know where a head that was read still is the
head: `Fresh` says so of every snapshot that may yet be upgraded, or has been,
and `Locked` that the one about to commit is the only one. `Migrated` says that
the versions there are a prefix, and that who migrates has what lies before its
next version; without it a process that read the version early could skip a
table. About the readers, `ReadsAreRight` follows from three invariants: every
row links to the one before it (`Linked`), carries its place (`Numbered`), and a
decision carries its id and the answer acknowledged for it (`Answered`). The
ids make the order of a query total whatever the clocks say (`AheadOrders`), so
that the lemmas of `ListingProofs` on `Listed` apply.

`McpServerProofs` keeps the quota beside every action of the stores. A permit is
in the pool or on its way back (`PermitsAccount`); the times at which permits
come back are those of the calls not yet returned, one window later and in their
order (`PermitsFollowCalls`). When a call finds a permit, fewer than the quota
are outstanding, so that the call a quota earlier has returned, and its window
is over: this is `Spaced` at the new call.

`StoresInv`, in the same module, is the invariant of the stores; it assumes
that the feed is a finite list of observations, and nothing of the number of
crashes, failing statements, forgets, destroys and daemons with or without a
brain. Its core is `ThroughInv`: every observation the watermark covers is
`Through` (its episode, promise and belief are there or their absence has a
reason, no gap on its topic is left unrepaired, and no older observation has the
last word), and so is every observation of the batch before the one in hand,
*if* the audit database the daemon holds is the file: otherwise the watermark it
will write goes nowhere. `DaemonInv` is what makes this inductive: a daemon with
a good handle started its batch at the watermark itself, so that `Mark` moves
the watermark only over observations that are through. Between the UPDATE and
the INSERT of a belief the topic has no current row and `past.gap` holds the
observation (`OneCurrent`, `TopicHeld`). `EpisodesInv` keeps what a forget still
has to remove apart from what was removed, so that an episode is counted once;
`ReceiptsInv` adds the run in progress to the receipts written. The three
properties follow from it. An episode of an observation a receipt covers was left
by that forget, or is newer than the receipt and of an observation its watermark
had not passed (`ForgottenInv`): ids only grow, and a daemon stores nothing at or
below the watermark (`AheadOfMark`). What a session opened is the brain as long
as it holds the lock (`HeldInv`), and a tool shows nothing but episodes of what
the session opened (`ToolsShowEpisodes`, from the lemmas of `ListingProofs` on an
ordering). `StoresAgree` needs that rows are written in the order of the clock
(`CreatedInv`), which the model's clock never turns back, and that `Millis` keeps
the order of instants (`MillisInOrder`).

`TextProofs` has two parts. The first, about `DictationSource`, says where every
number a process has handed out is. The buffer holds the newest of them in order
(`BufferInv`), the older ones were dropped or gated (`GoneInv`), so that what
lies behind the cursor is in the buffer or gone. For what lies before it, a batch in the gate must hold all that
its own cursor will pass (`PassedInv`), which the fetch establishes because it
takes the whole buffer behind the cursor (`OnlyPlaces`), and nothing the cursor
has passed already (`BatchInv`); a line dropped while the batch is in the gate is
either in the batch or newer than its cursor. `BatchInv` also says that a cursor
is one of this process's numbers or the one it was born with: a fresh number
never lies below a cursor of its own process.

`PolicyIsApplied` rests on `PolicyInv`: what the gate made was made by the policy
in the gate (`OutInv`), and the reloader's. `OneMoreLine` says of any script what
one more line does to it: the line is the last of those that hold, or none
(`LastPlace`). `GlobStands` says of any pattern and string that the places
`glob_inner` finds from the end of the pattern on (`GlobFits`) are those from
where the rest of the string can be cut into pieces (`SuitsOneMore`).

`RedactionIsExact` needs no more of the state than `OutInv`: it is about what
`Redact` makes of any text and any matches. The sort puts every match behind those
that precede it (`SortedLists`, from the lemmas on a listing), and the loop over it
keeps matches that follow one another and cover all others (`KeptCovers`): a match
is dropped only when one that begins no later reaches into it, and one that begins
with it reaches to its end. The text is rebuilt match by match (`BuiltInv`): what
is left so far are the characters no kept match covers (`LeftInv`: a stretch
between two of them stays, one a match covers goes, a placeholder adds none), and
the spans locate their placeholders in turn (`SpansInv`: a text that grows at its
end leaves them where they were). `LuhnCatches` is arithmetic: two sums that differ
in one digit's worth, and are both multiples of ten, are equal (`TotalChange`,
`TenApart`), and doubling with the carry folded tells digits apart
(`WorthDiffers`).

The second part, about `Extraction`, needs nothing of the state but its types:
what is found depends on the text alone, and the theorem is one about the
functions that find it, for texts of any length.

* *Recursion.* `Found` calls itself on a place further right, the grammar on two
  shorter stretches; `RecursionByRank` gives such functions their equation, and
  `BySpans` the induction over stretches, both from the minimum principle.
* *One match.* `BodyOpens`, `EndsAre`, `MatchIs` and `FoundIs` say once what
  each operator returns. A body that begins later ends no earlier (`BodyOrder`,
  `CloseOrder`), which is why a scan that goes on behind a match passes nothing
  over (`AllFound`, `FoundAll`).
* *A longer text.* One word more changes no place in front of it, but for white
  space that had nothing behind it (`SkipStands`); so a match stands
  (`MatchStands`), and the list of matches leads (`FoundLeads`). `NotSure` fails
  here: its two ways to open disagree until the next word is there. Those of a
  revision do not, since neither begins with a word of the other (`Apart`).
* *Said once.* The words in front of a body tell which pattern found it
  (`PromiseWords`, `OpinionWords`). Two patterns whose bodies begin alike share
  their last word, and that leaves the debt to somebody called Will.
* *Days.* `NextWeekday` is the arithmetic of the remainder, `Noons` that of days
  and instants.
* *Objects.* The scan and the grammar agree on strings (`QuotedScan`,
  `ScanQuoted`) and then on braces (`BalancedScan`, `ScanBalanced`), each by
  induction over stretches: what is balanced brings the depth back to where it
  was, never below it in between (`ScanLeaves`, `ScanOutside`); and where the
  scan first returns, the grammar reads what lies before.

`EvalHarnessProofs` shows of the chunking, row by row, that each chunk opens at a
row of its own and is solid (`Opens`), and that every row so far is in the chunk
of its run (`Covers`, `ChunksCover`); `ItemsCover` carries that over the sources
of a database. `Inv` adds what a run in progress knows: the chunks stored and
those still to store are those of the rows read (`Stored`), and a report counts
what the run that made it stored. `GateSound` is about any set of questions and
any ranking for each cue, of one that agidb cuts to k or does not: what is among
the first hits stays there when k grows (`HitPlaces`, `HitsGrow`), and the hits of the three kinds add up to all hits (`ThreeKinds`),
so that a gate that passed has answers of each kind.

`CommandLineProofs` says of a command what it knows between its read and its
write (`WriteInv`): the new text has every line of the text it read but those it
was asked to remove, and what it will report. That is enough for
`FilesKeepTheirLines` because the write either finds the file as it was read, or
excuses it: a second command in between is a race, and the property is about
files without one. `TodoInv` is the order of `homn learning accept`: a rule is
appended only behind its mark, so that a learned rule in any text, temporary
file or command's hand has an answered suggestion (`Sound`), and an answer is
never taken back (`SuggestionsGrow`). `BackupInv` makes `BackedUp` a step from
`copy` to `rename`: an entry of others that somebody read or copied is still in
the file, and one about to be replaced has been copied. `LearningInv` follows each recorder through its three transactions: what
it counted is `Earned` over the rows there were then (`InFlightInv`), rows that
other recorders add do not change that (`EarnedStays`), and it goes with the
suggestion (`SuggestedInv`). `SameCountMeans` is why the count is a run: as many
rows as the threshold, of no more than the threshold, are all of them.
It assumes that the user's own rules are none of the learned ones and the user's
entries carry no mark of ours (`LinesAssumption`), and that the marks for a file
without text and for no suggestion are no values (`MarksAssumption`); the
commands, faults, edits and processes are arbitrary.

| Theorem | Statement |
|---|---|
| `AuditDbProofs!TypeCorrect` | `Spec => []TypeOK` |
| `AuditDbProofs!AppendsNeverFork` | `Spec => []ChainVerifies` |
| `AuditDbProofs!ReceiptsStay` | `Spec => []AckedReceiptsKept` |
| `AuditDbProofs!OpenFindsSchema` | `Spec => []SchemaComplete` |
| `AuditDbProofs!ReadersAreRight` | `Spec => []ReadsAreRight` |
| `McpServerProofs!QuotaRolls` | `Spec => []RollingQuota` |
| `McpServerProofs!StoresAlwaysKeepUp` | `Spec => []StoresKeepUp` |
| `McpServerProofs!ForgetStaysHonest` | `Spec => []ForgetIsHonest` |
| `McpServerProofs!ToolsAlwaysShowWhatIsStored` | `Spec => []ToolsShowWhatIsStored` |
| `TextProofs!NoLineGoesMissing` | `Spec => []NoLineIsLost` |
| `TextProofs!PolicyAlwaysApplies` | `Spec => []PolicyIsApplied` |
| `TextProofs!RedactionAlwaysExact` | `Spec => []RedactionIsExact` |
| `TextProofs!ExtractionExact` | `TextSpec => []ExtractionIsExact` |
| `EvalHarnessProofs!CaptureCovered` | `Spec => []EpisodesCoverTheCapture` |
| `EvalHarnessProofs!GateSound` | `Spec => []GateIsSound` |
| `CommandLineProofs!RulesAreEarned` | `Spec => []LearnedRulesAreEarned` |
| `CommandLineProofs!LinesAreKept` | `Spec => []FilesKeepTheirLines` |
| `CommandLineProofs!ReplacedIsBackedUp` | `Spec => BackedUp` |

Every invariant and every safety action property that a run checks is proved.
Only model-checked are the five liveness properties: `CatchesUp`,
`DrainTerminates`, `EditsTakeEffect`, `HookReturns` and `ReturnsWhenInputEnds`.
They rest on fairness, and so on ENABLED, of which the prover proves nothing. A
recursive *function* can be reasoned about (`CountUp`, `Recursion`,
`RecursionByRank`); a RECURSIVE operator cannot, and no module declares one.

## 5. Not modelled

* **Two capture daemons over one database.** The control socket's file is
  removed on bind, so that nothing keeps a second daemon out; `CaptureDaemon` is
  one process. Its dedupe, sessions and watermark are stated per process.
* **The LLM client** (`llm.rs`): a blocking HTTP call behind a feature, not wired
  into the daemon; of its reply only `first_json_object` is modelled.
* **The detectors' regular expressions** and their names: a capture carries the
  matches.
* **Rendering** (`homn-tui`, the tables `homn log` and `homn eval` print),
  **argument parsing**, **serialisation** (`homn-types`, JSON-RPC), **socket
  framing** and the **configuration's parsing**: pure I/O or data without state.
* **`homn-eval/src/ops.rs`** (latency and disk measurements) and the overrides of
  `schema.rs`, which rename columns.
* **The setup wizard's questions and the service manager**: a setup is its
  answers, `service` is whether one is installed.
* **The window-size watcher** of the wrapper, and `event_bus.rs`, which has no
  publisher.
