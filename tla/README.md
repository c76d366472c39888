# xor-net in TLA+

xor-net runs 1-bit and 1.58-bit language models on CPUs: a Rust library, a
command line, an OpenAI-compatible HTTP server and Python bindings. This
directory keeps TLA+ models of it, of two kinds. The parts whose correctness
depends on the order of many steps are state machines: the server's queue and
threads, continuous batching, the generator and the state it reuses from request
to request, the prompt cache, speculative decoding, the text filters, the tasks of
the fused layers. The parts that compute one thing from another are operators,
compared with reference definitions on inputs chosen at the boundaries: the
reading of HTTP and of requests, sampling, detokenizing, every integer kernel and
packed layout, attention and whole forward passes, the loading of checkpoints. TLC
checks every model on a small instance; TLAPS proves theorems about the state
machines for every instance.

Paths below are relative to the repository's root (the crate `src/`, the binary
`server/`); `PROJECT.json` maps each definition to its lines.

- [The system](#the-system): inventory of components
- [The models](#the-models): which module models what, and how
- [The runs](#the-runs): what TLC checks, bounds, fairness, deadlock
- [The theorems](#the-theorems): what TLAPS proves and from what
- [What is not modelled](#what-is-not-modelled)
- [Where code and documents disagree](#where-code-and-documents-disagree)
- [Plan](#plan)

## The system

A request enters by HTTP (`server/serve.rs`), by the command line or from
Python. In the server a **connection thread** parses it, builds a job with an
event channel and a cancel flag, and pushes it on the bounded **job queue**. A
**slot worker** pops it and either runs its own **generator** (one state per
worker) or submits it to the **batch engine thread**, which advances all active
**decode sessions** by one batched forward at a time. Both look up the shared
**prompt cache** for the longest known prefix, keep or restore a **model
state**, prefill the rest in chunks, and decode token by token, plainly or with
a **drafter** whose proposals are verified several at a time. Decoded text goes
through the **stop matcher** and the **reasoning splitter** back to the
connection, as a stream or as one answer.

| Component | State | Operations | Interacts by | Hard behaviour |
|---|---|---|---|---|
| Job queue (`server/serve.rs`) | queue with skip counters, a mailbox and an idle flag per slot, `busy`, `shutdown`, under one mutex and one condition variable | `try_push`, `pop`/`pick`, `finish`, `shutdown` | mutex, condition variable | notification after unlocking, stale idle flags, affinity against starvation, capacity |
| Connections (`server/serve.rs`) | connection counter; per connection: request, receiver, cancel guard | accept, spawn, submit, receive, drop | counter, event channel, cancel flag | a client leaves at any time; limits; panicking engines; kept connections |
| Batch engine (`server/batcher.rs`) | active sessions, a state per slot, held tokens, channel of submissions | `generate`, `admit`, `engine_loop`, drop | channels, cancel flags | cancellation against completion, failed forwards, unbounded drain, shutdown |
| Decode session (`src/batch_session.rs`) | fed tokens, pause points, sampler, pending text | `start`, `input`, `feed`, `into_state`, `step` | called by the engine | chunking under a shared budget, pause points, poisoned states |
| Generator (`src/generation.rs`) | model state, tokens believed in it, current request | `generate_impl`, `run`, `release_state` | prompt cache, model, drafter | reuse of a state after errors, aborts and rollbacks |
| Prompt cache (`src/prompt_cache.rs`) | slab of entries, index by block hash, list of short entries, bytes, tick | `lookup`, `contains`, `record_hit`, `insert`, `clear` | mutex, shared by all requests | hash collisions, check-then-insert, eviction |
| Model state (`src/models/traits.rs`, `src/models/q1/qwen35.rs`) | KV rows, recurrent part, length, checkpoint, pending verification | `forward`, `forward_provisional`, `truncate`, `commit`, `checkpoint`, `snapshot`, `restore`, `reset` | owned by a generator or a session | a recurrent part cannot be rolled back; rows behind the length |
| Speculative decoding (`src/generation.rs`, `src/speculative/mod.rs`, `src/models/q1/dspark.rs`) | emitted tokens, drafts, drafter's context rows | draft, verify, emit, commit, `rewind`, `observe` | state, drafter, sampler | must not change the output, budget and context limits, stale rows |
| Text filters (`src/generation.rs`) | pending text of the matcher and the splitter | `push`, `finish` | called per token | stop strings and tags split over tokens |
| Detokenizer (`src/generation.rs`) | a window of tokens and the text shown | `StreamDecoder::push`, `finish`, `diff_suffix` | tokenizer, text filters | characters of several tokens, spaces dropped at the start of a text, trimming the window |
| Sampler (`src/sampler.rs`) | stamped counts, scratch buffers | penalties, filters, draw, `distribution` | called per token and per draft | several paths for one distribution, ties, NaN and infinite logits, counts left by other calls |
| Drafting (`src/speculative/lookup.rs`, `mod.rs`) | decayed acceptance counts, probe counter | `draft`, `get`, `update` | called by the speculative loop | a length of zero must not be for ever; windows and overlapping repetitions |
| HTTP (`server/http.rs`, `server/serve.rs`) | a buffered stream, the requests served | `read_request`, bodies, chunks, limits, `write_*`, the loop and its routes | connection thread | bytes arrive in any pieces and stop anywhere; keep-alive; limits |
| Request parsing (`server/api.rs`) | none | `parse_request`, `resolve_max_tokens`, response bodies and stream chunks | connection thread | three dialects, aliases, nulls, ranges; a stream must say what a body says |
| Forward passes (`src/models/q1/qwen3.rs`, `qwen35.rs`, `batch.rs`, `flash.rs`, `mod.rs`) | KV rows, convolution history, DeltaNet states | `forward_tokens`, `forward_batch`, provisional forwards and commits, attention | generator, batch engine | a row must not depend on what else is in the batch; offsets of rows, heads and chunks; replay of accepted drafts |
| Position caches (`src/models/q1/mod.rs`, `src/nn/fast_attention.rs`, `src/models/llama/causal_lm.rs`) | rows of all heads in one buffer | `reserve`, `store`, `truncate`, copies, `grow_to` | forward passes | nothing is cleared: growing and restoring must move each head's rows |
| 1-bit kernels (`src/bit1/`) | planes of sign bits and scales | quantization, dot products of five instruction sets, products cut into tasks | linear layers | layouts, tails, saturating instructions, rows written by several threads |
| 1.58-bit kernels (`src/bit1_58/`) | packed rows, sparse blobs | packing, nine dot products, fused MLP and attention calls | linear layers | digits and tails, unrolled steps, raw pointer writes shared out by a counter |
| Linear layers and loading (`src/nn/dynamic_linear.rs`, `src/loader/`, `src/models/auto.rs`) | the layer each tensor became | int8, int4 and f32 rows; shards, indexes, conversions, containers | models | which representation is chosen; packed rows stored in stripes |

What makes each correct is listed with its run below; `PROJECT.json` lists the
hazards line by line, with the properties that cover them.

## The models

A definition whose name ends in an upper-case M (`FullM`, `KeptM`, ...) is its
namesake with a plausible slip in it. No action uses it; put in place of its
namesake it makes the property named in `PROJECT.json` fail.

**`JobQueue`** (implements **`JobDispatch`**). Every critical section of the
mutex is one action: `Refuse`, `Handoff` and `Enqueue` are the three ways through
`try_push`; `TakeMailbox`, `TakeQueued`, `Sleep` and `Exit` one round of `pop`'s
loop; `Finish`, `Shutdown`. `try_push` and `shutdown` notify after they have
released the mutex, so `NotifyOne`, `NotifyAll` and `ShutdownNotify` are actions
of their own; waiters are the workers whose program counter is `"wait"`, and
`SpuriousWake` is always possible. The affinity callback reads state that
changes all the time, so every call returns an arbitrary score. The history
variable `overtaken` counts overtaking independently of the code's skip
counters. `JobDispatch` says what clients rely on: a bounded waiting room, each
job to one worker, bounded overtaking.

**`Server`** composes the dispatcher (`INSTANCE JobDispatch`) with the accept
loop, connection threads and `run_job`. The accept loop counts first and decides
afterwards (`AcceptConn`, then `TurnAway` or `Spawn`; `TurnAway` is also a failed
spawn). A connection reads, submits, writes the stream's head, receives events,
and returns in two steps as the code drops its receiver before its cancel
guard. A worker looks at the cancel flag before it starts and in every callback,
then sends, ends, finishes and drops the job in separate steps, and may panic.

**`BatchEngine`** is the engine thread, its callers and the decode sessions.
A worker is in `generate` (`"relay"`) until the result arrives, cancelled or
not. The engine's loop is its phases: block on the channel (`Recv`,
`Disconnect`), drain it (`DrainOne`, `DrainEnd`), look at the cancel flags
(`ApplyCancel`), plan and run a step (`Step`), and sweep the sessions one by one
(`StreamOnly`, `Retire`). `Plan`, `Take`, `Allowance` and `Chunk` are the code's
division of the prefill budget and its cut at pause points. A session's private
bookkeeping is one action because nobody else sees it; whatever another thread
sees (flags, channels, published tokens) is stepwise. `content` is what a state
really holds, next to `states` and `held`, what the engine believes.

**`Generator`** is one generator serving one request after another, on the
operators of **`RecurrentOps`** (below). `Start` is `generate_impl`: own prefix
by rollback or checkpoint, or a cached snapshot if clearly longer. `Prefill` and
`AtStop` are `run`'s chunks and pauses; `DecodeOne`, `Draft` and `Verify` decode;
`Finish` and `Fail` are every way out. Of the shared cache it needs only what a
cache may do: forget anything, be filled by others with true snapshots.

**`PromptCache`** (implements **`PromptLru`**) is the cache method by method,
each under the mutex, and its clients' protocol between the calls: a lookup, the
restore, `contains` for each boundary, and insertions later. Hashes are constant
operators, so collisions are a choice of the configuration. `PromptLru` is a
list of entries by age of use, the request each client has looked up (`asked`) and
the entry it was given (`got`): a lookup is one step, a hit the longest entry that
this client's request can use, a miss only if there is none.

**`RecurrentOps`**, **`RecurrentState`** (implements **`ModelState`**) model
`Qwen35State`. A KV row stands for the tokens it was computed from and the
recurrent part for those it has folded in, so stale rows and double or missing
updates show. `ModelState` is the contract of `models/traits.rs`: a token
sequence with a mark, a provisional tail and copies. A refused `truncate` leaves it
untouched, as `traits.rs` says; `DropsTail` is the one step of the code that does
otherwise. Where the trait says nothing (a commit outside its range, a checkpoint of a
provisional tail, the mark after rolling back to nothing) the contract is what the code
does.

**`SpecDecode`** (implements **`PlainDecode`**) is `SpecDecode::decode` with the
greedy sampler. The target is an arbitrary function from the tokens the model
was fed and the tokens penalties look at to a token, revealed on demand
(`oracle`); drafts are arbitrary. `PlainDecode` asks that function for one token
after another. A forward, the drafter or the sampler may fail at any time (`Fail`); so
may the commit or `observe` after the token that ended the request (`FailAfterEnd`):
then everything is emitted but the caller gets the error.

**`RejectionSampling`** is `accept_or_resample` on probabilities that are whole
numbers of parts, so that the emitted token's distribution can be counted.

**`DraftContext`** is the list of context rows of a DSpark drafter, as it
observes commits, is rewound to another request's prefix and flushes rows.

**`OutputFilter`** is `StopMatcher`, `ReasoningSplitter` and `OutputSink` on
sequences of characters, against a reference that sees the whole text at once. The
splitter's loop is three of its turns (`Scan`): each further turn starts behind a tag,
and no text has more than a redundant opening tag, an opening or closing one and a rest.
That the third has returned is part of what is proved (`ScanKeeps`).

`StreamDecoder` and `diff_suffix` stand before the filters in the same module, over an
external tokenizer that has what makes streaming hard: words with a leading space that
disappears at the start of a text, characters of two tokens, special tokens without
text.

**`Sampler`** is `sampler.rs` on integer logits, with NaN and both infinities,
weights that halve per step, and the block, list and band sizes as constants, so
that every path (greedy, full, top-k by list or by selection, nucleus by bands, draw
by blocks) is taken. Counts carry the stamps of earlier calls as the code's do.

**`Drafting`** is `PromptLookup::draft`, a search from the end of the context with
its window, and `AdaptiveK`, whose averages are whole numbers of thousandths.

**`Http`** is the parser and writer of `server/http.rs` and the loop, routes and
answers of `server/serve.rs`. A line that is well formed is one symbol, everything
else (line ends, blank lines, sizes, bodies, pieces as the socket delivers them) is
there; a body may hold symbols that look like a request. **`Api`** is
`server/api.rs`: a body is a function from keys to typed values; parsing yields the
parameters or an error, and the answers are the chunks of a stream or a body.

**`Forward`** computes with terms: an operation's value is the record of what it was
computed from, so two results are equal exactly when the same operations were
applied to the same operands in the same order, which is equality to the bit. Its
buffers are flat and indexed as in the code. Its attention is the blocked,
batch-invariant one of `flash.rs` and the split one of `mod.rs`; its layers are
dense, gated attention and DeltaNet; forwards are of one sequence or several,
committed or provisional. **`PositionCache`** is the buffer of the two caches that
can be truncated, row by row.

**`Simd`** gives the x86 instructions the kernels use, as functions on the elements
of a register (saturation and the pairs they add included). **`Q1Dot`** is the dot
product of one sub-block as each 1-bit kernel computes it, and the binary layers;
**`Q1Gemm`** the stored planes, their import and export, the quantization of
activations, the choice of a kernel, the cutting of a product into tasks and the
order in which blocks are added. **`Ternary`** is
`bit1_58/`: packing, nine dot products, the sparse blob and the layers' constructors,
and the checkpoint's striped packing. **`Linear`** adds the int8, int4 and f32 rows
and the tasks of `dynamic_linear.rs`, **`Checkpoint`** the way from a directory to
its layers. **`FusedMlp`** is a state machine: tasks claim rows by `fetch_add` and
store them one at a time through a shared pointer into buffers whose first
contents are arbitrary.

Modules named `MC...` give the constants of a run their values. `MCServer`,
`MCDecoding`, `MCLayers` and `MCModelStates` also choose the inputs of the
operators a run checks and state what is expected of them; `MCSpecDecode` sets the
decision about a sampled draft, lookups and the rounds of an adaptive length beside
the greedy loop.

## The runs

| Run | Shows | Bounds and why they suffice |
|---|---|---|
| `job_queue` | `IdleSlots`: idle flags and mailboxes mean what `try_push` takes them to mean. `NoLostWakeup`: no worker sleeps on a job although notifications come late. `BoundedOvertaking`: at most `AFFINITY_MAX_SKIPS` later arrivals pass a job, although only the head's counter is looked at. `AllServed`: every accepted job is run, every worker ends after a shutdown. `ImplementsDispatch` | four jobs resubmitted for ever, two workers, capacity three, window 3, one skip: the queue is full, both workers are taken while a job waits, the head is passed by either of the jobs behind it, a job in mid-queue by the last, and the head reaches the limit; jobs are interchangeable, so `AllServed` follows one of them. What more workers could add is in the theorems, which cover every property here but `AllServed` |
| `server` | `ConnectionsCounted`; `RequestsKeptApart`: an answer holds every delta of its own request and none of an earlier one, a slot is busy exactly while a worker has the job; `Answered`, `AbandonedEnds`. `RequestsRead`: requests are read as they were sent and answered once, in order, however the bytes come and wherever they stop. `RequestsUnderstood`: exactly the bodies in range are accepted, and a stream says what a body says | two clients for one connection, one slot, one place in the queue, so that every limit is reached; two request names per connection, so that an abandoned job and its successor meet. Sequences of two of 27 requests (every status, framing and way to end), cut everywhere, in pieces of one, two, five or all; every pair of 54 values of request keys in three dialects |
| `batch_engine` | `RequestOnce`: a request in flight is in exactly one place and answered once; `SlotStates`: what the engine remembers of a slot is true, failed states are not reused; `SessionsExact`: a session is fed every token once and no pause point is jumped over; `StepBounds`: the prefill budget, nobody starved | two slots, prompts of three tokens in chunks of two with an extra pause: chunks end at a pause, at the budget and at the prompt's end |
| `batch_engine_live` | `AllEnds`: every request is answered, the engine thread ends | no prefill budget at all, so prefill progresses only by the token it is owed |
| `generator` | `StateInStep`: the state holds what the generator believes after any history and accepts its forwards; `CacheTrue`; `SampledFromAll`; `ReusesCheckpoint` | three prompts that extend and leave one another, context of five |
| `prompt_cache` | `Indexed`; `FoundIsUsable`: what a lookup returned is of the request's own model and a prefix of its prompt; `ImplementsLru`: lookups hit and miss, and insertions evict, as the LRU map does | hashes that are the block's last token only; prefixes of one to four tokens with blocks of two; a budget of one or two entries; a third request after two concurrent ones |
| `model_states` | `StateExact`: rows, recurrent part and checkpoint are of one sequence; `KeepsContract`; `RowsTrue`: every row that is read is of the tokens held; `KeepsTrueRows` | three positions, two tokens, one or two snapshots: enough to roll back, refill with other tokens, grow, snapshot and restore; drafter's batches of two |
| `spec_decode` | `ImplementsPlain`: same tokens, same finish; `StateFollowsOutput`; `WithinBudget`; `FollowsTarget`: rejection sampling keeps the distribution; `DraftsTrue`: a lookup drafts what followed the latest of the longest repetitions (`LookupsFollow`), an adaptive length keeps its bounds and probes (`LengthsPaced`) | drafts of up to two, five completion tokens, a stop id, a token that completes a stop string; all distributions over four tokens in quarters; contexts of six tokens, windows shorter and longer than what repeats; four rounds with a probe every three, so that one falls due, with short and long times and every outcome |
| `decoding` | `OutputExact`: no stop string is shown and the tags split the text alike in all pieces; `SamplesTrue`: every path draws what `distribution` says, counts are of this call; `DecodedWhole`: streamed text is the whole text | every text of six characters over both tags, a newline and stop strings that begin inside one another and inside the tags, in all pieces of one or two; all logits over three tokens with NaN and infinities, blocks of two and three, so that lists overflow and bands split; streams of five tokens with a window trimmed at two |
| `layers` | `FusedExact`: no row is claimed twice and outputs are all of this call; `DotsExact`: every kernel's dot is the sum; `CellsOnce`: each element is written by one task in the canonical order; `LayoutsKept`: what is packed, copied or transposed is what was there; `ForwardsAlike`: alone, in parts, in batches and provisionally, same bits | lengths below, at and above each vector, step and block; activations at -127 and 127, where saturation would show; row counts that leave short groups, slabs and tiles; two layers of each model with more heads than KV heads, padding rows, batches of up to three items of up to four tokens |
| `sparse_container` | `ServedFromContainer` does not hold: see below | one small model, converted and loaded |
| `refused_truncate` | `RefusalLeavesState` does not hold: see below | as `model_states` |

In `server`, `decoding`, `spec_decode`, `model_states` and `layers` the operators and the smaller
state machines stand beside the large one: a variable (`wire`, `job`, `which`) says
which of them a behaviour is about, and an input is chosen by one step from the
initial state.

Every bound is a CONSTANT whose declaration says so ("bound: ..."); the actions'
guards keep within it and none of them cuts a handler in half.

**Symmetry** is used for the cache's clients, in a run without liveness properties; the
model never compares or orders them.

**Fairness.** A thread that is not blocked keeps running: weak fairness of each
worker's `pop`, of each notification still due, of the engine thread, of a
connection that has an event or a dead sender, and of a worker inside a job
(an engine reaches its next callback or its end). Nothing obliges a client to
submit, to leave or to read, an engine to panic, or the condition variable to
wake anybody by itself. `BatchEngine` assumes in addition strong fairness of
`DrainEnd`: the drain loop has no bound in the code, and it ends because a worker
has to be woken, answer its client and pop another job before it can submit
again. `AllServed` (`IsRun` and `WorkersExit`) is conditional on shutdown as
the code is: jobs queued at a shutdown are dropped. `Answered` and `AbandonedEnds` exempt
what waits after panics have ended every worker: a panicking engine takes its
slot with it (no `finish`), and once no worker is left, queued jobs stay; the
client whose job panicked is told so.

**Deadlock** is checked except where the system really stops: after a shutdown
all workers have ended (`job_queue`), after the runner is
dropped the engine has ended (`batch_engine`, `batch_engine_live`), the bounds
on uses and lookups are exhausted (`prompt_cache`), a call has returned (`layers`),
an input has been looked at (`decoding`, `layers`) or a model has been loaded
(`sparse_container`). A request that has ended (`SpecDecode`, `OutputFilter`,
`RejectionSampling`) stutters explicitly, and so do a lookup that was made and a
controller after the last of its rounds (`Seen` in `MCSpecDecode`).

## The theorems

The theorems hold for every value of the constants that meets the module's
ASSUME. They use the standard theorems on sequences and finite sets.

`JobQueueProofs`:

- `TypeCorrect`: `TypeOK` is inductive.
- `NoStarvation`: `BoundedOvertaking` for any window, skip limit, capacity and
  number of workers. It is not inductive by itself. The invariant `QueueInv` adds
  that skip counters do not increase along the queue and stay within the limit
  (`SkipsOrdered`, which is why looking at the head protects all), that a queued
  job's `overtaken` equals its counter, and that no job is queued twice.
- `IdleSlotsInvariant`: idle flags and mailboxes, by induction from `TypeOK`.
- `WakeupsNotLost`: `NoLostWakeup`. Adding or removing one element of `Awake` or
  of `Signals` changes a cardinality by one, and each action trades a queued job,
  an awake worker and a pending notification against one another. The shutdown
  case needs `ShutdownWakes`: workers that sleep after `shutdown` have its
  broadcast to come.
- `CountersInvariant`: `busy` is the number of running workers, and what is queued or
  in a mailbox stays within the capacity.
- `DispatchKept`: `JobQueue` implements `JobDispatch`. `Placed` says that a job is at one
  position of the queue, in one mailbox or with one worker, so that the dispatcher's
  sets are as large as the queue's counts (`OneEach`). A handoff finds a free worker
  because an idle slot neither has mail nor runs (`OneIsFree`); a job taken past the
  head overtakes only jobs passed over fewer than `MaxSkips` times, because counters do
  not increase along the queue (`TakeQueuedStarts`). Signals, sleeping, wake-ups and
  refusals are stutters.

`SpecDecodeProofs`:

- `Lossless`: `SpecDecode` implements `PlainDecode` for every vocabulary, target,
  drafter, draft length, budget and context. The inductive invariant `Inv` says,
  phase by phase, what the state, the output and the drafts have to do with each
  other: `Agreed` (each accepted draft is the target's choice after the tokens
  before it) and `Keeping` (while drafts are emitted the output is the tokens at
  the verification and the drafts kept; the target's own token after them is
  known). Two facts carry the proof: row i of a verification is judged after
  exactly the tokens plain decoding would have fed and with the penalties it
  would have applied (`BatchPrefix`, `VerifyRowStep`), and `Emitter::token` on a
  token the target chose is a step of plain decoding (`EmitIsPlain`). A failure after
  the last token (`FailAfterEnd`) maps to a stutter: nothing is emitted any more.
- `BudgetKept`, `StateFollows`: `WithinBudget` and `StateFollowsOutput` follow from
  `Inv`.
- `TargetFollowed`: `FollowsTarget`, for any finite vocabulary, any target and drafter
  distributions in parts of `Unit`, and any `Grid` of uniform draws that every weight
  divides. `TotalSteps` makes a total a sum of one token's part after another, and
  `TotalAdd`, `TotalScaled` and `TotalOne` are inductions over subsets of the vocabulary
  (`Subsets`). `Rejected` counts the draws that reject a draft; the rest is algebra: what
  of the target exceeds the drafter adds up to what of the drafter exceeds the target
  (`Excess`), so what is rejected is just what the residual gives back
  (`SampledDrafter`, `CertainDrafter`). A draw exactly at `p / q`, an empty residual and
  a q of zero are cases of the proof.
- `DraftsAlwaysTrue`: `DraftsTrue`, from the next two.
- `LookupsAlwaysFollow`: `LookupsFollow`, in any context and with any settings. Where a
  part of the context equals its end (`OccursIs`), the position behind it repeats the
  end element by element; the longest and the latest of finitely many exist
  (`LargestOf`). An occurrence always has a token after it, so the empty draft is for
  contexts that repeat nothing.
- `LengthsAlwaysPaced`: `LengthsPaced`, for any greatest length and any `ProbeEvery`,
  whatever is accepted and however long it takes. `LengthsInv` bounds the rounds in a
  row without drafts by `idle`, and `Controller` has that below `ProbeEvery`. That there
  is a best length needs every estimate to be a number: the fit through the measured
  sizes divides by their spread, which is positive for two different sizes (`SpreadIs`,
  an induction over sets that adds each number's squared distances); and among finitely
  many ratios a first one leads, because being better is passed on (`Leads`, `Passed`).
- `PenaltiesExact`: the part of `SamplesTrue` about penalties, for all calls in any
  order, vocabularies of any size and stamps that wrap after any number of calls. The
  invariant of the memory between calls is `Sound`: no stamp is ahead of the generation.
  So the next generation finds no token stamped (`AllOld`, `NextGenIs`; where the
  generation wraps, the stamps are cleared), and what is stamped afterwards was seen by
  this call (`SeenIs`, in whatever order the fold takes the part's tokens). That the two
  parts of the tail are the window over prompt and output is `TailUses`.
- `DrawsInProportion`: the part of `SamplesTrue` about drawing. The sums of the
  beginnings of the weights only grow (`SumsUp`, `Ordered`), so the draws that pick an
  entry are an interval between two multiples (`Ceiling`, `InverseCdf`); the first block
  whose sum passes the draw holds the first entry that passes it (`DensePicks`).

`PromptCacheProofs`, for any hash function, block size, capacity and clients:

- `IndexExact`, `StoredOnce`: `Indexed` and `NoDuplicates`, together in `CacheInv`.
  Neither stands without the other: `find_exact` looks only under the key of the
  longest block prefix, so it misses no duplicate only because the index lists
  every entry under all keys of its tokens; and eviction leaves no trace only
  because each entry is one.
- `LookupsUsable`: `FoundIsUsable`. A client between `lookup` and its use of the
  result holds an entry of its request's model that is a proper prefix of its prompt,
  whatever the others insert or evict meanwhile. That the longest candidate exists is an
  instance of well-foundedness (`MinIsLeast`).
- `CacheIsLru`: `ImplementsLru`, the refinement of `PromptLru`: each client's lookup is
  a hit on the longest entry for its own request, or a miss because there is none, and
  each insertion evicts from the old end of the list no more than it must. `LruInv` adds to
  `CacheInv` what the mapping needs: ticks of use differ and are past (`Ordered`,
  `Recent`), `bytes` is the sum of the entries' (`Priced`), and boundaries are at least
  `MinTokens` long. The mapping `ByUse` lists the entries by their ticks; since an
  enumeration by increasing numbers is unique (`EnumerationUnique`), a step's new list
  is found by exhibiting one: the touched entry moves to the end (`ListTouched`), a
  stored one follows those from a position on (`ListAdded`). `VictimsAre` finds that
  position, the first from which on the entries fit beside the new one: sums over sets
  are folds whose order does not matter (`SumWithout`, `SumSplit`), so evicting one by
  one stops exactly there. `FindLongest` is the argument about hashes: whatever entry is
  found under the deepest key is a prefix of the same prompt and not longer than the
  longest usable entry, so each of its keys is one of that entry's (`KeysOfPrefix`) and
  that entry is listed there too; colliding entries change nothing.

`ModelStatesProofs`, for any tokens, context length and number of snapshots, and for any
number of heads, capacity and tag of a row:

- `StateAlwaysExact`, `SnapshotsAlwaysExact`: `StateExact` and `SnapshotsExact` from
  `StateInv`. One predicate `Good` on a state's fields carries the proof: rows as
  far as the length are of the held tokens, what is held is the recurrent part and
  the provisional tail, a checkpoint is a prefix of the recurrent part. Each
  method has a lemma of its own (`Forwarded`, `Dropped`, `Committed`, `RolledBack`,
  `Truncated`, `Checkpointed`, `Snapped`, `Cleared`, `Restored`) about a state of any
  origin; `GeneratorProofs` cites them. `OverlaidProps` is why stale rows do no harm.
- `ContractKept`: `RecurrentState` implements `ModelState`, with one step of the
  contract for each call. What is refused changes nothing, except that a refused
  `truncate` drops a pending verification (`DropsTail` in `RollBackStep`).
- `RowsAlwaysTrue`: `RowsTrue`, of the three machines of the run together. For the
  drafter's context (`DraftInv`) the committed and the pending rows, taken as one list,
  ascend, lie below the tokens fed and are each of the prefix up to their position; a
  rewind keeps the rows before a position, which are a prefix of that list
  (`BeforeAll`), up to the longest common prefix with what is fed next (`CommonIs`,
  `RewindStep`), so what is appended still ascends (`RowsAdded`). For the position
  cache (`CacheInv`) the row of head h at position p is at h times the stride plus p,
  in the cache with its capacity for stride and in a copy with its own length:
  `Index` is the fact that two such places never meet, `RegrownAt` what a growth
  leaves where.
- `TrueRowsKept`: `KeepsTrueRows`, an action property, because a rewind drops no row
  that is still of the tokens fed.

`ServerProofs`, for any number of clients, workers and waiting requests, and any limit:

- `LimitKept`: `ConnectionsCounted`. The counter is raised before the limit is
  looked at, so the invariant alone is not inductive: `Accepting` adds that while
  a connection is being accepted no more are live than were counted before it.
- `AnswersKeptApart`: `RequestsKeptApart`, from `JobInv`. `Queued`: a request that
  has not been started has no worker and waits in one place at most. `Held`: the slots
  reserved and held stay within the workers. `Following`: while a connection waits,
  what it has got and what its channel holds are what its worker sent, a result is
  the last event of the channel, and the worker that sent it sends no more. An
  abandoned job goes on under a name its connection no longer uses, beside the
  connection's next request: `SubmitKeeps` is where the two could meet and do not.

`BatchEngineProofs`, for any number of slots, chunk sizes, budgets, prompts and pauses,
from one invariant `Inv`:

- `RequestsAnsweredOnce`: `RequestOnce`. `Placed` says of a slot that its request is
  in the channel, in a session or answered, in no two of them, and that only a worker
  inside `generate` has one; `Distinct` that a place holds it once. That is why
  `admit` always finds the slot free (`AdmitKeeps`), and why the result that the
  retire loop or `admit` appends ends a channel without one (`ResultAppended`).
- `SlotsRemembered`: `SlotStates`, from `Remembered` and `Placed`: the slot of a
  session that leaves has no other session (`RetireKeeps`).
- `SessionsFedExactly`: `SessionsExact`. `Sound` adds to it that the end of the prompt
  is a pause point and the last one, and that a session that goes on has a token left
  to sample. `InputsSound` shows that a planned chunk is not empty and ends at the next
  pause at the latest, `FeedSound` that the bookkeeping after the forward keeps `Sound`,
  and `StepKeeps` that each slot's state is fed what its session counts.
- `StepBounded`: `StepBounds`. The loop that plans a step lowers the budget left by what
  it gives each session; `SpentFollows` says what is left and what is spent together,
  that after each session they add up to the budget unless the one token owed to the
  oldest prefill has been lent (`LeftFollows`, `TakeBounds`). `LeftNat` and `SpentBound`
  are inductions over the list of sessions, as the absence of a least counterexample.

`GeneratorProofs`, for any prompts, tokens, chunk size, draft length and context:

- `BeliefIsTrue`: `StateInStep`, from `GeneratorInv`. Its state-facing half rests on
  the method lemmas of `ModelStatesProofs`, instantiated for the generator's state
  (`State`): `Believed` says that the state holds `fed` and the verification in flight,
  and `Good` stays when nothing is believed any more, so that a request after an error
  or an abort may reset or restore what it finds (`FailKeeps`, `PreparedIs`). A
  forward of a prefill is accepted because the next stop is never behind what is fed
  (`Prefilling`, `PieceIs`).
- `CacheIsTrue`: `CacheTrue`. What is inserted at a stop is filed under the prompt's
  tokens up to there, and these are the tokens fed (`AtStopKeeps`).
- `AllIsSampledFrom`: `SampledFromAll`. A kept or restored prefix is a proper one of
  the prompt (`ReusableIs`, `FoundIs`), so some token is fresh; a verification is no
  longer than the budget left (`DraftKeeps`).
- `CheckpointIsReused`: `ReusesCheckpoint`, an action property. `ReusableIs` bounds what
  `reusable_prefix` keeps from below: if the state cannot be cut to the common prefix,
  a checkpoint within it is where it is cut.

- `OutputAlwaysExact`: `OutputExact` of `OutputFilter`, for any alphabet, tags, stop
  strings and pieces of text. Assumed is what holds of `<think>` and `</think>`, that the
  closing tag is no part of the opening one, and what `StopMatcher::new` sees to, that no
  stop string is empty. `OutputExact` is not inductive: it does not say where a tag or a
  stop string may still begin. `Free(x, tag, n)` does: at none of the first n places of
  x does the tag begin, as far as x shows; it stays true when x grows (`FreeExtended`),
  and what is held back is long enough to keep it (`MatchedStep`, `StillOutside`,
  `StillInside`). `Ready` says where in the text the splitter's loop is (`AtStart`,
  `Outside`, `Inside`, `After`) and what of the text it has released, held back or
  dropped; `Splits` adds what is true when `push` has returned. A turn of the loop takes
  `Ready` to `Ready` or to `Splits` (`LookKeeps`), only forwards, so that the third
  returns (`ScanKeeps`). `Passed` joins matcher and splitter, and `FilterInv` is the
  invariant; at the end `FlushIsExact` says that what is left completes the reference.
- `StreamedWhole`: what `StreamDecoder` gives out for any tokens, with the flush, is the
  text of all of them decoded at once behind the prompt. Assumed of the prompt is that
  it ends with a whole character and that the end `new` keeps shows text if any of the
  prompt does: behind a prompt of which only special tokens are kept, the first word
  would lose its space. The text of joined tokens is the joined text of both when the
  first are `Whole`, their last visible token being no first half of a character
  (`FromSplits`); so the text with the new tokens begins with that without them, its
  bytes are more exactly when something new is shown (`MoreBytes`), and `diff_suffix`
  finds where it begins (`DiffIs`). `push` waits at a replacement character, so what goes out
  always ends whole (`Hidden`, `PassesOn`), and dropping what lies before the window
  changes nothing that is decoded later. `Follows` is the invariant of the run:
  what went out is the text of all tokens but those that wait.
- `DecodedAlwaysWhole`: `DecodedWhole`, from `StreamedWhole` and `PromptsEnd`: the
  prompts of the run are such prompts in every context of two tokens or more.

`LayerProofs`, for any number of tasks, sizes of layers and of claims, for all
sign bits and int8 activations of a sub-block, and for rows of any length:

- `RowsWrittenOnce`: `FusedExact`. The invariant says of each row of the running
  scope that it is unclaimed, held by one task, or stored (`Stored`); that held
  rows are disjoint and behind the counter (`Claims`), because `fetch_add` moves it
  by at least one row; and that a task which has ended saw the counter past the
  last row, so that rows are all stored once all tasks have ended (`AllStored`).
  `PlaceInjective` and `PlaceOnto` say that `compute_row` maps rows to the elements
  of the outputs one to one.
- `Q1KernelsExact`: each of the eight integer dot products of `Q1Dot` is the scalar
  one, which no run can say of all 2^32 words and 255^32 blocks. A sum over a set and
  a fold over a sequence are functions that CHOOSE picks; `FoldExists` and
  `FoldUnique` say, by induction on the size of finite sets, that there is one, and
  `AnyOrder`, `TotalUp` and `FoldAlong` how it may be taken apart. Every kernel is then
  a sum over the eight groups of four bytes (`GroupTerms`): the permuted copy brings to
  group g just the activations whose bits `Expand` leaves in it, which are column g of
  the sub-block (`Total32`). What makes the 16-bit kernels exact are bounds: a pair of
  bytes 0 .. 2 with activations -127 .. 127 is at most 508 in size and does not
  saturate (`PairsFit`), eight of them do not wrap (`AddFits`), and neither does the
  vphaddw tree of the AVX2 kernel, whose 128-bit halves `TreeIs` follows
  (`RowOfEight`).
- `Q1LayoutsExact`: the copies of `quantize_blocks_avx2` are those of
  `quantize_blocks` (`Copies`), and `load_words8` and `load_words16` transpose. An
  unpack exchanges binary digits of the indices of register and lane
  (`UnpackDigits`), so that after three or four of them, and the moves of 128-bit
  lanes, the two indices have changed places (`Eight`, `Sixteen`).
- `TasksOnce`, `LinearKernelsExact`, `TernaryKernelsExact`, `BinaryKernelsExact`,
  `PackedRowsExact`: what the run checks at chosen lengths, with blocks of eight, at the
  real block of 64 and every length. All rest on how a sum is taken apart: renamed
  (`TotalMoved`), cut (`TotalCutAt`), by whole chunks of a width (`TotalChunks`), and in
  any plan that takes each chunk once (`TotalPlan`). A kernel is then its chunks, once
  each, and a tail (`ChunksAndTail`), and what is left to say is its own:
  - rows and tokens are cut into chunks that cover them once, the last one clipped
    (`CutOnce`, `GridOnce`, `TokensOnce`);
  - vpmaddwd on sign-extended bytes does not saturate (`MaddIs`); the VNNI kernel takes
    eight groups at a time and then one (`UnrolledOnce`, `VnniPlanOnce`), and its zero
    point, 128 times the sum of the elements of whole vectors only, cancels
    (`ZeroPointSum`, `I8Vnni`); the f32 kernel's four accumulators take every fourth
    chunk (`F32Avx2`);
  - multiplication, table, masks and code sums decode the same weight from two bits
    (`Decoders`), two products of the table kernel fit in 16 bits (`SignedSum`), and
    codes 0 .. 3 exceed the weights by one, so that the activations' sum is taken off
    (`DpLess`, `Vnni4`);
  - the 16 entries of the nibble table count where bits agree (`NibbleAgrees`), and
    padding bits are counted and taken off again (`SignedIs`), so they may hold
    anything (`XnorChunks`);
  - a byte's digits come back because what is added to each is a multiple of its base
    or less than it (`FourCodes`, `FiveCodes`), also in the last byte, which has fewer
    (`PackedFour`, `PackedFive`).

Only model-checked: all liveness properties (they need ENABLED); of
`SamplesTrue`, which entries the filters keep (`decoding`; sorting, the top-k buffer and the
bisection of the nucleus); `RequestsRead` and `RequestsUnderstood`
(`server`); and of `layers` `ForwardsAlike`,
the tiles of 1-bit products (`CellsOnce`), the int4 layer and sparse rows decoded from a
container (`DotsExact`), and what `LayoutsKept` says of files, stripes and scales. No theorem
states `DotsExact` or `CellsOnce` itself: the run's module reaches `Q1Gemm`; their parts
are the theorems above, at other constants and all lengths.
The refinements that the runs check are proved. `Http` and `Q1Gemm` declare RECURSIVE
operators (loops over bytes and rows), so nothing is proved about them. The other loops
are recursive functions or folds. Where a theorem needs what they compute for every
input, the induction is spelled out, over a set of numbers with a least element outside
it (`Naturals` and `LeastNat` in `LayerProofs` and `SpecDecodeProofs`; `Counting` and `Recursion` in
`GeneratorProofs`; `LeftNat` in `BatchEngineProofs`); for loops
whose state has many parts, such as those of the ternary tables, this is not done.

## What is not modelled

- Floating point: a float operation is a term (`Forward`, `Q1Gemm`) or an exact
  number (`Sampler`, `Linear`); rounding, fused multiply-adds against separate ones
  and the vectorized exponential are out of reach. So are norms, activations and the
  rotary frequencies.
- The drafter's 4-bit kernels (`src/bit1/q4_1.rs`), the f32 attention of the Llama
  models (`src/nn/fast_attention_simd.rs`) and the DSpark network: vector code whose
  results are defined by rounding.
- GGUF and the bonsai container (`src/loader/gguf.rs`, `bonsai.rs`): byte-by-byte
  readers of trusted files, without state; the quantized planes they deliver are in
  `Q1Gemm`.
- `server/config.rs`, `server/engine.rs`, `server/main.rs`: options and adapters; the
  calls they make are actions of `Server` and `BatchEngine`.
- The Python bindings (`src/python.rs`): conversions of arguments around one generator
  and a producer thread with an unbounded channel.
- The vision network and the command line: sequential code, nothing outlives a call.
- JSON text, wording and timings of answers: `Api` starts from parsed values.

Every part is listed in `PROJECT.json` with its status.

## Where code and documents disagree

- `docs/formats.md` says that with sparse weights requested a `model.sparse` next to
  the safetensors is served from. Run `sparse_container` shows that it is not:
  `serialize` writes a magic of nine bytes and then the version, `from_bytes` looks for
  the version one byte earlier, so each container is refused and passed over.
- `models/traits.rs` says that `truncate` returns false "leaving the state untouched"
  if the state cannot represent the prefix. Run `refused_truncate` shows that
  `Qwen35State` does not while a verification is pending: it drops the provisional tail
  first and may then find that it can roll back to neither the length nor the
  checkpoint. The generator commits every verification, or gives its state up, before it
  truncates, so nothing depends on it; `KeepsContract` names the step (`DropsTail`).

Met while modelling, and kept out of the models' inputs, each where the named
definition says so:

- `quantize_blocks_avx2` is said to be bit-identical to the scalar quantization; for
  a block whose largest magnitude is so small that its inverse overflows, the vector
  code stores other codes (`QuantizeBlockAvx2`, the `Tiny` of `Q1Gemm`).
- `new_sparse` is said to ternarize "exactly as `TernaryLinear::new` does"; for rows
  that are ternary already and a given scale that is negative or above two it keeps
  them and `new` does not (`TernarizedRow`).
- `new_sparse_from_packed` unpacks all rows as one stream, which is right only if a
  row fills its last byte (`NewSparseFromPacked`; `layers` checks that case).
- `fused_mlp_gate_up_down` is introduced as taken "even when `down_proj` is
  Int8/F32"; `Mlp::forward` calls it for Int8 only, and an F32 layer could not read the
  quantized activation (`DownForward` of `FusedMlp`).
- `convert_sparse` reads a packed tensor row by row and does not undo the striped
  order that `get_prepacked_ternary` undoes (`Transposed`, and the converter in
  `Checkpoint`).

## Plan

Done, in order of importance: the queue and its abstract dispatcher, the batch
engine, the generator over the recurrent state, the prompt cache and its LRU map,
speculative decoding, the server's connections, the drafter's context, the position
caches; then sampling, drafting and detokenizing, HTTP and requests, kernels and
layouts, forward passes, loading.

Left, should the models grow further: `TextStream` of the Python bindings (producer
thread, channel, drop), the bounds of the GGUF reader, the 4-bit kernels under
`DotsExact`, the buffer plan of the vision graph.
