# Verification of EXL3-AMD

TLA+ models of the parts of EXL3-AMD whose correctness is a matter of ordering
and of agreement between steps far apart: who may use the GPU and the one
resident engine, what happens when clients leave, time runs out, work fails or a
process is killed, which state is given back or reused afterwards, and whether
what was checked is what is used.

## 1. The system

EXL3-AMD serves quantised language models on AMD GPUs. Its own code is a
launcher (`scripts/launch_runtime.py`), a resident engine with an HTTP adapter
(`scripts/serve_exl3.py`, `src/quantlab/server.py`), parsers and accounting
(`src/quantlab/*.py`) and packaging and measurement scripts. It carries a
modified copy of the ExLlamaV3 library (`vendor/rocm-exl3/exllamav3`) whose
generator owns the paged KV cache.

| Component | State | Operations | Talks to | Correct when |
|---|---|---|---|---|
| Launcher | lease file, stop file, child process, monitor record | `lease`, `worker`, `terminate_group`, `clean_server_stop`, the Windows parent | operating system, model process, telemetry | one model at a time, a limit is never taken for a clean stop, every lease is returned |
| Startup | options, argv, what the native binary exports, patches installed | the parsers and checks of the launcher and its three children, `compat`, `optimizations`, cache precision and policy | launcher, engine, evaluator | the child runs what was asked, nothing accepted is refused later, no kernel runs that the binary lacks |
| Evaluator | plan, running case, results, report | `speed`, `generate`, `context` and the other modes, comparison with a reference | generator, files | "completed" and exit 0 mean every case ran and matched |
| Engine | health and activity flag, persistent generator, counters, one async generator per request | `prepare`, `generate`, `status`, `shutdown` | server (calls, yields), Generator | one generation at a time, fails closed, reuse only of clean state, counters add up |
| Server | `_Gate` (lock, waiters), per request: watcher task, stream task, engine task, deadline | the chat and completion handlers, `_acquire`, `_pull`, `_settle`, `_ClosingStreamResponse` | engine, ASGI server, clients | everything is given back on every exit, bounded queue, no engine work for a caller that left, nobody blocks the slot for ever |
| Request validation | none; the client keeps the conversation | `_check_messages` and the other checks, `Engine.prepare` | server, client | what the server sends it takes back, results are paired as the template reads them, every control is honoured |
| Tool and reasoning parsers | split buffers | `feed`, `flush`, `parse_response` | engine | streaming equals parsing the whole text, only whole and permitted calls are sent |
| Page table | pages: reference count, content hash, previous hash, valid length; referenced and unreferenced maps | `allocate_pages`, `deallocate_pages`, `evict`, `build_eviction_order`, `defrag` | Job, CPU page cache | a page is in exactly one map, no referenced or protected page is evicted, allocation never starves |
| Job and scheduler | sequences, positions, held pages, banned-string checkpoint; pending and active jobs | `enqueue`, `cancel`, `iterate`, `prefill`, `receive_sample` | page table, recurrent cache | a page carries a content hash only when its contents are complete |
| Conversion | identity, arguments, three checkpoint directories, packed modules, compiled candidate | `freeze_identity`, `prepare`, the module loop, checkpoint, `compile_model` | files, operator | killed and resumed at will, it yields one model of one set of inputs |
| Head recovery, assembly | recovered rows, assembled checkpoint, their manifests | `recover_mimo_head`, `assemble_mimo_head_checkpoint` | conversion's files | rows and checkpoint are those the manifests name, every file is one its readers accept |
| Packaging | output directories, external reports | `package_mimo_exl3`, `package_mimo_mtp` | candidate, source, donor | a report that says complete describes what stands in the directory |
| CPU page cache, recurrent cache | byte budgets, LRU order | `put`, `get`, `prune` | page table | budget respected, no checkpoint without its pages |
| AsyncGenerator | iteration task, condition, queues | `enqueue`, `close`, `cancel` | Generator | every consumer ends |
| CPU expert ring, tensor-parallel dispatch | indices, flags | submit, wait | kernels | no slot reused before it is read |
| Telemetry, image input, accounting, registration, fixture scripts, kernels, benchmarks | - | - | - | little or no control logic, see sections 2 and 8 |

The behaviours that make this hard: two tasks per request on one event loop
plus a watcher and an engine task, each of which may be cancelled at any await;
two independent deadlines; clients that leave, or stay and do not read; failing
cleanup; shutdown in the middle of everything. Around the server: two processes
that watch each other through files and signals, Ctrl+C at any step, a lease that
survives whoever took it; options checked in two processes; conversions that are
killed and resumed while other scripts hash, copy and rename the same files; text
that arrives in fragments cut anywhere.

## 2. What is modelled

asyncio runs one task at a time, so an action is the code between two awaits.

`Engine.tla` models `Engine.generate` as a state machine. `gen[r]` says where
the async generator of request `r` is suspended ("fresh" before its body,
"parked" at an await, "yield" at a yield, "closed"), `stage[r]` how far its body
has come (images, decode loop, EOS seen, reasoning tail flushed, completion
counted, tool calls sent, final item), `anext[r]` the `__anext__` task and its
outcome. `Unwind` is the `finally` block with its failing `clear_queue`, `Fail`
the `except Exception` clause, `Interrupt` the cancellation of the `__anext__`
task, `Aclose` the call of `aclose()`, which does nothing to a running
generator. `ready`, `active`, `persistent`, `job` and `count` are the fields of
the same meaning; `users` is a history variable, the requests that ran on the
current persistent generator. What the GPU computes is left out; whether an
iteration yields text, reaches EOS or fails is a nondeterministic choice.

`Serving.tla` extends it with `server.py`. `pc[r]` is where the request's main
task waits, `loop[r]` where its pull loop waits (run by the main task for a JSON
response, by a stream task for SSE), `disc[r]` the disconnect watcher, `lock`
and `waiting` the `_Gate`. Actions follow the code: `Body`, `Refuse`, `Gate` and
`Poll` (`_acquire`), `Admit` (`_run` from the lock to the first pull), `Pull`,
`Wake`, `Cancelled`, `Settled` (`_pull` and `_settle`), `Send`, `SendFails`
(`_stream_body` under Starlette), `Respond`, `Reap`, `Finish`
(`_ClosingStreamResponse` and the outer `finally`), `JsonExit` (the inner one).
External: clients (`Arrive`, `Drop`), time (`Expire`), and uvicorn, which stops
accepting (`Stop`), cancels the request tasks after its graceful timeout
(`Kill`) and runs the lifespan's `engine.shutdown()` (`Halt`).

Three facts of Python the model relies on: cancelling a task that awaits another
task cancels that task (so a cancelled response cancels its stream task);
`aclose()` of a running async generator raises and closes nothing; cancelling an
`__anext__` task that has not started throws into the generator, which closes
one that was never entered and runs the `finally` block of one at a yield.

`MCServing.tla` holds what only the model checker needs: the symmetry set, a view
that leaves out history and the bound of the liveness run.

`Slot.tla` is what the server promises about its engine and nothing about how:
a request is outside, waiting, holding or over; the engine works for the holder
alone, and a slot is given up only together with the work done for its holder.
`Place` in `Serving` maps a request's lock and main task to it.

`PageTable.tla` models the vendored `CachePage` and the pool it lives in:
`table[p]` holds a page's hash, previous hash, reference count, valid tokens and
what `revert()` would restore, and every method is a function from a table to a
table. A hash is the sequence it is a digest of, so a content hash says which
tokens it promises; a random hash is a number nobody else has. `kv` remembers
for each slot of the K/V tensors the token sequence its entry was computed from.

`Generator.tla` puts the vendored `Generator` and `Job` on top. `iterate()` is
one synchronous call; `phase` and `todo` say how far it has come:
`iterate_start_jobs` ("start", with `allocate_pages` page by page in "claim"),
the round of prefill, the decoding of each ready job, the release of finished
ones. Between two iterations jobs are enqueued and cancelled and the queue is
cleared. `Prefill` is one chunk with its skipping of complete pages, its copy of
a partly matching page and its split for recurrent states; `Decode` writes a
window of the last token and a draft (`Fed`), takes samples until one differs
from the draft, gives a completed page its hash or switches to a twin
(`PageDone`) and takes the rejected rest back (`Rejected`). Sampled and drafted
tokens are any tokens. The code writes the windows of all jobs before it samples
for any; windows only touch pages their job holds alone (`WindowAlone`), so the
model takes the jobs in turn. Drafts of one batch have one width in the code; in
the model each job has its own, which includes that. The eviction order is any
that keeps the job's own hashes for last. Which recurrent states are still
cached is open, so a hybrid job resumes at any complete page.

`Limits.tla` is what `exl3_resources.py` makes of saved limits, what a sample of
the machine may say or fail to say, which adapter the collector picks and what
the monitors compare. `Launcher.tla` puts the processes around it: `pc` is where
`main()` is, `wk` where its worker is, `child` the model process with the signals
it has been sent, `lease`, `stop`, `guard` and `shut` the files they talk
through. A step is the code between two points at which another process, a
signal or the end of a wait matters; `terminate_group` has its two waits, in the
loop and in the `finally` block. On Linux the worker is part of the launcher and
dies with it, on Windows it lives on in WSL. Ctrl+C arrives at the states in
`InterruptAt`.

`Startup.tla` follows one command line from `launch_runtime.py` through the argv
it builds to the checks of `serve_exl3.py`, `generate_multimodal.py` or
`evaluate_exl3_candidate.py` and on to the loaded model. An option is a field
with the values its checks tell apart; `argv` holds what the child is given,
`Resolved` what the launcher meant; the rest is `compat.install` and
`optimizations`, and `Path`, the kernel a projection of so many rows then takes.
`Evaluation.tla` extends it with the evaluator's run: the cases of a mode in
order (`Plan`), each with its iterations, first and last emitting instant
(`exl3_timing.py`), the comparison with a reference, Ctrl+C and failures at every
step, the report its `finally` block writes (`WriteReport`) and, after it, the end
of the process (`Exit`), between which a kill may fall.

`Conversion.tla` is one conversion job over the files of its work and output
directories. A packed module is a record of the process that made it, the
version of the inputs it read and the activations it was quantised against, so
that whatever must match can be seen not to. Files are absent, torn or whole;
`Crash` may come between any two writes, `Resume` starts from `ckpt` or
`ckpt_old`, `Edit` changes the pinned inputs, `Restore` is the operator renaming
a whole checkpoint into place. `HeadRecovery.tla` adds `recover_mimo_head.py` and
`assemble_mimo_head_checkpoint.py`, with the header reader and the placement of
rows from `Safetensors.tla`; `Packaging.tla` adds both packagers, whose demands
on their inputs are the predicates of `PackageInputs.tla`. Every one of them runs
beside the conversion, and a packager beside another call on the same output.
`MCPipeline.tla` has either the recovery or the packaging beside the conversion:
the two share no file.

`Reply.tla` reads the model's text: `ReasoningSplitter` fragment by fragment and
the tool-call parser on the whole text. A text is a sequence of atoms; a think
marker is several atoms, since a fragment may end inside it. `Dialogue.tla` puts
the request around it: a client that keeps a conversation or makes one up, every
check of `server.py` in its order, `Engine.prepare` with its refusals and
choices, and the reply the client may send back in its next request. `Post` is
one request up to the engine, `Generate` one iteration's text, `Conclude` the
reply.

The proofs are in modules of their own: `ServingProofs.tla` (engine, server and the
abstract slot), `LauncherProofs.tla`, `PipelineProofs.tla` (conversion, packaging,
head recovery), `GeneratorProofs.tla` (page table and generator),
`ContentProofs.tla` (what the pages hold), `DialogueProofs.tla` (reply and
conversation), `StartupProofs.tla` (start and evaluator), and `Loops.tla`, what they
share about loops.

## 3. Properties

* `EngineExclusive`: only the lock's owner has a running generator, `active`
  says exactly that, and no `generate()` entered undisturbed is refused.
* `NothingLeaks`: a request that is over holds no lock, open generator, pending
  engine task or watcher, whichever way it ended.
* `QueueBound`: `waiting` is the number of queued requests, at most `max_pending`.
* `ReuseIsClean`: a persistent generator that may be used again holds no job of
  an earlier request, and every earlier user finished its response.
* `HealthCounters`: on an idle healthy engine, started = completed + cancelled +
  the requests abandoned between EOS and the completion count. That last term is
  a real gap of `/health`: such a request is counted nowhere.
* `GoneNeverGenerates`, `FailsClosed`: action properties.
* `ImplementsSlot`: every behaviour of the server is one of `Slot`.
* `DisconnectReleases`, `EveryoneAnswered`: liveness.
* `DeadlineReleases`: what the documentation says of `--request-timeout`, and
  the code does not do (section 5).

Of the generator:

* `HashPromise`: the K/V of a complete page under a content hash were computed
  from exactly the tokens the hash stands for.
* `ContextRight`: at every position a running job attends to K/V of its own
  sequence, so that reuse cannot be seen in the output.
* `HashChain`, `SequencesMatch`, `RefCounts`, `UniqueHashes`: the checks of
  `validate_pagetable`, in every state instead of on demand.
* `Frontier`: writing goes on exactly where the valid tokens end.
* `NeverStarves`: a job that was started gets all its pages.
* `WindowAlone`: the assertion of `get_input_ids_list`.
* `TwinComplete`: the assertion of `receive_sample` about a page of another job. No run
  claims it: with one job at a time it has no case, and in a batch it is false
  (`GeneratorHybrid.cfg`, `GeneratorTwin.cfg` in section 5).
* `KvValid`: the K/V of every valid token, complete page or not, stand for that
  token; no run claims it, section 5 says why.

Of the launcher:

* `LeaseCovers`: a model process runs only under the lease of the launcher that
  started it, dead or alive, so two launchers never have a model on the GPU.
* `LimitsNotMasked`: a run ended by a limit fails, even if its server then shuts
  down in order or the user interrupts as well.
* `LeaseReturns` (liveness): whatever asks a run to stop, its process ends and
  the lease is given back, unless the launcher itself is killed.

Of starting and evaluating:

* `ArgvFaithful`: the child parses the options the launcher resolved, although
  the two parsers have different defaults and some options are passed only in
  some modes. Options that say nothing where they are given and are accepted there
  all the same (`Ignored`) are excepted, and are then what the child makes of them:
  `--alias`, `--port` and `--request-timeout` outside serve mode
  (`launch_runtime.py:337-343` does not list them, 535-537 passes them in serve
  only), `--image-max-pixels` in the evaluator's modes, `--shortlist-mode` without a
  shortlist; reasoning, which is refused outside serve, is off there.
* `AcceptedRuns`: what the launcher accepts its child refuses in exactly these cases
  (`OnlyChildSees`), and in each of them it does:
  a context above the evaluator's limit of 262144 tokens in one of its modes
  (`evaluate_exl3_candidate.py:184`);
  a template file above 1 MiB (`serve_exl3.py:968`);
  an image that is a file and does not decode (`generate_multimodal.py:29`; the
  launcher asks only `is_file`);
  a described runtime whose `native_smallm_max_rows` is not 3, 5 or 9 (checked for
  an installation only, `launch_runtime.py:492`; the child's parser has the choices);
  a model and an output nested in one another once links are followed (the launcher
  compares them as written, 509-514);
  and an argument that the server's parser takes for an option: an alias that begins
  with a dash, or a negative penalty so small that it prints with an exponent.
* `RoutesExported`: no projection takes a kernel, row count, codebook or format
  that the verified binary does not export or the user switched off.
* `ReportHonest`: a report that says completed holds every case in order, equal to
  the reference; a process that ends in success has left such a report; and the
  decode rate of a case covers exactly the iterations after the first that emitted,
  whatever was held back before it (`RatesExact`, its third part). The converse of
  the second part is not claimed, and is false: `result.json` is written before the
  log is closed and the process ends (`evaluate_exl3_candidate.py:704-705`), so a
  completed report may stand beside another exit (`WriteReport`, `Exit`, `KillRun`).

Of the files:

* `OneIdentity`: every module of a finished candidate comes from the inputs
  pinned when the job began, unless they changed under the very process that read
  them.
* `CheckpointSurvives` (action property): no step, crash included, leaves only an
  older checkpoint than there was.
* `PackageChained`: in a package reported complete every module was quantised
  against the activations of the modules that are in it, if the last
  `compile_model` had returned when its audit began and no shard of the candidate
  changed during the audit. Neither condition is one the packager checks.
* `RowsExact`, `AssemblyExact`: recovered rows and assembled checkpoint come from
  the files whose hashes their manifests give; the assembled file has every row at
  its size and is accepted by its readers.
* `ReportTruthful`, `FinalAsReported`: what the two reports say of an output
  directory is what stands there.
* `ReaderExact` (an assumption that TLC evaluates): the header reader accepts
  exactly the headers whose tensors tile the payload.

Of the conversation:

* `EchoAccepted`: a client that sends back what it was sent, with one result per
  call in any order, is never refused for its messages.
* `PairedResults`: results follow their calls at once, in the order of the calls.
* `ControlsHonoured`: what request or server options ask of the sampler is what it
  does; the argmax path is taken only where it ignores nothing.
* `SplitExact`: what has been streamed is a prefix, and in the end the whole, of
  what reading the text at once gives.
* `OnlyWholeCalls`: a call reaches the client only written out whole, outside code
  fences, of an offered tool with arguments of the declared types, and before that
  is known nothing is sent.

## 4. Runs, bounds and fairness

| Run | Instance | What it shows |
|---|---|---|
| `serving` | 3 requests, 1 queue place, no deadline | owner, queued caller and refused caller at once |
| `serving_deadline` | 2 requests, deadlines, persistent generator | a second request on state the first one left |
| `serving_live` | 2 requests, 1 queue place, a deadline for one of them | a disconnect frees the slot under `EventLoop` alone, past a deadline too; with bounded work everybody is answered |
| `deadline_stuck` | 1 streaming request, deadline | the first violation of section 5 |
| `kv_server` | 2 jobs, batch of 1, 5 pages of 2 tokens, one conversation that grows, hybrid model, drafts of 1 from its own head | the server's use: one job after another on what the first left |
| `kv_batch` | 2 jobs, batch of 2, 5 pages of 3 tokens, attention only | sharing, twins, too few pages |
| `draft_page` | 2 jobs, batch of 1, 3 pages of 4 tokens, drafts of 3 | the second violation of section 5 |
| `launcher` | a Linux and a Windows launcher, one of which may be killed or fail | the lease, the end of processes, exit codes |
| `lease_interrupt` | the same with Ctrl+C anywhere | the third violation of section 5 |
| `startup` | every mode, 2 options changed singly, every combination of drafting and kernel options, every binary; 3 tokens, drafts of 2 | from command line to report |
| `pipeline` | 2 modules, 3 processes, 1 edit; 2 packager calls; 3 rows, 2 recovered | the life of a candidate |
| `chat` | 3 server configurations, conversations of up to 4 messages, 2 tools | requests and replies |

Three requests fill all roles at a gate of one place: the owner, the one waiter
and one that finds the queue full. The hand-over of engine state involves two.
Every counter is bounded because a request arrives once. In `serving` states
that differ only in history are identified by a view; nothing that view leaves
out is read by a guard or by a property of that run. The others use no view, and
the liveness runs no symmetry. In `serving_live` the deadline of one of the two
requests may pass, at any step of it while the server serves, and a shutdown begins
only when no request is past its deadline (`FewDeadlines` in `MCServing`). The bound
is on `Expire` and `Stop` alone, which no fairness makes happen, so it takes nothing
from what `EventLoop` promises.

In the generator the vocabulary has two tokens, enough for two sequences to
agree or to part at any position; prompts are chosen so that they end inside,
at and just behind a page, and so that one is what another may generate. Pages
of two or three tokens make every window cross a boundary. `kv_server` has just
the pages its longest job needs, so the second job finds up to two cached pages, has
to compute one where the recurrent state is gone, and evicts, revives and reverts what
the first left; `kv_batch` has pages for two jobs with a common start, not for two
different ones. Two tokens are generated at most (`MaxTokens`); each job runs
once. Pages and jobs are symmetric: nothing depends on which page is which. No
liveness is claimed of the generator yet.

`launcher` has one launcher of each kind, so that either may find the other's
lease; both serve or neither does (`SameMode`: a mode concerns its own run only).
Ctrl+C arrives where the code handles it or where there is no model process
(`Handled`); elsewhere it is `lease_interrupt`. No process survives the wait after
SIGKILL (`MayHang`); the code gives up on one that does, and then the lease goes
too.

In `startup` any two options differ from their default, and all that concern
drafting, or all that concern kernels, vary together, because those checks look
at more than two. The evaluation is followed for the launcher's batch modes with
and without a reference and for the modes that are only given by hand. Two
measured tasks and three tokens with drafts of two give iterations that emit
nothing, one or several tokens and end inside a draft. The files that options name
are taken to be the same for the launcher and its child. Options whose every value
both sides take alike (`--attention-profile`, `--host`) are left out.

In `pipeline` two modules are enough for one to be quantised against the other,
three processes for a resumed job to be killed and resumed again. Beside the
packaging a third process, an edit, a second packager, a spoiled directory and a
stray report come one at a time (`Affordable`); beside the recovery all at once.
Paths lie in six folders, one inside another (`Folders`).

In `chat` a fragment ends at any atom of a marker; a reply has four steps, three
with tools and one in later turns (`Turns`). Completions, and messages whose only
fault is inside them, come first in a conversation. The requests are a plain one
and those one or two fields away from it at the edges of their ranges.

Fairness is that of an event loop: a task that can run runs (`WF` of each task's
actions), and a send on a lost connection returns, because the transport is
closed. The engine's own task is left out: a disconnect must free the slot even
if decoding makes no progress. `BoundedWork` adds it, and that a generator
resumed again and again leaves its stage (`max_new_tokens` bounds decoding, the image limit the image stage); it is
used only where the claim is about answering. Nothing is assumed of clients:
`EveryoneAnswered` states as its own hypothesis that they read or leave, and
`DisconnectReleases` does without it. Body upload, arrival and shutdown are never
fair.

Of a launcher, `FairSpec` assumes that its own code goes on and its waits expire,
that a round of the monitor sees a stop file or an ended process, and that the
kernel ends a process after SIGKILL. Ctrl+C, limits, kills and the end of a model
process that nobody killed are never fair.

## 5. Findings

`deadline_stuck`: the deadline does not always cover streaming. Two deadlines
run for a stream, one in `_pull` and one in `_ClosingStreamResponse`. If `_pull`
wakes first it waits in `_settle` for the engine task; the response's
`stream.cancel()` arrives there and is swallowed. The stream task goes on to
send its timeout error, and if the client does not read, that send blocks: the
response waits for the stream task without a deadline, and the lock is held
until the client closes the connection. `docs/SERVING.md:150` promises a
deadline "covering body upload, queueing, generation and streaming". With the
disconnect the slot is freed: `DisconnectReleases` holds in `serving_live`, where the
request with the deadline gets into just this state, holding the slot past its
deadline with a send that nobody reads.

`draft_page`: a stream that ends inside a draft window leaves the window in its
pages (`generator.py:1103-1118`). If it reaches into the next page, that page is
released with valid tokens and no previous page, since it is linked only when
the page before it completes. A later prompt of an attention-only model that
begins with those tokens copies its K/V as if they stood at the start. The run
drafts three tokens; with one or two this instance shows nothing, since the tokens
that match must lie behind a page boundary that the window crosses.

`lease_interrupt`: Ctrl+C between `Popen` and the `try` block of `worker()`
(`launch_runtime.py:174-191`), or a second one in its `finally` block, leaves the
function before the process is ended; `main()` gives the lease back, and the model
process, in a session of its own, runs on. The comment at line 213 promises that
"the finally block still terminates/reaps the server". With Ctrl+C elsewhere
`LeaseCovers` holds (`launcher`).

Seven more configurations show, each in seconds, where a property ends; TLC finds
each violated:

* `GeneratorHybrid.cfg` (`Generator`, `TwinComplete`): in a batch of a hybrid
  model, the assertion `page.kv_position == PAGE_SIZE` (`job.py:660`) fails when a
  job completes a page that another one has claimed by hash and still has to
  compute because it replays earlier pages for its recurrent state. The server
  runs one job at a time (`max_batch_size=1`), and then there is no other job to
  share a page with.
* `GeneratorTwin.cfg` (`MCGenerator`, `TwinComplete`; `tlc -simulate -depth 200`, the
  behaviour is too long for a full search): the same assertion in a batch of an
  attention-only model. An earlier page of a cached prefix was evicted while later
  ones are still there. A job that starts with this prefix computes from the missing
  page on and, where a chunk ends, has the valid length of the cached page behind it
  reset (`job.py:1380`). A second job with the same prefix starts behind the cached
  pages it was given, gets ahead and completes by decoding a page that the first one
  has claimed by its hash and not yet computed. The eviction order of the model is
  open, which covers `eviction_policy = "lru"` (`pagetable.py:412`); the default,
  `tree`, evicts a chain from its end as long as its links are right.
* `GeneratorPrefix.cfg` (`Generator`, `HashChain`): two jobs with one prompt of
  whole pages and one token start together; the second never links its next page,
  which completes with a hash that does not follow from `prev_hash`.
  `validate_pagetable` would reject the table, and the page is taken for the first
  of a sequence. In the server's own use, hybrid and one job at a time, `HashChain`
  holds (`kv_server`).
* `GeneratorCopied.cfg` (`Generator`, `HashChain`): attention only, one job at a time.
  A job that copies all it needs of a page from another page by partial match skips
  the prefill that would have completed it, and with it `Link`: its next page
  completes with a hash that does not follow from a `prev_hash`.
* `GeneratorReverted.cfg` (`Generator`, `KvValid`): attention only, one job at a time.
  `revert()` of a page whose hash another page has taken meanwhile gives it a random
  hash and no previous page, and leaves `kv_position` (`pagetable.py:160-171`): the
  page says of its tokens that they start a sequence, and a partial match may copy
  their K/V as such. A hybrid model copies nothing by partial match.
* `PipelineCompleted.cfg` (`MCPipeline`, `OnlyCompleted`): a candidate whose
  compile was killed after its last file, or that is being compiled once more
  after a resume, passes every check of the packager, although its docstring says
  it "fails closed before writing output whenever expected inputs are missing or
  incomplete" (`package_mimo_exl3.py:6-8`). What is packaged then may hold shards
  of two conversions of the same inputs: `PackageChained` says only that it does
  not when the compile had returned.
* `PipelineStray.cfg` (`MCPipeline`, `InputsUntouched`): a call of
  `package_mimo_exl3.py` whose report path lies in one of its inputs is refused
  and writes its incomplete report there; the docstring says "Never modifies
  inputs" (line 6).

Smaller disagreements met while modelling, with no run of their own:

* `AcceptedRuns` names the six cases that the launcher lets through and the child
  refuses; `Ignored`, the options that are accepted and dropped, though the other
  options of serve mode are refused elsewhere ("applies only to serve mode",
  `launch_runtime.py:343`). A GPU draft without its embedding table, or on a model family
  that has none, and a blank template fail only after the weights are loaded
  ("failedlate"); native attention with a three-row binary is refused only at
  installation (`compat.py:75-76`).
* Killed between the two renames, a conversion has no `ckpt`; `-r`, documented as
  "Resume interrupted job from working directory" (`convert_model.py:43`), fails
  until the directory is renamed by hand (`Restore`). Killed between `prepare` and
  `freeze_identity`, a job is accepted neither as fresh nor as resumed.
* The assembler audits the checkpoint and opens it again by name; one replaced in
  between goes unnoticed, which `AssemblyExact` excepts (`raced`).
* `has_unclosed_think` looks only at the end of the prompt, its docstring speaks
  of an unclosed marker anywhere. A closing code fence with an info string closes
  the fence in `tool_calls.py`; Markdown would go on.
* The evaluator compares its frozen suite after it has created the output
  directory (`evaluate_exl3_candidate.py:210-221`), so a refusal leaves it behind.

## 6. What is proved

Every proof is for all values of the constants, within the assumptions named in the
modules that declare them; "assumption" below refers to those.

### The server

For every finite set of requests, every `max_pending` and both settings of
`PrefixCache` and `HasDeadline` (`EngineAssumption`, `ServingAssumption`):
`TypeCorrect`, `QueueBounded`, `Exclusive`, `NoLeak`, `ClosedStaysClosed`,
`GoneStaysOut`, `ReusedClean`, `CountersAccount`, and that the server implements
the slot (`Implementation`).
`OneHolder` is what follows from the slot alone.

None of the four invariants is inductive by itself. `IInv` adds, per request:

* `LockInv`: a request between admission and its last `finally` owns the lock,
  and nobody else does;
* `LoopInv`: the pull loop runs only then; a JSON response never leaves it
  without releasing; a cancelled request never pulls again;
* `GenInv`: an open generator or a pending `__anext__` belongs to such a
  request, a pending one only to a loop that waits for it, and a generator not
  yet entered that will still be pulled finds the engine ready;
* `QueueCount`: the waiter count is a cardinality, without which `waiting - 1`
  could leave `Nat`;
* `Activity`: `active` iff some generator is running.

`ServingProofs` reduces every engine step to one of three effects on what the
server relies on (`Continues`, `Ends`, `Discards`) and to `Closing`.
It proves that a step of one request leaves the invariant of the
others alone (`OthersKept`) and then takes the actions one by one. The crucial
step is `LeaveKeeps`: the lock is released only with no `__anext__` pending, so
`aclose()` really closes.

The refinement follows the one request a step belongs to: every action is one of
`Moves`, which leaves the other requests' places alone, and `StepRefines` maps
such a step to `Wait`, `Take`, `Work`, `Depart` or a stutter. `QueueCount` bounds
the abstract queue, `GenInv` says that a request that departs runs nothing.

The last part of `ServingProofs` follows what the engine carries from one request to
the next. Its `EngineInv` says that a generator starts with its first stage (`Staged`), that whoever used
the persistent generator still runs on it or ended at stage `final` (`Used`), that a
job in the queue is of a request that runs (`Queueing`), and that `started` is
`completed` plus `cancelled` plus those between (`Accounts`): running ones not yet
counted, and closed ones that ended after their EOS event and before the
completion was counted. `UnwindAccounts` is the finally block: it keeps the
generator only if the response was finished and swept, and counts a cancellation
exactly where nothing else was counted. That nobody else runs at that moment is
`IInv` again (`OwnerAlone`).

### The launcher

For any number of launchers, under Windows or not, whatever limits were saved and
whatever the adapters report (`LauncherAssumption`): `LeaseCovers` (`LeaseCovered`), `LimitsNotMasked`
(`LimitsKept`) and that two launchers never have a model loaded at once
(`OneModel`). All three assume `Careful`: no process outlives SIGKILL's wait
(`MayHang` is false) and Ctrl+C does not arrive at the four places where the code
gives the lease back without waiting (`start`, `lastterm`, `lastkill`,
`finalwait`). The assumption is needed: `LauncherInterrupt.cfg` drops it and TLC
finds the lease given back over a living worker.

`LauncherInv` adds to the types, per launcher: `Held`, that a launcher at work
holds the lease and that a process nobody waits for any more is dead or its
launcher is, with the lease left behind; `Paired`, what the launcher's place says
of its worker's; and `Blamed`, that a run a limit ended has a reason on record
before its worker can come to an end, and that only a worker that no limit ended
exits with zero, which is why the orderly shutdown after a limit is not taken for
a clean stop. A step of one launcher keeps its own part (`OwnKept`) and
does not reach the others'.

### The files

For every number of modules, processes and edits: `OneIdentity`,
`CheckpointSurvives`, and `finished => Chained(text)`, that a finished candidate is
one model (`FinishedOfOneModel`). None is inductive. `ConversionInv` adds:

* `Early`: before the arguments are saved and the identity frozen there is
  nothing to lose, which is why a fresh start on such a directory is safe;
* `Pinned`: a process at work has the frozen identity, or its inputs changed under
  it; so has every module in a file;
* `Compiled`, `Saved`: the shards written so far, and that the checkpoint is whole
  and no further than the process;
* `Linked`: the activations of the process, and of the checkpoint the next one
  starts from, are those of the very modules that are packed. This is what a
  resume needs: it redoes what comes after its checkpoint, though newer modules
  lie there, and the argument is that nothing behind a checkpoint is ever
  rewritten;
* `Mirrored`: what is compiled is what is packed.

For any number of packagers, donors and directories beside any conversion:
`ReportTruthful`, `PackageChained`, `FinalAsReported`. `PackagingInv` contains
`ConversionInv` (every step of the packaging is a step of the conversion or leaves
it alone) and adds `Audited`, what a packager has seen of a candidate that holds
still; `Written`, that one packager at most has made the directory and none works
on it once a report is complete, so that only a change from outside reaches it; and
`Final`, that `package_mimo_mtp.py` starts from a complete report, which stays, and
keeps what it has checked.

For any number of rows and any order of recovery, assembly, promotion and resumed
conversion beside each other: `RowsExact`, `AssemblyExact`, and once more
`OneIdentity` and `CheckpointSurvives` (`RecoverySpec`). `Linked` above is not
invariant here: a promoted checkpoint may know another run of the head than the
packed one. What remains true is `Drawn`, the same for the modules in front of the
head. `HeadAudited` carries the argument: the recovery looks twice at the head's
file, and since the number of a process never comes back, a head that is still
there as it was means that no process has rewritten it, and so that the checkpoint
in front of it is still the audited one or a promoted one. `Computed` and
`Assembled` then say of every row and copy which files they came from; only a
checkpoint replaced during the copy (`raced`) is excepted, as in the property.
The placement of rows is a recursive function (`Offset`), so that the proof may
speak of any number of them.

### The page table and the generator

For every pool of pages of two tokens or more, any number of jobs, batch, chunk and
depth of drafts below a page, hybrid or not, with its own draft head or not
(`PageTableAssumption`, `GeneratorAssumption`): `TypeOK` (`GeneratorTypes`),
`RefCounts`, `UniqueHashes`, `NeverStarves` and `WindowAlone`. All follow from one
inductive invariant, `IInv`:

* `Queues`: a job is in exactly the queue its state names, at most once; what is
  still to do in a phase is there to be done;
* `JobsOk`: positions lie inside the sequence, a prefill position on a page
  boundary, and a job that samples has finished its prefill;
* `TableOk`: a page's saved state is there only while one job holds it, a random
  hash only on a page one job holds or none, no two hashes are equal;
* `PagesOf`: what a job has not completed is its own, unhashed; along the pages it
  has, hashes grow. This is what makes a page impossible to list twice after a
  switch to a twin, so that counting pages is counting jobs;
* `Claiming`: while pages are claimed one by one, those claimed carry the hashes
  they were claimed for, and enough unreferenced pages are left for the rest.

The proof has a lemma per operation of the page table, one per loop of a job
(`get_input_ids_list`, `reject_remainder`, the turns of `receive_sample`), and one
per action. A loop is a recursive function in the model; the library's induction
takes an operator, which the provers cannot instantiate, so `Loops` proves
induction once more for a given *set* of numbers, from the well-foundedness of
finite sets, and the rule for loops from it: what every turn hands on from one set
of states to the next holds at the end (`Keeps`). No bound on the number of turns
is assumed.

### What the pages hold

`HashPromise`, `ContextRight`, `HashChain`, `SequencesMatch` and `Frontier`
are theorems of `ContentProofs` for every pool of pages of two tokens
or more, any number of jobs and prompts, any chunk and depth of drafts, with or
without a draft head of the model's own, under two assumptions: `Hybrid` and
`MaxBatch = 1`. These are the server's settings: `serve_exl3.py` creates the generator
with `max_batch_size=1` (line 324), and the hybrid models it is made for have
recurrent layers.
Each assumption is needed. In an attention-only model one job at a time breaks
`HashChain` (`GeneratorCopied.cfg`) and `ContextRight` (`draft_page`); in a batch
`HashChain` (`GeneratorPrefix.cfg`) fails.

`IInv` says nothing of `prev` or `kv`. `ContentInv` adds, beside it:

* `Promises`: a complete page under a content hash, and also every state `revert()`
  may bring back, has the hash of its tokens behind its `prev`, and, where the chain
  starts at the root, the K/V of that very sequence. It speaks of saved states because
  a page that was claimed and given back unwritten is complete again at once. A hash
  that was given away meanwhile comes back as a random one, which promises nothing;
* `Filling`: token buffer and K/V of each position in front of the job's cache
  position are its own. A page found by hash enters here through `HashHolds`;
* `Spelled`: a rooted hash of one of the job's completed pages is the sequence up to
  there. This closes the circle with `Promises`: the hash a page completes under is
  taken from the hash before it, not from the sequence;
* `Empty`: behind its position the job's pages hold nothing, except those found by
  hash that the recurrent resume point lies in front of;
* `Linked` and `Linking`: the page a job samples into, and during allocation the first
  one without a hash, is linked to the page before it. That is the link an
  attention-only model loses when it copies a page whole;
* that the assertion of `receive_sample` never failed: a lone job meets no page of
  another one there.

With one job a page is referenced if and only if it is that job's (`Alone`), so no
step of another job has to be looked at, and while a job starts or gives its pages
back none runs (`NoneRuns`). What is left is the job's own writing. In prefill, chunks
of a hybrid model begin and end with a page (`WholeChunk`), so a chunk fills whole
pages, though it may run over complete ones again. In decoding, a window is written,
the page it may complete takes its hash, and what was rejected is taken back from the
last page on: three loops or steps, whose joint effect is stated once per page
(`WindowTable`, `OwnWindow`), so that promises, filling, links and the frontier are
each read off it. The delicate point is the order within a window: a page is completed
from the accepted tokens (`CompletedToks`, `CompletedSpells`) after the whole window,
rejected tokens included, was written through it; that the rejected ones lie behind
its last token or in the next page is arithmetic on positions (`WindowFollows`).

### The conversation

For every body, server, context and text the model may write, cut into any
fragments (`ReplyAssumption`, `DialogueAssumption`):

* `SplitExact` (`DialogueSplit`): the splitter is before, in or behind the block
  (`Streaming`), and keeps back a tail too short to hold the marker, in which and
  before which the marker does not stand (`Waiting`). That cutting a text anywhere
  never makes a marker appear or vanish is a lemma about first occurrences.
* `OnlyWholeCalls` (`DialogueWholeCalls`): by the loop rule over the atoms of the
  text. Only the first fence matters (`ScanOk`): once one is open and not closed,
  and before any, the scan knows where it is; a call it takes stands whole outside.
* `ControlsHonoured` (`DialogueControls`): `AskedInv` keeps what was asked beside
  the job it became.
* `EchoAccepted` (`DialogueEcho`): `Honest`, that every message is of the shapes
  the server sends and the client adds, that the turn they came to has no fault, and
  that fresh call ids are larger than all before.
* `PairedResults` (`DialoguePairs`): the checks of an accepted conversation, read
  turn by turn (`Protocolled`), say that behind each message with calls stand as
  many results, each for another of its calls (`AnsweredTo`, by counting); so the
  order the server puts them in is a permutation within each group.

### The start and the evaluator

For every combination of the options' values, any binary and any number of options
changed singly: `ArgvFaithful`, `AcceptedRuns`, `RoutesExported`; and for any number
of measured runs, tokens and drafts `ReportHonest` (`ReportsHonest`).

`StartupInv` says that once the launcher has accepted, the child has the resolved
options, but for the ignored ones (`Child`). `ArgvIs` is the reason, by the way an
option travels: passed always; passed
when it is not the launcher's default, which is the child's too (`WhenSet`; not so
of the fusions, which are therefore passed always); passed in its mode and
checked to be at its default elsewhere; or ignored there (`Unheard` names those that
some mode ignores). `ReadAlike` says that the child derives from
them what the launcher did, `AcceptedByChild` takes the child's checks one by
one, and `RefusedByChild` shows that it does refuse what `OnlyChildSees` lists. `Routed` goes from the versions `configure_native` lets through to each path,
for any number of rows (the property, which TLC evaluates, names ten).

`AsPlanned` is the evaluator's: the results are those of the first cases of the
plan, each with its file, and all but the one being checked have passed, unless the
run has failed; `ReportStep` and `EndStep` go from there to the report and from the
report to the exit. `EvaluationIsStartup` makes the evaluator's process an instance of
the start. `CaseOk` is what makes the decode rate exact: until an iteration emits,
everything sampled is held back; from then on the fields of time are those of the
first and of the last iteration that emitted (`CaseGoesOn`), and at the end nothing is
held back, so the two counts the report subtracts lie between those iterations.

### Only model-checked

* Liveness (`DisconnectReleases`, `EveryoneAnswered`, `LeaseReturns`) and `ENABLED`:
  beyond the prover.
* `ReaderExact` sums the sizes of any number of tensors: induction over data, which
  the provers do not do.

## 7. Plan

1. Engine and Serving with proofs. Done.
2. `PageTable` and `Generator`. Done for single-sequence jobs.
3. `Launcher` with its guards, and its proofs. Done.
4. `Reply` and `Dialogue`, `Startup`, `Evaluation`. Done.
5. The file pipeline: conversion, head recovery, packaging, with the proofs of the
   first and the last. Done.
6. Proofs of the generator's counts, hashes and allocation, of the conversation, of
   the recovery and assembly of a head, of the start and the evaluator, and of what
   the generator's pages hold in the server's settings. Done.
7. The job's other ways to move: banned strings with their checkpoint and rewind,
   requeueing; the eviction order as the code builds it, with a run of three jobs
   for reverted pages and for `max_skips`.
8. `CpuPageCache`, `RecurrentCache`: budgets, LRU order, hand-over; the recurrent
   checkpoint in `Generator` instead of an open resume point.
9. `AsyncGenerator`: iteration task, close, late enqueue. `ExpertRing` and the
   tensor-parallel dispatch.

## 8. Not modelled

Kernels, quantisation numerics, tokenisation, the text of templates, image pixels
and embeddings, and the benchmark scripts: they are numerical or pure input and
output. `register_runtime.py` and the `mimo_*` suites are sequential one-shot
tools: they write one file after their checks, or generate fixtures and score
texts. `/health` and `/v1/models` only read. Multi-process use of one engine does
not exist: uvicorn runs one worker.

Of the telemetry: the thread that samples and the Windows counters behind it, any
value of which the guards must stand. Of the accounting: `cached_credit` and
`split_prefill_advance`, which sum what the generator reports. Of the packed
projections: the limit on `out_features` (`compat.py:51`); a layer beyond it goes
the way of one whose format is not packed. Of the evaluator: frozen protocols given by hand, and what a
case measures beyond time and equality with the reference. Of the conversion: side
models and conversion on several devices.

Of the generator: jobs of several sequences, filters, token healing, stop and
banned strings and requeueing, none of which `serve_exl3.py` uses; chunks that
grow to cover an image in one piece, which some models ask for; the CPU tier and defragmentation, which it switches off; the draft model's own
cache, which has the layout of the target's. `make_unique` has no caller.
