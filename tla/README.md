# Verification of the AppCorr offload pipeline

AppCorr offloads image inference progressively: a client sends a coarse base
image first and residual groups of patches after it; the server starts an
*approximate* forward pass on what it has and *corrects* it as groups arrive.
The client (`offload/mobile`), a transport, a scheduler process and a worker
process (`offload/server`) run concurrently, and a policy object decides which
instructions each arriving group triggers.

These TLA+ modules model that pipeline. TLC checks them on small instances;
TLAPS proves the theorems in the eight `*_proofs.tla` modules for every value of
the constants. All of it concerns control: which pixels reach which tensor, in which
order, and who waits for whom. Paths below are relative to the repository (`offload/...`); line
numbers are in `PROJECT.json`.

To check a run: `tlc -config Policies.cfg MCPipeline.tla`; to check the proofs:
`tlapm Worker_proofs.tla`, and so on.

## 1. The system

```
 client                                 server
 SourceModule --send_queue--> MobileSender ~~uplink~~> ServerReceiver
      ^                                        control_q |    | sched_q
      |                                                  v    v
 feedback_queue                              SchedulerModule + policy <--+
      |                                                  | worker_q      |
 MobileReceiver <~~downlink~~ ServerSender               v               | feedback_q
                                   ^            WorkerModule:            |
                                   |            decoder > GPU > reaper --+
                                   +---- result_q -------'
```

| Component | State | Operations | What is hard | What makes it correct |
|---|---|---|---|---|
| Scheduling policies (`policies/scheduling`) | request id, approximation frontier, group, per-image group count | `decide()` | the plan of a group relies on what earlier plans approximated; resets between requests; per-image group counts; rounding of layer boundaries | corrections find their layers cached, no layer is approximated twice, a request ends in one complete answer |
| Scheduler process (`server/scheduler.py`) | patch buffer, policy, task counter | control messages, drain, call the policy | three queues nothing orders against each other; feedback is passed once and may be stale | tasks hold whole groups; feedback moves the right request |
| Worker process (`server/worker.py`) | sessions dictionary and contexts, four queues, locals of three threads | decode, dispatch, reap | contexts are shared without a lock, snapshots and locals outlive them; CONFIG, FREE_SESSION and failures remove sessions | pixels stay with their image; no task is dropped; no session leaks |
| Executors (`server/model/*.py`) | input, tokens, feature, layer outputs and caches, active images, results | the instructions | rounds that go on from what earlier rounds left; windows prepared alone; early exit | answer at full depth, from the pixels of all groups |
| Correction blocks (`appcorr/models`) | layer caches: keys and values, increments, scores; query plans and score means kept between blocks | approx, select, correct | caches that outlive what they were made from; padding; several images in one batch | a round corrects its own tokens, the same in every block, and earlier rounds stay corrected |
| Client source (`mobile/source.py`) | request at hand | CONFIG, time sync, send, wait | answers are matched by position only | the i-th answer is the i-th request's |
| Transport and lifecycle (`mobile/modules.py`, `server/modules.py`, the two `main.py`) | connections, pending result, shutdown event | connect, send, receive, reconnect, shut down | lost messages, retries, half-open connections, processes that wait for each other | nothing lost or repeated by a retry; the server always stops |
| Transmission policies (`policies/transmission`) | picture, group assignment, canvas | encode, decode | client and server group with formulas of their own; groups may be empty; in-place or rebuilt canvas | every residual travels once; tokens are corrected after their pixels came |
| Evaluation drivers (`analysis/experiments/*_offload_eval.py`) | retries | CONFIG per image, resend | late answers, reused request ids | each image gets its own answer |
| Precision kernels, super-resolution, datasets, offline scripts | tensors, files | — | numerical | not modelled (section 8) |

`PROJECT.json` lists every component with its status and every hazard at its line.

## 2. The modules

| Module | Models | Used by |
|---|---|---|
| `SchedulingPolicies` | every registered policy's `decide()` as an operator on the policy's fields | `Scheduler` |
| `Scheduler` | `SchedulerModule.run` | `Pipeline` |
| `Executor` | what the instructions do to a session context | `Pipeline`, `Executor_proofs` |
| `Pipeline` | client + scheduler + GPU thread + reaper over FIFO links | `MCPipeline`, `Pipeline_proofs` |
| `Service` | the abstract promise: a request is computed once, delivered once, then the next | refined by `Pipeline` and `Session` |
| `Worker` | decoder, GPU and reaper threads, their queues and contexts | `MCWorker`, `Worker_proofs` |
| `Session` | connections, retries, reconnection, a failing CONFIG and shutdown around the pipeline | `MCSession` |
| `Grouping` | the formulas that put patches and tokens into groups, crops and windows | `Transmission` |
| `Transmission` | encode, decode and the executors' group maps, one request | `MCTransmission` |
| `Selection` | which tokens a correction considers, how rows are batched and padded, which tokens the scores keep | `Correction` |
| `Correction` | plans, caches and write-back of the `partial_token` method | `MCCorrection` |
| `Worker_proofs` | proofs about `Worker`: types, and whose pixels a context holds, that every task is served and every image answered | |
| `Session_proofs` | proofs about `Session`, and that it implements `Service` | |
| `Grouping_proofs` | lemmas about whole-number division and about `Grouping` | `Transmission_proofs`, `Correction_proofs`, `Executor_proofs` |
| `Executor_proofs` | lemmas about `SchedulingPolicies` and `Executor`: what the policies' plans consist of, the stages of a session, and through which of them every plan takes every executor | `Pipeline_proofs` |
| `Pipeline_proofs` | proofs about `Pipeline`: the protocol, what sessions hold, speculation, and that it implements `Service` | |
| `Transmission_proofs` | proofs about `Transmission`: types, what is sent, what the canvas shows | `Tokens_proofs` |
| `Tokens_proofs` | proofs about `Transmission`: what the server corrects | |
| `Correction_proofs` | proofs about `Selection` and `Correction`: what a correction recomputes and what it leaves | |

`Pipeline` composes `Scheduler` and `Executor` (by `EXTENDS`; the scheduler's
step leaves the worker's variables alone and the other way round). The other
modules look at what `Pipeline` abstracts: it has no decoder thread, no canvas
and no second CONFIG (`Worker` has all three, but no policy), its links neither
break nor fail (`Session`, with one message per request), its patches hold
nothing (`Transmission`), and its corrections recompute the whole group
(`Correction` selects tokens).

### SchedulingPolicies

The experiment's configuration is the variable `config`, chosen in the initial
state and never changed, so that one run covers many configurations; its fields
are the fields of `ExperimentConfig` the policies read. `Decide(st, buf, done,
id)` is `policy.decide(buffer, config, feedback)`: `st` holds
`current_request_id`, `latest_approx_layer_queued`, `current_group_id` and
`num_groups`; the answer is the task (or `NoTask`) and the new fields. A patch
is its group id, the group total and the per-image group count. The group-driven
policies share `GroupReady`, `Payload` and `Admit`, and differ in their plan
(`GroupTriggerPlan`, `WindowPlan`, `VGGTPlan`, `ApproxCorrectPlan`,
`COCOStaticPlan`, `FeedbackPlan`, `DynamicPlan`); the counting policies are
`DecideCount`. `CorrectionOn` is the options' `enabled` or `generated_from_client`, which
three policies ask before they plan a correction. VGGT's cumulative stage costs are scaled to integers and its
`round()` is Python's, half to even.

### Scheduler

One pass of the loop is `Configure`/`ForwardTimeSync`/`Stop` (a control
message), `Drain` (any prefix of the patches and of the feedback visible so
far), then `CallPolicy` until it answers `None`. The prefix is
nondeterministic because the queues are `multiprocessing.Queue`s with a feeder
thread each. Feedback is reduced to its maximum and passed to the first call of
the pass only, as in the code; `fb_req_id` is ignored, as in the code.

### Executor

The image is cut into one *part* per residual group (for the detector's window
groups: a window with a backbone pass of its own), and `Whole` is the detector's
global source. Pixels are versions: version v is the image when group v has been
decoded. A session holds the input loaded last, the tokens each part was made
from, the depth of each part's feature and the oldest pixels in it, the layer
outputs kept for the head, and per part and layer the version in the cached
increments (`inc`) and in the cached keys and values (`kv`). The operators are
the instructions: `PrepareTokens`, `ApproxForward`, `CorrectForward`,
`HeadInference`, `DecideExit` (any subset of the active images may exit), with
the nine executors' differences by name, because a schedule is right or wrong
together with the executor that runs it: whether a pass starts from the tokens
or goes on from the feature, whether a correction rebuilds every part or merges
its own, what the head reads. `Raises` is when an instruction throws.
`Forgetful` are the forks (CLIP, Qwen) whose corrections are not written back
into the increments.

### Pipeline

The client sends CONFIG, one time-sync round (the code does eleven, all alike),
then a request at a time, patch by patch. `TakeMessage`, `Launch` and `Reap`
are the GPU thread's queue read, one dispatched instruction, and the reaper's
handling of a finished one; the reaper runs behind the GPU thread, so feedback,
the response and the release of the session come late, in any interleaving. `Launch`
looks the session up at every instruction, where `execute_pipeline` keeps the context
object for the task: the same thing here, because no session is freed while a task of its
request runs (TLC: `task # NoTask => task.req \in DOMAIN sessions` on all
configurations); `Worker` has the context as the local it is. The
sleeps after CONFIG are ignored: every interleaving they make unlikely is kept.

### Worker

What a canvas (`input_hr_np`) shows is the set of (image, group) pairs whose
pixels it has; `{}` is `None`. `ctx` is the sequence of every context created
(Python objects survive their dictionary entry), `sessions` maps a request id
to an index of it. Whether a request has a context, the making of one and the
look-up are steps of their own, in the decoder (`DecoderOpen`, `DecoderCreate`,
`DecoderFind`: lines 154-157) and twice in the GPU thread (`GpuTask`, `GpuCreate`,
`GpuUpdate`: 282-284; `GpuOpen`, `GpuCreate`, `GpuFind`: `execute_pipeline`). A look-up
that fails drops the task (`KeyError`), and so does a GPU thread without an
executor. The decoder's read of the canvas (`DecoderRead`), `DecoderAssign` (line 198)
and `DecoderSnapshot` (line 223), the copy of the snapshot (line 284), `GpuLoad`
(LOAD_INPUT reads the shared canvas, line 584) and `GpuRun` are separate, too:
between any two of them the other threads can run. A group is in the canvas
or not: torn reads of a canvas that is being painted in place are abstracted.
The client part stands for the source and the scheduler: one task per group, and
up to `MaxAhead` tasks without patches. `Resend` selects the evaluation drivers,
which send CONFIG again before every image and attempt; request ids then start
over from 0. `Loads` says whether loading a model may fail (`_config_ready` is set before,
the executor stays what it was), `Settles` whether the drivers' sleep outlasts
the GPU thread's taking of CONFIG. `incremental` selects in-place (`incremental_decode`) or rebuilt
canvases.

### Session

The source, the two mobile processes, the client's main process, the two server
socket processes, `run_server` and, as one FIFO component, the core.
`UpBreak`/`DownBreak` break a link and lose a suffix of what was under way.
After that a send may fail or succeed unnoticed (the first `send` on a socket
whose peer is gone usually does). `SendReady` and `SendResult` are
`ServerSender.run`'s `_send_ready` and one turn of `_send_loop`, with
`pending_result`. CONFIG loads the model, fails after `_config_ready` is set (the
tasks raise, nobody answers) or before it (the decoder waits for ever, also
behind STOP, until `run_server` terminates the worker). `ClientExit` is the end of the
client's main process, at any time (an interrupt) and for sure when the source
has ended.

### Service

Three counters: requests made, computed, delivered. `Pipeline!ImplementsService`
maps the client's phase and the result queue to them and checks `Service!Spec`,
fairness included: every policy's service is live. `Session!ImplementsSafety`
checks the safety part only, because its links lose results and its clients give
up.

### Grouping and Transmission

`Grouping` has the client's rules for patches (grid, block grid, sequential,
expansion, equal shares of size or energy, windows, crop covers, rounds of VGGT
units) and the server's for tokens (`create_group_index`, crops, windows), as
operators on integers. `Transmission` runs one request of one policy
(`EncodeBase`, `EncodeGroup`: the generator's turns; `Serve`: the worker decodes
a complete group and the executor corrects its tokens), over a picture of one
value per patch. The residual is the difference to what the decoder will predict
(closed loop). Abstractions: the base loses a value's parity; `Size` stands for
the compressed size; VGGT's interpolation of its marks to the token grid is the
patch it samples; compression and colour are left out.

### Selection and Correction

One row is an image, a crop, a window or a frame; its tokens are the ones before
the patches and the patches. A value is the set of the pixel states it was
computed from, {0} before and {1} after its group. `Scorings` are the scores the
blocks may give, any function of row, token and layer; ties go by position.
`Selection` holds the operators on one configuration: candidates, batches and
their padding, the mask and the packed query. The plan of a configuration is its
sequence of instructions; one step runs one block. Of a plan it is assumed
(`InOrder`) that layers are approximated once and downwards and corrected as far as
they have been approximated, which is what `ScheduleSound` shows of the policies. Kept between blocks and rounds are the layer caches, the mean of the
scores and the query plans, under the address and length of the candidates they were
made from. `dindices` says where a row keeps its candidates: the linear head, the
classifier and the detector drop and rebuild them at every load, at any address, the depth
head builds them once, VGGT for every block, the m2f executor for every batch.
Any of these addresses may have been another tensor's before. Attention is left out
beyond "reads the keys and values of every token"; one image per row; heads and
intermediates are in `Executor`.

The blocks are one stack whose rows have tokens before the patches. VGGT has four stacks
(patch embedding, frame, inter-frame global and register), each with a mean of its
own, and its inter-frame blocks see all frames as one row without tokens before the patches
(`num_pretokens = 0`), so that they rank camera and register tokens like any other. The
model is right for a stack of the first two kinds; the other two are not modelled. The
hint's signature, which is part of the code's plan key, is left out: it can only keep a plan
from being found.

## 3. The runs

| Run | Question | Result |
|---|---|---|
| `Policies` | every policy and executor, mostly two requests of one to three residual groups, some with early exit, one with fewer groups than the image before: do plans fit together and with the caches under every interleaving? | `TypeOK`, `ScheduleSound`, `AnswerComplete`, `CorrectionsKept`, `WholeGroups`, `SessionsReleased`, `SpeculationKept`, `SpeculationWithin`, `Answered`, `ImplementsService` hold |
| `WorkerThreads` | three threads on shared contexts, two images of three groups, in-place and rebuilt | `TypeOK`, `NoForeignPixels`, `BasePresent`, `ContextLive`, `TasksServed`, `AnswerOwnImage`, `NothingLeaked` hold, and no deadlock |
| `Retries` | CONFIG before every attempt, at any place among the look-ups, a model that may not load, a time-out and a second attempt: do the driver and the threads come to an end? | `ThreadsStop` holds |
| `Links` | links that break, failed handshakes, a failing CONFIG, time-outs, an interrupted client | `TypeOK`, `AnswersInOrder`, `GracefulStop`, `ResultsKept`, `PendingResent`, `ServerStops`, `ImplementsSafety` hold |
| `Transmission` | 41 pairs of a transmission policy and a server-side grouping, three pictures each | `TypeOK`, `ResidualsSentOnce`, `CanvasExact`, `CanvasRebuilt`, `CorrectedFromArrived`, `TokensCorrectedOnce`, `Finishes` hold |
| `Correction` | 54 configurations of six executors, four scorings, candidates at any of two addresses | `TypeOK`, `SelectionStable`, `ThisRoundOnly`, `SelectionOwn`, `CorrectionsPersist` hold |
| `ForgottenRounds` | the CLIP and Qwen forks over three correction rounds | `CorrectionsKept` **violated** |
| `LostGroup` | the decoder and the GPU thread write one canvas | `Cumulative` **violated** |
| `LateAnswer` | the late answer of an attempt that was given up | `AnswersMatched` **violated** |
| `CropCover` | the segmentor's crop-cover transmission, with a pyramid and with a DCT base | `Finishes` **violated** by each |
| `StaleScores` | corrections between approximations, scores shared over the layers | `ScoresCurrent` **violated** |
| `StalePlan` | VGGT, the linear head and the classifier corrected twice after one full approximation | `ThisRoundOnly` **violated** |

The violated ones are section 7. Every property of a passing run has a mutant of
the mapped code in `PROJECT.json` (a dropped guard, a stale key, a swapped order)
under which TLC finds it violated.

### Bounds and why they are enough

- *Two requests* (`Pipeline`, `Worker`): every interaction between requests is
  between neighbours, because the client has one in flight; state a request
  leaves behind (frontier, group count, feedback, an unreleased session) meets
  the next one. The configurations with one request are those whose questions
  are within a request.
- *One to three residual groups*, group 1 with two patches: a first, a middle
  and a last group, and a group that can be incomplete.
- *Four to seven layers*: with 2 and 3 chunks, with and without remainder;
  boundaries that differ for VGGT's compute, uniform and full split.
- *Two images per batch* in `Policies`: some exit early, some do not.
- `MaxAhead = 1`, `MaxTries = 2` (3 in the drivers): one feedback-driven task,
  one retry; a second retry repeats the situation of the first.
- `Transmission`: pictures of 2 x 2 to 5 x 5 patches (14 x 2 for one VGGT case),
  where the grouping formulas differ at remainders, squares that are none, crops
  moved back inside the image and mirrored ones; values 0..6 with clipping.
- `Correction`: two to four layers, one or two rows of two to four patches, two
  rounds: selections that differ between rows, padding by one and by two, a row
  without a group, a group no row knows, ratios at 0, in between and 100.
- `MaxRequests = 3`, `MaxBreaks = 2` in `Links`: a reconnection that fails
  again, and requests after a reconnection.
- Queues are unbounded in the code and in the modules; the client's protocol
  bounds them.

### Fairness

`Pipeline` assumes weak fairness of the client, the scheduler, the GPU thread's
two actions and the reaper: each is a loop of its own process or thread that
polls or blocks on its queue, and an item put in a queue becomes visible. The
scheduler's pass that drains nothing is allowed for ever only while nothing is
visible. `Session` assumes it of every process and of the ends of a connection
(a reader sees the end of the stream); nothing makes a link break, a user
interrupt, or a client that has not finished exit. Half-open connections on
which neither side ever hears of the end are outside it. `Transmission` assumes
it of the client's generator and of the server. `Worker` assumes it in `FairSpec`
only, of the client (whose wait has a time-out) and of each of the three threads, which
block on nothing but their queues and `_config_ready`; its other runs have a deadlock
check, which shows that the client is served and the threads stop.

## 4. The properties

- `ScheduleSound`: the next instruction finds what it relies on: a correction
  finds every layer below it cached for this request, an approximation starts at
  the depth the feature has and redoes no layer, a head finds a feature. A plan
  breaks it only together with earlier plans, of other groups or requests.
- `AnswerComplete`: one result, when the client waits for it, full depth, input
  with every group (or early exit), for every image of the batch.
- `WholeGroups`: a task's payload is one whole group of one request (or the whole
  request for the counting policies), however patches and feedback interleave.
- `SessionsReleased`, `NothingLeaked`: FREE_SESSION runs in another thread than
  what opens sessions; nevertheless none is left, with one CONFIG.
- `ThreadsStop`: with CONFIGs that fall between any look-up and its use, tasks are
  dropped and sessions may be lost or left (section 7), but no thread waits for ever
  for what was dropped, and the driver ends.
- `CorrectionsKept`, unless corrections are switched off: what the head reads, features
  or, for CLIP and Qwen, which answer from one token, the keys and values of every layer, was computed from the
  pixels of every group that had arrived.
- `SpeculationKept`, `SpeculationWithin`: for the policies that hand every event to
  `_append_more_approx`, while groups are to come there is work or feedback on its
  way, and with one request the frontier stays within `ahead_layers` of what was
  completed. The second one ends when all images have left early: from then on
  layers are skipped, but the reaper reports them as completed all the same.
- `ImplementsService`, `ImplementsSafety`: the refinement of `Service`.
- `ResidualsSentOnce`, `CanvasExact`, `CanvasRebuilt`, `CorrectedFromArrived`,
  `TokensCorrectedOnce`, `Finishes`: client and server agree although only group
  numbers travel. `CorrectedFromArrived` excludes crops that do not begin on a
  patch boundary (`Aligned`), `Finishes` options encode() rejects and groupings
  that may leave the last group empty (`Fills`).
- `SelectionStable` (the same tokens in every block of a round), `ThisRoundOnly`
  (nothing outside the round's candidates, whatever plans are found again, wherever the
  candidates' tensors are), `SelectionOwn` (what is selected in a row
  does not depend on the rows it is batched with, but for VGGT's padding, section 7), `CorrectionsPersist` (a
  corrected increment stays), `ScoresCurrent` (the mean covers what is cached).
- `NoForeignPixels`, `BasePresent`, `ContextLive`, `TasksServed`,
  `AnswerOwnImage` (`AnswersMatched`, and not made from nothing), `Cumulative`: what the unsynchronised contexts of the worker
  must guarantee.
- `AnswersInOrder`, `ResultsKept` (an action property), `PendingResent`,
  `GracefulStop`, `ServerStops`: what survives broken links and failed loads, and
  that everything ends.

## 5. What is proved

Each proof module states what it assumes; the assumptions on the constants are
the named `ASSUME`s of the modules (`WorkerAssumption`, `SessionAssumption`,
`PolicyAssumption`, `ExecutorAssumption`, `PipelineAssumption`,
`TransmissionAssumption`, `CorrectionAssumption`), which TLC evaluates on every run. The shape is always
the same: an inductive invariant (`IInv`, `SInv`, `Protocol`, `Holding`,
`Speculation`, `Shows`, `TInv`, `Safe`), one lemma per action
or per group of actions that a conjunct cares about, and a last step by PTL. TLC
checked the strengthened invariants on the constants of the runs before they
were proved.

### Worker (`Worker_proofs`)

From `WorkerAssumption` only (positive numbers of images, groups and attempts;
more than one attempt only with `Resend`):

- `WorkerTypeOK`: `Spec => []TypeOK`. The type invariant says two things that
  are not types: a thread inside a task has a context that exists, and only a
  task with patches is decoded. Both are needed for it to be inductive.

With one CONFIG per run (`Resend = FALSE`), the others with a model that loads at it
(`FALSE \notin Loads`), too:

- `WorkerNoForeignPixels`. The invariant is not inductive: the decoder and
  the GPU thread go on with a context the dictionary may have lost, and messages
  carry pixels and request ids ahead of the contexts. `IInv` adds `Messages`
  (every task's request id is its image, every snapshot shows only its image, and
  so does the canvas the decoder has read), `OneOwner` (a context is held, by the
  dictionary under a request id or by a thread inside a task, for one image) and
  `OwnPixels` (its pixels are of that image). `OneOwner` is what makes
  `OwnPixels` inductive: painting a context must not touch another image's.
- `WorkerBasePresent`, `WorkerContextLive`, `WorkerTasksServed`,
  `WorkerAnswerOwnImage`, `WorkerNothingLeaked`: none of the five is inductive,
  and none can be proved without the others, because the client's next request
  depends on the answer, the answer on the session, the session on the order of
  FREE_SESSION and SEND_RESPONSE, and that order on the groups' order. `SInv`
  states the whole protocol once: `Stream` (the two queues and the two threads
  between the client and the end of the GPU thread are one line, sorted, of the
  current image only), `Replies` (a response still to be sent is the only one and
  its session is freed right after it; a session is freed when its image has been
  answered and not before; STOP is last) and `Canvases` (once the base has been
  decoded it stays in the canvas, the collected patches and every snapshot made
  since, and once it has been run the session is approximated). Its last conjunct,
  `Serving`, is about the look-ups: what a thread has seen in the dictionary is still there
  when it looks again, and only the decoder, for a base group, finds a request without a
  context, so that no `KeyError` drops a task. `ContextLive`, which says it of the locals,
  depends on it.

`Resend = FALSE` is necessary: with the drivers' CONFIG per image request ids
repeat, two images can meet in one context, a late answer is taken for the next
image's, and a CONFIG between check and look-up drops a task, be it the one that
would have freed the session (section 7). What the run `Retries` checks there is
that nobody waits for what was dropped (`ThreadsStop`).

### Session and Service (`Session_proofs`)

From `SessionAssumption` only (any number of requests and of breaks):

- `SessionTypeOK`, `SessionAnswersInOrder`, `SessionGracefulStop`,
  `SessionResultsKept` (an action property) and `SessionImplementsSafety`: the
  initial states map to `Service`'s and every step to a step or a stutter of it.
- The inductive invariant's centre is `Flight`: the seven places a request or its
  result can be in (the source's queue, the uplink, the core's queue, the result
  queue, `pending_result`, the downlink, the feedback queue) form a line that
  carries at most one of them, the one the source waits for, and none once it is
  lost. Answers are matched by position only, so this, and not the matching, is
  why the i-th answer is the i-th request's. `Drained` (a client that reconnects
  has read what the old connection still held), `Blocked` (a decoder stuck after
  a failed CONFIG has taken the request with it), `Connected` and `Told` (who can
  still be waiting in `accept()` or for a result) are what the other properties
  and the steps of the line need.

### Grouping

`Grouping_proofs` proves for every size and number of groups that each formula
returns a group that exists (grid, block grid, sequential, ranks, shares,
buckets, windows, the first crop that covers a place), that the server finds the
start of a window in the window it was cut as (`WindowOfStart`), and that its
tilings are the client's grid and blocks (`TiledGroupIsGridGroup`,
`TiledBlockIsBlockGroup`). The division
lemmas it starts with are what the SMT solver lacks. Induction over a recursive
function is reached by `SetInduction`, which needs no operator for a parameter: if
a set that contains 0 and is closed under successor missed a number, stepping down
would inject the numbers it misses below into fewer.

### Pipeline (`Executor_proofs`, `Pipeline_proofs`)

From `PolicyAssumption`, `ExecutorAssumption`, `PipelineAssumption` and up to
three hypotheses on the configurations. With them the theorems hold for every
number of requests, groups, patches, layers, stages and images, every policy and
executor, and every split of the queues into passes.

- `Agreed`, for all of them, is what client and policy have to agree on: every
  group has a patch (a group nobody sends is a task nobody makes; `MCEmptyLast`), a
  counting policy counts the groups the client sends (`MCPyramid` breaks it), a
  group-driven policy is given group numbers, and at least as many groups as the
  request has (the ApproxCorrect policies know groups 0 and 1).
- `Fitting`, for what is said about sessions, is which policy and executor belong
  together (`Suits`): no SAM 3, which cannot answer (section 7); a number of layers
  `GroupTrigger` can share equally, as all shipped ones are (otherwise its division
  leaves layers out, section 7); the ApproxCorrect policies with an executor
  that takes group 0 for "all", as their configurations do, and corrections switched on for
  them and for VGGT's, as in every shipped configuration (section 7); the detector's global
  source at the end or at the beginning only with the policies that know of it (`BatchCountBased`'s
  whole model needs none); early exit with a dynamic policy that runs a layer
  ahead, as otherwise nothing is there to exit from.
- `Eager`, for speculation: the feedback-driven policies run ahead by a
  layer or more; by default, and wherever it is configured, it is two.

Of the 29 configurations of `Policies` 27 satisfy the three; the two others switch the
corrections of the ApproxCorrect policies off, and are model-checked.

- `Executor_proofs` goes through the plans of all policies once. Every
  instruction has layers within the model, every plan is not empty, and a plan is
  either `Open` (it does not answer) or `Closing` (it answers once, with
  SEND_RESPONSE and FREE_SESSION as its last two instructions). Which of the two it is depends
  on the group alone (`Concludes`): the group-driven policies close with their last.
- `Protocol` is the inductive invariant, `Types /\ Starting /\ Stream /\ Tasks /\
  Jobs /\ Released /\ Unfinished`. `Stream`: what the policy has taken, its buffer,
  the uplink and what the client has still to send are the request's patches, in
  this order, and what was taken ends where a group ends. That is needed because a
  pass may drain any prefix. `Tasks`: the worker's queue holds only tasks of the
  request under way, the closing one last and only once everything was taken;
  there is at most one answer on the downlink. `Jobs`: the running task's remaining
  instructions and the reaper's jobs form one line that answers at most once, with
  the previous request's FREE_SESSION possibly still in front. `Released`: a
  session belongs to the request under way or that FREE_SESSION is about to
  drop it. `Unfinished`: a policy that queues layers on feedback is still waiting
  for a group, so speculation can never put a task behind the closing one; late
  feedback of the request before would otherwise do it. `Starting` covers the
  CONFIG and the time synchronisation. TLC checked these conjuncts on all
  configurations of `Policies` before they were proved.
- `PipelineWholeGroups`: between the lines of `Stream`, the buffer's head tells
  which group it is (`HeadOfGroup`, `HeadOfRequest`), and a payload is that group.
- `PipelineSessionsReleased` follows from `Jobs` and `Released`.
- `PipelineImplementsSafety`: `Service`'s safety part, under the refinement mapping
  of `ImplementsService`. `Downlink` (the downlink carries one message, the answer
  of the time synchronisation before the first request and results after it)
  makes the mapping count results; only the reaper's SEND_RESPONSE and the client's
  receive change it.
- What a session holds is argued about in two levels. A *stage* (`StageType`) is
  the little of a session that plans are made of: the version loaded (`in`), the version
  the tokens were made from (`made`), up to which version what has been computed is fresh
  (`fresh`), how many layers it has (`l`), whether a feature has to be rebuilt
  first (`reset`), whether the global source has been run, the output's depth and whether an answer
  is out. `Allowed` says from which stages an instruction may come, `After` what it
  makes of them. `Match(s, a)` is that session s is at stage a: it says, part by part and layer by
  layer, what features, tokens, layer outputs, increments, keys and values hold, for each
  executor in its own way; once all images have left, nothing.
  - `MatchSound`: at a stage where an instruction is allowed, it does not raise
    and finds what `ScheduleSound` asks for. `MatchKeeps`: the session it leaves is at
    the next stage. These two are the only proofs that look into the executors.
  - `PlanRuns`, `SpeculationRuns` and `WholeModelRuns`: every plan of every policy, for
    whatever group, image and frontier, is allowed from the stage the previous one rests at and
    leads to the next (`AtRest`: the policy's own arithmetic, `Front`, agrees with the layers
    cached), or to an answer. These are the only proofs that look into the policies.
- `Holding`, on top of `Protocol`, is the inductive invariant: `Courses` (the session
  under way is at a stage from which what is left of its task, and then the tasks in the
  queue behind it, are allowed and lead to where the policy believes it to be), `Grouped` (the
  policy's group is the last one taken), `Stores` and `Delivered` (an answer under way is
  complete). No session and no task has to be looked ahead into: a plan is
  added to the course's end by the scheduler and an instruction taken from its beginning
  by the GPU thread, and these two never touch the same place.
- `PipelineScheduleSound`, `PipelineAnswerComplete` and `PipelineTypeOK` follow. The
  last is not a matter of types: that no depth passes the last layer is so only because
  every policy's arithmetic ends there.
- `PipelineCorrectionsKept` asks in addition that no configuration runs a fork that
  forgets its increments (CLIP, Qwen), for which it is false from three groups on
  (`ForgottenRounds`); 25 of the 27 are of this kind, the forks with two groups are
  model-checked.
- `PipelineSpeculationKept` and `PipelineSpeculationWithin`, with `Eager`.
  `Speculation` is their invariant: `Flowing` (while groups are to come, the last layer
  queued is still on its way, in a task, launched, fed back or drained, and the
  session is there when the reaper asks for it), `Polled` (what was drained is
  used up before the next pass), and, for a single request, `Unbegun` and `Within` (no
  layer is fed back that the session has not cached, and the frontier is at most
  `ahead_layers` beyond those). The proof of `Within` needs the stages: that a
  task's approximations end at a depth the session will have reached when they
  are reported. With several requests it is false (section 7).

### Transmission (`Transmission_proofs`, `Tokens_proofs`)

`TransmissionAssumption` asks of every configuration: a grid of at least one
patch for every level of every frame, the same number of levels in all; positive
sizes; VGGT's strategy one of the two `_correction_grouping` asserts and its
pyramid of two levels, as all its configurations have; windows that are not empty
(`_window_slices` raises otherwise). Nothing is assumed of pictures or seeds.

- `TransmissionTypeOK`: every residual patch gets a group that exists: 0 only by
  a keep rate or a threshold, more than the number of groups only by crops that
  outnumber it.
- `TransmissionResidualsSentOnce`, if `CropsFit`: the composed DCT policy is
  given as many groups as there are crops (else it fails, section 7). The
  inductive invariant is `TypeOK /\ Stages /\ Yielded /\ NonePassed`: what was
  yielded under a number is exactly the patches assigned to it, the numbers rise,
  and no number with a patch has been passed over, empty groups being skipped.
- `TransmissionCanvasRebuilt`, if `TwoLevels`: where decoding is in place there
  are two levels. The detector's policy has a base and one residual level by
  construction, all shipped NYU configurations have levels 2 and 0, and NYU's
  decoder falls back to the payload alone for other numbers (section 7).
- `TransmissionCanvasExact`, if also `Nested`: a level's sides are multiples of
  the coarser level's. Of two levels this asks nothing.
- Their invariant adds `Shows`: the canvas is the last level of *the* pyramid of
  the patches that have arrived. The recursive decoder is characterised by
  `Value`, an equation for every level; `ValueExists` and `ValueUnique` are its two
  inductions, and after them no proof needs the recursion.
- `TransmissionCorrectedFromArrived` and `TransmissionTokensCorrectedOnce`, if
  `Matching`: every configuration has a base and one residual level, as all
  shipped progressive ones have, and either sends no residuals, or has its groups
  ignored (`Laplacian`), or its strategy and the server's grouping `Match`: the
  payload or its marks carry the client's groups, or the executor computes them by
  the same strategy (tokens by grid, block grid or expansion; windows; crops by
  crop cover, grid or block grid; one group or the Fourier base and all the rest).
  Mirrored frames have one width, and crops begin and end on a patch, which crops
  that are moved back inside the image need not: a token that straddles patches may be
  corrected before all of them are there (section 7).
  The run holds two configurations more than the theorems cover, the misaligned
  crops and the expansion over three levels.
- Their argument has two halves. `Agreement` is about the formulas: a token sees
  one patch, `Under(t) = {c}`, and the server's group for it is the client's group
  of `c`. It is one lemma per executor: for the expansion a bijection between the
  residuals and the numbers of the grid, for the windows that a patch is in the
  window its first pixel is in, for the crops that all pixels of a patch are
  covered alike, with mirrored sources mirrored back. `TInv` is about the
  protocol: groups have the numbers the server computes (`Grouped`), no mark is later
  than the group taken last (`Mapped`), a token has been corrected once if the
  group of its patch was taken and not at all otherwise (`Counted`), the answer
  comes with the last group (`Last`), and nothing was stale. It is inductive
  relative to `IInv`; that no group with a patch is passed over is what makes the
  count complete.

### Correction (`Correction_proofs`)

`CorrectionAssumption`: one of the six executors, at least one layer and one token
before the patches, as in every stack modelled; finite rows; a plan in order
(`InOrder`). Nothing is assumed of scores, thresholds, groups or of where
tensors are put. The first lemmas are about sequences: a sorted set, concatenations, and
what follows for candidates, padding, the kept positions and the
packed query. A selection takes only candidates (`PickedWithin`).

- `CorrectionTypeOK`. `Safe` is inductive: `Control` (the plan, the instruction the
  work belongs to), `RowsOK` (features and caches by row; the caches hold exactly the
  layers approximated so far), `WorkOK` and `StateOK` (the work in progress is that
  of the instruction: its candidates, batch and layers), `ChosenOK` (layers up
  to the current one have been selected for), and `DerivedOK`: a plan that is kept
  selects tokens of its rows. Of which group cannot be said: its key is an address.
- `CorrectionPersists`. A corrected patch is `{1}` in features, increments and keys,
  but while a correction runs, its rows start over from the input tokens and are put
  together block by block. `Kept` follows that: `RowKept` between instructions,
  `Keeping` within: a patch is `{1}` up to here if it was kept before or has been
  recomputed in every block so far with its residual there. The
  write-back of the increment is what carries a kept patch through a block it is not
  selected in. It holds with reused addresses, too: a wrong plan is no harm to what
  was corrected before.
- `CorrectionSelectionStable` and `CorrectionThisRound`, if `Renewing`: between two
  corrections there is an approximation, but for m2f, which keeps no plans. Group-driven
  plans have one there whenever their boundaries rise. They do not for VGGT's
  `layer_split "full"` or for more rounds than there are stages to share, nor for the
  feedback-driven policies when all layers are queued before the last groups come; there
  `ThisRoundOnly` is false (`StalePlan`). The invariant is `Stable`: `Same` (all blocks so
  far selected what the scores of the same layers say of the batch's own candidates: these
  layers do not change within a correction), `Current` (every plan that can be found now,
  under whatever address, says the same) and `Forgotten` (a bucket that is still to come
  has no plans: the approximation dropped them, and only a bucket's own correction makes
  new ones). `Current` is inductive because a plan is made of the same candidates and
  scores however its key comes about, `Forgotten` is what starts it. `Steady`
  and `Round` are the two properties for what has been selected.
- `CorrectionSelectionOwn`, if `Renewing` and `Knowing`: ratios are natural numbers,
  and a row of the linear or the depth head knows the group that is corrected, or
  only one group. Without that its candidates come end to end, with the tokens
  before the patches between the groups, and those take places in the quota or win ties
  by position (with groups 1, 3, 4 and 5 in a row that group 2 is announced for, the
  property fails). All configurations of the run satisfy both.
  The argument has two halves. `OwnPicked` is about the selection: a row's
  candidates rise (`CandidatesRise`) and come first in the batch, copies of the last
  one behind (`Copies`). By ratio, a position among them has no more better
  positions than its token has better tokens, and the quota of a wider row is no
  smaller (`RatioKeeps`). Over a threshold, the kept positions among the first `Len(own)` are
  exactly the tokens that reach it, and a copy adds nothing new (`ThresholdKeeps`); at
  a fixed width the positions up to `token_keep_cap` have a slot each
  (`ThresholdStatic`). `Same` gives the rest: what a block recomputes is what the row's batch and these
  scores say, whether it found its plan or made it (`ChosenBy`).

### Only model-checked

- Liveness, out of the prover's reach: `PendingResent`, `ServerStops`, `ThreadsStop`,
  `Answered`, `Finishes`, and the fairness part of `ImplementsService`.
- `CorrectionsKept` for CLIP and Qwen with no more than two groups.
- All of `Pipeline`'s theorems that need `Fitting`, for the ApproxCorrect policies with
  corrections switched off.
- Selection without an approximation between two corrections, for executors and scores
  that find no stale plan: the depth head, whose tensors stay where they are, per-layer
  and random scores, which share no plan, and rows that have one group.

## 6. The plan

1. Done: `SchedulingPolicies`, `Scheduler`, `Executor`, `Pipeline`, `Worker`,
   `Session`; then `Service` with both refinements,
   `Grouping`, `Transmission`, `Correction`, all executors in `Executor`, the
   failing CONFIG in `Session`.
   Proved: `Worker` (all safety properties), `Session` (all safety properties and
   the safety refinement), `Grouping` (ranges and agreement), `Transmission`
   (all safety properties), `Correction` (all safety properties), `Pipeline` (all
   safety properties and the safety refinement).
2. Models that could follow: Gemma 3's unified vision-and-language axis
   (`appcorr/models/gemma3/unified.py`, run by an offline driver), the
   `partial_channel` method of the blocks, normalisation of `appcorr_kwargs`.

## 7. Where the code and its text disagree

Details and quotations are in `PROJECT.json`, `findings`.

- `ForgottenRounds`: `correct()` of the CLIP and Qwen forks never writes
  `blocks_out_sum` back, which the contract memo asks for "every round"; CLIP's
  docstring assumes one round per request, shipped configurations run four. Two
  groups do not show it; with three, layers approximated after the second round
  start from features of the first group rebuilt from approximate increments, and
  the last round attends to their keys and values.
- `LostGroup`: line 284 of `worker.py` can put an older snapshot over a newer
  decode; the contract memo wants the input cumulative.
- `LateAnswer`: resending after a time-out is not "safe": the late answer is
  taken for the next image's.
- `CropCover`: two of them. `ADE20KWindow`: the override of
  `_precompute_group_assignments` lacks the argument its caller passes; encode()
  raises after the base and the request hangs. `FourierADE20KWindowHybrid`: it
  announces all crops, but encode() yields `num_groups` groups, 1 by default, and
  the shipped configuration sets none, so a picture of two crops is never
  answered. An assumption that the groups cover the crops, wanted for a proof,
  could not be justified from the code; that showed the second.
- `StaleScores`: the mean of the server scores is dropped under another key than it
  is kept under, so all rounds after the first select by the first round's mean.
- `StalePlan`: a query plan is recognised by the address of the candidates' tensor,
  which the allocator may give to the next round's. VGGT makes that tensor in every block,
  the linear head, the classifier and the detector at every load.

Observations that have no run of their own (`MCPipeline` keeps the
configurations, so that each takes one line of a cfg to see):

- *Speculation*: the scheduler ignores `fb_req_id`; the previous request's last
  feedback makes the next one queue all layers (`MCTwoRequests`:
  `SpeculationBounded` fails). `DynamicGroupTrigger` drops feedback that comes in
  the same pass as a complete group, and if it was the last one speculation stops
  until the final group (`SpeculationAlive` fails for it).
- *Layers that do not divide*: `group_trigger.py:70` rounds the chunk down, so with 5
  layers in 2 groups nobody approximates the last one and the last correction, of
  all layers, finds it uncached (`ScheduleSound` fails); all shipped
  configurations divide (40, 48, 64 or 80 layers, 1 or 4 groups).
- *Pyramid levels*: with `BatchCountBased`, the total of the first level is taken
  for the request's (`MCPyramid`: `WholeGroups` fails).
- *Empty groups* are not sent, so the task that answers may never be made
  (`MCEmptyLast`: `Answered` fails); zero energy or random grouping can do it.
- *A second CONFIG* (`Images = 2, LastGroup = 1, Resend = TRUE`): `_config_ready` is never
  cleared, so it does not guard a CONFIG as its comment says, and FREE_SESSION of a request
  can meet the next one of the same number. `ContextLive` fails already with
  `MaxTries = 1`; with `Settles = FALSE`, so do `AnswerOwnImage` and `NothingLeaked`.
  With a second attempt `NothingLeaked` fails in any case: the task that carries
  FREE_SESSION is dropped by a look-up that raises, and what was queued before it
  has opened a session again. With `MaxTries = 2` and `Settles` the shortest violation of
  `AnswerOwnImage` is an answer made from nothing, the first attempt's SEND_RESPONSE
  having found the second one's fresh context; `LateAnswer` is about the worse one.
- `LostGroup` does not need the in-place canvas: a rebuilt one loses its group the same
  way, until the next decode.
- *Corrections switched off*: `VGGTInterleaved` then still goes back to stage 0 with every
  PREPARE_TOKENS and approximates on from there (`ScheduleSound`, `AnswerComplete` fail),
  and so does `NYUApproxCorrect` with VGGT or the linear head, whose feature
  PREPARE_TOKENS drops. No shipped configuration does this.
- *SAM 3* cannot answer: its head wants `input_boxes` in the context, and nothing
  in the repository puts them there (`Raises`); no run has it.
- *Transmission*: misaligned middle crops correct tokens that straddle patches;
  expansion over several residual levels is ranked jointly on
  the client and on one grid at the server; in-place NYU decoding of more than two
  levels decodes the payload alone; payload maps of three levels overwrite each
  other; `create_group_index` without `token_hw` assumes a square.
- *Correction*: padded Mask2Former batches count the padding in `int(P * ratio)`, so
  a crop of fewer candidates keeps more of them; VGGT pads its frames without a flag
  (`aggregator.py:144-145` calls duplicates "idempotent here", which is true of
  recomputing, not of selecting), so with frames of unequal groups and a
  `token_keep_ratio` below 1 copies of the last patch take places in the top k from
  better patches (the shipped VGGT configurations keep all; `SelectionOwn` without its
  exclusion fails for `vggt(wide)` at ratio 70); `token_keep_cap` drops the last in raster order,
  not the lowest scores as its docstring says (no configuration uses it);
  per-layer scores select per block, contrary to the comment at the sharing of
  scores; `torch.cat` of several groups repeats the tokens before the patches
  (harmless to what is written, the values are equal, but the copies in the middle
  are candidates and take places in the quota); a Mask2Former row without the announced group
  corrects all its groups early; the depth head falls back to `x_tokens` when an
  intermediate is missing.
- *Gemma 3's axis*: `feats_appr`, "the projection of the purely approximate vision
  pass", contains corrected tokens when the axis crosses the projector after a
  correction.

## 8. What is not modelled, and why

The map covers about nine per cent of the repository's lines. Most of the rest is tensor
code, kernels, model definitions, dataset loaders and some seventy experiment
scripts, which run in one thread from top to bottom and keep no state between
calls that a model checker could say anything about.

- Tensor arithmetic, precision kernels, super-resolution, heads and the networks
  themselves: no state a model checker could follow. Which pixels a value was
  computed from is in `Executor` and `Correction`.
- The `partial_channel` method of the blocks (no configuration uses it), the CLIP
  executor's own pruning of a group, VGGT's inter-frame stacks and the separate means of
  its four stacks, and the Gemma 3 axis, which runs outside the
  pipeline.
- Raw, zlib and full-image transmission are one group and appear only as such.
- Sizes, times, statistics, event logs and their text.
- Reading of datasets, preprocessing, offline analysis scripts.
- Torn reads of a canvas painted in place; a crash of a server process; Ctrl-C on
  the server; half-open connections neither side hears of.
