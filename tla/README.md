# Formal model of the XGC2 ROS 2 Tools Adapter

TLA+ modules, TLC runs and TLAPS proofs about the adapter process in `src/`: a
C++ program that lets the XGC2 Adapter Runtime publish one ROS 2 message or call
one ROS 2 service per request. Paths below are those of the repository; line
numbers are of `src/src/tools_adapter.cpp` unless a file is named.

## The system

| Part | Source | State it keeps | Operations |
| --- | --- | --- | --- |
| Publish operation | `ToolsAdapter::Publish`, 467-571 | per request: publisher, wait deadline, subscriber count | validate, build the message, wait for a subscriber, publish, answer |
| Service call operation | `ToolsAdapter::CallService`, 573-663 | per request: client, wait and call deadline, future, pending entry | validate, wait for the service, send, poll, project the response, answer |
| Answers | `error.hpp`, `success`, `failure`, 665-706 | none | an exception becomes an answer class and code |
| Capability lifecycle | 338-421 | three atomic flags, no lock | apply and clear the instance spec, start and stop each capability |
| Native context | 261-328, 443-465 | the context the process was started for, its environment | read an instance spec, compare a later one, check the subject of a request |
| Capability binding | 137-208, 708-771 | which bootstrap capability is bound to which callbacks | compare advertised with compiled contracts, bind |
| Process | `main.cpp` | `stop_requested`, `session_lost`, executor thread | bootstrap, run, shut down |
| Message codec | `json_codec.cpp` | none (one dynamic message) | JSON to ROS message and back along introspected members |
| Request validation | 56-126, 231-240, 276-297, 423-441, `schemas/` | none | field, name, type and payload checks |
| Generators | `tools/*.py`, `schemas/` | files | compiled contracts and runtime manifests from the schemas |
| Packaging | `.xgc2/scripts/`, `ci.yml` | files of one workspace | build, check, stage and move the Debian package; describe and verify it |

Who calls whom. The Adapter Runtime client (a library outside the repository)
runs in the same process. Its control threads call the lifecycle functions; its
16 dispatch workers (`main.cpp:85`) run `Publish` and `CallService` to their end,
each blocking its worker while it waits; its callbacks store the two flags that
end `main`. An executor thread runs the ROS callbacks and fulfils the futures of
service calls. Requests, control calls, executor, signals, ROS discovery and two
clocks (steady for waits, wall clock for deadlines) all interleave, and nothing
in the adapter is protected by a lock.

What is hard here is listed with its line under `hazards` in `PROJECT.json`:
flags that are read and stored one at a time, values that are read again after a
wait, responses that race cancellation and two timeouts, effects that happened
but whose answer fails, shutdown orders, and numbers at the edge of their type.

What makes each part correct:

- **operations**: nothing reaches ROS after a cancellation or deadline that came
  in time; at most one effect per request; no answer denies an effect that
  happened; a request that waits for subscribers is not published without one;
  an arrived response is used and a late one dropped; every request ends.
- **lifecycle**: a capability is enabled only under an applied instance spec, is
  never held twice, and the runtime is never told something else.
- **native context**: whatever spec is accepted, the process is in the domain and
  RMW it calls for, and only its scope is served.
- **binding**: the process serves the compiled contracts or does not serve.
- **validation**: the checks written down in the code and the schemas the adapter
  advertises accept the same requests but in known cases, and refuse the others
  with a typed error.
- **codec**: what does not fit the message type is refused, what is taken is the
  value that was asked for as far as its member can hold it, and an answer can be
  read again where JSON has words for it.
- **process**: a stop leads to an exit with the right status, in an order in
  which no failed bootstrap leaves a thread joinable and no request is left without
  its executor.
- **packaging**: what is uploaded is one build, whatever an earlier job left.

## Modules

`PROJECT.json` maps each definition to the lines it stands for.

| Module | Models |
| --- | --- |
| `Outcome` | answers, error classes, `failure`; what an answer claims (`DeniesEffect`, `Verdict`) |
| `OperationContract` | the abstract specification of an operation: one effect, one verdict that never lies about it |
| `Operation` | what both operations share: the record of a running request, the ways a step ends, cancellation, clocks, discovery |
| `PublishOperation` | `Publish`, one action per check, wait or effect |
| `ServiceOperation` | `CallService`, with the future and the pending table of the client |
| `CapabilityLifecycle` | the three flags; one action per atomic access |
| `ToolsAdapter` | composition of the lifecycle, both operations (`INSTANCE`) and the worker pool |
| `AdapterProcess` | `main`, executor thread, runtime callbacks, signals |
| `InstanceScope` | the context, scope and environment of a spec; `validateSubject` |
| `AdapterStartup` | bootstrap, `BindCapabilities`, later specs and subjects |
| `JsonValue` | JSON values as jsoncpp keeps them, three kinds of number with their tests and conversions; documents as trees of paths |
| `RequestValidation` | the checks on a document, and the schemas as their reference |
| `MessageCodec` | message types, assignment and projection of message members: operators only |
| `RequestHandling` | one document from the request through validation, type support and codec to the ROS message, and a response back |
| `BuildArtifacts` | the files of a workspace under the build script, the manifest tool and interrupted jobs |
| `MCAdapterStartup`, `MCRequestHandling` | inputs for TLC |
| `PublishOperationProofs`, `ServiceOperationProofs`, `CapabilityLifecycleProofs`, `ToolsAdapterProofs`, `AdapterStartupProofs`, `AdapterProcessProofs`, `RequestHandlingProofs`, `BuildArtifactsProofs` | theorems |

How state and actions correspond to the code:

- **Operations.** `op[r].at` is the point the worker has reached. Code between
  two reads of something another thread can write is one step; each such read
  (the flag, the token, the wall clock, the steady clock, the subscriber count,
  `service_is_ready`, the future) is a step of its own, in the order of the code:
  the loop of `Publish` at 530-540 is `CountSubscribers`, `WaitClock`,
  `WaitCancel`, `WaitDeadline`, and the second count at 541 is
  `RecountSubscribers`. `reached` records that the message or request was handed
  to ROS; it is what the answers are held against. The fields of the JSON input
  are abstracted to what the code branches on (whether a wait was asked for);
  `Validate` may end in any answer the checks can give. Call and reply codes are
  those of the code, except that the many codes of an invalid request stand as
  one; `ProjectionErrors` are the three that `messageToJson` refuses a response with.
  Every call of rclcpp may throw, the two that only ask the ROS graph
  (`get_subscription_count`, `service_is_ready` and the wait for it) included.
- **Lifecycle.** `call[t]` holds the call a runtime thread is in the middle of:
  a start between its load of `instance_spec_applied_` and its compare-exchange,
  a clear between its three stores. `told` is what the answers said to the
  runtime, and `holders` who was told that it had started a capability; both are
  bookkeeping for properties. The parameter `Serialised` states whether the
  runtime keeps starts and clears apart (see *Assumptions*).
- **Composition.** `ToolsAdapter` instantiates both operations on the flags of the
  lifecycle, and lets at most `dispatch_workers` requests run.
- **Process.** One action per statement of `main` that other threads can tell
  apart; the two stores of `session_lost` are two steps; `spin` and `cancel` are
  modelled by the flag of the executor they both write. Every statement may throw.
  `Throw` unwinds `main`: to its catch clause, or, over a thread that is still
  joinable (118-124), to `std::terminate`, which ends the process as "aborted", as an
  exception of `spin` (117) and one of the catch clause do.
- **Startup.** One step for the spec and the environment, one per round of the
  loop of `BindCapabilities`. "failed" is a bootstrap the adapter refuses,
  "broken" a system call or library that fails.
- **Requests.** `RequestHandling` follows one document and leaves time, threads and
  cancellation to the operations. A string is its size, whether it is ASCII or at
  least UTF-8, and the form it matches ("graph name", "message type", ...); `c` is
  the same of what a C function gets of it, the bytes up to the first NUL, which is
  all that rmw sees of a name (113). What may be wrong around the document is the set
  `wrong`. A payload may be `lax`: `parseStrictJson` leaves `failIfExtra` off and so
  reads what is no JSON text (`json_codec.cpp:505`). The checks come in the order of
  the code and the first error is the answer. `Encode` also applies to a message just
  decoded, as the tests of the codec do.
- **Codec.** The code recurs over the introspected members. Here a message type, a
  document and a message are trees, each a function from paths (`message.a[0].b`,
  as the errors of the code call them) to members, JSON nodes and cells; the items of
  an array share the type at its first item. `assignMember` is what the code throws
  at one path, `Reached` the paths it comes to, `AssignedCell` and `InitialCell` what
  it leaves there, `scalarToJson` what it projects; errors, messages and documents
  are gathered from the paths. The width of `int64_t` is a parameter; ranges, the three
  kinds of number of jsoncpp, and the rounding of its range limits to powers of two
  keep their relation to it. So is the set of doubles, and each floating member has
  its own set of values; a conversion takes a `Nearest` number of the set, once to
  double (`asDouble`) and once to the type of the field, or, of a long double that is
  projected, to double (302). A field or item the document leaves out has the default
  of the interface (`initial`). `writeJson` is what a reader gets of the text: null for
  a NaN, and another text for bytes that are no UTF-8. All errors
  of a message are collected and any may be the one thrown, where the code throws the
  first in member order. The one conversion without defined result gives what amd64
  and arm64 give.
- **Build artifacts.** A file is its directory, its name and the number of the build
  it is of, which stands for its digest. The package is named after its version;
  the manifest after product, distribution and architecture, so that a directory
  holds one. A rename is one step and a copy two, between which the file is
  `Truncated`. `Exit` is a command that fails, after which the trap of the script
  cleans up; `Kill` is an end without it, or a failure of the manifest tool.
  `Tidy` removes a directory between two jobs, as a checkout does. A staging
  directory has a name of its own each time; `Staged` picks the files of this
  one out of all that were left.

## Runs

| Run | Question | Bounds |
| --- | --- | --- |
| `publish` | all promises of `Publish`: subscriber, cancellation, deadline, contract, termination | one request; its requests never interact |
| `publish_gives_up` | violated: "no ROS2 subscriber matched before the wait timeout" (544) | same |
| `service` | the same of `CallService`, with both faults of the ROS side | one call |
| `service_unprojectable` | violated: lost responses end as `uncertain` (`README.md:15`) | same |
| `lifecycle` | flags under overlapping control calls | three threads, two specs |
| `adapter_composition` | admission and contracts under real control calls; is every request answered when the pool is full | one publish, one call, one control thread, one worker |
| `process_shutdown` | exit status, thread and executor order, exit after a stop | the whole process, nothing bounded |
| `process_lost_cancel` | violated: exit after a stop, with an executor thread that is scheduled late | same |
| `startup` | context, environment, subjects, contracts | three attribute names, four values, every single deviation |
| `requests` | which requests are accepted; what is taken, refused, stored and projected | requests with one deviation or any combination of wrong envelopes; 20 bits for 64, two for the narrow types, forty doubles, fewer floats and one long double between two doubles and one beyond them, arrays of up to two, paths of up to three steps: a field, its item, a field of that |
| `codec_out_of_range` | violated: "is out of range" (`json_codec.cpp:66`) | same |
| `build_artifacts` | does the output hold one build, and is a job's own build verified | two versions, two CI runs, three builds |

Why the bounds are enough. The requests of one operation share nothing but the
flag, which every run toggles freely, so a second request adds interleavings and
no new situation for a property of one request; the pool, the only other thing
they share, has more requests than workers in `adapter_composition`, and the
proofs hold for any number. A start, a clear and a third call cover every pair of
accesses to the flags with one call to observe. The attribute maps cover every
subset of the two names and a foreign one. Twenty bits are the least that hold the
bounds of a request, 300000 ms among them, below the limit of the widest integer,
as 64 bits do. The doubles are the small halves and a few large numbers at the limits
of the integers, so that 2^63 - 1 lies between two and rounds up, as it does. Jobs are
the only thing counted: three builds let one be interrupted, one find what it left,
and one run after both; the proofs hold for any number.

### What the violated runs show

1. `publish_gives_up`: the loop ends because a subscriber matched; it leaves
   before the second count at 541; the answer claims that none matched before the
   timeout, although neither is so. The class is transient and nothing was
   published, so only the claim is wrong.
2. `service_unprojectable`: the service has executed the call, the response
   has a field `messageToJson` refuses, with any of its three codes, and the answer
   is a permanent failure, where the documentation promises `uncertain`.
3. `process_lost_cancel`: `executor->cancel()` before `spin()` has set its flag is
   lost, `join()` waits for ever. The run `process_shutdown` assumes that the
   executor spins by then, and shows that the exit then follows.
4. `codec_out_of_range`: the JSON number 9223372036854775808.0 in an `int64`
   field passes jsoncpp's `isIntegral` and `asInt64` and is stored as another
   number.

### What the passing runs except

A property that holds but for a case names the case, and each is a fact about the
code that its users should know:

- `ServesTheSchema`: the schemas allow waits of 60000 and calls of 120000 ms, the
  code 300000 of both (29); the schemas and line 31 allow names of 1024 bytes, rmw
  247; the code looks at a graph name up to its first NUL only (113), so that
  "/a\u0000x" is accepted, which the schema refuses; payloads that are no JSON text,
  with something after the document or a control character in a string, are read
  (`json_codec.cpp:505`).
- `OnlyKnownLapses`: a sent call is denied if `async_send_request` itself throws (629)
  or if its response cannot be projected (650). `service_unprojectable` shows the
  second.
- `RefusalsAreTyped`: an integer beyond Int64 in a signed field or as `domainId`
  (282), and a document nested deeper than 128 (`json_codec.cpp:511`), make
  jsoncpp throw; the answer is a transient failure that repeating cannot cure.
- `RoundTrips`: a number of a floating field comes back rounded, to double and to the
  field (`json_codec.cpp:91`, `96`: 0.1 in a `float32`), and a text that is not UTF-8
  as another text (`524`); the one double of `codec_out_of_range` comes back as another
  integer.
- `ProjectionReadsBack`: a float or double that is NaN or infinite is projected as
  `null` or beyond every number, where a long double is refused
  (`json_codec.cpp:290-302`); a long double between two doubles is narrowed (`302`); a
  text that is not UTF-8 is written as another.
- `BootstrapUnwindsSafely`: the claim of `main.cpp:115` ends with the start of the
  executor thread. An exception of 118, of `Stop` or of `cancel` finds the thread
  joinable and aborts the process.
- `CleanExit` is about a process that `main` ended with a status, not one that a
  signal killed or an exception aborted. `SessionLossIsReported` says that the status
  is not 0: after an exception it is 1, where the code otherwise returns 2.
- `VerifiesItsOwnBuild`: a job is refused for what an earlier one left, its
  killed staging directory or its verified copies of another run, until someone
  tidies up; it is never refused in an empty workspace.

## Assumptions

- **Fairness.** `FairSpec` of the operations assumes weak fairness of the worker
  only: the operating system runs a thread that can run. Termination
  additionally assumes that the steady clock advances, and says so in the
  property (`SteadyClockAdvances => ...`), since the specification itself assumes
  nothing of clocks; cancellation is shown to end an operation without any clock.
  No fairness is assumed of the wall clock, discovery, services, responses or the
  control calls. `ToolsAdapter!FairSpec` adds the clock and the dispatch of a
  waiting request to a free worker. In `AdapterProcess` the steps of `main` and of the
  executor thread are fair, of nothing else: callbacks, signals and exceptions of
  `spin` may never come, and a callback that has begun may never go on.
- **The runtime** (not in this repository) does not overlap a start with a clear
  of the instance spec (`Serialised`). Without it `EnabledOnlyWhileApplied` does
  not hold: a start may load the applied flag before the stores of a clear and
  exchange its flag after them. The three flags need it and no code here enforces it.
- **The wall clock** may be set back over a deadline (`ClockStepsBack`); that makes
  the deadline future again, and the code rightly goes on. `setBack` remembers it,
  for the deadline properties only, which except such a request. The runs of the
  composition leave it out to stay small.
- **`RosFaults`** chooses whether `async_send_request` may throw and whether a
  response may be one the codec refuses. `CallService` keeps its contract without
  them (`adapter_composition`, `ServiceImplementsContract`); with them it is broken in
  two ways only (`OnlyKnownLapses`): the answer to a call whose sending threw, and the
  refusal of a response, under any of the three codes.
- **jsoncpp** is modelled as version 1.9 of Ubuntu 24.04; rclcpp by how the code
  uses it.

## Proofs

All are checked by `tlapm`, for every value of the constants.

- **Publish** (`PublishOperationProofs`). `PublishTypeCorrect`: every step leaves
  a record of its type. On it rests the invariant that a request past
  `RecountSubscribers` that waits has counted a subscriber, and that only requests
  past the publication have reached ROS; it is needed because the promise relates
  the effect to a count made several steps earlier. From it follow
  `PublishKeepsSubscriberPromise` and `PublishImplementsContract` (every step of
  `Publish` is a step of `OperationContract` or stutters). For
  `PublishHonoursCancellation` the invariant is per request: once cancelled
  before the last check, it stays at or before that check or is done without
  effect; the token is never reset while it runs. `PublishHonoursDeadline` is the
  same of the deadline, until the clock is set back over it.
- **Service** (`ServiceOperationProofs`). The same theorems, and
  `ServiceUsesArrivedResponse` (a response that is in stays in, and every step
  from the poll leads to an answer that is not "unknown"),
  `ServiceDropsLateResponse` (an answered call is not pending, so nothing
  arrives), `ServiceLapsesAreKnown` and, for `RosFaults = {}`,
  `ServiceImplementsContract`.
- **Startup** (`AdapterStartupProofs`). The code compares two attributes and the
  size of the map. `AttributesAreFixed` proves that this determines the whole map,
  by counting. Hence the scope of an accepted spec and an accepted subject is the
  one of the context, and `StartupSubjects` and `StartupEnvironment` follow from
  an invariant that says what each accepted spec and subject was accepted against.
- **Lifecycle** (`CapabilityLifecycleProofs`). `EnabledOnlyWhileApplied` is not
  inductive: `ClearApplied` stores one flag and relies on what two earlier steps
  did to the others. The invariant `FlagsInv` adds what each call in progress may
  rely on: a start between its checks and its exchange still finds the spec
  applied, a clear finds the capabilities it has stopped still off, and the two
  never overlap (`Serialised`, the assumption on the runtime). `RuntimeIsRight`
  follows from the same invariant. `OneHolder` needs no such runtime: a capability
  that is off has no holder.
- **Contracts** (`AdapterStartupProofs`). `StartupContracts` and `StartupRefusals`
  rest on `BoundInv`: each callback bound so far belongs to the contract at its
  place, which is the compiled one, and no capability is bound twice. That two
  different names in a list of two are all of them is a counting argument
  (`PairByCount`). `StartupRefusals` needs the converse of `AttributesAreFixed`
  too: the right scope passes the comparison.
- **Requests** (`RequestHandlingProofs`). `RequestsServeSchemas` compares, field by
  field, the checks with the schema for every document whatsoever.
- **Codec** (`RequestHandlingProofs`). The five codec properties, for every message
  type, document and nesting. What the code does by recursion is proved along the
  path to a node: what holds at the root and, from each node, at the next, holds at
  the last (`AlongPath`, from the least natural number that would not do). So a
  document without an error is reached everywhere (`TakenEverywhere`), its message
  has the places of its type (`DecodedPlaces`) and a well-typed cell at each
  (`TakenIsTyped`); taken and fitting documents are the same but for one double
  (`TakenFits`, `FittingIsTaken`); projection and writing keep the places
  (`WrittenPlaces`) and are undone by decoding (`TakenRoundTrips`,
  `ProjectedReadsBack`). That a nearest number exists in any set that is not empty,
  and is the number itself if the set has it, is `NearestExists` (the least of the
  distances, which are natural numbers) and `NearestOfMember`.
  `HandlingInv` carries this through the request: the promises about a decoded or
  projected message are about the document and the type it came from, several steps
  before, and a response of a service replaces both.
- **Process** (`AdapterProcessProofs`). One invariant ties the place of `main` to
  the runtime, the thread and the ROS context. `ProcessUnwindsSafely` reads it at the
  steps of the bootstrap: there is no thread before the last of them ends. With
  `PromptExecutor` left open, all five theorems hold for a late executor as well; only
  the exit does not.
- **Build artifacts** (`BuildArtifactsProofs`). `OutputIsOfOneBuild` is inductive only
  with what the steps between the two moves rely on: the output was empty when
  staging began, and only this job's files have come since. `VerifiesItsOwnBuild`
  needs that the package described is the one in the output directory, that
  what `verify_build` matched is of this build, and that copies replace nothing else;
  that a clean job is not refused is an invariant of its own, `CleanInv`.
- **Composition** (`ToolsAdapterProofs`). `AdapterImplementsOperations`: under the
  real control calls and any pool, the adapter implements the specifications of
  both operations and of the lifecycle. So the theorems above carry over:
  `AdapterTypeCorrect`, `AdapterKeepsContracts` (for `RosFaults = {}`) and, from
  `EnabledOnlyWhileApplied` and the single read of the flag that admits a request,
  `AdmitsOnlyWhileApplied`. The proof module instantiates the proof modules of the
  operations; the lemmas named `...Agree` say that their copy of each definition
  is the one `ToolsAdapter` uses.

Only model-checked: the liveness properties (termination, cancellation, pool,
exit), which need fairness and are out of the prover's reach. Every safety and
action property of the runs is a theorem.

The constants are assumed to be what the code makes them, and TLC evaluates each
assumption. Of the requests: documents have the shape jsoncpp gives them, with
arrays of at most `MaxItems` and paths of at most `MaxDepth` steps, any numbers
(`SizesAssumption`, `RequestsAssumption`); the widest integers hold the longest
wait, as 64 bits do (`WidthAssumption`). Of the types: members as rosidl generates
them, with integers no wider than those of jsoncpp and fixed arrays no longer than
`MaxItems`, floats and doubles whose values are doubles, long doubles that hold every
double, and defaults that are values of their members; a response is a value of its
type (`TypesAssumption`). Of the doubles: they hold zero and the limits that jsoncpp
compares with (`DoublesAssumption`).

## Not modelled

- The result schemas: results are built field by field from clocks and counts that
  the models abstract.
- The characters of a text: that a payload is lax, and what a string that is not
  UTF-8 becomes, are facts of the input and of the reader. The serialized bytes.
- Introspection that lacks a function or nested members (25-31, 124-148, 257-279 of
  `json_codec.cpp`): generated type support has them. In `ServiceOperation`, where a
  response may fail in any way, its code is among the answers.
- The Adapter Runtime client beyond its calls, and rclcpp beyond what is used.
- The generators: pure functions from the schemas to a header and two manifests, run
  once. That advertised and compiled contracts agree is checked again by
  `BindCapabilities`, which is modelled.
- What the build container compiles and checks, and the other scripts: sequential,
  without state of their own. Two builds at once on one output directory. The
  verified copy of another version that stays in `verified-debs` (it is not
  uploaded). The release workflow, which calls the same scripts.

## Plan

1. Done: operations, lifecycle, composition, process, startup, requests, codec, build
   artifacts, with the theorems above.
2. Left: the generators and the result schemas, if a disagreement between them
   and the code can be stated that `BindCapabilities` does not find at startup.
3. Left to prove: nothing that the provers reach among the properties of the
   runs. The generators, once modelled.
