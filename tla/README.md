# A TLA+ verification project for butler-core

butler-core is a Python library of provider-neutral contracts: hosts register
tools, plan with a language model, run tools under a permission policy, resolve
requests through ordered resolvers, probe what is available, hand work over to
stores and workers, and trace what happens. It has no event loop, no storage and
no network. What is hard in it is what happens between its few moving parts: the
worker thread and the timer of every tool call, calls and pipelines nested in
each other, the trace context that has to follow all of it, mappings that
several parties hold, and a registry that several threads may fill.

All source paths below are relative to `src/src/butler_core/`.

## 1. Inventory

| Component | Source | State it keeps | Operations | Interacts with | What makes it correct | Status |
|---|---|---|---|---|---|---|
| Execution engine | `execution.py` 275-549 | policy, registry reference; per call: a one-thread executor, a future, the caller's context | `execute` | registry, validation, tracer, handlers on a worker thread, nested `execute` | policy and validation before the handler; one verdict per call, justified by what the handler did; cancelled handlers never start; calls return; threads go away; one event per result, in the caller's trace | modelled |
| Argument validation | `execution.py` 102-272 | none | `validate_arguments` | engine, planner | accepts exactly what the schema admits and locates every fault | modelled |
| Tool registry | `registry.py` | name -> definition dict, no lock | `register`, `get`, `list_tools`, `names`, `execute` | plugins, engine, planner | a name is never taken from its owner; `execute` runs under the default policy | modelled |
| Resolution pipeline | `resolution.py` | resolvers, fallback | `resolve` | host handlers (also nested `resolve`), tracing | first answer wins; failures do not fall through; fallback only last and explicit; events tell the result | modelled |
| Tracing | `tracing.py` | one `ContextVar` | `trace_context`, `traced_span`, `safe_emit`, set/reset, metadata conversion, level retention | everything that traces | scopes and tokens restore the context; one trace per request; tracer failures are invisible | partly |
| Plugin contributions | `contributions.py` | frozen declarations | construction, `validate_plugin_definition`, the registrar | registry, resolution, readiness | accepted declarations are consistent; what conforms loads and can be verified | modelled |
| Planner | `planner.py` | configuration | `plan`, `describe_tools` | provider (host), registry, validation, engine | a plan is structured, stays executable, and is never authorised by the provider | modelled |
| Readiness | `readiness.py` | none | `evaluate_availability_probe`, `aggregate_availability` | host probes | failures stay visible; a summary of summaries is the summary of all | modelled |
| Jobs, output | `jobs.py`, `output.py` | frozen records | trace capture and restore; protocols of stores, runners, adapters | tracing | the trace follows work that is done later, by another thread | partly |
| Models, exports | `models.py`, `__init__.py` | none | none | - | - | partly |

Hard behaviours: the race of the timer with the worker; cancellation of a
future the worker already holds; handlers that outlive their call; nested calls
that wait on other threads; BaseExceptions, and a KeyboardInterrupt between any
two steps of a call; a mapping read twice, or written by
the provider it was described to; a pipeline that returns another pipeline's
result; nested scopes of one context variable, and tokens reset out of order or late;
requests retried, delivered twice or damaged; aggregates of aggregates;
check-then-set without a lock; partial registration and retry. `PROJECT.json`
lists each under "hazards" with its line and the properties that cover it, or
why none does.

## 2. Modules

    Permissions                  permissions, policies, verdicts (operators only)
    Tracing                      contexts, levels (operators only)
    Execution                    execute + worker thread + registry route; uses Permissions, Tracing
      ExecutionProperties        invariants, liveness, refinement of ExecutionContract
        MCExecution              constants for TLC
        ExecutionProofs          policy, threads, refinement, traces, no deadlock
    ExecutionContract            what execute promises
    Resolution                   resolve + trace_context + traced_span; uses Tracing
      ResolutionProperties       invariants, refinement of ResolutionContract
        MCResolution
        ResolutionProofs         contexts, answers, refinement
          ResolutionEventProofs  what the events tell
    ResolutionContract           what resolve promises
    Contributions                plugin construction, validation, loading; registry
    Validation                   validate_arguments
    Planner                      plan, the registry and the plan's way through execute; uses Permissions
    Readiness                    probes and aggregation
    Handoff                      job and output requests, store, workers; bare set/reset

Each of the last five has a `...Properties`, an `MC...` and a `...Proofs`
module. The modules that compose components are
`Execution` (engine, registry, tracing), `Resolution` (pipeline, tracing),
`Planner` (planner, registry, engine) and `Handoff` (jobs, output, tracing).

### Execution

A call `c` of `execute` is a pair of threads. The caller's program counter
`pc[c]` walks the body of `execute`: `Lookup` (292-304), `Validate` (306-322),
`ApplyPolicy` (324-331), `Submit` (333-344), the wait in `future.result`, which
ends by `Collect` or `Timeout`, then `Cancel` (351), `Emit` (`_result`) and
`Shutdown` (374). SUCCESS is emitted after the finally block, all other results
before it; the model keeps that order. `worker[c]` and `future[c]` are the
thread and the future of the call's `ThreadPoolExecutor`: `Take` (from the
queue), `Start` (`set_running_or_notify_cancel`), `Finish`, `Exit`. These four
are external: they model CPython's `concurrent.futures` as far as `execute`
depends on it, in particular the gap between taking an item and starting it, in
which a cancellation still works and `cancel_futures` no longer does.

`Parent[c]` is the call whose handler issues `c`; a handler has at most one
nested call in progress, as its thread waits for it. A handler that timed out
keeps running and may begin calls. `ctx[c]` is the trace of the worker thread (a
copy of the caller's context), `caller[c]` the trace the call was made in.
`Span` is a handler that enters or leaves a `traced_span` or a `trace_context`,
of the current context or of one it names (`Adopted`); `scopes[c]` has what its
open scopes will restore.

`Interrupt` is a KeyboardInterrupt in the thread of a host. It can strike
anywhere in `execute`, and the places differ: before the item is put on the queue
(`InterruptedBefore`); in `submit` or between it and the `try`, where the item is
queued, its thread started or not, and nothing shuts the executor down
(`InterruptedSubmit`); in the `try` block or in `_result`, which the finally
block follows and whose event may be out (`InterruptedBody`); and in `shutdown`
itself, before it, with the flag set or with the queue drained
(`InterruptedShutdown`). A worker ends when its executor has been shut down or
when the executor has been collected, which happens once `execute` has left
(`Exit`).

`Register` is a registration by the host meanwhile; `via` tells the route
through `ToolRegistry.execute`, which has a default policy and no tracer. An
event carries what `_emit_result` makes of the result: its own status, level and
severity (`Classification`).

Left out: argument values (an argument mapping is "valid" or "invalid" for its
tool; `Validation` says which it is), return values, messages, durations.

### Resolution

A call `r` of `resolve` is at `scan` (the top of the loop), `asking` (a resolver
or the fallback runs) or `judge` (its answer is looked at). `asked[r]` counts
the resolvers called, the fallback last. `Answer` models `_call_resolver` and
`_call_fallback`: what a handler may do is one of eight kinds, among them a
`ResolutionResult` with a status that is no `ResolutionStatus`, which no check of
the code rejects: one without `.value` ("malformed") makes line 237 raise, a
member of another Enum ("foreign") is returned, without an event. A result a
handler returns may carry any claim about its own resolver and fallback, as that
of a nested pipeline does. `current[t]` is the context variable of thread `t`; `root[r]` and `span[r]` are
what the `with` blocks of `resolve` and of `traced_span` set, `token[r]` and
`spanToken[r]` what they restore. A handler may call `resolve` and may
open spans one at a time around such calls (nested calls open spans of their
own, which nest). Values and error texts are left out.

### Contributions

`Construct` is `PluginDefinition(...)` with its capabilities, `Validate` the
conformance helper, which runs the registrar on a private registry, and
`BeginLoad`, `Check`, `Store`, `RegistrarReturns` a host thread that runs the
registrar on the shared registry. `register` is two steps because nothing locks
the dict. A public name is the sequence of its dotted parts, so that
`domain.name` is concatenation and two capabilities of different domains can
collide. `raced` is a history variable: the pairs of plugins whose loads have
overlapped. Loading is host code (external): the registrar lets exceptions of
`register` through, may raise itself, and may be run again after a failure.

### Validation

A pure algorithm: the state machine picks a tool's parameters and a call's
arguments and validates once. Schemas and arguments are both trees of Python
values, because a malformed schema is part of what the code handles. A tree is a
function from the paths of its values to their nodes (the kind of the value and
the text of a scalar), so that a position of the arguments, a part of a schema
and the place of an error are all paths. `OnlyErrors` has the checks of
`_validate_value` that return at once, `OwnErrors` those that append, `Calls` the
recursive calls; `ValidateValue` is the function, over all pairs of a part of the
schema and a value, that its recursion defines. `Expanded` is the shorthand that
turns parameters into an object schema unless one has the name of a schema
keyword. An error is a path and a reason; its wording is left out. `PyEqual` is
Python's `==`, under which `True`, `1` and `1.0` are equal. Keys and the names in
`required` are taken to be strings. `MaxDepth` bounds the nesting of arguments, as
the interpreter's recursion limit does.

The keyword test has consequences the model shows (`execution.py` 251): a
parameter named `items` or `enum` turns the shorthand into a schema that
restricts nothing else, and one named `type` makes every call invalid.
`DeclaredArgumentsChecked` therefore excludes such names.

### Planner

`plan[p]` is made by `Ask` (`describe_tools`, the disabled check), `Respond` or
`ProviderRaises`, `Lookup` and `Validate`; `ResponseError` has the checks of a
response in their order. A provider can be anything: it may return a payload
with several flaws, claim `user_authorized`, name tools it was not offered, and
write the parameters mapping it was handed, which is that of the registered tool
(`planner.py` 138). `EngineLookup`, `EngineValidate` and `EnginePolicy` are the
same plan in `execute`, later, on the registry and the mapping as they are then;
the host may confirm and execute again, and may make plans of its own. Schemas
and arguments are atoms related by the constant `Accepts`. `consent` and
`rewritten` are history variables. What happens after the policy is
`Execution`'s. `ToolPlanSequence`, a record nothing reads, is left out.

### Readiness

`told[c]` is what the probe of a capability did, `result[c]` what
`evaluate_availability_probe` made of it, `summary[p]` what
`aggregate_availability` made of a package's results; the host probes again
whenever it likes, so `basis[p]` remembers what the summary was made from.
`Overall` is the aggregate of the summaries, a second level the code never
documents but whose results have the type it accepts. Reason codes and
diagnostics are left out.

### Handoff

A worker, or a host thread, begins work, with the trace of a stored request if
its metadata has one that is well formed (`from_metadata`), opens and closes
spans, submits new requests and old ones again (`with_current_trace`, whose
treatment of None differs between jobs and outputs), and ends by returning or
raising. A store keeps every request, so it may deliver late, again or never,
and `Damage` makes metadata malformed. `stack[w]` has the scopes and the tokens
of a thread's work: a scope resets its own token whatever was set inside it,
and the tokens made inside it move to `late[w]`; bare tokens may be reset in any
order, also after their scope (`ResetLate`), or be forgotten. A token is local to
the work that made it: what another work, or thread, does with it is left out. `bare`, `disordered`,
`dirty`, `start` and a request's `cause` and `clean` are history: they say when
only scopes have decided what the context is. A context stands for its trace id.
Left out: a `traced_span` given a context other than the current one.

## 3. What the runs check

| Run | Instance | Shows |
|---|---|---|
| `exec_policy` | two independent calls, all requests of four tools, all policies, late registration | `TypeOK`, `PolicyBeforeExecution`, `ConfirmationSuffices` |
| `exec_calls` | a chain of three nested calls with requests that succeed, are refused and fail, with and without a host trace, one scope in each handler, with its own context or an explicit one, KeyboardInterrupt | `OrphansOnlyAfterTimeout`, `TraceCorrelation`, `OneEventPerResult`, `NothingStuck` |
| `exec_interrupts` | a call, one nested in it and one of another thread, two threads in all, all handler endings, KeyboardInterrupt, a tracer that may raise | `StructuredResult`, `NoWorkLeftBehind`, `ImplementsContract` |
| `exec_liveness` | a call, one nested in it and one of another thread, two threads in all, handlers that may hang, a mapping another thread writes | `HungHandlersReleaseCallers`, `NestedCallsReturn`, `WorkersReclaimed` |
| `resolution` | a pipeline of two resolvers and a fallback with all eight answers, one nested in it on the same thread whose tracer may raise, a third on another thread with a trace of its host; a span in each | `TypeOK`, `ContextRestored`, `OneTracePerRequest`, `FallbackIsExplicit`, `TraceTellsTheResult`, `EscalationsRetained`, `ImplementsContract` |
| `plug_loading` | three plugins, two loader threads, one retry; declarations good and inconsistent in each way the checks tell apart, and ones that claim the same tools | `TypeOK`, `OwnershipLostOnlyByRace`, `RefusedOnlyForOthers`, `ExpectationsResolve` |
| `schema_validation` | 29 declarations of a parameter in three kinds of tool, 53 argument mappings, names of keywords as parameters | `AcceptedMeansValid`, `ErrorsAreLocated`, `DeclaredArgumentsChecked` |
| `plan_execution` | two plans, three tools of which one is registered late, two schemas, a provider that returns each kind of response and rewrites schemas, three policies | `TypeOK`, `PlansStayExecutable`, `ProvidersCannotAuthorise`, `OfferedToolsAreKnown` |
| `readiness` | three capabilities in two packages and an empty package, every behaviour of a probe, probed again in any order | `SummaryOfSummaries`, `FailuresStayVisible` |
| `handoff` | two workers, one of which uses the bare functions, a job and an output, two traces, a lossy, repeating, damaging store | `TypeOK`, `WorkKeepsItsTrace`, `ThreadsStartClean`, `TokensRestore` |
| `exec_timeout_error` | two nested calls whose handlers may raise `TimeoutError` | that `TimeoutOnlyOnExpiry` is violated (section 6) |
| `exec_shared_arguments` | one call whose mapping another thread writes | that `BoundArgumentsValid` is violated (section 6) |

`ImplementsContract` is the refinement of `ExecutionContract` (a call answers
once, with a verdict its handler's fate justifies, and no handler starts after it
unless the call was interrupted) by `Execution`, and of `ResolutionContract` (a resolution asks in order and the
first answer that is not a decline is the result) by `Resolution`. `AcceptedMeansValid`
compares the recursive validator with a reference that looks at each position of
the arguments by itself and knows no order of checks.

### Bounds

- Calls and resolutions: two or three. A call interacts with its parent, with
  its nested calls and, through the registry and the number of threads, with
  calls beside it; three give one of each, and chains of depth three give an
  inner call whose parent is itself nested.
- `MaxThreads` is 2 in `exec_liveness` and `exec_interrupts`, so that the third
  call may find no thread; elsewhere it is at least the number of calls.
- `MaxScopes` 1 in `exec_calls`: one scope for each handler; scopes nest through
  nested calls, whose handlers start in the context of the scope around them.
  `Adopted` has one trace, other than the host's. `exec_interrupts` has no scopes
  and `exec_calls` no shared mapping, since what they check does not depend on
  them and each multiplies the states.
- `MaxSpans` 1: one span for each resolution; nesting of spans comes from nested
  resolutions. The outer pipeline answers in all ways; the nested one in one of
  each way it can be left (a result, an exception of `resolve`'s own, a
  BaseException), which is what the scopes around it see; the third only declines.
  The nested pipelines' host has no trace, so that what is restored differs from
  what was set.
- `MaxLoads` 2: a first load and a retry. `MaxLoaders` 2: the race needs two.
- `plan_execution`: two plans let a provider rewrite what the other plan was
  validated with; two schemas, one accepting less, are what validation can tell
  apart. Each flaw of a response occurs alone, and one pair checks their order.
- `MaxStack` 2 and `MaxRequests` 2 in `handoff`: a token inside a scope, a scope
  inside a token, two tokens out of order; a request and its retry. A token made inside a scope still counts
  when the scope has been left, so that one late reset fits as well. Two traces
  are enough to be in the wrong one.
- `schema_validation`: nesting of schemas to depth three (an array of objects
  with typed fields inside a parameter), and for every check a value that passes
  and one that fails it, alone and below another fault. `MaxDepth` is 4, the
  longest path of an argument mapping is 3; `Strings` is all strings.
- Plugins, plans and trace ids are interchangeable in `plug_loading`,
  `plan_execution` and `handoff`, which use symmetry and check invariants only.
- Deadlock is checked in `readiness`, where a host can always probe. It is not
  elsewhere: calls, plans and validation end, and hosts may stop.

### Fairness

`FairSpec` is `Spec` with `ThreadFairness`: an unblocked caller or worker thread
runs on, which the operating system's scheduler provides and nothing else in the
code has to. Two further assumptions are antecedents of the properties that need
them. `TimeoutsExpire`: `future.result` is always given a number of seconds
(`execution.py` 347-349); `HungHandlersReleaseCallers` needs it and never
assumes that handlers end. `HandlersEnd`: a handler ends once nothing it called
is in progress; `NestedCallsReturn` needs it and never assumes that a timeout
expires, which would hide a deadlock between nested calls behind the timer. Weak
fairness is enough: each step stays enabled until it is taken. `Register`,
`Begin` and the environment's steps have no fairness.

## 4. What is proved

TLAPS checks the theorems below for every value of the constants that meets
the named assumptions of the modules: parents and threads are functions on the
calls, a nested resolution runs on its parent's thread, policies and requests
are of their type, a request through the registry is unconfirmed, trace ids
differ from None, and so on. Every invariant and refinement of `Execution`,
`Resolution`, `Contributions`, `Validation`, `Planner`, `Readiness` and `Handoff`
that a passing run checks is proved, under the further hypotheses named here where there are any.

**Execution.** `TypeCorrect`. `PolicyIsEnforced`: the inductive invariant
`PolicyInv` ties each program counter to what has been established by then
(looked up, validated, allowed), because `PolicyBeforeExecution` speaks of
workers only. `NothingLeftBehind` and `ExecutionRefines` rest on `ThreadsInv`,
one `CallerInv` and one `FutureInv` for each call: which states of the worker,
the future and the executor go with which program counter, and, for a call that
was interrupted, with no program counter at all: `NoWorkLeftBehind` says of such
a call only what can still be relied on. The refinement maps a call to its
verdict (open until `execute` has left) and its handler's state; `Take`, `Exit`,
`Emit` and the checks stutter. The contract lets a handler start late when its
call may have been interrupted (`LateStart`), and never otherwise.
`ResultsAreStructured` follows from the same two invariants: it names the three
causes for which `execute` may raise and has no hypothesis. `ConfirmingHelps`
assumes that nobody else writes the arguments of a call (`SharedArguments` is
empty); `RequestInv` adds that a request's answer was decided with the arguments
and the confirmation it still has.

`OrphansAreTimeouts` rests on `NestInv`: a call in progress is under a handler
that runs. `TracesFollowCalls` rests on `ContextInv`: a worker's context is the
trace of its caller, except within scopes, whose entries lead back to it; a
nested call's caller is the worker it was made on, so that one trace goes down
the whole chain, or the one a handler named.
`ResultsAreTraced` adds `EventInv` to `ThreadsInv`: at each program counter a
call has no event or exactly the one of its result, which is where SUCCESS
differs from the other results; `FutureInv` then says what became of the handler
a result speaks of, although that handler may run on.

Of termination, the two halves that are safety are proved. `WaitingGoesDown`:
whatever is not done can go on by itself (`CanMove`, without a timer) or waits
for a call nested in its handler, which needs that a waiting caller's future is
never cancelled and that a call that has left has shut its executor (`MoveInv`).
`NoDeadlock` takes the unfinished call that is nested deepest, so that something
can always move; it assumes that calls are not nested in themselves nor without
end (`Height`). `StepsRunOut`: each step of a call's two threads uses up some of
at most fifteen that `Remaining` counts, and nothing gives any back. What these
leave to TLC is that fair threads take the steps they can.

**Resolution.** `TypeCorrect`. `ContextsAreRestored` is the deepest: `StackInv`
says that the resolutions in progress on a thread form a chain by `Parent`, so
that there is one innermost scope, and `ScopeInv` that the thread's context is
the innermost scope's and every token that of the scope around it.
`FallbackUseIsExplicit` and `ResolutionRefines` rest on `AnswerInv`, which ties
the result to the answer it was made of. `RequestsKeepTheirTrace` adds `TraceInv`:
whatever a resolution sets or emits belongs to its thread's request.
`EventsTellTheResult` rests on `TellsInv` (which events there are at each point
of the loop, and which end it when it is left), and `EscalationsAreRetained` on
that and on `LevelInv`, by which no event it speaks of is below OPERATIONAL.

**Contributions.** `TypeCorrect` with `PositionInv`. `NamesAreKept` rests on
`OwnershipInv`, whose key conjunct says what can happen between the two halves
of `register`: if the name a plugin is about to store is held by another by
now, their loads overlap. `RefusalsAreForOthers` and `ExpectationsCanRun` add
`ConformanceInv`.

**Validation.** `ArgumentsAreJudged`, `ErrorsDoLocate` and
`DeclarationsAreChecked` hold for all parameters and arguments that are trees
whose root is a dict (`MappingsAssumption`) and for any finite bound on the
nesting of arguments. The invariant, `ValidInv`, only says that the result is
that of `validate_arguments`; the work is in what that computes.
`ValidateValueReturns`: a function that satisfies the recursion exists and is
the one meant, by induction on the depth still left below `MaxDepth`, since every
call descends in the arguments (`CallsDeeper`) though not always in the schema.
`GoverningPart`: the path of the reference definition and that of the calls are
the same at every step. `ErrorsPointAtFaults` goes from the deepest call upwards,
`FaultsHaveErrors` downwards along the positions whose surroundings could be read
(`UnblockedIsReached`), and `NoErrorsIffNoFaults` takes the shortest faulty position,
around which nothing can be unreadable. For the shorthand, `FaultyUnder` shows
that nothing the reference says of a schema changes when it is moved one key
further down. The library's induction theorems take an operator as a
parameter, so induction over the naturals is by minimal elements of sets (`Least`,
`Induction`), which follows from the well-foundedness of `<`. `Strings` is a
constant because the prover does not know that a literal is in `STRING`;
`StringsAssumption` says that it holds the keywords.

**Planner.** `TypeCorrect`. `PlansAreExecutable` and `OffersAreKnown` rest on
`PlanInv`: from its lookup on a plan's tool stays registered, and from its
validation on its arguments stay accepted unless `rewritten` says otherwise.
`UsersAuthorise` rests on `ConsentInv`: a confirmed request, and a plan marked
authorised, had the user's consent. Each is shown to survive the steps of the plan
itself, of every other plan (which write what this one was validated with) and
of the host.

**Readiness.** `TypeCorrect`. `SummariesCompose` and `FailuresAreVisible` rest
on the lemma `NestedAggregation`: the aggregate of the aggregates of any family of
non-empty sets of states is the aggregate of their union. The empty package is
why the sets must not be empty: its UNKNOWN counts as a state.

**Handoff.** `TypeCorrect`, `TracesFollowWork`, `ThreadsAreClean`,
`TokensDoRestore`, from one inductive invariant. `WorkerInv` says of each thread
that an idle one is at rest (`AtRest`), that the first entry of a linked work's
stack is its scope (`BaseScope`), that the stack leads from the context at the
start to the present one as long as tokens are reset in order (`InOrder`), that
without bare sets there are scopes only, all of one trace (`ScopesOnly`), that
work on a thread no earlier work has soiled starts without a context
(`CleanStart`), that without bare sets no token is left over from a scope
(`NothingLate`), and that the metadata of the work's request tell its cause
(`TellsCause`); `RequestInv` says the last of each stored request.

**Only model-checked.** Liveness under fairness (the three properties of
`exec_liveness`) is out of the prover's reach, and so is ENABLED: `CallerReady`,
`WorkerReady` and `HandlerFree` spell out the guards of the steps they speak of.

## 5. Properties and mutants

Every property of a passing run has a mutant: an operator defined beside the
one it replaces, marked `Mutant:` and used nowhere else, that puts a plausible
bug in its place (no `future.cancel()`, `shutdown(wait=True)`, one pool for all
calls, a context variable shared by threads, `register` without its test, a
planner that reads `user_authorized` from the payload, a boolean that passes for
an integer, metadata that is not checked, ...). With the mutant in place TLC
finds the property violated.

## 6. Disagreements found

A handler that raises `TimeoutError` is reported as TIMEOUT (`execution.py`
350), with a message that says the tool exceeded its timeout. Run
`exec_timeout_error`.

What `execute` validates is not what it hands over: `request.arguments` is read at
306 and again at 343, and its owner may write it in between. `README.md` 58 says
that the engine validates arguments before invoking a tool. Run
`exec_shared_arguments`.

Observed while modelling, and part of the models, but without a run of their
own, some of them because no document promises otherwise:

- A handler that calls `sys.exit` makes `execute` raise `SystemExit`
  (`execution.py` 364): no result, no event. `StructuredResult` names it.
- `submit` is outside the `try` block (`execution.py` 340): when no thread can
  be started `execute` raises, and after a KeyboardInterrupt there the handler
  may still start. `NoWorkLeftBehind` says how far that goes.
- A `ResolutionResult` whose status is a plain string makes `resolve` raise
  `AttributeError` (`resolution.py` 237), where `docs/architecture.md` 51 says
  that resolver failures become structured ERROR results. One whose status is a
  member of another Enum is returned as it is, and no event tells of it.
  `ResolutionContract` names both.
- A `traced_span` left by a BaseException has no terminal event (`tracing.py`
  245), where `docs/contracts.md` 78 says that it emits one. The span's context
  is restored even so: `ContextRestored`.
- An `enum` of `[1]` admits `True` (`execution.py` 171), as Python's equality has
  it. `PyEqual` is on both sides of `AcceptedMeansValid`, which therefore takes
  no position on it.
- `json.loads` can raise more than `JSONDecodeError` (`planner.py` 179), and
  `plan` then raises: the response "undecodable".
- Parameters with the name of a schema keyword (`execution.py` 251, section 2).
- Two threads that register the same name at once can both succeed, and the
  second definition replaces the first (`registry.py` 17-22).
  `OwnershipLostOnlyByRace` says exactly how far that goes.
- A provider can write a registered tool's parameters (`planner.py` 138).
  `PlansStayExecutable` says how far that goes.

## 7. Not modelled

- `traced_span` and `trace_context` with a context other than the current one,
  in the handlers of `Resolution` and in the work of `Handoff`: `Execution` has
  it for the handlers of tools. What a token of one work does in another, or on
  another thread (where Python refuses it).
- A KeyboardInterrupt in `resolve`: it is a BaseException that no handler
  raised; "base" has the same way out, from the handlers only.
- Keys of arguments and metadata that are no strings.
- `ToolPlanSequence`, reason codes, diagnostics, durations, messages and
  values: data that no code of the repository decides by.
- `JobStore`, `JobRunner`, `OutputAdapter`, `Tracer` and `PlannerProvider` are
  protocols; their implementations are host code. `Handoff` has what a store
  may do, `Planner` what a provider may do.
- `__init__.py` re-exports; `models.py` has records and, in `ToolPermission`,
  what `Permissions` models.

`Planner` and `Execution` take validation as a relation of atoms (`Accepts`,
"valid"), not as `Validation`'s trees: a call of `validate_arguments` reads its
mapping at one point, so that putting it in their place would add no
interleaving, and what they need of it is that it is a function of the
parameters and the arguments.
