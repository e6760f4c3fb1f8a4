# TLA+ models of wrapgen, Score-P's MPI wrapper generator

This directory models `src/tools/mpi_wrapgen2`. It is the Python generator that writes
Score-P's MPI measurement wrappers for the C and the Fortran 2008 bindings. The subject is
the generator's core framework:
- how tasks are attached to a wrapper;
- how their declarations and code fragments are combined into the wrapper's source.

Paths below are relative to `src/tools/mpi_wrapgen2/wrapgen/generator/` unless they say
otherwise.

## 1. The system

### Components and their state

| Component | Source | State it keeps |
|---|---|---|
| Scope | `scope.py` | An ordered name → binding dictionary; `update` is last-write-wins. |
| Task contract | `task.py`, `c/wrapper_tasks/ctask.py` | Class level: `dependencies`, `has_conflict_with`, `allow_multiple_instances`, `is_auxiliary`, the inheritance chain. Per instance: the attributes, the internal-parameter scope (`needs_parameter_names` resolved against the procedure), and the local scope (`_local_scope`), a snapshot taken at construction. |
| Attachment resolver | `wrapper.py` | `add_task` → `_add_auxiliary_dependencies` → `_add_task`. It checks the rules, then constructs and attaches the task. |
| Hook composer | `wrapper_hooks.py` | The list of attached tasks. The `hook` decorator emits the wrapper's own output, then each attached task's same-named method in attachment order, then an optional post part. |
| C wrapper templates | `c/c_wrapper.py` | `DefaultWrapper`: the wrapper's own locals, and the fixed sequence of hooks `generate()` runs. The body nests into enter/exit blocks that depend on the event-generation flags. |
| C task catalog | `c/wrapper_tasks/*.py` | About a hundred task classes. Each declares dependencies, conflicts, parameters, locals and the hook fragments it emits. |
| C layer driver | `c/__init__.py`, `../errors.py` | Globals: `GENERATED_WRAPPERS` and `generate_c_group_enum.counter`, plus the strict/permissive flag. `make_wrapper_generator` adds the genes' tasks (TaskTodo for unknown ones, or when none is attached). |
| F08 layer | `f08/…` | The same framework with its own catalog, and the global `generator_callback_f08_register.counter`. |
| Task introspection | `print_tasks.py` | `DependencyTracker`, a dummy wrapper that adds a task's non-auxiliary dependencies through `add_task`. |
| Long-line breaking | `../../f90_break_long_lines.py` | A pure string algorithm. |
| Template driver | `../../driver.py`, `../template_interface.py`, `../callbacks.py`, `__init__.py` | `driver.main` sets the error policy, walks the template directory and renders each template into an output file it opens first. `write_report` lists, per layer, the expressible procedures never seen and the TODO and DONE ones. |
| Data loading, text helpers | `data/`, `language/`, `utils*.py`, `autoconf.py` | I/O and string formatting; the procedure sets and group tables are read as constants. |

### How they interact

The template driver renders Jinja templates. A template calls `generate_for_procedures` with a
layer callback such as `generator_callback_c_wrapper`. For each procedure, the callback:
1. builds a wrapper;
2. calls `add_task` once per task named in the procedure's genes;
3. calls `generate()`;
4. records the procedure as TODO or DONE in `GENERATED_WRAPPERS`.

For an embiggened (large-count) variant, it generates a second wrapper.

Each `add_task(T)` first attaches T's auxiliary dependencies that are not yet attached, depth
first and sorted by class name. It then runs `_add_task(T)`, which raises `TaskDependencyError`
at the first failing check, in this order:
1. duplicate;
2. conflict, asked only of the new type;
3. an unmet dependency, found through the MRO of the attached types;
4. an auxiliary task with a non-auxiliary dependency.

If all checks pass, it constructs the task. Construction resolves the parameter aliases, which
raises `KeyError` unless exactly one parameter matches. It then snapshots the wrapper's locals
plus the task's own. Finally it appends the task.

Nothing catches either exception, so a failure ends the driver run.

### What is hard

- **Stale local scopes.** A task's local scope is a snapshot, but the declarations that
  `generate()` emits come from `all_local_variables()` at generate time, merged
  last-write-wins. A later task that declares a same-named local silently changes what an
  earlier task refers to (spec §9).
- **Asymmetric conflicts.** Only the new task is asked about conflicts, so a task's
  exclusivity depends on the order of attachment. TaskDefault's docstring says it should be
  the only task, yet `add_task(TaskDefault)` followed by `add_task(TaskTodo)` attaches both;
  `AttachSetSpec` states the one-sided rule the code implements.
- **Ordering from two sources.** The order of fragments comes from the hook sequence and,
  within a hook, from the attachment order. A dependency's code must precede its user's, a
  local must be assigned before a fragment reads it, and TaskRequestFree's brace must close
  around exactly the PMPI call.
- **Two providers of one dependency.** `_add_task` checks that some attached task
  provides each dependency (through the MRO), never that only one does. A sibling
  subclass attached after a dependent task re-assigns the locals the dependent has
  already read.
- **Global state across one driver run.** The group-enum counter and `GENERATED_WRAPPERS`
  are never reset.

There is no concurrency. The generator is single-threaded and synchronous.

### Correctness properties of each component

- **Resolver**
  - Dependencies precede their users.
  - Every auxiliary dependency is attached exactly once.
  - Every raised error is one a documented rule explains.
  - A call that no rule forbids succeeds and adds exactly the requested type and its missing
    auxiliary dependencies.
- **Task scopes.** What a task believes is declared is what is declared.
- **Hook composition / C generate()**
  - Fragments appear in hook order, then attachment order.
  - Every local a fragment reads is initialised or assigned earlier on every path that reaches
    it.
  - No fragment assigns a `const` local.
  - TaskRequestFree's guard encloses the PMPI call and no other task's post fragment.
  - A fragment that reads a local produced by one of its dependencies comes after every
    fragment of that dependency which assigns it.
- **Driver**
  - A procedure's wrapper is emitted at most once per layer, and exactly when the layer records it.
  - DONE means the wrapper is complete; in strict mode TODO comes only from the genes.
  - Every group has one bit, the same in the C enum and the F08 parameters, within the type's width.
  - Every requested wrapper is reported, unless the run aborts.

## 2. The modules

| Module | Models | State ↔ code |
|---|---|---|
| `TaskCatalog` | The static task declarations as CONSTANTS. Operators for the MRO dependency test (`Provided`), alias resolution (`Resolvable`, from `make_parameter_name_mapping`), `Scope.update` (`ScopeUpdate`) and the auxiliary closure. | none |
| `Wrapper` | The attachment resolver and the attached-task list. | `attached` = `_attached_tasks` as types; `lsc[i]` = `_local_scope` of task i; `status`/`err` = building, or the exception that escaped, or generated. One action, `AddTask(T)`, is the whole `add_task` call: the auxiliary recursion (`AddWithAuxiliaries`, `AuxLoop`), the checks in code order (`FirstViolated`), the construction (`ConstructTask`) and the state the call leaves (`Returned`). `Generate` ends attachment. |
| `AttachSet` | The abstract contract of `add_task`, as its docstring states the rules. | A set of attached types. A call either adds the type and its missing auxiliary dependencies, or fails with an error that a rule explains. |
| `TaskClass` | The constructors both catalogs build their class records with: `Class`, `Var` (a declaration: type, const, has an initial value), `Frag`/`FragMay` (a fragment's effect), `Guarded` (a fragment wholly inside its own `if`), `Records` with `OnSuccess`/`OnFailure` (the Score-P events a fragment records for one outcome of the PMPI call). | none |
| `CTaskClasses` | All 84 C task classes of `generator/c/wrapper_tasks` as records, plus `has_conflict_with` and the superclasses (`CClassBases`) that `getmro` finds. Each record holds dependencies, parameter requests, locals and, per generate method, a fragment effect: the locals it reads before writing, writes on every path, may write (under a condition inside the fragment), the blocks it opens and closes, its guard and its events. Families of classes that differ only in data share a helper (`CompletionClass`, `AtomicBytesClass`, `ExitSyncClass`); a subclass is an `EXCEPT` of its base. | none |
| `F08TaskClasses` | All 85 Fortran 2008 task classes (`generator/f08/wrapper_tasks`): the common tasks and the point-to-point, request, I/O, one-sided, communicator/group, collective, environment, topology and extension families, with their own conflicts (`F08HasConflictWith`) and bases (the communicator creation tasks derive from `TaskCommCreateBase`, TaskWinAllocate from TaskWinCreate, the two request trackers from `TaskRmaRequestTrackingBase`, the atomic byte counts from `TaskRmaAtomicBytesBase`). They read `internal_ierror` where C reads `return_value`, have no const locals, and assign the byte counters inside the `if` on `dest`/`source`/`target_rank` (the guards `dest_not_null`, `source_not_null`, `target_not_null`). Unlike C, TaskWinFree's and TaskWinCreate's `local_win_handle` has an initial value. | none |
| `HookComposer` | `WrapperHooks.hook`: `Compose(h, L, hooksOf)` is the output of the decorated `generate_<h>`. That is the wrapper's own output (`Expand` of the layout's body, recursing into nested hooks), then each attached task's part for `h` in attachment order, then the post part. Output is a sequence of parts: `WrapperPart(tag)` for the wrapper's own text, `TaskPart(i, h)` for task i's fragment. | none (operators) |
| `WrapperCode` | The generated procedure of either layer, as the effects of its parts (`Effects`). `BlockScan` walks them and gives every part its context, the set of enclosing conditions; `PathOf` adds the part's own guard. `ReadsAssigned`, `ProducersPrecede` and `RecordedEvents` are the questions the layers ask of it. `DepClosure` and `Upstream` relate a part's owner to the tasks providing its dependencies. | no new state: the output is a function of `attached` once `status = "generated"`. |
| `CWrapper` | `DefaultWrapper.generate()` of `c/c_wrapper.py` on top of `Wrapper`: `GenerateItems` is `CWrapperSkeleton.generate`; `DefaultLayout` holds the decorated methods (comment with its `*/` post, initialization, body, the enter and exit blocks, the PMPI call, cleanup); `OwnEffect` gives each piece of the wrapper's text its effect, including the C blocks it opens (`if (event_gen_active) {`, `if (event_gen_active_for_group) {`, `} else if (SCOREP_IsUnwindingEnabled()) {`) and closes. Instantiates `WrapperCode` as `Code`. | as `WrapperCode` |
| `F08Wrapper` | `DefaultWrapper.generate()` of `f08/f08_wrapper.py` the same way: the subroutine's items, the layout of its hooks, and the effect of its own text; the PMPI call assigns `internal_ierror` and the cleanup copies it to `ierror`. | as `WrapperCode` |
| `MC_Wrapper` | The C tables: the catalog's derived constants, the procedures of the MPI standard with their parameter names (`MPIParams`), the families of public types by source file (`CFamily`) and their procedures, `DefaultWrapper`'s locals. | |
| `MC_CWrapper` | Instantiates `CWrapper` with the C catalog, each class's fragment effects as `Frags`, on five procedures and `MPI_Request_free`. | |
| `MC_CFamily` | Restricts `MC_CWrapper` to the public types of some source files (`Family`, a set of the fields of `CFamily`: p2p, requests, io, rma, comm), on the procedures those types instrument. Also states the RMA run's conditional properties and `SingleProvidersOf`, the premise of the producers property for either layer. | |
| `MC_Layers` | Composes the two layers for one procedure and one list of genes. The C `make_wrapper_generator` adds a task per gene (`CAddGene`), or TaskTodo when there are none (`CAddFallback`), and generates; the F08 one then replays the same genes with the F08 public type of each name, or TaskTodo where F08 has none (`F08AddGene`, `F08AddFallback`), and generates (`F08Generate`). The F08 wrapper is `F08Wrapper` over `F08TaskClasses`, with variables of its own. | `genes` = the typenames given to the C layer; `f08Attached`, `f08Lsc`, `f08Status`, ... = the F08 wrapper's copy of `Wrapper`'s state. |
| `Driver` | One generator run: `driver.main`, `write_report`, `generate_for_procedure`, the C and F08 wrapper callbacks with `make_wrapper_generator`, `errors.error`/`error_if_strict`, and the two group-bit generators. | `permissive` = `errors._permissive`; `generated[l]` = the layer's `GENERATED_WRAPPERS`; `counter[l]` = `generate_c_group_enum.counter` / `generate_f08_group_params.counter`; `bits` = the group definitions emitted; `regCounter` = `generator_callback_f08_register.counter`; `regions` = the region numbers emitted by the C header enumerators (`generator_callback_c_register_h`, numbered by their position in the file) and the F08 parameters; `pending`/`cur`/`pc` = the walk and the template being rendered; `output[f]` = old, empty (opened) or written; `emitted[l][p]` = wrapper texts produced; `requested` = history of wrapper calls; `report`. Actions: `SkipExcluded`, `RejectFile`, `OpenTemplate`, `RenderCall` (one template call: a wrapper, a group generator, or a register callback, `RegisterH`/`RegisterF08`), `FinishTemplate`, `WriteReport`. A raised error sets `phase = "aborted"`: nothing catches it. A wrapper's own `generate()` is abstracted to the constant `GenFails`. |
| `PrintTasks` | `print_tasks` and its `DependencyTracker`: for each public type in name order, a fresh tracker (a `Wrapper` instance, `Tracker`, whose tasks resolve no aliases, as `CTask.__init__` skips them for a tracker) gets `add_task` for each dependency that is not auxiliary and not yet attached, then for the type itself. | `cur` = the type being listed; `dt` = the tracker's attached types and the error raised; `pending` = the part of the `dependencies()` set the loop has not yet visited; `listed` = the entries printed; `status` = listing, raised, done. `AddDependency(D)` is one loop iteration with `D` the element the set yields next, any of `pending`: a set of classes iterates in hash order, which changes from run to run. `AddListedType` adds the type, prints its entry and starts the next type. |
| `MC_PrintTasks` | The C layer's 70 public types, sorted by name, over the whole C catalog. | |
| `MC_Driver` | Five procedures whose genes cover every branch of the callbacks, seven files under the template root (among them a C region header and an F08 region module), four template trees. | |

The MC modules end with one-line names (`MCDeps`, `MCConflicts`, ...) that the .cfg files
substitute for the constants. TLC evaluates a substituted definition at each use of the
constant, but a constant-level definition only once, so the tables are named through them.
TLC's coverage analysis, in turn, expands a definition, and a LET definition, at every use:
the properties therefore hand the computed output and scan to helper operators as arguments
(`ReadsAssignedIn`, `ProducersPrecedeIn`, `GuardEncloses`, ...) instead of binding them with LET.

`Wrapper` refines `AttachSet` through `INSTANCE AttachSet WITH taskSet <- Range(attached)`. The
abstract specification is checked as the property `AttachSetSpec`. The abstract state also
records the requested type (`lastCall`), so each error must be explained by the call that
raised it.

## 3. Runs

| Run | cfg | Expect | What it shows |
|---|---|---|---|
| `layers_p2p_io` | `MC_Layers_p2p_io.cfg` | pass | Every list of up to three point-to-point and MPI-I/O genes, on the 15 procedures of those families, through both layers. C: `TypeOK`; `DependenciesPrecede` (each dependency is provided by an earlier attached task); `AttachSetSpec` (the refinement); `TaskLocalsAssignedBeforeRead` (every local a task declared is initialised, or written unconditionally by an earlier part whose path condition is contained in the reader's, e.g. `local_request_id` written in the enter block's group branch and read in the exit block's); `ProducersPrecedeReaders`. F08: `F08LocalsAssigned` (the byte counters, which Fortran leaves uninitialised, are assigned under the same test on `dest`/`source` as their readers), `F08IerrorAssigned` (`internal_ierror` is assigned by the PMPI call before every read), `F08ProducersFirst`. 6958 states. |
| `layers_requests` | `MC_Layers_requests.cfg` | pass | Every list of up to two genes of the request family (completion, persistent request, status, cancel, free) and of the communicator family (communicator and group creation, free and naming, collectives, environment, topology; TaskCommCreateRequest aside, see below), on their 27 procedures, through both layers. The F08 layer has its own collective classes (`f08/wrapper_tasks/collectives.py`: the byte counts and the in-place flag have initial values, and the non-blocking request is created inside the `if` on `ierror`) and environment classes (`env.py`: TaskInitialize's PMPI_Initialized/PMPI_Finalized queries run inside the `if` on `ierror`, and fflag is set only on some paths but has an initial value), and TaskCartCreate and TaskAbort, so every type of the communicator family has its F08 counterpart. Checks `TaskLocalsAssignedBeforeRead` and `F08LocalsAssigned`, and `RequestFreeGuardFirst`: TaskRequestFree's guard encloses the PMPI call and no other task's `post_pmpi_call` fragment. 24479 states. |
| `layers_rma` | `MC_Layers_rma.cfg` | pass | Every list of up to three genes of the one-sided family on its procedures, through both layers. Checks, for each layer, the locals property wherever every task's view of its locals is the emitted one (`FamilyLocalsAssigned`, `F08FamilyLocalsAssigned`) and producers before readers wherever each dependency has one provider (`FamilyProducersFirst`, `F08FamilyProducersFirst`). The two premises are exactly what the two RMA violation runs break; the F08 layer breaks the unconditional properties on the same gene lists (TaskWinCreate with TaskRmaRequestForeachOnWindow; a second request tracker after TaskRmaGet), so both defects are in both layers. 64809 states. |
| `driver_run` | `MC_Driver.cfg` | pass | Every template tree, file-system order and error policy. `GeneratedOnce`: no layer emits a wrapper twice, and a wrapper is emitted exactly when the layer records a status for a procedure it can express. `DoneMeansComplete`. `StrictTodoOnlyFromGenes`. `RegionNumbersAgree`: the C wrappers store a region handle at `scorep_mpi_regions[SCOREP_MPI_REGION__P]` and the F08 wrappers read `scorep_mpi_regions(SCOREP_MPI_REGION__P)`, a 1-based Fortran array, so the F08 counter (incremented before it is yielded) must be the C enumerator plus one for every procedure, in every file order; a skipped `_helper` partial that registers a procedure must not advance it. `EveryRequestReported` (liveness): a requested wrapper ends up as todo or done in the report, unless the run aborts. 7111 states. |
| `request_free_return_uninit` | `MC_CWrapper_ReturnValueAssigned.cfg` | violation | TaskRequestFree alone. The PMPI call, the only assignment of `return_value`, runs inside TaskRequestFree's `if (...) {`, while `return return_value;` runs after the `}`. When the guard is false, the wrapper returns an uninitialised value. |
| `f08_request_free_ierror_uninit` | `MC_Layers_requests_Ierror.cfg` | violation | The same in Fortran: the F08 `PMPI_Request_free` call, the only assignment of `internal_ierror`, sits inside TaskRequestFree's `if`, and the cleanup copies `internal_ierror` to `ierror` after the `end if`. |
| `const_local_assigned` | `MC_CWrapper_NoConstAssignment.cfg` | violation | `add_task(TaskCommFree)` then `add_task(TaskSend)` on MPI_Isend. TaskCommHandle's `const local_comm_handle` wins the merge, and TaskCommFree's initialization assigns it, so the wrapper does not compile. In the reverse order TaskCommFree's plain, uninitialised declaration wins instead, and TaskSend's snapshot of its locals (`LocalViewConsistent`) no longer matches what `generate()` declares. |
| `print_tasks_c` | `MC_PrintTasks.cfg` | pass | `ListingCompletes`: under weak fairness, `print_tasks` over the 70 public C types ends with one entry per type, in every order of every `dependencies()` set. The types with non-auxiliary dependencies (TaskIoBlocking, TaskRmaGet, TaskWinFence, ...) depend only on types whose own dependencies are auxiliary, so no order makes a tracker raise. 242 states. |
| `comm_idup_request_id_uninit` | `MC_CFamily_comm_IdupRequestId.cfg` | violation | TaskCommCreateRequest on MPI_Comm_idup. Its `post_pmpi_call` passes `local_request_id` to `scorep_mpi_request_comm_idup_create` on every path, but TaskGetRequestId assigns it only inside `if (event_gen_active_for_group)`. |
| `rma_second_tracker` | `MC_CFamily_rma_SecondTracker.cfg` | violation | On MPI_Rget: TaskRmaRequestTrackingBase, TaskRmaBytes, TaskRmaGet, then TaskRmaRequestTrackingExplicit. `add_task` accepts the second tracker. Its enter fragment sets `local_matching_id` after TaskRmaGet has passed the old value to `SCOREP_RmaGet`. |
| `win_create_handle_uninit` | `MC_CFamily_rma_WinHandle.cfg` | violation | On MPI_Win_create: TaskWinCreate, then TaskRmaRequestForeachOnWindow, which pulls in TaskWinHandleAtExit. Its declaration of `local_win_handle`, which has no initialiser, replaces TaskWinCreate's initialised one. TaskWinCreate's exit then reads the handle when the window is `MPI_WIN_NULL`. |
| `close_outcome_inverted` | `MC_Layers_io_Outcomes.cfg` | violation | `OutcomesAgree`: the two wrappers generated from the same genes record the same Score-P events on the same outcome of the PMPI call. From the gene TaskFileClose, the C wrapper destroys the I/O handle when `MPI_File_close` succeeded and reinserts it when it failed; the F08 wrapper (`f08/wrapper_tasks/io.py:132`) does the opposite. The run takes the I/O and communicator genes (TaskCommCreateRequest included); TLC reports the TaskFileClose trace. With the communicator genes alone it reports the second inversion: F08 TaskCommCreateRequest (`f08/wrapper_tasks/comms_groups.py:168`) creates the idup request when `ierror .ne. MPI_SUCCESS`, C when `return_value == MPI_SUCCESS`. |

**Bounds.**
- `MaxCalls = 3` (2 in `layers_requests`, whose two families together have 27 procedures; every request and communicator interaction there is between two tasks). Every interesting interaction needs at most three calls, auxiliary dependencies attaching themselves (the second-tracker run adds a fourth call):
  - a shared auxiliary dependency (TaskSend then TaskIsend);
  - a conflict in either order;
  - a non-auxiliary dependency (TaskIoBegin then TaskIoBlocking, or TaskRmaRequestTrackingExplicit then TaskRmaGet, through the MRO);
  - a duplicate;
  - a local redeclared by a later task.
- The procedures are chosen so that each public type resolves on at least one of them and fails alias resolution on others.
- The passing runs together cover every public C type (p2p and io, requests, rma and comm), and every public F08 type. The communicator family, which the one-sided run no longer takes alongside, is checked at two genes in `layers_requests`: its interactions (a conflict, a shared auxiliary, a redeclared local) all need two. Mixing the families adds only alias failures, and the state space grows with the product of types and procedures. So each run takes one family (or two small ones) on the procedures that family instruments.
- In `MC_Layers` the F08 wrapper replays exactly the genes the C wrapper received, so the F08 side adds no branching of its own: its states are as many as the C side's that reach `generate()`.

**Fairness.** The generator is a single sequential Python process with no waiting. Once a
step is enabled, the process takes one: it never pauses between two statements. So `Driver`'s
`Spec` assumes `WF_vars(Next)`, and `PrintTasks`'s `PTSpec` assumes `WF_ptVars(PTNext)`: the
loop over the types never stops while a step is enabled. Their liveness properties are checked
under that assumption.
The wrapper-level models make no liveness claim. `CHECK_DEADLOCK FALSE` reflects that the
program really stops: a wrapper after `generate()` or after an exception escapes `add_task`,
and a driver run after `write_report` or after an error escapes.

**Driver bounds.** The templates are not in the repository, so `MC_Driver` offers four trees:
- "full" takes every permissive branch: a name outside PROCEDURES, a procedure without `iso_c`, a task F08 lacks, a README that is not a `.tmpl`, and a `_`-excluded file;
- "clean" can finish in strict mode;
- "dup" asks for a C wrapper twice, for a template C lacks and for a failing `generate()`;
- "embig" fails in an embiggened variant.

Each tree calls each group generator at most once. With one call per layer both counters start
at 0 and the C enumerators and the F08 parameters agree by construction, so no property about
the group bits is checked: the case that matters, a second call continuing at bit 26 (the
counters are never reset, and `1 << 31` overflows an `int`), needs a template that calls a
generator twice, and the templates are not in the repository. `Driver` keeps the counters and
the emitted definitions (`bits`) so that such a tree can be given; see the hazard list. Likewise each tree has one C region header and one F08 region module,
both registering every procedure in name order; a second F08 register pass (the counter is
never reset) or a different procedure set in one of them would break `RegionNumbersAgree`.

**Mutants.** Every property of a passing run has a mutant of the code it is about, which TLC
finds violating it:
- `layers_p2p_io`:
  - a task appended without its scope (`ConstructTaskNoScope`) breaks `TypeOK`;
  - `_add_task` without its dependency check breaks `DependenciesPrecede`;
  - `_add_auxiliary_dependencies` without its "already attached" skip breaks `AttachSetSpec`, with a spurious duplicate error for TaskSend then TaskIsend;
  - C TaskGetRequestId assigning its id under a condition breaks `TaskLocalsAssignedBeforeRead`;
  - C TaskGetDatatypeSize computing the size in the exit block breaks `ProducersPrecedeReaders`, because TaskIoBlocking reads it there first;
  - F08 TaskGetSendBytes testing `source` instead of `dest` breaks `F08LocalsAssigned`;
  - F08 `generate_body` emitting the exit block before the PMPI call breaks `F08IerrorAssigned`;
  - F08 TaskGetIoHandle fetching the handle in the exit block breaks `F08ProducersFirst`.
- `layers_requests`:
  - C TaskCancel marking the request cancelled before `scorep_mpi_request_get` breaks `TaskLocalsAssignedBeforeRead`, and the F08 one `F08LocalsAssigned`;
  - `TaskRequestFree.has_conflict_with` accepting the `post_pmpi_call` providers breaks `RequestFreeGuardFirst`.
- `layers_rma`:
  - TaskWinFree saving the handle only for a window that is not `MPI_WIN_NULL` breaks `FamilyLocalsAssigned`;
  - TaskRmaBytes computing the origin bytes in the exit block breaks `FamilyProducersFirst`, and the F08 one `F08FamilyProducersFirst`;
  - the F08 TaskRmaRequestTrackingBase looking up the window handle on some paths only breaks `F08FamilyLocalsAssigned` (the F08 TaskWinFree mutant would not: its handle has an initial value).
- `print_tasks_c`: the dependency loop calling `add_task` for every dependency, auxiliary or already attached (`AddDependencyUnfiltered`), breaks `ListingCompletes`: TaskWinFence's TaskRmaRequestForeachOnWindow attaches TaskWinHandleAtExit, and the loop then adds it a second time.
- `driver_run`:
  - `assert_not_seen_before` never raising breaks `GeneratedOnce` (the "dup" tree emits a wrapper twice);
  - `make_wrapper_generator` without the TaskTodo default for an empty task list breaks `DoneMeansComplete`;
  - `error_if_strict` that only warns breaks `StrictTodoOnlyFromGenes`;
  - `generator_callback_f08_register` yielding its counter before the increment (`F08RegionIdFirst`) breaks `RegionNumbersAgree`;
  - the no-expression branch yielding its warning without a TODO record breaks `EveryRequestReported`.

**Abstraction of the emitted C.**
- A part is reduced to five things: the locals it reads before writing, the locals it writes on every path, the locals it may write, and the blocks it opens and closes.
- A write under a condition inside a fragment (the byte counters skip `MPI_PROC_NULL`) is a "may" write. It does not count as an assignment for `TaskLocalsAssignedBeforeRead`, but it does count as a producer for `ProducersPrecedeReaders`.
- Text that depends on a task's attributes (`get_attribute`: collective end mode, the `new` communicator) is reduced to the locals it touches.
- Two blocks with the same condition are the same context. `event_gen_active` and `event_gen_active_for_group` are locals that nothing assigns after their declaration, so their value is the same at enter and at exit.

## 4. Plan

The modules, in the order they were and will be written:
1. `TaskCatalog`, `Wrapper`, `AttachSet`, `CTaskClasses`, `MC_Wrapper`: the core. Done.
2. `HookComposer`. Done.
3. `CWrapper`, `WrapperCode`, `MC_CWrapper`, `MC_CFamily`, with the whole C catalog. Done. Still open: `FakeFinalizationWrapper`, and the `KeyError` that TaskCollectiveCommunicationByteCalc raises for an unsupported collective.
4. `Driver`, `MC_Driver`. Done: one run over several templates, with strict and permissive mode, TaskTodo, `GENERATED_WRAPPERS` and `assert_not_seen_before`, the group counters, and `write_report`. The region counter of `generator_callback_f08_register` against the C region enum was added later (`RegionNumbersAgree`).
5. `TaskClass`, `F08TaskClasses`, `F08Wrapper`, `MC_Layers`: the F08 layer for the point-to-point, request, I/O and communicator/group families, composed with the C layer. Done. Collective, environment, topology, extension and one-sided classes added since.
6. `PrintTasks`, `MC_PrintTasks`: the introspection path, with the set-iteration order as a nondeterministic choice. Done for the C layer.
7. `BreakLongLines`: `f90_break_long_lines` as an operator checked against a reference definition over bounded inputs.

## 5. Not modelled

- Text formatting (declarations, guards, comments, Fortran continuation lines, except item 7 of the plan).
- JSON and file loading.
- Jinja rendering, and the templates themselves, which are not in the repository. `Driver` takes the files and the calls each template makes as the constant `Trees`.
- The per-procedure parameter descriptors beyond their parameter names.
- The `attributes` of tasks and `get_attribute`.
- Scope key order, which decides only the order of emitted declarations.
- `TaskSaveRequestArray`'s extra `count`/`incount` alias. Every MPI procedure with `array_of_requests` has one of the two, so the lookup cannot fail.
- `FakeFinalizationWrapper` (see the plan).
- In `print_tasks`, the printing of each entry: `DependencyTracker.local_variables` and `get_hooks` only collect what is printed.
- The F08 listing of `print_tasks`: the F08 types with non-auxiliary dependencies (the MPI-I/O tasks on TaskIoBegin) have the same shape as the C ones.
