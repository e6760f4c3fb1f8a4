-------------------------------- MODULE Driver --------------------------------
(***************************************************************************)
(* One run of the wrapper generator (driver.py main): the error policy is  *)
(* set once (errors.be_permissive / be_strict), the template directory is  *)
(* walked in file-system order and every template is rendered; a template  *)
(* calls the layer callbacks (generate_for_procedure, the C and F08        *)
(* wrapper callbacks, which record each procedure in the layer's           *)
(* GENERATED_WRAPPERS) and the group-bit generators, whose counters are    *)
(* function attributes that are never reset.  write_report closes a run.   *)
(* An error that is raised (errors.error, or error_if_strict when strict)  *)
(* is caught by nothing: the run stops ("aborted") with the file being     *)
(* rendered left empty and no report written.                              *)
(*                                                                         *)
(* The templates are not part of the generator: which files exist and      *)
(* which calls each makes is the constant Trees, one of which a run finds. *)
(* A wrapper's own generate() is modelled in Wrapper/CWrapper; here its    *)
(* outcome is the constant GenFails (it raises) and the attached task set. *)
(***************************************************************************)
EXTENDS Integers, Sequences, FiniteSets

CONSTANTS
  Names,           \* canonical names of PROCEDURES (valid MPI version)
  Others,          \* requested names that are not in PROCEDURES
  Express,         \* Express[p]: layers whose expression p has (iso_c, f90, f08)
  Tasks,           \* Tasks[p]: task typenames listed in p's genes
  Implemented,     \* Implemented[l]: public task types of layer l
  TaskTodo,        \* the typename of TaskTodo
  UnknownTemplate, \* UnknownTemplate[l]: p whose genes.template layer l lacks
  ProtoNoVariants, \* p with the ProtoArgsWrapper template but no c_variants
  GenFails,        \* GenFails[l]: p whose wrapper generate() raises in layer l
  Embiggened,      \* p with an embiggened variant
  EmbigFails,      \* p whose embiggened variant's generate() raises (C layer)
  Files,           \* the files under the template root
  Trees            \* possible template trees: [kind, calls] records

GenLayers == {"C", "F08"}
ReportLayers == {"C", "F", "F08"}
Status == {"none", "TODO", "DONE"}
NoFile == "no file"

(***************************************************************************)
(* data/scorep/groups.py: the pure groups, the derived pairs (named        *)
(* a_b), then REQUEST, in the order both group generators emit them.       *)
(***************************************************************************)
PureGroups == <<"cg", "coll", "env", "err", "ext", "io", "misc", "p2p", "rma",
                "spawn", "topo", "type", "perf", "xnonblock", "xreqtest">>
DerivedGroups == <<"cg_err", "cg_ext", "cg_misc", "io_err", "io_misc",
                   "rma_err", "rma_ext", "rma_misc", "type_ext", "type_misc">>
GroupOrder == PureGroups \o DerivedGroups \o <<"request">>
NGroups == Len(GroupOrder)

Call == [op : {"wrapper"}, layer : GenLayers, name : Names \cup Others]
          \cup [op : {"groups"}, layer : GenLayers]
          \cup [op : {"register"}, layer : GenLayers, name : Names]

ASSUME /\ Express \in [Names -> SUBSET ReportLayers]
       /\ \A t \in Trees : t.kind \in [Files -> {"tmpl", "other", "excluded"}]
                           /\ t.calls \in [Files -> Seq(Call)]

VARIABLES
  permissive,  \* errors._permissive
  tree,        \* the template tree of this run
  phase,       \* "render", "aborted" (an error escaped), "reported"
  pending,     \* files of the walk not yet visited
  cur,         \* the template being rendered, or NoFile
  pc,          \* index of its next call
  output,      \* output[f]: "old" (untouched), "empty" (opened), "written"
  generated,   \* generated[l][p]: GENERATED_WRAPPERS of layer l
  emitted,     \* emitted[l][p]: wrapper texts of p produced in layer l
  counter,     \* counter[l]: generate_c_group_enum / _f08_group_params.counter
  bits,        \* group-bit definitions emitted: [layer, group, pos]
  regCounter,  \* generator_callback_f08_register.counter
  regions,     \* region numbers emitted: [layer, name, val]
  requested,   \* <<l, p>> some template asked a wrapper for
  report       \* the report written by write_report, or NoReport

vars == <<permissive, tree, phase, pending, cur, pc, output, generated,
          emitted, counter, bits, regCounter, regions, requested, report>>

NoReport == "no report"

(***************************************************************************)
(* errors.error_if_strict raises unless errors.permissive(); otherwise it  *)
(* only logs a warning.  errors.error always raises.                       *)
(***************************************************************************)
\* Mutant: error_if_strict only ever warns.
ErrorIfStrictNever == FALSE

ErrorIfStrict == ~permissive

\* data.get_predefined_procedure_set for the layer sets write_report uses.
Expressible(l) ==
  IF l = "F" THEN {p \in Names : {"F", "C"} \subseteq Express[p]}
             ELSE {p \in Names : l \in Express[p]}

\* Mutant: a procedure with no task in its genes keeps an empty task list.
AttachedTypesNoDefault(l, p) ==
  (Tasks[p] \cap Implemented[l])
    \cup (IF Tasks[p] \subseteq Implemented[l] THEN {} ELSE {TaskTodo})

(***************************************************************************)
(* The task types make_wrapper_generator attaches: every listed task the   *)
(* layer implements, a TaskTodo for any it does not (permissive only, the  *)
(* strict run has raised), and a TaskTodo if none was attached at all.     *)
(***************************************************************************)
AttachedTypes(l, p) ==
  LET att == (Tasks[p] \cap Implemented[l])
               \cup (IF Tasks[p] \subseteq Implemented[l] THEN {} ELSE {TaskTodo})
  IN  IF att = {} THEN {TaskTodo} ELSE att

\* make_wrapper_generator of the C layer: does it raise, and what it attaches.
CMakeWrapperGenerator(p) ==
  [fail |-> \/ p \in UnknownTemplate["C"]
            \/ p \in ProtoNoVariants /\ ErrorIfStrict
            \/ ~(Tasks[p] \subseteq Implemented["C"]) /\ ErrorIfStrict,
   attached |-> AttachedTypes("C", p)]

\* make_wrapper_generator of the F08 layer (no ProtoArgsWrapper check).
F08MakeWrapperGenerator(p) ==
  [fail |-> \/ p \in UnknownTemplate["F08"]
            \/ ~(Tasks[p] \subseteq Implemented["F08"]) /\ ErrorIfStrict,
   attached |-> AttachedTypes("F08", p)]

\* Mutant: assert_not_seen_before never raises.
SeenBeforeNever(l, p) == FALSE

\* assert_not_seen_before: the name is already in the layer's record.
SeenBefore(l, p) == generated[l][p] # "none"

\* The state a raised error leaves: the run stops where it is.
Stop == /\ phase' = "aborted"
        /\ UNCHANGED <<pc, generated, emitted>>

\* GENERATED_WRAPPERS[p] = s after n wrapper texts, and the call returns.
Record(l, p, s, n) ==
  /\ generated' = [generated EXCEPT ![l][p] = s]
  /\ emitted' = [emitted EXCEPT ![l][p] = @ + n]
  /\ pc' = pc + 1
  /\ UNCHANGED phase

\* Mutant: the warning comment is yielded but no status is recorded.
NoExpressionUnrecorded(l, p) ==
  \/ ErrorIfStrict /\ Stop
  \/ ~ErrorIfStrict /\ pc' = pc + 1 /\ UNCHANGED <<phase, generated, emitted>>

\* The callback's branch for a procedure without the layer's expression:
\* error_if_strict, then a warning comment and a TODO record.
NoExpression(l, p) ==
  \/ ErrorIfStrict /\ Stop
  \/ ~ErrorIfStrict /\ Record(l, p, "TODO", 0)

(***************************************************************************)
(* generator_callback_<layer>_wrapper for p, with w the outcome of         *)
(* make_wrapper_generator.  The status is written after the wrapper text   *)
(* is drained, before the embiggened variant, which has no record.         *)
(***************************************************************************)
WrapperCallback(l, p, w) ==
  LET done == IF TaskTodo \in w.attached THEN "TODO" ELSE "DONE" IN
  \/ SeenBefore(l, p) /\ Stop
  \/ ~SeenBefore(l, p) /\ l \notin Express[p] /\ NoExpression(l, p)
  \/ ~SeenBefore(l, p) /\ l \in Express[p]
     /\ (w.fail \/ p \in GenFails[l]) /\ Stop
  \/ ~SeenBefore(l, p) /\ l \in Express[p] /\ ~w.fail /\ p \notin GenFails[l]
     /\ p \in Embiggened \cap EmbigFails[l]
     /\ generated' = [generated EXCEPT ![l][p] = done]
     /\ emitted' = [emitted EXCEPT ![l][p] = @ + 1]
     /\ phase' = "aborted"
     /\ UNCHANGED pc
  \/ ~SeenBefore(l, p) /\ l \in Express[p] /\ ~w.fail /\ p \notin GenFails[l]
     /\ p \notin Embiggened \cap EmbigFails[l]
     /\ Record(l, p, done, 1)

CWrapperCallback(p) == WrapperCallback("C", p, CMakeWrapperGenerator(p))

F08WrapperCallback(p) == WrapperCallback("F08", p, F08MakeWrapperGenerator(p))

(***************************************************************************)
(* generate_for_procedure: a name not in PROCEDURES (excluded, or not in   *)
(* the standard) is an error_if_strict and produces nothing.               *)
(***************************************************************************)
GenerateForProcedure(l, p) ==
  \/ p \in Others /\ ErrorIfStrict /\ Stop
  \/ p \in Others /\ ~ErrorIfStrict
     /\ pc' = pc + 1 /\ UNCHANGED <<phase, generated, emitted>>
  \/ p \in Names /\ l = "C" /\ CWrapperCallback(p)
  \/ p \in Names /\ l = "F08" /\ F08WrapperCallback(p)

(***************************************************************************)
(* generate_c_group_enum and generate_f08_group_params: starting at the    *)
(* counter c, the i-th group of GroupOrder gets bit c + i - 1 (the value   *)
(* is emitted, then the counter is incremented); the counter ends at       *)
(* c + NGroups and is never set back.                                      *)
(***************************************************************************)
CGroupEnum(c) == [i \in 1..NGroups |-> c + i - 1]

F08GroupParams(c) == [i \in 1..NGroups |-> c + i - 1]

EmitGroups(l, pos) ==
  /\ bits' = bits \cup {[layer |-> l, group |-> GroupOrder[i], pos |-> pos[i]] :
                          i \in 1..NGroups}
  /\ counter' = [counter EXCEPT ![l] = @ + NGroups]
  /\ pc' = pc + 1

(***************************************************************************)
(* generator_callback_c_register_h yields the enumerator of p, so p's     *)
(* value is the number of enumerators the same file yielded before it.    *)
(* generator_callback_f08_register increments its counter, then yields    *)
(* the counter as p's parameter.                                           *)
(***************************************************************************)
RegisterH(p, calls, i) ==
  /\ regions' = regions \cup
       {[layer |-> "C", name |-> p,
         val |-> Cardinality({j \in 1..i-1 : calls[j].op = "register" /\ calls[j].layer = "C"})]}
  /\ pc' = pc + 1

\* Mutant: the counter is yielded before it is incremented.
F08RegionIdFirst(c) == c

F08RegionId(c) == c + 1

RegisterF08(p) ==
  /\ regions' = regions \cup {[layer |-> "F08", name |-> p, val |-> F08RegionId(regCounter)]}
  /\ regCounter' = regCounter + 1
  /\ pc' = pc + 1

-----------------------------------------------------------------------------

Init ==
  /\ permissive \in BOOLEAN
  /\ tree \in Trees
  /\ phase = "render"
  /\ pending = Files
  /\ cur = NoFile
  /\ pc = 1
  /\ output = [f \in Files |-> "old"]
  /\ generated = [l \in ReportLayers |-> [p \in Names |-> "none"]]
  /\ emitted = [l \in GenLayers |-> [p \in Names |-> 0]]
  /\ counter = [l \in GenLayers |-> 0]
  /\ bits = {}
  /\ regCounter = 0
  /\ regions = {}
  /\ requested = {}
  /\ report = NoReport

\* _recurse_template_dir: a path starting with '_' or matching no --match
\* filter is skipped.
SkipExcluded(f) ==
  /\ phase = "render" /\ cur = NoFile /\ f \in pending
  /\ tree.kind[f] = "excluded"
  /\ pending' = pending \ {f}
  /\ UNCHANGED <<permissive, tree, phase, cur, pc, output, generated, emitted,
                 counter, bits, regCounter, regions, requested, report>>

\* _generate_from_template: a file that is not a .tmpl is an error_if_strict.
RejectFile(f) ==
  /\ phase = "render" /\ cur = NoFile /\ f \in pending
  /\ tree.kind[f] = "other" /\ ErrorIfStrict
  /\ Stop
  /\ UNCHANGED <<permissive, tree, pending, cur, output, counter, bits, regCounter, regions,
                 requested, report>>

\* _generate_from_template: the output file is opened ('w') before the
\* template is rendered into it; a permissive run renders any file.
OpenTemplate(f) ==
  /\ phase = "render" /\ cur = NoFile /\ f \in pending
  /\ \/ tree.kind[f] = "tmpl"
     \/ tree.kind[f] = "other" /\ ~ErrorIfStrict
  /\ cur' = f
  /\ pc' = 1
  /\ output' = [output EXCEPT ![f] = "empty"]
  /\ UNCHANGED <<permissive, tree, phase, pending, generated, emitted, counter,
                 bits, regCounter, regions, requested, report>>

\* The template's next call through template_interface.
RenderCall ==
  /\ phase = "render" /\ cur # NoFile /\ pc <= Len(tree.calls[cur])
  /\ LET c == tree.calls[cur][pc] IN
     \/ /\ c.op = "wrapper"
        /\ requested' = requested \cup {<<c.layer, c.name>>}
        /\ GenerateForProcedure(c.layer, c.name)
        /\ UNCHANGED <<counter, bits, regCounter, regions>>
     \/ /\ c.op = "groups" /\ c.layer = "C"
        /\ EmitGroups("C", CGroupEnum(counter["C"]))
        /\ UNCHANGED <<phase, generated, emitted, requested, regCounter, regions>>
     \/ /\ c.op = "groups" /\ c.layer = "F08"
        /\ EmitGroups("F08", F08GroupParams(counter["F08"]))
        /\ UNCHANGED <<phase, generated, emitted, requested, regCounter, regions>>
     \/ /\ c.op = "register" /\ c.layer = "C"
        /\ RegisterH(c.name, tree.calls[cur], pc)
        /\ UNCHANGED <<phase, generated, emitted, requested, counter, bits, regCounter>>
     \/ /\ c.op = "register" /\ c.layer = "F08"
        /\ RegisterF08(c.name)
        /\ UNCHANGED <<phase, generated, emitted, requested, counter, bits>>
  /\ UNCHANGED <<permissive, tree, pending, cur, output, report>>

\* render() returned: its text is written to the output file.
FinishTemplate ==
  /\ phase = "render" /\ cur # NoFile /\ pc > Len(tree.calls[cur])
  /\ output' = [output EXCEPT ![cur] = "written"]
  /\ pending' = pending \ {cur}
  /\ cur' = NoFile
  /\ UNCHANGED <<permissive, tree, phase, pc, generated, emitted, counter, bits,
                 regCounter, regions,
                 requested, report>>

\* write_report: per layer, the expressible procedures never encountered,
\* and the encountered ones by status.
WriteReport ==
  /\ phase = "render" /\ cur = NoFile /\ pending = {}
  /\ report' = [l \in ReportLayers |->
                  [notSeen |-> Expressible(l) \ {p \in Names : generated[l][p] # "none"},
                   todo    |-> {p \in Names : generated[l][p] = "TODO"},
                   done    |-> {p \in Names : generated[l][p] = "DONE"}]]
  /\ phase' = "reported"
  /\ UNCHANGED <<permissive, tree, pending, cur, pc, output, generated, emitted,
                 counter, bits, regCounter, regions, requested>>

Next ==
  \/ \E f \in Files : SkipExcluded(f) \/ RejectFile(f) \/ OpenTemplate(f)
  \/ RenderCall
  \/ FinishTemplate
  \/ WriteReport

\* The driver is one sequential Python process that runs until it returns
\* or an exception escapes: it never stops between two steps.
Spec == Init /\ [][Next]_vars /\ WF_vars(Next)

-----------------------------------------------------------------------------

(***************************************************************************)
(* assert_not_seen_before and the GENERATED_WRAPPERS record together: no   *)
(* template tree, file order or error policy makes a layer emit a          *)
(* procedure's wrapper twice, and a wrapper was emitted exactly when the   *)
(* layer recorded a status for a procedure it has an expression for (the   *)
(* record written after the text, the check made before it).               *)
(***************************************************************************)
GeneratedOnce ==
  \A l \in GenLayers, p \in Names :
    /\ emitted[l][p] <= 1
    /\ (emitted[l][p] = 1 <=> generated[l][p] # "none" /\ l \in Express[p])

(***************************************************************************)
(* A wrapper the report counts as done really is complete: the layer has   *)
(* the procedure's expression and implements every task its genes list,   *)
(* and the list is not empty (make_wrapper_generator's TaskTodo defaults). *)
(***************************************************************************)
DoneMeansComplete ==
  \A l \in GenLayers, p \in Names :
    generated[l][p] = "DONE" =>
      /\ l \in Express[p]
      /\ Tasks[p] # {}
      /\ Tasks[p] \subseteq Implemented[l] \ {TaskTodo}

(***************************************************************************)
(* In a strict run every shortcut through error_if_strict raises, so a     *)
(* procedure ends up TODO only for its genes: no task listed, or TaskTodo  *)
(* listed explicitly.                                                      *)
(***************************************************************************)
StrictTodoOnlyFromGenes ==
  ~permissive =>
    \A l \in GenLayers, p \in Names :
      generated[l][p] = "TODO" => Tasks[p] = {} \/ TaskTodo \in Tasks[p]

\* The element of scorep_mpi_regions a region number names in Fortran: the
\* C array is indexed from 0, a Fortran array from 1.
FortranIndex(r) == IF r.layer = "C" THEN r.val + 1 ELSE r.val

(***************************************************************************)
(* The C wrappers store each region handle at scorep_mpi_regions[          *)
(* SCOREP_MPI_REGION__P ] (c/__init__.py), the F08 wrappers read it from   *)
(* scorep_mpi_regions(SCOREP_MPI_REGION__P) (f08_wrapper.py), with the     *)
(* enumerator and the parameter numbered by two different callbacks.  In   *)
(* every file order and template tree a procedure's numbers must name the  *)
(* same element, and two procedures of one layer must not share one.      *)
(***************************************************************************)
RegionNumbersAgree ==
  \A r1, r2 \in regions :
    /\ r1.name = r2.name => FortranIndex(r1) = FortranIndex(r2)
    /\ r1.layer = r2.layer /\ r1.name # r2.name => r1.val # r2.val

(***************************************************************************)
(* A wrapper requested by a template ends up in the report, as todo or     *)
(* done, unless the run aborts.                                            *)
(***************************************************************************)
EveryRequestReported ==
  \A l \in GenLayers, p \in Names :
    <<l, p>> \in requested ~>
      \/ phase = "aborted"
      \/ phase = "reported" /\ p \in report[l].todo \cup report[l].done

=============================================================================
