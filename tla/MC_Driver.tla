------------------------------ MODULE MC_Driver ------------------------------
(***************************************************************************)
(* A generator run over five procedures and seven files under the template *)
(* root, with four template trees: "full" mixes every outcome of a         *)
(* callback, "clean" can finish in a strict run, "dup" asks for wrappers   *)
(* that cannot be generated (twice, unknown template, failing generate),   *)
(* "embig" fails in an embiggened variant.  A procedure needs one of each  *)
(* kind of genes: tasks all implemented (send), a task F08 lacks and a     *)
(* ProtoArgsWrapper template without c_variants (wait), no task and only   *)
(* an iso_c expression (init), no iso_c expression (f_sync_reg), TaskTodo  *)
(* listed and a template C lacks (pcontrol).  Every tree has a C header   *)
(* and an F08 module template registering all procedures, and a skipped   *)
(* partial (_helper) that would register one more.                        *)
(***************************************************************************)
EXTENDS Driver

MCNames == {"send", "wait", "init", "f_sync_reg", "pcontrol"}
MCOthers == {"x"}
MCExpress == [p \in MCNames |->
                CASE p = "init"       -> {"C"}
                  [] p = "f_sync_reg" -> {"F", "F08"}
                  [] OTHER            -> {"C", "F", "F08"}]
MCTasks == [p \in MCNames |->
              CASE p = "init"     -> {}
                [] p = "wait"     -> {"TaskRequestTest"}
                [] p = "pcontrol" -> {"TaskTodo"}
                [] OTHER          -> {"TaskP2p"}]
MCImplemented == [l \in GenLayers |->
                    IF l = "C" THEN {"TaskP2p", "TaskRequestTest", "TaskTodo"}
                               ELSE {"TaskP2p", "TaskTodo"}]
MCUnknownTemplate == [l \in GenLayers |-> IF l = "C" THEN {"pcontrol"} ELSE {}]
MCGenFails == [l \in GenLayers |-> IF l = "F08" THEN {"f_sync_reg"} ELSE {}]
MCEmbiggened == {"send", "wait"}
MCEmbigFails == [l \in GenLayers |-> {"wait"}]

MCFiles == {"wrappers_c.tmpl", "wrappers_f08.tmpl", "groups.tmpl", "regions_h.tmpl",
            "regions_f08.tmpl", "README", "_helper"}

W(l, p) == [op |-> "wrapper", layer |-> l, name |-> p]
G(l) == [op |-> "groups", layer |-> l]
R(l, p) == [op |-> "register", layer |-> l, name |-> p]

\* The region templates register every procedure, in name order.
RegionOrder == <<"f_sync_reg", "init", "pcontrol", "send", "wait">>
Regions(l) == [i \in 1..Len(RegionOrder) |-> R(l, RegionOrder[i])]

Kinds(readme) == [f \in MCFiles |->
                    CASE f = "README"  -> readme
                      [] f = "_helper" -> "excluded"
                      [] OTHER         -> "tmpl"]

Tree(readme, c, f08, groups) ==
  [kind |-> Kinds(readme),
   calls |-> [f \in MCFiles |->
                CASE f = "wrappers_c.tmpl"   -> c
                  [] f = "wrappers_f08.tmpl" -> f08
                  [] f = "groups.tmpl"       -> groups
                  [] f = "regions_h.tmpl"    -> Regions("C")
                  [] f = "regions_f08.tmpl"  -> Regions("F08")
                  [] f = "_helper"           -> <<W("C", "send"), R("F08", "send")>>
                  [] OTHER                   -> <<>>]]

MCTrees ==
  { Tree("other",
         <<W("C", "send"), W("C", "x"), W("C", "init"), W("C", "f_sync_reg")>>,
         <<W("F08", "send"), W("F08", "pcontrol"), W("F08", "init")>>,
         <<G("C"), G("F08")>>),
    Tree("excluded",
         <<W("C", "send"), W("C", "init")>>,
         <<W("F08", "send"), W("F08", "pcontrol")>>,
         <<G("C"), G("F08")>>),
    Tree("excluded",
         <<W("C", "send"), W("C", "f_sync_reg"), W("C", "pcontrol")>>,
         <<W("C", "send")>>,
         <<W("F08", "send"), G("F08"), W("F08", "send"), W("F08", "f_sync_reg")>>),
    Tree("excluded",
         <<W("C", "wait")>>,
         <<W("F08", "wait")>>,
         <<G("C")>>) }

=============================================================================
