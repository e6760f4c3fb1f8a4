----------------------------- MODULE MC_CWrapper -----------------------------
(***************************************************************************)
(* DefaultWrapper over the C task catalog of MC_Wrapper, with              *)
(* MPI_Request_free added to the procedures for TaskRequestFree.           *)
(***************************************************************************)
EXTENDS CWrapper, MC_Wrapper

CProceduresRF == CProcedures \cup {"MPI_Request_free"}

CParamsRF == CParams @@ ("MPI_Request_free" :> {"request"})

CFrags == [T \in CTaskTypes |-> CClass[T].frags]

\* The parts out with the block scan scan: the request guard encloses the
\* PMPI call and no other task's post_pmpi_call part.
GuardEncloses(out, scan) ==
  \A k \in 1..Len(out) :
    /\ out[k] = WrapperPart("pmpi_call") /\ "TaskRequestFree" \in Range(attached)
         => "request_live" \in scan.ctx[k]
    /\ out[k].owner # 0 /\ out[k].name = "post_pmpi_call"
       /\ attached[out[k].owner] # "TaskRequestFree"
         => "request_live" \notin scan.ctx[k]

(***************************************************************************)
(* TaskRequestFree's guard, 'if' the request is live or was null, then   *)
(* '{',                                                                     *)
(* encloses the PMPI call, and its closing brace is the first              *)
(* post_pmpi_call fragment: no other task's post_pmpi_call code lands     *)
(* inside the guard (the reason TaskRequestFree.has_conflict_with refuses *)
(* types with generate_post_pmpi_call).                                    *)
(***************************************************************************)
RequestFreeGuardFirst ==
  status = "generated" =>
    GuardEncloses(Code!Output(attached),
                  Code!BlockScan(Code!Effects(Code!Output(attached), attached)))


(***************************************************************************)
(* TLC evaluates a definition substituted for a constant in a .cfg at each *)
(* use of the constant, but a constant-level definition only once: the    *)
(* .cfg files substitute the following names, each naming a table above.  *)
(***************************************************************************)
MCFrags == CFrags
MCProceduresRF == CProceduresRF
MCParamsRF == CParamsRF

=============================================================================
