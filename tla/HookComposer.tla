---------------------------- MODULE HookComposer ----------------------------
(***************************************************************************)
(* WrapperHooks.hook (wrapper_hooks.py): the decorated generate_<h> of a   *)
(* wrapper yields the wrapper's own output for h, then, for every attached *)
(* task in attachment order that has a member generate_<h>, that member's  *)
(* output, then the hook's post part.  The wrapper's own output may call   *)
(* other decorated hooks, so a layout is a tree.  Output is abstracted to  *)
(* a sequence of parts: a part of the wrapper's own text, named by a tag,  *)
(* or the fragment task i emits for hook h.  The debug annotations the     *)
(* decorator interleaves are comments and are left out.                    *)
(***************************************************************************)
EXTENDS Sequences, SequencesExt

(***************************************************************************)
(* A layout L describes a wrapper class: L.body[h] is its undecorated      *)
(* generate_<h>, a sequence of items; L.post[h] the output of the hook's   *)
(* post function (tags), or <<>>.                                          *)
(***************************************************************************)

(***************************************************************************)
(* The effect of a part on the generated procedure: the locals it reads    *)
(* before writing them, those it writes on every path and on some paths    *)
(* only (may), the blocks it opens (innermost last) and how many it closes;*)
(* the conditions of its own enclosing 'if' (guard), and the events it     *)
(* records depending on the outcome of the PMPI call.                      *)
(***************************************************************************)
Effect(reads, writes, opens, closes) ==
  [reads |-> reads, writes |-> writes, may |-> {}, opens |-> opens, closes |-> closes,
   guard |-> {}, events |-> {}]

NoEffect == Effect({}, {}, <<>>, 0)

\* The items of a wrapper method's output.
Own(tag) == [kind |-> "own", tag |-> tag]
Sub(h)   == [kind |-> "hook", hook |-> h]

\* The parts of the output.
WrapperPart(tag) == [owner |-> 0, name |-> tag]
TaskPart(i, h)   == [owner |-> i, name |-> h]

(***************************************************************************)
(* hooksOf[i] is the set of hooks task i (attachment order) has a member   *)
(* for: hasattr(obj, fun.__name__).                                        *)
(***************************************************************************)
TaskParts(h, hooksOf) ==
  LET members == SelectSeq([k \in 1..Len(hooksOf) |-> k], LAMBDA i : h \in hooksOf[i])
  IN  [k \in 1..Len(members) |-> TaskPart(members[k], h)]

RECURSIVE Expand(_, _, _), Compose(_, _, _)

\* The output of a sequence of items: own text, or a call of a decorated hook.
Expand(items, L, hooksOf) ==
  FlattenSeq([k \in 1..Len(items) |->
                IF items[k].kind = "own" THEN <<WrapperPart(items[k].tag)>>
                ELSE Compose(items[k].hook, L, hooksOf)])

\* decorated_fun: fun(self), then the attached tasks' members, then post.
Compose(h, L, hooksOf) ==
  Expand(L.body[h], L, hooksOf) \o TaskParts(h, hooksOf)
    \o [k \in 1..Len(L.post[h]) |-> WrapperPart(L.post[h][k])]

=============================================================================
