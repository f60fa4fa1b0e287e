---------------------------- MODULE PhiLowering ----------------------------
(***************************************************************************)
(* Out-of-SSA lowering of the phi nodes of one block                       *)
(* (src/decompiler/cfg/phi_lowering.rs).                                   *)
(*                                                                         *)
(* The phi nodes of a block assign IN PARALLEL on each incoming edge.      *)
(* PhiLowering::new groups them into one list of copies per edge, and      *)
(* `schedule` turns such a list into a SEQUENCE of assignments, breaking   *)
(* cycles with fresh temporaries.  The emitted text is what the reader of  *)
(* the decompiled contract sees, so the sequence must compute exactly the  *)
(* parallel assignment.                                                    *)
(*                                                                         *)
(* Names.  A name is an element of Var (the identifiers given out by       *)
(* allocate_source_symbols) or a natural number: n stands for the string   *)
(* `_copy_tmp_<scope>_n` for the scope of the edge being lowered.  A       *)
(* program identifier may already be spelled like a temporary, so          *)
(* used_names may contain numbers too.                                     *)
(*                                                                         *)
(* The values computed by the emitted statements are symbolic: `store`     *)
(* maps a name to the name whose value on entry to the edge it holds.      *)
(***************************************************************************)
EXTENDS Naturals, Sequences, Functions, FiniteSets

CONSTANTS
    Var,            \* identifiers of the lowered method
    Pred,           \* predecessors of the block, the virtual entry included
    VirtualEntry,   \* BlockId(usize::MAX)
    Unknown,        \* the name "?"
    Null,           \* CopySource::Null
    ReservedNames,  \* names of variables that are in no phi of this block
    Inputs          \* the SSA forms under study, see IsSsaForm

Name == Var \cup Nat

Source == Name \cup {Unknown, Null}

\* What lowering reads of the SSA form: the phi nodes of the block in order,
\* and the predecessors reached through an ordinary edge (not through a
\* FinallyException edge, and not the virtual entry).  The variables of a phi
\* already went through ssa_var_name; `operands` is partial, a predecessor
\* that supplies nothing is not in its domain; `live` says whether ssa.uses
\* has a use of the target.
IsSsaForm(form) ==
    /\ form.ordinary \subseteq Pred \ {VirtualEntry}
    /\ DOMAIN form.phis \subseteq Nat
    /\ IsFiniteSet(DOMAIN form.phis)
    /\ \A i \in DOMAIN form.phis :
           /\ form.phis[i].target \in Name
           /\ form.phis[i].live \in BOOLEAN
           /\ DOMAIN form.phis[i].operands \subseteq Pred
           /\ \A p \in DOMAIN form.phis[i].operands :
                  form.phis[i].operands[p] \in Source

ASSUME NamesAssumption ==
    /\ \A v \in Var : v \notin Nat
    /\ Unknown \notin Name
    /\ Null \notin Name \cup {Unknown}

ASSUME PredAssumption == VirtualEntry \in Pred

ASSUME ReservedAssumption == ReservedNames \subseteq Name

\* allocate_source_symbols gives distinct phi targets of one block distinct
\* names: stack phis get unique generated names, slot phis one per slot.
ASSUME InputsAssumption ==
    \A form \in Inputs :
        /\ IsSsaForm(form)
        /\ \A i, j \in DOMAIN form.phis :
               form.phis[i].target = form.phis[j].target => i = j

VARIABLES
    pc,             \* "new", "schedule" or "done"
    ssa,            \* the SSA form handed to PhiLowering::new
    from,           \* the predecessor whose edge is being lowered
    pending,        \* copies not emitted yet, by their position in the copy list
    next_temporary, \* suffix of the next candidate temporary
    generated_names,\* temporaries introduced so far
    statements,     \* assignments emitted so far
    store           \* effect of executing `statements` (history variable)

vars == <<pc, ssa, from, pending, next_temporary, generated_names,
          statements, store>>

Copy == [target : Name, source : Source]

(***************************************************************************)
(* PhiLowering::new                                                        *)
(***************************************************************************)

\* used_names of PhiLowering::new: every identifier of the method, the phi
\* targets and the phi operands that are variables.
UsedNames(form) ==
    ReservedNames \cup
    UNION {{form.phis[i].target} \cup
           (Range(form.phis[i].operands) \cap Name) : i \in DOMAIN form.phis}

\* The operand of a phi on an edge.  A predecessor without an operand gets
\* "?"; the virtual entry without an operand contributes no copy at all.
Operand(phi, p) ==
    IF p \in DOMAIN phi.operands THEN phi.operands[p] ELSE Unknown

\* Does PhiLowering::new record a copy for this phi on the edge from p?
HasCopy(form, phi, p) ==
    /\ phi.live
    /\ IF p = VirtualEntry THEN p \in DOMAIN phi.operands
                           ELSE p \in form.ordinary

\* The copies of `edges[(p, block)]`, or of `entries[block]` for the virtual
\* entry, indexed by the position of their phi node.
EdgeCopies(form, p) ==
    [i \in {i \in DOMAIN form.phis : HasCopy(form, form.phis[i], p)} |->
        [target |-> form.phis[i].target,
         source |-> Operand(form.phis[i], p)]]

(***************************************************************************)
(* PhiLowering::schedule                                                   *)
(***************************************************************************)

\* Mutant of IsIdentity: no copy is dropped.
IsIdentityMutant(copy) == FALSE

\* Identity copies are dropped before scheduling.
IsIdentity(copy) == copy.source = copy.target

Sources(copies) == {copies[i].source : i \in DOMAIN copies} \ {Null}

Targets(copies) == {copies[i].target : i \in DOMAIN copies}

\* Mutant of Ready: copies are emitted in order, whoever still reads the target.
ReadyInOrderMutant(copies) == DOMAIN copies

\* Positions of copies whose target no pending copy still has to read.
Ready(copies) ==
    {i \in DOMAIN copies : copies[i].target \notin Sources(copies)}

\* The first index of a nonempty set of indices (Iterator::position, find_map).
First(indices) == CHOOSE i \in indices : \A j \in indices : i <= j

\* The copies that are left when those at `indices` are removed.
Without(copies, indices) == Restrict(copies, DOMAIN copies \ indices)

\* The value an expression has in the current store.
Eval(st, source) == IF source \in DOMAIN st THEN st[source] ELSE source

\* The effect of executing one assignment.
Assign(st, target, source) ==
    [x \in DOMAIN st \cup {target} |->
        IF x = target THEN Eval(st, source) ELSE st[x]]

\* Mutant of Taken: only the names of this schedule are looked at.
TakenLocallyMutant(n) ==
    n \in generated_names \cup Sources(pending) \cup Targets(pending)

\* A candidate temporary is rejected when any identifier already has its name.
Taken(n) ==
    \/ n \in UsedNames(ssa)
    \/ n \in generated_names
    \/ n \in Sources(pending) \cup Targets(pending)

Init ==
    /\ pc = "new"
    /\ ssa \in Inputs
    /\ from \in Pred
    /\ pending = <<>>
    /\ next_temporary = 0
    /\ generated_names = {}
    /\ statements = <<>>
    /\ store = [x \in UsedNames(ssa) |-> x]

\* edge_statements / entry_statements call schedule with the edge's copies.
Start ==
    /\ pc = "new"
    /\ LET copies == EdgeCopies(ssa, from)
       IN  pending' = Without(copies,
                              {i \in DOMAIN copies : IsIdentity(copies[i])})
    /\ pc' = "schedule"
    /\ UNCHANGED <<ssa, from, next_temporary, generated_names, statements,
                   store>>

\* The first copy whose target is no longer needed becomes a statement.
EmitCopy ==
    /\ pc = "schedule"
    /\ Ready(pending) # {}
    /\ LET i == First(Ready(pending))
           copy == pending[i]
       IN  /\ pending' = Without(pending, {i})
           /\ statements' = Append(statements, copy)
           /\ store' = Assign(store, copy.target, copy.source)
    /\ UNCHANGED <<pc, ssa, from, next_temporary, generated_names>>

\* Every pending target is still to be read: only cycles are left.
OnlyCycles ==
    /\ pc = "schedule"
    /\ DOMAIN pending # {}
    /\ Ready(pending) = {}

\* `find_map(as_variable)`: the first source that is a variable.
SavedSource ==
    pending[First({i \in DOMAIN pending : pending[i].source # Null})].source

\* Mutant of SkipCandidate: the suffix is not advanced.
SkipWithoutAdvanceMutant ==
    /\ OnlyCycles
    /\ Taken(next_temporary)
    /\ UNCHANGED vars

\* The candidate name is in use: try the next suffix.
SkipCandidate ==
    /\ OnlyCycles
    /\ Taken(next_temporary)
    /\ next_temporary' = next_temporary + 1
    /\ UNCHANGED <<pc, ssa, from, pending, generated_names, statements, store>>

\* The first variable source is saved in a fresh temporary, and every pending
\* copy that reads it reads the temporary instead.
SaveSource ==
    /\ OnlyCycles
    /\ ~Taken(next_temporary)
    /\ statements' =
           Append(statements, [target |-> next_temporary, source |-> SavedSource])
    /\ store' = Assign(store, next_temporary, SavedSource)
    /\ pending' = [i \in DOMAIN pending |->
           IF pending[i].source = SavedSource
             THEN [target |-> pending[i].target, source |-> next_temporary]
             ELSE pending[i]]
    /\ generated_names' = generated_names \cup {next_temporary}
    /\ next_temporary' = next_temporary + 1
    /\ UNCHANGED <<pc, ssa, from>>

Finish ==
    /\ pc = "schedule"
    /\ DOMAIN pending = {}
    /\ pc' = "done"
    /\ UNCHANGED <<ssa, from, pending, next_temporary, generated_names,
                   statements, store>>

Next == Start \/ EmitCopy \/ SkipCandidate \/ SaveSource \/ Finish

Spec == Init /\ [][Next]_vars /\ WF_vars(Next)

(***************************************************************************)
(* Properties                                                              *)
(***************************************************************************)

\* Shapes of the scheduling state; the store covers exactly the identifiers
\* of the method and the temporaries recorded so far.
TypeOK ==
    /\ pc \in {"new", "schedule", "done"}
    /\ ssa \in Inputs
    /\ from \in Pred
    /\ DOMAIN pending \subseteq DOMAIN ssa.phis
    /\ pending \in [DOMAIN pending -> Copy]
    /\ next_temporary \in Nat
    /\ generated_names \subseteq Nat
    /\ statements \in Seq(Copy)
    /\ DOMAIN store = UsedNames(ssa) \cup generated_names
    /\ \A x \in DOMAIN store : store[x] \in Source

\* What the phi nodes mean on this edge: all targets receive, at once, the
\* values their operands had on entry; every other identifier keeps its value.
Want(x) ==
    LET copies == EdgeCopies(ssa, from)
    IN  IF x \in Targets(copies)
          THEN copies[CHOOSE i \in DOMAIN copies : copies[i].target = x].source
          ELSE x

\* The emitted sequence computes the parallel assignment: no copy reads a
\* variable an earlier copy overwrote, whatever chains, fans and cycles the
\* phi nodes form, and no identifier that is not a phi target changes.
ParallelCopy ==
    pc = "done" => \A x \in UsedNames(ssa) : store[x] = Want(x)

\* The cycles of a parallel assignment: the least nonempty sets of targets
\* whose operands stay among them.  A copy of a variable to itself is none.
Closed(copies, names) ==
    \A x \in names : \E i \in DOMAIN copies :
        copies[i].target = x /\ copies[i].source \in names

IsCycle(copies, names) ==
    /\ Closed(copies, names)
    /\ \E x, y \in names : x # y
    /\ \A part \in SUBSET names : part # {} /\ Closed(copies, part) => part = names

Cycles(copies) == {names \in SUBSET Targets(copies) : IsCycle(copies, names)}

\* Every cycle of the phi nodes costs one temporary, which holds the value of
\* one of its variables, and nothing else costs any (the tests at 462 and 317
\* of phi_lowering.rs show one cycle and one identity): a temporary is taken
\* only when no copy is ready, and frees every copy of its cycle in turn.
OneTemporaryPerCycle ==
    pc = "done" =>
        LET cycles == Cycles(EdgeCopies(ssa, from))
        IN  /\ \A n \in generated_names : \E names \in cycles : store[n] \in names
            /\ \A names \in cycles :
                   \E n \in generated_names :
                       /\ store[n] \in names
                       /\ \A m \in generated_names : store[m] \in names => m = n

\* The scheduling loop ends: a saved source frees a target, so `pending`
\* cannot stay cyclic for ever, and the search for a free suffix ends.
Terminates == <>(pc = "done")
=============================================================================
