------------------------- MODULE PhiLowering_proofs -------------------------
(***************************************************************************)
(* Proofs about PhiLowering: typing and the main result, that the emitted  *)
(* sequence of assignments computes the parallel assignment of the phi     *)
(* nodes for every SSA form.                                               *)
(***************************************************************************)
EXTENDS PhiLowering, WellFoundedInduction, TLAPS

Copies == EdgeCopies(ssa, from)

\* A copy that is still pending: its target has not been written, and what it
\* reads now still has the value of its operand on entry to the edge.
PendingFaithful ==
    \A i \in DOMAIN pending :
        /\ i \in DOMAIN Copies
        /\ pending[i].target = Copies[i].target
        /\ Eval(store, pending[i].source) = Copies[i].source

\* An identifier that no pending copy writes already has its final value.
SettledFinal ==
    \A x \in UsedNames(ssa) : x \notin Targets(pending) => store[x] = Want(x)

\* No temporary captures an identifier of the method.
Fresh == generated_names \cap UsedNames(ssa) = {}

\* The inductive invariant behind ParallelCopy.
Inv ==
    /\ TypeOK
    /\ Fresh
    /\ pc = "new" => /\ store = [x \in UsedNames(ssa) |-> x]
                     /\ generated_names = {}
    /\ pc # "new" => PendingFaithful /\ SettledFinal
    /\ pc = "done" => DOMAIN pending = {}

-----------------------------------------------------------------------------
\* A nonempty set of indices has a first element (Iterator::position returns
\* a matching index when there is one).
LEMMA FirstInSet ==
    ASSUME NEW I, I \subseteq Nat, I # {}
    PROVE  First(I) \in I
<1>. DEFINE R == OpToRel(<, Nat)
<1>1. IsWellFoundedOn(R, Nat)
  BY NatLessThanWellFounded
<1>2. \E x \in I : \A y \in I : ~(<<y, x>> \in R)
  <2>. HIDE DEF R
  <2>. QED BY <1>1, WFMin
<1>3. \A x, y \in I : y < x => <<y, x>> \in R
  BY DEF OpToRel
<1>4. \E x \in I : \A y \in I : x <= y
  <2>. HIDE DEF R
  <2>1. PICK x \in I : \A y \in I : ~(<<y, x>> \in R)
    BY <1>2
  <2>2. \A y \in I : ~(y < x)
    BY <2>1, <1>3
  <2>. QED BY <2>1, <2>2
<1>. QED BY <1>4 DEF First

\* What PhiLowering::new puts on an edge: copies between identifiers that are
\* all in used_names, with pairwise distinct targets.
LEMMA EdgeCopiesFacts ==
    ASSUME NEW form \in Inputs, NEW p \in Pred
    PROVE  LET copies == EdgeCopies(form, p) IN
           /\ UsedNames(form) \subseteq Name
           /\ DOMAIN copies \subseteq DOMAIN form.phis
           /\ DOMAIN copies \subseteq Nat
           /\ copies \in [DOMAIN copies -> Copy]
           /\ \A i \in DOMAIN copies : copies[i].target \in UsedNames(form)
           /\ \A i \in DOMAIN copies :
                  copies[i].source \in UsedNames(form) \cup {Unknown, Null}
           /\ \A i, j \in DOMAIN copies :
                  copies[i].target = copies[j].target => i = j
<1>. DEFINE copies == EdgeCopies(form, p)
<1>1. IsSsaForm(form)
  BY InputsAssumption
<1>2. \A i \in DOMAIN form.phis :
          /\ form.phis[i].target \in UsedNames(form)
          /\ \A q \in DOMAIN form.phis[i].operands :
                 form.phis[i].operands[q] \in UsedNames(form) \cup {Unknown, Null}
  BY <1>1 DEF IsSsaForm, UsedNames, Range, Source
<1>3. UsedNames(form) \subseteq Name
  BY <1>1, ReservedAssumption DEF IsSsaForm, UsedNames
<1>4. \A i \in DOMAIN copies :
          /\ i \in DOMAIN form.phis
          /\ copies[i].target = form.phis[i].target
          /\ copies[i].source = Operand(form.phis[i], p)
          /\ copies[i] = [target |-> form.phis[i].target,
                          source |-> Operand(form.phis[i], p)]
  BY DEF EdgeCopies
<1>5. \A i \in DOMAIN copies :
          copies[i].source \in UsedNames(form) \cup {Unknown, Null}
  BY <1>2, <1>4 DEF Operand
<1>6. \A i \in DOMAIN copies : copies[i] \in Copy
  BY <1>1, <1>3, <1>4, <1>5 DEF Copy, Source, IsSsaForm
<1>7. copies \in [DOMAIN copies -> Copy]
  BY <1>6 DEF EdgeCopies
<1>8. DOMAIN copies \subseteq Nat
  BY <1>1, <1>4 DEF IsSsaForm
<1>9. \A i, j \in DOMAIN copies : copies[i].target = copies[j].target => i = j
  BY <1>4, InputsAssumption
<1>. HIDE DEF copies
<1>. QED BY <1>2, <1>3, <1>4, <1>5, <1>7, <1>8, <1>9 DEF copies

\* The CHOOSE in Want picks the only copy of the edge with that target.
LEMMA WantOfTarget ==
    ASSUME ssa \in Inputs, from \in Pred, NEW i \in DOMAIN Copies
    PROVE  Want(Copies[i].target) = Copies[i].source
<1>1. \A j, k \in DOMAIN Copies :
          Copies[j].target = Copies[k].target => j = k
  BY EdgeCopiesFacts DEF Copies
<1>2. Copies[i].target \in Targets(Copies)
  BY DEF Targets
<1>3. (CHOOSE j \in DOMAIN Copies : Copies[j].target = Copies[i].target) = i
  BY <1>1
<1>. QED BY <1>2, <1>3 DEF Want, Copies

-----------------------------------------------------------------------------
\* The invariant holds initially.
LEMMA InitInv == Init => Inv
<1>. SUFFICES ASSUME Init PROVE Inv
  OBVIOUS
<1>1. UsedNames(ssa) \subseteq Name
  BY EdgeCopiesFacts DEF Init
<1>2. TypeOK
  BY <1>1 DEF Init, TypeOK, Source, Copy
<1>. QED BY <1>2 DEF Init, Inv, Fresh

\* Loading an edge's copies establishes the loop invariant.
LEMMA StartInv == Inv /\ Start => Inv'
<1>. SUFFICES ASSUME Inv, Start PROVE Inv'
  OBVIOUS
<1>. USE DEF Inv
<1>1. /\ ssa \in Inputs /\ from \in Pred /\ pc = "new" /\ pc' = "schedule"
      /\ ssa' = ssa /\ from' = from /\ store' = store
      /\ store = [x \in UsedNames(ssa) |-> x] /\ generated_names = {}
      /\ generated_names' = {}
  BY DEF TypeOK, Start
<1>2. Copies' = Copies /\ UsedNames(ssa)' = UsedNames(ssa)
  BY <1>1 DEF Copies
<1>3. pending' = Restrict(Copies, DOMAIN Copies \
                              {i \in DOMAIN Copies : IsIdentity(Copies[i])})
  BY DEF Start, Without, Copies
<1>4. /\ DOMAIN pending' \subseteq DOMAIN Copies
      /\ \A i \in DOMAIN pending' : pending'[i] = Copies[i]
      /\ \A i \in DOMAIN Copies : i \in DOMAIN pending' \/ IsIdentity(Copies[i])
      /\ pending' = [i \in DOMAIN pending' |-> Copies[i]]
  BY <1>3 DEF Restrict
<1>5. TypeOK'
  <2>1. /\ DOMAIN Copies \subseteq DOMAIN ssa.phis
        /\ Copies \in [DOMAIN Copies -> Copy]
    BY <1>1, EdgeCopiesFacts DEF Copies
  <2>2. pending' \in [DOMAIN pending' -> Copy]
    BY <2>1, <1>4
  <2>. QED BY <1>1, <1>4, <2>1, <2>2 DEF TypeOK, Start
<1>6. PendingFaithful'
  <2>1. \A i \in DOMAIN Copies :
            Copies[i].source \in UsedNames(ssa) \cup {Unknown, Null}
    BY <1>1, EdgeCopiesFacts DEF Copies
  <2>2. \A i \in DOMAIN Copies : Eval(store, Copies[i].source) = Copies[i].source
    BY <1>1, <2>1 DEF Eval
  <2>. QED BY <1>1, <1>2, <1>4, <2>2 DEF PendingFaithful
<1>7. SettledFinal'
  <2>. SUFFICES ASSUME NEW x \in UsedNames(ssa), x \notin Targets(pending')
                PROVE  Want(x)' = x
    BY <1>1, <1>2 DEF SettledFinal, Targets
  <2>1. Want(x)' = Want(x)
    BY <1>1 DEF Want
  <2>2. CASE x \in Targets(Copies)
    <3>1. PICK i \in DOMAIN Copies : Copies[i].target = x
      BY <2>2 DEF Targets
    <3>2. IsIdentity(Copies[i])
      BY <1>4, <3>1 DEF Targets
    <3>. QED BY <1>1, <2>1, <3>1, <3>2, WantOfTarget DEF IsIdentity
  <2>3. CASE x \notin Targets(Copies)
    BY <2>1, <2>3 DEF Want, Copies
  <2>. QED BY <2>2, <2>3
<1>. QED BY <1>1, <1>5, <1>6, <1>7 DEF Fresh

\* Emitting a ready copy writes a target nothing pending reads, so what the
\* other copies read keeps its value.
LEMMA EmitCopyInv == Inv /\ EmitCopy => Inv'
<1>. SUFFICES ASSUME Inv, EmitCopy PROVE Inv'
  OBVIOUS
<1>. DEFINE n == First(Ready(pending))
            t == pending[n].target
            s == pending[n].source
<1>1. /\ TypeOK /\ Fresh /\ PendingFaithful /\ SettledFinal
      /\ pc = "schedule" /\ pc' = "schedule" /\ ssa' = ssa /\ from' = from
      /\ next_temporary' = next_temporary
      /\ generated_names' = generated_names
      /\ pending' = Without(pending, {n})
      /\ statements' = Append(statements, pending[n])
      /\ store' = Assign(store, t, s)
      /\ ssa \in Inputs /\ from \in Pred
  BY DEF Inv, EmitCopy, TypeOK
<1>2. Copies' = Copies /\ UsedNames(ssa)' = UsedNames(ssa)
  BY <1>1 DEF Copies
<1>3. /\ DOMAIN pending \subseteq DOMAIN ssa.phis
      /\ DOMAIN pending \subseteq Nat
  BY <1>1, InputsAssumption DEF TypeOK, IsSsaForm
<1>4. n \in Ready(pending)
  BY <1>3, FirstInSet DEF EmitCopy, Ready
<1>5. /\ n \in DOMAIN pending /\ t \notin Sources(pending)
      /\ pending[n] \in Copy
  BY <1>1, <1>4 DEF Ready, TypeOK
<1>. HIDE DEF n
<1>6. /\ DOMAIN pending' = DOMAIN pending \ {n}
      /\ \A i \in DOMAIN pending' : pending'[i] = pending[i]
      /\ pending' = [i \in DOMAIN pending' |-> pending[i]]
  BY <1>1 DEF Without, Restrict
<1>7. /\ n \in DOMAIN Copies /\ t = Copies[n].target
      /\ Eval(store, s) = Copies[n].source
      /\ t \in UsedNames(ssa) /\ t \in DOMAIN store
  BY <1>1, <1>5, EdgeCopiesFacts DEF PendingFaithful, Copies, TypeOK
<1>8. /\ DOMAIN store' = DOMAIN store
      /\ store'[t] = Copies[n].source
      /\ \A x \in DOMAIN store : x # t => store'[x] = store[x]
  BY <1>1, <1>7 DEF Assign
<1>9. TypeOK'
  <2>1. pending' \in [DOMAIN pending' -> Copy]
    BY <1>1, <1>6 DEF TypeOK
  <2>2. statements' \in Seq(Copy)
    BY <1>1, <1>5 DEF TypeOK
  <2>3. Copies[n].source \in Source
    BY <1>1, <1>7, EdgeCopiesFacts DEF Copies, Copy
  <2>4. \A x \in DOMAIN store' : store'[x] \in Source
    BY <1>1, <1>8, <2>3 DEF TypeOK
  <2>. QED BY <1>1, <1>6, <1>8, <2>1, <2>2, <2>4 DEF TypeOK
<1>10. PendingFaithful'
  <2>. SUFFICES ASSUME NEW i \in DOMAIN pending'
                PROVE  /\ i \in DOMAIN Copies
                       /\ pending[i].target = Copies[i].target
                       /\ Eval(store', pending[i].source) = Copies[i].source
    BY <1>2, <1>6 DEF PendingFaithful
  <2>1. /\ i \in DOMAIN Copies
        /\ pending[i].target = Copies[i].target
        /\ Eval(store, pending[i].source) = Copies[i].source
    BY <1>1, <1>6 DEF PendingFaithful
  <2>2. pending[i].source # t
    BY <1>5, <1>6, <1>7, <1>1, EdgeCopiesFacts, NamesAssumption DEF Sources, Copies, Copy
  <2>. QED BY <1>8, <2>1, <2>2 DEF Eval
<1>11. SettledFinal'
  <2>0. \A x : Want(x)' = Want(x)
    BY <1>1 DEF Want
  <2>. SUFFICES ASSUME NEW x \in UsedNames(ssa), x \notin Targets(pending')
                PROVE  store'[x] = Want(x)
    BY <1>2, <2>0 DEF SettledFinal, Targets
  <2>1. CASE x = t
    BY <1>1, <1>7, <1>8, <2>1, WantOfTarget
  <2>2. CASE x # t
    <3>1. x \notin Targets(pending)
      BY <1>6, <2>2 DEF Targets
    <3>. QED BY <1>1, <1>8, <2>2, <3>1 DEF SettledFinal, TypeOK
  <2>. QED BY <2>1, <2>2
<1>. QED BY <1>1, <1>9, <1>10, <1>11 DEF Inv, Fresh

\* Saving a source writes a name nothing else uses; the redirected copies read
\* the same value from it.
LEMMA SaveSourceInv == Inv /\ SaveSource => Inv'
<1>. SUFFICES ASSUME Inv, SaveSource PROVE Inv'
  OBVIOUS
<1>. DEFINE t == next_temporary
            s == SavedSource
<1>1. /\ TypeOK /\ Fresh /\ PendingFaithful /\ SettledFinal
      /\ pc = "schedule" /\ pc' = "schedule" /\ ssa' = ssa /\ from' = from
      /\ t \in Nat /\ next_temporary' = t + 1 /\ ~Taken(t)
      /\ generated_names' = generated_names \cup {t}
      /\ statements' = Append(statements, [target |-> t, source |-> s])
      /\ store' = Assign(store, t, s)
      /\ pending' = [i \in DOMAIN pending |->
             IF pending[i].source = s
               THEN [target |-> pending[i].target, source |-> t]
               ELSE pending[i]]
      /\ ssa \in Inputs /\ from \in Pred
  BY DEF Inv, SaveSource, OnlyCycles, TypeOK
<1>2. Copies' = Copies /\ UsedNames(ssa)' = UsedNames(ssa)
  BY <1>1 DEF Copies
<1>3. /\ t \notin UsedNames(ssa) /\ t \notin generated_names
      /\ t \notin DOMAIN store
      /\ \A i \in DOMAIN pending : pending[i].source # t
  <2>1. t # Null
    BY <1>1, NamesAssumption DEF Name
  <2>. QED BY <1>1, <2>1 DEF Taken, TypeOK, Sources
<1>4. DOMAIN pending # {} /\ Ready(pending) = {}
  BY DEF SaveSource, OnlyCycles
<1>5. PICK k \in DOMAIN pending : s = pending[k].source
  <2>. DEFINE I == {i \in DOMAIN pending : pending[i].source # Null}
  <2>1. I \subseteq Nat
    BY <1>1, InputsAssumption DEF TypeOK, IsSsaForm
  <2>2. I # {}
    BY <1>4 DEF Ready, Sources
  <2>3. First(I) \in I
    <3>. HIDE DEF I
    <3>. QED BY <2>1, <2>2, FirstInSet
  <2>. QED BY <2>3 DEF SavedSource
<1>6. s \in Source /\ Eval(store, s) \in Source
  <2>1. s \in Source
    BY <1>1, <1>5 DEF TypeOK, Copy
  <2>. QED BY <1>1, <2>1 DEF TypeOK, Eval
<1>. HIDE DEF t, s
<1>7. /\ DOMAIN store' = DOMAIN store \cup {t}
      /\ store'[t] = Eval(store, s)
      /\ \A x \in DOMAIN store : store'[x] = store[x]
  BY <1>1, <1>3 DEF Assign
<1>8. /\ DOMAIN pending' = DOMAIN pending
      /\ \A i \in DOMAIN pending :
             /\ pending'[i] \in Copy
             /\ pending'[i].target = pending[i].target
             /\ pending'[i].source = IF pending[i].source = s THEN t
                                                            ELSE pending[i].source
  <2>1. \A i \in DOMAIN pending : pending[i] \in Copy
    BY <1>1 DEF TypeOK
  <2>2. t \in Source
    BY <1>1 DEF Source, Name
  <2>. QED BY <1>1, <2>1, <2>2 DEF Copy
<1>9. TypeOK'
  <2>1. pending' \in [DOMAIN pending' -> Copy]
    BY <1>1, <1>8
  <2>2. statements' \in Seq(Copy)
    <3>1. [target |-> t, source |-> s] \in Copy
      BY <1>1, <1>6 DEF Copy, Name
    <3>. QED BY <1>1, <3>1 DEF TypeOK
  <2>3. \A x \in DOMAIN store' : store'[x] \in Source
    BY <1>1, <1>6, <1>7 DEF TypeOK
  <2>4. generated_names' \subseteq Nat /\ next_temporary' \in Nat
    BY <1>1 DEF TypeOK
  <2>5. DOMAIN store' = UsedNames(ssa)' \cup generated_names'
    BY <1>1, <1>2, <1>7 DEF TypeOK
  <2>. QED BY <1>1, <1>8, <2>1, <2>2, <2>3, <2>4, <2>5 DEF TypeOK
<1>10. PendingFaithful'
  <2>. SUFFICES ASSUME NEW i \in DOMAIN pending
                PROVE  /\ i \in DOMAIN Copies
                       /\ pending[i].target = Copies[i].target
                       /\ Eval(store', pending'[i].source) = Copies[i].source
    BY <1>2, <1>8 DEF PendingFaithful
  <2>1. /\ i \in DOMAIN Copies
        /\ pending[i].target = Copies[i].target
        /\ Eval(store, pending[i].source) = Copies[i].source
    BY <1>1 DEF PendingFaithful
  <2>2. CASE pending[i].source = s
    BY <1>7, <1>8, <2>1, <2>2 DEF Eval
  <2>3. CASE pending[i].source # s
    BY <1>3, <1>7, <1>8, <2>1, <2>3 DEF Eval
  <2>. QED BY <2>1, <2>2, <2>3
<1>11. SettledFinal'
  <2>1. Targets(pending') = Targets(pending)
    BY <1>8 DEF Targets
  <2>2. \A x \in UsedNames(ssa) : x \in DOMAIN store /\ Want(x)' = Want(x)
    BY <1>1 DEF TypeOK, Want
  <2>. QED BY <1>1, <1>2, <1>7, <2>1, <2>2 DEF SettledFinal, Targets
<1>12. Fresh'
  BY <1>1, <1>2, <1>3 DEF Fresh
<1>. QED BY <1>1, <1>9, <1>10, <1>11, <1>12 DEF Inv

\* Every step preserves the invariant.
LEMMA NextInv == Inv /\ [Next]_vars => Inv'
<1>. SUFFICES ASSUME Inv, [Next]_vars PROVE Inv'
  OBVIOUS
<1>1. CASE Start
  BY <1>1, StartInv
<1>2. CASE EmitCopy
  BY <1>2, EmitCopyInv
<1>3. CASE SkipCandidate
  BY <1>3 DEF SkipCandidate, OnlyCycles, Inv, TypeOK, Fresh,
              PendingFaithful, SettledFinal, Copies, Want, Targets
<1>4. CASE SaveSource
  BY <1>4, SaveSourceInv
<1>5. CASE Finish
  BY <1>5 DEF Finish, Inv, TypeOK, Fresh, PendingFaithful,
              SettledFinal, Copies, Want, Targets
<1>6. CASE UNCHANGED vars
  BY <1>6 DEF vars, Inv, TypeOK, Fresh, PendingFaithful,
              SettledFinal, Copies, Want, Targets
<1>. QED BY <1>1, <1>2, <1>3, <1>4, <1>5, <1>6 DEF Next

\* The invariant implies the correctness of the finished schedule.
LEMMA InvParallelCopy == Inv => ParallelCopy
  BY DEF Inv, ParallelCopy, SettledFinal, Targets

\* The state of schedule() keeps its types: copies stay copies between
\* identifiers, and the names written are those of the method and temporaries.
THEOREM TypeCorrect == Spec => []TypeOK
<1>1. Inv => TypeOK
  BY DEF Inv
<1>. QED BY <1>1, InitInv, NextInv, PTL DEF Spec

\* The sequence of assignments schedule() emits for an edge computes the
\* parallel assignment of the live phi nodes, for any number of phi nodes.
THEOREM ScheduleCorrect == Spec => []ParallelCopy
  BY InitInv, NextInv, InvParallelCopy, PTL DEF Spec
=============================================================================
