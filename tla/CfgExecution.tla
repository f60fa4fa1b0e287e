---------------------------- MODULE CfgExecution ----------------------------
(***************************************************************************)
(* The control-flow graph of CfgBuilder against the execution of the same  *)
(* method by the Neo VM.                                                   *)
(*                                                                         *)
(* The VM is external to the repository: it is modelled from what the      *)
(* builder, the opcode table and the comments in src/ take it to do.  A    *)
(* TRY pushes a context; ENDTRY leaves it, through its finally block when  *)
(* it has one; ENDFINALLY resumes the target saved by ENDTRY, or goes on   *)
(* raising the pending exception; an exception unwinds to the innermost    *)
(* context that can handle it.  Running past the last instruction returns. *)
(***************************************************************************)
EXTENDS CfgBuilder

VARIABLES
    status,     \* "loading", "running", "stopped"
    ip,         \* offset of the next instruction
    tries,      \* stack of try contexts: the TRY, its state, the offset `end` that an
                \* ENDTRY saved and the ENDTRY `via` that saved it
    raised      \* is there a pending exception?

vmVars == <<status, ip, tries, raised>>
vars == <<buildVars, vmVars>>

Top == Last(tries)

HasCatch(t) == code[t.try].catch # 0
HasFinally(t) == code[t.try].finally # 0

Init ==
    /\ BuildInit
    /\ status = "loading"
    /\ ip = 1
    /\ tries = <<>>
    /\ raised = FALSE

Build == BuildNext /\ UNCHANGED vmVars

Load ==
    /\ pc = "built" /\ status = "loading"
    /\ status' = "running"
    /\ UNCHANGED <<buildVars, ip, tries, raised>>

Running(ops) == pc = "built" /\ status = "running" /\ IsOp(code, ip, ops)

\* Control arrives at an offset: outside the method the VM stops.
GoTo(offset) ==
    IF offset \in Offsets(code)
      THEN ip' = offset /\ status' = "running"
      ELSE ip' = ip /\ status' = "stopped"

Advance ==
    /\ Running({"plain"})
    /\ GoTo(ip + 1)
    /\ UNCHANGED <<buildVars, tries, raised>>

Jump ==
    /\ Running({"jmp"})
    /\ GoTo(ip + code[ip].delta)
    /\ UNCHANGED <<buildVars, tries, raised>>

\* `cond` is the value the instruction pops; JMPIFNOT jumps when it is false.
Branch(cond) ==
    /\ Running({"jmpif", "jmpifnot"})
    /\ GoTo(IF cond = (code[ip].op = "jmpif") THEN ip + code[ip].delta ELSE ip + 1)
    /\ UNCHANGED <<buildVars, tries, raised>>

EnterTry ==
    /\ Running({"try"})
    /\ code[ip].catch # 0 \/ code[ip].finally # 0
    /\ tries' = Append(tries, [try |-> ip, state |-> "Try", end |-> 0,
                              via |-> 0])
    /\ GoTo(ip + 1)
    /\ UNCHANGED <<buildVars, raised>>

\* ENDTRY of a context with a finally block runs it first.
LeaveThroughFinally ==
    /\ Running({"endtry"})
    /\ tries # <<>> /\ Top.state # "Finally" /\ HasFinally(Top)
    /\ tries' = [tries EXCEPT ![Len(tries)].state = "Finally",
                              ![Len(tries)].end = ip + code[ip].delta,
                              ![Len(tries)].via = ip]
    /\ GoTo(Top.try + code[Top.try].finally)
    /\ UNCHANGED <<buildVars, raised>>

LeaveTry ==
    /\ Running({"endtry"})
    /\ tries # <<>> /\ Top.state # "Finally" /\ ~HasFinally(Top)
    /\ tries' = Front(tries)
    /\ GoTo(ip + code[ip].delta)
    /\ UNCHANGED <<buildVars, raised>>

ResumeAfterFinally ==
    /\ Running({"endfinally"})
    /\ tries # <<>> /\ ~raised
    /\ tries' = Front(tries)
    /\ GoTo(Top.end)
    /\ UNCHANGED <<buildVars, raised>>

\* The context an exception unwinds to: the innermost one that is still in its
\* try body, or in its catch body with a finally block to run.
Handlers(stack) ==
    {k \in DOMAIN stack :
        \/ stack[k].state = "Try"
        \/ stack[k].state = "Catch" /\ HasFinally(stack[k])}

Unwind(stack) ==
    IF Handlers(stack) = {}
      THEN /\ status' = "stopped"
           /\ ip' = ip /\ tries' = <<>> /\ raised' = TRUE
      ELSE LET k == Max(Handlers(stack))
               t == stack[k]
               catching == t.state = "Try" /\ HasCatch(t)
           IN  /\ tries' = [SubSeq(stack, 1, k) EXCEPT ![k].state =
                               IF catching THEN "Catch" ELSE "Finally"]
               /\ raised' = ~catching
               /\ GoTo(t.try + IF catching THEN code[t.try].catch
                                           ELSE code[t.try].finally)

\* THROW, an instruction that raises, and a callee that never returns.
Raise ==
    /\ Running({"throw", "plain", "noreturn"})
    /\ Unwind(tries)
    /\ UNCHANGED buildVars

\* ENDFINALLY with a pending exception goes on raising it.
Reraise ==
    /\ Running({"endfinally"})
    /\ tries # <<>> /\ raised
    /\ Unwind(Front(tries))
    /\ UNCHANGED buildVars

\* RET and ABORT end the method, and so does anything the VM rejects.
Stop ==
    /\ \/ Running({"ret", "abort", "noreturn"})
       \/ Running({"try"}) /\ code[ip].catch = 0 /\ code[ip].finally = 0
       \/ Running({"endtry", "endfinally"}) /\ tries = <<>>
       \/ Running({"endtry"}) /\ tries # <<>> /\ Top.state = "Finally"
    /\ status' = "stopped"
    /\ UNCHANGED <<buildVars, ip, tries, raised>>

Stopped == status = "stopped" /\ UNCHANGED vars

Next ==
    \/ Build \/ Load \/ Advance \/ Jump \/ (\E cond \in BOOLEAN : Branch(cond))
    \/ EnterTry \/ LeaveThroughFinally \/ LeaveTry \/ ResumeAfterFinally
    \/ Raise \/ Reraise \/ Stop \/ Stopped

Spec == Init /\ [][Next]_vars

-----------------------------------------------------------------------------

\* What apply_finally_routing reads off the layout of the method is what the VM
\* keeps on its stack: the region taken to own an ENDTRY is the innermost
\* context the ENDTRY leaves, and the one region an ENDFINALLY is taken to
\* close is the context it ends.
RoutingAgrees ==
    status = "running" /\ tries # <<>> =>
        /\ IsOp(code, ip, {"endtry"}) /\ Top.state # "Finally" =>
              /\ ip \in RoutedEndtries(code) /\ JumpTarget(code, ip) # ip
              /\ EndtryOwners(code, EndfinallyOffsets(code))[ip] = Top.try
        /\ IsOp(code, ip, {"endfinally"}) /\ ~raised =>
              {r \in Regions(code) : EndfinallyOffsets(code)[r] = ip} = {Top.try}

\* Control moved from ip to ip' along an edge of one of the kinds, from the
\* last instruction of a block to the first of another.
AlongEdge(kinds) ==
    /\ ip = LastOf(code, leaders, BlockOf(leaders, ip))
    /\ \E k \in kinds : <<BlockOf(leaders, ip), ip', k>> \in edges

\* Straight-line execution inside a block.
InsideBlock == ip' = ip + 1 /\ BlockOf(leaders, ip') = BlockOf(leaders, ip)

\* Every normal transfer of control is an edge of the graph, of the kind the
\* later passes take it for: jumps, both sides of a branch with the polarity
\* of its condition, ENDTRY into its finally block, and ENDFINALLY to every
\* continuation some ENDTRY saved.
TransferIsEdge ==
    status = "running" /\ status' = "running" =>
        /\ Advance => InsideBlock \/ AlongEdge({"Unconditional"})
        /\ Jump \/ EnterTry \/ LeaveTry => AlongEdge({"Unconditional"})
        /\ Branch(TRUE) \/ Branch(FALSE) =>
               \/ Branch(TRUE) /\ AlongEdge({"ConditionalTrue"})
               \/ Branch(FALSE) /\ AlongEdge({"ConditionalFalse"})
        /\ LeaveThroughFinally => AlongEdge({"Finally"})
        /\ ResumeAfterFinally => AlongEdge({"FinallyContinuation"})

TransfersAreEdges == [][TransferIsEdge]_vars

\* Dead-code detection is sound: the block of every instruction the VM executes
\* is reachable along edges, exceptional paths included.
ExecutedIsReachable ==
    status = "running" => BlockOf(leaders, ip) \in ReachableBlocks(leaders, edges)

\* An ENDTRY through a finally block is marked non-local exactly when ENDFINALLY
\* then resumes somewhere else than behind the finally block: the structurer
\* prints the first kind as a leave and the second as plain fallthrough.
LeaveIsMarked ==
    ResumeAfterFinally /\ status' = "running" =>
        (terminator[BlockOf(leaders, Top.via)].nonlocal <=> Top.end # ip + 1)

NonlocalLeaves == [][LeaveIsMarked]_vars

-----------------------------------------------------------------------------
\* What the graph takes for granted of a method: compute_terminator gives a
\* conditional jump without a target in the method the terminator Unknown, and
\* then its fallthrough has no edge either.
BranchesLand ==
    \A m \in Programs : \A i \in Offsets(m) :
        IsOp(m, i, {"jmpif", "jmpifnot"}) => JumpTarget(m, i) # None
-----------------------------------------------------------------------------
(***************************************************************************)
(* Methods whose TRY statements nest.  A statement lies in one piece: the  *)
(* TRY, its body, its catch handler and its finally block up to the        *)
(* ENDFINALLY; `after` gives the offset behind each.                       *)
(***************************************************************************)
Tries(m) == {r \in Offsets(m) : IsOp(m, r, {"try"})}

Around(m, after, i) == {r \in Tries(m) : r < i /\ i < after[r]}

\* The part of the statement of r an offset inside of it lies in.
PartAt(m, r, i) ==
    IF FinallyTarget(m, r) # None /\ i >= FinallyTarget(m, r) THEN "Finally"
    ELSE IF CatchTarget(m, r) # None /\ i >= CatchTarget(m, r) THEN "Catch"
    ELSE "Try"

\* The statements around an offset, with the part it lies in.
Place(m, after, i) == [r \in Around(m, after, i) |-> PartAt(m, r, i)]

\* Every TRY has a handler, its parts follow each other, and its finally block
\* ends with an ENDFINALLY of its own.
PartsInOrder(m, after) ==
    \A r \in Tries(m) :
        /\ m[r].catch # 0 \/ m[r].finally # 0
        /\ m[r].catch # 0 => CatchTarget(m, r) \in (r + 2)..(after[r] - 1)
        /\ m[r].finally # 0 => /\ FinallyTarget(m, r) \in (r + 2)..(after[r] - 1)
                               /\ IsOp(m, after[r] - 1, {"endfinally"})
                               /\ Max(Around(m, after, after[r] - 1)) = r
        /\ m[r].catch # 0 /\ m[r].finally # 0 => CatchTarget(m, r) < FinallyTarget(m, r)

\* A statement lies in one part of each statement around it.
StatementsNest(m, after) ==
    \A r \in Tries(m) : \A i \in (r + 1)..(after[r] - 1) : \A q \in Around(m, after, r) :
        q \in Around(m, after, i) /\ PartAt(m, q, i) = PartAt(m, q, r)

\* Control leaves a part only by an ENDTRY, which goes on where the statement
\* stands, or by the ENDFINALLY at the end of the statement.
ControlStays(m, after) ==
    \A i \in Offsets(m) :
        LET around == Around(m, after, i)
            r == Max(around)
        IN  /\ IsOp(m, i, {"plain", "jmpif", "jmpifnot"}) /\ i + 1 \in Offsets(m) =>
                  Place(m, after, i + 1) = Place(m, after, i)
            /\ IsOp(m, i, {"jmp", "jmpif", "jmpifnot"}) /\ JumpTarget(m, i) # None =>
                  Place(m, after, JumpTarget(m, i)) = Place(m, after, i)
            /\ IsOp(m, i, {"endtry"}) /\ around # {} =>
                  /\ PartAt(m, r, i) # "Finally" /\ JumpTarget(m, i) # None
                  /\ Place(m, after, JumpTarget(m, i)) = Place(m, after, r)
            /\ IsOp(m, i, {"endtry"}) /\ around = {} => JumpTarget(m, i) = None
            /\ IsOp(m, i, {"endfinally"}) /\ around # {} =>
                  PartAt(m, r, i) = "Finally" /\ i = after[r] - 1

\* Where catch_continuation has a handler without a finally block end makes no
\* difference for a TRY or an ENDTRY.
CatchesEnd(m, after) ==
    \A r \in Tries(m) : m[r].catch # 0 /\ m[r].finally = 0 =>
        \A i \in Tries(m) \cup RoutedEndtries(m) : i >= CatchTarget(m, r) =>
            (i < CatchEnd(m, r) <=> i < after[r])

WellNested(m, after) ==
    /\ PartsInOrder(m, after) /\ StatementsNest(m, after)
    /\ ControlStays(m, after) /\ CatchesEnd(m, after)

TriesNest ==
    \A m \in Programs : \E after \in [Tries(m) -> 1..EndOffset(m)] : WellNested(m, after)
=============================================================================
