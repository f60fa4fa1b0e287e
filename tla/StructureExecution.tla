------------------------- MODULE StructureExecution -------------------------
(***************************************************************************)
(* The recovered statements run beside the method itself.                  *)
(*                                                                         *)
(* The VM of CfgExecution executes the instructions and reports what it    *)
(* does: the statements of a block it enters, a condition it tests, the    *)
(* phi copies of an edge it takes, an exception, the end.  The program     *)
(* must answer with the same events in the same order.  A position in it   *)
(* is a path: statement, arm, statement, arm, ..., statement; one past the *)
(* last statement of an arm is the end of that arm.                        *)
(***************************************************************************)
EXTENDS Structure, CfgExecution

VARIABLES
  events,     (* what the VM did and the program has not answered          *)
  pos,        (* where the program is                                      *)
  atTest,     (* is it at the condition that closes a do-while?            *)
  owed,       (* what the finally blocks it is in complete with            *)
  first,      (* the do-while loops in their first iteration               *)
  answer      (* "running", "stopped", "wrong"                             *)

progVars == <<events, pos, atTest, owed, first, answer>>
allVars == <<buildVars, vmVars, structVars, progVars>>

-----------------------------------------------------------------------------
(* Events.                                                                 *)
Did(k, b) == [e |-> k, b |-> b, v |-> FALSE, c |-> 0]
Tested(b, v) == [e |-> "test", b |-> b, v |-> v, c |-> 0]
Copied(b, c) == [e |-> "copy", b |-> b, v |-> FALSE, c |-> c]

Entered(b) == When(HasBody(b), Did("body", b))
Taking(b, c) == (IF EdgeCopies(b, c) # <<>> THEN <<Copied(b, c)>> ELSE <<>>) \o Entered(c)

(* The VM goes from one instruction to the next, or stops outside.         *)
Arriving ==
  IF status' # "running" THEN <<>>
  ELSE IF ip' \in leaders THEN Taking(BlockOf(leaders, ip), ip') ELSE <<>>
(* An exception enters a handler along the edge from the TRY.              *)
Handling ==
  IF status' # "running" THEN <<>>
  ELSE Taking(BlockOf(leaders, tries'[Len(tries')].try), ip')

VmTurn == phase = "done" /\ events = <<>> /\ answer # "wrong"
Silent == UNCHANGED <<structVars, pos, atTest, owed, first, answer>>

VmLoad ==
  /\ VmTurn /\ Load /\ Silent
  /\ events' = (IF 1 \in phis THEN <<Copied(0, 1)>> ELSE <<>>) \o Entered(1)
VmAdvance == VmTurn /\ Advance /\ Silent /\ events' = Arriving
VmJump == VmTurn /\ Jump /\ Silent /\ events' = Arriving
VmBranch ==
  VmTurn /\ Silent /\
  \E cond \in BOOLEAN : /\ Branch(cond)
                        /\ events' = <<Tested(BlockOf(leaders, ip), cond)>> \o Arriving
VmEnterTry == VmTurn /\ EnterTry /\ Silent /\ events' = Arriving
VmLeave ==
  VmTurn /\ (LeaveThroughFinally \/ LeaveTry \/ ResumeAfterFinally) /\ Silent
         /\ events' = Arriving
VmRaise ==
  /\ VmTurn /\ Raise /\ Silent
  /\ events' = <<Did(IF IsOp(code, ip, {"throw"}) THEN "exit" ELSE "raise", BlockOf(leaders, ip))>>
                 \o Handling
VmReraise == VmTurn /\ Reraise /\ Silent /\ events' = Handling
VmStop ==
  /\ VmTurn /\ Stop /\ Silent
  /\ events' = <<Did(IF IsOp(code, ip, {"ret", "abort"}) THEN "exit" ELSE "raise", BlockOf(leaders, ip))>>

-----------------------------------------------------------------------------
(* Positions.                                                              *)
RECURSIVE ArmAt(_, _)
(* The statements of the arm a path of even length leads to.               *)
ArmAt(s, path) == IF path = <<>> THEN s
                  ELSE ArmAt(s[path[1]].arms[path[2]], SubSeq(path, 3, Len(path)))
NodeAt(path) == ArmAt(ir, Front(path))[Last(path)]
AtEnd(path) == Last(path) > Len(ArmAt(ir, Front(path)))
Following(path) == Append(Front(path), Last(path) + 1)
Into(path, arm) == path \o <<arm, 1>>
Parent(path) == SubSeq(path, 1, Len(path) - 2)
ArmOf(path) == path[Len(path) - 1]

RECURSIVE LabelPaths(_, _)
(* The paths of the statements labelled b.                                 *)
LabelPaths(s, b) ==
  {<<i>> : i \in {i \in DOMAIN s : s[i].k = "label" /\ s[i].b = b}}
  \cup UNION {UNION {{<<i, j>> \o p : p \in LabelPaths(s[i].arms[j], b)} :
                       j \in DOMAIN s[i].arms} :
                 i \in {i \in DOMAIN s : HasArms(s[i])}}

(* Completions: how control leaves an arm.                                 *)
Completion(k, b) == [k |-> k, b |-> b]
At(path, test, stack, status_) == [pos |-> path, test |-> test, owed |-> stack, answer |-> status_]

(* Where control goes when the arm that holds `path' completes: through    *)
(* the loops and the finally blocks around it.  `stack' is what the        *)
(* finally blocks around it complete with.                                 *)
RECURSIVE Complete(_, _, _)
Complete(how, path, stack) ==
  LET up == Parent(path)
      node == NodeAt(up)
      labels == IF how.k = "goto" THEN LabelPaths(ir, how.b) ELSE {}
      Within(p) == Len(p) >= Len(path) /\ SubSeq(p, 1, Len(path) - 1) = Front(path)
      Outward(h, rest) == IF h.k = "normal" THEN At(Following(up), FALSE, rest, "running")
                                            ELSE Complete(h, up, rest)
  IN IF \E p \in labels : Within(p)
       THEN At(CHOOSE p \in labels : Within(p), FALSE, stack, "running")
     ELSE IF Len(path) = 1
       THEN At(path, FALSE, stack, IF how.k \in {"return", "raise"} THEN "stopped" ELSE "wrong")
     ELSE CASE node.k = "try" /\ ArmOf(path) = 3 ->
                 Outward(IF how.k = "normal" THEN Head(stack) ELSE how, Tail(stack))
            [] node.k = "try" /\ ArmOf(path) # 3 ->
                 IF how.k = "raise" /\ ArmOf(path) = 1 /\ node.catch
                   THEN At(Into(up, 2), FALSE, stack, "running")
                 ELSE IF node.finally
                   THEN At(Into(up, 3), FALSE, <<how>> \o stack, "running")
                 ELSE Outward(how, stack)
            [] node.k \in {"while", "forever", "dowhile"} ->
                 IF how.k = "break" THEN At(Following(up), FALSE, stack, "running")
                 ELSE IF how.k \in {"normal", "continue"}
                   THEN At(up, node.k = "dowhile", stack, "running")
                 ELSE Complete(how, up, stack)
            [] OTHER -> Outward(how, stack)

-----------------------------------------------------------------------------
(* The program's steps.                                                    *)
ProgTurn == phase = "done" /\ events # <<>> /\ answer = "running"
Event == Head(events)
Here == NodeAt(pos)
Before(kinds) == /\ ProgTurn /\ Event.e # "raise"
                 /\ ~atTest /\ ~AtEnd(pos) /\ Here.k \in kinds
Keep == UNCHANGED <<buildVars, vmVars, structVars>>

Goes(to) == /\ pos' = to.pos /\ atTest' = to.test /\ owed' = to.owed
            /\ answer' = to.answer /\ UNCHANGED first
Moves(path) == Goes(At(path, FALSE, owed, "running"))
Answers(event, to) ==
  IF Event = event THEN events' = Tail(events) /\ Moves(to)
                   ELSE UNCHANGED events /\ Goes(At(pos, atTest, owed, "wrong"))

(* A return ends the method once the finally blocks around it have run.    *)
Leaves(how) ==
  \E to \in {Complete(how, pos, owed)} :
    IF to.answer = "stopped" /\ \E h \in Range(<<how>> \o owed) : h.k = "return"
      THEN LET h == SelectSeq(<<how>> \o owed, LAMBDA x : x.k = "return")[1]
           IN /\ events' = Tail(events)
              /\ Goes(IF Event = Did("exit", h.b) THEN to ELSE [to EXCEPT !.answer = "wrong"])
      ELSE UNCHANGED events /\ Goes(to)

(* An exception out of the statements just executed.                       *)
ProgInterrupted ==
  /\ ProgTurn /\ Event.e = "raise"
  /\ Goes(Complete(Completion("raise", 0), pos, owed))
  /\ events' = Tail(events) /\ Keep

ProgBody == Before({"body"}) /\ Answers(Did("body", Here.b), Following(pos)) /\ Keep

ProgCopy == Before({"copy"}) /\ Answers(Copied(Here.b, Here.c), Following(pos)) /\ Keep

ProgExit ==
  /\ Before({"exit"})
  /\ CASE IsOp(code, LastOf(code, leaders, Here.b), {"ret"}) -> Leaves(Completion("return", Here.b))
       [] OTHER ->
            /\ events' = Tail(events)
            /\ IF Event # Did("exit", Here.b) THEN Goes(At(pos, FALSE, owed, "wrong"))
               ELSE IF IsOp(code, LastOf(code, leaders, Here.b), {"throw"})
                      THEN Goes(Complete(Completion("raise", 0), pos, owed))
               ELSE Goes(At(pos, FALSE, owed, "stopped"))
  /\ Keep

(* A condition.  The last arm of an `if' is its else.                      *)
ProgTest ==
  /\ Before({"if", "while", "discard"})
  /\ \E v \in BOOLEAN :
       /\ v = Event.v
       /\ Answers(Tested(Here.b, v),
                  CASE Here.k = "if" -> Into(pos, IF v THEN 1 ELSE 2)
                    [] Here.k = "while" /\ v # Here.neg -> Into(pos, 1)
                    [] OTHER -> Following(pos))
  /\ Keep

ProgLoopTest ==
  /\ ProgTurn /\ Event.e # "raise" /\ atTest
  /\ \E v \in BOOLEAN :
       /\ v = Event.v
       /\ Answers(Tested(Here.b, v), IF v # Here.neg THEN Into(pos, 1) ELSE Following(pos))
  /\ Keep

(* Statements without an event.                                            *)
ProgEnter ==
  /\ Before({"forever", "dowhile", "try"})
  /\ Moves(Into(pos, 1)) /\ UNCHANGED events /\ Keep

ProgPass ==
  /\ Before({"label", "comment"})
  /\ Moves(Following(pos)) /\ UNCHANGED events /\ Keep

ProgTransfer ==
  /\ Before({"goto", "break", "continue"})
  /\ Goes(Complete(Completion(Here.k, IF Here.k = "goto" THEN Here.b ELSE 0), pos, owed))
  /\ UNCHANGED events /\ Keep

ProgFirst ==
  /\ Before({"setfirst", "unlessfirst"})
  /\ IF Here.k = "setfirst"
       THEN /\ first' = IF Here.v THEN first \cup {Here.b} ELSE first \ {Here.b}
            /\ pos' = Following(pos) /\ UNCHANGED <<atTest, owed, answer>>
       ELSE Moves(IF Here.b \in first THEN Following(pos) ELSE Into(pos, 1))
  /\ UNCHANGED events /\ Keep

(* The end of an arm.                                                      *)
ProgEnd ==
  /\ ProgTurn /\ Event.e # "raise" /\ ~atTest /\ AtEnd(pos)
  /\ Leaves(Completion("normal", 0)) /\ Keep

Done ==
  /\ answer # "running" \/ (status = "stopped" /\ events = <<>>)
  /\ UNCHANGED allVars

-----------------------------------------------------------------------------
ExecInit ==
  /\ Init /\ StructInit
  /\ events = <<>> /\ pos = <<1>> /\ atTest = FALSE /\ owed = <<>> /\ first = {}
  /\ answer = "running"

Recover == StructNext /\ UNCHANGED <<buildVars, vmVars, progVars>>
BuildGraph == Build /\ UNCHANGED <<structVars, progVars>>

VmNext == VmLoad \/ VmAdvance \/ VmJump \/ VmBranch \/ VmEnterTry \/ VmLeave \/ VmRaise
            \/ VmReraise \/ VmStop
ProgNext == ProgInterrupted \/ ProgBody \/ ProgCopy \/ ProgExit \/ ProgTest \/ ProgLoopTest
              \/ ProgEnter \/ ProgPass \/ ProgTransfer \/ ProgFirst \/ ProgEnd

ExecNext == BuildGraph \/ Recover \/ VmNext \/ ProgNext \/ Done

ExecSpec == ExecInit /\ [][ExecNext]_allVars /\ WF_allVars(ProgNext)

-----------------------------------------------------------------------------

(* The recovered program does what the method does: the same statements,   *)
(* conditions and phi copies, in the same order, on every path.            *)
ProgramSimulatesMethod == answer # "wrong"

(* Every goto has one label to go to, wherever the walk emitted the target *)
(* of a nonlocal ENDTRY and whatever the cleanup removed.                  *)
LabelsResolve ==
  phase = "done" =>
    \A n \in Nodes(ir) : n.k = "goto" => Cardinality(LabelPaths(ir, n.b)) = 1

(* The walk over the blocks returns: no chain of loop headers leads back   *)
(* to one it has passed.                                                   *)
StructureReturns == \A n \in Nodes(ir) : n.k # "diverge"

(* The program answers everything the method does: no loop it recovered    *)
(* spins without doing anything.                                           *)
ProgramAnswers == events # <<>> ~> (events = <<>> \/ answer # "running")
=============================================================================
