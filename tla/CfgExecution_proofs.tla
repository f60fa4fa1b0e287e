------------------------ MODULE CfgExecution_proofs ------------------------
(***************************************************************************)
(* The control-flow graph covers what the VM does, for every method:       *)
(* proofs of the properties of CfgExecution.                               *)
(***************************************************************************)
EXTENDS CfgExecution, NaturalFacts, SequenceTheorems

Method == {m \in Seq(Instruction) : m # <<>>}

-----------------------------------------------------------------------------
(***************************************************************************)
(* Blocks                                                                  *)
(***************************************************************************)

LEMMA MaxIsGreatest ==
    ASSUME NEW S, S \subseteq Nat, IsFiniteSet(S), S # {}
    PROVE  Max(S) \in S /\ \A x \in S : x <= Max(S)
<1>1. \E x \in S : \A y \in S : x >= y
    BY GreatestNatural
<1>2. QED
    BY <1>1 DEF Max

LEMMA MinIsLeast ==
    ASSUME NEW S, S \subseteq Nat, S # {}
    PROVE  Min(S) \in S /\ \A x \in S : Min(S) <= x
<1>1. \E x \in S : \A y \in S : x <= y
    BY LeastNatural
<1>2. QED
    BY <1>1 DEF Min

\* Where blocks start: at the first instruction, behind every instruction that
\* ends one, and at every target.
LEMMA LeaderFacts ==
    ASSUME NEW m \in Method
    PROVE  /\ FindLeaders(m) \subseteq Offsets(m) /\ IsFiniteSet(FindLeaders(m))
           /\ 1 \in FindLeaders(m) /\ Len(m) \in Nat \ {0}
           /\ \A i \in Offsets(m) : IsOp(m, i, Enders) /\ i + 1 \in Offsets(m) =>
                  i + 1 \in FindLeaders(m)
           /\ \A i \in Offsets(m) : IsOp(m, i, Jumps) /\ JumpTarget(m, i) # None =>
                  JumpTarget(m, i) \in FindLeaders(m)
           /\ \A i \in Offsets(m) : IsOp(m, i, {"try"}) =>
                  {CatchTarget(m, i), FinallyTarget(m, i)} \subseteq FindLeaders(m) \cup {None}
<1>1. Len(m) \in Nat \ {0}
    BY DEF Method
<1>2. \A i : TargetAt(m, i) \in Offsets(m) \cup {None}
    BY DEF TargetAt
<1>3. \A i : /\ JumpTarget(m, i) \in Offsets(m) \cup {None}
             /\ CatchTarget(m, i) \in Offsets(m) \cup {None}
             /\ FinallyTarget(m, i) \in Offsets(m) \cup {None}
    BY <1>2, Zenon DEF JumpTarget, CatchTarget, FinallyTarget
<1>4. FindLeaders(m) \subseteq Offsets(m)
    <2>1. 1 \in Offsets(m)
        BY <1>1 DEF Offsets
    <2>2. QED
        BY <1>3, <2>1 DEF FindLeaders
<1>5. IsFiniteSet(FindLeaders(m))
    <2>1. 1 \in Int /\ Len(m) \in Int
        BY <1>1
    <2>2. IsFiniteSet(Offsets(m))
        BY <2>1, FS_Interval, Zenon DEF Offsets
    <2>3. QED
        BY <1>4, <2>2, FS_Subset, Zenon
<1>6. QED
    BY <1>1, <1>4, <1>5 DEF FindLeaders

LEMMA BlockOfFacts ==
    ASSUME NEW ls, \A l \in ls : l \in Nat, 1 \in ls, NEW i \in Nat, i >= 1
    PROVE  /\ BlockOf(ls, i) \in ls /\ BlockOf(ls, i) <= i
           /\ \A l \in ls : l <= i => l <= BlockOf(ls, i)
<1> DEFINE S == {l \in ls : l <= i}
<1>1. S \subseteq 0..i /\ S \subseteq Nat /\ 1 \in S
    OBVIOUS
<1>2. IsFiniteSet(S)
    <2>1. 0 \in Int /\ i \in Int
        OBVIOUS
    <2> HIDE DEF S
    <2>2. QED BY <1>1, <2>1, FS_Interval, FS_Subset, Zenon
<1>3. Max(S) \in S /\ \A x \in S : x <= Max(S)
    <2> HIDE DEF S
    <2>1. QED BY <1>1, <1>2, MaxIsGreatest
<1>4. QED
    BY <1>3 DEF BlockOf

LEMMA BlockOfLeader ==
    ASSUME NEW ls, \A l \in ls : l \in Nat, 1 \in ls, NEW b \in ls, b >= 1
    PROVE  BlockOf(ls, b) = b
<1>1. /\ BlockOf(ls, b) \in ls /\ BlockOf(ls, b) <= b
      /\ \A l \in ls : l <= b => l <= BlockOf(ls, b)
    BY BlockOfFacts
<1>2. QED
    BY <1>1

\* The facts about a method that the lemmas on blocks share.
LEMMA LeaderOffsets ==
    ASSUME NEW m \in Method
    PROVE  /\ Len(m) \in Nat \ {0} /\ 1 \in FindLeaders(m)
           /\ \A l \in FindLeaders(m) : l \in Nat /\ l >= 1 /\ l <= Len(m)
    BY LeaderFacts DEF Offsets

\* An instruction is the last of its block when a leader, or nothing, follows.
LEMMA EndOfBlock ==
    ASSUME NEW m \in Method, NEW i \in Offsets(m),
           i + 1 \in FindLeaders(m) \/ i = Len(m)
    PROVE  LastOf(m, FindLeaders(m), BlockOf(FindLeaders(m), i)) = i
<1> DEFINE ls == FindLeaders(m)
           b == BlockOf(ls, i)
           S == {l \in ls : l > b} \cup {EndOffset(m)}
<1>1. /\ Len(m) \in Nat \ {0} /\ 1 \in ls
      /\ \A l \in ls : l \in Nat /\ l >= 1 /\ l <= Len(m)
    BY LeaderOffsets
<1>2. i \in Nat /\ i >= 1 /\ i <= Len(m)
    BY <1>1 DEF Offsets
<1> HIDE DEF ls
<1>3. b \in ls /\ b <= i /\ \A l \in ls : l <= i => l <= b
    BY <1>1, <1>2, BlockOfFacts
<1> HIDE DEF b
<1>4. \A x \in S : x \in Nat /\ x >= i + 1
    BY <1>1, <1>2, <1>3 DEF EndOffset
<1>5. i + 1 \in S
    BY <1>1, <1>2, <1>3 DEF EndOffset, ls
<1>6. Min(S) = i + 1
    <2> HIDE DEF S
    <2>1. S \subseteq Nat /\ S # {}
        BY <1>4, <1>5
    <2>2. Min(S) \in S /\ \A x \in S : Min(S) <= x
        BY <2>1, MinIsLeast
    <2>3. QED
        BY <1>2, <1>4, <1>5, <2>2
<1>7. LastOf(m, ls, b) = Min(S) - 1
    BY DEF LastOf
<1>8. QED
    BY <1>2, <1>6, <1>7 DEF ls, b

\* The last instruction of a block lies in the block.
LEMMA LastOfBlock ==
    ASSUME NEW m \in Method, NEW b \in FindLeaders(m)
    PROVE  LastOf(m, FindLeaders(m), b) \in Offsets(m)
<1> DEFINE ls == FindLeaders(m)
           S == {l \in ls : l > b} \cup {EndOffset(m)}
<1>1. /\ Len(m) \in Nat \ {0}
      /\ \A l \in ls : l \in Nat /\ l >= 1 /\ l <= Len(m)
    BY LeaderOffsets
<1>2. \A x \in S : x \in Nat /\ x >= 2 /\ x <= Len(m) + 1
    BY <1>1 DEF EndOffset
<1>3. Min(S) \in S
    <2>1. S \subseteq Nat /\ S # {}
        <3>1. EndOffset(m) \in S
            OBVIOUS
        <3>2. QED
            <4> HIDE DEF S
            <4>1. QED BY <1>2, <3>1
    <2> HIDE DEF S
    <2>2. QED
        BY <2>1, MinIsLeast
<1>4. LastOf(m, ls, b) = Min(S) - 1
    BY DEF LastOf
<1> HIDE DEF S
<1>5. QED
    BY <1>1, <1>2, <1>3, <1>4 DEF Offsets

\* Between two leaders the block stays the same.
LEMMA SameBlock ==
    ASSUME NEW m \in Method, NEW i \in Offsets(m), i + 1 \in Offsets(m),
           i + 1 \notin FindLeaders(m)
    PROVE  BlockOf(FindLeaders(m), i + 1) = BlockOf(FindLeaders(m), i)
<1> DEFINE ls == FindLeaders(m)
<1>1. /\ Len(m) \in Nat \ {0} /\ 1 \in ls
      /\ \A l \in ls : l \in Nat /\ l >= 1 /\ l <= Len(m)
    BY LeaderOffsets
<1>2. i \in Nat /\ i >= 1 /\ i <= Len(m)
    BY <1>1 DEF Offsets
<1> DEFINE b == BlockOf(ls, i)
           c == BlockOf(ls, i + 1)
<1>3. i + 1 \notin ls
    OBVIOUS
<1> HIDE DEF ls
<1>4. b \in ls /\ b <= i /\ \A l \in ls : l <= i => l <= b
    BY <1>1, <1>2, BlockOfFacts
<1>5. c \in ls /\ c <= i + 1 /\ \A l \in ls : l <= i + 1 => l <= c
    <2>1. i + 1 \in Nat /\ i + 1 >= 1
        BY <1>2
    <2>2. QED
        BY <1>1, <2>1, BlockOfFacts
<1>6. b = c
    <2> HIDE DEF b, c
    <2>1. c # i + 1 /\ c <= i
        BY <1>1, <1>2, <1>3, <1>5
    <2>2. c <= b /\ b <= c
        BY <1>1, <1>2, <1>4, <1>5, <2>1
    <2>3. QED
        BY <1>1, <1>4, <1>5, <2>2
<1>7. QED
    BY <1>6 DEF ls

-----------------------------------------------------------------------------
(***************************************************************************)
(* The graph CfgBuilder::build makes of a method                           *)
(***************************************************************************)

Owners(m) == EndtryOwners(m, EndfinallyOffsets(m))

ComputedTerminators(m) ==
    [b \in FindLeaders(m) |-> ComputeTerminator(m, FindLeaders(m), b)]

Terminators(m) == FinallyRouting(m, FindLeaders(m), ComputedTerminators(m))

GraphEdges(m) == UNION {EdgesOf(b, Terminators(m)[b]) : b \in FindLeaders(m)}

\* The regions an ENDFINALLY at i closes.
ClosedAt(m, i) ==
    {r \in Regions(m) :
        /\ EndfinallyOffsets(m)[r] = i
        /\ ~ /\ NormalContinuations(m, FindLeaders(m), r, Owners(m)) = {}
             /\ HasSelfContinuation(m, r, Owners(m))}

LEMMA TerminatorCases ==
    ASSUME NEW m \in Method, NEW b \in FindLeaders(m)
    PROVE  LET ls == FindLeaders(m)
               i == LastOf(m, ls, b)
           IN  Terminators(m)[b] =
                 CASE i \in RoutedEndtries(m) /\ Owners(m)[i] # None ->
                        RouteEndtry(m, ls, i, Owners(m)[i], Owners(m), EndfinallyOffsets(m))
                   [] IsOp(m, i, {"endfinally"}) /\ ClosedAt(m, i) # {} ->
                        [kind |-> "EndFinally", normal_continuations |->
                            NormalContinuations(m, ls, Max(ClosedAt(m, i)), Owners(m))]
                   [] OTHER -> ComputeTerminator(m, ls, b)
<1>1. ComputedTerminators(m)[b] = ComputeTerminator(m, FindLeaders(m), b)
    BY DEF ComputedTerminators
<1>2. QED
    BY <1>1 DEF Terminators, FinallyRouting, ClosedAt, Owners

\* Only ENDTRY and ENDFINALLY are routed.
LEMMA UnroutedTerminator ==
    ASSUME NEW m \in Method, NEW b \in FindLeaders(m),
           m[LastOf(m, FindLeaders(m), b)].op \notin {"endtry", "endfinally"}
    PROVE  Terminators(m)[b] = ComputeTerminator(m, FindLeaders(m), b)
<1> DEFINE i == LastOf(m, FindLeaders(m), b)
<1>1. i \notin RoutedEndtries(m) /\ ~IsOp(m, i, {"endfinally"})
    BY DEF RoutedEndtries, Endtries, IsOp
<1>2. QED
    BY <1>1, TerminatorCases

LEMMA OwnedEndtry ==
    ASSUME NEW m \in Method, NEW b \in FindLeaders(m),
           NEW i, i = LastOf(m, FindLeaders(m), b), i \in RoutedEndtries(m),
           NEW r, r = Owners(m)[i], r # None
    PROVE  Terminators(m)[b] =
               RouteEndtry(m, FindLeaders(m), i, r, Owners(m), EndfinallyOffsets(m))
<1>1. ~IsOp(m, i, {"endfinally"})
    BY DEF RoutedEndtries, Endtries, IsOp
<1>2. QED
    BY <1>1, TerminatorCases

LEMMA ClosingEndfinally ==
    ASSUME NEW m \in Method, NEW b \in FindLeaders(m),
           NEW i, i = LastOf(m, FindLeaders(m), b), IsOp(m, i, {"endfinally"}),
           ClosedAt(m, i) # {}
    PROVE  Terminators(m)[b] =
               [kind |-> "EndFinally", normal_continuations |->
                   NormalContinuations(m, FindLeaders(m), Max(ClosedAt(m, i)), Owners(m))]
<1>1. i \notin RoutedEndtries(m)
    BY DEF RoutedEndtries, Endtries, IsOp
<1>2. QED
    BY <1>1, TerminatorCases

\* Every target of a terminator is a block.
TargetsIn(ls, t) ==
    /\ t.kind \in {"Fallthrough", "Jump"} => t.target \in ls
    /\ t.kind = "Branch" => t.then_target \in ls /\ t.else_target \in ls
    /\ t.kind = "TryEntry" => /\ t.body_target \in ls
                              /\ t.catch_target \in ls \cup {None}
                              /\ t.finally_target \in ls \cup {None}
    /\ t.kind = "EndTry" => t.continuation \in ls
    /\ t.kind = "EndTryFinally" => t.finally_target \in ls
    /\ t.kind = "EndFinally" => \A c \in t.normal_continuations : c \in ls

LEMMA TargetFacts ==
    ASSUME NEW m \in Method
    PROVE  /\ \A o \in Offsets(m) : BlockOf(FindLeaders(m), o) \in FindLeaders(m)
           /\ \A o \in Offsets(m) : BlockOf(FindLeaders(m), o + 1) \in FindLeaders(m)
           /\ \A i : /\ JumpTarget(m, i) \in Offsets(m) \cup {None}
                     /\ CatchTarget(m, i) \in Offsets(m) \cup {None}
                     /\ FinallyTarget(m, i) \in Offsets(m) \cup {None}
           /\ \A o \in Offsets(m) : o # None /\ o \in Nat
<1> DEFINE ls == FindLeaders(m)
<1>1. /\ Len(m) \in Nat \ {0} /\ 1 \in ls
      /\ \A l \in ls : l \in Nat
    BY LeaderOffsets
<1>2. \A o \in Offsets(m) : /\ o \in Nat /\ o >= 1
                            /\ o + 1 \in Nat /\ o + 1 >= 1
    BY <1>1 DEF Offsets
<1>3. \A o \in Offsets(m) : BlockOf(ls, o) \in ls /\ BlockOf(ls, o + 1) \in ls
    <2> HIDE DEF ls
    <2>1. QED BY <1>1, <1>2, BlockOfFacts
<1>4. \A i : TargetAt(m, i) \in Offsets(m) \cup {None}
    BY DEF TargetAt
<1>5. \A i : /\ JumpTarget(m, i) \in Offsets(m) \cup {None}
             /\ CatchTarget(m, i) \in Offsets(m) \cup {None}
             /\ FinallyTarget(m, i) \in Offsets(m) \cup {None}
    BY <1>4, Zenon DEF JumpTarget, CatchTarget, FinallyTarget
<1>6. \A o \in Offsets(m) : o # None
    BY <1>2, NoneAssumption
<1>7. QED
    BY <1>2, <1>3, <1>5, <1>6

\* compute_terminator by the last instruction of the block.
LEMMA ComputedCases ==
    ASSUME NEW m, NEW ls, NEW b, NEW i, i = LastOf(m, ls, b)
    PROVE  LET t == ComputeTerminator(m, ls, b)
               target == JumpTarget(m, i)
           IN  /\ m[i].op \in Jumps /\ target = None => t = Unknown
               /\ m[i].op = "jmp" /\ target # None =>
                    t = [kind |-> "Jump", target |-> BlockOf(ls, target)]
               /\ m[i].op = "endtry" /\ target # None =>
                    t = [kind |-> "EndTry", nonlocal |-> FALSE,
                         continuation |-> BlockOf(ls, target)]
               /\ m[i].op = "jmpif" /\ target # None =>
                    t = BranchTo(BlockOf(ls, target), BlockOf(ls, i + 1))
               /\ m[i].op = "jmpifnot" /\ target # None =>
                    t = BranchTo(BlockOf(ls, i + 1), BlockOf(ls, target))
               /\ m[i].op = "try" =>
                    t = [kind |-> "TryEntry", body_target |-> BlockOf(ls, i + 1),
                         catch_target |-> BlockOfTarget(ls, CatchTarget(m, i)),
                         finally_target |-> BlockOfTarget(ls, FinallyTarget(m, i))]
               /\ m[i].op = "plain" /\ i + 1 \in Offsets(m) =>
                    t = [kind |-> "Fallthrough", target |-> BlockOf(ls, i + 1)]
               /\ m[i].op = "plain" /\ i + 1 \notin Offsets(m) => t = Unknown
               /\ m[i].op \in {"noreturn", "ret", "throw", "abort", "endfinally"} =>
                    t.kind \in {"NoReturnCall", "Return", "Throw", "Abort", "Unknown"}
<1> DEFINE target == JumpTarget(m, i)
<1> HIDE DEF target
<1>1. ASSUME m[i].op \in Jumps PROVE
        ComputeTerminator(m, ls, b) =
          IF target = None THEN Unknown
          ELSE CASE m[i].op = "jmp" -> [kind |-> "Jump", target |-> BlockOf(ls, target)]
                 [] m[i].op = "endtry" -> [kind |-> "EndTry", nonlocal |-> FALSE,
                                           continuation |-> BlockOf(ls, target)]
                 [] m[i].op = "jmpifnot" -> BranchTo(BlockOf(ls, i + 1), BlockOf(ls, target))
                 [] m[i].op = "jmpif" -> BranchTo(BlockOf(ls, target), BlockOf(ls, i + 1))
    BY <1>1 DEF ComputeTerminator, NextBlock, Jumps, target
<1>2. ASSUME m[i].op = "try" PROVE
        ComputeTerminator(m, ls, b) =
          [kind |-> "TryEntry", body_target |-> BlockOf(ls, i + 1),
           catch_target |-> BlockOfTarget(ls, CatchTarget(m, i)),
           finally_target |-> BlockOfTarget(ls, FinallyTarget(m, i))]
    BY <1>2 DEF ComputeTerminator, NextBlock, Jumps
<1>3. ASSUME m[i].op = "plain" PROVE
        ComputeTerminator(m, ls, b) =
          IF i + 1 \in Offsets(m) THEN [kind |-> "Fallthrough", target |-> BlockOf(ls, i + 1)]
                                  ELSE Unknown
    BY <1>3 DEF ComputeTerminator, NextBlock, Jumps
<1>4. ASSUME m[i].op \in {"noreturn", "ret", "throw", "abort", "endfinally"} PROVE
        ComputeTerminator(m, ls, b).kind \in
            {"NoReturnCall", "Return", "Throw", "Abort", "Unknown"}
    BY <1>4 DEF ComputeTerminator, Jumps, Unknown
<1>5. QED
    BY <1>1, <1>2, <1>3, <1>4 DEF Jumps, target

LEMMA OpAt ==
    ASSUME NEW m \in Method, NEW i \in Offsets(m)
    PROVE  /\ m[i].op \in Op
           /\ m[i].delta \in Int /\ m[i].catch \in Int /\ m[i].finally \in Int
<1>1. m \in Seq(Instruction) /\ i \in 1..Len(m)
    BY DEF Method, Offsets
<1>2. m[i] \in Instruction
    BY <1>1
<1>3. QED
    BY <1>2 DEF Instruction

LEMMA ComputedTargets ==
    ASSUME NEW m \in Method, NEW b \in FindLeaders(m)
    PROVE  TargetsIn(FindLeaders(m), ComputeTerminator(m, FindLeaders(m), b))
<1> DEFINE ls == FindLeaders(m)
           i == LastOf(m, ls, b)
           t == ComputeTerminator(m, ls, b)
           target == JumpTarget(m, i)
<1>1. i \in Offsets(m)
    BY LastOfBlock
<1>2. m[i].op \in Op
    BY <1>1, OpAt
<1>3. /\ target # None => BlockOf(ls, target) \in ls
      /\ BlockOf(ls, i + 1) \in ls
      /\ BlockOfTarget(ls, CatchTarget(m, i)) \in ls \cup {None}
      /\ BlockOfTarget(ls, FinallyTarget(m, i)) \in ls \cup {None}
    BY <1>1, TargetFacts DEF BlockOfTarget
<1>4. /\ m[i].op \in Jumps /\ target = None => t = Unknown
      /\ m[i].op = "jmp" /\ target # None =>
           t = [kind |-> "Jump", target |-> BlockOf(ls, target)]
      /\ m[i].op = "endtry" /\ target # None =>
           t = [kind |-> "EndTry", nonlocal |-> FALSE,
                continuation |-> BlockOf(ls, target)]
      /\ m[i].op = "jmpif" /\ target # None =>
           t = BranchTo(BlockOf(ls, target), BlockOf(ls, i + 1))
      /\ m[i].op = "jmpifnot" /\ target # None =>
           t = BranchTo(BlockOf(ls, i + 1), BlockOf(ls, target))
      /\ m[i].op = "try" =>
           t = [kind |-> "TryEntry", body_target |-> BlockOf(ls, i + 1),
                catch_target |-> BlockOfTarget(ls, CatchTarget(m, i)),
                finally_target |-> BlockOfTarget(ls, FinallyTarget(m, i))]
      /\ m[i].op = "plain" /\ i + 1 \in Offsets(m) =>
           t = [kind |-> "Fallthrough", target |-> BlockOf(ls, i + 1)]
      /\ m[i].op = "plain" /\ i + 1 \notin Offsets(m) => t = Unknown
      /\ m[i].op \in {"noreturn", "ret", "throw", "abort", "endfinally"} =>
           t.kind \in {"NoReturnCall", "Return", "Throw", "Abort", "Unknown"}
    BY ComputedCases
<1>5. TargetsIn(ls, t)
    <2> HIDE DEF ls, i, t, target
    <2>1. CASE m[i].op \in Jumps /\ target = None
        BY <1>4, <2>1 DEF TargetsIn, Unknown
    <2>2. CASE m[i].op \in {"jmp", "endtry"} /\ target # None
        BY <1>3, <1>4, <2>2 DEF TargetsIn
    <2>3. CASE m[i].op \in {"jmpif", "jmpifnot"} /\ target # None
        BY <1>3, <1>4, <2>3 DEF TargetsIn, BranchTo
    <2>4. CASE m[i].op = "try"
        BY <1>3, <1>4, <2>4 DEF TargetsIn
    <2>5. CASE m[i].op = "plain"
        BY <1>3, <1>4, <2>5 DEF TargetsIn, Unknown
    <2>6. CASE m[i].op \in {"noreturn", "ret", "throw", "abort", "endfinally"}
        BY <1>4, <2>6 DEF TargetsIn
    <2>7. QED
        BY <1>2, <2>1, <2>2, <2>3, <2>4, <2>5, <2>6 DEF Op, Jumps
<1>6. QED
    BY <1>5

LEMMA TerminatorTargets ==
    ASSUME NEW m \in Method, NEW b \in FindLeaders(m)
    PROVE  TargetsIn(FindLeaders(m), Terminators(m)[b])
<1> DEFINE ls == FindLeaders(m)
           i == LastOf(m, ls, b)
           t == Terminators(m)[b]
<1>1. /\ \A o \in Offsets(m) : BlockOf(ls, o) \in ls
      /\ \A j : JumpTarget(m, j) \in Offsets(m) \cup {None}
      /\ \A j : FinallyTarget(m, j) \in Offsets(m) \cup {None}
    BY TargetFacts
<1>2. \A j \in RoutedEndtries(m) : BlockOf(ls, JumpTarget(m, j)) \in ls
    <2>1. \A j \in RoutedEndtries(m) : JumpTarget(m, j) \in Offsets(m)
        BY <1>1 DEF RoutedEndtries
    <2>2. QED
        BY <1>1, <2>1
<1> HIDE DEF ls
<1>3. CASE i \in RoutedEndtries(m) /\ Owners(m)[i] # None
    <2> DEFINE r == Owners(m)[i]
    <2>1. t = RouteEndtry(m, ls, i, r, Owners(m), EndfinallyOffsets(m))
        BY <1>3, OwnedEndtry DEF ls
    <2>2. CASE FinallyTarget(m, r) = None
        <3>1. t.kind = "EndTry" /\ t.continuation = BlockOf(ls, JumpTarget(m, i))
            BY <2>1, <2>2 DEF RouteEndtry
        <3>2. QED
            BY <1>2, <1>3, <3>1 DEF TargetsIn, ls
    <2>3. CASE FinallyTarget(m, r) # None
        <3>1. t.kind = "EndTryFinally" /\ t.finally_target = BlockOf(ls, FinallyTarget(m, r))
            BY <2>1, <2>3 DEF RouteEndtry
        <3>2. FinallyTarget(m, r) \in Offsets(m)
            BY <1>1, <2>3
        <3>3. t.finally_target \in ls
            BY <1>1, <3>1, <3>2
        <3>4. QED
            BY <3>1, <3>3 DEF TargetsIn, ls
    <2>4. QED
        BY <2>2, <2>3
<1>4. CASE /\ ~(i \in RoutedEndtries(m) /\ Owners(m)[i] # None)
           /\ IsOp(m, i, {"endfinally"}) /\ ClosedAt(m, i) # {}
    <2>1. t = [kind |-> "EndFinally", normal_continuations |->
                    NormalContinuations(m, ls, Max(ClosedAt(m, i)), Owners(m))]
        BY <1>4, TerminatorCases DEF ls
    <2>2. \A c \in t.normal_continuations : c \in ls
        BY <1>2, <2>1 DEF NormalContinuations
    <2>3. QED
        BY <2>1, <2>2 DEF TargetsIn, ls
<1>5. CASE /\ ~(i \in RoutedEndtries(m) /\ Owners(m)[i] # None)
           /\ ~(IsOp(m, i, {"endfinally"}) /\ ClosedAt(m, i) # {})
    <2>1. t = ComputeTerminator(m, ls, b)
        BY <1>5, TerminatorCases DEF ls
    <2>2. QED
        BY <2>1, ComputedTargets DEF ls
<1>6. QED
    BY <1>3, <1>4, <1>5

\* An edge leads from a block to a block.
LEMMA EdgesJoinBlocks ==
    ASSUME NEW m \in Method, NEW e \in GraphEdges(m)
    PROVE  e[1] \in FindLeaders(m) /\ e[2] \in FindLeaders(m)
<1>1. PICK b \in FindLeaders(m) : e \in EdgesOf(b, Terminators(m)[b])
    BY DEF GraphEdges
<1> DEFINE ls == FindLeaders(m)
           t == Terminators(m)[b]
<1>2. TargetsIn(ls, t)
    BY TerminatorTargets
<1>3. e \in EdgesOf(b, t) /\ b \in ls
    BY <1>1
<1> HIDE DEF ls, t
<1>4. CASE t.kind = "TryEntry"
    <2>1. e \in {<<b, t.body_target, "Unconditional">>, <<b, t.catch_target, "Exception">>,
                 <<b, t.finally_target, "FinallyException">>}
        BY <1>3, <1>4 DEF EdgesOf
    <2>2. e \notin {<<b, None, "Exception">>, <<b, None, "FinallyException">>}
        BY <1>3, <1>4 DEF EdgesOf
    <2>3. QED
        BY <1>2, <1>3, <1>4, <2>1, <2>2 DEF TargetsIn, ls
<1>5. CASE t.kind \in {"Fallthrough", "Jump", "Branch", "EndTry", "EndTryFinally"}
    BY <1>2, <1>3, <1>5 DEF EdgesOf, TargetsIn, ls
<1>6. CASE t.kind = "EndFinally"
    <2>1. PICK c \in t.normal_continuations : e = <<b, c, "FinallyContinuation">>
        BY <1>3, <1>6 DEF EdgesOf
    <2>2. QED
        BY <1>2, <1>3, <1>6, <2>1 DEF TargetsIn, ls
<1>7. CASE t.kind \notin {"Fallthrough", "Jump", "Branch", "TryEntry", "EndTry",
                          "EndTryFinally", "EndFinally"}
    BY <1>3, <1>7 DEF EdgesOf
<1>8. QED
    BY <1>4, <1>5, <1>6, <1>7

-----------------------------------------------------------------------------
(***************************************************************************)
(* Reachable blocks                                                        *)
(***************************************************************************)

Grown(es, S) == S \cup EdgeTargets(es, S)

\* f lists what is reached in up to n steps.
ListsReached(es, n, f) ==
    f = [k \in 0..n |-> IF k = 0 THEN {1} ELSE Grown(es, f[k - 1])]

LEMMA ReachedListExists ==
    ASSUME NEW es
    PROVE  \A n \in Nat : \E f : ListsReached(es, n, f)
<1> DEFINE S == {n \in Nat : \E f : ListsReached(es, n, f)}
<1>1. 0 \in S
    <2> DEFINE f == [k \in 0..0 |-> {1}]
    <2>1. ListsReached(es, 0, f)
        BY DEF ListsReached
    <2>2. QED
        BY <2>1
<1>2. ASSUME NEW n \in Nat, n \in S PROVE n + 1 \in S
    <2>1. PICK f : ListsReached(es, n, f)
        BY <1>2
    <2> DEFINE g == [k \in 0..(n + 1) |->
                        IF k = 0 THEN {1} ELSE Grown(es, f[k - 1])]
    <2>2. ASSUME NEW k \in 0..n PROVE g[k] = f[k]
        <3>1. f[k] = IF k = 0 THEN {1} ELSE Grown(es, f[k - 1])
            BY <2>1 DEF ListsReached
        <3>2. k \in 0..(n + 1)
            OBVIOUS
        <3>3. g[k] = IF k = 0 THEN {1} ELSE Grown(es, f[k - 1])
            BY <3>2
        <3>4. QED
            BY <3>1, <3>3
    <2>3. ASSUME NEW k \in 0..(n + 1), k # 0 PROVE g[k - 1] = f[k - 1]
        <3> HIDE DEF g
        <3>1. k - 1 \in 0..n
            BY <2>3
        <3>2. QED
            BY <2>2, <3>1
    <2>4. g = [k \in 0..(n + 1) |->
                    IF k = 0 THEN {1} ELSE Grown(es, g[k - 1])]
        BY <2>3
    <2> HIDE DEF g
    <2>5. ListsReached(es, n + 1, g)
        BY <2>4 DEF ListsReached
    <2>6. QED
        BY <2>5
<1>3. Nat \subseteq S
    <2> HIDE DEF S
    <2>1. QED BY <1>1, <1>2, SetInduction
<1>4. QED
    BY <1>3

LEMMA ReachedStart ==
    ASSUME NEW es, NEW n \in Nat, NEW f, ListsReached(es, n, f)
    PROVE  f[0] = {1}
    BY DEF ListsReached

LEMMA ReachedStep ==
    ASSUME NEW es, NEW n \in Nat, NEW f, ListsReached(es, n, f),
           NEW k \in 0..(n - 1)
    PROVE  f[k + 1] = Grown(es, f[k])
<1>1. k + 1 \in 0..n /\ k + 1 # 0 /\ (k + 1) - 1 = k
    OBVIOUS
<1>2. QED
    BY <1>1 DEF ListsReached

LEMMA ReachedInBlocks ==
    ASSUME NEW ls, NEW es, 1 \in ls, \A e \in es : e[2] \in ls,
           NEW n \in Nat, NEW f, ListsReached(es, n, f)
    PROVE  \A k \in 0..n : f[k] \subseteq ls
<1> DEFINE S == {k \in 0..n : f[k] \subseteq ls}
<1>1. 0 \in S
    <2>1. f[0] = {1}
        BY ReachedStart
    <2>2. QED
        BY <2>1
<1>2. ASSUME NEW k \in 0..(n - 1), k \in S PROVE k + 1 \in S
    <2>1. f[k + 1] = Grown(es, f[k])
        BY ReachedStep
    <2>2. f[k] \subseteq ls
        BY <1>2
    <2>3. Grown(es, f[k]) \subseteq ls
        BY <2>2 DEF Grown, EdgeTargets
    <2>4. QED
        BY <2>1, <2>3
<1>3. 0..n \subseteq S
    <2> HIDE DEF S
    <2>1. QED BY <1>1, <1>2, BoundedInduction
<1>4. QED
    BY <1>3

\* ReachableBlocks holds the first block and the target of every edge from one
\* of its blocks.
LEMMA ReachableClosed ==
    ASSUME NEW ls, IsFiniteSet(ls), 1 \in ls, NEW es, \A e \in es : e[2] \in ls
    PROVE  /\ 1 \in ReachableBlocks(ls, es)
           /\ \A e \in es : e[1] \in ReachableBlocks(ls, es) =>
                            e[2] \in ReachableBlocks(ls, es)
<1> DEFINE N == Cardinality(ls)
           R == ReachableBlocks(ls, es)
           f == CHOOSE g : ListsReached(es, N, g)
<1>1. N \in Nat
    BY FS_CardinalityType
<1>2. ListsReached(es, N, f)
    BY <1>1, ReachedListExists
<1>3. R = f[N]
    BY DEF ReachableBlocks, ListsReached, Grown
<1> HIDE DEF N, f, R
<1>4. /\ f[0] = {1}
      /\ \A k \in 0..(N - 1) : f[k + 1] = Grown(es, f[k])
      /\ \A k \in 0..N : f[k] \subseteq ls
    <2>1. f[0] = {1}
        BY <1>1, <1>2, ReachedStart
    <2>2. \A k \in 0..(N - 1) : f[k + 1] = Grown(es, f[k])
        BY <1>1, <1>2, ReachedStep
    <2>3. \A k \in 0..N : f[k] \subseteq ls
        BY <1>1, <1>2, ReachedInBlocks
    <2>4. QED
        BY <2>1, <2>2, <2>3
<1> DEFINE g == [k \in 0..(N + 1) |-> IF k = N + 1 THEN Grown(es, f[N]) ELSE f[k]]
<1>5. /\ g[N] = f[N] /\ g[0] = {1}
      /\ \A k \in 0..N : g[k + 1] = Grown(es, g[k])
    BY <1>1, <1>4
<1>6. g \in [0..(N + 1) -> SUBSET ls]
    <2>1. Grown(es, f[N]) \subseteq ls
        BY <1>1, <1>4 DEF Grown, EdgeTargets
    <2>2. \A k \in 0..(N + 1) : k # N + 1 => k \in 0..N
        BY <1>1
    <2>3. QED
        BY <1>4, <2>1, <2>2
<1> HIDE DEF g
<1>7. \A k \in 0..N : g[k] \subseteq g[k + 1]
    BY <1>5 DEF Grown
<1>8. ASSUME NEW k \in 0..(N - 1), g[k] = g[k + 1] PROVE g[k + 1] = g[k + 2]
    <2>1. k \in 0..N /\ k + 1 \in 0..N /\ (k + 1) + 1 = k + 2
        BY <1>1
    <2>2. g[k + 1] = Grown(es, g[k]) /\ g[k + 2] = Grown(es, g[k + 1])
        BY <1>5, <2>1
    <2>3. QED
        BY <1>8, <2>2
<1>9. g[N] = g[N + 1]
    BY <1>6, <1>7, <1>8, GrowingSetSettles DEF N
<1>10. R = Grown(es, R)
    BY <1>1, <1>3, <1>5, <1>9
<1>11. 1 \in R
    <2> DEFINE S == {k \in 0..N : 1 \in g[k]}
    <2>1. 0 \in S
        BY <1>1, <1>5
    <2>2. ASSUME NEW k \in 0..(N - 1), k \in S PROVE k + 1 \in S
        BY <1>1, <1>7, <2>2
    <2>3. 0..N \subseteq S
        <3> HIDE DEF S
        <3>1. QED BY <1>1, <2>1, <2>2, BoundedInduction
    <2>4. QED
        BY <1>1, <1>3, <1>5, <2>3
<1>12. QED
    BY <1>10, <1>11 DEF R, Grown, EdgeTargets

-----------------------------------------------------------------------------
(***************************************************************************)
(* The edges of an instruction                                             *)
(***************************************************************************)

LEMMA EnderEndsBlock ==
    ASSUME NEW m \in Method, NEW i \in Offsets(m), IsOp(m, i, Enders)
    PROVE  LastOf(m, FindLeaders(m), BlockOf(FindLeaders(m), i)) = i
<1>1. i + 1 \in Offsets(m) => i + 1 \in FindLeaders(m)
    BY LeaderFacts
<1>2. i + 1 \notin Offsets(m) => i = Len(m)
    BY LeaderOffsets DEF Offsets
<1>3. QED
    BY <1>1, <1>2, EndOfBlock

LEMMA EdgeOfBlock ==
    ASSUME NEW m \in Method, NEW b \in FindLeaders(m), NEW e,
           e \in EdgesOf(b, Terminators(m)[b])
    PROVE  e \in GraphEdges(m)
    BY DEF GraphEdges

\* A leader is the name of its block.
LEMMA LeaderIsBlock ==
    ASSUME NEW m \in Method, NEW l \in FindLeaders(m)
    PROVE  BlockOf(FindLeaders(m), l) = l
<1>1. /\ 1 \in FindLeaders(m)
      /\ \A k \in FindLeaders(m) : k \in Nat /\ k >= 1
    BY LeaderOffsets
<1> DEFINE ls == FindLeaders(m)
<1> HIDE DEF ls
<1>2. BlockOf(ls, l) = l
    BY <1>1, BlockOfLeader DEF ls
<1>3. QED
    BY <1>2 DEF ls

\* Straight on: inside the block, or to the block that starts there.
LEMMA PlainEdge ==
    ASSUME NEW m \in Method, NEW i \in Offsets(m), m[i].op = "plain",
           i + 1 \in Offsets(m)
    PROVE  LET ls == FindLeaders(m)
               b == BlockOf(ls, i)
           IN  \/ BlockOf(ls, i + 1) = b
               \/ /\ i = LastOf(m, ls, b) /\ BlockOf(ls, i + 1) = i + 1
                  /\ <<b, i + 1, "Unconditional">> \in GraphEdges(m)
<1> DEFINE ls == FindLeaders(m)
           b == BlockOf(ls, i)
<1>1. CASE i + 1 \notin ls
    BY <1>1, SameBlock
<1>2. CASE i + 1 \in ls
    <2>1. i = LastOf(m, ls, b)
        BY <1>2, EndOfBlock
    <2>2. BlockOf(ls, i + 1) = i + 1
        BY <1>2, LeaderIsBlock
    <2>3. b \in ls
        BY TargetFacts
    <2>4. ComputeTerminator(m, ls, b) = [kind |-> "Fallthrough", target |-> i + 1]
        BY <2>1, <2>2, ComputedCases
    <2>5. Terminators(m)[b] = ComputeTerminator(m, ls, b)
        BY <2>1, <2>3, UnroutedTerminator
    <2> HIDE DEF ls, b
    <2>6. <<b, i + 1, "Unconditional">> \in EdgesOf(b, Terminators(m)[b])
        BY <2>4, <2>5 DEF EdgesOf
    <2>7. <<b, i + 1, "Unconditional">> \in GraphEdges(m)
        BY <2>3, <2>6, EdgeOfBlock DEF ls
    <2>8. QED
        BY <2>1, <2>2, <2>7 DEF ls, b
<1>3. QED
    BY <1>1, <1>2

LEMMA JumpEdge ==
    ASSUME NEW m \in Method, NEW i \in Offsets(m), m[i].op = "jmp",
           i + m[i].delta \in Offsets(m)
    PROVE  LET ls == FindLeaders(m)
               b == BlockOf(ls, i)
               o == i + m[i].delta
           IN  /\ i = LastOf(m, ls, b) /\ BlockOf(ls, o) = o
               /\ <<b, o, "Unconditional">> \in GraphEdges(m)
<1> DEFINE ls == FindLeaders(m)
           b == BlockOf(ls, i)
           o == i + m[i].delta
<1>1. i = LastOf(m, ls, b)
    BY EnderEndsBlock DEF IsOp, Enders, Jumps
<1>2. JumpTarget(m, i) = o /\ o # None
    BY TargetFacts DEF JumpTarget, TargetAt
<1>3. o \in ls
    BY <1>2, LeaderFacts DEF IsOp, Jumps
<1>4. BlockOf(ls, o) = o
    BY <1>3, LeaderIsBlock
<1>5. b \in ls
    BY TargetFacts
<1>6. ComputeTerminator(m, ls, b) = [kind |-> "Jump", target |-> o]
    BY <1>1, <1>2, <1>4, ComputedCases
<1>7. Terminators(m)[b] = ComputeTerminator(m, ls, b)
    BY <1>1, <1>5, UnroutedTerminator
<1> HIDE DEF ls, b, o
<1>8. <<b, o, "Unconditional">> \in EdgesOf(b, Terminators(m)[b])
    BY <1>6, <1>7 DEF EdgesOf
<1>9. <<b, o, "Unconditional">> \in GraphEdges(m)
    BY <1>5, <1>8, EdgeOfBlock DEF ls
<1>10. QED
    BY <1>1, <1>4, <1>9 DEF ls, b, o

\* Both sides of a branch whose target is an instruction of the method; JMPIF
\* jumps when its operand is true, JMPIFNOT when it is false.
LEMMA BranchEdges ==
    ASSUME NEW m \in Method, NEW i \in Offsets(m), m[i].op \in {"jmpif", "jmpifnot"},
           i + m[i].delta \in Offsets(m), NEW cond \in BOOLEAN,
           NEW o, o = IF cond = (m[i].op = "jmpif") THEN i + m[i].delta ELSE i + 1,
           o \in Offsets(m)
    PROVE  LET ls == FindLeaders(m)
               b == BlockOf(ls, i)
           IN  /\ i = LastOf(m, ls, b) /\ BlockOf(ls, o) = o
               /\ <<b, o, IF cond THEN "ConditionalTrue" ELSE "ConditionalFalse">>
                      \in GraphEdges(m)
<1> DEFINE ls == FindLeaders(m)
           b == BlockOf(ls, i)
           target == i + m[i].delta
           kind == IF cond THEN "ConditionalTrue" ELSE "ConditionalFalse"
<1>1. i = LastOf(m, ls, b)
    BY EnderEndsBlock DEF IsOp, Enders, Jumps
<1>2. JumpTarget(m, i) = target /\ target # None
    BY TargetFacts DEF JumpTarget, TargetAt
<1>3. target \in ls
    BY <1>2, LeaderFacts DEF IsOp, Jumps
<1>4. BlockOf(ls, target) = target
    BY <1>3, LeaderIsBlock
<1>5. b \in ls
    BY TargetFacts
<1>6. i + 1 \in Offsets(m) => BlockOf(ls, i + 1) = i + 1
    BY LeaderFacts, LeaderIsBlock DEF IsOp, Enders, Jumps
<1>7. Terminators(m)[b] = ComputeTerminator(m, ls, b)
    BY <1>1, <1>5, UnroutedTerminator
<1>8. /\ m[i].op = "jmpif" => Terminators(m)[b] = BranchTo(target, BlockOf(ls, i + 1))
      /\ m[i].op = "jmpifnot" => Terminators(m)[b] = BranchTo(BlockOf(ls, i + 1), target)
    BY <1>1, <1>2, <1>4, <1>7, ComputedCases
<1> HIDE DEF ls, b, target
<1>9. /\ o = target \/ o = i + 1
      /\ BlockOf(ls, o) = o
    BY <1>4, <1>6 DEF target
<1>10. <<b, o, kind>> \in EdgesOf(b, Terminators(m)[b])
    <2>1. \A x, y : EdgesOf(b, BranchTo(x, y)) =
                        {<<b, x, "ConditionalTrue">>, <<b, y, "ConditionalFalse">>}
        BY DEF EdgesOf, BranchTo
    <2>2. i + 1 \in Offsets(m) => BlockOf(ls, i + 1) = i + 1
        BY <1>6
    <2>3. CASE m[i].op = "jmpif"
        <3>1. EdgesOf(b, Terminators(m)[b]) =
                {<<b, target, "ConditionalTrue">>, <<b, BlockOf(ls, i + 1), "ConditionalFalse">>}
            BY <1>8, <2>1, <2>3
        <3>2. o = IF cond THEN target ELSE i + 1
            BY <2>3 DEF target
        <3>3. QED
            BY <2>2, <3>1, <3>2
    <2>4. CASE m[i].op = "jmpifnot"
        <3>1. EdgesOf(b, Terminators(m)[b]) =
                {<<b, BlockOf(ls, i + 1), "ConditionalTrue">>, <<b, target, "ConditionalFalse">>}
            BY <1>8, <2>1, <2>4
        <3>2. o = IF cond THEN i + 1 ELSE target
            BY <2>4 DEF target
        <3>3. QED
            BY <2>2, <3>1, <3>2
    <2>5. QED
        BY <2>3, <2>4
<1>11. <<b, o, kind>> \in GraphEdges(m)
    BY <1>5, <1>10, EdgeOfBlock DEF ls
<1>12. QED
    BY <1>1, <1>9, <1>11 DEF ls, b

\* The edges of a TRY: into its body, and to the handlers it has.
LEMMA TryEdges ==
    ASSUME NEW m \in Method, NEW i \in Offsets(m), m[i].op = "try"
    PROVE  LET ls == FindLeaders(m)
               b == BlockOf(ls, i)
           IN  /\ i = LastOf(m, ls, b)
               /\ i + 1 \in Offsets(m) =>
                    /\ BlockOf(ls, i + 1) = i + 1
                    /\ <<b, i + 1, "Unconditional">> \in GraphEdges(m)
               /\ m[i].catch # 0 /\ i + m[i].catch \in Offsets(m) =>
                    /\ BlockOf(ls, i + m[i].catch) = i + m[i].catch
                    /\ <<b, i + m[i].catch, "Exception">> \in GraphEdges(m)
               /\ m[i].finally # 0 /\ i + m[i].finally \in Offsets(m) =>
                    /\ BlockOf(ls, i + m[i].finally) = i + m[i].finally
                    /\ <<b, i + m[i].finally, "FinallyException">> \in GraphEdges(m)
<1> DEFINE ls == FindLeaders(m)
           b == BlockOf(ls, i)
           c == CatchTarget(m, i)
           f == FinallyTarget(m, i)
           t == Terminators(m)[b]
<1>1. i = LastOf(m, ls, b)
    BY EnderEndsBlock DEF IsOp, Enders
<1>2. b \in ls
    BY TargetFacts
<1>3. t = [kind |-> "TryEntry", body_target |-> BlockOf(ls, i + 1),
           catch_target |-> BlockOfTarget(ls, c), finally_target |-> BlockOfTarget(ls, f)]
    <2>1. t = ComputeTerminator(m, ls, b)
        BY <1>1, <1>2, UnroutedTerminator
    <2>2. QED
        BY <1>1, <2>1, ComputedCases
<1>4. {c, f} \subseteq ls \cup {None}
    BY LeaderFacts DEF IsOp
<1>5. /\ i + 1 \in Offsets(m) => BlockOf(ls, i + 1) = i + 1
      /\ c # None => c \in ls /\ BlockOf(ls, c) = c
      /\ f # None => f \in ls /\ BlockOf(ls, f) = f
    BY <1>4, LeaderFacts, LeaderIsBlock DEF IsOp, Enders
<1>6. /\ m[i].catch # 0 /\ i + m[i].catch \in Offsets(m) => c = i + m[i].catch /\ c # None
      /\ m[i].finally # 0 /\ i + m[i].finally \in Offsets(m) => f = i + m[i].finally /\ f # None
    BY TargetFacts DEF CatchTarget, FinallyTarget, TargetAt
<1>7. \A l \in ls : l # None
    BY TargetFacts, LeaderFacts
<1> HIDE DEF ls, b, c, f, t
<1>8. /\ <<b, BlockOf(ls, i + 1), "Unconditional">> \in EdgesOf(b, t)
      /\ c # None => <<b, c, "Exception">> \in EdgesOf(b, t)
      /\ f # None => <<b, f, "FinallyException">> \in EdgesOf(b, t)
    <2>1. EdgesOf(b, t) =
            {<<b, t.body_target, "Unconditional">>} \cup
            ({<<b, t.catch_target, "Exception">>, <<b, t.finally_target, "FinallyException">>}
                \ {<<b, None, "Exception">>, <<b, None, "FinallyException">>})
        BY <1>3 DEF EdgesOf
    <2>2. /\ t.body_target = BlockOf(ls, i + 1)
          /\ c # None => t.catch_target = c
          /\ f # None => t.finally_target = f
        BY <1>3, <1>5 DEF BlockOfTarget
    <2>3. QED
        BY <2>1, <2>2
<1>9. /\ <<b, BlockOf(ls, i + 1), "Unconditional">> \in GraphEdges(m)
      /\ c # None => <<b, c, "Exception">> \in GraphEdges(m)
      /\ f # None => <<b, f, "FinallyException">> \in GraphEdges(m)
    BY <1>2, <1>8, EdgeOfBlock DEF ls, t
<1>10. QED
    BY <1>1, <1>5, <1>6, <1>9 DEF ls, b

\* An ENDTRY owned by a region leads into its finally block, or on to its
\* target when the region has none.
LEMMA EndtryEdge ==
    ASSUME NEW m \in Method, NEW i \in RoutedEndtries(m),
           NEW r \in Int, r = Owners(m)[i]
    PROVE  LET ls == FindLeaders(m)
               b == BlockOf(ls, i)
               target == JumpTarget(m, i)
               f == FinallyTarget(m, r)
           IN  /\ i = LastOf(m, ls, b) /\ BlockOf(ls, target) = target
               /\ Terminators(m)[b] =
                      RouteEndtry(m, ls, i, r, Owners(m), EndfinallyOffsets(m))
               /\ f = None => <<b, target, "Unconditional">> \in GraphEdges(m)
               /\ f # None => <<b, BlockOf(ls, f), "Finally">> \in GraphEdges(m)
<1> DEFINE ls == FindLeaders(m)
           b == BlockOf(ls, i)
           target == JumpTarget(m, i)
           f == FinallyTarget(m, r)
           t == Terminators(m)[b]
<1>1. i \in Offsets(m) /\ IsOp(m, i, {"endtry"}) /\ target # None
    BY DEF RoutedEndtries, Endtries
<1>2. i = LastOf(m, ls, b)
    BY <1>1, EnderEndsBlock DEF IsOp, Enders, Jumps
<1>3. b \in ls
    BY <1>1, TargetFacts
<1>4. target \in ls
    BY <1>1, LeaderFacts DEF IsOp, Jumps
<1>5. BlockOf(ls, target) = target
    BY <1>4, LeaderIsBlock
<1>6. r # None
    BY NoneAssumption
<1>7. t = RouteEndtry(m, ls, i, r, Owners(m), EndfinallyOffsets(m))
    BY <1>2, <1>3, <1>6, OwnedEndtry
<1> HIDE DEF ls, b, t
<1>8. f = None => <<b, target, "Unconditional">> \in EdgesOf(b, t)
    <2> SUFFICES ASSUME f = None PROVE <<b, target, "Unconditional">> \in EdgesOf(b, t)
        OBVIOUS
    <2>1. t.kind = "EndTry" /\ t.continuation = BlockOf(ls, target)
        BY <1>7 DEF RouteEndtry
    <2>2. EdgesOf(b, t) = {<<b, t.continuation, "Unconditional">>}
        BY <2>1 DEF EdgesOf
    <2>3. QED
        BY <1>5, <2>1, <2>2
<1>9. f # None => <<b, BlockOf(ls, f), "Finally">> \in EdgesOf(b, t)
    <2> SUFFICES ASSUME f # None PROVE <<b, BlockOf(ls, f), "Finally">> \in EdgesOf(b, t)
        OBVIOUS
    <2>1. t.kind = "EndTryFinally" /\ t.finally_target = BlockOf(ls, f)
        BY <1>7 DEF RouteEndtry
    <2>2. EdgesOf(b, t) = {<<b, t.finally_target, "Finally">>}
        BY <2>1 DEF EdgesOf
    <2>3. QED
        BY <2>1, <2>2
<1>10. \A e : e \in EdgesOf(b, t) => e \in GraphEdges(m)
    BY <1>3, EdgeOfBlock DEF ls, t
<1>11. QED
    BY <1>2, <1>5, <1>7, <1>8, <1>9, <1>10 DEF ls, b, t

\* An ENDFINALLY that closes one region resumes at the target of every ENDTRY
\* the region owns.
LEMMA EndfinallyEdge ==
    ASSUME NEW m \in Method, NEW i \in Offsets(m), IsOp(m, i, {"endfinally"}),
           NEW r \in Int, {q \in Regions(m) : EndfinallyOffsets(m)[q] = i} = {r},
           NEW v \in RoutedEndtries(m), Owners(m)[v] = r, JumpTarget(m, v) # v
    PROVE  LET ls == FindLeaders(m)
               b == BlockOf(ls, i)
               target == JumpTarget(m, v)
           IN  /\ i = LastOf(m, ls, b) /\ BlockOf(ls, target) = target
               /\ <<b, target, "FinallyContinuation">> \in GraphEdges(m)
<1> DEFINE ls == FindLeaders(m)
           b == BlockOf(ls, i)
           target == JumpTarget(m, v)
           t == Terminators(m)[b]
           resumed == NormalContinuations(m, ls, r, Owners(m))
<1>1. i = LastOf(m, ls, b)
    BY EnderEndsBlock DEF IsOp, Enders
<1>2. b \in ls
    BY TargetFacts
<1>3. BlockOf(ls, target) = target
    <2>1. v \in Offsets(m) /\ IsOp(m, v, {"endtry"}) /\ target # None
        BY DEF RoutedEndtries, Endtries
    <2>2. target \in ls
        BY <2>1, LeaderFacts DEF IsOp, Jumps
    <2>3. QED
        BY <2>2, LeaderIsBlock
<1>4. target \in resumed
    BY <1>3 DEF NormalContinuations
<1>5. ClosedAt(m, i) = {r}
    <2>1. r \in Regions(m) /\ EndfinallyOffsets(m)[r] = i
        OBVIOUS
    <2>2. r \in ClosedAt(m, i)
        BY <1>4, <2>1 DEF ClosedAt
    <2>3. ASSUME NEW q \in ClosedAt(m, i) PROVE q = r
        BY <2>3 DEF ClosedAt
    <2>4. QED
        BY <2>2, <2>3
<1>6. Max(ClosedAt(m, i)) = r
    BY <1>5 DEF Max
<1>7. t = [kind |-> "EndFinally", normal_continuations |-> resumed]
    <2>1. ClosedAt(m, i) # {}
        BY <1>5
    <2>2. QED
        BY <1>1, <1>2, <1>6, <2>1, ClosingEndfinally
<1> HIDE DEF ls, b, t, target, resumed
<1>8. <<b, target, "FinallyContinuation">> \in EdgesOf(b, t)
    <2>1. EdgesOf(b, t) = {<<b, c, "FinallyContinuation">> : c \in resumed}
        BY <1>7 DEF EdgesOf
    <2>2. QED
        BY <1>4, <2>1
<1>9. <<b, target, "FinallyContinuation">> \in GraphEdges(m)
    BY <1>2, <1>8, EdgeOfBlock DEF ls, t
<1>10. QED
    BY <1>1, <1>3, <1>9 DEF ls, b, target

\* An ENDTRY through a finally block is non-local when it does not go on right
\* behind the ENDFINALLY.
LEMMA NonlocalTarget ==
    ASSUME NEW m \in Method, NEW v \in RoutedEndtries(m), JumpTarget(m, v) # v,
           NEW r \in Int, Owners(m)[v] = r, FinallyTarget(m, r) # None,
           NEW i \in Offsets(m), EndfinallyOffsets(m)[r] = i
    PROVE  Terminators(m)[BlockOf(FindLeaders(m), v)].nonlocal <=> JumpTarget(m, v) # i + 1
<1> DEFINE ls == FindLeaders(m)
           b == BlockOf(ls, v)
           target == JumpTarget(m, v)
           t == Terminators(m)[b]
<1>1. t = RouteEndtry(m, ls, v, r, Owners(m), EndfinallyOffsets(m)) /\ BlockOf(ls, target) = target
    BY EndtryEdge
<1>2. i # None /\ target \in Offsets(m)
    BY TargetFacts DEF RoutedEndtries
<1> HIDE DEF ls, b, t, target
<1>3. target # v
    BY DEF target
<1>4. t.nonlocal = (/\ target # v
                    /\ EndfinallyOffsets(m)[r] # None
                    /\ BlockOf(ls, target) # TargetAt(m, EndfinallyOffsets(m)[r] + 1))
    BY <1>1 DEF RouteEndtry, target
<1>5. t.nonlocal = (target # TargetAt(m, i + 1))
    BY <1>1, <1>2, <1>3, <1>4
<1>6. target # None
    BY DEF RoutedEndtries, target
<1>7. QED
    BY <1>2, <1>5, <1>6 DEF TargetAt, ls, b, t, target

-----------------------------------------------------------------------------
(***************************************************************************)
(* The graph is built as defined, and the VM stays inside the method       *)
(***************************************************************************)

GraphInv ==
    /\ code \in Programs /\ code \in Method
    /\ pc \in {"leaders", "blocks", "finally", "edges", "built"}
    /\ pc # "leaders" => leaders = FindLeaders(code)
    /\ pc = "finally" => terminator = ComputedTerminators(code)
    /\ pc \in {"edges", "built"} => terminator = Terminators(code)
    /\ pc = "built" => edges = GraphEdges(code)
    /\ status \in {"loading", "running", "stopped"}
    /\ status # "loading" => pc = "built"
    /\ status = "loading" => ip = 1 /\ tries = <<>>
    /\ ip \in Offsets(code)

LEMMA GraphInit == Init => GraphInv
<1> SUFFICES ASSUME Init PROVE GraphInv
    OBVIOUS
<1>1. code \in Programs /\ pc = "leaders" /\ status = "loading" /\ ip = 1 /\ tries = <<>>
    BY DEF Init, BuildInit
<1>2. code \in Method
    BY <1>1, ProgramsAssumption DEF Method
<1>3. ip \in Offsets(code)
    BY <1>1, <1>2, LeaderOffsets DEF Offsets
<1>4. QED
    BY <1>1, <1>2, <1>3 DEF GraphInv

\* Where control goes, it stays inside the method, or the VM stops.
LEMMA GoToStays ==
    ASSUME ip \in Offsets(code), UNCHANGED code, NEW o, GoTo(o)
    PROVE  /\ ip' \in Offsets(code') /\ status' \in {"running", "stopped"}
           /\ status' = "running" => o \in Offsets(code) /\ ip' = o
    BY DEF GoTo

LEMMA UnwindStays ==
    ASSUME ip \in Offsets(code), UNCHANGED code, NEW stack, Unwind(stack)
    PROVE  ip' \in Offsets(code') /\ status' \in {"running", "stopped"}
<1>1. CASE Handlers(stack) = {}
    BY <1>1 DEF Unwind
<1>2. CASE Handlers(stack) # {}
    <2>1. PICK o : GoTo(o)
        BY <1>2 DEF Unwind
    <2>2. QED
        BY <2>1, GoToStays
<1>3. QED
    BY <1>1, <1>2

LEMMA GraphStep ==
    ASSUME GraphInv, [Next]_vars
    PROVE  GraphInv'
<1>1. CASE Build
    <2>1. UNCHANGED <<status, ip, tries, raised, code>>
        BY <1>1 DEF Build, BuildNext, FindLeadersStep, CreateBlocks, ApplyFinallyRouting,
                    BuildCfg, vmVars
    <2>2. pc # "built"
        BY <1>1 DEF Build, BuildNext, FindLeadersStep, CreateBlocks, ApplyFinallyRouting,
                    BuildCfg
    <2>3. CASE FindLeadersStep
        BY <2>1, <2>2, <2>3 DEF GraphInv, FindLeadersStep
    <2>4. CASE CreateBlocks
        BY <2>1, <2>2, <2>4 DEF GraphInv, CreateBlocks, ComputedTerminators
    <2>5. CASE ApplyFinallyRouting
        BY <2>1, <2>2, <2>5 DEF GraphInv, ApplyFinallyRouting, Terminators
    <2>6. CASE BuildCfg
        <3>1. edges' = GraphEdges(code)
            BY <2>6 DEF GraphInv, BuildCfg, GraphEdges
        <3>2. QED
            BY <2>1, <2>2, <2>6, <3>1 DEF GraphInv, BuildCfg
    <2>7. QED
        BY <1>1, <2>3, <2>4, <2>5, <2>6 DEF Build, BuildNext
<1>2. ASSUME UNCHANGED buildVars, pc = "built", ip' \in Offsets(code'),
             status' \in {"running", "stopped"}
      PROVE  GraphInv'
    BY <1>2 DEF GraphInv, buildVars
<1>3. CASE UNCHANGED vars
    BY <1>3 DEF GraphInv, vars, buildVars, vmVars
<1>4. ASSUME UNCHANGED buildVars, pc = "built", NEW o, GoTo(o) PROVE GraphInv'
    <2>1. ip \in Offsets(code) /\ UNCHANGED code
        BY <1>4 DEF GraphInv, buildVars
    <2>2. QED
        BY <1>2, <1>4, <2>1, GoToStays
<1>5. ASSUME UNCHANGED buildVars, pc = "built", NEW stack, Unwind(stack) PROVE GraphInv'
    <2>1. ip \in Offsets(code) /\ UNCHANGED code
        BY <1>5 DEF GraphInv, buildVars
    <2>2. QED
        BY <1>2, <1>5, <2>1, UnwindStays
<1>6. CASE Load
    <2>1. UNCHANGED code
        BY <1>6 DEF Load, buildVars
    <2>2. QED
        BY <1>2, <1>6, <2>1 DEF Load, GraphInv
<1>7. CASE Advance
    BY <1>4, <1>7 DEF Advance, Running
<1>8. CASE Jump
    BY <1>4, <1>8 DEF Jump, Running
<1>9. ASSUME NEW cond \in BOOLEAN, Branch(cond) PROVE GraphInv'
    BY <1>4, <1>9 DEF Branch, Running
<1>10. CASE EnterTry
    BY <1>4, <1>10 DEF EnterTry, Running
<1>11. CASE LeaveThroughFinally
    BY <1>4, <1>11 DEF LeaveThroughFinally, Running
<1>12. CASE LeaveTry
    BY <1>4, <1>12 DEF LeaveTry, Running
<1>13. CASE ResumeAfterFinally
    BY <1>4, <1>13 DEF ResumeAfterFinally, Running
<1>14. CASE Raise
    BY <1>5, <1>14 DEF Raise, Running
<1>15. CASE Reraise
    BY <1>5, <1>15 DEF Reraise, Running
<1>16. CASE Stop
    <2>1. UNCHANGED code /\ pc = "built"
        BY <1>16 DEF Stop, buildVars, Running
    <2>2. QED
        BY <1>2, <1>16, <2>1 DEF Stop, GraphInv
<1>17. CASE Stopped
    BY <1>3, <1>17 DEF Stopped
<1>18. QED
    BY <1>1, <1>3, <1>6, <1>7, <1>8, <1>9, <1>10, <1>11, <1>12, <1>13, <1>14, <1>15,
       <1>16, <1>17 DEF Next

LEMMA AlwaysGraphInv == Spec => []GraphInv
    BY GraphInit, GraphStep, PTL DEF Spec

-----------------------------------------------------------------------------
(***************************************************************************)
(* What the VM runs is live, and so are the handlers of its contexts       *)
(***************************************************************************)

\* The block of an instruction is reachable.
Live(m, o) ==
    BlockOf(FindLeaders(m), o) \in ReachableBlocks(FindLeaders(m), GraphEdges(m))

LEMMA FirstIsLive ==
    ASSUME NEW m \in Method
    PROVE  Live(m, 1)
<1>1. /\ IsFiniteSet(FindLeaders(m)) /\ 1 \in FindLeaders(m)
      /\ \A e \in GraphEdges(m) : e[2] \in FindLeaders(m)
    BY LeaderFacts, EdgesJoinBlocks
<1>2. 1 \in ReachableBlocks(FindLeaders(m), GraphEdges(m))
    BY <1>1, ReachableClosed
<1>3. BlockOf(FindLeaders(m), 1) = 1
    BY <1>1, LeaderIsBlock
<1>4. QED
    BY <1>2, <1>3 DEF Live

\* An edge from a live block leads to a live block.
LEMMA EdgeKeepsLive ==
    ASSUME NEW m \in Method, NEW i, Live(m, i), NEW o, NEW k,
           BlockOf(FindLeaders(m), o) = o,
           <<BlockOf(FindLeaders(m), i), o, k>> \in GraphEdges(m)
    PROVE  Live(m, o)
<1> DEFINE R == ReachableBlocks(FindLeaders(m), GraphEdges(m))
           e == <<BlockOf(FindLeaders(m), i), o, k>>
<1>1. /\ IsFiniteSet(FindLeaders(m)) /\ 1 \in FindLeaders(m)
      /\ \A d \in GraphEdges(m) : d[2] \in FindLeaders(m)
    BY LeaderFacts, EdgesJoinBlocks
<1>2. \A d \in GraphEdges(m) : d[1] \in R => d[2] \in R
    BY <1>1, ReachableClosed
<1>3. e[1] \in R /\ e[2] = o /\ e \in GraphEdges(m)
    BY DEF Live
<1>4. o \in R
    BY <1>2, <1>3
<1>5. QED
    BY <1>4 DEF Live

\* A context the VM may keep on its stack for method m: a live TRY with a
\* handler, and, once an ENDTRY saved its target there, an ENDTRY routed
\* through the finally block of that TRY.
SavedBy(m, t) ==
    /\ t.via \in RoutedEndtries(m) /\ Owners(m)[t.via] = t.try
    /\ JumpTarget(m, t.via) = t.end /\ t.end # t.via
    /\ FinallyTarget(m, t.try) # None

Contexts(m) ==
    {t \in [try : Offsets(m), state : {"Try", "Catch", "Finally"}, end : Int, via : Nat] :
        /\ m[t.try].op = "try" /\ Live(m, t.try)
        /\ t.end \in Offsets(m) => SavedBy(m, t)}

ExecInv ==
    status = "running" => Live(code, ip) /\ tries \in Seq(Contexts(code))

\* The handlers of a live TRY are live.
LEMMA HandlersAreLive ==
    ASSUME NEW m \in Method, NEW i \in Offsets(m), m[i].op = "try", Live(m, i)
    PROVE  /\ m[i].catch # 0 /\ i + m[i].catch \in Offsets(m) => Live(m, i + m[i].catch)
           /\ m[i].finally # 0 /\ i + m[i].finally \in Offsets(m) =>
                  Live(m, i + m[i].finally)
<1>1. /\ m[i].catch # 0 /\ i + m[i].catch \in Offsets(m) =>
           /\ BlockOf(FindLeaders(m), i + m[i].catch) = i + m[i].catch
           /\ <<BlockOf(FindLeaders(m), i), i + m[i].catch, "Exception">> \in GraphEdges(m)
      /\ m[i].finally # 0 /\ i + m[i].finally \in Offsets(m) =>
           /\ BlockOf(FindLeaders(m), i + m[i].finally) = i + m[i].finally
           /\ <<BlockOf(FindLeaders(m), i), i + m[i].finally, "FinallyException">>
                  \in GraphEdges(m)
    BY TryEdges
<1>2. QED
    BY <1>1, EdgeKeepsLive

LEMMA HandlersFacts ==
    ASSUME NEW S, NEW stack \in Seq(S), Handlers(stack) # {}
    PROVE  LET k == Max(Handlers(stack)) IN
           /\ k \in 1..Len(stack) /\ stack[k] \in S
           /\ \/ stack[k].state = "Try"
              \/ stack[k].state = "Catch" /\ HasFinally(stack[k])
<1>1. Len(stack) \in Nat
    OBVIOUS
<1>2. DOMAIN stack = 1..Len(stack) /\ 1..Len(stack) \subseteq Nat
    OBVIOUS
<1>3. Handlers(stack) \subseteq 1..Len(stack)
    BY <1>2 DEF Handlers
<1>4. IsFiniteSet(Handlers(stack))
    <2>1. 1 \in Int /\ Len(stack) \in Int
        BY <1>1
    <2>2. QED
        BY <1>3, <2>1, FS_Interval, FS_Subset, Zenon
<1>5. Max(Handlers(stack)) \in Handlers(stack)
    <2>1. Handlers(stack) \subseteq Nat
        BY <1>2, <1>3
    <2>2. QED
        BY <1>4, <2>1, MaxIsGreatest
<1>6. QED
    BY <1>3, <1>5 DEF Handlers

-----------------------------------------------------------------------------
(***************************************************************************)
(* Each transfer of control follows an edge                                *)
(***************************************************************************)

\* What holds of the graph while the VM runs.
LEMMA GraphFacts ==
    ASSUME GraphInv, status = "running"
    PROVE  /\ code \in Method /\ code \in Programs /\ ip \in Offsets(code)
           /\ leaders = FindLeaders(code) /\ terminator = Terminators(code)
           /\ edges = GraphEdges(code)
    BY DEF GraphInv

LEMMA AlongEdgeLive ==
    ASSUME GraphInv, status = "running", UNCHANGED code, NEW kinds, AlongEdge(kinds),
           Live(code, ip)
    PROVE  Live(code', ip')
<1>1. PICK k \in kinds : <<BlockOf(leaders, ip), ip', k>> \in edges
    BY DEF AlongEdge
<1>2. code \in Method /\ <<BlockOf(FindLeaders(code), ip), ip', k>> \in GraphEdges(code)
    BY <1>1, GraphFacts
<1>3. ip' \in FindLeaders(code)
    BY <1>2, EdgesJoinBlocks
<1>4. BlockOf(FindLeaders(code), ip') = ip'
    BY <1>2, <1>3, LeaderIsBlock
<1>5. Live(code, ip')
    BY <1>2, <1>4, EdgeKeepsLive
<1>6. QED
    BY <1>5

LEMMA AdvanceFollows ==
    ASSUME GraphInv, Advance, status' = "running"
    PROVE  InsideBlock \/ AlongEdge({"Unconditional"})
<1>1. /\ code \in Method /\ ip \in Offsets(code) /\ code[ip].op = "plain"
      /\ leaders = FindLeaders(code) /\ edges = GraphEdges(code)
      /\ ip + 1 \in Offsets(code) /\ ip' = ip + 1
    BY GraphFacts, GoToStays DEF Advance, Running, IsOp, GoTo
<1>2. LET b == BlockOf(leaders, ip)
      IN  \/ BlockOf(leaders, ip + 1) = b
          \/ ip = LastOf(code, leaders, b) /\ <<b, ip + 1, "Unconditional">> \in edges
    BY <1>1, PlainEdge
<1>3. QED
    BY <1>1, <1>2 DEF InsideBlock, AlongEdge

LEMMA JumpFollows ==
    ASSUME GraphInv, Jump, status' = "running"
    PROVE  AlongEdge({"Unconditional"})
<1>1. /\ code \in Method /\ ip \in Offsets(code) /\ code[ip].op = "jmp"
      /\ leaders = FindLeaders(code) /\ edges = GraphEdges(code)
      /\ ip + code[ip].delta \in Offsets(code) /\ ip' = ip + code[ip].delta
    BY GraphFacts DEF Jump, Running, IsOp, GoTo
<1>2. LET b == BlockOf(leaders, ip)
      IN  /\ ip = LastOf(code, leaders, b)
          /\ <<b, ip + code[ip].delta, "Unconditional">> \in edges
    BY <1>1, JumpEdge
<1>3. QED
    BY <1>1, <1>2 DEF AlongEdge

LEMMA BranchFollows ==
    ASSUME BranchesLand, GraphInv, NEW cond \in BOOLEAN, Branch(cond), status' = "running"
    PROVE  AlongEdge({IF cond THEN "ConditionalTrue" ELSE "ConditionalFalse"})
<1> DEFINE o == IF cond = (code[ip].op = "jmpif") THEN ip + code[ip].delta ELSE ip + 1
<1>1. /\ code \in Method /\ code \in Programs /\ ip \in Offsets(code)
      /\ code[ip].op \in {"jmpif", "jmpifnot"}
      /\ leaders = FindLeaders(code) /\ edges = GraphEdges(code)
      /\ o \in Offsets(code) /\ ip' = o
    BY GraphFacts DEF Branch, Running, IsOp, GoTo
<1>2. ip + code[ip].delta \in Offsets(code)
    <2>1. JumpTarget(code, ip) # None
        BY <1>1 DEF BranchesLand, IsOp
    <2>2. QED
        BY <2>1 DEF JumpTarget, TargetAt
<1>3. LET b == BlockOf(leaders, ip)
      IN  /\ ip = LastOf(code, leaders, b)
          /\ <<b, o, IF cond THEN "ConditionalTrue" ELSE "ConditionalFalse">> \in edges
    BY <1>1, <1>2, BranchEdges
<1> HIDE DEF o
<1>4. QED
    BY <1>1, <1>3 DEF AlongEdge

LEMMA EnterTryFollows ==
    ASSUME GraphInv, EnterTry, status' = "running"
    PROVE  AlongEdge({"Unconditional"})
<1>1. /\ code \in Method /\ ip \in Offsets(code) /\ code[ip].op = "try"
      /\ leaders = FindLeaders(code) /\ edges = GraphEdges(code)
      /\ ip + 1 \in Offsets(code) /\ ip' = ip + 1
    BY GraphFacts DEF EnterTry, Running, IsOp, GoTo
<1>2. LET b == BlockOf(leaders, ip)
      IN  /\ ip = LastOf(code, leaders, b)
          /\ <<b, ip + 1, "Unconditional">> \in edges
    BY <1>1, TryEdges
<1>3. QED
    BY <1>1, <1>2 DEF AlongEdge

\* The context on top of the stack.
LEMMA TopFacts ==
    ASSUME ExecInv, status = "running", tries # <<>>
    PROVE  /\ Top \in Contexts(code) /\ Len(tries) \in 1..Len(tries)
           /\ Front(tries) \in Seq(Contexts(code))
           /\ Top.try \in Offsets(code) /\ code[Top.try].op = "try" /\ Live(code, Top.try)
<1>1. tries \in Seq(Contexts(code))
    BY DEF ExecInv
<1>2. Len(tries) \in Nat /\ Len(tries) \in 1..Len(tries)
    BY <1>1
<1>3. Top = tries[Len(tries)]
    BY DEF Top, Last
<1>4. Top \in Contexts(code)
    BY <1>1, <1>2, <1>3
<1>5. Front(tries) \in Seq(Contexts(code))
    <2>1. Front(tries) = SubSeq(tries, 1, Len(tries) - 1)
        BY DEF Front
    <2>2. QED
        BY <1>1, <1>2, <2>1
<1>6. QED
    BY <1>2, <1>4, <1>5 DEF Contexts

\* An ENDTRY the VM obeys is routed to the TRY on top of the stack.
LEMMA EndtryOwned ==
    ASSUME GraphInv, ExecInv, RoutingAgrees, Running({"endtry"}), tries # <<>>,
           Top.state # "Finally"
    PROVE  /\ ip \in RoutedEndtries(code) /\ Owners(code)[ip] = Top.try
           /\ JumpTarget(code, ip) = ip + code[ip].delta
           /\ JumpTarget(code, ip) \in Offsets(code) /\ JumpTarget(code, ip) # ip
<1>1. /\ ip \in RoutedEndtries(code) /\ JumpTarget(code, ip) # ip
      /\ Owners(code)[ip] = Top.try
    BY DEF RoutingAgrees, Running, Owners
<1>2. JumpTarget(code, ip) # None
    BY <1>1 DEF RoutedEndtries
<1>3. QED
    BY <1>1, <1>2 DEF JumpTarget, TargetAt

LEMMA LeaveTryFollows ==
    ASSUME GraphInv, ExecInv, RoutingAgrees, LeaveTry, status' = "running"
    PROVE  AlongEdge({"Unconditional"})
<1>1. /\ status = "running" /\ tries # <<>> /\ Top.state # "Finally" /\ Running({"endtry"})
      /\ code[Top.try].finally = 0 /\ ip' = ip + code[ip].delta
    BY DEF LeaveTry, Running, GoTo, HasFinally
<1>2. /\ ip \in RoutedEndtries(code) /\ Owners(code)[ip] = Top.try
      /\ JumpTarget(code, ip) = ip + code[ip].delta
    BY <1>1, EndtryOwned
<1>3. code \in Method /\ leaders = FindLeaders(code) /\ edges = GraphEdges(code)
    BY <1>1, GraphFacts
<1>4. Top.try \in Int
    BY <1>1, <1>3, TopFacts, TargetFacts
<1>5. FinallyTarget(code, Top.try) = None
    BY <1>1 DEF FinallyTarget
<1>6. LET b == BlockOf(leaders, ip)
      IN  ip = LastOf(code, leaders, b) /\ <<b, JumpTarget(code, ip), "Unconditional">> \in edges
    BY <1>2, <1>3, <1>4, <1>5, EndtryEdge
<1>7. QED
    BY <1>1, <1>2, <1>6 DEF AlongEdge

LEMMA LeaveThroughFinallyFollows ==
    ASSUME GraphInv, ExecInv, RoutingAgrees, LeaveThroughFinally, status' = "running"
    PROVE  AlongEdge({"Finally"}) /\ FinallyTarget(code, Top.try) # None
<1> DEFINE f == Top.try + code[Top.try].finally
<1>1. /\ status = "running" /\ tries # <<>> /\ Top.state # "Finally" /\ Running({"endtry"})
      /\ code[Top.try].finally # 0 /\ ip' = f /\ f \in Offsets(code)
    BY DEF LeaveThroughFinally, Running, GoTo, HasFinally
<1>2. ip \in RoutedEndtries(code) /\ Owners(code)[ip] = Top.try
    BY <1>1, EndtryOwned
<1>3. code \in Method /\ leaders = FindLeaders(code) /\ edges = GraphEdges(code)
    BY <1>1, GraphFacts
<1>4. Top.try \in Offsets(code) /\ code[Top.try].op = "try" /\ Top.try \in Int
    BY <1>1, <1>3, TopFacts, TargetFacts
<1>5. FinallyTarget(code, Top.try) = f /\ f # None
    BY <1>1, <1>3, TargetFacts DEF FinallyTarget, TargetAt
<1>6. BlockOf(leaders, f) = f
    BY <1>1, <1>3, <1>4, TryEdges
<1>7. LET b == BlockOf(leaders, ip)
      IN  ip = LastOf(code, leaders, b) /\ <<b, BlockOf(leaders, f), "Finally">> \in edges
    BY <1>2, <1>3, <1>4, <1>5, EndtryEdge
<1> HIDE DEF f
<1>8. QED
    BY <1>1, <1>5, <1>6, <1>7 DEF AlongEdge

\* What ENDFINALLY resumes was saved by an ENDTRY of the region it closes.
LEMMA ResumedFacts ==
    ASSUME GraphInv, ExecInv, RoutingAgrees, ResumeAfterFinally, status' = "running"
    PROVE  /\ code \in Method /\ ip \in Offsets(code) /\ IsOp(code, ip, {"endfinally"})
           /\ Top.try \in Int /\ SavedBy(code, Top) /\ ip' = Top.end
           /\ {q \in Regions(code) : EndfinallyOffsets(code)[q] = ip} = {Top.try}
<1>1. /\ status = "running" /\ tries # <<>> /\ ~raised /\ IsOp(code, ip, {"endfinally"})
      /\ ip' = Top.end /\ Top.end \in Offsets(code)
    BY DEF ResumeAfterFinally, Running, GoTo
<1>2. code \in Method /\ ip \in Offsets(code)
    BY <1>1, GraphFacts
<1>3. {q \in Regions(code) : EndfinallyOffsets(code)[q] = ip} = {Top.try}
    BY <1>1 DEF RoutingAgrees
<1>4. Top \in Contexts(code) /\ Top.try \in Int
    BY <1>1, <1>2, TopFacts, TargetFacts
<1>5. SavedBy(code, Top)
    BY <1>1, <1>4 DEF Contexts
<1>6. QED
    BY <1>1, <1>2, <1>3, <1>4, <1>5

LEMMA ResumeFollows ==
    ASSUME GraphInv, ExecInv, RoutingAgrees, ResumeAfterFinally, status' = "running"
    PROVE  AlongEdge({"FinallyContinuation"})
<1>1. /\ code \in Method /\ ip \in Offsets(code) /\ IsOp(code, ip, {"endfinally"})
      /\ Top.try \in Int /\ SavedBy(code, Top) /\ ip' = Top.end
      /\ {q \in Regions(code) : EndfinallyOffsets(code)[q] = ip} = {Top.try}
    BY ResumedFacts
<1>2. leaders = FindLeaders(code) /\ edges = GraphEdges(code)
    BY GraphFacts DEF ResumeAfterFinally, Running
<1>3. LET b == BlockOf(leaders, ip)
      IN  /\ ip = LastOf(code, leaders, b)
          /\ <<b, JumpTarget(code, Top.via), "FinallyContinuation">> \in edges
    BY <1>1, <1>2, EndfinallyEdge DEF SavedBy
<1>4. QED
    BY <1>1, <1>3 DEF AlongEdge, SavedBy

-----------------------------------------------------------------------------
(***************************************************************************)
(* The invariant, and the theorems                                         *)
(***************************************************************************)

LEMMA ExecInit == Init => ExecInv
    BY DEF Init, ExecInv

\* An exception goes to a live handler of a live TRY.
LEMMA UnwindKeeps ==
    ASSUME code \in Method, UNCHANGED code, NEW stack \in Seq(Contexts(code)),
           Unwind(stack)
    PROVE  ExecInv'
<1> SUFFICES ASSUME status' = "running"
             PROVE  Live(code, ip') /\ tries' \in Seq(Contexts(code))
    BY DEF ExecInv
<1>1. Handlers(stack) # {}
    BY DEF Unwind
<1> DEFINE k == Max(Handlers(stack))
           t == stack[k]
           catching == t.state = "Try" /\ HasCatch(t)
           state == IF catching THEN "Catch" ELSE "Finally"
           o == t.try + IF catching THEN code[t.try].catch ELSE code[t.try].finally
<1>2. /\ tries' = [SubSeq(stack, 1, k) EXCEPT ![k].state = state]
      /\ GoTo(o)
    BY <1>1 DEF Unwind
<1>3. k \in 1..Len(stack) /\ t \in Contexts(code)
    BY <1>1, HandlersFacts
<1>4. /\ t.try \in Offsets(code) /\ code[t.try].op = "try" /\ Live(code, t.try)
    BY <1>3 DEF Contexts
<1>5. o \in Offsets(code) /\ ip' = o
    BY <1>2 DEF GoTo
<1>6. Live(code, o)
    <2>1. /\ code[t.try].catch # 0 /\ t.try + code[t.try].catch \in Offsets(code) =>
                Live(code, t.try + code[t.try].catch)
          /\ code[t.try].finally # 0 /\ t.try + code[t.try].finally \in Offsets(code) =>
                Live(code, t.try + code[t.try].finally)
        BY <1>4, HandlersAreLive
    <2>2. CASE catching
        BY <1>5, <2>1, <2>2 DEF HasCatch
    <2>3. CASE ~catching /\ code[t.try].finally # 0
        BY <1>5, <2>1, <2>3
    <2>4. CASE ~catching /\ code[t.try].finally = 0
        <3>1. o = t.try
            BY <1>4, <2>4, TargetFacts
        <3>2. QED
            BY <1>4, <3>1
    <2>5. QED
        BY <2>2, <2>3, <2>4
<1>7. tries' \in Seq(Contexts(code))
    <2> DEFINE top == [t EXCEPT !.state = state]
    <2>1. top \in Contexts(code)
        <3>1. state \in {"Try", "Catch", "Finally"}
            OBVIOUS
        <3> HIDE DEF state, t
        <3>2. QED
            BY <1>3, <3>1 DEF Contexts, SavedBy
    <2> HIDE DEF k
    <2>2. SubSeq(stack, 1, k) \in Seq(Contexts(code)) /\ Len(SubSeq(stack, 1, k)) = k
        BY <1>3
    <2>3. SubSeq(stack, 1, k)[k] = t /\ k \in 1..k
        BY <1>3
    <2>4. tries' = [SubSeq(stack, 1, k) EXCEPT ![k] = top]
        BY <1>2, <2>3
    <2> HIDE DEF top
    <2>5. QED
        BY <2>1, <2>2, <2>3, <2>4
<1>8. QED
    BY <1>5, <1>6, <1>7

LEMMA ExecStep ==
    ASSUME BranchesLand, GraphInv, ExecInv, RoutingAgrees, [Next]_vars
    PROVE  ExecInv'
<1>1. CASE status = "loading"
    <2>1. CASE Load
        <3>1. code \in Method /\ ip = 1 /\ tries = <<>>
            BY <2>1 DEF GraphInv, Load
        <3>2. UNCHANGED <<code, ip, tries>>
            BY <2>1 DEF Load, buildVars
        <3>3. <<>> \in Seq(Contexts(code))
            OBVIOUS
        <3>4. QED
            BY <3>1, <3>2, <3>3, FirstIsLive DEF ExecInv
    <2>2. CASE ~Load
        <3>1. status' = "loading"
            BY <1>1, <2>2 DEF Next, Build, vars, vmVars, Advance, Jump, Branch, EnterTry,
                LeaveThroughFinally, LeaveTry, ResumeAfterFinally, Raise, Reraise, Stop,
                Stopped, Running
        <3>2. QED
            BY <3>1 DEF ExecInv
    <2>3. QED
        BY <2>1, <2>2
<1>2. CASE status = "stopped"
    <2>1. status' = "stopped"
        BY <1>2 DEF Next, Build, Load, vars, vmVars, Advance, Jump, Branch, EnterTry,
            LeaveThroughFinally, LeaveTry, ResumeAfterFinally, Raise, Reraise, Stop,
            Stopped, Running
    <2>2. QED
        BY <2>1 DEF ExecInv
<1>3. CASE status = "running"
    <2>1. /\ code \in Method /\ ip \in Offsets(code) /\ pc = "built"
          /\ leaders = FindLeaders(code)
          /\ Live(code, ip) /\ tries \in Seq(Contexts(code))
        BY <1>3, GraphFacts DEF ExecInv, GraphInv
    <2>2. ASSUME UNCHANGED code, status' = "running" => Live(code, ip'),
                 status' = "running" => tries' \in Seq(Contexts(code))
          PROVE  ExecInv'
        BY <2>2 DEF ExecInv
    <2>3. CASE UNCHANGED vars \/ Build \/ Load
        <3>1. UNCHANGED vars
            BY <1>3, <2>1, <2>3 DEF Build, Load, BuildNext, FindLeadersStep, CreateBlocks,
                ApplyFinallyRouting, BuildCfg
        <3>2. QED
            BY <2>1, <2>2, <3>1 DEF vars, buildVars, vmVars
    <2>4. CASE Advance
        <3>1. UNCHANGED <<code, tries>>
            BY <2>4 DEF Advance, buildVars
        <3>2. ASSUME status' = "running" PROVE Live(code, ip')
            <4>1. CASE InsideBlock
                BY <2>1, <4>1 DEF InsideBlock, Live
            <4>2. CASE AlongEdge({"Unconditional"})
                BY <1>3, <2>1, <3>1, <4>2, AlongEdgeLive
            <4>3. QED
                BY <2>4, <3>2, <4>1, <4>2, AdvanceFollows
        <3>3. QED
            BY <2>1, <2>2, <3>1, <3>2
    <2>5. ASSUME UNCHANGED code, NEW kinds, status' = "running" => AlongEdge(kinds),
                 status' = "running" => tries' \in Seq(Contexts(code))
          PROVE  ExecInv'
        BY <1>3, <2>1, <2>2, <2>5, AlongEdgeLive
    <2>6. CASE Jump
        BY <2>1, <2>5, <2>6, JumpFollows DEF Jump, buildVars
    <2>7. ASSUME NEW cond \in BOOLEAN, Branch(cond) PROVE ExecInv'
        <3>1. UNCHANGED <<code, tries>>
            BY <2>7 DEF Branch, buildVars
        <3>2. QED
            BY <2>1, <2>5, <2>7, <3>1, BranchFollows
    <2>8. CASE EnterTry
        <3> DEFINE t == [try |-> ip, state |-> "Try", end |-> 0, via |-> 0]
        <3>1. UNCHANGED code /\ tries' = Append(tries, t) /\ code[ip].op = "try"
            BY <2>8 DEF EnterTry, buildVars, Running, IsOp
        <3>2. t \in Contexts(code)
            <4>1. 0 \notin Offsets(code)
                BY DEF Offsets
            <4>2. QED
                BY <2>1, <3>1, <4>1 DEF Contexts
        <3> HIDE DEF t
        <3>3. tries' \in Seq(Contexts(code))
            BY <2>1, <3>1, <3>2
        <3>4. QED
            BY <2>5, <2>8, <3>1, <3>3, EnterTryFollows
    <2>9. CASE LeaveThroughFinally
        <3> DEFINE n == Len(tries)
                   o == ip + code[ip].delta
                   t == [Top EXCEPT !.state = "Finally", !.end = o, !.via = ip]
        <3>1. /\ UNCHANGED code /\ tries # <<>> /\ Top.state # "Finally"
              /\ Running({"endtry"})
              /\ tries' = [tries EXCEPT ![n].state = "Finally", ![n].end = o, ![n].via = ip]
            BY <2>9 DEF LeaveThroughFinally, buildVars
        <3>2. Top \in Contexts(code) /\ n \in 1..n /\ Top = tries[n]
            BY <1>3, <3>1, TopFacts DEF Top, Last
        <3>3. /\ ip \in RoutedEndtries(code) /\ Owners(code)[ip] = Top.try
              /\ JumpTarget(code, ip) = o /\ o \in Offsets(code) /\ o # ip
            BY <1>3, <3>1, EndtryOwned
        <3>4. ASSUME status' = "running" PROVE tries' \in Seq(Contexts(code))
            <4>1. FinallyTarget(code, Top.try) # None
                BY <2>9, <3>4, LeaveThroughFinallyFollows
            <4>2. ip \in Nat /\ o \in Int
                BY <2>1, <3>3, TargetFacts
            <4>3. t \in Contexts(code)
                <5> HIDE DEF o
                <5>1. t \in [try : Offsets(code), state : {"Try", "Catch", "Finally"},
                             end : Int, via : Nat]
                    BY <3>2, <4>2 DEF Contexts
                <5>2. t.try = Top.try /\ t.via = ip /\ t.end = o
                    BY <3>2 DEF Contexts
                <5>3. SavedBy(code, t)
                    BY <3>3, <4>1, <5>2 DEF SavedBy
                <5>4. code[t.try].op = "try" /\ Live(code, t.try)
                    BY <3>2, <5>2 DEF Contexts
                <5> HIDE DEF t
                <5>5. QED
                    BY <5>1, <5>3, <5>4 DEF Contexts
            <4>4. tries' = [tries EXCEPT ![n] = t]
                BY <2>1, <3>1, <3>2
            <4> HIDE DEF t, n
            <4>5. n \in 1..Len(tries)
                BY <3>2 DEF n
            <4>6. QED
                BY <2>1, <4>3, <4>4, <4>5
        <3>5. QED
            BY <2>5, <2>9, <3>1, <3>4, LeaveThroughFinallyFollows
    <2>10. CASE LeaveTry
        <3>1. UNCHANGED code /\ tries # <<>> /\ tries' = Front(tries)
            BY <2>10 DEF LeaveTry, buildVars
        <3>2. tries' \in Seq(Contexts(code))
            BY <1>3, <3>1, TopFacts
        <3>3. QED
            BY <2>5, <2>10, <3>1, <3>2, LeaveTryFollows
    <2>11. CASE ResumeAfterFinally
        <3>1. UNCHANGED code /\ tries # <<>> /\ tries' = Front(tries)
            BY <2>11 DEF ResumeAfterFinally, buildVars
        <3>2. tries' \in Seq(Contexts(code))
            BY <1>3, <3>1, TopFacts
        <3>3. QED
            BY <2>5, <2>11, <3>1, <3>2, ResumeFollows
    <2>12. CASE Raise
        BY <2>1, <2>12, UnwindKeeps DEF Raise, buildVars
    <2>13. CASE Reraise
        <3>1. UNCHANGED code /\ tries # <<>> /\ Unwind(Front(tries))
            BY <2>13 DEF Reraise, buildVars
        <3>2. Front(tries) \in Seq(Contexts(code))
            BY <1>3, <3>1, TopFacts
        <3>3. QED
            BY <2>1, <3>1, <3>2, UnwindKeeps
    <2>14. CASE Stop \/ Stopped
        BY <1>3, <2>14 DEF Stop, Stopped, ExecInv
    <2>15. QED
        BY <2>3, <2>4, <2>6, <2>7, <2>8, <2>9, <2>10, <2>11, <2>12, <2>13, <2>14 DEF Next
<1>4. status \in {"loading", "running", "stopped"}
    BY DEF GraphInv
<1>5. QED
    BY <1>1, <1>2, <1>3, <1>4

LEMMA AlwaysExecInv ==
    ASSUME BranchesLand
    PROVE  Spec /\ []RoutingAgrees => []ExecInv
<1>1. GraphInv /\ ExecInv /\ RoutingAgrees /\ [Next]_vars => ExecInv'
    BY ExecStep
<1>2. QED
    BY <1>1, ExecInit, AlwaysGraphInv, PTL DEF Spec

\* Dead-code detection never drops an instruction the VM can execute: in every
\* method whose conditional jumps have targets, as long as the layout read by
\* apply_finally_routing is the VM's, what runs is reachable in the graph.
THEOREM NothingLiveIsDropped ==
    ASSUME BranchesLand
    PROVE  Spec /\ []RoutingAgrees => []ExecutedIsReachable
<1>1. GraphInv /\ ExecInv => ExecutedIsReachable
    <2> SUFFICES ASSUME GraphInv, ExecInv, status = "running"
                 PROVE  BlockOf(leaders, ip) \in ReachableBlocks(leaders, edges)
        BY DEF ExecutedIsReachable
    <2>1. leaders = FindLeaders(code) /\ edges = GraphEdges(code) /\ Live(code, ip)
        BY GraphFacts DEF ExecInv
    <2>2. QED
        BY <2>1 DEF Live
<1>2. QED
    BY <1>1, AlwaysGraphInv, AlwaysExecInv, PTL

\* Every normal transfer of control of the VM is an edge of the graph, of the
\* kind the later passes take it for, under the same conditions.
THEOREM TransfersFollowEdges ==
    ASSUME BranchesLand
    PROVE  Spec /\ []RoutingAgrees => TransfersAreEdges
<1>1. GraphInv /\ ExecInv /\ RoutingAgrees => TransferIsEdge
    <2> SUFFICES ASSUME GraphInv, ExecInv, RoutingAgrees, status = "running",
                        status' = "running"
                 PROVE  /\ Advance => InsideBlock \/ AlongEdge({"Unconditional"})
                        /\ Jump \/ EnterTry \/ LeaveTry => AlongEdge({"Unconditional"})
                        /\ Branch(TRUE) \/ Branch(FALSE) =>
                               \/ Branch(TRUE) /\ AlongEdge({"ConditionalTrue"})
                               \/ Branch(FALSE) /\ AlongEdge({"ConditionalFalse"})
                        /\ LeaveThroughFinally => AlongEdge({"Finally"})
                        /\ ResumeAfterFinally => AlongEdge({"FinallyContinuation"})
        BY DEF TransferIsEdge
    <2>1. /\ Branch(TRUE) => AlongEdge({"ConditionalTrue"})
          /\ Branch(FALSE) => AlongEdge({"ConditionalFalse"})
        BY BranchFollows
    <2>2. QED
        BY <2>1, AdvanceFollows, JumpFollows, EnterTryFollows, LeaveTryFollows,
           LeaveThroughFinallyFollows, ResumeFollows
<1>2. QED
    BY <1>1, AlwaysGraphInv, AlwaysExecInv, PTL DEF TransfersAreEdges

\* An ENDTRY is marked non-local exactly when the ENDFINALLY that follows it
\* resumes somewhere else than behind the finally block.
THEOREM LeavesAreMarked ==
    ASSUME BranchesLand
    PROVE  Spec /\ []RoutingAgrees => NonlocalLeaves
<1>1. GraphInv /\ ExecInv /\ RoutingAgrees => LeaveIsMarked
    <2> SUFFICES ASSUME GraphInv, ExecInv, RoutingAgrees, ResumeAfterFinally,
                        status' = "running"
                 PROVE  terminator[BlockOf(leaders, Top.via)].nonlocal <=> Top.end # ip + 1
        BY DEF LeaveIsMarked
    <2>1. /\ code \in Method /\ ip \in Offsets(code)
          /\ Top.try \in Int /\ SavedBy(code, Top)
          /\ {q \in Regions(code) : EndfinallyOffsets(code)[q] = ip} = {Top.try}
        BY ResumedFacts
    <2>2. leaders = FindLeaders(code) /\ terminator = Terminators(code)
        BY GraphFacts DEF ResumeAfterFinally, Running
    <2>3. EndfinallyOffsets(code)[Top.try] = ip
        BY <2>1
    <2>4. QED
        BY <2>1, <2>2, <2>3, NonlocalTarget DEF SavedBy
<1>2. QED
    BY <1>1, AlwaysGraphInv, AlwaysExecInv, PTL DEF NonlocalLeaves

-----------------------------------------------------------------------------
(***************************************************************************)
(* Methods whose TRY statements nest: where statements end, and which       *)
(* statements are around an offset                                         *)
(***************************************************************************)

\* Where statements end.
Ends(m) == [Tries(m) -> 1..EndOffset(m)]

LEMMA StatementFacts ==
    ASSUME NEW m \in Method, NEW after \in Ends(m), PartsInOrder(m, after), NEW r \in Tries(m)
    PROVE  /\ r \in Nat /\ r >= 1 /\ r <= Len(m) /\ Len(m) \in Nat /\ m[r].op = "try"
           /\ after[r] \in Nat /\ r + 2 < after[r] /\ after[r] <= Len(m) + 1
           /\ m[r].catch # 0 => /\ CatchTarget(m, r) \in Nat /\ CatchTarget(m, r) # None
                                /\ r + 2 <= CatchTarget(m, r) /\ CatchTarget(m, r) < after[r]
                                /\ CatchTarget(m, r) = r + m[r].catch
           /\ m[r].finally # 0 => /\ FinallyTarget(m, r) \in Nat /\ FinallyTarget(m, r) # None
                                  /\ r + 2 <= FinallyTarget(m, r)
                                  /\ FinallyTarget(m, r) < after[r]
                                  /\ FinallyTarget(m, r) = r + m[r].finally
           /\ m[r].catch = 0 => CatchTarget(m, r) = None
           /\ m[r].finally = 0 => FinallyTarget(m, r) = None
           /\ m[r].catch # 0 /\ m[r].finally # 0 => CatchTarget(m, r) < FinallyTarget(m, r)
           /\ m[r].catch # 0 \/ m[r].finally # 0
<1>1. r \in 1..Len(m) /\ m[r].op = "try" /\ Len(m) \in Nat
    BY DEF Tries, IsOp, Offsets, Method
<1>2. after[r] \in 1..(Len(m) + 1)
    BY <1>1 DEF Ends, EndOffset
<1>3. /\ m[r].catch # 0 => CatchTarget(m, r) \in (r + 2)..(after[r] - 1)
      /\ m[r].finally # 0 => FinallyTarget(m, r) \in (r + 2)..(after[r] - 1)
      /\ m[r].catch # 0 \/ m[r].finally # 0
      /\ m[r].catch # 0 /\ m[r].finally # 0 => CatchTarget(m, r) < FinallyTarget(m, r)
    BY DEF PartsInOrder
<1>4. /\ m[r].catch = 0 => CatchTarget(m, r) = None
      /\ m[r].finally = 0 => FinallyTarget(m, r) = None
    BY DEF CatchTarget, FinallyTarget
<1>5. \A i : TargetAt(m, i) # None => TargetAt(m, i) = i
    BY DEF TargetAt
<1>6. /\ m[r].catch # 0 => CatchTarget(m, r) = TargetAt(m, r + m[r].catch)
      /\ m[r].finally # 0 => FinallyTarget(m, r) = TargetAt(m, r + m[r].finally)
    BY DEF CatchTarget, FinallyTarget
<1>7. m[r].catch # 0 => /\ CatchTarget(m, r) \in Nat /\ CatchTarget(m, r) # None
                        /\ r + 2 <= CatchTarget(m, r) /\ CatchTarget(m, r) < after[r]
    BY <1>1, <1>2, <1>3, NoneAssumption
<1>8. m[r].finally # 0 => /\ FinallyTarget(m, r) \in Nat /\ FinallyTarget(m, r) # None
                          /\ r + 2 <= FinallyTarget(m, r) /\ FinallyTarget(m, r) < after[r]
    BY <1>1, <1>2, <1>3, NoneAssumption
<1>9. r + 2 < after[r]
    BY <1>1, <1>2, <1>3, <1>7, <1>8
<1>10. QED
    BY <1>1, <1>2, <1>3, <1>4, <1>5, <1>6, <1>7, <1>8, <1>9

\* Every TRY makes a region.
LEMMA TriesAreRegions ==
    ASSUME NEW m \in Method, NEW after \in Ends(m), PartsInOrder(m, after)
    PROVE  Regions(m) = Tries(m)
<1>1. ASSUME NEW r \in Tries(m)
      PROVE  ~ /\ CatchTarget(m, r) # None /\ FinallyTarget(m, r) # None
               /\ CatchTarget(m, r) >= FinallyTarget(m, r)
    BY StatementFacts
<1>2. QED
    BY <1>1 DEF Regions, Tries

LEMMA AroundFacts ==
    ASSUME NEW m \in Method, NEW after \in Ends(m), PartsInOrder(m, after), NEW i \in Int
    PROVE  /\ Around(m, after, i) \subseteq Tries(m)
           /\ \A r \in Tries(m) : r \in Around(m, after, i) <=> r < i /\ i < after[r]
           /\ Around(m, after, i) # {} =>
                /\ Max(Around(m, after, i)) \in Around(m, after, i)
                /\ \A r \in Around(m, after, i) : r <= Max(Around(m, after, i))
<1> DEFINE A == Around(m, after, i)
<1>1. A \subseteq Tries(m) /\ \A r \in Tries(m) : r \in A <=> r < i /\ i < after[r]
    BY DEF Around
<1>2. A \subseteq 1..Len(m) /\ A \subseteq Nat /\ Len(m) \in Nat
    <2>1. \A r \in Tries(m) : r \in Nat /\ r \in 1..Len(m)
        BY StatementFacts
    <2>2. QED
        BY <1>1, <2>1 DEF Method
<1>3. IsFiniteSet(A)
    <2>1. 1 \in Int /\ Len(m) \in Int
        BY <1>2
    <2>2. IsFiniteSet(1..Len(m))
        BY <2>1, FS_Interval, Zenon
    <2>3. QED
        BY <1>2, <2>2, FS_Subset, Zenon
<1>4. QED
    BY <1>1, <1>2, <1>3, MaxIsGreatest

\* A statement around an offset lies, where it starts, in the statements around
\* it in the part the offset lies in.
LEMMA OuterStatement ==
    ASSUME NEW m \in Method, NEW after \in Ends(m), PartsInOrder(m, after),
           StatementsNest(m, after), NEW i \in Int,
           NEW q \in Around(m, after, i), NEW r \in Around(m, after, i), q < r
    PROVE  q \in Around(m, after, r) /\ PartAt(m, q, i) = PartAt(m, q, r)
<1>1. /\ q \in Tries(m) /\ r \in Tries(m) /\ q < i /\ i < after[q] /\ r < i /\ i < after[r]
      /\ q \in Nat /\ r \in Nat /\ after[q] \in Nat /\ after[r] \in Nat
    BY AroundFacts, StatementFacts
<1>2. q \in Around(m, after, r)
    BY <1>1 DEF Around
<1>3. i \in (r + 1)..(after[r] - 1)
    BY <1>1
<1>4. QED
    BY <1>1, <1>2, <1>3 DEF StatementsNest

\* Inside of a statement, but in no statement further in, lies the statement
\* and what lies around it.
LEMMA InnermostPlace ==
    ASSUME NEW m \in Method, NEW after \in Ends(m), PartsInOrder(m, after),
           StatementsNest(m, after), NEW i \in Int, Around(m, after, i) # {},
           NEW r, r = Max(Around(m, after, i))
    PROVE  /\ r \in Tries(m) /\ r \notin Around(m, after, r)
           /\ Around(m, after, i) = Around(m, after, r) \cup {r}
           /\ \A q \in Around(m, after, r) : q < r /\ PartAt(m, q, i) = PartAt(m, q, r)
<1>1. /\ r \in Around(m, after, i) /\ \A q \in Around(m, after, i) : q <= r
      /\ r \in Tries(m) /\ r < i /\ i < after[r]
    BY AroundFacts
<1>2. r \in Nat /\ after[r] \in Nat
    BY <1>1, StatementFacts
<1>3. /\ \A q \in Around(m, after, r) : q \in Tries(m) /\ q \in Nat /\ q < r
      /\ r \notin Around(m, after, r)
    BY <1>1, <1>2, StatementFacts DEF Around
<1>4. \A q \in Around(m, after, r) : q \in Around(m, after, i) /\ PartAt(m, q, i) = PartAt(m, q, r)
    <2>1. i \in (r + 1)..(after[r] - 1)
        BY <1>1, <1>2
    <2>2. QED
        BY <1>1, <2>1 DEF StatementsNest
<1>5. ASSUME NEW q \in Around(m, after, i), q # r PROVE q \in Around(m, after, r)
    <2>1. q \in Nat /\ q <= r
        BY <1>1, AroundFacts, StatementFacts
    <2>2. QED
        BY <1>1, <1>2, <1>5, <2>1, OuterStatement
<1>6. QED
    BY <1>1, <1>3, <1>4, <1>5

\* Two offsets in one place.
LEMMA SamePlace ==
    ASSUME NEW m, NEW after, NEW i, NEW j, Place(m, after, i) = Place(m, after, j)
    PROVE  /\ Around(m, after, i) = Around(m, after, j)
           /\ \A r \in Around(m, after, i) : PartAt(m, r, i) = PartAt(m, r, j)
<1>1. Around(m, after, i) = DOMAIN Place(m, after, i) /\ Around(m, after, j) = DOMAIN Place(m, after, j)
    BY DEF Place
<1>2. \A r \in Around(m, after, i) : Place(m, after, i)[r] = PartAt(m, r, i)
    BY DEF Place
<1>3. \A r \in Around(m, after, j) : Place(m, after, j)[r] = PartAt(m, r, j)
    BY DEF Place
<1>4. QED
    BY <1>1, <1>2, <1>3

-----------------------------------------------------------------------------
(***************************************************************************)
(* The ENDFINALLY of each region                                           *)
(***************************************************************************)

\* The regions closed by offset i.
ClosedBy(m, after, i) ==
    [r \in Tries(m) |-> IF m[r].finally # 0 /\ after[r] - 1 <= i THEN after[r] - 1 ELSE None]

LEMMA ClosedType ==
    ASSUME NEW m \in Method, NEW after \in Ends(m), PartsInOrder(m, after), NEW i
    PROVE  ClosedBy(m, after, i) \in [Tries(m) -> Nat \cup {None}]
<1>1. \A r \in Tries(m) : after[r] \in Nat /\ after[r] >= 2
    BY StatementFacts
<1>2. \A r \in Tries(m) : after[r] - 1 \in Nat
    BY <1>1
<1>3. QED
    BY <1>2 DEF ClosedBy

\* What is active at an offset: the statements whose finally block it lies in.
LEMMA ActiveFacts ==
    ASSUME NEW m \in Method, NEW after \in Ends(m), PartsInOrder(m, after),
           NEW i \in Offsets(m)
    PROVE  Active(m, ClosedBy(m, after, i - 1), i) =
               {r \in Around(m, after, i) : PartAt(m, r, i) = "Finally"}
<1>1. i \in Nat /\ i >= 1
    BY DEF Offsets, Method
<1>2. ASSUME NEW r \in Tries(m)
      PROVE  /\ FinallyTarget(m, r) \in 1..i /\ ClosedBy(m, after, i - 1)[r] = None <=>
                    m[r].finally # 0 /\ FinallyTarget(m, r) <= i /\ i < after[r]
             /\ r < i /\ i < after[r] /\ PartAt(m, r, i) = "Finally" <=>
                    m[r].finally # 0 /\ FinallyTarget(m, r) <= i /\ i < after[r]
    <2>1. /\ r \in Nat /\ after[r] \in Nat /\ after[r] >= 2 /\ r >= 1
          /\ m[r].finally # 0 => /\ FinallyTarget(m, r) \in Nat /\ r + 2 <= FinallyTarget(m, r)
                                 /\ FinallyTarget(m, r) # None
          /\ m[r].finally = 0 => FinallyTarget(m, r) = None
        BY StatementFacts
    <2>2. ClosedBy(m, after, i - 1)[r] =
              IF m[r].finally # 0 /\ after[r] - 1 <= i - 1 THEN after[r] - 1 ELSE None
        BY DEF ClosedBy
    <2>3. after[r] - 1 \in Int /\ after[r] - 1 # None
        BY <2>1, NoneAssumption
    <2>4. PartAt(m, r, i) = "Finally" <=> FinallyTarget(m, r) # None /\ i >= FinallyTarget(m, r)
        BY DEF PartAt
    <2>5. CASE m[r].finally = 0
        <3>1. FinallyTarget(m, r) \notin 1..i
            BY <2>1, <2>5, <1>1, NoneAssumption
        <3>2. QED
            BY <2>1, <2>4, <2>5, <3>1
    <2>6. CASE m[r].finally # 0
        <3>1. ClosedBy(m, after, i - 1)[r] = None <=> i < after[r]
            BY <1>1, <2>1, <2>2, <2>3, <2>6
        <3>2. FinallyTarget(m, r) \in 1..i <=> FinallyTarget(m, r) <= i
            BY <1>1, <2>1, <2>6
        <3>3. PartAt(m, r, i) = "Finally" <=> FinallyTarget(m, r) <= i
            BY <1>1, <2>1, <2>4, <2>6
        <3>4. FinallyTarget(m, r) <= i => r < i
            BY <1>1, <2>1, <2>6
        <3>5. QED
            BY <2>6, <3>1, <3>2, <3>3, <3>4
    <2>7. QED
        BY <2>5, <2>6
<1>3. Regions(m) = Tries(m)
    BY TriesAreRegions
<1>4. QED
    BY <1>2, <1>3 DEF Active, Around

\* The one activated last is the one that starts last.
LEMMA LastFinally ==
    ASSUME NEW m \in Method, NEW after \in Ends(m), PartsInOrder(m, after),
           StatementsNest(m, after), NEW i \in Offsets(m),
           NEW r \in Around(m, after, i), r = Max(Around(m, after, i)),
           PartAt(m, r, i) = "Finally",
           NEW S, S = {q \in Around(m, after, i) : PartAt(m, q, i) = "Finally"}
    PROVE  r \in S /\ ActivatedLast(m, S) = r
<1>1. r \in S /\ i \in Int
    BY DEF Offsets
<1>2. ASSUME NEW q \in S, q # r PROVE FinallyTarget(m, q) < FinallyTarget(m, r)
    <2>1. /\ q \in Around(m, after, i) /\ PartAt(m, q, i) = "Finally"
          /\ q <= r /\ q \in Tries(m) /\ r \in Tries(m)
        BY <1>1, <1>2, AroundFacts
    <2>2. q \in Nat /\ r \in Nat
        BY <2>1, StatementFacts
    <2>3. PartAt(m, q, r) = "Finally"
        BY <1>1, <1>2, <2>1, <2>2, OuterStatement
    <2>4. FinallyTarget(m, q) # None /\ r >= FinallyTarget(m, q)
        BY <2>3 DEF PartAt
    <2>5. FinallyTarget(m, r) # None
        BY DEF PartAt
    <2>6. /\ FinallyTarget(m, q) \in Nat /\ FinallyTarget(m, r) \in Nat
          /\ r + 2 <= FinallyTarget(m, r)
        BY <2>1, <2>4, <2>5, StatementFacts
    <2>7. QED
        BY <2>2, <2>4, <2>6
<1>3. \A q \in S : FinallyTarget(m, q) \in Nat /\ q \in Nat
    <2>1. \A q \in S : q \in Tries(m) /\ FinallyTarget(m, q) # None
        BY <1>1, AroundFacts DEF PartAt
    <2>2. QED
        BY <2>1, StatementFacts
<1> DEFINE Latest(x) == \A q \in S : \/ FinallyTarget(m, q) < FinallyTarget(m, x)
                                     \/ FinallyTarget(m, q) = FinallyTarget(m, x) /\ q <= x
<1>4. Latest(r)
    BY <1>1, <1>2, <1>3
<1>5. ASSUME NEW x \in S, Latest(x) PROVE x = r
    <2>1. \/ FinallyTarget(m, r) < FinallyTarget(m, x)
          \/ FinallyTarget(m, r) = FinallyTarget(m, x)
        BY <1>1, <1>5
    <2>2. QED
        BY <1>1, <1>2, <1>3, <2>1
<1>6. ActivatedLast(m, S) = CHOOSE x \in S : Latest(x)
    BY DEF ActivatedLast
<1>7. QED
    BY <1>1, <1>4, <1>5, <1>6

\* Only the ENDFINALLY behind a finally block closes it.
LEMMA OwnEndfinally ==
    ASSUME NEW m \in Method, NEW after \in Ends(m), PartsInOrder(m, after),
           NEW i \in Int, NEW r \in Tries(m), m[r].finally # 0, after[r] - 1 = i
    PROVE  /\ IsOp(m, i, {"endfinally"}) /\ r = Max(Around(m, after, i))
           /\ r \in Around(m, after, i) /\ PartAt(m, r, i) = "Finally"
<1>1. /\ r \in Nat /\ after[r] \in Nat /\ FinallyTarget(m, r) # None
      /\ FinallyTarget(m, r) \in Nat /\ r + 2 <= FinallyTarget(m, r)
      /\ FinallyTarget(m, r) < after[r]
    BY StatementFacts
<1>2. IsOp(m, i, {"endfinally"}) /\ r = Max(Around(m, after, i))
    BY DEF PartsInOrder
<1>3. r < i /\ i < after[r] /\ i >= FinallyTarget(m, r)
    BY <1>1
<1>4. QED
    BY <1>1, <1>2, <1>3 DEF Around, PartAt

LEMMA ClosesOne ==
    ASSUME NEW m \in Method, NEW after \in Ends(m), WellNested(m, after), NEW i \in Offsets(m)
    PROVE  CloseAt(m, ClosedBy(m, after, i - 1), i) = ClosedBy(m, after, i)
<1> DEFINE before == ClosedBy(m, after, i - 1)
           S == {q \in Around(m, after, i) : PartAt(m, q, i) = "Finally"}
           r == Max(Around(m, after, i))
<1>0. /\ PartsInOrder(m, after) /\ StatementsNest(m, after) /\ ControlStays(m, after)
      /\ i \in Int
    BY DEF WellNested, Offsets
<1>1. Active(m, before, i) = S
    BY <1>0, ActiveFacts
<1>2. \A q \in Tries(m) : /\ ClosedBy(m, after, i)[q] =
                                 IF m[q].finally # 0 /\ after[q] - 1 <= i THEN after[q] - 1 ELSE None
                          /\ before[q] =
                                 IF m[q].finally # 0 /\ after[q] - 1 <= i - 1 THEN after[q] - 1 ELSE None
                          /\ after[q] \in Int
    <2>1. \A q \in Tries(m) : after[q] \in Int
        BY <1>0, StatementFacts
    <2>2. QED
        BY <2>1 DEF ClosedBy
<1>3. DOMAIN ClosedBy(m, after, i) = Tries(m) /\ DOMAIN before = Tries(m)
    BY DEF ClosedBy
<1>4. CASE IsOp(m, i, {"endfinally"}) /\ S # {}
    <2>1. Around(m, after, i) # {}
        BY <1>4
    <2>2. r \in Around(m, after, i) /\ r \in Tries(m)
        BY <1>0, <2>1, AroundFacts
    <2>3. PartAt(m, r, i) = "Finally" /\ i = after[r] - 1
        BY <1>0, <1>4, <2>1 DEF ControlStays
    <2>4. ActivatedLast(m, S) = r
        <3> HIDE DEF S
        <3>1. S = {q \in Around(m, after, i) : PartAt(m, q, i) = "Finally"}
            BY DEF S
        <3> HIDE DEF r
        <3>2. r = Max(Around(m, after, i))
            BY DEF r
        <3>3. QED
            BY <1>0, <2>2, <2>3, <3>1, <3>2, LastFinally
    <2>5. CloseAt(m, before, i) = [before EXCEPT ![r] = i]
        BY <1>1, <1>4, <2>4 DEF CloseAt
    <2>6. m[r].finally # 0
        <3>1. FinallyTarget(m, r) # None
            BY <2>3 DEF PartAt
        <3>2. QED
            BY <3>1 DEF FinallyTarget
    <2>7. \A q \in Tries(m) : m[q].finally # 0 /\ after[q] - 1 = i => q = r
        BY <1>0, OwnEndfinally
    <2>8. \A q \in Tries(m) : ClosedBy(m, after, i)[q] = [before EXCEPT ![r] = i][q]
        <3> SUFFICES ASSUME NEW q \in Tries(m)
                     PROVE  ClosedBy(m, after, i)[q] = [before EXCEPT ![r] = i][q]
            OBVIOUS
        <3> HIDE DEF r, before
        <3>1. CASE q = r
            BY <1>0, <1>2, <1>3, <2>3, <2>6, <3>1
        <3>2. CASE q # r
            <4>1. m[q].finally # 0 => after[q] - 1 # i
                BY <2>7, <3>2
            <4>2. m[q].finally # 0 => (after[q] - 1 <= i <=> after[q] - 1 <= i - 1)
                BY <1>0, <1>2, <4>1
            <4>3. ClosedBy(m, after, i)[q] = before[q]
                BY <1>2, <4>2
            <4>4. QED
                BY <1>3, <3>2, <4>3
        <3>3. QED
            BY <3>1, <3>2
    <2>9. ClosedBy(m, after, i) = [before EXCEPT ![r] = i]
        <3>1. /\ ClosedBy(m, after, i) = [q \in Tries(m) |-> ClosedBy(m, after, i)[q]]
              /\ [before EXCEPT ![r] = i] = [q \in Tries(m) |-> [before EXCEPT ![r] = i][q]]
            BY <1>3 DEF ClosedBy
        <3>2. QED
            BY <2>8, <3>1
    <2>10. QED
        BY <2>5, <2>9
<1>5. CASE ~(IsOp(m, i, {"endfinally"}) /\ S # {})
    <2>1. ASSUME NEW q \in Tries(m), m[q].finally # 0 PROVE after[q] - 1 # i
        <3>1. SUFFICES ASSUME after[q] - 1 = i PROVE FALSE
            OBVIOUS
        <3>2. IsOp(m, i, {"endfinally"}) /\ q \in S
            BY <1>0, <2>1, <3>1, OwnEndfinally
        <3>3. QED
            BY <1>5, <3>2
    <2>2. \A q \in Tries(m) : ClosedBy(m, after, i)[q] = before[q]
        <3> SUFFICES ASSUME NEW q \in Tries(m) PROVE ClosedBy(m, after, i)[q] = before[q]
            OBVIOUS
        <3>1. m[q].finally # 0 => (after[q] - 1 <= i <=> after[q] - 1 <= i - 1)
            BY <1>0, <1>2, <2>1
        <3>2. QED
            BY <1>2, <3>1
    <2>3. ClosedBy(m, after, i) = before
        BY <1>3, <2>2 DEF ClosedBy
    <2>4. CloseAt(m, before, i) = before
        BY <1>1, <1>5 DEF CloseAt
    <2>5. QED
        BY <2>3, <2>4
<1>6. QED
    BY <1>4, <1>5

ListsClosed(m, f) ==
    f = [i \in 0..Len(m) |-> IF i = 0 THEN [r \in Regions(m) |-> None] ELSE CloseAt(m, f[i - 1], i)]

\* assign_endfinally_offsets finds the ENDFINALLY at the end of the statement.
LEMMA EndfinallyOfStatement ==
    ASSUME NEW m \in Method, NEW after \in Ends(m), WellNested(m, after)
    PROVE  EndfinallyOffsets(m) =
               [r \in Tries(m) |-> IF m[r].finally # 0 THEN after[r] - 1 ELSE None]
<1> DEFINE g == [i \in 0..Len(m) |-> ClosedBy(m, after, i)]
           f == CHOOSE h : ListsClosed(m, h)
           N == Len(m)
<1>0. /\ PartsInOrder(m, after) /\ N \in Nat /\ Regions(m) = Tries(m)
      /\ \A i : i \in Offsets(m) <=> i \in 1..N
    BY TriesAreRegions DEF WellNested, Method, Offsets
<1>1. ClosedBy(m, after, 0) = [r \in Regions(m) |-> None]
    <2>1. \A r \in Tries(m) : ~(after[r] - 1 <= 0)
        BY <1>0, StatementFacts
    <2>2. QED
        BY <1>0, <2>1 DEF ClosedBy
<1>2. \A i \in 1..N : CloseAt(m, ClosedBy(m, after, i - 1), i) = ClosedBy(m, after, i)
    BY <1>0, ClosesOne
<1>3. ListsClosed(m, g)
    <2>1. \A i \in 0..N : g[i] = IF i = 0 THEN [r \in Regions(m) |-> None] ELSE CloseAt(m, g[i - 1], i)
        <3>1. ASSUME NEW i \in 1..N PROVE g[i] = CloseAt(m, g[i - 1], i)
            BY <1>0, <1>2
        <3>2. g[0] = [r \in Regions(m) |-> None]
            BY <1>0, <1>1
        <3>3. \A i \in 0..N : i = 0 \/ (i # 0 /\ i \in 1..N)
            BY <1>0
        <3> HIDE DEF g
        <3>4. QED
            BY <3>1, <3>2, <3>3
    <2>2. g = [i \in 0..N |-> IF i = 0 THEN [r \in Regions(m) |-> None] ELSE CloseAt(m, g[i - 1], i)]
        <3> DEFINE h == [i \in 0..N |-> IF i = 0 THEN [r \in Regions(m) |-> None] ELSE CloseAt(m, g[i - 1], i)]
        <3>1. \A i \in 0..N : g[i] = h[i]
            BY <2>1
        <3>2. g = [i \in 0..N |-> g[i]] /\ h = [i \in 0..N |-> h[i]]
            OBVIOUS
        <3> HIDE DEF g, h
        <3>3. g = h
            BY <3>1, <3>2
        <3>4. QED
            BY <3>3 DEF h
    <2> HIDE DEF g
    <2>3. QED
        BY <2>2 DEF ListsClosed
<1>4. ListsClosed(m, f)
    <2> HIDE DEF g
    <2>1. QED
        BY <1>3
<1> DEFINE S == {i \in 0..N : f[i] = ClosedBy(m, after, i)}
<1> HIDE DEF g, f
<1>5. f[0] = [r \in Regions(m) |-> None] /\ \A i \in 1..N : f[i] = CloseAt(m, f[i - 1], i)
    BY <1>0, <1>4 DEF ListsClosed
<1>6. 0 \in S
    BY <1>0, <1>1, <1>5
<1>7. ASSUME NEW k \in 0..(N - 1), k \in S PROVE k + 1 \in S
    <2>1. k + 1 \in 1..N /\ (k + 1) - 1 = k /\ k + 1 \in 0..N
        BY <1>0
    <2>2. f[k + 1] = CloseAt(m, f[k], k + 1)
        BY <1>5, <2>1
    <2>3. CloseAt(m, ClosedBy(m, after, k), k + 1) = ClosedBy(m, after, k + 1)
        BY <1>2, <2>1
    <2>4. QED
        BY <1>7, <2>1, <2>2, <2>3
<1>8. N \in S
    <2> HIDE DEF S
    <2>1. 0..N \subseteq S
        BY <1>0, <1>6, <1>7, BoundedInduction
    <2>2. QED
        BY <1>0, <2>1
<1>9. EndfinallyOffsets(m) = f[N]
    BY DEF EndfinallyOffsets, ListsClosed, f
<1>10. \A r \in Tries(m) : after[r] - 1 <= N
    BY <1>0, StatementFacts
<1>11. ClosedBy(m, after, N) =
           [r \in Tries(m) |-> IF m[r].finally # 0 THEN after[r] - 1 ELSE None]
    BY <1>10 DEF ClosedBy
<1>12. QED
    BY <1>8, <1>9, <1>11

-----------------------------------------------------------------------------
(***************************************************************************)
(* The owner of each ENDTRY                                                *)
(***************************************************************************)

\* The layout ranges of a region hold a TRY or an ENDTRY when its statement does.
LEMMA RangesHoldStatement ==
    ASSUME NEW m \in Method, NEW after \in Ends(m), WellNested(m, after),
           NEW r \in Tries(m), NEW i \in Tries(m) \cup RoutedEndtries(m)
    PROVE  LexicallyContains(m, r, i, EndfinallyOffsets(m)) <=> r \in Around(m, after, i)
<1> DEFINE C == CatchTarget(m, r)
           F == FinallyTarget(m, r)
           ends == EndfinallyOffsets(m)
<1>0. PartsInOrder(m, after) /\ CatchesEnd(m, after) /\ i \in Nat
    BY DEF WellNested, Tries, RoutedEndtries, Endtries, Offsets, Method
<1>1. /\ r \in Nat /\ after[r] \in Nat /\ r + 2 < after[r]
      /\ m[r].catch # 0 => C \in Nat /\ C # None /\ r + 2 <= C /\ C < after[r]
      /\ m[r].finally # 0 => F \in Nat /\ F # None /\ r + 2 <= F /\ F < after[r]
      /\ m[r].catch = 0 => C = None
      /\ m[r].finally = 0 => F = None
      /\ m[r].catch # 0 /\ m[r].finally # 0 => C < F
      /\ m[r].catch # 0 \/ m[r].finally # 0
    BY <1>0, StatementFacts
<1>2. ends[r] = IF m[r].finally # 0 THEN after[r] - 1 ELSE None
    BY EndfinallyOfStatement
<1>3. r \in Around(m, after, i) <=> r < i /\ i < after[r]
    BY DEF Around
<1>4. \A S : S \subseteq Nat /\ S # {} => Min(S) \in S /\ \A x \in S : Min(S) <= x
    BY MinIsLeast
<1>5. ends[r] = None <=> m[r].finally = 0
    <2>1. after[r] - 1 # None
        BY <1>1, NoneAssumption
    <2>2. QED
        BY <1>2, <2>1
<1>6. LexicallyContains(m, r, i, ends) <=>
          \/ i >= r + 1 /\ i < HandlerStart(m, r)
          \/ C # None /\ i >= C /\ i < CatchEnd(m, r)
          \/ m[r].finally # 0 /\ i >= F /\ i <= after[r] - 1
    BY <1>1, <1>2, <1>5 DEF LexicallyContains, BodyStart
<1>7. CASE m[r].finally = 0
    <2>1. {C, F} \ {None} = {C} /\ C \in Nat
        BY <1>1, <1>7
    <2>2. HandlerStart(m, r) = C
        <3>1. Min({C}) \in {C}
            BY <1>4, <2>1
        <3>2. QED
            BY <2>1, <3>1 DEF HandlerStart
    <2>3. i >= C => (i < CatchEnd(m, r) <=> i < after[r])
        BY <1>0, <1>1, <1>7 DEF CatchesEnd
    <2>4. QED
        BY <1>0, <1>1, <1>3, <1>6, <1>7, <2>2, <2>3
<1>8. CASE m[r].finally # 0 /\ m[r].catch = 0
    <2>1. {C, F} \ {None} = {F} /\ F \in Nat
        BY <1>1, <1>8
    <2>2. HandlerStart(m, r) = F
        <3>1. Min({F}) \in {F}
            BY <1>4, <2>1
        <3>2. QED
            BY <2>1, <3>1 DEF HandlerStart
    <2>3. QED
        BY <1>0, <1>1, <1>3, <1>6, <1>8, <2>2
<1>9. CASE m[r].finally # 0 /\ m[r].catch # 0
    <2>1. {C, F} \ {None} = {C, F} /\ C \in Nat /\ F \in Nat /\ C < F
        BY <1>1, <1>9
    <2>2. HandlerStart(m, r) = C
        <3>1. Min({C, F}) \in {C, F} /\ Min({C, F}) <= C
            BY <1>4, <2>1
        <3>2. QED
            BY <2>1, <3>1 DEF HandlerStart
    <2>3. CatchEnd(m, r) = F
        <3>1. CatchEnd(m, r) = Max({F, C})
            BY <1>1, <1>9 DEF CatchEnd
        <3>2. {F, C} \subseteq Nat /\ {F, C} # {} /\ IsFiniteSet({F, C})
            <4>1. C \in Int /\ F \in Int /\ {F, C} \subseteq C..F
                BY <2>1
            <4>2. IsFiniteSet(C..F)
                BY <4>1, FS_Interval, Zenon
            <4>3. IsFiniteSet({F, C})
                BY <4>1, <4>2, FS_Subset, Zenon
            <4>4. QED
                BY <2>1, <4>3
        <3>3. Max({F, C}) \in {F, C} /\ F <= Max({F, C})
            BY <3>2, MaxIsGreatest
        <3>4. QED
            BY <2>1, <3>1, <3>3
    <2>4. QED
        BY <1>0, <1>1, <1>3, <1>6, <1>9, <2>1, <2>2, <2>3
<1>10. QED
    BY <1>7, <1>8, <1>9

\* The statement an ENDTRY leaves.
Left(m, after, i) == Max(Around(m, after, i))

LEMMA EndtryFacts ==
    ASSUME NEW m \in Method, NEW after \in Ends(m), WellNested(m, after),
           NEW i \in RoutedEndtries(m)
    PROVE  /\ i \in Offsets(m) /\ IsOp(m, i, {"endtry"}) /\ i \in Int
           /\ Around(m, after, i) # {}
           /\ Left(m, after, i) \in Tries(m) /\ Left(m, after, i) \in Around(m, after, i)
           /\ Left(m, after, i) \in Nat /\ Left(m, after, i) >= 1 /\ Left(m, after, i) <= Len(m)
           /\ Left(m, after, i) # None
           /\ Around(m, after, JumpTarget(m, i)) = Around(m, after, Left(m, after, i))
<1>1. /\ i \in Offsets(m) /\ IsOp(m, i, {"endtry"}) /\ JumpTarget(m, i) # None /\ i \in Int
    BY DEF RoutedEndtries, Endtries, Offsets
<1>2. PartsInOrder(m, after) /\ ControlStays(m, after)
    BY DEF WellNested
<1>3. Around(m, after, i) # {}
    BY <1>1, <1>2 DEF ControlStays
<1>4. Place(m, after, JumpTarget(m, i)) = Place(m, after, Left(m, after, i))
    BY <1>1, <1>2, <1>3 DEF ControlStays, Left
<1>5. Left(m, after, i) \in Around(m, after, i) /\ Left(m, after, i) \in Tries(m)
    BY <1>1, <1>2, <1>3, AroundFacts DEF Left
<1>6. /\ Left(m, after, i) \in Nat /\ Left(m, after, i) >= 1 /\ Left(m, after, i) <= Len(m)
    BY <1>2, <1>5, StatementFacts
<1>7. Left(m, after, i) # None
    BY <1>6, NoneAssumption
<1>8. QED
    BY <1>1, <1>3, <1>4, <1>5, <1>6, <1>7, SamePlace

\* The innermost of the layout ranges around an ENDTRY.
LEMMA InnermostIsLeft ==
    ASSUME NEW m \in Method, NEW after \in Ends(m), WellNested(m, after),
           NEW i \in RoutedEndtries(m)
    PROVE  Innermost({r \in Regions(m) : LexicallyContains(m, r, i, EndfinallyOffsets(m))})
               = Left(m, after, i)
<1>1. PartsInOrder(m, after) /\ Regions(m) = Tries(m)
    BY TriesAreRegions DEF WellNested
<1>2. \A r \in Tries(m) : LexicallyContains(m, r, i, EndfinallyOffsets(m)) <=> r \in Around(m, after, i)
    BY RangesHoldStatement
<1>3. Around(m, after, i) \subseteq Tries(m) /\ Around(m, after, i) # {}
    BY EndtryFacts DEF Around
<1>4. {r \in Regions(m) : LexicallyContains(m, r, i, EndfinallyOffsets(m))} = Around(m, after, i)
    BY <1>1, <1>2, <1>3
<1>5. QED
    BY <1>3, <1>4 DEF Innermost, Left

\* An ENDTRY that leaves to an ENDTRY: the second leaves the statement around
\* the one the first leaves.
LEMMA LinkFacts ==
    ASSUME NEW m \in Method, NEW after \in Ends(m), WellNested(m, after),
           NEW i \in RoutedEndtries(m), NEW t, t = JumpTarget(m, i), t \in RoutedEndtries(m)
    PROVE  /\ ParentRegion(m, Left(m, after, i), EndfinallyOffsets(m)) = Left(m, after, t)
           /\ LexicallyContains(m, Left(m, after, t), t, EndfinallyOffsets(m))
           /\ Left(m, after, t) < Left(m, after, i)
<1> DEFINE r == Left(m, after, i)
           ends == EndfinallyOffsets(m)
<1>1. PartsInOrder(m, after) /\ Regions(m) = Tries(m)
    BY TriesAreRegions DEF WellNested
<1>2. /\ r \in Tries(m) /\ r \in Nat /\ Around(m, after, t) = Around(m, after, r)
      /\ Around(m, after, t) # {} /\ Left(m, after, t) \in Around(m, after, t)
    BY EndtryFacts
<1>3. \A q \in Tries(m) : LexicallyContains(m, q, r, ends) <=> q \in Around(m, after, r)
    BY <1>2, RangesHoldStatement
<1>4. \A q \in Around(m, after, r) : q < r /\ q \in Tries(m)
    BY DEF Around
<1>5. {q \in Regions(m) : q < r /\ LexicallyContains(m, q, r, ends)} = Around(m, after, r)
    BY <1>1, <1>3, <1>4
<1>6. ParentRegion(m, r, ends) = Left(m, after, t)
    BY <1>2, <1>5 DEF ParentRegion, Innermost, Left
<1>7. LexicallyContains(m, Left(m, after, t), t, ends)
    BY <1>2, <1>4, RangesHoldStatement
<1>8. QED
    BY <1>2, <1>4, <1>6, <1>7

\* What assign_endtry_owners has recorded so far.
Records(m) == [owners : [RoutedEndtries(m) -> Nat \cup {None}], ambiguous : SUBSET Nat, ok : BOOLEAN]

Recorded(m, acc) == {i \in RoutedEndtries(m) : acc.owners[i] # None}

Sound(m, after, acc) ==
    /\ acc.ambiguous = {}
    /\ \A i \in Recorded(m, acc) : acc.owners[i] = Left(m, after, i)

RecordsOne(m, after, acc, i, next) ==
    /\ next \in Records(m) /\ Sound(m, after, next) /\ next.ok = TRUE
    /\ Recorded(m, next) = Recorded(m, acc) \cup {i}

\* Every link of every chain is recorded; that behind `open` may still be missing.
Followed(m, acc, open) ==
    \A i \in Recorded(m, acc) \ open :
        JumpTarget(m, i) \in RoutedEndtries(m) => JumpTarget(m, i) \in Recorded(m, acc)

LEMMA RecordOwnerFacts ==
    ASSUME NEW m \in Method, NEW after \in Ends(m), WellNested(m, after),
           NEW acc \in Records(m), Sound(m, after, acc), NEW i \in RoutedEndtries(m)
    PROVE  RecordsOne(m, after, acc, i, RecordOwner(acc, i, Left(m, after, i)))
<1> DEFINE r == Left(m, after, i)
           next == RecordOwner(acc, i, r)
<1>1. r \in Nat /\ r # None
    BY EndtryFacts
<1>2. acc.owners[i] \in {None, r} /\ acc.ambiguous = {}
    BY DEF Sound, Recorded
<1>3. next = [acc EXCEPT !.owners[i] = r, !.ok = TRUE]
    BY <1>2 DEF RecordOwner
<1>4. /\ next \in Records(m) /\ next.ambiguous = {} /\ next.ok = TRUE
      /\ next.owners = [acc.owners EXCEPT ![i] = r]
    BY <1>1, <1>2, <1>3 DEF Records
<1>5. \A j \in RoutedEndtries(m) : next.owners[j] = IF j = i THEN r ELSE acc.owners[j]
    BY <1>4 DEF Records
<1>6. Recorded(m, next) = Recorded(m, acc) \cup {i}
    BY <1>1, <1>5 DEF Recorded
<1>7. \A j \in Recorded(m, next) : next.owners[j] = Left(m, after, j)
    BY <1>5, <1>6 DEF Sound, Recorded
<1>8. QED
    BY <1>4, <1>6, <1>7 DEF Sound, RecordsOne

\* A chain as far as it has been followed.
Links(m) ==
    [rec : Records(m), go : BOOLEAN, offset : RoutedEndtries(m), owner : Nat, seen : SUBSET Nat]

ChainInv(m, after, base, acc) ==
    /\ Sound(m, after, acc.rec)
    /\ acc.owner = Left(m, after, acc.offset)
    /\ base \subseteq Recorded(m, acc.rec)
    /\ \A i \in acc.seen : i \in RoutedEndtries(m) /\ Left(m, after, i) > acc.owner
    /\ Followed(m, acc.rec, IF acc.go THEN {acc.offset} ELSE {})

LEMMA NextLinkFacts ==
    ASSUME NEW m \in Method, NEW after \in Ends(m), WellNested(m, after), NEW base,
           NEW acc \in Links(m), ChainInv(m, after, base, acc),
           NEW next, next = NextLink(m, EndfinallyOffsets(m), acc)
    PROVE  /\ next \in Links(m) /\ ChainInv(m, after, base, next)
           /\ next.go => acc.go /\ next.owner < acc.owner
<1> DEFINE ends == EndfinallyOffsets(m)
           t == JumpTarget(m, acc.offset)
           r == Left(m, after, t)
           rec == RecordOwner(acc.rec, t, r)
<1>0. /\ acc.rec \in Records(m) /\ acc.go \in BOOLEAN /\ acc.offset \in RoutedEndtries(m)
      /\ acc.owner \in Nat /\ acc.seen \in SUBSET Nat
      /\ acc.owner = Left(m, after, acc.offset)
    BY DEF Links, ChainInv
<1>1. CASE acc.go /\ t \in RoutedEndtries(m)
    <2>1. /\ ParentRegion(m, acc.owner, ends) = r /\ LexicallyContains(m, r, t, ends)
          /\ r < acc.owner
        BY <1>0, <1>1, LinkFacts
    <2>2. r \in Nat /\ r # None /\ acc.offset \in Nat
        BY <1>0, <1>1, EndtryFacts DEF Offsets, Method
    <2>3. acc.offset \notin acc.seen
        BY <1>0 DEF ChainInv
    <2>4. /\ rec \in Records(m) /\ Sound(m, after, rec) /\ rec.ok = TRUE
          /\ Recorded(m, rec) = Recorded(m, acc.rec) \cup {t}
        <3>1. Sound(m, after, acc.rec)
            BY DEF ChainInv
        <3>2. RecordsOne(m, after, acc.rec, t, rec)
            BY <1>0, <1>1, <3>1, RecordOwnerFacts
        <3>3. QED
            BY <3>2 DEF RecordsOne
    <2>5. next = [rec |-> rec, go |-> TRUE, offset |-> t, owner |-> r,
                  seen |-> acc.seen \cup {acc.offset}]
        BY <1>1, <2>1, <2>2, <2>3, <2>4 DEF NextLink
    <2> HIDE DEF rec, r, ends, t
    <2>6. next \in Links(m)
        <3>1. acc.seen \cup {acc.offset} \in SUBSET Nat /\ rec \in Records(m) /\ r \in Nat
            BY <1>0, <2>2, <2>4
        <3>2. t \in RoutedEndtries(m)
            BY <1>1
        <3>3. QED
            BY <2>5, <3>1, <3>2 DEF Links
    <2>7. /\ next.rec = rec /\ next.go = TRUE /\ next.offset = t /\ next.owner = r
          /\ next.seen = acc.seen \cup {acc.offset}
        BY <2>4, <2>5
    <2>8. r = Left(m, after, t)
        BY DEF r
    <2>9. \A i \in next.seen : i \in RoutedEndtries(m) /\ Left(m, after, i) > next.owner
        <3> SUFFICES ASSUME NEW i \in next.seen
                     PROVE  i \in RoutedEndtries(m) /\ Left(m, after, i) > r
            BY <2>7
        <3>1. CASE i = acc.offset
            BY <1>0, <2>1, <3>1
        <3>2. CASE i \in acc.seen
            <4>1. i \in RoutedEndtries(m) /\ Left(m, after, i) > acc.owner
                BY <3>2 DEF ChainInv
            <4>2. Left(m, after, i) \in Nat
                BY <4>1, EndtryFacts
            <4>3. QED
                BY <1>0, <2>1, <2>2, <4>1, <4>2
        <3>3. QED
            BY <2>7, <3>1, <3>2
    <2>10. Followed(m, rec, {t})
        <3>1. Followed(m, acc.rec, {acc.offset})
            BY <1>1 DEF ChainInv
        <3>2. t = JumpTarget(m, acc.offset)
            BY DEF t
        <3>3. QED
            BY <2>4, <3>1, <3>2 DEF Followed
    <2>11. base \subseteq Recorded(m, rec)
        BY <2>4 DEF ChainInv
    <2>12. ChainInv(m, after, base, next)
        BY <2>4, <2>7, <2>8, <2>9, <2>10, <2>11 DEF ChainInv
    <2>13. QED
        BY <1>1, <2>1, <2>6, <2>7, <2>12
<1>2. CASE ~(acc.go /\ t \in RoutedEndtries(m))
    <2>1. next = [acc EXCEPT !.go = FALSE]
        BY <1>2 DEF NextLink
    <2>2. next \in Links(m)
        BY <2>1 DEF Links
    <2>3. /\ next.rec = acc.rec /\ next.go = FALSE /\ next.offset = acc.offset
          /\ next.owner = acc.owner /\ next.seen = acc.seen
        BY <2>1 DEF Links
    <2>4. Followed(m, acc.rec, {})
        <3>1. Followed(m, acc.rec, IF acc.go THEN {acc.offset} ELSE {})
            BY DEF ChainInv
        <3>2. QED
            BY <1>2, <3>1 DEF Followed
    <2>5. ChainInv(m, after, base, next)
        BY <2>3, <2>4 DEF ChainInv
    <2>6. QED
        BY <2>2, <2>3, <2>5
<1>3. QED
    BY <1>1, <1>2

\* The states of a chain, one link at a time.
ListsLinks(m, ends, rec, root, owner, f) ==
    f = [k \in 0..Len(m) |->
            IF k = 0 THEN [rec |-> rec, go |-> TRUE, offset |-> root, owner |-> owner, seen |-> {}]
                     ELSE NextLink(m, ends, f[k - 1])]

\* A chain is followed to its end: every link leaves a statement further out.
LEMMA FollowChainFacts ==
    ASSUME NEW m \in Method, NEW after \in Ends(m), WellNested(m, after),
           NEW rec \in Records(m), Sound(m, after, rec), NEW root \in RoutedEndtries(m),
           Followed(m, rec, {root}),
           NEW next, next = FollowChain(m, rec, root, Left(m, after, root), EndfinallyOffsets(m))
    PROVE  /\ next \in Records(m) /\ Sound(m, after, next) /\ Followed(m, next, {})
           /\ Recorded(m, rec) \subseteq Recorded(m, next)
<1> DEFINE ends == EndfinallyOffsets(m)
           owner == Left(m, after, root)
           b == [rec |-> rec, go |-> TRUE, offset |-> root, owner |-> owner, seen |-> {}]
           base == Recorded(m, rec)
           D == {acc \in Links(m) : ChainInv(m, after, base, acc)}
           N == Len(m)
           F == [p \in (0..(N - 1)) \X D |-> NextLink(m, ends, p[2])]
           g == Iterate(D, b, F, N)
           f == CHOOSE h : ListsLinks(m, ends, rec, root, owner, h)
<1>0. N \in Nat /\ N >= 1 /\ owner \in Nat /\ owner >= 1 /\ owner <= N
    BY EndtryFacts DEF Method
<1>1. b \in D
    <2>1. b \in Links(m)
        BY <1>0 DEF Links
    <2>2. ChainInv(m, after, base, b)
        BY DEF ChainInv
    <2>3. QED
        BY <2>1, <2>2
<1>2. \A k \in 0..(N - 1), d \in D : NextLink(m, ends, d) \in D /\ F[<<k, d>>] = NextLink(m, ends, d)
    <2>1. \A d \in D : NextLink(m, ends, d) \in D
        BY NextLinkFacts
    <2>2. QED
        BY <2>1
<1>3. /\ g \in [0..N -> D] /\ g[0] = b
      /\ \A k \in 0..(N - 1) : g[k + 1] = NextLink(m, ends, g[k])
    <2> HIDE DEF D, F, b
    <2>1. \A k \in 0..(N - 1), d \in D : F[<<k, d>>] \in D
        BY <1>0, <1>2
    <2>2. /\ g \in [0..N -> D] /\ g[0] = b
          /\ \A k \in 0..(N - 1) : g[k + 1] = F[<<k, g[k]>>]
        BY <1>0, <1>1, <2>1, RecursionUpTo
    <2> HIDE DEF g
    <2>3. \A k \in 0..(N - 1) : g[k] \in D
        BY <1>0, <2>2
    <2>4. QED
        BY <1>2, <2>2, <2>3
<1> HIDE DEF D, F, g, b
<1>4. ListsLinks(m, ends, rec, root, owner, g)
    <2>1. \A k \in 0..N : g[k] = IF k = 0 THEN b ELSE NextLink(m, ends, g[k - 1])
        <3>1. ASSUME NEW k \in 0..N, k # 0 PROVE g[k] = NextLink(m, ends, g[k - 1])
            <4>1. k - 1 \in 0..(N - 1) /\ (k - 1) + 1 = k
                BY <1>0, <3>1
            <4>2. QED
                BY <1>3, <4>1
        <3>2. QED
            BY <1>3, <3>1
    <2>2. g = [k \in 0..N |-> IF k = 0 THEN b ELSE NextLink(m, ends, g[k - 1])]
        BY <1>3, <2>1
    <2>3. QED
        BY <2>2 DEF ListsLinks, b
<1>5. ListsLinks(m, ends, rec, root, owner, f)
    BY <1>4
<1> HIDE DEF f
<1>6. f[0] = b /\ \A k \in 1..N : f[k] = NextLink(m, ends, f[k - 1])
    <2>1. f = [k \in 0..N |-> IF k = 0 THEN b ELSE NextLink(m, ends, f[k - 1])]
        BY <1>5 DEF ListsLinks, b
    <2>2. \A k \in 0..N : f[k] = IF k = 0 THEN b ELSE NextLink(m, ends, f[k - 1])
        BY <2>1
    <2>3. 0 \in 0..N /\ \A k \in 1..N : k \in 0..N /\ k # 0
        BY <1>0
    <2>4. QED
        BY <2>2, <2>3
<1> DEFINE S == {k \in 0..N : f[k] \in D /\ (f[k].go => f[k].owner + k <= owner)}
<1>7. 0 \in S
    <2>1. b.owner = owner
        BY DEF b
    <2>2. QED
        BY <1>0, <1>1, <1>6, <2>1
<1>8. ASSUME NEW k \in 0..(N - 1), k \in S PROVE k + 1 \in S
    <2>1. k + 1 \in 1..N /\ (k + 1) - 1 = k /\ k + 1 \in 0..N
        BY <1>0
    <2>2. f[k + 1] = NextLink(m, ends, f[k]) /\ f[k] \in D
        BY <1>6, <1>8, <2>1
    <2>3. /\ f[k + 1] \in D /\ f[k] \in Links(m) /\ f[k + 1] \in Links(m)
          /\ f[k + 1].go => f[k].go /\ f[k + 1].owner < f[k].owner
        BY <2>2, NextLinkFacts DEF D
    <2>4. f[k].owner \in Nat /\ f[k + 1].owner \in Nat
        BY <2>3 DEF Links
    <2>5. f[k + 1].go => f[k + 1].owner + (k + 1) <= owner
        BY <1>0, <1>8, <2>3, <2>4
    <2>6. QED
        BY <2>1, <2>3, <2>5
<1>9. N \in S
    <2> HIDE DEF S
    <2>1. 0..N \subseteq S
        BY <1>0, <1>7, <1>8, BoundedInduction
    <2>2. QED
        BY <1>0, <2>1
<1>10. /\ f[N] \in Links(m) /\ ChainInv(m, after, base, f[N])
       /\ f[N].go => f[N].owner + N <= owner
    BY <1>9 DEF D
<1>11. f[N].owner \in Nat /\ f[N].owner >= 1
    <2>1. f[N].offset \in RoutedEndtries(m) /\ f[N].owner = Left(m, after, f[N].offset)
        BY <1>10 DEF Links, ChainInv
    <2>2. QED
        BY <2>1, EndtryFacts
<1>12. f[N].go = FALSE
    <2>1. f[N].go \in BOOLEAN
        BY <1>10 DEF Links
    <2>2. QED
        BY <1>0, <1>10, <1>11, <2>1
<1>13. next = f[N].rec
    BY DEF FollowChain, ListsLinks, f
<1>14. QED
    BY <1>10, <1>12, <1>13 DEF ChainInv, Links

\* A root is owned by the innermost statement around it, and its chain followed.
LEMMA OwnRootFacts ==
    ASSUME NEW m \in Method, NEW after \in Ends(m), WellNested(m, after),
           NEW acc \in Records(m), Sound(m, after, acc), Followed(m, acc, {}),
           NEW root \in RoutedEndtries(m),
           NEW next, next = OwnRoot(m, EndfinallyOffsets(m), acc, root)
    PROVE  /\ next \in Records(m) /\ Sound(m, after, next) /\ Followed(m, next, {})
           /\ Recorded(m, acc) \cup {root} \subseteq Recorded(m, next)
<1> DEFINE ends == EndfinallyOffsets(m)
           owner == Left(m, after, root)
           rec == RecordOwner(acc, root, owner)
<1>1. Innermost({r \in Regions(m) : LexicallyContains(m, r, root, ends)}) = owner
    BY InnermostIsLeft
<1>2. owner # None
    BY EndtryFacts
<1>3. /\ rec \in Records(m) /\ Sound(m, after, rec) /\ rec.ok = TRUE
      /\ Recorded(m, rec) = Recorded(m, acc) \cup {root}
    <2>1. RecordsOne(m, after, acc, root, rec)
        BY RecordOwnerFacts
    <2>2. QED
        BY <2>1 DEF RecordsOne
<1>4. next = FollowChain(m, rec, root, owner, ends)
    BY <1>1, <1>2, <1>3 DEF OwnRoot
<1> HIDE DEF rec
<1>5. Followed(m, rec, {root})
    BY <1>3 DEF Followed
<1>6. QED
    BY <1>3, <1>4, <1>5, FollowChainFacts

ListsOwned(m, ends, f) ==
    f = [i \in 0..Len(m) |->
            IF i = 0 THEN [owners |-> [j \in RoutedEndtries(m) |-> None],
                           ambiguous |-> {}, ok |-> TRUE]
            ELSE IF i \in Roots(m) THEN OwnRoot(m, ends, f[i - 1], i)
            ELSE f[i - 1]]

\* assign_endtry_owners gives an ENDTRY to the statement it leaves, all of them.
LEMMA OwnersOfStatements ==
    ASSUME NEW m \in Method, NEW after \in Ends(m), WellNested(m, after)
    PROVE  \A i \in RoutedEndtries(m) : Owners(m)[i] = Left(m, after, i)
<1> DEFINE N == Len(m)
           ends == EndfinallyOffsets(m)
           R == RoutedEndtries(m)
           b == [owners |-> [j \in R |-> None], ambiguous |-> {}, ok |-> TRUE]
           D == {acc \in Records(m) : Sound(m, after, acc) /\ Followed(m, acc, {})}
           Step(acc, i) == IF i \in Roots(m) THEN OwnRoot(m, ends, acc, i) ELSE acc
           F == [p \in (0..(N - 1)) \X D |-> Step(p[2], p[1] + 1)]
           g == Iterate(D, b, F, N)
           f == CHOOSE h : ListsOwned(m, ends, h)
<1>0. N \in Nat /\ Roots(m) \subseteq R /\ \A i \in R : i \in 1..N
    BY DEF Method, Roots, RoutedEndtries, Endtries, Offsets
<1>1. b \in D
    <2>1. b \in Records(m) /\ Recorded(m, b) = {}
        BY DEF Records, Recorded
    <2>2. Sound(m, after, b) /\ Followed(m, b, {})
        BY <2>1 DEF Sound, Followed
    <2>3. QED
        BY <2>1, <2>2
<1>2. \A d \in D, i \in 1..N :
          /\ Step(d, i) \in D
          /\ Recorded(m, d) \cup (Roots(m) \cap {i}) \subseteq Recorded(m, Step(d, i))
    <2> SUFFICES ASSUME NEW d \in D, NEW i \in 1..N
                 PROVE  /\ Step(d, i) \in D
                        /\ Recorded(m, d) \cup (Roots(m) \cap {i}) \subseteq Recorded(m, Step(d, i))
        OBVIOUS
    <2>1. CASE i \in Roots(m)
        <3>1. i \in R /\ Step(d, i) = OwnRoot(m, ends, d, i)
            BY <1>0, <2>1
        <3>2. QED
            BY <3>1, OwnRootFacts
    <2>2. CASE i \notin Roots(m)
        BY <2>2
    <2>3. QED
        BY <2>1, <2>2
<1> HIDE DEF D, Step, b
<1>3. \A k \in 0..(N - 1), d \in D : F[<<k, d>>] = Step(d, k + 1) /\ F[<<k, d>>] \in D
    <2>1. \A k \in 0..(N - 1) : k + 1 \in 1..N
        BY <1>0
    <2>2. QED
        BY <1>2, <2>1
<1> HIDE DEF F
<1>4. /\ g \in [0..N -> D] /\ g[0] = b
      /\ \A k \in 0..(N - 1) : g[k + 1] = Step(g[k], k + 1)
    <2>1. /\ g \in [0..N -> D] /\ g[0] = b
          /\ \A k \in 0..(N - 1) : g[k + 1] = F[<<k, g[k]>>]
        BY <1>0, <1>1, <1>3, RecursionUpTo
    <2> HIDE DEF g
    <2>2. \A k \in 0..(N - 1) : g[k] \in D
        BY <1>0, <2>1
    <2>3. QED
        BY <1>3, <2>1, <2>2
<1> HIDE DEF g
<1>5. ListsOwned(m, ends, g)
    <2>1. \A i \in 0..N : g[i] = IF i = 0 THEN b
                                 ELSE IF i \in Roots(m) THEN OwnRoot(m, ends, g[i - 1], i)
                                 ELSE g[i - 1]
        <3>1. ASSUME NEW i \in 0..N, i # 0
              PROVE  g[i] = IF i \in Roots(m) THEN OwnRoot(m, ends, g[i - 1], i) ELSE g[i - 1]
            <4>1. i - 1 \in 0..(N - 1) /\ (i - 1) + 1 = i
                BY <1>0, <3>1
            <4>2. QED
                BY <1>4, <4>1 DEF Step
        <3>2. QED
            BY <1>4, <3>1
    <2>2. g = [i \in 0..N |-> IF i = 0 THEN b
                              ELSE IF i \in Roots(m) THEN OwnRoot(m, ends, g[i - 1], i)
                              ELSE g[i - 1]]
        BY <1>4, <2>1
    <2>3. QED
        BY <2>2 DEF ListsOwned, b
<1>6. ListsOwned(m, ends, f)
    BY <1>5
<1> HIDE DEF f
<1>7. f[0] = b /\ \A i \in 1..N : f[i] = Step(f[i - 1], i)
    <2>1. f = [i \in 0..N |-> IF i = 0 THEN b
                              ELSE IF i \in Roots(m) THEN OwnRoot(m, ends, f[i - 1], i)
                              ELSE f[i - 1]]
        BY <1>6 DEF ListsOwned, b
    <2>2. \A i \in 0..N : f[i] = IF i = 0 THEN b
                                 ELSE IF i \in Roots(m) THEN OwnRoot(m, ends, f[i - 1], i)
                                 ELSE f[i - 1]
        BY <2>1
    <2>3. 0 \in 0..N /\ \A i \in 1..N : i \in 0..N /\ i # 0
        BY <1>0
    <2>4. QED
        BY <2>2, <2>3 DEF Step
<1> DEFINE S == {k \in 0..N : f[k] \in D /\ \A i \in Roots(m) : i <= k => i \in Recorded(m, f[k])}
<1>8. 0 \in S
    BY <1>0, <1>1, <1>7
<1>9. ASSUME NEW k \in 0..(N - 1), k \in S PROVE k + 1 \in S
    <2>1. k + 1 \in 1..N /\ (k + 1) - 1 = k /\ k + 1 \in 0..N
        BY <1>0
    <2>2. f[k + 1] = Step(f[k], k + 1) /\ f[k] \in D
        BY <1>7, <1>9, <2>1
    <2>3. /\ f[k + 1] \in D
          /\ Recorded(m, f[k]) \cup (Roots(m) \cap {k + 1}) \subseteq Recorded(m, f[k + 1])
        BY <1>2, <2>1, <2>2
    <2>4. \A i \in Roots(m) : i <= k + 1 => i <= k \/ i = k + 1
        BY <1>0
    <2>5. QED
        BY <1>9, <2>1, <2>3, <2>4
<1>10. N \in S
    <2> HIDE DEF S
    <2>1. 0..N \subseteq S
        BY <1>0, <1>8, <1>9, BoundedInduction
    <2>2. QED
        BY <1>0, <2>1
<1> DEFINE acc == f[N]
<1>11. /\ Sound(m, after, acc) /\ Followed(m, acc, {})
       /\ Roots(m) \subseteq Recorded(m, acc)
    BY <1>0, <1>10 DEF D
<1>12. Owners(m) = acc.owners
    BY DEF Owners, EndtryOwners, ListsOwned, f
<1> HIDE DEF acc
<1>13. R \subseteq Recorded(m, acc)
    <2> DEFINE Missing == R \ Recorded(m, acc)
               T == {Left(m, after, i) : i \in Missing}
    <2>1. SUFFICES ASSUME Missing # {} PROVE FALSE
        OBVIOUS
    <2>2. T \subseteq 1..N /\ T \subseteq Nat /\ T # {} /\ IsFiniteSet(T)
        <3>1. T \subseteq 1..N /\ T \subseteq Nat /\ T # {}
            BY <1>0, <2>1, EndtryFacts
        <3>2. 1 \in Int /\ N \in Int
            BY <1>0
        <3>3. IsFiniteSet(1..N)
            BY <3>2, FS_Interval, Zenon
        <3> HIDE DEF T
        <3>4. QED
            BY <3>1, <3>3, FS_Subset
    <2>3. PICK x \in T : \A y \in T : y <= x
        <3> HIDE DEF T
        <3>1. QED
            BY <2>2, GreatestNatural
    <2>4. PICK i \in Missing : x = Left(m, after, i)
        BY <2>3
    <2>5. PICK j \in R : JumpTarget(m, j) = i
        BY <1>11, <2>4 DEF Roots
    <2>6. Left(m, after, i) < Left(m, after, j) /\ Left(m, after, i) \in Nat /\ Left(m, after, j) \in Nat
        BY <2>4, <2>5, LinkFacts, EndtryFacts
    <2>7. j \notin Missing
        BY <2>3, <2>4, <2>6
    <2>8. QED
        BY <1>11, <2>4, <2>5, <2>7 DEF Followed
<1>14. QED
    BY <1>11, <1>12, <1>13 DEF Sound

-----------------------------------------------------------------------------
(***************************************************************************)
(* The try contexts of the VM are the statements around its instruction    *)
(***************************************************************************)

Context == [try : Nat, state : {"Try", "Catch", "Finally"}, end : Int, via : Int]

\* The stack of contexts at offset i.
Stacked(m, after, stack, i) ==
    /\ \A j, k \in DOMAIN stack : j < k => stack[j].try < stack[k].try
    /\ Around(m, after, i) = {stack[k].try : k \in DOMAIN stack}
    /\ \A k \in DOMAIN stack : stack[k].state = PartAt(m, stack[k].try, i)

\* A saved target lies where the statement stands.
Resumes(m, after, stack) ==
    \A k \in DOMAIN stack : stack[k].end \in Offsets(m) =>
        Place(m, after, stack[k].end) = Place(m, after, stack[k].try)

\* A stack read up to its k-th context.
UpTo(s, stack, k) == /\ s \in Seq(Context) /\ Len(s) = k
                     /\ \A j \in 1..k : s[j] = stack[j]

LEMMA ContextTry ==
    ASSUME NEW m \in Method, NEW after \in Ends(m), NEW i \in Int,
           NEW stack \in Seq(Context), Stacked(m, after, stack, i), NEW k \in DOMAIN stack
    PROVE  /\ stack[k].try \in Around(m, after, i) /\ stack[k].try \in Tries(m)
           /\ stack[k].try \in Nat /\ stack[k].state = PartAt(m, stack[k].try, i)
           /\ k \in 1..Len(stack) /\ k \in Nat /\ Len(stack) \in Nat /\ stack[k] \in Context
<1>1. stack[k] \in Context /\ k \in 1..Len(stack) /\ Len(stack) \in Nat /\ k \in Nat
    OBVIOUS
<1>2. stack[k].try \in Around(m, after, i) /\ stack[k].state = PartAt(m, stack[k].try, i)
    BY DEF Stacked
<1>3. QED
    BY <1>1, <1>2 DEF Around, Context

\* The contexts below one are the statements around its TRY.
Below(m, after, stack, k) ==
    /\ Around(m, after, stack[k].try) = {stack[j].try : j \in 1..(k - 1)}
    /\ \A j \in 1..(k - 1) : stack[j].state = PartAt(m, stack[j].try, stack[k].try)

LEMMA ContextsBelow ==
    ASSUME NEW m \in Method, NEW after \in Ends(m), PartsInOrder(m, after),
           StatementsNest(m, after), NEW i \in Int,
           NEW stack \in Seq(Context), Stacked(m, after, stack, i),
           NEW k \in DOMAIN stack
    PROVE  Below(m, after, stack, k)
<1> DEFINE r == stack[k].try
<1>1. /\ r \in Around(m, after, i) /\ r \in Tries(m) /\ r \in Nat
      /\ k \in 1..Len(stack) /\ Len(stack) \in Nat
    BY ContextTry
<1>2. ASSUME NEW j \in 1..(k - 1)
      PROVE  stack[j].try \in Around(m, after, r) /\ stack[j].state = PartAt(m, stack[j].try, r)
    <2>1. j \in DOMAIN stack /\ j < k
        BY <1>1
    <2>2. stack[j].try < r
        BY <2>1 DEF Stacked
    <2>3. /\ stack[j].try \in Around(m, after, i) /\ stack[j].state = PartAt(m, stack[j].try, i)
        BY <2>1, ContextTry
    <2>4. QED
        BY <1>1, <2>2, <2>3, OuterStatement
<1>3. ASSUME NEW q \in Around(m, after, r) PROVE \E j \in 1..(k - 1) : q = stack[j].try
    <2>1. q < r /\ q \in Tries(m) /\ q \in Nat
        BY <1>1, StatementFacts DEF Around
    <2>2. i \in (r + 1)..(after[r] - 1)
        <3>1. r < i /\ i < after[r] /\ after[r] \in Nat
            BY <1>1, AroundFacts, StatementFacts
        <3>2. QED
            BY <1>1, <3>1
    <2>3. q \in Around(m, after, i)
        BY <1>1, <2>2 DEF StatementsNest
    <2>4. PICK j \in DOMAIN stack : q = stack[j].try
        BY <2>3 DEF Stacked
    <2>5. j \in 1..Len(stack) /\ j # k
        BY <1>1, <2>1, <2>4
    <2>6. ~(k < j)
        <3>1. k < j => r < q
            BY <2>4 DEF Stacked
        <3>2. QED
            BY <1>1, <2>1, <3>1
    <2>7. j \in 1..(k - 1)
        BY <1>1, <2>5, <2>6
    <2>8. QED
        BY <2>4, <2>7
<1>4. QED
    BY <1>2, <1>3 DEF Below

\* The context on top is the statement an ENDTRY leaves.
LEMMA TopContext ==
    ASSUME NEW m \in Method, NEW after \in Ends(m), PartsInOrder(m, after),
           NEW i \in Int, NEW stack \in Seq(Context), stack # <<>>,
           Stacked(m, after, stack, i)
    PROVE  /\ Last(stack) = stack[Len(stack)] /\ Len(stack) \in DOMAIN stack
           /\ Last(stack).try = Max(Around(m, after, i)) /\ Around(m, after, i) # {}
           /\ Last(stack).state = PartAt(m, Last(stack).try, i)
<1> DEFINE n == Len(stack)
<1>1. n \in DOMAIN stack /\ n \in Nat /\ Last(stack) = stack[n] /\ DOMAIN stack = 1..n
    BY DEF Last
<1>2. stack[n].try \in Around(m, after, i) /\ stack[n].try \in Nat
    BY <1>1, ContextTry
<1>3. \A q \in Around(m, after, i) : q <= stack[n].try
    <2> SUFFICES ASSUME NEW q \in Around(m, after, i) PROVE q <= stack[n].try
        OBVIOUS
    <2>1. PICK j \in DOMAIN stack : q = stack[j].try
        BY DEF Stacked
    <2>2. j = n \/ j < n
        BY <1>1
    <2>3. j < n => q < stack[n].try
        BY <1>1, <2>1 DEF Stacked
    <2>4. q \in Nat
        BY <2>1, ContextTry
    <2>5. QED
        BY <1>2, <2>1, <2>2, <2>3, <2>4
<1>4. /\ Max(Around(m, after, i)) \in Around(m, after, i)
      /\ stack[n].try <= Max(Around(m, after, i)) /\ Max(Around(m, after, i)) \in Nat
    <2>1. \A q \in Around(m, after, i) : q \in Nat
        BY AroundFacts, StatementFacts
    <2>2. QED
        BY <1>2, <2>1, AroundFacts
<1>5. Max(Around(m, after, i)) = stack[n].try
    BY <1>2, <1>3, <1>4
<1>6. stack[n].state = PartAt(m, stack[n].try, i)
    BY <1>1, ContextTry
<1>7. QED
    BY <1>1, <1>2, <1>5, <1>6

\* Control goes on in the same place.
LEMMA StacksSame ==
    ASSUME NEW m, NEW after, NEW i, NEW j, NEW stack,
           Stacked(m, after, stack, i), Place(m, after, j) = Place(m, after, i)
    PROVE  Stacked(m, after, stack, j)
<1>1. /\ Around(m, after, j) = Around(m, after, i)
      /\ \A r \in Around(m, after, j) : PartAt(m, r, j) = PartAt(m, r, i)
    BY SamePlace
<1>2. \A k \in DOMAIN stack : stack[k].try \in Around(m, after, j)
    BY <1>1 DEF Stacked
<1>3. QED
    BY <1>1, <1>2 DEF Stacked

\* Control goes on where the statement of the k-th context stands.
LEMMA StacksBelow ==
    ASSUME NEW m \in Method, NEW after \in Ends(m), PartsInOrder(m, after),
           StatementsNest(m, after), NEW i \in Int,
           NEW stack \in Seq(Context), Stacked(m, after, stack, i),
           NEW k \in DOMAIN stack, NEW s, UpTo(s, stack, k - 1),
           NEW j, Place(m, after, j) = Place(m, after, stack[k].try)
    PROVE  Stacked(m, after, s, j)
<1> DEFINE r == stack[k].try
<1>1. /\ Around(m, after, r) = {stack[n].try : n \in 1..(k - 1)}
      /\ \A n \in 1..(k - 1) : stack[n].state = PartAt(m, stack[n].try, r)
    <2>1. Below(m, after, stack, k)
        BY ContextsBelow
    <2>2. QED
        BY <2>1 DEF Below
<1>2. /\ DOMAIN s = 1..(k - 1) /\ \A n \in 1..(k - 1) : s[n] = stack[n] /\ n \in DOMAIN stack
    <2>1. k \in 1..Len(stack) /\ Len(stack) \in Nat
        OBVIOUS
    <2>2. QED
        BY <2>1 DEF UpTo
<1>3. Stacked(m, after, s, r)
    <2>1. \A a, b \in DOMAIN s : a < b => s[a].try < s[b].try
        BY <1>2 DEF Stacked
    <2>2. Around(m, after, r) = {s[n].try : n \in DOMAIN s}
        BY <1>1, <1>2
    <2>3. \A n \in DOMAIN s : s[n].state = PartAt(m, s[n].try, r)
        BY <1>1, <1>2
    <2>4. QED
        BY <2>1, <2>2, <2>3 DEF Stacked
<1>4. QED
    BY <1>3, StacksSame

\* The first instruction of a handler.
HandlerOf(m, r, state, h) ==
    \/ state = "Catch" /\ m[r].catch # 0 /\ h = CatchTarget(m, r)
    \/ state = "Finally" /\ m[r].finally # 0 /\ h = FinallyTarget(m, r)

LEMMA HandlerPlace ==
    ASSUME NEW m \in Method, NEW after \in Ends(m), PartsInOrder(m, after),
           StatementsNest(m, after), NEW r \in Tries(m), NEW state, NEW h,
           HandlerOf(m, r, state, h)
    PROVE  /\ h \in Int /\ Around(m, after, h) = Around(m, after, r) \cup {r}
           /\ PartAt(m, r, h) = state
           /\ \A q \in Around(m, after, r) : PartAt(m, q, h) = PartAt(m, q, r)
<1>1. /\ r \in Nat /\ after[r] \in Nat /\ h \in Nat /\ r < h /\ h < after[r]
    BY StatementFacts DEF HandlerOf
<1>2. PartAt(m, r, h) = state
    BY StatementFacts DEF HandlerOf, PartAt
<1>3. h \in (r + 1)..(after[r] - 1) /\ r \in Around(m, after, h)
    BY <1>1 DEF Around
<1>4. \A q \in Around(m, after, r) : q \in Around(m, after, h) /\ PartAt(m, q, h) = PartAt(m, q, r)
    BY <1>3 DEF StatementsNest
<1>5. ASSUME NEW q \in Around(m, after, h), q # r PROVE q \in Around(m, after, r)
    <2>1. q \in Tries(m) /\ q \in Nat /\ after[q] \in Nat /\ q < h /\ h < after[q]
        <3>1. q \in Tries(m) /\ q < h /\ h < after[q]
            BY DEF Around
        <3>2. QED
            BY <3>1, StatementFacts
    <2>2. CASE q < r
        BY <1>1, <1>3, <2>2, OuterStatement
    <2>3. CASE r < q
        <3>1. r \in Around(m, after, q)
            BY <1>1, <2>1, <2>3 DEF Around
        <3>2. h \in (q + 1)..(after[q] - 1)
            BY <1>1, <2>1
        <3>3. PartAt(m, r, q) = state
            BY <1>2, <2>1, <3>1, <3>2 DEF StatementsNest
        <3>4. QED
            BY <1>1, <2>1, <3>3, StatementFacts DEF PartAt, HandlerOf
    <2>4. QED
        BY <1>1, <1>5, <2>1, <2>2, <2>3
<1>6. Around(m, after, h) = Around(m, after, r) \cup {r}
    BY <1>3, <1>4, <1>5
<1>7. QED
    BY <1>1, <1>2, <1>4, <1>6

\* Control goes to a handler of the statement of the k-th context.
LEMMA StacksHandler ==
    ASSUME NEW m \in Method, NEW after \in Ends(m), PartsInOrder(m, after),
           StatementsNest(m, after), NEW i \in Int,
           NEW stack \in Seq(Context), Stacked(m, after, stack, i),
           NEW k \in DOMAIN stack, NEW s, s \in Seq(Context), Len(s) = k,
           \A n \in 1..(k - 1) : s[n] = stack[n],
           s[k].try = stack[k].try, NEW h, HandlerOf(m, stack[k].try, s[k].state, h)
    PROVE  Stacked(m, after, s, h)
<1> DEFINE r == stack[k].try
<1>0. /\ r \in Tries(m) /\ k \in 1..Len(stack) /\ k \in Nat /\ Len(stack) \in Nat
      /\ \A n \in 1..k : n = k \/ n \in 1..(k - 1)
      /\ \A n \in 1..(k - 1) : n \in 1..k /\ n \in DOMAIN stack /\ n < k
      /\ k \in 1..k
    <2>1. r \in Tries(m)
        BY ContextTry
    <2>2. k \in 1..Len(stack) /\ k \in Nat /\ Len(stack) \in Nat /\ DOMAIN stack = 1..Len(stack)
        OBVIOUS
    <2>3. QED
        BY <2>1, <2>2
<1>1. /\ Around(m, after, r) = {stack[n].try : n \in 1..(k - 1)}
      /\ \A n \in 1..(k - 1) : stack[n].state = PartAt(m, stack[n].try, r)
    <2>1. Below(m, after, stack, k)
        BY ContextsBelow
    <2>2. QED
        BY <2>1 DEF Below
<1>2. /\ Around(m, after, h) = Around(m, after, r) \cup {r}
      /\ PartAt(m, r, h) = s[k].state
      /\ \A q \in Around(m, after, r) : PartAt(m, q, h) = PartAt(m, q, r)
    BY <1>0, HandlerPlace
<1>3. DOMAIN s = 1..k
    BY <1>0
<1>4. \A n \in DOMAIN s : s[n].try = stack[n].try
    BY <1>0, <1>3
<1>5. \A a, b \in DOMAIN s : a < b => s[a].try < s[b].try
    <2>1. \A n \in 1..k : n \in DOMAIN stack
        BY <1>0
    <2>2. QED
        BY <1>3, <1>4, <2>1 DEF Stacked
<1>6. Around(m, after, h) = {s[n].try : n \in DOMAIN s}
    BY <1>0, <1>1, <1>2, <1>3, <1>4
<1>7. \A n \in DOMAIN s : s[n].state = PartAt(m, s[n].try, h)
    <2> SUFFICES ASSUME NEW n \in DOMAIN s PROVE s[n].state = PartAt(m, s[n].try, h)
        OBVIOUS
    <2>1. CASE n = k
        BY <1>2, <2>1
    <2>2. CASE n \in 1..(k - 1)
        <3>1. s[n] = stack[n] /\ stack[n].try \in Around(m, after, r)
            BY <1>1, <2>2
        <3>2. QED
            BY <1>1, <1>2, <2>2, <3>1
    <2>3. QED
        BY <1>0, <1>3, <2>1, <2>2
<1>8. QED
    BY <1>5, <1>6, <1>7 DEF Stacked

\* A TRY opens its statement.
LEMMA StacksTry ==
    ASSUME NEW m \in Method, NEW after \in Ends(m), PartsInOrder(m, after),
           StatementsNest(m, after), NEW i \in Tries(m),
           NEW stack \in Seq(Context), Stacked(m, after, stack, i),
           NEW c \in Context, c.try = i, c.state = "Try"
    PROVE  Stacked(m, after, Append(stack, c), i + 1)
<1> DEFINE s == Append(stack, c)
           n == Len(stack)
<1>1. /\ i \in Nat /\ after[i] \in Nat /\ i + 2 < after[i]
    BY StatementFacts
<1>2. /\ n \in Nat /\ DOMAIN s = 1..(n + 1) /\ s[n + 1] = c
      /\ DOMAIN stack = 1..n /\ \A k \in 1..n : s[k] = stack[k]
      /\ \A k \in 1..(n + 1) : k = n + 1 \/ k \in 1..n
      /\ \A k \in 1..n : k \in 1..(n + 1)
      /\ n + 1 \in 1..(n + 1)
    OBVIOUS
<1>3. i + 1 \in (i + 1)..(after[i] - 1) /\ i \in Around(m, after, i + 1)
    BY <1>1 DEF Around
<1>4. /\ \A q \in Around(m, after, i) :
             q \in Around(m, after, i + 1) /\ PartAt(m, q, i + 1) = PartAt(m, q, i)
    BY <1>3 DEF StatementsNest
<1>5. ASSUME NEW q \in Around(m, after, i + 1), q # i PROVE q \in Around(m, after, i)
    <2>1. q \in Tries(m) /\ q < i + 1 /\ i + 1 < after[q]
        BY DEF Around
    <2>2. q \in Nat /\ after[q] \in Nat
        BY <2>1, StatementFacts
    <2>3. QED
        BY <1>1, <1>5, <2>1, <2>2 DEF Around
<1>6. Around(m, after, i + 1) = Around(m, after, i) \cup {i}
    BY <1>3, <1>4, <1>5
<1>7. PartAt(m, i, i + 1) = "Try"
    BY <1>1, StatementFacts DEF PartAt
<1>8. \A k \in 1..n : /\ stack[k].try \in Around(m, after, i) /\ stack[k].try < i
                      /\ stack[k].state = PartAt(m, stack[k].try, i)
    BY <1>1, <1>2, ContextTry, AroundFacts
<1> HIDE DEF s, n
<1>9. \A a, b \in DOMAIN s : a < b => s[a].try < s[b].try
    <2> SUFFICES ASSUME NEW a \in 1..(n + 1), NEW b \in 1..(n + 1), a < b
                 PROVE  s[a].try < s[b].try
        BY <1>2
    <2>1. a \in 1..n
        BY <1>2
    <2>2. CASE b = n + 1
        BY <1>2, <1>8, <2>1, <2>2
    <2>3. CASE b \in 1..n
        BY <1>2, <2>1, <2>3 DEF Stacked
    <2>4. QED
        BY <1>2, <2>2, <2>3
<1>10. Around(m, after, i) = {stack[k].try : k \in 1..n}
    BY <1>2 DEF Stacked
<1>11. Around(m, after, i + 1) = {s[k].try : k \in DOMAIN s}
    BY <1>2, <1>6, <1>10
<1>12. \A k \in DOMAIN s : s[k].state = PartAt(m, s[k].try, i + 1)
    <2> SUFFICES ASSUME NEW k \in 1..(n + 1) PROVE s[k].state = PartAt(m, s[k].try, i + 1)
        BY <1>2
    <2>1. CASE k = n + 1
        BY <1>2, <1>7, <2>1
    <2>2. CASE k \in 1..n
        BY <1>2, <1>4, <1>8, <2>2
    <2>3. QED
        BY <1>2, <2>1, <2>2
<1>13. QED
    BY <1>9, <1>11, <1>12 DEF Stacked, s

-----------------------------------------------------------------------------
(***************************************************************************)
(* The VM's stack is the statements around the instruction it runs         *)
(***************************************************************************)

Standing(m, after, stack, i) ==
    /\ stack \in Seq(Context) /\ Stacked(m, after, stack, i) /\ Resumes(m, after, stack)

\* A saved target is that of a context below, or lies where its statement stands.
LEMMA ResumesBelow ==
    ASSUME NEW m, NEW after, NEW stack \in Seq(Context), Resumes(m, after, stack),
           NEW n \in 1..Len(stack), NEW s, UpTo(s, stack, n)
    PROVE  Resumes(m, after, s)
<1>1. /\ DOMAIN s = 1..n /\ Len(stack) \in Nat /\ n \in Nat
    BY DEF UpTo
<1>2. \A k \in 1..n : k \in DOMAIN stack /\ s[k] = stack[k]
    BY <1>1 DEF UpTo
<1>3. QED
    BY <1>1, <1>2 DEF Resumes

\* The stack without its top.
LEMMA WithoutTop ==
    ASSUME NEW stack \in Seq(Context), stack # <<>>
    PROVE  /\ UpTo(Front(stack), stack, Len(stack) - 1)
           /\ Len(stack) \in DOMAIN stack /\ Last(stack) = stack[Len(stack)]
           /\ Len(stack) - 1 \in Nat
<1>1. Len(stack) \in Nat /\ Len(stack) \in DOMAIN stack /\ Len(stack) - 1 \in Nat
    OBVIOUS
<1>2. Front(stack) = SubSeq(stack, 1, Len(stack) - 1)
    BY DEF Front
<1>3. UpTo(Front(stack), stack, Len(stack) - 1)
    <2> DEFINE n == Len(stack) - 1
    <2>1. n \in Nat /\ n <= Len(stack)
        BY <1>1
    <2> HIDE DEF n
    <2>2. SubSeq(stack, 1, n) \in Seq(Context) /\ Len(SubSeq(stack, 1, n)) = n
        BY <1>1, <2>1
    <2>3. \A k \in 1..n : SubSeq(stack, 1, n)[k] = stack[k]
        BY <1>1, <2>1
    <2>4. QED
        BY <1>2, <2>2, <2>3 DEF UpTo, n
<1>4. QED
    BY <1>1, <1>3 DEF Last

\* The stack with another context on top.
LEMMA ChangedTop ==
    ASSUME NEW stack \in Seq(Context), NEW k \in Nat, Len(stack) = k, k \in 1..k,
           NEW c \in Context, NEW s, s = [stack EXCEPT ![k] = c]
    PROVE  /\ s \in Seq(Context) /\ Len(s) = k /\ s[k] = c
           /\ \A n \in 1..(k - 1) : s[n] = stack[n]
<1>1. DOMAIN stack = 1..k /\ \A n \in 1..(k - 1) : n \in 1..k /\ n # k
    OBVIOUS
<1>2. Len(s) = k /\ s \in Seq(Context)
    OBVIOUS
<1>3. QED
    BY <1>1, <1>2

\* Control leaves the statement on top for where it stands.
LEMMA LeavesTop ==
    ASSUME NEW m \in Method, NEW after \in Ends(m), PartsInOrder(m, after),
           StatementsNest(m, after), NEW i \in Int, NEW stack, stack # <<>>,
           Standing(m, after, stack, i),
           NEW j, Place(m, after, j) = Place(m, after, Last(stack).try)
    PROVE  Standing(m, after, Front(stack), j)
<1> DEFINE n == Len(stack)
<1>1. /\ stack \in Seq(Context) /\ Stacked(m, after, stack, i) /\ Resumes(m, after, stack)
    BY DEF Standing
<1>2. /\ UpTo(Front(stack), stack, n - 1) /\ n \in DOMAIN stack
      /\ Last(stack) = stack[n] /\ n - 1 \in Nat
    BY <1>1, WithoutTop
<1>3. Stacked(m, after, Front(stack), j)
    BY <1>1, <1>2, StacksBelow
<1>4. Front(stack) \in Seq(Context) /\ Len(Front(stack)) = n - 1
    BY <1>2 DEF UpTo
<1>5. Resumes(m, after, Front(stack))
    <2>1. \A k \in DOMAIN Front(stack) : k \in DOMAIN stack /\ Front(stack)[k] = stack[k]
        <3>1. DOMAIN Front(stack) = 1..(n - 1) /\ DOMAIN stack = 1..n /\ n \in Nat
            BY <1>1, <1>4
        <3>2. QED
            BY <1>2, <3>1 DEF UpTo
    <2>2. QED
        BY <1>1, <2>1 DEF Resumes
<1>6. QED
    BY <1>3, <1>4, <1>5 DEF Standing

\* Control goes to a handler: of the statement on top, or of the one an
\* exception unwinds to.
LEMMA EntersHandler ==
    ASSUME NEW m \in Method, NEW after \in Ends(m), PartsInOrder(m, after),
           StatementsNest(m, after), NEW i \in Int, NEW stack,
           Standing(m, after, stack, i), NEW k \in DOMAIN stack,
           NEW s, s \in Seq(Context), Len(s) = k, \A n \in 1..(k - 1) : s[n] = stack[n],
           s[k].try = stack[k].try, NEW h, HandlerOf(m, stack[k].try, s[k].state, h),
           s[k].end \in Offsets(m) =>
               Place(m, after, s[k].end) = Place(m, after, stack[k].try)
    PROVE  Standing(m, after, s, h)
<1>1. /\ stack \in Seq(Context) /\ Stacked(m, after, stack, i) /\ Resumes(m, after, stack)
    BY DEF Standing
<1>2. Stacked(m, after, s, h)
    BY <1>1, StacksHandler
<1>3. Resumes(m, after, s)
    <2>1. /\ DOMAIN s = 1..k /\ k \in Nat /\ DOMAIN stack = 1..Len(stack) /\ Len(stack) \in Nat
        BY <1>1
    <2>2. \A n \in 1..k : n = k \/ (n \in 1..(k - 1) /\ n \in DOMAIN stack)
        BY <2>1
    <2>3. ASSUME NEW n \in DOMAIN s, s[n].end \in Offsets(m)
          PROVE  Place(m, after, s[n].end) = Place(m, after, s[n].try)
        <3>1. CASE n = k
            BY <2>3, <3>1
        <3>2. CASE n \in 1..(k - 1) /\ n \in DOMAIN stack
            BY <1>1, <2>3, <3>2 DEF Resumes
        <3>3. QED
            BY <2>1, <2>2, <3>1, <3>2
    <2>4. QED
        BY <2>3 DEF Resumes
<1>4. QED
    BY <1>2, <1>3 DEF Standing

\* An exception goes to a handler of a statement around the instruction.
LEMMA UnwindStands ==
    ASSUME code \in Method, NEW after \in Ends(code), PartsInOrder(code, after),
           StatementsNest(code, after), NEW i \in Int, NEW stack,
           Standing(code, after, stack, i), Unwind(stack), status' = "running"
    PROVE  Standing(code, after, tries', ip')
<1>1. Handlers(stack) # {}
    BY DEF Unwind
<1> DEFINE k == Max(Handlers(stack))
           t == stack[k]
           catching == t.state = "Try" /\ HasCatch(t)
           state == IF catching THEN "Catch" ELSE "Finally"
           o == t.try + IF catching THEN code[t.try].catch ELSE code[t.try].finally
           top == [t EXCEPT !.state = state]
<1>2. tries' = [SubSeq(stack, 1, k) EXCEPT ![k].state = state] /\ GoTo(o)
    BY <1>1 DEF Unwind
<1>3. stack \in Seq(Context) /\ Stacked(code, after, stack, i) /\ Resumes(code, after, stack)
    BY DEF Standing
<1>4. /\ k \in 1..Len(stack) /\ t \in Context
      /\ \/ t.state = "Try"
         \/ t.state = "Catch" /\ HasFinally(t)
    BY <1>1, <1>3, HandlersFacts
<1>5. k \in DOMAIN stack /\ t.try \in Tries(code) /\ k \in Nat /\ Len(stack) \in Nat
    <2> HIDE DEF k
    <2>1. k \in DOMAIN stack
        BY <1>3, <1>4
    <2>2. QED
        BY <1>3, <2>1, ContextTry
<1>6. ip' = o /\ o \in Offsets(code)
    BY <1>2 DEF GoTo
<1>7. HandlerOf(code, t.try, state, o)
    <2> HIDE DEF t
    <2>1. /\ code[t.try].catch # 0 => CatchTarget(code, t.try) = t.try + code[t.try].catch
          /\ code[t.try].finally # 0 => FinallyTarget(code, t.try) = t.try + code[t.try].finally
          /\ code[t.try].catch # 0 \/ code[t.try].finally # 0
        BY <1>5, StatementFacts
    <2>2. CASE catching
        BY <2>1, <2>2 DEF HandlerOf, HasCatch
    <2>3. CASE ~catching
        <3>1. code[t.try].finally # 0
            BY <1>4, <2>1, <2>3 DEF HasCatch, HasFinally
        <3>2. QED
            BY <2>1, <2>3, <3>1 DEF HandlerOf
    <2>4. QED
        BY <2>2, <2>3
<1>8. top \in Context /\ top.try = t.try /\ top.state = state /\ top.end = t.end
    <2>1. state \in {"Try", "Catch", "Finally"}
        OBVIOUS
    <2> HIDE DEF state, t
    <2>2. QED
        BY <1>4, <2>1 DEF Context
<1> HIDE DEF k, top, state, o
<1>9. SubSeq(stack, 1, k) \in Seq(Context) /\ Len(SubSeq(stack, 1, k)) = k
    BY <1>3, <1>4
<1>10. /\ \A n \in 1..k : SubSeq(stack, 1, k)[n] = stack[n]
       /\ k \in 1..k /\ \A n \in 1..(k - 1) : n \in 1..k /\ n # k
    BY <1>3, <1>4, <1>5
<1>11. tries' = [SubSeq(stack, 1, k) EXCEPT ![k] = top]
    BY <1>2, <1>10 DEF top
<1>12. /\ tries' \in Seq(Context) /\ Len(tries') = k /\ tries'[k] = top
       /\ \A n \in 1..(k - 1) : tries'[n] = stack[n]
    <2> DEFINE up == SubSeq(stack, 1, k)
    <2>1. top \in Context
        BY <1>8
    <2> HIDE DEF up, t
    <2>2. up \in Seq(Context) /\ Len(up) = k /\ tries' = [up EXCEPT ![k] = top]
        BY <1>9, <1>11 DEF up
    <2>3. \A n \in 1..(k - 1) : up[n] = stack[n]
        BY <1>10 DEF up
    <2>4. /\ tries' \in Seq(Context) /\ Len(tries') = k /\ tries'[k] = top
          /\ \A n \in 1..(k - 1) : tries'[n] = up[n]
        BY <1>5, <1>10, <2>1, <2>2, ChangedTop
    <2>5. QED
        BY <2>3, <2>4
<1>13. tries'[k].end \in Offsets(code) =>
           Place(code, after, tries'[k].end) = Place(code, after, stack[k].try)
    BY <1>3, <1>5, <1>8, <1>12 DEF Resumes
<1>14. HandlerOf(code, stack[k].try, tries'[k].state, o)
    BY <1>7, <1>8, <1>12
<1>15. Standing(code, after, tries', o)
    BY <1>5, <1>8, <1>12, <1>13, <1>14, EntersHandler
<1>16. QED
    BY <1>6, <1>15

\* The statements nest, and while the VM runs its stack is those around it.
NestInv ==
    \E after \in Ends(code) :
        WellNested(code, after) /\ (status = "running" => Standing(code, after, tries, ip))

LEMMA NestInit ==
    ASSUME TriesNest
    PROVE  Init => NestInv
<1> SUFFICES ASSUME Init PROVE NestInv
    OBVIOUS
<1>1. code \in Programs /\ status = "loading"
    BY DEF Init, BuildInit
<1>2. QED
    BY <1>1 DEF TriesNest, NestInv, Ends

\* Nothing is around the first instruction.
LEMMA NothingAroundFirst ==
    ASSUME NEW m \in Method, NEW after \in Ends(m), WellNested(m, after)
    PROVE  Standing(m, after, <<>>, 1)
<1>1. Around(m, after, 1) = {}
    <2>1. ASSUME NEW r \in Around(m, after, 1) PROVE FALSE
        <3>1. r \in Tries(m) /\ r < 1 /\ PartsInOrder(m, after)
            BY DEF Around, WellNested
        <3>2. QED
            BY <3>1, StatementFacts
    <2>2. QED
        BY <2>1
<1> DEFINE s == <<>>
<1>2. s \in Seq(Context) /\ DOMAIN s = {}
    OBVIOUS
<1> HIDE DEF s
<1>3. Stacked(m, after, s, 1) /\ Resumes(m, after, s)
    BY <1>1, <1>2 DEF Stacked, Resumes
<1>4. QED
    BY <1>2, <1>3 DEF Standing, s

\* Control stays inside the part of the statement it is in.
LEMMA StaysInPart ==
    ASSUME NEW m, NEW after, NEW i, NEW j, NEW stack, Standing(m, after, stack, i),
           Place(m, after, j) = Place(m, after, i)
    PROVE  Standing(m, after, stack, j)
    BY StacksSame DEF Standing

\* The ENDTRY on which control leaves the statement on top.
LEMMA EndtryLeavesTop ==
    ASSUME NEW m \in Method, NEW after \in Ends(m), WellNested(m, after),
           NEW i \in Offsets(m), IsOp(m, i, {"endtry"}), NEW stack, stack # <<>>,
           Standing(m, after, stack, i)
    PROVE  /\ Last(stack).try = Left(m, after, i) /\ Around(m, after, i) # {}
           /\ i \in RoutedEndtries(m) /\ Left(m, after, i) \in Tries(m)
           /\ JumpTarget(m, i) = i + m[i].delta /\ JumpTarget(m, i) # i
           /\ Place(m, after, JumpTarget(m, i)) = Place(m, after, Last(stack).try)
<1>1. /\ PartsInOrder(m, after) /\ StatementsNest(m, after) /\ i \in Int
      /\ stack \in Seq(Context) /\ Stacked(m, after, stack, i)
    BY DEF WellNested, Offsets, Standing
<1>2. Last(stack).try = Left(m, after, i) /\ Around(m, after, i) # {}
    BY <1>1, TopContext DEF Left
<1>3. /\ JumpTarget(m, i) # None
      /\ Place(m, after, JumpTarget(m, i)) = Place(m, after, Left(m, after, i))
    BY <1>2 DEF WellNested, ControlStays, Left
<1>4. i \in RoutedEndtries(m)
    BY <1>3 DEF RoutedEndtries, Endtries
<1>5. /\ Left(m, after, i) \in Around(m, after, i)
      /\ Left(m, after, i) \notin Around(m, after, Left(m, after, i))
      /\ Left(m, after, i) \in Tries(m)
    <2>1. Left(m, after, i) \in Around(m, after, i)
        BY <1>4, EndtryFacts
    <2>2. QED
        BY <1>1, <1>2, <2>1, InnermostPlace DEF Left
<1>6. JumpTarget(m, i) # i
    <2>1. Around(m, after, JumpTarget(m, i)) = Around(m, after, Left(m, after, i))
        BY <1>3, SamePlace
    <2>2. QED
        BY <1>5, <2>1
<1>7. JumpTarget(m, i) = i + m[i].delta
    BY <1>3 DEF JumpTarget, TargetAt
<1>8. QED
    BY <1>2, <1>3, <1>4, <1>5, <1>6, <1>7

\* An ENDTRY enters the finally block of the statement on top.
LEMMA EndtryStands ==
    ASSUME code \in Method, NEW after \in Ends(code), WellNested(code, after),
           Standing(code, after, tries, ip), ip \in Offsets(code),
           LeaveThroughFinally, status' = "running"
    PROVE  Standing(code, after, tries', ip')
<1> DEFINE n == Len(tries)
           t == Last(tries)
           o == ip + code[ip].delta
           top == [t EXCEPT !.state = "Finally", !.end = o, !.via = ip]
<1>1. /\ IsOp(code, ip, {"endtry"}) /\ tries # <<>> /\ code[t.try].finally # 0
      /\ tries' = [tries EXCEPT ![n].state = "Finally", ![n].end = o, ![n].via = ip]
      /\ ip' = t.try + code[t.try].finally
    BY DEF LeaveThroughFinally, Running, HasFinally, Top, GoTo
<1>2. /\ PartsInOrder(code, after) /\ StatementsNest(code, after) /\ ip \in Int
      /\ tries \in Seq(Context)
    BY DEF WellNested, Offsets, Standing
<1>3. n \in DOMAIN tries /\ t = tries[n] /\ n \in Nat /\ t \in Context
    <2>1. n \in DOMAIN tries /\ t = tries[n] /\ n \in Nat
        BY <1>1, <1>2, WithoutTop
    <2>2. QED
        BY <1>2, <2>1
<1>4. /\ t.try \in Tries(code) /\ o = JumpTarget(code, ip)
      /\ Place(code, after, JumpTarget(code, ip)) = Place(code, after, t.try)
      /\ JumpTarget(code, ip) \in Offsets(code)
    <2>1. /\ t.try \in Tries(code) /\ o = JumpTarget(code, ip)
          /\ Place(code, after, JumpTarget(code, ip)) = Place(code, after, t.try)
          /\ ip \in RoutedEndtries(code)
        BY <1>1, EndtryLeavesTop
    <2>2. QED
        BY <2>1 DEF RoutedEndtries, JumpTarget, TargetAt
<1>5. o \in Int
    BY <1>4 DEF Offsets
<1>6. /\ top \in Context /\ top.try = t.try /\ top.state = "Finally" /\ top.end = o
    <2> HIDE DEF o, t
    <2>1. QED
        BY <1>2, <1>3, <1>5 DEF Context
<1>7. tries' = [tries EXCEPT ![n] = top]
    BY <1>1, <1>3
<1>8. HandlerOf(code, t.try, "Finally", ip')
    BY <1>1, <1>2, <1>4, StatementFacts DEF HandlerOf
<1> HIDE DEF n, top, o, t
<1>9. /\ tries' \in Seq(Context) /\ Len(tries') = n /\ tries'[n] = top
      /\ \A k \in 1..(n - 1) : tries'[k] = tries[k]
    <2>1. Len(tries) = n /\ n \in 1..n
        BY <1>2, <1>3 DEF n
    <2>2. QED
        BY <1>2, <1>3, <1>6, <1>7, <2>1, ChangedTop
<1>10. HandlerOf(code, tries[n].try, tries'[n].state, ip')
    BY <1>3, <1>6, <1>8, <1>9
<1>11. tries'[n].end \in Offsets(code) =>
           Place(code, after, tries'[n].end) = Place(code, after, tries[n].try)
    BY <1>3, <1>4, <1>6, <1>9
<1>12. tries'[n].try = tries[n].try
    BY <1>3, <1>6, <1>9
<1>13. QED
    BY <1>2, <1>3, <1>9, <1>10, <1>11, <1>12, EntersHandler

\* Each step of the VM keeps the stack in step with the layout.
LEMMA StandsStep ==
    ASSUME GraphInv, status = "running", status' = "running",
           NEW after \in Ends(code), WellNested(code, after),
           Standing(code, after, tries, ip), Next
    PROVE  Standing(code, after, tries', ip')
<1>1. /\ code \in Method /\ ip \in Offsets(code) /\ pc = "built"
      /\ PartsInOrder(code, after) /\ StatementsNest(code, after)
      /\ ControlStays(code, after) /\ ip \in Int /\ tries \in Seq(Context)
    BY DEF GraphInv, WellNested, Offsets, Standing
<1>2. ASSUME NEW j, UNCHANGED tries, GoTo(j),
             j \in Offsets(code) => Place(code, after, j) = Place(code, after, ip)
      PROVE  Standing(code, after, tries', ip')
    BY <1>2, StaysInPart DEF GoTo
<1>3. \A i \in Offsets(code) : i + code[i].delta \in Offsets(code) =>
          JumpTarget(code, i) = i + code[i].delta /\ JumpTarget(code, i) # None
    BY NoneAssumption DEF JumpTarget, TargetAt, Offsets
<1>4. CASE Build \/ Load
    BY <1>1, <1>4 DEF Build, Load, BuildNext, FindLeadersStep, CreateBlocks,
       ApplyFinallyRouting, BuildCfg
<1>5. CASE Advance
    <2>1. UNCHANGED tries /\ GoTo(ip + 1) /\ IsOp(code, ip, {"plain"})
        BY <1>5 DEF Advance, Running
    <2>2. IsOp(code, ip, {"plain", "jmpif", "jmpifnot"})
        BY <2>1 DEF IsOp
    <2>3. QED
        BY <1>1, <1>2, <2>1, <2>2 DEF ControlStays
<1>6. CASE Jump
    <2>1. UNCHANGED tries /\ GoTo(ip + code[ip].delta) /\ IsOp(code, ip, {"jmp"})
        BY <1>6 DEF Jump, Running
    <2>2. IsOp(code, ip, {"jmp", "jmpif", "jmpifnot"})
        BY <2>1 DEF IsOp
    <2>3. QED
        BY <1>1, <1>2, <1>3, <2>1, <2>2 DEF ControlStays
<1>7. ASSUME NEW cond \in BOOLEAN, Branch(cond) PROVE Standing(code, after, tries', ip')
    <2> DEFINE j == IF cond = (code[ip].op = "jmpif") THEN ip + code[ip].delta ELSE ip + 1
    <2>1. UNCHANGED tries /\ GoTo(j) /\ IsOp(code, ip, {"jmpif", "jmpifnot"})
        BY <1>7 DEF Branch, Running
    <2>2. /\ IsOp(code, ip, {"jmp", "jmpif", "jmpifnot"})
          /\ IsOp(code, ip, {"plain", "jmpif", "jmpifnot"})
        BY <2>1 DEF IsOp
    <2>3. j = ip + code[ip].delta \/ j = ip + 1
        OBVIOUS
    <2>4. j \in Offsets(code) => Place(code, after, j) = Place(code, after, ip)
        BY <1>1, <1>3, <2>2, <2>3 DEF ControlStays
    <2> HIDE DEF j
    <2>5. QED
        BY <1>2, <2>1, <2>4
<1>8. CASE EnterTry
    <2> DEFINE c == [try |-> ip, state |-> "Try", end |-> 0, via |-> 0]
    <2>1. /\ tries' = Append(tries, c) /\ ip' = ip + 1 /\ IsOp(code, ip, {"try"})
        BY <1>8 DEF EnterTry, Running, GoTo
    <2>2. ip \in Tries(code) /\ c \in Context /\ c.try = ip /\ c.state = "Try" /\ c.end = 0
        BY <1>1, <2>1 DEF Tries, Context, Offsets
    <2> HIDE DEF c
    <2>3. Stacked(code, after, Append(tries, c), ip + 1)
        BY <1>1, <2>2, StacksTry DEF Standing
    <2>4. Resumes(code, after, Append(tries, c))
        <3> DEFINE n == Len(tries)
        <3>1. /\ DOMAIN Append(tries, c) = 1..(n + 1) /\ Append(tries, c)[n + 1] = c
              /\ \A k \in 1..n : Append(tries, c)[k] = tries[k]
              /\ \A k \in 1..(n + 1) : k = n + 1 \/ k \in 1..n
              /\ DOMAIN tries = 1..n
            BY <1>1
        <3>2. 0 \notin Offsets(code)
            BY DEF Offsets
        <3> HIDE DEF n
        <3>3. QED
            BY <2>2, <3>1, <3>2 DEF Resumes, Standing
    <2>5. Append(tries, c) \in Seq(Context)
        BY <1>1, <2>2
    <2>6. QED
        BY <2>1, <2>3, <2>4, <2>5 DEF Standing
<1>9. CASE LeaveThroughFinally
    BY <1>1, <1>9, EndtryStands
<1>10. CASE LeaveTry
    <2>1. /\ tries' = Front(tries) /\ ip' = ip + code[ip].delta
          /\ tries # <<>> /\ IsOp(code, ip, {"endtry"})
        BY <1>10 DEF LeaveTry, Running, GoTo
    <2>2. Place(code, after, ip') = Place(code, after, Last(tries).try)
        BY <1>1, <2>1, EndtryLeavesTop
    <2>3. QED
        BY <1>1, <2>1, <2>2, LeavesTop
<1>11. CASE ResumeAfterFinally
    <2>1. /\ tries' = Front(tries) /\ ip' = Last(tries).end /\ tries # <<>>
          /\ Last(tries).end \in Offsets(code)
        BY <1>11 DEF ResumeAfterFinally, GoTo, Top
    <2>2. Place(code, after, ip') = Place(code, after, Last(tries).try)
        BY <1>1, <2>1, WithoutTop DEF Standing, Resumes
    <2>3. QED
        BY <1>1, <2>1, <2>2, LeavesTop
<1>12. CASE Raise
    BY <1>1, <1>12, UnwindStands DEF Raise
<1>13. CASE Reraise
    <2>1. tries # <<>> /\ Unwind(Front(tries))
        BY <1>13 DEF Reraise
    <2> DEFINE r == Last(tries).try
    <2>2. Standing(code, after, Front(tries), r)
        BY <1>1, <2>1, LeavesTop
    <2>3. r \in Int
        <3>1. tries[Len(tries)] \in Context /\ r = tries[Len(tries)].try
            BY <1>1, <2>1, WithoutTop
        <3>2. QED
            BY <3>1 DEF Context
    <2> HIDE DEF r
    <2>4. QED
        BY <1>1, <2>1, <2>2, <2>3, UnwindStands
<1>14. CASE Stop \/ Stopped
    BY <1>14 DEF Stop, Stopped
<1>15. QED
    BY <1>4, <1>5, <1>6, <1>7, <1>8, <1>9, <1>10, <1>11, <1>12, <1>13, <1>14 DEF Next

LEMMA NestStep ==
    ASSUME GraphInv, NestInv, [Next]_vars
    PROVE  NestInv'
<1>1. PICK after \in Ends(code) :
          /\ WellNested(code, after)
          /\ status = "running" => Standing(code, after, tries, ip)
    BY DEF NestInv
<1>2. UNCHANGED code
    BY DEF Next, vars, buildVars, Build, BuildNext, FindLeadersStep, CreateBlocks,
       ApplyFinallyRouting, BuildCfg, Load, Advance, Jump, Branch, EnterTry,
       LeaveThroughFinally, LeaveTry, ResumeAfterFinally, Raise, Reraise, Stop, Stopped
<1>3. ASSUME status' = "running" PROVE Standing(code, after, tries', ip')
    <2>1. CASE UNCHANGED vars
        BY <1>1, <1>3, <2>1 DEF vars, vmVars
    <2>2. CASE Next /\ status = "running"
        BY <1>1, <1>3, <2>2, StandsStep
    <2>3. CASE Next /\ status # "running"
        <3>1. Load
            BY <1>3, <2>3 DEF Next, Build, Advance, Jump, Branch, EnterTry,
               LeaveThroughFinally, LeaveTry, ResumeAfterFinally, Raise, Reraise, Stop,
               Stopped, Running, vars, vmVars
        <3>2. tries' = <<>> /\ ip' = 1 /\ code \in Method
            BY <3>1 DEF Load, GraphInv
        <3>3. QED
            BY <1>1, <3>2, NothingAroundFirst
    <2>4. QED
        BY <2>1, <2>2, <2>3
<1>4. QED
    BY <1>1, <1>2, <1>3 DEF NestInv

\* In step with the layout, the stack is what apply_finally_routing reads off it.
LEMMA RoutingFits ==
    ASSUME GraphInv, NestInv
    PROVE  RoutingAgrees
<1> SUFFICES ASSUME status = "running", tries # <<>>
             PROVE  /\ IsOp(code, ip, {"endtry"}) /\ Top.state # "Finally" =>
                          /\ ip \in RoutedEndtries(code) /\ JumpTarget(code, ip) # ip
                          /\ Owners(code)[ip] = Top.try
                    /\ IsOp(code, ip, {"endfinally"}) /\ ~raised =>
                          {r \in Regions(code) : EndfinallyOffsets(code)[r] = ip} = {Top.try}
    BY DEF RoutingAgrees, Owners
<1>1. PICK after \in Ends(code) : WellNested(code, after) /\ Standing(code, after, tries, ip)
    BY DEF NestInv
<1>2. /\ code \in Method /\ ip \in Offsets(code) /\ ip \in Int
      /\ PartsInOrder(code, after) /\ StatementsNest(code, after)
      /\ tries \in Seq(Context) /\ Stacked(code, after, tries, ip) /\ Top = Last(tries)
    BY <1>1 DEF GraphInv, WellNested, Offsets, Standing, Top
<1>3. ASSUME IsOp(code, ip, {"endtry"})
      PROVE  /\ ip \in RoutedEndtries(code) /\ JumpTarget(code, ip) # ip
             /\ Owners(code)[ip] = Top.try
    <2>1. /\ ip \in RoutedEndtries(code) /\ JumpTarget(code, ip) # ip
          /\ Top.try = Left(code, after, ip)
        BY <1>1, <1>2, <1>3, EndtryLeavesTop
    <2>2. QED
        BY <1>1, <1>2, <2>1, OwnersOfStatements
<1>4. ASSUME IsOp(code, ip, {"endfinally"})
      PROVE  {r \in Regions(code) : EndfinallyOffsets(code)[r] = ip} = {Top.try}
    <2> DEFINE q == Top.try
    <2>1. q = Max(Around(code, after, ip)) /\ Around(code, after, ip) # {}
        BY <1>2, TopContext
    <2>2. q \in Tries(code)
        BY <1>2, <2>1, AroundFacts
    <2>3. PartAt(code, q, ip) = "Finally" /\ ip = after[q] - 1
        BY <1>1, <1>2, <1>4, <2>1 DEF WellNested, ControlStays
    <2>4. code[q].finally # 0
        BY <1>2, <2>2, <2>3, StatementFacts DEF PartAt
    <2>5. /\ Regions(code) = Tries(code)
          /\ \A r \in Tries(code) : EndfinallyOffsets(code)[r] =
                 IF code[r].finally # 0 THEN after[r] - 1 ELSE None
        BY <1>1, <1>2, EndfinallyOfStatement, TriesAreRegions
    <2>6. ASSUME NEW r \in Tries(code), EndfinallyOffsets(code)[r] = ip PROVE r = q
        <3>1. code[r].finally # 0 /\ after[r] - 1 = ip
            BY <1>2, <2>5, <2>6, NoneAssumption
        <3>2. QED
            BY <1>2, <2>1, <2>6, <3>1, OwnEndfinally
    <2>7. EndfinallyOffsets(code)[q] = ip
        BY <2>2, <2>3, <2>4, <2>5
    <2> HIDE DEF q
    <2>8. QED
        BY <2>2, <2>5, <2>6, <2>7 DEF q
<1>5. QED
    BY <1>3, <1>4

-----------------------------------------------------------------------------
\* apply_finally_routing reads the VM's stack off the layout: in every method
\* whose TRY statements nest, whatever their number and depth, the region taken
\* to own an ENDTRY is the innermost context the ENDTRY leaves, and the one
\* region an ENDFINALLY is taken to close is the context it ends.
THEOREM RoutingFollowsNesting ==
    ASSUME TriesNest
    PROVE  Spec => []RoutingAgrees
<1>1. Init => NestInv
    BY NestInit
<1>2. GraphInv /\ NestInv /\ [Next]_vars => NestInv'
    BY NestStep
<1>3. GraphInv /\ NestInv => RoutingAgrees
    BY RoutingFits
<1>4. QED
    BY <1>1, <1>2, <1>3, AlwaysGraphInv, PTL DEF Spec

\* The graph of a method whose TRY statements nest covers its execution: what
\* runs is reachable, every normal transfer of control is an edge of its kind,
\* and the leaves that are marked non-local are those that resume elsewhere.
THEOREM NestedMethodsAreCovered ==
    ASSUME BranchesLand, TriesNest
    PROVE  Spec => []ExecutedIsReachable /\ TransfersAreEdges /\ NonlocalLeaves
<1>1. Spec => []RoutingAgrees
    BY RoutingFollowsNesting
<1>2. /\ Spec /\ []RoutingAgrees => []ExecutedIsReachable
      /\ Spec /\ []RoutingAgrees => TransfersAreEdges
      /\ Spec /\ []RoutingAgrees => NonlocalLeaves
    BY NothingLiveIsDropped, TransfersFollowEdges, LeavesAreMarked
<1>3. QED
    BY <1>1, <1>2
=============================================================================
