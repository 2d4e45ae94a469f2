---------------------------- MODULE MCDomTreeFast ----------------------------
(* The analysis of the branching graphs of MCGraphs.  On some of them a    *)
(* few checks of the values 1 and 2 are eliminated; where they are does    *)
(* not matter before the dominators are known and is chosen then.          *)
EXTENDS CheckElimination, MCGraphs

Nothing == [op |-> <<>>, users |-> <<>>, freed |-> {}, status |-> "fine"]

BranchInit == /\ succ \in BranchCfgs
              /\ order = <<>> /\ stack = <<>> /\ at = 0 /\ preds = <<>> /\ pc = "start"
              /\ parent = [b \in Block |-> Null] /\ ancestor = parent
              /\ dom = parent /\ idom = parent /\ sdom = parent
              /\ label = [b \in Block |-> b]
              /\ bucket = [n \in 1 .. N |-> <<>>]
              /\ ir = Nothing /\ CheckInit

\* Two trees, a diamond with a tail, numbered so that the blocks are visited
\* in the order of the dominator tree or against it, two loops, and a fork with
\* two blocks that no path leads to.
Watched == {<<<<2, 3>>, <<4, 5>>, <<>>, <<>>, <<>>>>, <<<<2, 3>>, <<5>>, <<>>, <<>>, <<4>>>>,
            <<<<2, 3>>, <<4>>, <<4>>, <<5>>, <<>>>>,  <<<<2, 3>>, <<5>>, <<5>>, <<>>, <<4>>>>,
            <<<<2, 3>>, <<4, 5>>, <<>>, <<2>>, <<>>>>, <<<<2, 3>>, <<>>, <<5>>, <<3>>, <<4>>>>,
            <<<<2, 3>>, <<>>, <<>>, <<5>>, <<>>>>}

\* Checks of 1 and 2, and the blocks of three of them.
Eq(a, b)  == [op |-> "CHECK_EQ", in |-> <<a, b>>]
Zero      == [op |-> "CHECK_EQ_ZERO", in |-> <<1>>]
Kinds     == {Zero, Eq(1, 2), Eq(2, 1)}
Triples   == {<<a, b, c>> : a, b, c \in Kinds} \cup {<<c, a, b>> : c \in {Eq(1, 1), Eq(1, 3)}, a, b \in Kinds}
Blocks3   == {<<a, b, c>> : a, b, c \in Block}
Ascending == {t \in Blocks3 : t[1] <= t[2] /\ t[2] <= t[3]}

Head3 == <<[op |-> "CONSTANT", in |-> <<>>], [op |-> "CONSTANT", in |-> <<>>],
           [op |-> "ADD", in |-> <<1, 2>>]>>
Program(t, where) ==
  LET insts == Head3 \o t
      K     == DOMAIN insts
  IN  Load([i \in K |-> insts[i].op], [i \in K |-> insts[i].in], <<Root, Root, Root>> \o where)

\* The programs are graphs as the builder leaves them.
ASSUME ProgramsAreBuilt == \A t \in Triples, where \in Ascending : Built(Program(t, where))

\* Where the checks do not matter the model stops at the dominators.
Written == /\ ir' \in {Program(t, where) : t \in Triples, where \in Ascending}
           /\ UNCHANGED <<vars, blocks, inst, slots, place, phase>>
Unwatched == UNCHANGED <<vars, checkVars>>

BranchNext == CASE pc = "done" /\ succ \notin Watched -> Unwatched
                [] pc = "used" /\ ir = Nothing        -> Written
                [] OTHER                              -> CheckNext

BranchSpec == BranchInit /\ [][BranchNext]_<<vars, checkVars>>
=============================================================================
