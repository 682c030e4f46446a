----------------------------- MODULE PapyrusCFG -----------------------------
(***************************************************************************)
(* What the semantic pass finds out about the body of a function as a      *)
(* whole: the jumps out of nothing and the locks inside locks, the         *)
(* control-flow graph, papyrus/PapyrusCFG.h and .cpp with buildCFG of      *)
(* every statement, the check for a function that ends without a value,    *)
(* and the names of the locals that are told apart                         *)
(* (PapyrusFunction::semantic2).                                           *)
(*                                                                         *)
(* The graph is a record: the edge and the next sibling of each node, the  *)
(* stack of open nodes, the stack of break targets, the errors reported,   *)
(* and whether the last statement looked at was found terminal.  A node is *)
(* a number; the root is 1.  The children of a node are read by the dump   *)
(* for debugging only and are left out.                                    *)
(***************************************************************************)
EXTENDS Integers, Sequences, SequencesExt, TLC

CONSTANT Null

RECURSIVE buildCFG(_, _), AfterStatements(_, _), Visited(_),
          JumpErrors(_, _, _)

-----------------------------------------------------------------------------
(* The statements a function is made of. *)

Loops == {"while", "dowhile", "for", "foreach"}

NonEmpty(stmts) == IF stmts = <<>> THEN <<>> ELSE <<stmts>>

\* The statements inside a statement, by body.
Bodies(s) ==
  CASE s.k \in Loops \cup {"guard", "tryguard"} -> <<s.body>>
    [] s.k = "if" -> [i \in DOMAIN s.bodies |-> s.bodies[i].body]
                     \o NonEmpty(s.otherwise)
    [] s.k = "switch" -> [c \in DOMAIN s.cases |-> s.cases[c].body]
                         \o NonEmpty(s.default)
    [] OTHER -> <<>>

\* All statements, in the order a visitor comes to them.
Visited(stmts) ==
  IF stmts = <<>> THEN <<>>
  ELSE <<Head(stmts)>>
       \o FlattenSeq([i \in DOMAIN Bodies(Head(stmts)) |->
                        Visited(Bodies(Head(stmts))[i])])
       \o Visited(Tail(stmts))

-----------------------------------------------------------------------------
(* What is an error wherever control goes. *)

\* A Switch is something to break out of, but nothing to continue.
JumpErrors(stmts, canBreak, canContinue) ==
  UNION {LET s    == stmts[i]
             loop == s.k \in Loops
         IN {e \in {"break", "continue"} :
               /\ s.k = e
               /\ IF e = "break" THEN ~canBreak ELSE ~canContinue}
            \cup UNION {JumpErrors(Bodies(s)[j],
                                   canBreak \/ loop \/ s.k = "switch",
                                   canContinue \/ loop)
                        : j \in DOMAIN Bodies(s)}
         : i \in DOMAIN stmts}

\* A Guard looks for the same guard in the Guards inside it, a TryGuard takes
\* any TryGuard inside it for an error, and neither looks for the other.
LockErrors(stmts) ==
  LET IsInvalid(outer, inner) ==
        \/ outer.k = "tryguard" /\ inner.k = "tryguard"
        \/ /\ outer.k = "guard" /\ inner.k = "guard"
           /\ Range(outer.guards) \cap Range(inner.guards) # {}
      locks == {s \in Range(Visited(stmts)) : s.k \in {"guard", "tryguard"}}
  IN IF \E s \in locks : \E t \in Range(Visited(s.body)) : IsInvalid(s, t)
     THEN {"nested lock"} ELSE {}

-----------------------------------------------------------------------------
(* The graph.  broken says that a stack was used when it was empty.        *)

NewNode(g) == [g EXCEPT !.edge = Append(@, "None"),
                        !.sibling = Append(@, Null)]

EmptyCFG == [edge |-> <<"None">>, sibling |-> <<Null>>, stack |-> <<1>>,
             breakTargets |-> <<>>, errors |-> {}, terminal |-> FALSE,
             broken |-> FALSE]

Found(g, isTerminal) == [g EXCEPT !.terminal = isTerminal]

terminateNode(g, type) ==
  IF g.stack = <<>> THEN [g EXCEPT !.broken = TRUE]
  ELSE [g EXCEPT !.edge[Last(g.stack)] = type, !.stack = Front(@)]

addLeaf(g) ==
  LET h == NewNode(g)
  IN [h EXCEPT !.stack = Append(@, Len(h.edge)),
               !.broken = @ \/ g.stack = <<>>]

createSibling(g) ==
  LET h == NewNode(g)
  IN IF g.stack = <<>> THEN [g EXCEPT !.broken = TRUE]
     ELSE [h EXCEPT !.sibling[Last(g.stack)] = Len(h.edge),
                    !.stack = Append(Front(@), Len(h.edge))]

pushBreakTerminal(g) == [g EXCEPT !.breakTargets = Append(@, FALSE)]
popBreakTerminal(g)  == [g EXCEPT !.breakTargets = Front(@)]
LeaveBreakTerminal(g) ==
  IF g.breakTargets = <<>> THEN [g EXCEPT !.broken = TRUE] ELSE g

markBreakTerminal(g) ==
  IF g.breakTargets = <<>> THEN [g EXCEPT !.broken = TRUE]
  ELSE [g EXCEPT !.breakTargets = Append(Front(@), TRUE)]

\* The end of a statement that has statements inside.
Close(g, isTerminal) ==
  Found(IF isTerminal THEN terminateNode(g, "Children") ELSE createSibling(g),
        isTerminal)

-----------------------------------------------------------------------------
(* The statements. *)

\* Statements after a terminal one are not looked at.
AfterStatements(stmts, g) ==
  IF stmts = <<>> THEN Found(g, FALSE)
  ELSE LET h == buildCFG(Head(stmts), g)
       IN IF h.terminal THEN h ELSE AfterStatements(Tail(stmts), h)

processStatements(stmts, g) ==
  LET h == AfterStatements(stmts, g)
  IN IF h.terminal THEN h ELSE terminateNode(h, "None")

ProcessWithoutLeaf(bodies, g) ==
  FoldLeft(LAMBDA h, body :
             LET i == processStatements(body, h)
             IN Found(i, h.terminal /\ i.terminal),
           Found(g, TRUE), bodies)

\* The bodies of a statement, each in a leaf of its own: terminal if all are.
ProcessBodies(bodies, g) ==
  FoldLeft(LAMBDA h, body :
             LET i == processStatements(body, addLeaf(h))
             IN Found(i, h.terminal /\ i.terminal),
           Found(g, TRUE), bodies)

processCommonLoopBody(stmts, g) ==
  LET h == ProcessBodies(<<stmts>>, pushBreakTerminal(g))
  IN Close(popBreakTerminal(h), ~Last(h.breakTargets) /\ h.terminal)

\* A body of a Switch has to end in a terminal statement, by which a Break is
\* meant as much as a Return; only a Break that is reached makes what follows
\* the Switch reached.
SwitchCFG(s, g) ==
  LET NoFallThrough(h, body) ==
        LET i == processStatements(body, addLeaf(h))
        IN IF i.terminal THEN i
           ELSE [i EXCEPT !.errors = @ \cup {"fall through"}]
      h == FoldLeft(NoFallThrough, pushBreakTerminal(g), Bodies(s))
  IN Close(popBreakTerminal(h), ~Last(h.breakTargets))

BranchCFG(s, g) ==
  LET h == ProcessBodies(Bodies(s), g) IN Close(h, h.terminal)

buildCFG(s, g) ==
  CASE s.k \in {"declare", "assign", "expr"} -> Found(g, FALSE)
    [] s.k \in Loops -> processCommonLoopBody(s.body, g)
    [] s.k \in {"if", "guard", "tryguard"} -> BranchCFG(s, g)
    [] s.k = "switch" -> SwitchCFG(s, g)
    [] s.k = "break" ->
         Found(terminateNode(markBreakTerminal(g), "Break"), TRUE)
    [] s.k = "continue" -> Found(terminateNode(g, "Continue"), TRUE)
    [] s.k = "return" -> Found(terminateNode(g, "Return"), TRUE)

-----------------------------------------------------------------------------
(* The function. *)

\* The nodes the check walks over: the root and its siblings, in order.
RootNodes(g) ==
  LET reach[n \in 1..Len(g.edge)] ==
        IF g.sibling[n] = Null THEN {n} ELSE {n} \cup reach[g.sibling[n]]
  IN reach[1]

\* W1000: no node of the outermost level is left by a return.
Not_All_Control_Paths_Return(g) ==
  \A n \in RootNodes(g) : g.edge[n] \notin {"Children", "Return"}

\* The declarations, in the order the visitor comes to them.
Declarations(stmts) ==
  SelectSeq(Visited(stmts),
            LAMBDA s : \/ s.k \in {"declare", "foreach"}
                       \/ s.k = "for" /\ s.decl # Null)

\* A declaration whose name is taken gets the first mangled one that is not.
Mangled(name, used) ==
  LET Nth(i) == "::mangled_" \o name \o "_" \o ToString(i)
  IN IF name \notin used THEN name
     ELSE Nth(CHOOSE i \in 0..Cardinality(used) :
                /\ Nth(i) \notin used
                /\ \A j \in 0..(i - 1) : Nth(j) \in used)

CheckLocalNames(stmts) ==
  FoldLeft(LAMBDA names, d :
             names @@ (d.decl :> Mangled(d.name,
                                         {names[e] : e \in DOMAIN names})),
           <<>>, Declarations(stmts))
=============================================================================
