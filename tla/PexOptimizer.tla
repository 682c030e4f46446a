---------------------------- MODULE PexOptimizer ----------------------------
(***************************************************************************)
(* The optimizer of the code of a function, pex/PexOptimizer.cpp.  It      *)
(* removes assignments of a variable to itself and jumps over nothing,     *)
(* from the last instruction to the first, and then renumbers the targets  *)
(* of the jumps and the lines of the debug information.                    *)
(*                                                                         *)
(* The pseudo-instructions the code makes for labels hold no instruction,  *)
(* so isDeadBetween passes over them, and a label stands right before the  *)
(* instruction it is the target of: a target is a position of the code.    *)
(***************************************************************************)
EXTENDS PexFunctionBuilder

\* The argument of a branch that is the distance to its target.
DistanceArg(ins) == IF ins.op = "jmp" THEN 1 ELSE 2

branchTarget(code, i) == i + code[i].args[DistanceArg(code[i])].n

\* The instructions, by their place from 1, that are removed: of those after i
\* the fate is known when i is looked at.
Killed(code) ==
  LET IsSelfAssign(ins) ==
        ins.op = "assign" /\ SameValue(ins.args[1], ins.args[2])
      dead[i \in DOMAIN code] ==
        \/ IsSelfAssign(code[i])
        \/ /\ code[i].op = "jmp"
           /\ branchTarget(code, i) > i
           /\ \A j \in (i + 1)..(branchTarget(code, i) - 1) : dead[j]
  IN {i \in DOMAIN code : dead[i]}

\* The place an instruction, or the label before it, has among those left.
NewPlace(killed, i) == i - Cardinality({j \in killed : j < i})

Retarget(code, killed, i) ==
  IF IsBranch(code[i].op)
  THEN [code[i] EXCEPT !.args[DistanceArg(code[i])] =
          Lit(NewPlace(killed, branchTarget(code, i)) - NewPlace(killed, i))]
  ELSE code[i]

\* What is left of a function if the process lives: killInstruction deletes what
\* lies in the file's pool (FunctionCompile!Optimize).
optimize(f) ==
  LET killed  == Killed(f.code)
      Kept(s) == FlattenSeq([i \in DOMAIN s |->
                               IF i \in killed THEN <<>> ELSE <<s[i]>>])
  IN [f EXCEPT
        !.code  = Kept([i \in DOMAIN @ |-> Retarget(@, killed, i)]),
        !.lines = Kept(@)]
=============================================================================
