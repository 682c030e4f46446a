----------------------------- MODULE MCPipeline -----------------------------
(* Pipeline for programs of three scripts, of which A is always compiled. *)
EXTENDS Pipeline, FiniteSets

CONSTANTS A, B, C, Pool

None == [s \in Script |-> <<>>]
Fun(a, b, c) == [s \in Script |-> CASE s = A -> a [] s = B -> b [] s = C -> c]

Plain == [library |-> TRUE, threads |-> {Main}, kind |-> Fun("compile", "none", "none"),
          provides |-> Script, qualified |-> {}, namespaced |-> {}, broken |-> {},
          extends |-> Fun(B, C, Null), imports |-> None, signature |-> None, body |-> None]

\* what scripts may refer to: at most n of these references
References(n) ==
  {r \in [imports   : {Fun(a, b, <<>>) : a \in {<<>>, <<B>>, <<C>>, <<B, B>>}, b \in {<<>>, <<C>>}},
          signature : {Fun(a, b, <<>>) : a \in {<<>>, <<C>>}, b \in {<<>>, <<A>>, <<C>>}},
          body      : {Fun(a, <<>>, <<>>) : a \in {<<>>, <<A>>, <<C>>}}] :
     Cardinality({<<f, s>> \in (DOMAIN r) \X Script : r[f][s] # <<>>}) <= n}

Extensions == {Fun(a, b, c) : a \in {Null, B}, b \in {Null, C, A}, c \in {Null, B}}

With(p, r) == [p EXCEPT !.imports = r.imports, !.signature = r.signature, !.body = r.body]

\* compileFromSource of A, with B imported, provided or missing
Library(refs, provided, brokens) ==
  {[With(Plain, r) EXCEPT !.extends = e, !.kind = Fun("compile", k, "none"),
                          !.provides = v, !.qualified = q, !.broken = b] :
     r \in refs, e \in Extensions, k \in {"import", "none"}, v \in provided,
     q \in {{}, {B, C}}, b \in brokens}

\* scripts that declare themselves in the namespace their file is in
Namespaced(programs) == {[p EXCEPT !.namespaced = s] : p \in programs, s \in {{A}, {B}}}

\* the command line, with and without -p
CommandLine ==
  {[With(Plain, r) EXCEPT !.library = FALSE, !.provides = {}, !.threads = t,
                          !.kind = Fun("compile", "compile", k), !.extends = e] :
     t \in {{Main}, {Main, Pool}}, k \in {"import", "none"},
     e \in {Fun(B, Null, Null), Fun(Null, C, Null)}, r \in References(1)}

AllPrograms ==
  UNION {Library(References(2), {Script}, {{}}),
         Library(References(1), {Script, {A, C}}, {{}, {B}}),
         Namespaced(Library(References(1), {Script}, {{}})), CommandLine}
Following   == {Plain, [Plain EXCEPT !.qualified = {B, C}, !.body = Fun(<<C>>, <<>>, <<>>)]}
=============================================================================
