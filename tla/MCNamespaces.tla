---------------------------- MODULE MCNamespaces ----------------------------
(* Namespaces for small command lines.  t0 and t1 are import directories and *)
(* t2 an input that is remapped; A and B are namespaces scripts declare.     *)
EXTENDS Namespaces, TLC

CONSTANTS n1, n2, n3, t0, t1, t2, A, B, F

Folder(p, k) == [path |-> p, kind |-> k]

MCPath == {<<>>, <<A>>, <<A, B>>, <<t0, B>>}
          \cup {<<t>> : t \in Temp} \cup {<<t, F>> : t \in Temp}

\* two import directories and an input directory, as on a command line
CommandLine == <<Folder(<<t0>>, "import"), Folder(<<t1>>, "import"), Folder(<<t2>>, "compile")>>

\* an import directory with two subfolders, and the folders of a project file, whose scripts
\* are where their namespace says
Project == <<Folder(<<t0>>, "import"), Folder(<<t0, F>>, "import"), Folder(<<t0, B>>, "import"),
             Folder(<<>>, "compile"), Folder(<<A>>, "compile"), Folder(<<A, B>>, "compile")>>

Both == {CommandLine, Project}

NodeSymmetry == Permutations(Node)
=============================================================================
