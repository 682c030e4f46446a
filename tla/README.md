# A verification project for Caprica

Caprica compiles Papyrus scripts (`.psc`) to Pex byte code. This directory
holds TLA+ models of the parts of it that are hard to test, the TLC
configurations that check them on small instances, and proofs checked by TLAPS.
Paths are relative to the repository, line numbers are those of the modelled
commit.

## 1. Inventory

| part | state it keeps | operations | hard behaviour |
|---|---|---|---|
| jobs (`common/CapricaJobManager.*`, `CapricaJob`) | `hasRan`, `runningLock`, `ranMutex`, `ranCondition`, `next` | `await`, `tryRun`, `hasRun`, the virtual `run` | several callers race for one job; a thrown exception leaves the job locked; a job awaits others |
| job queue and workers (`CapricaJobManager`) | `front`, `back`, `queuedItemCount`, `waiterCount`, `workerCount`, `stopWorkers`, `queueInitialized` | `queueJob`, `tryDeque`, `workerMain`, `startup`, `enjoin`, `awaitShutdown` | lock-free list with a transient `nullptr` front; a shutdown test of four separate loads |
| driver (`main.cpp`, `main_options.cpp`, `CapricaInputFile.*`) | options, the job manager | parse the command line, start threads, import, compile, wait | what is awaited before the queue is drained, what happens to an exception |
| pipeline (`papyrus/PapyrusCompilationContext.*`, `PapyrusResolutionContext.*`, `PapyrusObject.*`) | per script seven jobs (read, preParse, parse, preSemantic, semantic, compile, write) and what each leaves for the next; `currentlyResolving`, the script provider | the `run()` of each stage, `resolveType`, `addImport`, `tryFindType` with its provider | awaits across scripts, cycles of scripts, thread-local state used by pool threads, errors of imports |
| namespaces (same file) | the tree of `PapyrusNamespace`, `nodesToCleanUp` | `createNamespace`, `tryFindType`, `RenameImports`, `queueCompile` | merging import and compile nodes; a tree changed while it is iterated |
| library API (`common/CapricaCompileFromSource.*`) | none of its own | configure, register scripts, compile in the calling thread | state left by the previous compile |
| options (`common/CapricaConfig.*`) | `thread_local` variables | assignment, reset | pool threads see the defaults |
| error reporting (`common/CapricaReportingContext.*`) | error counters, line offsets | `error`, `fatal`, `exitIfErrors`, `getLocationLine` | exceptions as control flow; the line hint |
| allocators and containers (`common/allocators/`, `common/Intrusive*.h`) | heap chains, string table, caches, intrusive lists | allocate, reset, lookup, push, pop | sizes at a heap's limit, generations, concurrent append |
| code generation (`pex/PexFunctionBuilder.*`) | free temporaries per type, labels, line info | allocate, free, fix up | a temporary freed twice |
| optimizer (`pex/PexOptimizer.cpp`) | the instruction list with labels | remove dead assignments and jumps | targets after removal |
| semantic analysis, statements, expressions, CFG (`papyrus/`) | scopes, types, blocks | resolve, coerce, lower | order of resolution, balanced scopes |
| lexer (`papyrus/parser/PapyrusLexer.*`) | the position, a ring of tokens lexed ahead, the table of line ends, the length of a documentation comment | `consume`, `peekTokenType`, `realConsume` | state of the file (lines, comments) changed by a token nobody has consumed yet |
| parser (`papyrus/parser/PapyrusParser.cpp`) | the tree it builds | one function per production | constructs of some games only, errors that go on and errors that are exceptions |
| Pex files (`pex/Pex*.cpp`, `PexReflector`) | string table, flag table, objects, debug information | read, write, reflect as a script | each game has its own layout; what one side writes under a condition the other must expect under the same |
| Pex assembly (`writeAsm`, `pex/parser/`) | labels | print, lex, parse | relative jumps to labels and back, escapes |
| project files, user flags (`papyrus/parser/Ppj*`, `CapricaUserFlags*`) | options, the list of flags | parse once at the start | none that a test does not reach |

How they interact: `main` creates nodes, and the constructor of each queues its
read job. Types are resolved by *awaiting* another node's job: `await()` runs the
job on the calling thread if nobody has claimed it and otherwise sleeps. After
`doCompile` has queued the write job of each input, `main` itself becomes a worker
(`enjoin`), with the pool threads of `startup` when `-p` is given, until the
last worker decides that the queue is drained. Only the queue's atomics, the
jobs' locks and the nodes are shared; the namespaces and the options are
`thread_local`.

The correctness properties of each part that is modelled are in section 4; the
hazards of all parts, each at its line, are in `PROJECT.json`.

The hard behaviours, and what would be correct:

* jobs: a job runs once, whoever asks first; an `await()` that returns means that it
  ran; nobody sleeps for ever while it can still run; a job that threw never looks as
  if it had run;
* the queue: it stays a list under stale loads and a transient `nullptr`; the counter
  never lies or wraps; the threads stop only when everything queued has run; main
  returns success only if nothing threw;
* namespaces: a script is found under the name it declares whatever the order of
  folders, imports and map iteration; an input is never displaced by an import; each
  input is queued once;
* the pipeline: what a script inherits is complete before it is used; jobs never await
  each other in a circle; a compile ends; it succeeds exactly when the scripts
  deserve it, in any order of inputs, after any earlier compile, on any thread;
* code generation: the code of a function does, on every answer of the engine, what its statements
  mean; a temporary is never used for two values at once; jumps, lines and locals are whole; guards
  are unlocked on every way out; nothing that passed the semantic pass crashes the builder;
* pools: allocations do not overlap and come out in the order they were made, also after a
  reset; the index of a string names that string for as long as its file lives, whatever an earlier file left
  in the table;
* lexer: the tokens of a text, their lines and their comments do not depend on where the parser looks
  ahead;
* parser: every tree has the text it was written as, and a text that lost a token is refused or read as what it says;
* declarations: a script is accepted or refused for what it declares, with the parent as a source or as a
  Pex file alike; what it overrides has the signature it had; the names in its file are different;
* Pex files and assembly: what is written is read back, and what is printed assembles to the same file,
  for every game.

## 2. Modules

| module | models | composed with |
|---|---|---|
| `JobPool` | abstract specification: jobs are submitted, started once by a thread that was given them or awaits them, and finished after what they await | implemented by the next two |
| `CapricaJob` | one `CapricaJob`, every atomic access, mutex and condition variable operation a step | refines `JobPool` |
| `JobManager` | the queue, the worker loop, the shutdown protocol and the main thread | uses jobs as claimed in one step (justified by `CapricaJob`), refines `JobPool` |
| `Namespaces` | the tree of namespaces: filled from folders, renamed, walked to queue inputs, searched | hands nodes to the pipeline |
| `Pipeline` | the seven jobs of every script, what they await and resolve, the script provider, the end of a compile | jobs and queue as `JobPool` promises them; names as `Namespaces` finds them |
| `PexFunctionBuilder` | the builder: temporaries and their free stacks, labels, scopes, `fixup`, `populateFunction` | used by `Lowering` |
| `PexOptimizer` | what is removed and how targets and lines follow | takes what `Lowering` made |
| `Lowering` | `generateLoad`, `generateStore` and `buildPex` of expressions and statements | calls the builder |
| `PapyrusCFG` | the graph of every statement, the jump and lock errors, W1000, the mangling of names | decides what is lowered |
| `PapyrusMeaning` | no code: the meaning of the statements, the reference for the next | |
| `FunctionCompile` | one function from the semantic pass to the engine that runs its code | composes the five above |
| `ChainedPool` | the heap chain: allocate, make a heap, reset | used by the next |
| `ReffyStringPool` | the interning table of a Pex file and the cache that hands it to the next file | over `ChainedPool` |
| `FileOffsetPool` | the growing array of line ends and its flat copy | used by the next |
| `PapyrusLexer` | the lexer on characters, with the ring of tokens and the line table | |
| `TokenStream` | the cursor that both recursive descent parsers have | used by the next and `PexAssembly` |
| `PapyrusParser` | every production of the Papyrus parser, with its errors | |
| `PapyrusGrammar` | no code: the words a tree stands for, the reference for the parser | |
| `PapyrusObjects` | the semantic pass of the declarations and what of them goes into a Pex file | takes the tree of the parser |
| `PexFiles` | the records of a Pex file, written to and read from a stream, for each game | |
| `PexAssembly` | a Pex file as text, the tokens of the text, the parser of the assembly | |
| `PexReflector` | a Pex file seen as a script | |
| `ScriptCompile` | a script and its parent, from words to a Pex file, its assembly and back | composes the seven above |
| `MCCapricaJob`, `MCJobManager`, `MCNamespaces`, `MCPipeline`, `MCFunctionCompile`, `MCReffyStringPool`, `MCPapyrusLexer`, `MCScriptCompile` | the instances for TLC | |
| `CapricaJobProofs`, `JobManagerProofs`, `NamespacesProofs`, `PapyrusLexerProofs`, `PexOptimizerProofs`, `PipelineProofs`, `PipelineResultProofs`, `ReffyStringPoolProofs` | the proofs | |

### CapricaJob

`pc[t]` is where thread `t` is in `await()` or `tryRun()`; `hasRan`,
`runningLock` and `ranMutex` (the owner) are the members of the class; `sleeping`
is the set of threads blocked on `ranCondition`. `Awaiter` threads call `await()`,
`Poller` threads are the queue's worker, which calls `tryRun()` alone. The
mutex is held during `run()`, so a refused awaiter blocks in `AwaitLock`, tests
the predicate under the lock (`TestPredicate`), and sleeps; the notification
follows the unlock. `run()` may throw (`CanThrow`): the unique_lock is released by
unwinding, the lock that was taken stays taken.

### JobManager

One step per access of an atomic. `TryDeque(t)` holds the steps of `tryDeque`
(`LoadFront`, `LoadNext`, `Advance`, `AdvanceFails`, `Reload`, `Restore`, `Uncount`,
`TestRan`), `WorkerMain(t)` those of `workerMain`, `MainStep` what only the main
thread does, `RunJob(t)` what happens inside a `run()`: it awaits other jobs
(claiming them on the same thread), returns or throws. `calls[t]` is the stack of
jobs `t` is inside of.

What is abstracted, and why that is sound:

* A job's `tryRun()` claims the job in one step. `CapricaJob` has the steps.
  It implements `JobPool`, and a caller that loses only learns that somebody else
  claimed the job.
* `queueJob`'s compare-exchange loop is one exchange: only main queues, a failed
  attempt only reloads a local. A spurious failure of `compare_exchange_weak` in
  `tryDeque` reloads the value it already had and is the step `Reload`.
* A wait of 100 ms on the condition variable may return at any time, because of
  the timeout, a notification or spuriously. Therefore `notify_one` and
  `notify_all` have no effect on what can happen, only on when.
* Atomics are sequentially consistent. The code uses acquire/release and one
  relaxed store (`setQueueInitialized`); on x86 these differ from sequential
  consistency only by store buffering, which is left out.
* `main` calls `startup` twice when compiling in parallel (`main.cpp:402`,
  `PapyrusCompilationContext.cpp:669`). How many threads the second call adds
  depends on how many have counted themselves; `Worker` is the set of all of them.
* A script's read job is a queue node, its six later stages are the write job
  with what it awaits.

History variables: `added` (in the queue's order of exchange), `passed` (nodes that
were the front), `drained[t]` (`passed` when `t` last found the count 0).

### Namespaces

A namespace is the path of its name's pieces, so the tree is `objects`, a function from
the paths that exist to `PapyrusNamespace::objects`. `folders` is what the command line
pushes (`PushFolder`, `addFilesFromDirectory`), `declared` the namespace each script turns
out to declare. `RenameImports` is a loop over `rootNamespace.children` with an iterator:
`order` is the map's iteration order and `it` the position in it. It is an unordered map,
so every initial order is allowed, and what `createNamespace` inserts in the middle of the
loop may come anywhere. `RenameMap(s)` is `tempRenameMap` for a visiting order `s` of
the subtree, `Merged` and `Losers` are what `createNamespace` does with duplicates,
`EraseTemp` is the erase with its restart at `begin()`; `TempsLeft` are the temporary namespaces that are there after it, and
`StillTemp` the scripts below them. `QueueCompile` counts how often each input's write job is queued, once for each name under which
the walk of `doCompile` comes to it. `TempsApart` says what makes a name a temporary one: no two
folders have the same, and below a folder's temporary namespace a name is a file's or a folder's, not both. `TryFindType` searches from a namespace outwards; the
properties ask it about every script from every namespace.

A range-for whose map rehashes while it runs is undefined in what it visits. `MayRehash`
is a constant: the runs have it `FALSE`, i.e. no insertion outgrows the bucket array, as
on a command line with few top-level namespaces; with `TRUE` inputs can be skipped, which
is listed as a hazard. Structs in names and `reset()` are left out.

### Pipeline

A frame is a job a thread is inside of with `todo`, the calls it still has to make that
matter: await a job, resolve a type, look one up, import a script, look at the error
count. `Steps(j)` is the `run()` of each of the seven jobs, in the order of the code. A job that is awaited
and unclaimed runs on the awaiting thread, on top of the stack. `TryFind` is
the thread's own `rootNamespace`: it is `thread_local` and only main has filled it.
`Provide` is the branch of `tryFindType` that calls the script provider: a new import node,
its read queued, registered unless the name is taken, its `preSemantic` awaited, with the
name in `resolving` until then. The branch does not depend on what it provides, which can have to do with a `:` in two ways. A
script that is asked for by a name with a `:` (`qualified`) is registered under a key that no lookup uses. That name is also the
name of its file, which the script's own name, `:` or not, never equals: the parser reports an error (`Refused`, `PapyrusParser.cpp:149`), so
such a script is read and resolved, and whatever needs it fails. A script that declares a name with a `:` (`namespaced`) asks, from its
`semantic` on, in the namespace of that name; no compile from source makes one, the lookup ends at
`PapyrusCompilationContext.cpp:705`, and the provider is not asked (`AsksApart`).

Where the code is undefined the model chooses: `AwaitSelf`, a thread that awaits a job it is
running, locks a `std::mutex` it holds, throws or never returns (`hung`); `Dereference`, an import
that was reported missing leaves an uninitialised pointer in the list that `resolveType` awaits,
crashes or goes on. `Recompile` is `compileFromSource` called again in the same process.

What a script refers to is a `program`: its superclass, its imports, the types in its signatures
and those in its bodies, whether it is an input, an import, or only known to the provider,
whether there is a `:` in its names, and whether its parser reports errors. `Program` is the set of programs. `HasType`, `HasApi` and
`Correct` define what a correct program is without mentioning jobs, so that success and
failure can be compared with it.

Left out: structs and Pex or assembly inputs (`ScriptCompile` has them), strict namespaces, and how main decides that the queue is
empty, which is `JobManager`'s: `Exit` is possible when nothing is queued and no thread is inside
of a job. `MaxMade` bounds the nodes the provider makes of one script at 2. No state of
the runs reaches it, there is never more than one: `Provide` would be disabled there, and `CompileEnds` violated.

### The generation of code

The builder is a record and every operation of `PexFunctionBuilder` an operator from builder to
builder. `locals`, `temps` and `labels` are the objects the code allocates, by number; `root`, `next` and
`count` are the intrusive free stack of each type, with the link in the local variable itself, so that
a variable pushed twice is in a circle, as in the code. `fixup` resolves and frees the arguments first and only
then allocates the destination. `failed` stands for the fatal errors, `broken` for a failed assertion.

`Lowering` follows the calls one by one. A value that a later step needs is passed on as a
parameter; `val` of the builder is the `PexValue` that the last load returned.

`FunctionCompile` starts with a syntax tree (`Programs`), with identifiers resolved and implicit conversions
in place. `Semantic` is `semantic2`; `BuildPex` and `Optimize` are the two steps of the compile job, the
second of which an option may leave out. `killInstruction` gives `delete` an instruction that is a part of the file's pool;
that is undefined, and `Optimize` either goes on or, if there is anything to remove, ends the process (`aborted`). From `Call` on the engine runs the code: `Compute`, `Jump` and
`Ret` are inside the function, `Tell` and `Ask` leave it, and an `Ask` is answered with any of `Inputs`. `trace` are
the events so far, `taken` the answers. The engine is no part of the repository; its actions are marked as external.
`GraphOf` and `CodeOf` are functions of the program that TLC works out once.

`PapyrusMeaning` is written from the language, not from the code: a `For` is that of VB.Net (`README.md:31`), exactly one
case of a `Switch` is executed, `Break` and `Continue` are for the innermost loop, a `Return` unlocks what is locked.
`BehaviourPreserved` compares the two: at every moment `trace` is a prefix of what the meaning does on `taken`.

Left out: floats and strings (they take the paths of integers), the concessions to Skyrim, the limits at 65536
temporaries or instructions, coercions and name lookup (done before), Pex output. The functions of
`FunctionCompile` leave out two kinds, which `MCFunctionCompile` filters and names: `FallsThrough`, a case that ends
in a statement control may get past (see the observations), and `JumpsOutOfGuard`, a Break or Continue out of a Guard, for which the
code emits no `unlockguards` and no document says what it should.

### Pools

`ChainedPool` numbers the heaps in the order of their creation; `chain` is the order of their `next`
pointers, in which `allocateHeap` puts a heap of its own size behind the first one and an ordinary one at the
end. `live` is a history of the allocations since the last reset. `ResetPool` stops at the first empty heap, as the loop of
`reset()` does, and deletes the heaps that are not of the ordinary size.

`ReffyStringPool` is the open-addressed table. A hash is the slot a search begins at and the upper half
that is compared before the characters, so that collisions of one, of the other and of both are instances of
`HashOf`. `Lookup` and `PushBack` are the two ways a string gets into the table, `Reset` the acquisition by
the next file, which raises the generation and clears nothing. The mask is the number of slots and not one less
(`ReffyStringPool.h:33`), so that a search may begin at the entry behind the last one: `LookupOutside` and
`PushBackOutside` are what can happen then. The search goes on behind the table and does not come back; it may meet an entry that an earlier push of the
string wrote there, or something that it takes for a stale one, or crash. Whose memory such a push overwrites is left out.

### The lexer

`PapyrusLexer` works on texts that are sequences of characters. Letters, digits and signs are represented
by a few of each class, since `realConsume` looks at no more than the class. `RealConsume` is `realConsume` as a function of
the position, the type of the current token and the tokens in waiting: a loop is `Skip` or a recursive function of the index, a token
is `TokenAt`, and `goto StartOver` is the recursive function `Lexing`, whose argument is the next index and how many of the tokens in waiting
a line continuation has taken. All recursion is by recursive functions, so that the module can be proved about. `PeekTokenType` and `Consume` are the interface the parser has,
in any order, with the ring of tokens that were looked at and not yet consumed; `FormatLocation` is a report, which
flattens the line table while the lexer goes on adding to it. What was consumed is compared with `Alone`, the text lexed
without looking ahead. The line hint of `getLocationLine` is left out.

### From words to a file

`PapyrusParser` reads words (type and value of a token) and builds trees. A production is a sequence of steps over the
state `s`: the words left, the value of the last step, and whether an exception (`fatal`) or an error that goes on (`errors`) was met. Each
expression level is one instance of `binary`; the flags of a declaration are a loop over the flags its parser
allows. `PapyrusGrammar` is written from the language and goes the other way: the words of a tree. `ScriptCompile`
compares the two.

`PapyrusObjects` is `semantic()` and `semantic2()` of everything that is declared, and `buildPex` of it. A type is resolved
in the world of the scripts a script can see; the world of a run is the script, its parent, and `Library`. What happens inside a function is
`FunctionCompile`'s: here the code of a list of statements is the constant `Code`, any instructions with any
kinds of operands, labels and lines.

`PexFiles` describes each class of the file by what `write` puts into the stream and what `read` takes out of it, entry by
entry, with the conditions on game and flags each function has. A stream is a sequence of cells with their type and byte order, so that
a field that is read with another width or order than it was written with is noticed. `PexAssembly` is the same for text: `writeAsm`
prints words, `Lexed` is what the lexer makes of a printed value (escapes, numbers, words that look like values), and
the productions of `PexAsmParser` build a file from them.

`PexReflector` makes a script of a file, as `-i` does with a compiled import. `ScriptCompile` takes a parent and a child
through all of it, in any order their jobs allow: `ParseJob`, `Compile`, `Write`, `Load`, `Assemble` (which prints first), and for the
child `CompileAgain` with the parent reflected from its file. Some inputs are torn: the words of a script with any one of
them missing.

## 3. Fairness

`CapricaJob` and `JobManager` assume weak fairness for every thread: the operating
system schedules each runnable thread, a `run()` that waits for nothing returns,
and a timed wait times out. `CapricaJob` adds strong fairness for acquiring the
mutex: a thread that keeps trying gets it at last. Nothing is assumed of
spurious wakeups and throws. `EveryAwaitReturns` is checked only where `run()` does not throw; after a
throw a later awaiter sleeps forever by design. `Pipeline` assumes weak fairness of each thread
and of main's return, which `JobManager` justifies for a serial compile; a thread that is `hung`
has no step. `Namespaces` has no liveness properties: it is one loop after the other. Nor have the modules of
pools, lexer and scripts: their operations return, and what they return is the question.
`FunctionCompile` assumes weak fairness of its only thread: the compiler and then the engine go on.

That a parallel compile decides to stop is *not* claimed of `JobManager`. The last thread must
read `waiterCount == workerCount - 1`, and two threads whose timed waits stay in
step can read each other as not waiting for ever; only the timing excludes it.
What is checked instead: once one thread has decided, everybody leaves (`StopEnds`),
and a serial compile always ends (`CompileEnds`). `Pipeline`'s `CompileEnds` says of parallel
compiles that the jobs come to an end.

## 4. Runs

| run | question | bounds |
|---|---|---|
| `CapricaJob` | two awaiters and a poller: is `run()` entered once, does `await()` return after it and only after it, is no wakeup lost, is it a `JobPool`? With a `run()` that returns and one that may throw | 3 threads; a third awaiter adds no new case, every pair of roles is there |
| `JobManagerLibrary` | a library compile that queues lazy imports while main runs a job: does everything queued run, does it end? | 1 script, 1 explicit and 2 lazy imports |
| `JobManagerParallel` | all safety properties, termination after the decision, refinement, with a script that may fail | 2 scripts, main and 1 pool thread |
| `JobManagerAbandoned` | finding | 1 script, serial, its read awaited by RenameImports |
| `Namespaces` | remapped import and input directories, import directories with subfolders, project folders under their own namespaces: is every script found, no input displaced, every input compiled; which temporary namespaces can stay, is anything queued twice that is not below one, and is what lost a merge out of reach? | 3 scripts in any of the folders, 2 base names, 3 declared namespaces, every iteration order |
| `Pipeline` | are ancestors first, are there no circles of awaits, does a compile succeed exactly when it should, does it end? | 3 scripts; every inheritance among them including circles, up to 2 kinds of references of the listed ones, provided, imported, missing and broken scripts, scripts that are asked for by a name with a `:`, scripts that declare one; serial, with a pool thread, and a second compile |
| `PipelineContext` | finding | 2 inputs, 1 pool thread |
| `FunctionCompile` | does the code do what the statements mean, with and without the optimizer; is it whole, are guards balanced, does nothing crash but a `Switch` without a `Case`, does the optimizer stop only over what it removes, is a missing Return warned of, does it end when the statements do? | 1247 functions: expressions up to two operators deep over every kind of operand, each compound statement inside each other, a `Switch` without a `Case` alone and in others; answers 0, 1, 2, up to 4 of them |
| `FunctionCompileFor` | finding | 2 functions with a comparison before a `For` |
| `Pools` | does an index name its string, is no string lost, are allocations apart and in order, over several files? | 4 slots, 5 strings: two with the same slot and upper half, one that meets them after the wrap at the end of the table, one as large as a heap, one whose search begins behind the table; heaps of 5 bytes, 3 files of up to 4 strings |
| `Lexer` | do tokens, lines and comments not depend on where the parser looks ahead and when it reports? | every concatenation of up to 3 of 23 fragments: starts, middles and ends of everything that spans characters; 2 offsets in a heap |
| `Scripts` | is a tree parsed as it was written, a file read as it was written, assembled as it was printed; is a script compiled alike against a source and a file; are signatures and names kept? | a parent and a child in each of the four games, with and without debug information: every kind of declaration, 17 children that go against their parent in one way each, 10 with what came with the later games, among them overrides of a function that has the name of an event in its signature, and one script with everything of which any single word is missing |

Three scripts are what the properties tell apart: one that is compiled, one it needs, and one
that this one needs; a circle can have one, two or three of them. Two operators are the least depth at
which temporaries overlap, one statement in another the least at which labels, scopes and kept temporaries nest;
four answers take a loop through a second iteration. A table of four slots has every way two searches can
overlap, wrap and be displaced, and a third file meets entries of two generations. Three fragments are a construct with
something before and after it. A rule about inheritance is one between a declaration and one above it, so two scripts and a root are enough.
`CHECK_DEADLOCK FALSE` where the program ends: a text is at its end, both scripts have been through, main has returned, or the process was terminated or is hung; a function has
returned, or its run has used up the answers.

The properties that say most:

* `NullFrontOwned`: the comment in `tryDeque`, "We can only have managed to do this
  ourselves, nothing else will write while front is still nullptr". It takes a
  thread that reloads a `nullptr` next, another that loads the `nullptr` front and a third
  that appends.
* `FrontNeverReturns`: no stale compare-exchange and no restored front moves the queue
  backwards (an ABA of `front`).
* `QueueAccounting`: the counter is the number of nodes behind the front up to the
  threads that are in the middle of `queueJob` and `tryDeque`, and never negative (it is
  a `size_t`).
* `DrainedJobsRan`: a thread that decides to stop the others found the queue empty;
  whatever had left the queue by then has run *to its end*, also in other threads.
  It rests on `waiterCount == workerCount - 1`.
* `ExitQuiescent`, `NoFalseSuccess`: what main's return means.
* `PoolSpec`: the refinement.
* `Resolvable`, `BindingsOnlyImprove`: whatever the order in which folders are pushed, children
  are iterated and subtrees are visited, a declared name stands for a script of that name, and
  for an input if there is one; no step takes a name away.
* `TempsCleaned`, `InputsQueuedOnce`: exactly what the erase loop can leave behind, in every order of the map, and what follows from it for
  the queue, a linked list in which a node must not be twice.
* `AncestorsFirst`: `tryGetParentClass` reads the parent without awaiting anything; it is right
  because every way of getting at a type has awaited the parent's job first.
* `AwaitsDescend`, `NoCircle`: a thread awaits only jobs that are before everything it is inside
  of, in an order (stages; within `preSemantic` and `semantic` ancestors first) that no
  reference in a signature, a body or an import list disturbs. So only inheritance can make a circle.
* `ResultIsDeserved`: the outcome is that of the definition of a correct program,
  although errors of imports are looked at in some places and not in others.
* `BehaviourPreserved`: all of the generation of code in one property; it takes one temporary freed too early, a
  label one off or an order of evaluation that is not that of the language to violate it.
* `CodeIsWhole`, `NoErrorNoCrash`: jumps, names and lines, and that the graph and the builder agree on what a
  well-formed function is: no function without errors pops an empty stack or reads a temporary before it is written, except one
  with a `Switch` that has no `Case`; and the optimizer can end the process only over a function with an instruction that does nothing.
* `GuardsBalanced`, `FallOffIsWarned`, `RunsToItsEnd`: on every path, whatever the engine answers.
* `TableFaithful`: nothing clears the table between files; only the generation number keeps an entry of
  another file from being found, and a search that ends at a stale slot must not have passed its string.
* `StreamInOrder`: the binary writer writes the heaps one after the other, so that a heap used out of turn after a
  reset would permute a file.
* `LookaheadInvisible`: the tokens, their errors and line ends are those of a lexer that never looks ahead, except
  where a line is continued inside the lookahead (see the observations).
* `LineFound`: a line is looked up in a table that is half flat, half in heaps, by reports between two tokens.
* `DocTextKept`: the length is counted down from what is trimmed, over line ends of one and of two characters.
* `ParsesAsWritten`: against a grammar that was not made from the parser; precedence, optional parts and the order of
  members.
* `AcceptedIsKept`: of a text that lost one word, nothing is dropped silently: either it is refused, or the tree has every
  word that is left.
* `ReadIsInverseOfWrite`, `AssemblyIsInverse`: two functions that only agree by being kept alike, in four layouts.
* `SourceAndPexAgree`: what the reflection loses of a parent makes no difference to a child, except for structures in signatures and
  for overridden functions with the name of an event in theirs.
* `SignaturesKept`, `NamesStayApart`: stated about the files alone, whichever check of the semantic pass was to ensure them.
* `CompileEnds`: also for circles of scripts with a `:` in their names, which end at `currentlyResolving`.

### Findings

* **A single script may not be compiled** (`JobManagerAbandoned`).
  `tryDeque` moves the front to the next node and returns "no job" when the node it popped
  has already run. If that node is the last read, awaited by RenameImports, and one write
  job follows, the counter is 0, main stops, and the write job at the front never runs.
  A library compile does not run `RenameImports`: there the same property holds, also when jobs
  are queued by the job that main is in (`JobManagerLibrary`).
* **Pool threads have no namespaces** (`PipelineContext`). Scripts without errors fail to
  compile with `-p` when a pool thread takes one that refers to another.

* **A `For` with a variable step goes wrong after `!=`** (`FunctionCompileFor`). `!=` is compiled to a comparison and
  `not dest, dest`; `fixup` frees the temporary for each of the two arguments, it is pushed onto the free stack
  twice and links to itself, and from then on every Bool temporary is the same variable: also the one that keeps the sign of
  the step and the result of the comparison. `FunctionCompile` shows that no other function of its set suffers from it.
### Observations

Seen while modelling, without a run that expects them. The models follow the code in each of them; where one would violate a
property, the property or the instance says what it excludes.

Jobs and namespaces:

* A thread that is not the last living one may stop the others: a pool
  thread reads the count 0, main queues its jobs, and the pool thread's remaining loads pass. `DrainedJobsRan` says
  that main then drains the queue on its own.
* The order of `--import` folders is not the one a comment wants: the
  iteration order of a map decides which script of a name wins; `Resolvable` holds all the same.
* A temporary namespace may stay, although the comment at `PapyrusCompilationContext.cpp:693` says that the loop is to "remove the children":
  it restarts at `begin()` after an erase and then increments (line 694), so the new first child is not tested. An import folder and an
  input folder on the command line make two such namespaces, and if they are the first two of the map, one stays; if it is the input's,
  `queueCompile` comes to each of its scripts a second time and puts the same job into the queue's linked list twice.
  `TempsCleaned` and `InputsQueuedOnce` say that at most one stays, and that nothing else is queued twice. With `MayRehash` the loop over the root's children may skip a temporary namespace altogether.
* A circle of provided scripts (`hello_world_test.cpp:179`) awaits a job from inside of itself, which locks a
  mutex the thread holds: the guard against circles is behind the lookup in the root namespace
  (`PapyrusCompilationContext.cpp:718`), where the provided node is already.
* The comment at `PapyrusCompilationContext.cpp:729` says a provided script is registered "so it's found next time":
  with a `:` in its name it is not. Whatever it declares, its parser then reports that the name is not that of the file
  (`PapyrusParser.cpp:149`), so that no such script can be used. `CompileEnds` shows that a compile with them still ends.
* A library compile of a script that declares a name with a `:` finds no type: a lookup from a namespace that does not exist returns false
  before the provider is asked (`PapyrusCompilationContext.cpp:705`).
* Erasing a name from `currentlyResolving` behind the await (line 740) changes no result: a second lookup finds the node that is registered. What
  matters is that the set is cleared between two compiles, which the mutant of `ResultIsDeserved` leaves out.
* `addImport` pushes an uninitialised pointer for an import that is missing (`PapyrusResolutionContext.cpp:26`).

Code generation:

* A case that ends in a loop, a `TryGuard` or an `If` without `Else` around a `Return` counts as terminal
  (`PapyrusSwitchStatement.h:37`), and control falls through to the next case.
* A Break or Continue out of a Guard does not unlock it (`PapyrusBreakStatement.h:23`).
* A `Switch` without a `Case` writes through a null pointer (`PapyrusSwitchStatement.h:81`: no case has set `nextCondition`), with or without a
  `Default`. The grammar in `README.md:44-53` allows it and no check refuses it.
* The optimizer calls `delete` on instructions that a pool has allocated (`PexOptimizer.cpp:27`), for each one that it removes.

Pools:

* An allocation as large as a heap fails (`ChainedPool.cpp:37`): `tryAlloc` wants strictly more bytes than it takes.
* The string table has 65535 slots and a mask of 65535 (`ReffyStringPool.h:33`): one hash in 65536 begins behind the table, and its search reads, and
  a push writes, behind it. Such a string has an index of its own all the same, but need not be found again (`TableFaithful`). `find` never returns from a
  full table.

Lexer and reports:

* A token in the first column is reported on the line above it; a report at offset 0 asks for line 0
  (`CapricaReportingContext.cpp:79`). Line ends in front of a documentation comment's text, a second one in a row in
  a comment, and an escaped one in a string are not counted (`LineFound` excludes what comes after them).
* A `\` at the end of a line inside of the lookahead takes one of the tokens that were looked at, and reports an error, as that one does
  not end a line. What `peekTokenType` returns is then the type at `peekedTokens[distance]`, which an earlier lookahead left there:
  after `a[]` on one line, `a[\` and `x[1]]=1` on the next two make the parser look at the third token, the buffer
  holds the line's end, `x` and `[`, and once `x` is current the next lookahead fails the assertion of `PapyrusLexer.cpp:150`
  (`PapyrusLexer.h:222`: "you must not attempt to peek past those 3 tokens until all 3 have been consumed"). It takes a text longer than those of the
  run. That it happens no other way is part of `LookaheadIsInvisible`.
* A documentation comment that has a CR LF before its `}` loses its last characters (`PapyrusLexer.cpp:628`, `:650`).

Parser and declarations:

* Of two functions of a name in a state one is dropped; a leading comma in a list is accepted; a second
  `Default` after an empty one too; a property with a value and without `Auto` can be neither read nor written; an unknown
  user flag takes the data of the first; a typed property without the word `Property` becomes a variable.
* A setter without a parameter is dereferenced all the same.
* In Skyrim the option that lets a variable shadow a property of the parent exempts the script's own too
  (`PapyrusObject.cpp:206`). A variable called `::P_var` collides with the one of an automatic property `P`.
* A function of the parent with a `CustomEventName` or `ScriptEventName` in its signature is written with `String` in its place
  (`PapyrusType.cpp:57`) and reflected as such (`PexReflector.cpp:23`): a child that overrides it and compiles against the source is refused
  against the file, for another signature (`PapyrusState.cpp:66`). `SourceAndPexAgree` excludes it.
* A reflected parent has lost its guards, its const flag, default parameters and custom events; a declaration with a structure is
  written `Script#Struct`, which ends the compilation of a script that is compiled against it (`SourceAndPexAgree`
  excludes it). In Skyrim the root `__ScriptObject` is written as an empty name, and its events are not inherited through a file.

Pex files and assembly:

* Only assertions check that a count fits its 16 bits. The length of an object in a Skyrim file is not byte-swapped. The flag
  table is indexed by position when read and by bit when asked. Opcodes are checked on reading only.
* The assembler never sets the game: what it makes has the version of Starfield. It refuses a const script with a
  parent, cannot read guards (the end of the line behind `.guard` stays) and puts operands of guard instructions with the
  arguments; `Assembles` excludes these. It loses the order of structures, the precision of floats (`%f`), rejects the largest and least
  integers, does not take a CR in a string, and takes identifiers called `none`, `true` or `false` for values.

## 5. Proofs

TLAPS checks, for any sets of jobs and threads that satisfy `ConstantsAssumption`
(`TextsAssumption` and `OffsetsPerHeapAssumption` for the lexer, `ThreadAssumption` for `CapricaJob`, `ProgramAssumption` for `Pipeline`, `NamespaceAssumption` and `TempsApart` for `Namespaces`; `HeapSizeAssumption` and `StringsAssumption`
for the pools):

* `CapricaJobProofs`: `RunsOnceCorrect`, `ReturnMeansRanCorrect`, `NoLostWakeupCorrect`,
  `ThrownStays` and `Refinement` (to `JobPool`). The inductive invariant says who may
  hold the mutex at each program counter and that a sleeping thread implies that the
  job is still to be stored or the notification still to be sent.
* `JobManagerProofs`: `TypeCorrect`, `NullFrontCorrect`, `FrontCorrect`, `Refinement`, `ExitCorrect`, `NoFalseSuccessCorrect`. The
  invariant `QueueInv` describes the list without recursion: links are injective; the job being
  added is the back and has no predecessor; exactly the nodes with a `passed` successor or the front
  as successor are passed; the `next` a thread holds before its compare-exchange is
  `nullptr` or the link of the node it holds. Then a compare-exchange that succeeds
  moves the front one node down, whatever stale values the threads hold.
  `Refinement`, that `JobManager` implements `JobPool`, follows from
  the call stacks (`Claims`: a thread is inside exactly the jobs it claimed and has not
  finished, each once), `ExitCorrect` and `NoFalseSuccessCorrect`, from `Counting`
  (`workerCount` is the number of threads inside `workerMain`, which needs finitely many
  workers).
  The last part proves `QueueAccountingCorrect`, `DrainedJobsRanCorrect` and `NothingAbandoned`, on top of `QueueInv`. The
  count is the number of queued nodes that have not left the list, corrected by the threads between a compare-exchange and their
  decrement and by a job that is queued and not counted (`Accounting`). For `DrainedJobsRan`: whatever has left the queue was claimed
  or is in the hands of a thread in `tryDeque` (`Handled`), and `waiterCount` is the number of threads in a timed wait (`Waiting`); so a
  thread that counts all others as waiting, after it had found the queue empty, has seen them with empty hands, and nobody leaves until someone
  decides to stop (`Deciding`). `NothingAbandoned` is `NoJobAbandoned` for
  a compile from source, with the hypothesis `Library`: no pool threads, no job awaited by `RenameImports`, reads await nothing, nobody
  awaits a write, and every read of an import found on the way is awaited by a write. There `Taken` says that main finds a job it took
  already run only while that job is still the front, or when such a read is behind it, so no write is skipped.
* `PipelineProofs`: `AwaitsDescendCorrect`, `NoCircleCorrect`, `TypeCorrect` and `AncestorsFirstCorrect`, for any finite set of scripts,
  any threads and any programs over them. `May(p, j)` is what job `j` may have left to do: awaits
  of jobs that are `Before` it, lookups at an earlier stage, or, in `preSemantic`, of the superclass. The
  inductive invariant says that every frame's `todo` is a sequence of these, that the jobs of each
  stack descend, and that a parent or a registered node is one of the script it should be (without which
  `AwaitSuper` could await anything). Lemmas for a frame that is changed, pushed and popped carry
  the invariant through the sixteen steps. `NoCircle` follows for any number of threads: of the jobs
  awaited in a circle take one of the least stage and, among these, one with the fewest scripts above it.
  That needs two facts more: only `AwaitSelf` blocks a thread, and no compile follows a blocked one. `AncestorsFirst` is no
  invariant of single jobs but of what is left to do: until `preSemantic` of a node has run its lookup is on the list, or its
  parent has been found and is awaited or has run; until `semantic` has run, the node's own `preSemantic` and the call for the
  parent are on it, or the parent's `semantic` is awaited or has run. That a parent does not change once `preSemantic` has run
  needs that no job begins twice (`Once`). Every step is brought into one of four shapes first (`StepHasShape`): nothing happens to the stacks, a job
  begins, one returns, or the job on top goes on.
* `PipelineResultProofs`: `ResultIsDeservedCorrect`, on top of `AInv` of `PipelineProofs`, for any number of scripts, threads and
  further compiles. Two invariants carry it.
  `RInv` is for success. It says what it means that a job has run (`Meant`: a script whose `preSemantic` has run has a type, one
  whose `semantic` has run has types in all its signatures and in those it inherits, one whose `compile` has run is `Correct`), and
  what each frame still owes for that (`Knows`): a type of a signature or a body is still to be resolved or looked up, or it was
  found and is awaited or settled; an import is still to be found, or was found, or there is an error; two imports that are one
  will be found to be so, as what is registered under a name stays; the error count is still to come. Until it comes the op list
  is `Ordered`: imports before types before the count. A name in `currentlyResolving` is one whose provided node is awaited
  further down the stack (`Resolving`), a node that the provider gave is awaited or has run (`Registered`), every claimed job that has not run is on
  a stack (`Busy`) and every input's write is queued or claimed, so an empty queue and empty stacks mean that all inputs are written.
  `FInv` is for failure, and speaks only of a serial compile of a program in which every input is correct: each frame is `Able`
  to do what is left of it (what it awaits, looks up or resolves is there and has what its stage needs; no import of an input is there twice) and only
  imports have errors, past the stage at which they are counted (`ErrorsApart`). A frame that still looks something up in its
  `semantic` or later is not one of a `namespaced` script (`Reaches`), as a correct script of that kind has nothing to look up. None of the three exceptions can then be
  thrown: an await of a job the thread is inside of puts a script above itself; an error that is counted is one of an input, or of
  a script that its parser refused (`Refused`) and that something inherits; and a lookup is refused only for a name that is being resolved, which by `AwaitsDescend`
  and `NotResolving` puts that script above itself. That a later compile in the process starts from the same state (`Fresh`) closes the
  induction over `Recompile`.
* `NamespacesProofs`: `BindingsOnlyImproveCorrect` for any tree; `ResolvableCorrect`, `InputsQueuedOnceCorrect` and
  `TempsCleanedCorrect` when the map of the loop does not rehash (`~MayRehash`), without which they are false. They
  assume `NamespaceAssumption` and `TempsApart`. In the invariant `NInv` a script that was pushed is `Pending`, in the temporary namespace of
  its folder, until the loop has come to that one, and from then on `Placed`: its declared name stands for it or for a script of that
  name that wins (`Held`); what stands under a name declares it (`Bindings`), what was put aside stands nowhere
  (`Cleaned`), and of what the erase loop has passed over only the first child can be a temporary namespace, behind another one that it has
  erased (`Erased`); from that the count of each input follows, below such a namespace and elsewhere.
* `ReffyStringPoolProofs`: `TableFaithfulCorrect` and `StreamInOrderCorrect`, for any strings, hashes, sizes and numbers of
  slots and files. The first rests on the fact that a string is entered exactly where its search ends: the slot is stale or names
  the string itself, so that no other string's search changes; a string that is entered behind the table changes no search in it (`NothingLostOutside`); and a new generation makes every entry stale at once. The second
  rests on the invariant that the heaps in use are the first `c` of the chain and the newest allocation ends where heap `c` does;
  that an allocation as large as a heap fails makes all heaps ordinary ones, so the chain is in the order of their creation.
* `PapyrusLexerProofs`: `LookaheadIsInvisible`, `LinesAreFound` and `DocTextIsKept`, for texts of any length and any characters, and heaps
  of any size, from one inductive invariant, `LexInv` (`LexerInvariant`). None of the three is inductive: what a later `consume` returns depends on what lies
  in the buffer, on where the lexer stands behind it, and on which type it believes to be the current one.
  - The functions. `StringEnd`, `CommentEnd`, `DocLines`, `UnixText`, `Lexing`, `PeekMore`, `Alone` and `PushAll` are recursive functions, which TLA+ defines as
    some function that satisfies the equation; that there is one is proved for each (the lemmas `...Def`), from the last index
    backwards for those that read the text ahead. What they return (`...Fact`) is proved by induction over the text. The libraries' induction theorems
    have an operator as a parameter and cannot be used; `Least` and `Induction` follow from `WFMin` of the well-founded
    relation `<`, which speaks of sets instead.
  - A token (`GoodToken`, `LinesIn`): from any index, with any tokens in waiting, `realConsume` ends, moves on, returns a
    token within what it has read, and pushes offsets that ascend and lie within it. So what is pushed stays
    ascending over any number of tokens. It reads `cur` only to tell whether it ends a line (`KindFact`), and without a continuation that
    takes a token the tokens in waiting make no difference (`TakesNone`).
  - The buffer. `Sound` holds whatever the continuations do: the indices are in their ranges and the offsets pushed are in order.
    `Ahead` holds as long as none took a token: the tokens in waiting are the next ones of the text, the lexer stands behind the
    last of them, there are two only if the first is `[` and three only if the second is `]`, and when some have been consumed the
    current token is the last of these. This is why the assertion holds: a buffer that is partly consumed has `[` or `]` current, at which the
    parser looks at the next token only, and that one is there.
  - The table. `PoolHolds(p, u)`: the flat array and then the heaps up to the current one are the sequence `u`; the heaps before it are not empty and
    those behind it are. `push_back` appends to `u` and `flatten` leaves it as it is, wherever they meet. So `LocationLine` counts the pushed offsets
    below the one asked for; if all line starts up to it were pushed, these are the line starts below it, since every pushed offset is one.
  - The comment. The number of characters counted down is the length of the trimmed text with unix line ends: `Trimmed` cuts where the
    lexer does, a CR LF is one character less of either, and none is among what is trimmed by hypothesis.
* `PexOptimizerProofs`: `OptimizedIsWhole`, `OptimizedRunsTheSame` and `OptimizerAddsNothing`, for any function with code that is
  `Whole`: its jumps stay in it, each instruction has a line and the lines never go back, which is what `CodeIsWhole` checks of the code before and after.
  They are the optimizer's share of `CodeIsWhole` and `BehaviourPreserved`; these speak of `FunctionCompile`, which reaches RECURSIVE operators, and cannot be
  stated beside a proof.
  - The removed. `Killed` is a recursive function over the code from its end; `KilledDef` shows that it is defined, `KilledFact` that what is removed assigns
    a variable to itself or jumps forward over nothing but what is removed.
  - The places. `NewPlace` never goes back, goes on by one at each instruction left (`NewPlaceStep`), and is the same for all places with only removed
    instructions between them (`NewPlaceOrder`), so for a removed jump and its target. What is left stands at its new
    place with its line (`KeptFact`) and a jump goes to the new place of its target (`MovedTarget`); nothing else in an instruction changes (`Bare`).
  - The runs. Mapped by `NewPlace`, each step of an engine is a step of the optimized code or, at a removed instruction, none (`StepIsKept`).
    The engine is no part of the repository. `IsEngine` is all that is assumed of it: what an instruction does to the store, and whether
    it branches, depends on the instruction and the store, not on its place or distance; only a branch goes elsewhere than to the next, `jmp` always; `jmp` and an assignment of a
    variable to itself leave the store as it is.
    That the optimized code takes no further steps of its own is `OptimizerAddsNothing`.

Only model-checked: liveness (out of the prover's reach); `NoJobAbandoned`, which does not hold for
every value of the constants, beyond the case of `NothingAbandoned`; `Resolvable` and its like when the
loop's map rehashes, where they are false; everything about `FunctionCompile` and `ScriptCompile`: what follows trees there (parsers,
readers, lowering, the graph) are RECURSIVE operators, and in a module that reaches one nothing can be proved here. The optimizer, which they use, is without, and is
proved; `PexFunctionBuilder` is without too, and could be.

## 6. Plan

Done: jobs, queue, namespaces, pipeline, because everything that can go wrong between scripts and threads is
there; the way of a function from its tree to its code; pools, lexer and parser, declarations, Pex files and assembly. Left:

1. Identifiers inside of functions (`PapyrusResolutionContext`: `resolveIdentifier`, `tryResolveFunctionIdentifier`,
   `canImplicitlyCoerce`, `coerceExpression`) and the semantic pass of expressions and statements. Then the constant
   `Code` of `ScriptCompile` can be replaced by `FunctionCompile`'s.
2. Theorems about `PexFunctionBuilder`: a state machine that issues its operations in any order, with the type invariant,
   "the free stacks are stacks" as long as no instruction has a temporary twice, "a long-lived temporary is not
   handed out", and the lines of `Clamped`.
3. Strict namespaces and struct names in `Namespaces`; `reset()` between two library compiles.

## 7. Not modelled

* Configuration: options are assigned once. What matters of them is in the models that read them (game, debug
  information, extensions, optimizer); that a pool thread sees the defaults follows from their storage class.
* Project files and user flag files: two parsers that run once, before anything else. The flags they define are
  a constant of the parser.
* Identifiers and file names: caseless comparison with vector instructions, paths. Names are model values or
  strings that are equal or not.
* The intrusive containers are the sequences and maps that the modules over them use. `AtomicChainedPool` is used nowhere.
* The line hint of `getLocationLine`, the wording of reports and the choice of warnings.
* The limits of `EngineLimits` and the fields of 16 bits: the instances stay far below them.
* Weak memory effects of the acquire/release atomics (section 2), and running out of memory.
