----------------------------- MODULE CodeCache -----------------------------
(***************************************************************************)
(* The engine's cache of compiled modules (native/engine_cache.go), as     *)
(* Runtime.CompileModule and InstantiateModule use it.                     *)
(*                                                                         *)
(* Goroutines compile one binary, in runtimes that share the cache.  The   *)
(* compiled module is kept once, with a count of the references that       *)
(* CompiledModules hold; it goes when the count does.  The lookup in       *)
(* memory, the lookup in the file cache, and the insertion in memory are   *)
(* separate steps, and every check in between may fail.  With no function  *)
(* listener CompileModule asks for the code before it validates the        *)
(* binary, and a hit is a reference it must give back if a check fails.    *)
(***************************************************************************)
EXTENDS Naturals, FiniteSets

CONSTANTS
    Compilers,      \* goroutines, each using one CompiledModule at a time
    FileCache,      \* TRUE: a writable file cache is configured
    Faults          \* "write": adding to the file cache may fail; "config": an
                    \* implicit instantiation may fail before the store's part

ASSUME CacheAssumption ==
    /\ FileCache \in BOOLEAN
    /\ Faults \subseteq {"write", "config"}

VARIABLES
    step,           \* compiler -> where its CompiledModule is
    probing,        \* compiler -> in HasCompiledModule, not in the engine's CompileModule
    has,            \* compiler -> hasCompiled
    implicit,       \* compiler -> compiledModule.closeWithModule
    refCount,       \* compiledModules[ID].refCount; 0 when there is no entry
    file,           \* the file cache holds the code
    engineClosed    \* engine.Close ran, and compiledModules is nil

cacheVars == <<step, probing, has, implicit, refCount, file, engineClosed>>

\* The type invariant.
CacheTypeOK ==
    /\ step \in [Compilers -> {"idle", "memory", "file", "add", "checks", "compile", "write", "open"}]
    /\ probing \in [Compilers -> BOOLEAN]
    /\ has \in [Compilers -> BOOLEAN]
    /\ implicit \in [Compilers -> BOOLEAN]
    /\ refCount \in 0..Cardinality(Compilers)
    /\ file \in BOOLEAN
    /\ engineClosed \in BOOLEAN

CacheInit ==
    /\ step = [c \in Compilers |-> "idle"]
    /\ probing = [c \in Compilers |-> FALSE]
    /\ has = [c \in Compilers |-> FALSE]
    /\ implicit = [c \in Compilers |-> FALSE]
    /\ refCount = 0
    /\ file \in {FALSE, FileCache}
    /\ engineClosed = FALSE

Moves(c, to) == step' = [step EXCEPT ![c] = to]

\* The CompiledModule is gone, or never came to be.
Ends(c) ==
    /\ Moves(c, "idle")
    /\ probing' = [probing EXCEPT ![c] = FALSE]
    /\ has' = [has EXCEPT ![c] = FALSE]
    /\ implicit' = [implicit EXCEPT ![c] = FALSE]

\* DeleteCompiledModule: nothing to do when there is no entry.
DeleteCompiledModule == refCount' = IF refCount = 0 THEN 0 ELSE refCount - 1

\* getCompiledModule's verdict, for HasCompiledModule or for CompileModule.
Hit(c) ==
    /\ Moves(c, IF probing[c] THEN "checks" ELSE "open")
    /\ has' = [has EXCEPT ![c] = TRUE]
    /\ UNCHANGED <<probing, implicit>>

Miss(c) ==
    /\ Moves(c, IF probing[c] THEN "checks" ELSE "compile")
    /\ UNCHANGED <<probing, has, implicit>>

-----------------------------------------------------------------------------
(* Runtime.CompileModule.                                                   *)

\* A function listener in the context: the binary is validated first.
BeginCompile(c, listener, closeWithModule) ==
    /\ step[c] = "idle"
    /\ Moves(c, IF listener THEN "checks" ELSE "memory")
    /\ probing' = [probing EXCEPT ![c] = ~listener]
    /\ implicit' = [implicit EXCEPT ![c] = closeWithModule]
    /\ UNCHANGED <<has, refCount, file, engineClosed>>

GetFromMemory(c) ==
    /\ step[c] = "memory"
    /\ IF refCount > 0
       THEN refCount' = refCount + 1 /\ Hit(c)
       ELSE /\ Moves(c, "file")
            /\ UNCHANGED <<probing, has, implicit, refCount>>
    /\ UNCHANGED <<file, engineClosed>>

\* getCompiledModuleFromCache: absent, read, or stale and deleted.
GetFromCache(c) ==
    /\ step[c] = "file"
    /\ \/ /\ file
          /\ Moves(c, "add")
          /\ UNCHANGED <<probing, has, implicit, file>>
       \/ Miss(c) /\ file' = FALSE
    /\ UNCHANGED <<refCount, engineClosed>>

\* It could not be read, or deleted.
CacheFails(c) ==
    /\ step[c] = "file"
    /\ FileCache
    /\ Ends(c)
    /\ UNCHANGED <<refCount, file, engineClosed>>

\* Mutant: an entry added since is replaced.
AddMutant(c) ==
    /\ step[c] = "add"
    /\ IF engineClosed
       THEN Ends(c) /\ UNCHANGED refCount
       ELSE refCount' = 1 /\ Hit(c)
    /\ UNCHANGED <<file, engineClosed>>

\* addCompiledModuleToMemory of what the file cache held: another goroutine
\* may have added it since.  A closed engine's map is nil, and panics.
AddFromCache(c) ==
    /\ step[c] = "add"
    /\ IF engineClosed
       THEN Ends(c) /\ UNCHANGED refCount
       ELSE refCount' = refCount + 1 /\ Hit(c)
    /\ UNCHANGED <<file, engineClosed>>

\* ValidateStructure or Validate, then GetFunctionTypeIDs: the reference is
\* the CompiledModule's, or is given back.
Checks(c, ok) ==
    /\ step[c] = "checks"
    /\ IF ok
       THEN /\ Moves(c, IF has[c] THEN "open" ELSE "memory")
            /\ probing' = [probing EXCEPT ![c] = FALSE]
            /\ UNCHANGED <<has, implicit, refCount>>
       ELSE /\ Ends(c)
            /\ IF has[c] THEN DeleteCompiledModule ELSE UNCHANGED refCount
    /\ UNCHANGED <<file, engineClosed>>

\* compileModule and addCompiledModuleToMemory; an error, or a panic, which is
\* recovered, leaves nothing behind.
Compile(c, ok) ==
    /\ step[c] = "compile"
    /\ IF ok /\ ~engineClosed
       THEN /\ refCount' = refCount + 1
            /\ Moves(c, IF FileCache THEN "write" ELSE "open")
            /\ has' = [has EXCEPT ![c] = TRUE]
            /\ UNCHANGED <<probing, implicit>>
       ELSE Ends(c) /\ UNCHANGED refCount
    /\ UNCHANGED <<file, engineClosed>>

\* addCompiledModuleToCache: CompileModule returns its error as it is.
AddToCache(c, ok) ==
    /\ step[c] = "write"
    /\ ok \/ "write" \in Faults
    /\ IF ok
       THEN Moves(c, "open") /\ file' = TRUE /\ UNCHANGED <<probing, has, implicit>>
       ELSE Ends(c) /\ UNCHANGED file
    /\ UNCHANGED <<refCount, engineClosed>>

-----------------------------------------------------------------------------
(* The CompiledModule's use.                                                *)

\* InstantiateModule of an implicitly compiled module fails in
\* Store.Instantiate, and closes it.  Before that, in toSysContext or
\* GetFunctionTypeIDs, it returns without.
InstantiateFails(c, early) ==
    /\ step[c] = "open"
    /\ implicit[c]
    /\ early => "config" \in Faults
    /\ Ends(c)
    /\ IF early THEN UNCHANGED refCount ELSE DeleteCompiledModule
    /\ UNCHANGED <<file, engineClosed>>

\* compiledModule.Close, by its user, or as the CodeCloser of its module.
\* Assumed: once each.
CloseCompiled(c) ==
    /\ step[c] = "open"
    /\ Ends(c)
    /\ DeleteCompiledModule
    /\ UNCHANGED <<file, engineClosed>>

CloseEngine ==
    /\ ~engineClosed
    /\ engineClosed' = TRUE
    /\ refCount' = 0
    /\ UNCHANGED <<step, probing, has, implicit, file>>

CacheNext ==
    \/ CloseEngine
    \/ \E c \in Compilers :
         \/ GetFromMemory(c)
         \/ GetFromCache(c)
         \/ CacheFails(c)
         \/ AddFromCache(c)
         \/ CloseCompiled(c)
         \/ \E b \in BOOLEAN :
              \/ Checks(c, b)
              \/ Compile(c, b)
              \/ AddToCache(c, b)
              \/ InstantiateFails(c, b)
              \/ \E closeWithModule \in BOOLEAN : BeginCompile(c, b, closeWithModule)

CacheSpec == CacheInit /\ [][CacheNext]_cacheVars

-----------------------------------------------------------------------------
(* Correctness.                                                             *)

\* RefsCounted: the cached code's reference count is the number of
\* CompiledModules that are open or on their way to be, so an open one always
\* finds its code (NewModuleEngine) and the code is released with the last:
\* through the race of two goroutines to insert it and through every check
\* that fails after a hit (HasCompiledModule, DeleteCompiledModule).
RefsCounted ==
    ~engineClosed =>
        refCount = Cardinality({c \in Compilers :
                     has[c] /\ step[c] \in {"checks", "write", "open"}})

=============================================================================
