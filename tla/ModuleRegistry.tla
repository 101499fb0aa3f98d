-------------------------- MODULE ModuleRegistry --------------------------
(***************************************************************************)
(* The store's registry of module instances (store_module_list.go,         *)
(* store.go, module_instance.go).                                          *)
(*                                                                         *)
(* Goroutines instantiate modules under names, several under one name      *)
(* perhaps: who registers first owns the name, the others are closed.      *)
(* Any goroutine may close a registered instance, and one may close the    *)
(* store.  A close is three steps: the compare-and-swap that elects the    *)
(* closer, the removal from the registry under the store's mutex, and the  *)
(* release of the instance's resources.  The store closes its instances    *)
(* with the mutex held, without removing them one by one.                  *)
(***************************************************************************)
EXTENDS Naturals, FiniteSets, Sequences

CONSTANTS
    Instanced,      \* module instances
    Names,          \* module names
    Anonymous,      \* the empty name
    EarlyClose,     \* TRUE: a start function lets others close its module
    Nil             \* no module

ASSUME RegistryAssumption ==
    /\ Anonymous \notin Names
    /\ Nil \notin Instanced
    /\ EarlyClose \in BOOLEAN

VARIABLES
    stage,          \* instance -> where its instantiation is
    name,           \* ModuleInstance.ModuleName
    nameToModule,   \* Store.nameToModule
    moduleList,     \* Store.moduleList
    after,          \* ModuleInstance.next
    before,         \* ModuleInstance.prev
    closing,        \* instance -> where its close is
    released,       \* instance -> times its resources were released
    storeStage,     \* the store: open, being closed, closed
    cursor          \* the instance the store's close is at

registryVars == <<stage, name, nameToModule, moduleList, after, before, closing,
                  released, storeStage, cursor>>

\* The type invariant.
RegistryTypeOK ==
    /\ stage \in [Instanced -> {"none", "built", "registered", "refused"}]
    /\ name \in [Instanced -> Names \cup {Anonymous}]
    /\ nameToModule \in [Names -> Instanced \cup {Nil}]
    /\ moduleList \in Instanced \cup {Nil}
    /\ after \in [Instanced -> Instanced \cup {Nil}]
    /\ before \in [Instanced -> Instanced \cup {Nil}]
    /\ closing \in [Instanced -> {"open", "elected", "removed", "closed"}]
    /\ released \in [Instanced -> 0..1]
    /\ storeStage \in {"open", "closing", "closed"}
    /\ cursor \in Instanced \cup {Nil}

RegistryInit ==
    /\ stage = [m \in Instanced |-> "none"]
    /\ name = [m \in Instanced |-> Anonymous]
    /\ nameToModule = [n \in Names |-> Nil]
    /\ moduleList = Nil
    /\ after = [m \in Instanced |-> Nil]
    /\ before = [m \in Instanced |-> Nil]
    /\ closing = [m \in Instanced |-> "open"]
    /\ released = [m \in Instanced |-> 0]
    /\ storeStage = "open"
    /\ cursor = Nil

\* Store.mux is taken by the close of the store; the other critical sections
\* are one step each.
Unlocked == storeStage # "closing"

-----------------------------------------------------------------------------
(* Store.Instantiate.                                                       *)

\* instantiate, its start function included, returned an instance.
Instantiate(m, n) ==
    /\ stage[m] = "none"
    /\ storeStage = "open"
    /\ stage' = [stage EXCEPT ![m] = "built"]
    /\ name' = [name EXCEPT ![m] = n]
    /\ UNCHANGED <<nameToModule, moduleList, after, before, closing, released, storeStage, cursor>>

\* registerModule: refused by a closed store or for a name that is taken.
RegisterModule(m) ==
    /\ stage[m] = "built"
    /\ Unlocked
    /\ IF storeStage = "closed" \/ (name[m] \in Names /\ nameToModule[name[m]] # Nil)
       THEN /\ stage' = [stage EXCEPT ![m] = "refused"]
            /\ UNCHANGED <<nameToModule, moduleList, after, before>>
       ELSE /\ stage' = [stage EXCEPT ![m] = "registered"]
            /\ nameToModule' = [n \in Names |-> IF n = name[m] THEN m ELSE nameToModule[n]]
            /\ after' = [after EXCEPT ![m] = moduleList]
            /\ before' = [x \in Instanced |-> IF x = moduleList THEN m ELSE before[x]]
            /\ moduleList' = m
    /\ UNCHANGED <<name, closing, released, storeStage, cursor>>

-----------------------------------------------------------------------------
(* ModuleInstance.CloseWithExitCode.                                        *)

\* Who can close m: Store.Instantiate when it is refused, anyone who was given
\* it or asked the store for it once it is registered, and, before that, those
\* its start function passed it to.
Closable(m) ==
    \/ stage[m] \in {"registered", "refused"}
    \/ stage[m] = "built" /\ EarlyClose

\* setExitCode: one closer wins.
Elect(m) ==
    /\ Closable(m)
    /\ closing[m] = "open"
    /\ closing' = [closing EXCEPT ![m] = "elected"]
    /\ UNCHANGED <<stage, name, nameToModule, moduleList, after, before, released, storeStage, cursor>>

Unlink(m) ==
    /\ after' = [x \in Instanced |-> IF x = m THEN Nil
                                     ELSE IF x = before[m] THEN after[m] ELSE after[x]]
    /\ before' = [x \in Instanced |-> IF x = m THEN Nil
                                      ELSE IF x = after[m] THEN before[m] ELSE before[x]]
    /\ moduleList' = IF moduleList = m THEN after[m] ELSE moduleList

\* Mutant: whoever has the name.
ReleaseNameMutant(m) ==
    nameToModule' = [n \in Names |-> IF n = name[m] THEN Nil ELSE nameToModule[n]]

\* Only the instance that owns the name releases it.
ReleaseName(m) ==
    nameToModule' = [n \in Names |-> IF nameToModule[n] = m THEN Nil ELSE nameToModule[n]]

\* Mutant: the close does not remove.
DeleteModuleMutant(m) ==
    /\ closing[m] = "elected"
    /\ closing' = [closing EXCEPT ![m] = "removed"]
    /\ UNCHANGED <<nameToModule, after, before, moduleList, stage, name, released, storeStage, cursor>>

\* deleteModule, also of an instance that never registered.
DeleteModule(m) ==
    /\ closing[m] = "elected"
    /\ Unlocked
    /\ closing' = [closing EXCEPT ![m] = "removed"]
    /\ Unlink(m)
    /\ ReleaseName(m)
    /\ UNCHANGED <<stage, name, released, storeStage, cursor>>

\* ensureResourcesClosed.
EnsureResourcesClosed(m) ==
    /\ closing[m] = "removed"
    /\ closing' = [closing EXCEPT ![m] = "closed"]
    /\ released' = [released EXCEPT ![m] = @ + 1]
    /\ UNCHANGED <<stage, name, nameToModule, moduleList, after, before, storeStage, cursor>>

-----------------------------------------------------------------------------
(* Store.CloseWithExitCode.                                                 *)

CloseStore ==
    /\ storeStage = "open"
    /\ storeStage' = "closing"
    /\ cursor' = moduleList
    /\ UNCHANGED <<stage, name, nameToModule, moduleList, after, before, closing, released>>

\* closeWithExitCode of the next instance, unless another closer won it.
CloseOne ==
    /\ storeStage = "closing"
    /\ cursor # Nil
    /\ IF closing[cursor] = "open"
       THEN /\ closing' = [closing EXCEPT ![cursor] = "closed"]
            /\ released' = [released EXCEPT ![cursor] = @ + 1]
       ELSE UNCHANGED <<closing, released>>
    /\ cursor' = after[cursor]
    /\ UNCHANGED <<stage, name, nameToModule, moduleList, after, before, storeStage>>

StoreClosed ==
    /\ storeStage = "closing"
    /\ cursor = Nil
    /\ storeStage' = "closed"
    /\ moduleList' = Nil
    /\ nameToModule' = [n \in Names |-> Nil]
    /\ UNCHANGED <<stage, name, after, before, closing, released, cursor>>

RegistryNext ==
    \/ CloseStore
    \/ CloseOne
    \/ StoreClosed
    \/ \E m \in Instanced :
         \/ \E n \in Names \cup {Anonymous} : Instantiate(m, n)
         \/ RegisterModule(m)
         \/ Elect(m)
         \/ DeleteModule(m)
         \/ EnsureResourcesClosed(m)

RegistrySpec == RegistryInit /\ [][RegistryNext]_registryVars

-----------------------------------------------------------------------------
(* Correctness.                                                             *)

\* The instances the store's list should hold.
Registered == {m \in Instanced : stage[m] = "registered" /\ closing[m] \in {"open", "elected"}}

\* The list, walked from its head for as many steps as there are instances.
Walk ==
    LET f[k \in 0..Cardinality(Instanced)] ==
            IF k = 0 THEN moduleList ELSE IF f[k - 1] = Nil THEN Nil ELSE after[f[k - 1]]
    IN  {f[k] : k \in 0..Cardinality(Instanced)}

\* RegistryIntact: while the store is open its list holds exactly the
\* registered instances, linked both ways, and each name finds the instance
\* that owns it: closing one that lost the race for a name, or one that is
\* closed already, never evicts another (registerModule and deleteModule in
\* store_module_list.go).
RegistryIntact ==
    storeStage = "open" =>
        /\ Walk = Registered \cup {Nil}
        /\ \A m \in Registered :
             /\ name[m] \in Names => nameToModule[name[m]] = m
             /\ after[m] # Nil => before[after[m]] = m
             /\ before[m] = Nil <=> moduleList = m
        /\ \A n \in Names : nameToModule[n] \in Registered \cup {Nil}

\* ClosedOnceGone: an instance whose close is complete has released its
\* resources exactly once and no name finds it, whoever closed it: its owner, a
\* goroutine that found it by name, or the store (CloseWithExitCode and
\* closeWithExitCode in module_instance.go).
ClosedOnceGone ==
    \A m \in Instanced :
        /\ released[m] = IF closing[m] = "closed" THEN 1 ELSE 0
        /\ closing[m] = "closed" /\ Unlocked => \A n \in Names : nameToModule[n] # m
        /\ storeStage = "closed" /\ stage[m] = "registered" => closing[m] # "open"

=============================================================================
