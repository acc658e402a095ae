----------------------------- MODULE ModuleLoader -----------------------------
(***************************************************************************)
(* runtime/module-admission.js and runtime/module-loader.js: which modules *)
(* of a transport a run may use, and the functions they give it.           *)
(*                                                                         *)
(* A module is [path, includes, functions, package]; its content is what   *)
(* it includes and defines, and a digest is modelled by the content it was *)
(* taken of.  A package is what the module's manifest says; NoPackage if   *)
(* it has none.  Every failure ends the run; its name is all that is kept. *)
(***************************************************************************)
EXTENDS Integers, Sequences, FiniteSets, SequencesExt

NoFault == "none"

NoPackage == [identity |-> "none"]
HasPackage(module) == module.package # NoPackage

Content(module) == [includes |-> module.includes, functions |-> module.functions]

-----------------------------------------------------------------------------
(* verifyModulePackages.  lock: the entries of the lockfile, NoLock if the *)
(* run has none; grants: the capabilities the host gave.                   *)

NoLock == <<[identity |-> "none"]>>

(* The first thing wrong with a module's package; seen: the identities of  *)
(* the packages before it.                                                 *)
PackageFault(module, lock, grants, seen) ==
  LET package == module.package
      pinned(entry) == /\ entry.identity = package.identity
                       /\ entry.digest = Content(module)
                       /\ entry.entrypoint = module.path
  IN  IF ~HasPackage(module) THEN "manifest"
      ELSE IF package.identity \in seen THEN "duplicate"
      ELSE IF package.entrypoint # module.path THEN "entrypoint"
      ELSE IF package.digest # Content(module) THEN "digest"
      ELSE IF ~\E i \in DOMAIN lock : pinned(lock[i]) THEN "lock"
      ELSE IF ~(package.required \subseteq grants) THEN "grant"
      ELSE NoFault

(* Mutant: a lockfile may pin packages the transport does not carry.       *)
LockCarriedAnyway(lock, seen) == TRUE

LockCarried(lock, seen) == Len(lock) = Cardinality(seen)

VerifyModulePackages(modules, lock, grants) ==
  LET identities == {lock[i].identity : i \in DOMAIN lock}
      step(s, module) ==
        IF s.fault # NoFault THEN s ELSE
        [fault |-> PackageFault(module, lock, grants, s.seen),
         seen |-> s.seen \cup {module.package.identity}]
      verified == FoldLeft(step, [fault |-> NoFault, seen |-> {}], modules)
  IN  IF lock = NoLock /\ \A i \in DOMAIN modules : ~HasPackage(modules[i]) THEN NoFault
      ELSE IF lock = NoLock \/ Cardinality(identities) # Len(lock) THEN "lock"
      ELSE IF verified.fault # NoFault THEN verified.fault
      ELSE IF ~LockCarried(lock, verified.seen) THEN "lock"
      ELSE NoFault

-----------------------------------------------------------------------------
(* loadModule.  registry: the module that defines each function; loaded:   *)
(* in the order they were done.                                            *)

EmptyLoader == [registry |-> <<>>, loaded |-> <<>>, loading |-> {}, fault |-> NoFault]

FileOf(modules, path) == modules[CHOOSE i \in DOMAIN modules : modules[i].path = path]
HasFile(modules, path) == \E i \in DOMAIN modules : modules[i].path = path

Redefines(s, module) == module.functions \cap DOMAIN s.registry # {}

Define(s, module) ==
  [s EXCEPT !.registry = [f \in module.functions |-> module.path] @@ @,
            !.loaded = Append(@, module.path),
            !.loading = @ \ {module.path}]

RECURSIVE LoadModule(_, _, _)
LoadModule(s, path, modules) ==
  LET module == FileOf(modules, path)
      included == FoldLeft(LAMBDA r, include : LoadModule(r, include, modules),
                           [s EXCEPT !.loading = @ \cup {path}], module.includes)
  IN  IF s.fault # NoFault \/ path \in ToSet(s.loaded) THEN s
      ELSE IF path \in s.loading THEN [s EXCEPT !.fault = "cycle"]
      ELSE IF ~HasFile(modules, path) THEN [s EXCEPT !.fault = "missing"]
      ELSE IF included.fault # NoFault THEN included
      ELSE IF Redefines(included, module) THEN [included EXCEPT !.fault = "redefined"]
      ELSE Define(included, module)

(* verifyLoadedModuleContracts: a packaged module gives the run exactly    *)
(* the functions its manifest declares, whether it was included or not.    *)
ContractHolds(s, module) ==
  HasPackage(module) =>
    {f \in DOMAIN s.registry : s.registry[f] = module.path} = module.package.declared

(* The modules a document includes, in the order of its directives.        *)
LoadModules(includes, modules) ==
  LET s == FoldLeft(LAMBDA r, path : LoadModule(r, path, modules), EmptyLoader, includes)
  IN  IF Cardinality({modules[i].path : i \in DOMAIN modules}) # Len(modules)
      THEN [EmptyLoader EXCEPT !.fault = "duplicate path"]
      ELSE IF s.fault = NoFault /\ \E i \in DOMAIN modules : ~ContractHolds(s, modules[i])
      THEN [s EXCEPT !.fault = "contract"]
      ELSE s

=============================================================================
