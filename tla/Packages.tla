-------------------------------- MODULE Packages --------------------------------
(***************************************************************************)
(* The package manager: modules/package/package_mgr.c, which runs          *)
(* shell/program.sh and judges it by its exit code, and the script itself. *)
(* Its demo picks a package that is not there, installs it, and removes it *)
(* again, while others may install and remove packages as well.            *)
(*                                                                         *)
(* External: apt-get and dnf, dpkg and rpm, and the other administrator.   *)
(* Each of their commands holds a lock and is one step.                    *)
(***************************************************************************)
EXTENDS Naturals, Sequences, Prompt

CONSTANTS Package,
          Critical,   \* the packages whose names the script refuses
          Essential,  \* what setup installs, whatever its name
          candidates, \* the demo's choices in order, fallbacks at the end
          Needs,      \* all that a package needs, directly or not
          HasConf,    \* leaves configuration files behind
          NoPackage   \* no name, and no choice

ASSUME PackagesAssumption ==
  /\ Critical \subseteq Package /\ Essential \subseteq Package /\ HasConf \subseteq Package
  /\ candidates \in Seq(Package)
  /\ \A i \in DOMAIN candidates : candidates[i] \notin Critical
  /\ Needs \in [Package -> SUBSET Package]
  /\ \A p \in Package : \A q \in Needs[p] : Needs[q] \subseteq Needs[p]
  /\ NoPackage \notin Package

VARIABLES
  pm,        \* PM: the package manager there is, with its database
  installed,
  auto,      \* noted by dnf as installed only for others that need it
  conf,      \* removed, but for the configuration files
  pkg,       \* the name given, or the demo's selected
  present,   \* history: installed before the operation, or by others since
  wanted,    \* history: and of that, what was asked for by name
  clash      \* history: others wanted what depends on the demo's package

dbVars == <<installed, auto, conf>>
packageVars == <<pc, told, pm, dbVars, pkg, present, wanted, clash>>

Closed(S) == \A p \in S : Needs[p] \subseteq S

PackageInit ==
  /\ pc = "prompt" /\ told = "nothing"
  /\ pm \in {"apt", "dnf", "none"}
  /\ installed \in {S \in SUBSET Package : Closed(S)}
  /\ auto \in SUBSET installed /\ (pm # "dnf" => auto = {})
  /\ conf = {} /\ pkg = NoPackage
  /\ present = installed /\ wanted = installed \ auto /\ clash = FALSE

PackageBegin(operation, p) ==
  /\ pc = "prompt" /\ pc' = operation /\ told' = "nothing"
  /\ pkg' = p /\ present' = installed /\ wanted' = installed \ auto /\ clash' = FALSE
  /\ UNCHANGED <<pm, dbVars>>

\* run_script: the exit code is all that counts.
PackageTell(what) == pc' = "prompt" /\ told' = what /\ UNCHANGED <<pm, pkg, present, wanted, clash>>
PackageGoesTo(next) == pc' = next /\ UNCHANGED <<told, pm, pkg, present, wanted, clash>>

-----------------------------------------------------------------------------
(* The databases.                                                           *)

\* rpm -q, and dpkg -s, which also knows what was removed but for its files.
Known(p) == p \in installed \union (IF pm = "apt" THEN conf ELSE {})

\* `new` is added, because the packages `named` were asked for.  A named one that
\* was there already may or may not be noted as such from now on.
Adds(new, named) ==
  LET noted == auto \union (new \ installed)
  IN /\ installed' = installed \union new
     /\ auto' \in IF pm = "dnf" THEN {noted \ named, noted \ (named \ installed)} ELSE {auto}
     /\ conf' = conf \ new

\* The installation of S succeeds; or it fails with less than all of it in place.
Installing(S, Succeed, Fail) ==
  LET all == S \union UNION {Needs[p] : p \in S}
  IN \/ Succeed /\ Adds(all, S)
     \/ Fail /\ \E some \in SUBSET all \ {all} : Closed(some) /\ Adds(some, S)

\* What may go with p: all that depend on it and, unless dnf is told otherwise,
\* all that these needed, that nobody has asked for and that nobody else needs.
Removals(p) ==
  LET gone == {q \in installed : q = p \/ p \in Needs[q]}
      loose == auto \cap UNION {Needs[q] : q \in gone}
      idle == {q \in loose : \A r \in installed \ (gone \union loose) : q \notin Needs[r]}
  IN {gone, gone \union idle}

Takes(taken) ==
  /\ installed' = installed \ taken /\ auto' = auto \ taken
  /\ conf' = conf \union (taken \cap HasConf)

Removing(p, Succeed, Fail) ==
  \/ Succeed /\ \E taken \in Removals(p) : Takes(taken)
  \/ Fail /\ UNCHANGED dbVars

-----------------------------------------------------------------------------
\* The script finds neither dnf nor apt-get.
NoManager ==
  /\ pc \in {"package.look", "package.install", "package.remove", "package.demo", "package.setup"}
  /\ pm = "none"
  /\ PackageTell("failed") /\ UNCHANGED dbVars

At(operation) == pc = operation /\ pm # "none"

\* search and info.
PackageLook ==
  /\ At("package.look")
  /\ PackageTell(IF pkg = NoPackage THEN "empty" ELSE "shown")
  /\ UNCHANGED dbVars

Refuse(operation) ==
  /\ At(operation)
  /\ pkg \in Critical \union {NoPackage}
  /\ PackageTell("refused") /\ UNCHANGED dbVars

PackageInstall ==
  \/ Refuse("package.install")
  \/ /\ At("package.install") /\ pkg \notin Critical \union {NoPackage}
     /\ Installing({pkg}, PackageTell("installed"), PackageTell("failed"))

\* setup: the names are not looked at, and apt-get update may fail.
PackageSetup ==
  /\ At("package.setup")
  /\ Installing(Essential, PackageTell("set-up"), PackageTell("failed"))

\* Mutant of PackageRemove: remove without the names that install refuses.
PackageRemoveAny ==
  /\ At("package.remove") /\ pkg # NoPackage
  /\ Removing(pkg, PackageTell("removed"), PackageTell("failed"))

PackageRemove ==
  \/ Refuse("package.remove")
  \/ /\ At("package.remove") /\ pkg \notin Critical \union {NoPackage}
     /\ Removing(pkg, PackageTell("removed"), PackageTell("failed"))

-----------------------------------------------------------------------------
(* The demo.                                                                *)

\* Mutant of DemoSelects: the first candidate, whether it is there or not.
DemoSelectsFirst ==
  /\ At("package.demo")
  /\ pkg' = candidates[1] /\ pc' = "demo.install"
  /\ UNCHANGED <<told, pm, present, wanted, clash, dbVars>>

\* The first candidate that the database does not know.
DemoSelects ==
  /\ At("package.demo")
  /\ LET free == {i \in DOMAIN candidates : ~Known(candidates[i])}
     IN IF free = {} THEN PackageTell("demo-failed")
        ELSE /\ \E i \in free : (\A j \in free : i <= j) /\ pkg' = candidates[i]
             /\ pc' = "demo.install" /\ UNCHANGED <<told, pm, present, wanted, clash>>
  /\ UNCHANGED dbVars

DemoInstalls ==
  /\ pc = "demo.install"
  /\ Installing({pkg}, PackageGoesTo("demo.verify"), PackageTell("demo-failed"))

DemoVerifies ==
  /\ pc = "demo.verify"
  /\ IF pkg \in installed THEN PackageGoesTo("demo.remove") ELSE PackageTell("demo-failed")
  /\ UNCHANGED dbVars

DemoRemoves ==
  /\ pc = "demo.remove"
  /\ Removing(pkg, PackageGoesTo("demo.verify-removal"), PackageTell("demo-failed"))

DemoVerifiesRemoval ==
  /\ pc = "demo.verify-removal"
  /\ PackageTell(IF pkg \notin installed THEN "system-is-clean" ELSE "demo-failed")
  /\ UNCHANGED dbVars

-----------------------------------------------------------------------------
\* Somebody else installs or removes a package.
OtherInstalls(p) ==
  LET new == {p} \union Needs[p]
  IN /\ p \notin wanted
     /\ Adds(new, {p})
     /\ present' = present \union new /\ wanted' = (wanted \union new) \ auto'
     /\ clash' = (clash \/ pkg \in new)
     /\ UNCHANGED <<pc, told, pm, pkg>>

OtherRemoves(p) ==
  /\ p \in installed
  /\ \E taken \in Removals(p) :
       Takes(taken) /\ present' = present \ taken /\ wanted' = wanted \ taken
  /\ UNCHANGED <<pc, told, pm, pkg, clash>>

OtherPackages == pc # "prompt" /\ pm # "none" /\ \E p \in Package : OtherInstalls(p) \/ OtherRemoves(p)

PackageStart ==
  \/ \E operation \in {"package.demo", "package.setup"} : PackageBegin(operation, NoPackage)
  \/ \E operation \in {"package.look", "package.install", "package.remove"},
        p \in Package \union {NoPackage} : PackageBegin(operation, p)

PackageCommands ==
  \/ NoManager \/ PackageLook \/ PackageInstall \/ PackageRemove \/ PackageSetup
  \/ DemoSelects \/ DemoInstalls \/ DemoVerifies \/ DemoRemoves \/ DemoVerifiesRemoval

PackageNext == PackageStart \/ PackageCommands \/ OtherPackages

PackageSpec == PackageInit /\ [][PackageNext]_packageVars

-----------------------------------------------------------------------------
\* The variables have their types, and nothing is installed without its needs.
PackageTypeOK ==
  /\ installed \subseteq Package /\ Closed(installed)
  /\ conf \subseteq HasConf \ installed
  /\ pkg \in Package \union {NoPackage}
  /\ wanted \subseteq present /\ present \subseteq Package
  /\ auto \subseteq installed \ wanted
  /\ clash \in BOOLEAN

InDemo == pc \in {"demo.install", "demo.verify", "demo.remove", "demo.verify-removal"}
Demonstrated == pc = "prompt" /\ told \in {"demo-failed", "system-is-clean"}

\* Whatever step of it fails, and whatever others install and remove in the
\* meantime, the demo takes away nothing that anybody has asked for by name, and
\* nothing else but what its own package needed and dnf finds idle, unless others
\* have come to want that package; and when it calls the system clean, all that
\* it may have left is what its package needed (the demo of shell/program.sh).
DemoKeepsOthers ==
  InDemo \/ Demonstrated =>
    /\ \/ clash
       \/ /\ wanted \subseteq installed
          /\ \A q \in present \ installed : pkg # NoPackage /\ q \in Needs[pkg]
    /\ told = "system-is-clean" =>
         clash \/ installed \ present \subseteq Needs[pkg]

\* The names that the script refuses keep a critical package in place.  It goes
\* only with something that it needs or, when it was never asked for by name,
\* with the last that needed it: the removal, by hand or at the end of the demo,
\* of one that has nothing critical in its own name (the case patterns of
\* program.sh).
CriticalKept ==
  \A c \in (present \ installed) \cap Critical :
    /\ c # pkg
    /\ \/ pkg \in Needs[c]
       \/ c \notin wanted /\ \E d \in Package : c \in Needs[d] /\ pkg \in {d} \union Needs[d]
=================================================================================
