------------------------------- MODULE Modules -------------------------------
(* Kernel modules, from the image builder to the node: resolve_closure walks  *)
(* modules.dep depth first and lists what the roots need, prune_for_initramfs *)
(* keeps only the listed files, and at early boot load_modules inserts them   *)
(* in file order "with zero dep logic", going on after a module that fails.   *)
(*                                                                            *)
(* A module stands for its name and its path.  The recursion of visit is the  *)
(* stack of its frames; a stack deeper than MaxDepth stands for the overflow  *)
(* of the builder's own stack.                                                *)
EXTENDS Naturals, Sequences, FiniteSets, Functions

CONSTANTS
    All,        \* the modules of the kernel package
    Tables,     \* the modules.dep files: functions from modules to sequences
    RootLists,  \* the arch's root lists
    MaxDepth

\* Every module fits on the builder's stack at once.
ModulesAssumption ==
    /\ IsFiniteSet(All) /\ MaxDepth \in Nat /\ Cardinality(All) <= MaxDepth
    /\ \A t \in Tables : DOMAIN t \subseteq All /\ t \in [DOMAIN t -> Seq(All)]
    /\ RootLists \subseteq Seq(All)

VARIABLES
    deps, roots,     \* the inputs of resolve_closure
    bad,             \* the modules the kernel refuses
    phase,           \* "resolve", "error", "overflow", "boot", "done"
    k,               \* the next root, then the next line of modules.load
    stack,           \* the active calls of visit: module and next dependency
    seen, out,       \* visit's accumulators; out becomes modules.load
    files,           \* the modules in the initramfs
    loaded, failed   \* the modules in the kernel, and the count of warnings

vars == <<deps, roots, bad, phase, k, stack, seen, out, files, loaded, failed>>
inputs == <<deps, roots, bad>>

\* The dependencies of a module; one without a line has none.
Deps(m) == IF m \in DOMAIN deps THEN deps[m] ELSE <<>>

\* The innermost call, and the calls it is in.
Top == stack[Len(stack)]
Below == SubSeq(stack, 1, Len(stack) - 1)

Init ==
    /\ deps \in Tables /\ roots \in RootLists /\ bad \in SUBSET All
    /\ phase = "resolve" /\ k = 1 /\ stack = <<>> /\ seen = {} /\ out = <<>>
    /\ files = All /\ loaded = {} /\ failed = 0

\* visit(m): a call that finds m seen returns at once, any other marks m first.
Enter(m, below) ==
    IF m \in seen THEN stack' = below /\ UNCHANGED <<seen, phase>>
    ELSE IF Len(below) = MaxDepth
    THEN phase' = "overflow" /\ UNCHANGED <<stack, seen>>
    ELSE stack' = Append(below, [m |-> m, n |-> 1]) /\ seen' = seen \cup {m}
         /\ UNCHANGED phase

\* The next root, which must have a line of its own.
Root ==
    /\ phase = "resolve" /\ stack = <<>> /\ k <= Len(roots)
    /\ IF roots[k] \in DOMAIN deps
       THEN Enter(roots[k], <<>>)
       ELSE phase' = "error" /\ UNCHANGED <<stack, seen>>
    /\ k' = k + 1
    /\ UNCHANGED <<inputs, out, files, loaded, failed>>

\* The loop of visit: the next dependency of the innermost call.
Descend ==
    /\ phase = "resolve" /\ stack # <<>>
    /\ Top.n <= Len(Deps(Top.m))
    /\ Enter(Deps(Top.m)[Top.n], Append(Below, [Top EXCEPT !.n = @ + 1]))
    /\ UNCHANGED <<inputs, k, out, files, loaded, failed>>

\* A module listed before its dependencies are visited, for the mutant.
PushEarly ==
    /\ phase = "resolve" /\ stack # <<>>
    /\ IF Top.m \in Range(out) THEN UNCHANGED out
       ELSE out' = Append(out, Top.m)
    /\ Top.n > Len(Deps(Top.m)) \/ Top.m \notin Range(out)
    /\ stack' = IF Top.n > Len(Deps(Top.m)) THEN Below ELSE stack
    /\ UNCHANGED <<inputs, phase, k, seen, files, loaded, failed>>

\* The end of visit: the module is listed after its dependencies.
Push ==
    /\ phase = "resolve" /\ stack # <<>>
    /\ Top.n > Len(Deps(Top.m))
    /\ out' = Append(out, Top.m) /\ stack' = Below
    /\ UNCHANGED <<inputs, phase, k, seen, files, loaded, failed>>

\* The files of the initramfs are those of the list, and the node boots.
prune_for_initramfs ==
    /\ phase = "resolve" /\ stack = <<>> /\ k > Len(roots)
    /\ files' = files \cap Range(out) /\ phase' = "boot" /\ k' = 1
    /\ UNCHANGED <<inputs, stack, seen, out, loaded, failed>>

\* The kernel links a module only against modules it has already.
Inserts(m) == m \in files /\ m \notin bad /\ Range(Deps(m)) \subseteq loaded

\* One line of modules.load; a failure is counted and the list goes on.
load_module ==
    /\ phase = "boot" /\ k <= Len(out)
    /\ IF Inserts(out[k])
       THEN loaded' = loaded \cup {out[k]} /\ UNCHANGED failed
       ELSE failed' = failed + 1 /\ UNCHANGED loaded
    /\ k' = k + 1
    /\ UNCHANGED <<inputs, phase, stack, seen, out, files>>

load_modules ==
    /\ phase = "boot" /\ k > Len(out) /\ phase' = "done"
    /\ UNCHANGED <<inputs, k, stack, seen, out, files, loaded, failed>>

Next == Root \/ Descend \/ Push \/ prune_for_initramfs \/ load_module \/ load_modules

Spec == Init /\ [][Next]_vars

-----------------------------------------------------------------------------
\* What m needs: the least set that holds m and the dependencies of its members.
Needs(m) ==
    {x \in All : \A C \in SUBSET All :
        m \in C /\ (\A y \in C : Range(Deps(y)) \subseteq C) => x \in C}

Acyclic == \A m \in DOMAIN deps : \A d \in Range(deps[m]) : m \notin Needs(d)

\* The walk ends on every table, a malformed cyclic one included ("a cyclic
\* modules.dep ... terminates instead of recursing forever"): it is never
\* deeper than there are modules.
NeverTooDeep == phase # "overflow"

\* "Every module appears after all of its (transitive) dependencies, with no
\* duplicates", at every moment of the walk.
DependenciesFirst ==
    /\ IsInjective(out)
    /\ \A n \in DOMAIN out :
           Range(Deps(out[n])) \subseteq Range(SubSeq(out, 1, n - 1)) \/ ~Acyclic

\* A node that has been through the list has exactly those modules the roots
\* need whose own needs the kernel accepts: neither the builder's order nor its
\* pruning costs it one, and one bad module costs only those that need it.
LoadsAllItCan ==
    phase = "done" /\ Acyclic =>
        loaded = {m \in UNION {Needs(r) : r \in Range(roots)} : Needs(m) \cap bad = {}}
=============================================================================
