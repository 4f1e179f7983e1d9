----------------------------- MODULE StartOrder -----------------------------
(***************************************************************************)
(* The order services are started in: start_order, Kahn's algorithm over   *)
(* depends_on (crates/supervisor/src/manager.rs).  A service id is a       *)
(* number that stands for its place among the ids in string order.         *)
(***************************************************************************)
EXTENDS Naturals, Sequences, FiniteSets

CONSTANT Configs  \* the service lists, each a sequence of [id, depends_on]

Service == [id : Nat, depends_on : Seq(Nat)]
OrderAssumption == \A c \in Configs : c \in Seq(Service)

VARIABLES
  services,  \* the list given
  indegree,  \* for each id, the mentions of a dependency still to start
  queue,     \* the ids ready to start
  order,     \* the ids started
  result     \* "running", "Ok" or why there is no order

vars == <<services, indegree, queue, order, result>>

ids == {services[i].id : i \in DOMAIN services}

(* One edge for each mention of a dependency, repeated ones included.      *)
Edges == UNION {{i} \X DOMAIN services[i].depends_on : i \in DOMAIN services}
Of(e) == services[e[1]].id
On(e) == services[e[1]].depends_on[e[2]]

deps(id) == {On(e) : e \in {f \in Edges : Of(f) = id}}
started == {order[k] : k \in DOMAIN order}

Greatest(S) == CHOOSE m \in S : \A n \in S : n <= m

Init ==
  /\ services \in Configs
  /\ LET known == \A e \in Edges : On(e) \in ids
         mentions(id) == Cardinality({e \in Edges : Of(e) = id})
     IN /\ indegree = [id \in ids |-> mentions(id)]
        /\ queue = {id \in ids : mentions(id) = 0}
        /\ result = IF known THEN "running" ELSE "unknown dependency"
  /\ order = <<>>

(* Mutant: a dependent is ready as soon as one of its dependencies is.     *)
PopEager ==
  LET id == Greatest(queue)
      freed(c) == Cardinality({e \in Edges : Of(e) = c /\ On(e) = id})
  IN /\ result = "running" /\ queue # {}
     /\ order' = Append(order, id)
     /\ indegree' = [c \in ids |-> indegree[c] - freed(c)]
     /\ queue' = (queue \ {id}) \cup {c \in ids \ started : freed(c) > 0}
     /\ UNCHANGED <<services, result>>

(* The queue is kept sorted and popped at its end; every mention of what   *)
(* was popped is struck, and what has none left joins the queue.           *)
Pop ==
  LET id == Greatest(queue)
      freed(c) == Cardinality({e \in Edges : Of(e) = c /\ On(e) = id})
  IN /\ result = "running" /\ queue # {}
     /\ order' = Append(order, id)
     /\ indegree' = [c \in ids |-> indegree[c] - freed(c)]
     /\ queue' = (queue \ {id}) \cup {c \in ids : freed(c) > 0 /\ indegree'[c] = 0}
     /\ UNCHANGED <<services, result>>

Finish ==
  /\ result = "running" /\ queue = {}
  /\ result' = IF Len(order) = Len(services) THEN "Ok" ELSE "dependency cycle"
  /\ UNCHANGED <<services, indegree, queue, order>>

Next == Pop \/ Finish

Spec == Init /\ [][Next]_vars

-----------------------------------------------------------------------------
TypeOK ==
  /\ queue \subseteq ids /\ started \subseteq ids
  /\ indegree \in [ids -> Nat]
  /\ result \in {"running", "Ok", "unknown dependency", "dependency cycle"}

(* Dependencies start before dependents: at every point the ids in the     *)
(* order come after all they depend on, however often a dependency is      *)
(* repeated.                                                               *)
DepsFirst ==
  \A k \in DOMAIN order : deps(order[k]) \subseteq {order[j] : j \in 1..(k - 1)}

(* Every set of services has one that depends on none of the others: there *)
(* is no cycle.                                                            *)
Acyclic ==
  \A S \in SUBSET ids : S # {} => \E s \in S : deps(s) \cap S = {}

(* An order is returned exactly when there is one and no id is taken       *)
(* twice, and it holds every service once.                                 *)
Decides ==
  result # "running" =>
    /\ result = "Ok" <=> /\ \A e \in Edges : On(e) \in ids
                         /\ Acyclic
                         /\ Cardinality(ids) = Len(services)
    /\ result = "Ok" => started = ids /\ Len(order) = Cardinality(ids)

(* The order does not depend on how the services are listed or hashed: at  *)
(* each point the greatest id whose dependencies have started comes next.  *)
Deterministic ==
  \A k \in DOMAIN order :
    LET before == {order[j] : j \in 1..(k - 1)}
    IN order[k] = Greatest({id \in ids \ before : deps(id) \subseteq before})
=============================================================================
