----------------------------- MODULE PgDistGroup -----------------------------
(***************************************************************************)
(* One group of pg_dist_node, as the coordinator of a Citus cluster knows  *)
(* it and as it should be, and the statements that lead from the one to    *)
(* the other (patroni/postgresql/mpp/citus.py).                            *)
(*                                                                         *)
(* A name is a pair <<host, k>>: the host with "-demoted" appended k times.*)
(* A group is a function from names to [role, id]: the set of PgDistNode,  *)
(* which are equal when their host and port are. The table is a function   *)
(* from the id of a row to its [name, role].                               *)
(***************************************************************************)
EXTENDS Naturals, FiniteSets, Functions

CONSTANT None

Node(role, id) == [role |-> role, id |-> id]
IsPrimary(node) == node.role \in {"primary", "demoted"}
Primary(group) ==
  IF \E n \in DOMAIN group : IsPrimary(group[n])
  THEN CHOOSE n \in DOMAIN group : IsPrimary(group[n]) ELSE None
\* Two topologies are equal when they have the same names with the same roles.
Roles(group) == [n \in DOMAIN group |-> group[n].role]

\* The group with node for the name n.
With(group, n, node) == [m \in DOMAIN group \cup {n} |-> IF m = n THEN node ELSE group[m]]
Only(n, node) == [m \in {n} |-> node]

(***************************************************************************)
(* The outcomes of the statements in Citus. The state t of a transition:   *)
(* the topologies old and new, the nodes gone from old and added by new,   *)
(* the rows, whether all went well, how many statements were sent. A name  *)
(* is in one row at most, a group has one primary.                         *)
(***************************************************************************)
Named(rows, n) == {id \in DOMAIN rows : rows[id].name = n}

\* The rows DOMAIN to get other names.
citus_update_node(t, to) ==
  {[t EXCEPT
      !.ok = /\ @ /\ DOMAIN to \subseteq DOMAIN t.rows /\ IsInjective(to)
             /\ \A id \in DOMAIN to : Named(t.rows, to[id]) \subseteq {id},
      !.rows = [id \in DOMAIN @ |->
                  IF id \in DOMAIN to THEN [name |-> to[id], role |-> @[id].role] ELSE @[id]]]}
citus_remove_node(t, ns) ==
  {[t EXCEPT
      !.ok = @ /\ \A n \in ns : Named(t.rows, n) # {},
      !.rows = [id \in {i \in DOMAIN @ : @[i].name \notin ns} |-> @[id]],
      !.sent = @ + Cardinality(ns)]}
\* A name that is there already is left where it is, and its row is returned.
citus_add_node(t, nodes) ==
  LET ns == {n \in DOMAIN nodes : Named(t.rows, n) = {}}
      free == (1 .. Cardinality(DOMAIN t.rows) + Cardinality(ns)) \ DOMAIN t.rows
      id(f, n) == IF n \in ns THEN f[n] ELSE CHOOSE i \in Named(t.rows, n) : TRUE
  IN  {[t EXCEPT
          !.ok = @ /\ \A n \in ns, i \in DOMAIN t.rows :
                         ~(nodes[n].role = "primary" /\ t.rows[i].role = "primary"),
          !.rows = [i \in DOMAIN @ \cup Range(f) |->
                      IF i \in DOMAIN @ THEN @[i]
                      ELSE LET n == CHOOSE m \in ns : f[m] = i IN [name |-> n, role |-> nodes[n].role]],
          !.new = [n \in DOMAIN @ |->
                     IF n \in DOMAIN nodes THEN Node(@[n].role, id(f, n)) ELSE @[n]]]
       : f \in Injection(ns, free)}

\* update_node for a node, or for several of which none gets a name that another one has.
update_node(t, nodes) ==
  LET ids == {nodes[n].id : n \in DOMAIN nodes} \ {None}
      holder(id) == CHOOSE n \in DOMAIN nodes : nodes[n].id = id
      name(n) == <<n[1], n[2] + (IF nodes[n].role = "demoted" THEN 1 ELSE 0)>>
      added == {n \in DOMAIN nodes : nodes[n].id = None /\ nodes[n].role # "demoted"}
  IN  UNION {citus_add_node([u EXCEPT !.sent = @ + Cardinality(DOMAIN nodes)], Restrict(nodes, added))
             : u \in citus_update_node(t, [id \in ids |-> name(holder(id))])}

(***************************************************************************)
(* transition, in the order of the code. Each node it yields is sent to    *)
(* Citus; none is changed after that.                                      *)
(***************************************************************************)
\* The node n of the new topology, there or added to it, takes the row id.
Takes(t, n, role, id) ==
  update_node([t EXCEPT !.new = With(@, n, Node(role, id))], Only(n, Node(role, id)))

SamePrimary(t, p) ==
  IF t.old[p].role = t.new[p].role THEN {[t EXCEPT !.new = With(@, p, t.old[p])]}
  ELSE Takes([t EXCEPT !.failover = TRUE], p, t.new[p].role, t.old[p].id)

\* The new primary has a row as a secondary: another name is put there first.
VacateWithAdded(t, p, q) ==
  UNION {Takes([t EXCEPT !.added = @ \ {a}, !.old[p].role = "secondary"], a, "secondary", t.old[q].id)
         : a \in t.added}
VacateWithOld(t, p, q) ==
  UNION {Takes(u, p, IF p \in DOMAIN t.new THEN t.new[p].role ELSE t.old[q].role, t.old[q].id)
         : u \in IF t.old[p].role = "primary"
                 THEN update_node([t EXCEPT !.old[p].role = "demoted"], Only(p, Node("demoted", t.old[p].id)))
                 ELSE {t}}
Vacate(t, p, q) ==
  IF q \notin DOMAIN t.old THEN {t}
  ELSE IF p \notin DOMAIN t.new /\ t.added # {} THEN VacateWithAdded(t, p, q)
  ELSE VacateWithOld(t, p, q)

\* The new primary had no row: the old one can go to the row of a gone secondary.
KeepOld(t, p, q) ==
  IF q \in DOMAIN t.old \/ t.gone = {} THEN {t}
  ELSE IF \/ p \in DOMAIN t.new
          \/ t.old[p].role = "demoted" /\ Cardinality(t.gone) > Cardinality(t.added)
       THEN UNION {Takes([t EXCEPT !.gone = @ \ {g}], p, "secondary", t.old[g].id) : g \in t.gone}
       ELSE {t}

NewPrimary(t, p, q) ==
  UNION {KeepOld(w, p, q) :
    w \in UNION {Takes(u, q, u.new[q].role, t.old[p].id) : u \in Vacate([t EXCEPT !.failover = TRUE], p, q)}}

Promote(t) ==
  LET p == Primary(t.old)
      q == Primary(t.new)
  IN  IF p = None THEN update_node(t, Only(q, t.new[q]))
      ELSE IF p = q THEN SamePrimary(t, p)
      ELSE NewPrimary(t, p, q)

\* Mutant: the ids are not copied.
NoIds(t) == t
\* The standbys that stay keep their rows.
FillIds(t) ==
  [t EXCEPT !.new = [n \in DOMAIN @ |->
     IF /\ ~IsPrimary(@[n]) /\ @[n].id = None
        /\ n \in DOMAIN t.old /\ ~IsPrimary(t.old[n])
     THEN Node(@[n].role, t.old[n].id) ELSE @[n]]]

\* Rows of gone standbys are given to added ones, whichever (set.pop), while there are both.
Reuse(t) ==
  LET k == IF Cardinality(t.gone) < Cardinality(t.added) THEN Cardinality(t.gone) ELSE Cardinality(t.added)
      give(row) ==
        LET nodes == [n \in DOMAIN row |-> Node(t.new[n].role, t.old[row[n]].id)]
        IN  update_node([t EXCEPT !.gone = @ \ Range(row), !.added = @ \ DOMAIN row,
                                  !.new = [n \in DOMAIN @ |-> IF n \in DOMAIN row THEN nodes[n] ELSE @[n]]],
                        nodes)
  IN  UNION {give(row) : row \in UNION {Injection(ns, t.gone) : ns \in {s \in SUBSET t.added : Cardinality(s) = k}}}

\* Rows are added and removed only when the primary was not changed, for then
\* the metadata is in sync; otherwise the topology is left as it is for now.
AddRemove(t) ==
  IF t.failover
  THEN {[t EXCEPT !.new = [n \in (DOMAIN @ \ t.added) \cup t.gone |->
                             IF n \in DOMAIN @ THEN @[n] ELSE t.old[n]]]}
  ELSE UNION {update_node(u, Restrict(t.new, t.added)) : u \in citus_remove_node(t, t.gone)}

Begin(new, old, failover, rows) ==
  [old |-> old, new |-> new, failover |-> failover, rows |-> rows, ok |-> TRUE, sent |-> 0,
   gone |-> DOMAIN old \ (DOMAIN new \cup {Primary(old)}),
   added |-> DOMAIN new \ (DOMAIN old \cup {Primary(new)})]
\* The ways to get from a group to another, with the rows there are.
transition(new, old, failover, rows) ==
  LET promoted == UNION {Promote(t) : t \in {Begin(new, old, failover, rows)}}
  IN  UNION {AddRemove(u) : u \in UNION {Reuse(v) : v \in {FillIds(w) : w \in promoted}}}
=============================================================================
