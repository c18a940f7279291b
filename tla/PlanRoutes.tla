------------------------------ MODULE PlanRoutes ------------------------------
(***************************************************************************)
(* The route of a plan against the graph it was made from, for an author whose *)
(* only import is a campaign of one graph.                                     *)
(***************************************************************************)
EXTENDS PlanAuthoring

IsList(s) == s \in Seq(ToSet(s))
IsCampaign(c) ==
    /\ c = [id |-> c.id, imports |-> c.imports, graphs |-> c.graphs, conditions |-> c.conditions]
    /\ IsList(c.imports) /\ IsList(c.graphs)
IsLayer(l) ==
    /\ l = [campaign |-> l.campaign, overrides |-> l.overrides, disabled |-> l.disabled]
    /\ IsList(l.overrides) /\ IsList(l.disabled)
IsGraph(g) ==
    /\ g = [id |-> g.id, entry |-> g.entry, nodes |-> g.nodes, edges |-> g.edges]
    /\ IsList(g.nodes) /\ IsList(g.edges)
    /\ \A i \in DOMAIN g.nodes :
          LET n == g.nodes[i] IN
          /\ n = [id |-> n.id, type |-> n.type, intent |-> n.intent]
          /\ \A j \in DOMAIN g.nodes : g.nodes[j].id = n.id => j = i

\* The author's own graphs have other ids than the imported one, and what the imported campaign
\* imports is missing or comes back to where the import came from.
ImportsOneGraph(lib, author) ==
    /\ IsCampaign(author) /\ author.id # BaseId
    /\ \A i \in DOMAIN author.graphs : author.graphs[i].id # GraphId
    /\ Len(author.imports) = 1 /\ author.imports[1].campaign = BaseId /\ IsLayer(author.imports[1])
    /\ IsFiniteSet(DOMAIN lib)
    /\ BaseId \in DOMAIN lib =>
          LET base == lib[BaseId] IN
          /\ IsCampaign(base) /\ base.id = BaseId
          /\ Len(base.graphs) = 1 /\ base.graphs[1].id = GraphId /\ IsGraph(base.graphs[1])
          /\ \A i \in DOMAIN base.imports :
                LET id == base.imports[i].campaign
                IN  id \in DOMAIN lib => lib[id].id \in {author.id, BaseId}

ASSUME RoutesAssumption == \A start \in Starts : ImportsOneGraph(start.library, start.campaign)

Warned(code) == \E n \in Notes : n.code = code

\* A plan of the imported graph.
OfImportedGraph == HasPlan /\ ThePlan.graph = GraphId /\ Operations # <<>>

PlanEdges ==
    UNION {{<<Operations[i].node, Operations[t.to].node, t.guard>> : t \in ToSet(Operations[i].next)}
           : i \in DOMAIN Operations}

Skipped == ToSet(Layer.disabled) \cap NodeIds(Graph)
KeptNodes == NodeIds(Graph) \ Skipped

\* The ways through up to n nodes, all of them of `via` and none of them twice, each with the first
\* guard on it.
SimpleWays(edges, via) ==
    LET single == {[from |-> e.from, to |-> e.to, guard |-> e.guard, through |-> {}] : e \in edges}
        Longer(w) == {[from |-> w.from, to |-> e.to, guard |-> Or(w.guard, e.guard),
                       through |-> w.through \cup {w.to}] : e \in {f \in edges : f.from = w.to}}
        ways[n \in Nat] ==
            IF n = 0 THEN single
            ELSE LET shorter == ways[n - 1]
                 IN  shorter \cup UNION {Longer(w) : w \in {v \in shorter : v.to \in via \ v.through}}
    IN  ways

\* All ways that come through `via` only, joined n times over: those along up to 2^n edges.
AllWays(edges, via) ==
    LET Joined(v, w) == [from |-> v.from, to |-> w.to, guard |-> Or(v.guard, w.guard)]
        ways[n \in Nat] ==
            IF n = 0 THEN {[from |-> e.from, to |-> e.to, guard |-> e.guard] : e \in edges}
            ELSE LET shorter == ways[n - 1]
                 IN  shorter \cup UNION {{Joined(v, w) : w \in {u \in shorter : v.to = u.from}}
                                         : v \in {u \in shorter : u.to \in via}}
    IN  ways

BetweenKept(ways) == {<<w.from, w.to, w.guard>> : w \in {v \in ways : {v.from, v.to} \subseteq KeptNodes}}

\* The nodes of `via` that lead along up to n edges to the node, and the node itself.
LeadingTo(edges, via, node) ==
    LET leading[n \in Nat] ==
            IF n = 0 THEN {node}
            ELSE LET nearer == leading[n - 1]
                 IN  nearer \cup {x \in via : \E e \in edges : e.from = x /\ e.to \in nearer}
    IN  leading

\* Some operations each have one of them before it: there is a cycle.
Cyclic ==
    \E nodes \in SUBSET {e[2] : e \in PlanEdges} :
        /\ nodes # {}
        /\ \A node \in nodes : \E e \in PlanEdges : e[2] = node /\ e[1] \in nodes

\* A route without branches.
Linear == \A e, f \in EdgesOf(Graph) : e.from = f.from => e.to = f.to

-----------------------------------------------------------------------------
(* Properties. *)

\* Skipping nodes of an imported route neither cuts the route nor invents a way: whichever nodes
\* the author disables, and in whatever order, the plan leads from one kept node to another
\* exactly where the graph does by way of skipped nodes only, under the first guard on that way
\* (remove_disabled, transitions; skipped loops may add a guard of a longer way round).
SkippedNodesLeaveTheRoute ==
    OfImportedGraph =>
        /\ BetweenKept(SimpleWays(EdgesOf(Graph), Skipped)[Cardinality(Skipped)]) \subseteq PlanEdges
        /\ PlanEdges \subseteq BetweenKept(AllWays(EdgesOf(Graph), Skipped)[Len(Layer.disabled)])

\* Every kept node is one operation, the route starts where the author said, or at what a skipped
\* start leads to, and the resolver warns of an order that is not topological exactly when there
\* is none that starts there (topological_order, report_back_edges).
OperationsFollowTheGraph ==
    OfImportedGraph =>
        /\ {Operations[i].node : i \in DOMAIN Operations} = KeptNodes
        /\ Len(Operations) = Cardinality(KeptNodes)
        /\ Graph.entry \in KeptNodes => Operations[1].node = Graph.entry
        /\ Linear => \A node \in KeptNodes :
              Graph.entry \in LeadingTo(EdgesOf(Graph), Skipped, node)[Cardinality(Skipped)]
                  => Operations[1].node = node
        /\ Warned("graph.cycle") <=> Cyclic \/ \E e \in PlanEdges : e[2] = Operations[1].node
        /\ ~Warned("graph.cycle") =>
              \A i \in DOMAIN Operations : \A t \in ToSet(Operations[i].next) : i < t.to

\* "Every guard id in the emitted plan resolves inside the emitted plan": a guard that the graph's
\* own campaign defines comes with the plan (referenced_conditions).
EveryGuardIsCarried ==
    OfImportedGraph =>
        \A e \in PlanEdges :
            (e[3] # None /\ Defines(library[BaseId], e[3])) => Defines(ThePlan, e[3])
=============================================================================
