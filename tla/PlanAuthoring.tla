---------------------------- MODULE PlanAuthoring ----------------------------
(***************************************************************************)
(* An author who imports a campaign, skips and changes some of its nodes, and  *)
(* edits the imported graph itself; the resolver is asked for a plan at any     *)
(* time, against a database that may not answer everything.                    *)
(***************************************************************************)
EXTENDS CampaignResolver

CONSTANTS
    Starts,                         \* [desk, library, campaign]: what the author begins with
    BaseId, GraphId,                \* the imported campaign and its only graph
    EdgeMenu, SkipMenu, OverrideMenu,
    FieldMenu,                      \* [type, fields]: what can be written into an intent at once
    MaxEdges, MaxSkips, MaxOverrides,   \* bounds on the edits
    Healthy, Databases,             \* a snapshot that answers everything, and all of them
    NotResolved

\* One snapshot of the game's data: a database that cannot answer everything is still the
\* one its fingerprint names.
ASSUME DatabaseAssumption ==
    /\ Healthy.broken = {}
    /\ \A db \in Databases : db.fingerprint = Healthy.fingerprint

VARIABLES
    desk,       \* what is edited: the "graph" of the imported campaign, or one "task" of it
    library,    \* campaigns by id
    campaign,   \* the campaign to resolve, whose first import is the imported campaign
    outcome     \* the last answer, NotResolved after an edit

authoringVars == <<desk, library, campaign, outcome>>

AuthoringInit ==
    /\ \E start \in Starts :
          desk = start.desk /\ library = start.library /\ campaign = start.campaign
    /\ outcome = NotResolved

Graph == library[BaseId].graphs[1]
Layer == campaign.imports[1]
AtDesk(what) == desk = what /\ BaseId \in DOMAIN library

SetsGraph(graph) ==
    /\ library' = [library EXCEPT ![BaseId].graphs[1] = graph]
    /\ outcome' = NotResolved
    /\ UNCHANGED <<desk, campaign>>

SetsLayer(layer) ==
    /\ campaign' = [campaign EXCEPT !.imports[1] = layer]
    /\ outcome' = NotResolved
    /\ UNCHANGED <<desk, library>>

AddEdge ==
    /\ AtDesk("graph")
    /\ Len(Graph.edges) < MaxEdges
    /\ \E edge \in EdgeMenu : SetsGraph([Graph EXCEPT !.edges = Append(@, edge)])

WriteFields ==
    /\ AtDesk("task")
    /\ \E entry \in FieldMenu :
          /\ entry.type = Graph.nodes[1].type
          /\ SetsGraph([Graph EXCEPT !.nodes[1].intent = entry.fields @@ @])

SkipNode ==
    /\ AtDesk("graph")
    /\ Len(Layer.disabled) < MaxSkips
    /\ \E node \in SkipMenu \ ToSet(Layer.disabled) :
          SetsLayer([Layer EXCEPT !.disabled = Append(@, node)])

Override ==
    /\ AtDesk("task")
    /\ Len(Layer.overrides) < MaxOverrides
    /\ \E patch \in OverrideMenu : SetsLayer([Layer EXCEPT !.overrides = Append(@, patch)])

\* The database matters to the lowering of a task only.
Snapshots == IF desk = "task" THEN Databases ELSE {Healthy}

Answered(ask, db, answer) ==
    /\ outcome = NotResolved
    /\ outcome' = [ask |-> ask, db |-> db, answer |-> answer]
    /\ UNCHANGED <<desk, library, campaign>>

Resolve ==
    \E db \in Snapshots : Answered("campaign", db, ResolveCampaign(library, campaign, db))
ResolveGraph ==
    \E db \in Snapshots : Answered("graph", db, ResolveGraphOf(library, campaign, db, GraphId))
Post == \E db \in Snapshots : Answered("post", db, PostResolve(campaign, db))

AuthoringNext ==
    \/ AddEdge \/ WriteFields \/ SkipNode \/ Override
    \/ Resolve \/ ResolveGraph \/ Post

AuthoringSpec == AuthoringInit /\ [][AuthoringNext]_authoringVars

-----------------------------------------------------------------------------
(* Reading a plan. *)

HasPlan == outcome # NotResolved /\ outcome.answer.ok
ThePlan == outcome.answer.v.plan
Notes == outcome.answer.v.notes
Operations == ThePlan.operations

-----------------------------------------------------------------------------
(* Properties. *)

AnswerTo(ask, db) ==
    CASE ask = "campaign" -> ResolveCampaign(library, campaign, db)
      [] ask = "graph" -> ResolveGraphOf(library, campaign, db, GraphId)
      [] ask = "post" -> PostResolve(campaign, db)

\* A plan never depends on which lookups happened to succeed: against a database that cannot
\* answer everything there is either no plan, or exactly the plan and the diagnostics of a
\* healthy one (DbResult through every lowering, Resolver::resolve, POST /resolve).
BrokenReadsNeverShow ==
    outcome # NotResolved =>
        /\ outcome.answer \in {Failed, AnswerTo(outcome.ask, Healthy)}
        /\ outcome.db = Healthy => outcome.answer # Failed

\* An operation without actions is never silent: the runtime would walk past it, so the author is
\* told of an error at that node (lower_node, the lowerings, validate_gate).
EmptyOperationsAreReported ==
    HasPlan =>
        \A i \in DOMAIN Operations :
            Operations[i].actions = <<>> =>
                \E n \in Notes : n.severity = "error" /\ n.node = Operations[i].node
=============================================================================
