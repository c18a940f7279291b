--------------------------- MODULE CampaignEditor ---------------------------
(***************************************************************************)
(* The campaign half of the quest editor's server: the sessions in memory   *)
(* under one lock (campaign_handlers.rs), the commands with their undo and  *)
(* redo stacks (campaign_history.rs) and the files (campaign_store.rs).     *)
(*                                                                          *)
(* A request that changes a campaign holds the lock from the change to the  *)
(* end of the save; a create and a delete touch the disk without it.  A     *)
(* write truncates the temporary file, fills it and renames it, and the     *)
(* server can stop, or the disk refuse, between any two of these steps.     *)
(***************************************************************************)
EXTENDS Naturals, Sequences, SequencesExt

CONSTANTS
    Clients, NoClient,
    Names,          \* the names clients ask for
    Slug,           \* [Names -> file]: slugify, two names may share a file
    Quests,         \* quests a node can name
    NoFile, Torn,   \* no such file; a file that is not yet completely written
    NoSession, NoCampaign,
    CampaignHistoryLimit,   \* max_history, 50 in the code
    MaxIds, MaxCrashes      \* bounds: generated ids, stops of the server

ASSUME CampaignAssumption ==
    /\ NoClient \notin Clients
    /\ DOMAIN Slug = Names
    /\ Torn # NoFile

VARIABLES
    file, tmp,      \* per slug: <slug>.json and <slug>.tmp
    session,        \* per name: campaign_store, the campaign and its history
    lock,           \* the client whose request holds the store's write lock
    req,            \* per client: the request that is being served
    ids,            \* generated ids so far (UUIDs in the code)
    crashes,
    unsaved,        \* names whose last save failed, ghost
    overlapped      \* slugs where a create or delete met another request, ghost

campaignVars == <<file, tmp, session, lock, req, ids, crashes, unsaved, overlapped>>

-----------------------------------------------------------------------------
(* Campaigns and the commands on them. *)

NodeTypes == {"questing.AcceptQuest", "questing.TurnInQuest"}

NewCampaign(n, id) == [name |-> n, id |-> id, graphs |-> <<>>, conditions |-> <<>>]

Command(what, graph, new, old) == [what |-> what, graph |-> graph, new |-> new, old |-> old]

HasId(list, id) == \E i \in DOMAIN list : list[i].id = id
IndexOf(list, id) == SelectInSeq(list, LAMBDA x : x.id = id)

\* The list of a graph ("nodes" or "edges") with one command applied, or the list
\* <<NoCampaign>> when the item to remove or to change is not there.
Changed(list, op, new, old) ==
    CASE op = "add" -> Append(list, new)
      [] op # "add" /\ ~HasId(list, old.id) -> <<NoCampaign>>
      [] op = "remove" /\ HasId(list, old.id) -> RemoveAt(list, IndexOf(list, old.id))
      [] op = "modify" /\ HasId(list, old.id) -> [list EXCEPT ![IndexOf(list, old.id)] = new]

InGraph(part, op, cmd, c) ==
    LET g == IndexOf(c.graphs, cmd.graph)
        list == Changed(c.graphs[g][part], op, cmd.new, cmd.old)
    IN  IF ~HasId(c.graphs, cmd.graph) \/ list = <<NoCampaign>> THEN NoCampaign
        ELSE [c EXCEPT !.graphs[g][part] = list]

\* Graphs and conditions: an id that is already there is refused.
InCampaign(part, op, cmd, c) ==
    LET list == Changed(c[part], op, cmd.new, cmd.old) IN
    IF list = <<NoCampaign>> \/ (op = "add" /\ HasId(c[part], cmd.new.id))
      THEN NoCampaign
      ELSE [c EXCEPT ![part] = list]

ApplyNode(cmd, c) ==
    CASE cmd.what = "AddNode" -> InGraph("nodes", "add", cmd, c)
      [] cmd.what = "RemoveNode" -> InGraph("nodes", "remove", cmd, c)
      [] OTHER -> InGraph("nodes", "modify", cmd, c)

ApplyEdge(cmd, c) ==
    CASE cmd.what = "AddEdge" -> InGraph("edges", "add", cmd, c)
      [] OTHER -> InGraph("edges", "remove", cmd, c)

ApplyGraph(cmd, c) ==
    CASE cmd.what = "AddGraph" -> InCampaign("graphs", "add", cmd, c)
      [] OTHER -> InCampaign("graphs", "remove", cmd, c)

ApplyCondition(cmd, c) ==
    CASE cmd.what = "AddCondition" -> InCampaign("conditions", "add", cmd, c)
      [] OTHER -> InCampaign("conditions", "remove", cmd, c)

ApplyCampaign(cmd, c) ==
    CASE cmd.what \in {"AddNode", "RemoveNode", "ModifyNode"} -> ApplyNode(cmd, c)
      [] cmd.what \in {"AddEdge", "RemoveEdge"} -> ApplyEdge(cmd, c)
      [] cmd.what \in {"AddGraph", "RemoveGraph"} -> ApplyGraph(cmd, c)
      [] OTHER -> ApplyCondition(cmd, c)

Opposite == [AddNode |-> "RemoveNode", RemoveNode |-> "AddNode", ModifyNode |-> "ModifyNode",
             AddEdge |-> "RemoveEdge", RemoveEdge |-> "AddEdge",
             AddGraph |-> "RemoveGraph", RemoveGraph |-> "AddGraph",
             AddCondition |-> "RemoveCondition", RemoveCondition |-> "AddCondition"]

InverseCommand(cmd) == Command(Opposite[cmd.what], cmd.graph, cmd.old, cmd.new)

H == INSTANCE CommandHistory WITH
        Apply <- ApplyCampaign, Reversal <- InverseCommand,
        NoDoc <- NoCampaign, MaxHistory <- CampaignHistoryLimit

\* A turn-in of a quest that no node of its graph accepts.
MissingAccepts(c) ==
    LET graph(g) == ToSet(c.graphs[g].nodes)
        accepted(g) == {n.quest : n \in {m \in graph(g) : m.type = "questing.AcceptQuest"}}
    IN  UNION {{n.id : n \in {m \in graph(g) : /\ m.type = "questing.TurnInQuest"
                                               /\ m.quest \notin accepted(g)}}
               : g \in DOMAIN c.graphs}

-----------------------------------------------------------------------------
(* The server. *)

Idle == [step |-> "idle"]
Whole(f) == f \notin {NoFile, Torn}
NewSession(c) == [campaign |-> c, history |-> H!EmptyHistory]

\* What an earlier run of the server may have left: a campaign with one empty graph.
EarlierCampaign(n) ==
    [NewCampaign(n, n) EXCEPT !.graphs = <<[id |-> n, nodes |-> <<>>, edges |-> <<>>]>>]

CampaignInit ==
    /\ \E kept \in SUBSET Names :
         /\ \A a, b \in kept : Slug[a] = Slug[b] => a = b
         /\ file = [s \in Range(Slug) |->
                      IF \E n \in kept : Slug[n] = s
                        THEN EarlierCampaign(CHOOSE n \in kept : Slug[n] = s)
                        ELSE NoFile]
    /\ tmp = [s \in Range(Slug) |-> NoFile]
    /\ session = [n \in Names |-> NoSession]
    /\ lock = NoClient
    /\ req = [c \in Clients |-> Idle]
    /\ ids = 0
    /\ crashes = 0
    /\ unsaved = {}
    /\ overlapped = {}

\* The slugs other clients are working on; only a create and a delete do so unlocked.
BusyOn(s, kinds) ==
    \E c \in Clients : req[c] # Idle /\ Slug[req[c].name] = s /\ req[c].what \in kinds

\* A client's next request may begin; the ghost notes when it meets another one.
Begins(c, n, kinds) ==
    /\ req[c] = Idle
    /\ overlapped' = IF BusyOn(Slug[n], kinds) THEN overlapped \cup {Slug[n]} ELSE overlapped

Unlocked == {"create", "delete"}
AnyRequest == Unlocked \cup {"save"}

\* CampaignApi::create refuses a name whose file exists; nothing is locked.
CreateCampaign(c, n) ==
    /\ Begins(c, n, AnyRequest)
    /\ file[Slug[n]] = NoFile
    /\ ids < MaxIds
    /\ ids' = ids + 1
    /\ req' = [req EXCEPT ![c] = [step |-> "truncate", what |-> "create", name |-> n,
                                  doc |-> NewCampaign(n, ids)]]
    /\ UNCHANGED <<file, tmp, session, lock, crashes, unsaved>>

\* Mutant: the file itself is opened and truncated.
WriteOpensInPlace(c) ==
    /\ req[c].step = "truncate"
    /\ file' = [file EXCEPT ![Slug[req[c].doc.name]] = Torn]
    /\ tmp' = [tmp EXCEPT ![Slug[req[c].doc.name]] = Torn]
    /\ req' = [req EXCEPT ![c].step = "fill"]
    /\ UNCHANGED <<session, lock, ids, crashes, unsaved, overlapped>>

\* atomic_write, first step: fs::write opens <slug>.tmp and truncates it.
WriteOpens(c) ==
    /\ req[c].step = "truncate"
    /\ tmp' = [tmp EXCEPT ![Slug[req[c].doc.name]] = Torn]
    /\ req' = [req EXCEPT ![c].step = "fill"]
    /\ UNCHANGED <<file, session, lock, ids, crashes, unsaved, overlapped>>

\* Second step: the content.  The file may have been renamed by another writer meanwhile;
\* the open handle then writes into the renamed file.
WriteFills(c) ==
    LET s == Slug[req[c].doc.name] IN
    /\ req[c].step = "fill"
    /\ IF tmp[s] # NoFile
         THEN tmp' = [tmp EXCEPT ![s] = req[c].doc] /\ UNCHANGED file
         ELSE /\ file' = IF file[s] # NoFile THEN [file EXCEPT ![s] = req[c].doc] ELSE file
              /\ UNCHANGED tmp
    /\ req' = [req EXCEPT ![c].step = "rename"]
    /\ UNCHANGED <<session, lock, ids, crashes, unsaved, overlapped>>

\* The request ends; a save gives the lock back.
Done(c) ==
    /\ req' = [req EXCEPT ![c] = Idle]
    /\ lock' = IF lock = c THEN NoClient ELSE lock

\* Third step: the rename, after which a save is answered and a create has its session left
\* to insert.  A temporary file that another writer renamed away is an error.
WriteRenames(c) ==
    LET s == Slug[req[c].doc.name] IN
    /\ req[c].step = "rename"
    /\ tmp[s] # NoFile
    /\ file' = [file EXCEPT ![s] = tmp[s]]
    /\ tmp' = [tmp EXCEPT ![s] = NoFile]
    /\ IF req[c].what = "save"
         THEN Done(c) /\ unsaved' = unsaved \ {req[c].name}
         ELSE /\ req' = [req EXCEPT ![c].step = "insert"]
              /\ UNCHANGED <<lock, unsaved>>
    /\ UNCHANGED <<session, ids, crashes, overlapped>>

\* The disk refuses the write, or the rename finds nothing to rename: the handler answers
\* the error and leaves what it changed in memory as it is.
WriteFails(c) ==
    /\ \/ req[c].step = "truncate"
       \/ req[c].step = "rename" /\ tmp[Slug[req[c].doc.name]] = NoFile
    /\ Done(c)
    /\ unsaved' = IF req[c].what = "save" THEN unsaved \cup {req[c].name} ELSE unsaved
    /\ UNCHANGED <<file, tmp, session, ids, crashes, overlapped>>

\* The new campaign replaces whatever session has its name.
CreateInserts(c) ==
    /\ req[c].step = "insert"
    /\ lock = NoClient
    /\ session' = [session EXCEPT ![req[c].name] = NewSession(req[c].doc)]
    /\ unsaved' = unsaved \ {req[c].name}
    /\ req' = [req EXCEPT ![c] = Idle]
    /\ UNCHANGED <<file, tmp, lock, ids, crashes, overlapped>>

\* handle_load_campaign: disk is read only for a name without a session, under the lock.
LoadCampaign(c, n) ==
    /\ Begins(c, n, Unlocked)
    /\ lock = NoClient
    /\ session[n] = NoSession
    /\ Whole(file[Slug[n]])
    /\ session' = [session EXCEPT ![n] = NewSession(file[Slug[n]])]
    /\ unsaved' = unsaved \ {n}
    /\ UNCHANGED <<file, tmp, lock, req, ids, crashes>>

\* handle_delete_campaign: the session under the lock, then the file without it.
DeleteCampaign(c, n) ==
    /\ Begins(c, n, AnyRequest)
    /\ lock = NoClient
    /\ session' = [session EXCEPT ![n] = NoSession]
    /\ req' = [req EXCEPT ![c] = [step |-> "unlink", what |-> "delete", name |-> n]]
    /\ UNCHANGED <<file, tmp, lock, ids, crashes, unsaved>>

DeleteUnlinks(c) ==
    /\ req[c].step = "unlink"
    /\ file' = [file EXCEPT ![Slug[req[c].name]] = NoFile]
    /\ req' = [req EXCEPT ![c] = Idle]
    /\ UNCHANGED <<tmp, session, lock, ids, crashes, unsaved, overlapped>>

\* Mutant: what is saved is the campaign from before the command.
MutatesSavingBefore(c, n, outcome) ==
    /\ session' = [session EXCEPT ![n] = [campaign |-> outcome.doc, history |-> outcome.history]]
    /\ IF outcome.ok
         THEN /\ lock' = c
              /\ req' = [req EXCEPT ![c] = [step |-> "truncate", what |-> "save", name |-> n,
                                            doc |-> session[n].campaign]]
         ELSE UNCHANGED <<lock, req>>
    /\ UNCHANGED <<file, tmp, crashes, unsaved>>

\* The part every mutation shares: the lock, the session, the outcome of a command, the save.
\* A refused command is answered without a save; the stacks keep what it did to them.
Mutates(c, n, outcome) ==
    /\ session' = [session EXCEPT ![n] = [campaign |-> outcome.doc, history |-> outcome.history]]
    /\ IF outcome.ok
         THEN /\ lock' = c
              /\ req' = [req EXCEPT ![c] = [step |-> "truncate", what |-> "save", name |-> n,
                                            doc |-> outcome.doc]]
         ELSE UNCHANGED <<lock, req>>
    /\ UNCHANGED <<file, tmp, crashes, unsaved>>

CanMutate(c, n) ==
    /\ Begins(c, n, Unlocked)
    /\ lock = NoClient
    /\ session[n] # NoSession

Executes(c, n, cmd) ==
    Mutates(c, n, H!Execute(cmd, session[n].campaign, session[n].history))

\* A handler that adds something: the client has generated its id.
Adds(c, n, what, graph, item) ==
    /\ CanMutate(c, n)
    /\ ids < MaxIds
    /\ ids' = ids + 1
    /\ Executes(c, n, Command(what, graph, item, item))

HandleAddGraph(c, n) ==
    Adds(c, n, "AddGraph", ids, [id |-> ids, nodes |-> <<>>, edges |-> <<>>])

HandleAddCondition(c, n) == Adds(c, n, "AddCondition", ids, [id |-> ids])

HandleAddNode(c, n) ==
    /\ session[n] # NoSession
    /\ \E g \in DOMAIN session[n].campaign.graphs, type \in NodeTypes, q \in Quests :
         Adds(c, n, "AddNode", session[n].campaign.graphs[g].id,
              [id |-> ids, type |-> type, quest |-> q])

HandleAddEdge(c, n) ==
    /\ session[n] # NoSession
    /\ \E g \in DOMAIN session[n].campaign.graphs :
         Adds(c, n, "AddEdge", session[n].campaign.graphs[g].id, [id |-> ids])

\* The handlers that look an item up in the session before they build the command.
FromGraph(c, n, part, Cmd(_, _)) ==
    /\ CanMutate(c, n)
    /\ UNCHANGED ids
    /\ \E g \in DOMAIN session[n].campaign.graphs :
         \E item \in ToSet(session[n].campaign.graphs[g][part]) :
            Executes(c, n, Cmd(session[n].campaign.graphs[g].id, item))

HandleRemoveNode(c, n) ==
    FromGraph(c, n, "nodes", LAMBDA g, item : Command("RemoveNode", g, item, item))

HandleUpdateNode(c, n, type) ==
    FromGraph(c, n, "nodes",
              LAMBDA g, item : Command("ModifyNode", g, [item EXCEPT !.type = type], item))

HandleRemoveEdge(c, n) ==
    FromGraph(c, n, "edges", LAMBDA g, item : Command("RemoveEdge", g, item, item))

HandleUndo(c, n) ==
    /\ CanMutate(c, n)
    /\ Mutates(c, n, H!Undo(session[n].campaign, session[n].history))
    /\ UNCHANGED ids

HandleRedo(c, n) ==
    /\ CanMutate(c, n)
    /\ Mutates(c, n, H!Redo(session[n].campaign, session[n].history))
    /\ UNCHANGED ids

\* The server stops and starts again: only the files are left.
ServerStops ==
    /\ crashes < MaxCrashes
    /\ crashes' = crashes + 1
    /\ session' = [n \in Names |-> NoSession]
    /\ lock' = NoClient
    /\ req' = [c \in Clients |-> Idle]
    /\ unsaved' = {}
    /\ UNCHANGED <<file, tmp, ids, overlapped>>

CampaignNext ==
    \/ \E c \in Clients :
         \/ WriteOpens(c) \/ WriteFills(c) \/ WriteRenames(c) \/ WriteFails(c)
         \/ CreateInserts(c) \/ DeleteUnlinks(c)
    \/ \E c \in Clients, n \in Names :
         \/ CreateCampaign(c, n) \/ LoadCampaign(c, n) \/ DeleteCampaign(c, n)
         \/ HandleAddGraph(c, n) \/ HandleAddCondition(c, n)
         \/ HandleAddNode(c, n) \/ HandleRemoveNode(c, n)
         \/ \E type \in NodeTypes : HandleUpdateNode(c, n, type)
         \/ HandleAddEdge(c, n) \/ HandleRemoveEdge(c, n)
         \/ HandleUndo(c, n) \/ HandleRedo(c, n)
    \/ ServerStops

CampaignSpec == CampaignInit /\ [][CampaignNext]_campaignVars

-----------------------------------------------------------------------------
(* Properties. *)

SameItems(a, b) == ToSet(a) = ToSet(b) /\ Len(a) = Len(b)

\* Two campaigns with the same content; undo may put an item at another place of its list.
AlikeCampaigns(a, b) ==
    /\ a.name = b.name /\ a.id = b.id
    /\ SameItems(a.conditions, b.conditions)
    /\ {g.id : g \in ToSet(a.graphs)} = {g.id : g \in ToSet(b.graphs)}
    /\ \A i \in DOMAIN a.graphs, j \in DOMAIN b.graphs :
         a.graphs[i].id = b.graphs[j].id =>
            /\ SameItems(a.graphs[i].nodes, b.graphs[j].nodes)
            /\ SameItems(a.graphs[i].edges, b.graphs[j].edges)

\* Whatever sequence of edits, undos and redos made a session, its whole history can be
\* undone, done again with the same result, and everything undone can be redone.
CampaignHistoryReplays ==
    \A n \in Names : session[n] # NoSession =>
        H!Replays(session[n].campaign, session[n].history, AlikeCampaigns)

\* As long as no create or delete of a campaign overlaps another request on it, its file is
\* never half written, not even between the steps of a save or after a stop in between.
FilesAreWhole == \A s \in DOMAIN file : s \notin overlapped => file[s] # Torn

\* Under the same condition, when no request holds the lock, a session whose last save did
\* not fail is what its file says: what load, validate and compile answer does not depend
\* on whether they read the session or the disk, and a restart changes none of it.
SessionsAgreeWithFiles ==
    \A n \in Names :
        (session[n] # NoSession /\ lock = NoClient /\ n \notin unsaved
            /\ Slug[n] \notin overlapped /\ ~BusyOn(Slug[n], Unlocked))
        => /\ file[Slug[n]] = session[n].campaign
           /\ MissingAccepts(file[Slug[n]]) = MissingAccepts(session[n].campaign)
=============================================================================
