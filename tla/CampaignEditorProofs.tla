------------------------ MODULE CampaignEditorProofs ------------------------
(***************************************************************************)
(* What the campaigns of the editor's server are on disk, for any clients,   *)
(* names, commands, limits and stops of the server; then, in the second half, *)
(* what their undo and redo stacks are.                                      *)
(*                                                                          *)
(* A campaign and a session, and the things in a campaign, are what has a    *)
(* name, a campaign or an id: that the marks for what is not there have none *)
(* of these (MarksAreApart) is all that is assumed of them.                  *)
(***************************************************************************)
EXTENDS CampaignEditor, FiniteSetTheorems, SequenceTheorems, FunctionTheorems, TLAPS

MarksAreApart ==
    \A mark \in {Torn, NoFile, NoSession, NoCampaign} :
        \A field \in {"name", "id", "campaign"} : field \notin DOMAIN mark

Files == Range(Slug)

\* d is a campaign that is kept in file s.
Named(d, s) == "name" \in DOMAIN d /\ d.name \in Names /\ Slug[d.name] = s
Content(x, s) == x \in {NoFile, Torn} \/ Named(x, s)

\* What a command, an undo or a redo makes of campaign d.
Faithful(o, d) ==
    /\ o.ok \in BOOLEAN
    /\ "name" \in DOMAIN o.doc /\ o.doc.name = d.name
    /\ ~o.ok => o.doc = d

-----------------------------------------------------------------------------
(* Commands *)

\* No command changes the name of its campaign.
LEMMA CommandsKeepName ==
    ASSUME NEW d, "name" \in DOMAIN d, NEW cmd, ApplyCampaign(cmd, d) # NoCampaign
    PROVE  "name" \in DOMAIN ApplyCampaign(cmd, d) /\ ApplyCampaign(cmd, d).name = d.name
<1> DEFINE Keeps(x) == x # NoCampaign => "name" \in DOMAIN x /\ x.name = d.name
<1>1. ASSUME NEW x PROVE Keeps([d EXCEPT !.graphs = x])
  OBVIOUS
<1>2. ASSUME NEW x PROVE Keeps([d EXCEPT !.conditions = x])
  OBVIOUS
<1>3. ASSUME NEW part, NEW op PROVE Keeps(InGraph(part, op, cmd, d))
  BY <1>1 DEF InGraph
<1>4. ASSUME NEW op PROVE Keeps(InCampaign("graphs", op, cmd, d))
  BY <1>1 DEF InCampaign
<1>5. ASSUME NEW op PROVE Keeps(InCampaign("conditions", op, cmd, d))
  BY <1>2 DEF InCampaign
<1> HIDE DEF Keeps
<1>6. Keeps(ApplyNode(cmd, d)) /\ Keeps(ApplyEdge(cmd, d))
  BY <1>3 DEF ApplyNode, ApplyEdge
<1>7. Keeps(ApplyGraph(cmd, d)) /\ Keeps(ApplyCondition(cmd, d))
  BY <1>4, <1>5 DEF ApplyGraph, ApplyCondition
<1>8. Keeps(ApplyCampaign(cmd, d))
  BY <1>6, <1>7 DEF ApplyCampaign
<1> QED
  BY <1>8 DEF Keeps

(* Executing a command, undoing and redoing leave a campaign its name. *)
LEMMA HistoryIsFaithful ==
    ASSUME NEW d, "name" \in DOMAIN d, NEW h, NEW cmd
    PROVE  /\ Faithful(H!Execute(cmd, d, h), d)
           /\ Faithful(H!Undo(d, h), d)
           /\ Faithful(H!Redo(d, h), d)
<1>1. Faithful(H!Execute(cmd, d, h), d)
  BY CommandsKeepName DEF H!Execute, H!Outcome, Faithful
<1>2. Faithful(H!Undo(d, h), d)
  BY CommandsKeepName DEF H!Undo, H!Outcome, Faithful
<1>3. Faithful(H!Redo(d, h), d)
  BY CommandsKeepName DEF H!Redo, H!Outcome, Faithful
<1> QED
  BY <1>1, <1>2, <1>3

\* Every handler that changes a campaign does so in one way.
MutatesCampaign(c, n) == CanMutate(c, n) /\ \E o : Mutates(c, n, o) /\ Faithful(o, session[n].campaign)

(* Every handler that edits a campaign is an edit of the session's campaign that keeps its name. *)
LEMMA HandlersEdit ==
    ASSUME NEW c, NEW n, "name" \in DOMAIN session[n].campaign,
           \/ HandleAddGraph(c, n) \/ HandleAddCondition(c, n)
           \/ HandleAddNode(c, n) \/ HandleRemoveNode(c, n)
           \/ \E type \in NodeTypes : HandleUpdateNode(c, n, type)
           \/ HandleAddEdge(c, n) \/ HandleRemoveEdge(c, n)
           \/ HandleUndo(c, n) \/ HandleRedo(c, n)
    PROVE  MutatesCampaign(c, n)
<1> DEFINE d == session[n].campaign
           h == session[n].history
<1>1. ASSUME NEW cmd, CanMutate(c, n), Executes(c, n, cmd) PROVE MutatesCampaign(c, n)
  BY <1>1, HistoryIsFaithful DEF Executes, MutatesCampaign
<1>2. CASE HandleUndo(c, n) \/ HandleRedo(c, n)
  BY <1>2, HistoryIsFaithful DEF HandleUndo, HandleRedo, MutatesCampaign
<1>3. CASE HandleAddGraph(c, n) \/ HandleAddCondition(c, n) \/ HandleAddNode(c, n) \/ HandleAddEdge(c, n)
  BY <1>1, <1>3 DEF HandleAddGraph, HandleAddCondition, HandleAddNode, HandleAddEdge, Adds
<1>4. CASE HandleRemoveNode(c, n)
  BY <1>1, <1>4 DEF HandleRemoveNode, FromGraph
<1>5. CASE HandleRemoveEdge(c, n)
  BY <1>1, <1>5 DEF HandleRemoveEdge, FromGraph
<1>6. ASSUME NEW type \in NodeTypes, HandleUpdateNode(c, n, type) PROVE MutatesCampaign(c, n)
  BY <1>1, <1>6 DEF HandleUpdateNode, FromGraph
<1> QED
  BY <1>2, <1>3, <1>4, <1>5, <1>6

-----------------------------------------------------------------------------
(* The server's tables *)

\* A request that writes, and one that deletes.
Writing(c) ==
    /\ req[c] = [step |-> req[c].step, what |-> req[c].what, name |-> req[c].name, doc |-> req[c].doc]
    /\ req[c].what \in {"create", "save"}
    /\ req[c].step \in {"truncate", "fill", "rename", "insert"}
    /\ req[c].step = "insert" => req[c].what = "create"
    /\ req[c].name \in Names
    /\ Named(req[c].doc, Slug[req[c].name])
Deleting(c) ==
    /\ req[c] = [step |-> "unlink", what |-> "delete", name |-> req[c].name]
    /\ req[c].name \in Names
Saving(c) == Writing(c) /\ req[c].what = "save"

\* The file a request works on.
On(c) == Slug[req[c].name]

Tables ==
    /\ DOMAIN file = Files /\ DOMAIN tmp = Files
    /\ DOMAIN session = Names /\ DOMAIN req = Clients
    /\ \A s \in Files : Content(file[s], s) /\ Content(tmp[s], s)
    /\ \A n \in Names : session[n] # NoSession => Named(session[n].campaign, Slug[n])
    /\ \A c \in Clients : req[c] = Idle \/ Writing(c) \/ Deleting(c)

\* A save has the lock, and two requests on one file have been noticed.
Apart ==
    /\ \A c \in Clients : Saving(c) => lock = c
    /\ \A c, d \in Clients : c # d /\ req[c] # Idle /\ req[d] # Idle /\ On(c) = On(d) =>
         On(c) \in overlapped

\* How far a request has come with the file it has to itself.
Progress ==
    \A c \in Clients : Writing(c) /\ On(c) \notin overlapped =>
        /\ req[c].step = "fill" => tmp[On(c)] = Torn
        /\ req[c].step = "rename" => tmp[On(c)] = req[c].doc
        /\ req[c].step = "insert" => file[On(c)] = req[c].doc

DiskInv == Tables /\ Apart /\ Progress /\ FilesAreWhole

(* The slug of a name is a file. *)
LEMMA SlugFacts == \A n \in Names : Slug[n] \in Files
  BY CampaignAssumption DEF Files, Range

\* A request of another step or kind is not the idle one, nor the other kind.
LEMMA Kinds ==
    ASSUME NEW c
    PROVE  /\ Writing(c) => req[c] # Idle /\ ~Deleting(c)
           /\ Deleting(c) => req[c] # Idle
           /\ Writing(c) => Slug[req[c].doc.name] = On(c)
<1>1. Writing(c) => req[c].step # "idle" /\ req[c].step # "unlink"
  BY DEF Writing
<1>2. Deleting(c) => req[c].step = "unlink"
  BY DEF Deleting
<1>3. Idle.step = "idle"
  BY DEF Idle
<1> QED
  BY <1>1, <1>2, <1>3 DEF Writing, Named, On

\* The steps of a request that is under way and goes on.
GoesOn(c, step) ==
    /\ req' = [req EXCEPT ![c].step = step]
    /\ step \in {"fill", "rename", "insert"}
    /\ step = "insert" => req[c].what = "create"

(* A request that goes on keeps its name, document and kind, and no other request changes. *)
LEMMA GoesOnFacts ==
    ASSUME Tables, NEW c \in Clients, Writing(c), NEW step, GoesOn(c, step)
    PROVE  /\ DOMAIN req' = Clients
           /\ req'[c].step = step /\ Writing(c)'
           /\ req'[c].name = req[c].name /\ req'[c].doc = req[c].doc /\ req'[c].what = req[c].what
           /\ \A d \in Clients \ {c} : req'[d] = req[d]
<1> DEFINE r == req[c]
<1>1. r = [step |-> r.step, what |-> r.what, name |-> r.name, doc |-> r.doc]
  BY DEF Writing
<1>2. req' = [req EXCEPT ![c] = [r EXCEPT !.step = step]] /\ DOMAIN req = Clients
  BY DEF GoesOn, Tables
<1>3. [r EXCEPT !.step = step] = [step |-> step, what |-> r.what, name |-> r.name, doc |-> r.doc]
  BY <1>1
<1>4. req'[c] = [step |-> step, what |-> r.what, name |-> r.name, doc |-> r.doc]
  BY <1>2, <1>3
<1>5. /\ DOMAIN req' = Clients /\ \A d \in Clients \ {c} : req'[d] = req[d]
  BY <1>2
<1> QED
  BY <1>4, <1>5 DEF Writing, GoesOn

-----------------------------------------------------------------------------
(* A request takes a step *)

\* The step of a request that has begun keeps the invariant if it does so on its own file.
LEMMA OneWorks ==
    ASSUME DiskInv, NEW c \in Clients, req[c] # Idle, overlapped' = overlapped,
           DOMAIN file' = Files, DOMAIN tmp' = Files, DOMAIN session' = Names, DOMAIN req' = Clients,
           \A d \in Clients \ {c} : req'[d] = req[d],
           \A s \in Files \ {On(c)} : file'[s] = file[s] /\ tmp'[s] = tmp[s],
           Content(file'[On(c)], On(c)), Content(tmp'[On(c)], On(c)),
           On(c) \notin overlapped => file'[On(c)] # Torn,
           \A n \in Names : session'[n] # NoSession => Named(session'[n].campaign, Slug[n]),
           \/ req'[c] = Idle /\ lock' = IF lock = c THEN NoClient ELSE lock
           \/ req'[c] = Idle /\ lock' = lock
           \/ /\ Writing(c)' /\ On(c)' = On(c) /\ req'[c].what = req[c].what /\ lock' = lock
              /\ Writing(c)
              /\ On(c) \notin overlapped =>
                   /\ req'[c].step = "fill" => tmp'[On(c)] = Torn
                   /\ req'[c].step = "rename" => tmp'[On(c)] = req'[c].doc
                   /\ req'[c].step = "insert" => file'[On(c)] = req'[c].doc
    PROVE  DiskInv'
<1>1. \A d \in Clients \ {c} :
        /\ (Writing(d)' <=> Writing(d)) /\ (Deleting(d)' <=> Deleting(d))
        /\ (Saving(d)' <=> Saving(d)) /\ On(d)' = On(d)
  BY DEF Writing, Deleting, Saving, On
<1>2. On(c) \in Files
  BY SlugFacts DEF DiskInv, Tables, Writing, Deleting, On
<1>3. Tables'
  <2>1. \A s \in Files : Content(file'[s], s) /\ Content(tmp'[s], s)
    BY DEF DiskInv, Tables
  <2>2. \A d \in Clients : req'[d] = Idle \/ Writing(d)' \/ Deleting(d)'
    BY <1>1 DEF DiskInv, Tables
  <2> QED
    BY <2>1, <2>2 DEF Tables, Content, Named
<1>4. Apart'
  <2>1. ASSUME NEW d \in Clients, Saving(d)' PROVE lock' = d
    <3>1. CASE d # c
      BY <1>1, <2>1, <3>1 DEF DiskInv, Apart, Saving
    <3>2. CASE d = c
      <4>1. req'[c] # Idle /\ (Saving(c) \/ lock' # lock) => lock' = c
        BY <2>1, <3>2 DEF DiskInv, Apart, Saving, Writing, Idle
      <4> QED
        BY <2>1, <3>2, <4>1 DEF DiskInv, Apart, Saving, Writing, Idle
    <3> QED
      BY <3>1, <3>2
  <2>2. ASSUME NEW d \in Clients, NEW e \in Clients, d # e, req'[d] # Idle, req'[e] # Idle, On(d)' = On(e)'
        PROVE  On(d)' \in overlapped
    <3>1. \A x \in {d, e} : req[x] # Idle /\ On(x)' = On(x)
      BY <1>1, <2>2
    <3> QED
      BY <2>2, <3>1 DEF DiskInv, Apart
  <2> QED
    BY <2>1, <2>2 DEF Apart
<1>5. Progress'
  <2> SUFFICES ASSUME NEW d \in Clients, Writing(d)', On(d)' \notin overlapped
               PROVE  /\ req'[d].step = "fill" => tmp'[On(d)'] = Torn
                      /\ req'[d].step = "rename" => tmp'[On(d)'] = req'[d].doc
                      /\ req'[d].step = "insert" => file'[On(d)'] = req'[d].doc
    BY DEF Progress
  <2>1. CASE d = c
    <3>1. req'[c] # Idle
      BY <2>1 DEF Writing, Idle
    <3> QED
      BY <2>1, <3>1
  <2>2. CASE d # c
    <3>1. Writing(d) /\ On(d)' = On(d) /\ req'[d] = req[d]
      BY <1>1, <2>2
    <3>2. req[d] # Idle
      BY <3>1, Kinds
    <3>3. On(d) \in Files
      BY <3>1, SlugFacts DEF DiskInv, Tables, Writing, On
    <3>4. On(d) # On(c)
      BY <2>2, <3>1, <3>2 DEF DiskInv, Apart
    <3> QED
      BY <3>1, <3>3, <3>4 DEF DiskInv, Progress
  <2> QED
    BY <2>1, <2>2
<1>6. FilesAreWhole'
  BY DEF DiskInv, Tables, FilesAreWhole
<1> QED
  BY <1>3, <1>4, <1>5, <1>6 DEF DiskInv

\* A request begins, or is done at once.
LEMMA OneBegins ==
    ASSUME DiskInv, NEW c \in Clients, NEW n \in Names, NEW kinds, Begins(c, n, kinds),
           UNCHANGED <<file, tmp>>, DOMAIN session' = Names,
           kinds = AnyRequest \/ (kinds = Unlocked /\ lock = NoClient),
           \A m \in Names : session'[m] # NoSession => Named(session'[m].campaign, Slug[m]),
           \/ req' = req /\ lock' = lock
           \/ \E r : /\ req' = [req EXCEPT ![c] = r]
                     /\ (Writing(c)' /\ req'[c].step = "truncate") \/ Deleting(c)'
                     /\ req'[c].name = n
                     /\ Saving(c)' => lock = NoClient /\ lock' = c
                     /\ ~Saving(c)' => lock' = lock
    PROVE  DiskInv'
<1>0. req[c] = Idle /\ overlapped \subseteq overlapped' /\ DOMAIN req' = Clients
  BY DEF Begins, DiskInv, Tables
<1>1. \A d \in Clients \ {c} : req'[d] = req[d]
  BY DEF DiskInv, Tables
<1>2. \A d \in Clients \ {c} :
        /\ (Writing(d)' <=> Writing(d)) /\ (Deleting(d)' <=> Deleting(d))
        /\ (Saving(d)' <=> Saving(d)) /\ On(d)' = On(d)
  BY <1>1 DEF Writing, Deleting, Saving, On
<1>3. req'[c] = Idle \/ /\ (Writing(c)' /\ req'[c].step = "truncate") \/ Deleting(c)'
                        /\ req'[c].name = n
                        /\ Saving(c)' => lock = NoClient /\ lock' = c
                        /\ ~Saving(c)' => lock' = lock
  BY <1>0
<1>4. ASSUME NEW d \in Clients, Saving(d) PROVE lock = d /\ lock # NoClient
  BY <1>4, CampaignAssumption DEF DiskInv, Apart
<1>5. ASSUME NEW d \in Clients, req[d] # Idle, On(d) = Slug[n] PROVE Slug[n] \in overlapped'
  <2>1. Writing(d) \/ Deleting(d)
    BY <1>5 DEF DiskInv, Tables
  <2>2. req[d].what \in kinds
    <3>1. req[d].what \in AnyRequest /\ (req[d].what \in Unlocked \/ Saving(d))
      BY <2>1 DEF Writing, Deleting, Saving, AnyRequest, Unlocked
    <3> QED
      BY <1>4, <3>1
  <2>3. BusyOn(Slug[n], kinds)
    BY <1>5, <2>2 DEF BusyOn, On
  <2> QED
    BY <2>3 DEF Begins
<1>6. Tables'
  <2>1. \A d \in Clients : req'[d] = Idle \/ Writing(d)' \/ Deleting(d)'
    BY <1>1, <1>2, <1>3 DEF DiskInv, Tables
  <2> QED
    BY <1>0, <2>1 DEF DiskInv, Tables, Content, Named
<1>7. Apart'
  <2>1. ASSUME NEW d \in Clients, Saving(d)' PROVE lock' = d
    <3>1. CASE d # c
      <4>1. Saving(d) /\ lock = d /\ lock # NoClient
        BY <1>2, <1>4, <2>1, <3>1
      <4> QED
        BY <1>3, <4>1
    <3>2. CASE d = c
      <4>1. req'[c] # Idle
        BY <2>1, <3>2 DEF Saving, Writing, Idle
      <4> QED
        BY <1>3, <2>1, <3>2, <4>1
    <3> QED
      BY <3>1, <3>2
  <2>2. ASSUME NEW d \in Clients, NEW e \in Clients, d # e, req'[d] # Idle, req'[e] # Idle, On(d)' = On(e)'
        PROVE  On(d)' \in overlapped'
    <3>1. CASE d # c /\ e # c
      BY <1>0, <1>1, <1>2, <2>2, <3>1 DEF DiskInv, Apart
    <3>2. CASE d = c
      BY <1>1, <1>2, <1>3, <1>5, <2>2, <3>2 DEF On
    <3>3. CASE e = c
      BY <1>1, <1>2, <1>3, <1>5, <2>2, <3>3 DEF On
    <3> QED
      BY <3>1, <3>2, <3>3
  <2> QED
    BY <2>1, <2>2 DEF Apart
<1>8. Progress'
  <2> SUFFICES ASSUME NEW d \in Clients, Writing(d)', On(d)' \notin overlapped'
               PROVE  /\ req'[d].step = "fill" => tmp'[On(d)'] = Torn
                      /\ req'[d].step = "rename" => tmp'[On(d)'] = req'[d].doc
                      /\ req'[d].step = "insert" => file'[On(d)'] = req'[d].doc
    BY DEF Progress
  <2>1. CASE d = c
    <3>1. req'[c].step = "truncate"
      BY <1>3, <2>1 DEF Writing, Deleting, Idle
    <3> QED
      BY <2>1, <3>1
  <2>2. CASE d # c
    BY <1>0, <1>1, <1>2, <2>2 DEF DiskInv, Progress
  <2> QED
    BY <2>1, <2>2
<1>9. FilesAreWhole'
  BY <1>0 DEF DiskInv, FilesAreWhole
<1> QED
  BY <1>6, <1>7, <1>8, <1>9 DEF DiskInv

-----------------------------------------------------------------------------
(* One lemma per kind of step *)

(* The steps of a write before it returns preserve DiskInv. *)
LEMMA WriteStepsInv ==
    ASSUME MarksAreApart, DiskInv, NEW c \in Clients,
           WriteOpens(c) \/ WriteFills(c) \/ WriteRenames(c)
    PROVE  DiskInv'
<1> DEFINE s == On(c)
<1>1. /\ Writing(c) /\ req[c] # Idle /\ Slug[req[c].doc.name] = s
      /\ s \in Files /\ Named(req[c].doc, s) /\ req[c].doc # Torn
  <2>1. req[c].step \in {"truncate", "fill", "rename"}
    BY DEF WriteOpens, WriteFills, WriteRenames
  <2>2. Writing(c)
    BY <2>1 DEF DiskInv, Tables, Deleting, Idle
  <2> QED
    BY <2>2, Kinds, SlugFacts DEF Writing, On, Named, MarksAreApart
<1>2. /\ DOMAIN file = Files /\ DOMAIN tmp = Files /\ DOMAIN session = Names
      /\ Content(file[s], s) /\ Content(tmp[s], s) /\ Content(Torn, s) /\ Content(NoFile, s)
      /\ Content(req[c].doc, s)
      /\ s \notin overlapped => file[s] # Torn
      /\ \A n \in Names : session[n] # NoSession => Named(session[n].campaign, Slug[n])
  BY <1>1 DEF DiskInv, Tables, FilesAreWhole, Content
<1>3. Torn # NoFile
  BY CampaignAssumption
<1> HIDE DEF s
<1>4. CASE WriteOpens(c)
  <2>1. /\ tmp' = [tmp EXCEPT ![s] = Torn] /\ GoesOn(c, "fill")
        /\ UNCHANGED <<file, session, lock, overlapped>>
    BY <1>1, <1>4 DEF WriteOpens, GoesOn
  <2>2. /\ DOMAIN req' = Clients /\ Writing(c)' /\ On(c)' = On(c) /\ req'[c].what = req[c].what
        /\ req'[c].step = "fill" /\ \A d \in Clients \ {c} : req'[d] = req[d]
    BY <1>1, <2>1, GoesOnFacts DEF DiskInv, On
  <2>3. /\ DOMAIN tmp' = Files /\ tmp'[s] = Torn /\ \A f \in Files \ {s} : tmp'[f] = tmp[f]
    BY <1>1, <1>2, <2>1
  <2> QED
    BY <1>1, <1>2, <2>1, <2>2, <2>3, OneWorks DEF s
<1>5. CASE WriteFills(c)
  <2>1. /\ \/ tmp[s] # NoFile /\ tmp' = [tmp EXCEPT ![s] = req[c].doc] /\ file' = file
           \/ tmp[s] = NoFile /\ tmp' = tmp /\ file' \in {file, [file EXCEPT ![s] = req[c].doc]}
        /\ GoesOn(c, "rename") /\ req[c].step = "fill"
        /\ UNCHANGED <<session, lock, overlapped>>
    BY <1>1, <1>5 DEF WriteFills, GoesOn
  <2>2. /\ DOMAIN req' = Clients /\ Writing(c)' /\ On(c)' = On(c) /\ req'[c].what = req[c].what
        /\ req'[c].step = "rename" /\ req'[c].doc = req[c].doc
        /\ \A d \in Clients \ {c} : req'[d] = req[d]
    BY <1>1, <2>1, GoesOnFacts DEF DiskInv, On
  <2>3. s \notin overlapped => tmp[s] # NoFile
    BY <1>1, <1>3, <2>1 DEF DiskInv, Progress, s
  <2>4. /\ DOMAIN tmp' = Files /\ DOMAIN file' = Files
        /\ tmp'[s] \in {tmp[s], req[c].doc} /\ file'[s] \in {file[s], req[c].doc}
        /\ s \notin overlapped => tmp'[s] = req[c].doc
        /\ \A f \in Files \ {s} : tmp'[f] = tmp[f] /\ file'[f] = file[f]
    BY <1>1, <1>2, <2>1, <2>3
  <2>5. /\ Content(file'[s], s) /\ Content(tmp'[s], s)
        /\ s \notin overlapped => file'[s] # Torn
    BY <1>1, <1>2, <2>4
  <2> QED
    BY <1>1, <1>2, <2>1, <2>2, <2>4, <2>5, OneWorks DEF s
<1>6. CASE WriteRenames(c)
  <2>1. /\ file' = [file EXCEPT ![s] = tmp[s]] /\ tmp' = [tmp EXCEPT ![s] = NoFile]
        /\ req[c].step = "rename"
        /\ UNCHANGED <<session, overlapped>>
    BY <1>1, <1>6 DEF WriteRenames
  <2>2. s \notin overlapped => tmp[s] = req[c].doc
    BY <1>1, <2>1 DEF DiskInv, Progress, s
  <2>3. /\ DOMAIN tmp' = Files /\ DOMAIN file' = Files
        /\ file'[s] = tmp[s] /\ tmp'[s] = NoFile
        /\ \A f \in Files \ {s} : tmp'[f] = tmp[f] /\ file'[f] = file[f]
    BY <1>1, <1>2, <2>1
  <2>4. /\ Content(file'[s], s) /\ Content(tmp'[s], s)
        /\ s \notin overlapped => file'[s] # Torn
    BY <1>1, <1>2, <2>2, <2>3
  <2>5. CASE req[c].what = "save"
    <3>1. req' = [req EXCEPT ![c] = Idle] /\ lock' = IF lock = c THEN NoClient ELSE lock
      BY <1>6, <2>5 DEF WriteRenames, Done
    <3>2. DOMAIN req' = Clients /\ req'[c] = Idle /\ \A d \in Clients \ {c} : req'[d] = req[d]
      BY <3>1 DEF DiskInv, Tables
    <3> QED
      BY <1>1, <1>2, <2>1, <2>3, <2>4, <3>1, <3>2, OneWorks DEF s
  <2>6. CASE req[c].what # "save"
    <3>1. GoesOn(c, "insert") /\ lock' = lock
      BY <1>1, <1>6, <2>6 DEF WriteRenames, GoesOn, Writing
    <3>2. /\ DOMAIN req' = Clients /\ Writing(c)' /\ On(c)' = On(c) /\ req'[c].what = req[c].what
          /\ req'[c].step = "insert" /\ req'[c].doc = req[c].doc
          /\ \A d \in Clients \ {c} : req'[d] = req[d]
      BY <1>1, <3>1, GoesOnFacts DEF DiskInv, On
    <3> QED
      BY <1>1, <1>2, <2>1, <2>2, <2>3, <2>4, <3>1, <3>2, OneWorks DEF s
  <2> QED
    BY <2>5, <2>6
<1> QED
  BY <1>4, <1>5, <1>6

(* So do the steps that end a request: a failed write, a finished create, an unlink. *)
LEMMA RequestEndsInv ==
    ASSUME MarksAreApart, DiskInv, NEW c \in Clients,
           WriteFails(c) \/ CreateInserts(c) \/ DeleteUnlinks(c)
    PROVE  DiskInv'
<1> DEFINE s == On(c)
<1>1. /\ req[c] # Idle /\ s \in Files /\ overlapped' = overlapped
      /\ (WriteFails(c) \/ CreateInserts(c)) => Writing(c)
      /\ DeleteUnlinks(c) => s = Slug[req[c].name]
  <2>1. /\ req[c].step \in {"truncate", "rename", "insert", "unlink"} /\ req[c] # Idle
        /\ (WriteFails(c) \/ CreateInserts(c)) => req[c].step # "unlink"
    BY DEF WriteFails, CreateInserts, DeleteUnlinks, Idle
  <2>2. Writing(c) \/ Deleting(c)
    BY <2>1 DEF DiskInv, Tables
  <2>3. s \in Files
    BY <2>2, SlugFacts DEF Writing, Deleting, On
  <2>4. (WriteFails(c) \/ CreateInserts(c)) => Writing(c)
    BY <2>1, <2>2 DEF Deleting
  <2>5. DeleteUnlinks(c) => s = Slug[req[c].name]
    BY DEF On
  <2>6. overlapped' = overlapped
    BY DEF WriteFails, CreateInserts, DeleteUnlinks
  <2> QED
    BY <2>1, <2>3, <2>4, <2>5, <2>6
<1>2. /\ DOMAIN file = Files /\ DOMAIN tmp = Files /\ DOMAIN session = Names
      /\ Content(file[s], s) /\ Content(tmp[s], s) /\ Content(NoFile, s)
      /\ s \notin overlapped => file[s] # Torn
      /\ \A n \in Names : session[n] # NoSession => Named(session[n].campaign, Slug[n])
  BY <1>1 DEF DiskInv, Tables, FilesAreWhole, Content
<1>3. req' = [req EXCEPT ![c] = Idle]
  BY DEF WriteFails, Done, CreateInserts, DeleteUnlinks
<1>4. DOMAIN req' = Clients /\ req'[c] = Idle /\ \A d \in Clients \ {c} : req'[d] = req[d]
  BY <1>3 DEF DiskInv, Tables
<1> HIDE DEF s
<1>5. CASE WriteFails(c)
  <2>1. UNCHANGED <<file, tmp, session>> /\ lock' = IF lock = c THEN NoClient ELSE lock
    BY <1>5 DEF WriteFails, Done
  <2> QED
    BY <1>1, <1>2, <1>4, <2>1, OneWorks DEF s
<1>6. CASE CreateInserts(c)
  <2>1. /\ UNCHANGED <<file, tmp, lock>>
        /\ session' = [session EXCEPT ![req[c].name] = NewSession(req[c].doc)]
    BY <1>6 DEF CreateInserts
  <2>2. Named(req[c].doc, Slug[req[c].name]) /\ NewSession(req[c].doc).campaign = req[c].doc
    BY <1>1, <1>6 DEF Writing, NewSession
  <2>3. DOMAIN session' = Names
        /\ \A n \in Names : session'[n] # NoSession => Named(session'[n].campaign, Slug[n])
    BY <1>2, <2>1, <2>2
  <2> QED
    BY <1>1, <1>2, <1>4, <2>1, <2>3, OneWorks DEF s
<1>7. CASE DeleteUnlinks(c)
  <2>1. /\ file' = [file EXCEPT ![s] = NoFile]
        /\ UNCHANGED <<tmp, session, lock>>
    BY <1>1, <1>7 DEF DeleteUnlinks
  <2>2. DOMAIN file' = Files /\ file'[s] = NoFile /\ \A f \in Files \ {s} : file'[f] = file[f]
    BY <1>1, <1>2, <2>1
  <2> QED
    BY <1>1, <1>2, <1>4, <2>1, <2>2, CampaignAssumption, OneWorks DEF s
<1> QED
  BY <1>5, <1>6, <1>7

(* Beginning a create preserves DiskInv. *)
LEMMA CreateInv ==
    ASSUME DiskInv, NEW c \in Clients, NEW n \in Names, CreateCampaign(c, n)
    PROVE  DiskInv'
<1> DEFINE r == [step |-> "truncate", what |-> "create", name |-> n, doc |-> NewCampaign(n, ids)]
<1>1. /\ Begins(c, n, AnyRequest) /\ req' = [req EXCEPT ![c] = r]
      /\ UNCHANGED <<file, tmp, session, lock>>
  BY DEF CreateCampaign
<1>2. req'[c] = r
  BY <1>1 DEF DiskInv, Tables
<1>3. Writing(c)' /\ req'[c].step = "truncate" /\ req'[c].name = n /\ ~Saving(c)'
  BY <1>2 DEF Writing, Saving, Named, NewCampaign
<1> HIDE DEF r
<1> QED
  BY <1>1, <1>3, OneBegins DEF DiskInv, Tables

(* Beginning a delete preserves DiskInv. *)
LEMMA DeleteInv ==
    ASSUME DiskInv, NEW c \in Clients, NEW n \in Names, DeleteCampaign(c, n)
    PROVE  DiskInv'
<1> DEFINE r == [step |-> "unlink", what |-> "delete", name |-> n]
<1>1. /\ Begins(c, n, AnyRequest) /\ req' = [req EXCEPT ![c] = r]
      /\ UNCHANGED <<file, tmp, lock>> /\ session' = [session EXCEPT ![n] = NoSession]
  BY DEF DeleteCampaign
<1>2. req'[c] = r
  BY <1>1 DEF DiskInv, Tables
<1>3. Deleting(c)' /\ req'[c].name = n /\ ~Saving(c)'
  BY <1>2, Kinds DEF Deleting, Saving, Writing
<1>4. DOMAIN session' = Names
      /\ \A m \in Names : session'[m] # NoSession => Named(session'[m].campaign, Slug[m])
  BY <1>1 DEF DiskInv, Tables
<1> HIDE DEF r
<1> QED
  BY <1>1, <1>3, <1>4, OneBegins

(* Loading a campaign preserves DiskInv: what it reads was written under its own name. *)
LEMMA LoadInv ==
    ASSUME DiskInv, NEW c \in Clients, NEW n \in Names, LoadCampaign(c, n)
    PROVE  DiskInv'
<1>1. /\ Begins(c, n, Unlocked) /\ lock = NoClient /\ Whole(file[Slug[n]])
      /\ UNCHANGED <<file, tmp, lock, req>>
      /\ session' = [session EXCEPT ![n] = NewSession(file[Slug[n]])]
  BY DEF LoadCampaign
<1>2. Named(file[Slug[n]], Slug[n])
  BY <1>1, SlugFacts DEF DiskInv, Tables, Content, Whole
<1>3. DOMAIN session' = Names
      /\ \A m \in Names : session'[m] # NoSession => Named(session'[m].campaign, Slug[m])
  BY <1>1, <1>2 DEF DiskInv, Tables, NewSession
<1> QED
  BY <1>1, <1>3, OneBegins

(* Editing a campaign and beginning to save it preserves DiskInv. *)
LEMMA EditsInv ==
    ASSUME DiskInv, NEW c \in Clients, NEW n \in Names, MutatesCampaign(c, n)
    PROVE  DiskInv'
<1>1. PICK o : Mutates(c, n, o) /\ Faithful(o, session[n].campaign)
  BY DEF MutatesCampaign
<1>2. /\ Begins(c, n, Unlocked) /\ lock = NoClient /\ session[n] # NoSession
  BY DEF MutatesCampaign, CanMutate
<1>3. Named(o.doc, Slug[n])
  BY <1>1, <1>2 DEF DiskInv, Tables, Faithful, Named
<1>4. /\ UNCHANGED <<file, tmp>>
      /\ session' = [session EXCEPT ![n] = [campaign |-> o.doc, history |-> o.history]]
  BY <1>1 DEF Mutates
<1>5. DOMAIN session' = Names
      /\ \A m \in Names : session'[m] # NoSession => Named(session'[m].campaign, Slug[m])
  BY <1>3, <1>4 DEF DiskInv, Tables
<1>6. CASE ~o.ok
  BY <1>1, <1>2, <1>4, <1>5, <1>6, OneBegins DEF Mutates
<1>7. CASE o.ok
  <2> DEFINE r == [step |-> "truncate", what |-> "save", name |-> n, doc |-> o.doc]
  <2>1. lock' = c /\ req' = [req EXCEPT ![c] = r]
    BY <1>1, <1>7 DEF Mutates
  <2>2. req'[c] = r
    BY <2>1 DEF DiskInv, Tables
  <2>3. Writing(c)' /\ req'[c].step = "truncate" /\ req'[c].name = n /\ Saving(c)'
    BY <1>3, <2>2 DEF Writing, Saving, Named
  <2> HIDE DEF r
  <2> QED
    BY <1>2, <1>4, <1>5, <2>1, <2>3, OneBegins
<1> QED
  BY <1>6, <1>7

(* A stop of the server, which loses requests and sessions, preserves DiskInv. *)
LEMMA StopsInv == ASSUME DiskInv, ServerStops PROVE DiskInv'
<1>1. /\ UNCHANGED <<file, tmp, overlapped>>
      /\ session' = [n \in Names |-> NoSession] /\ req' = [c \in Clients |-> Idle]
  BY DEF ServerStops
<1>2. \A c \in Clients : ~Writing(c)' /\ ~Saving(c)' /\ req'[c] = Idle
  BY <1>1 DEF Writing, Saving, Idle
<1> QED
  BY <1>1, <1>2 DEF DiskInv, Tables, Apart, Progress, FilesAreWhole, Content, Named

(* DiskInv holds initially. *)
LEMMA DiskInitInv == MarksAreApart /\ CampaignInit => DiskInv
<1> SUFFICES ASSUME MarksAreApart, CampaignInit PROVE DiskInv
  OBVIOUS
<1>1. PICK kept \in SUBSET Names :
        file = [s \in Range(Slug) |->
                  IF \E n \in kept : Slug[n] = s
                    THEN EarlierCampaign(CHOOSE n \in kept : Slug[n] = s)
                    ELSE NoFile]
  BY DEF CampaignInit
<1>2. \A n \in Names : Named(EarlierCampaign(n), Slug[n])
  BY DEF EarlierCampaign, NewCampaign, Named
<1>3. \A s \in Files : file[s] = NoFile \/ Named(file[s], s)
  <2> SUFFICES ASSUME NEW s \in Files, NEW n \in kept, Slug[n] = s PROVE Named(file[s], s)
    BY <1>1 DEF Files
  <2>1. PICK m \in kept : Slug[m] = s /\ file[s] = EarlierCampaign(m)
    BY <1>1 DEF Files
  <2> QED
    BY <1>2, <2>1
<1>4. \A c \in Clients : req[c] = Idle /\ ~Writing(c)
  BY DEF CampaignInit, Writing, Idle
<1>5. DOMAIN file = Files /\ \A s \in Files : file[s] # Torn
  BY <1>1, <1>3, CampaignAssumption DEF Files, Named, MarksAreApart
<1> QED
  BY <1>3, <1>4, <1>5 DEF CampaignInit, DiskInv, Tables, Apart, Progress, FilesAreWhole, Content, Files, Saving

\* The invariant of the server and its disk.
THEOREM DiskInvariant == ASSUME MarksAreApart PROVE CampaignSpec => []DiskInv
<1>1. DiskInv /\ [CampaignNext]_campaignVars => DiskInv'
  <2> SUFFICES ASSUME DiskInv, [CampaignNext]_campaignVars PROVE DiskInv'
    OBVIOUS
  <2>1. ASSUME NEW c \in Clients, NEW n \in Names,
               \/ HandleAddGraph(c, n) \/ HandleAddCondition(c, n)
               \/ HandleAddNode(c, n) \/ HandleRemoveNode(c, n)
               \/ \E type \in NodeTypes : HandleUpdateNode(c, n, type)
               \/ HandleAddEdge(c, n) \/ HandleRemoveEdge(c, n)
               \/ HandleUndo(c, n) \/ HandleRedo(c, n)
        PROVE  DiskInv'
    <3>1. session[n] # NoSession
      BY <2>1 DEF HandleAddGraph, HandleAddCondition, HandleAddNode, HandleRemoveNode, HandleUpdateNode,
                  HandleAddEdge, HandleRemoveEdge, HandleUndo, HandleRedo, Adds, FromGraph, CanMutate
    <3>2. "name" \in DOMAIN session[n].campaign
      BY <3>1 DEF DiskInv, Tables, Named
    <3> QED
      BY <2>1, <3>2, HandlersEdit, EditsInv
  <2>2. CASE UNCHANGED campaignVars
    BY <2>2 DEF campaignVars, DiskInv, Tables, Apart, Progress, FilesAreWhole, Content, Named,
                Writing, Deleting, Saving, On
  <2> QED
    BY <2>1, <2>2, WriteStepsInv, RequestEndsInv, CreateInv, DeleteInv, LoadInv, StopsInv DEF CampaignNext
<1> QED
  BY <1>1, DiskInitInv, PTL DEF CampaignSpec

\* No campaign is ever found half written, as long as no create or delete meets another
\* request on it: a write goes to the temporary file and a rename puts it in place, and the
\* server may stop between any two of these (campaign_store.rs `atomic_write`).
THEOREM CampaignsAreWhole == ASSUME MarksAreApart PROVE CampaignSpec => []FilesAreWhole
<1>1. DiskInv => FilesAreWhole
  BY DEF DiskInv
<1> QED
  BY <1>1, DiskInvariant, PTL

-----------------------------------------------------------------------------
(* Sessions and their files *)

\* Two names have two files.
SlugsDiffer == \A m, n \in Names : Slug[m] = Slug[n] => m = n

\* What holds of a name while no two requests have met on its file: at rest the session is
\* what the file says, a save writes the session's campaign, and a create or a delete found
\* no session that a later read could take for the file's.
InStep(n) ==
    Slug[n] \notin overlapped =>
        /\ (\A c \in Clients : req[c] # Idle => On(c) # Slug[n])
             /\ session[n] # NoSession /\ n \notin unsaved
             => file[Slug[n]] = session[n].campaign
        /\ \A c \in Clients : Saving(c) /\ On(c) = Slug[n] =>
             session[n] # NoSession /\ req[c].doc = session[n].campaign
        /\ \A c \in Clients : req[c] # Idle /\ ~Saving(c) /\ On(c) = Slug[n] =>
             session[n] = NoSession \/ n \in unsaved

AgreeInv == \A n \in Names : InStep(n)

-----------------------------------------------------------------------------

\* A request that writes or deletes moves the files of its own name only.
LEMMA RequestNames ==
    ASSUME DiskInv, SlugsDiffer, NEW c \in Clients, req[c] # Idle
    PROVE  /\ Writing(c) \/ Deleting(c)
           /\ req[c].name \in Names
           /\ \A n \in Names : On(c) = Slug[n] => req[c].name = n
<1>1. Writing(c) \/ Deleting(c)
  BY DEF DiskInv, Tables
<1>2. req[c].name \in Names
  BY <1>1 DEF Writing, Deleting
<1> QED
  BY <1>1, <1>2 DEF SlugsDiffer, On

\* A step of the write of a request: opening, filling, renaming.
LEMMA WritesAgree ==
    ASSUME DiskInv, AgreeInv, SlugsDiffer, NEW c \in Clients, NEW n \in Names,
           WriteOpens(c) \/ WriteFills(c) \/ WriteRenames(c)
    PROVE  InStep(n)'
<1> DEFINE s == Slug[n]
<1>1. /\ req[c] # Idle /\ Writing(c) /\ Slug[req[c].doc.name] = On(c)
      /\ session' = session /\ overlapped' = overlapped
  <2>1. req[c].step \in {"truncate", "fill", "rename"}
    BY DEF WriteOpens, WriteFills, WriteRenames
  <2>2. req[c] # Idle
    BY <2>1 DEF Idle
  <2>3. Writing(c)
    <3>1. Deleting(c) => req[c].step = "unlink"
      BY DEF Deleting
    <3> QED
      BY <2>1, <2>2, <3>1, RequestNames
  <2>4. session' = session /\ overlapped' = overlapped
    BY DEF WriteOpens, WriteFills, WriteRenames
  <2> QED
    BY <2>2, <2>3, <2>4, Kinds
<1>2. DOMAIN req = Clients /\ DOMAIN file = Files /\ s \in Files
  BY SlugFacts DEF DiskInv, Tables
<1>3. \A d \in Clients \ {c} : req'[d] = req[d]
  BY <1>2 DEF WriteOpens, WriteFills, WriteRenames, Done
<1>4. \A d \in Clients \ {c} : (Saving(d)' <=> Saving(d)) /\ On(d)' = On(d)
  BY <1>3 DEF Saving, Writing, On
<1>5. CASE On(c) # s
  <2>1. file'[s] = file[s]
    BY <1>1, <1>2, <1>5 DEF WriteOpens, WriteFills, WriteRenames
  <2>2. req'[c] # Idle => On(c)' # s
    <3>1. CASE WriteRenames(c) /\ req[c].what = "save"
      BY <1>2, <3>1 DEF WriteRenames, Done
    <3>2. CASE ~(WriteRenames(c) /\ req[c].what = "save")
      <4>1. PICK step : GoesOn(c, step)
        BY <1>1, <3>2 DEF WriteOpens, WriteFills, WriteRenames, GoesOn, Writing
      <4> QED
        BY <1>1, <1>5, <4>1, GoesOnFacts DEF DiskInv, On
    <3> QED
      BY <3>1, <3>2
  <2>3. n \in unsaved' <=> n \in unsaved
    <3>1. req[c].name # n
      BY <1>5 DEF On
    <3> QED
      BY <3>1 DEF WriteOpens, WriteFills, WriteRenames, Done
  <2>4. Saving(c)' => req'[c] # Idle
    BY Kinds DEF Saving, Writing, Idle
  <2> QED
    BY <1>1, <1>3, <1>4, <1>5, <2>1, <2>2, <2>3, <2>4 DEF AgreeInv, InStep
<1>6. CASE On(c) = s
  <2>0. SUFFICES ASSUME s \notin overlapped PROVE InStep(n)'
    BY <1>1 DEF InStep
  <2>1. req[c].name = n /\ \A d \in Clients \ {c} : req[d] # Idle => On(d) # s
    BY <1>1, <1>6, <2>0, RequestNames DEF DiskInv, Apart
  <2>2. \A d \in Clients \ {c} : req'[d] # Idle => On(d)' # s
    BY <1>3, <1>4, <2>1
  <2>3. CASE WriteRenames(c) /\ req[c].what = "save"
    <3>1. req' = [req EXCEPT ![c] = Idle] /\ unsaved' = unsaved \ {n}
      BY <2>1, <2>3 DEF WriteRenames, Done
    <3>2. req'[c] = Idle /\ ~Saving(c)'
      BY <1>2, <3>1 DEF Saving, Writing, Idle
    <3>3. Saving(c) /\ session[n] # NoSession /\ req[c].doc = session[n].campaign
      BY <1>1, <1>6, <2>0, <2>3 DEF Saving, AgreeInv, InStep
    <3>4. file'[s] = req[c].doc
      BY <1>1, <1>2, <1>6, <2>0, <2>3 DEF WriteRenames, DiskInv, Progress
    <3>5. \A d \in Clients : req'[d] # Idle => On(d)' # s
      BY <2>2, <3>2
    <3>6. \A d \in Clients : Saving(d)' => req'[d] # Idle
      BY DEF Saving, Writing, Idle
    <3> QED
      BY <1>1, <3>3, <3>4, <3>5, <3>6 DEF InStep
  <2>4. CASE ~(WriteRenames(c) /\ req[c].what = "save")
    <3>1. PICK step : GoesOn(c, step)
      BY <1>1, <2>4 DEF WriteOpens, WriteFills, WriteRenames, GoesOn, Writing
    <3>2. /\ Writing(c)' /\ req'[c].doc = req[c].doc /\ req'[c].what = req[c].what /\ On(c)' = s
          /\ unsaved' = unsaved
      BY <1>1, <1>6, <2>4, <3>1, GoesOnFacts DEF DiskInv, On, WriteOpens, WriteFills, WriteRenames
    <3>3. (Saving(c)' <=> Saving(c)) /\ req'[c] # Idle
      BY <1>1, <3>2 DEF Saving, Writing, Idle
    <3>4. /\ Saving(c) => session[n] # NoSession /\ req[c].doc = session[n].campaign
          /\ ~Saving(c) => session[n] = NoSession \/ n \in unsaved
      BY <1>1, <1>6, <2>0 DEF AgreeInv, InStep
    <3>5. \A d \in Clients \ {c} : Saving(d)' => req'[d] # Idle
      BY DEF Saving, Writing, Idle
    <3> QED
      BY <1>1, <2>2, <3>2, <3>3, <3>4, <3>5 DEF InStep
  <2> QED
    BY <2>3, <2>4
<1> QED
  BY <1>5, <1>6
\* A request ends: a write that failed, a create that inserts, a delete that unlinks.
LEMMA EndsAgree ==
    ASSUME DiskInv, AgreeInv, SlugsDiffer, NEW c \in Clients, NEW n \in Names,
           WriteFails(c) \/ CreateInserts(c) \/ DeleteUnlinks(c)
    PROVE  InStep(n)'
<1> DEFINE s == Slug[n]
<1>1. req[c] # Idle /\ overlapped' = overlapped /\ req' = [req EXCEPT ![c] = Idle]
  BY DEF WriteFails, CreateInserts, DeleteUnlinks, Done, Idle
<1>2. DOMAIN req = Clients /\ DOMAIN file = Files /\ DOMAIN session = Names /\ s \in Files
  BY SlugFacts DEF DiskInv, Tables
<1>3. req'[c] = Idle /\ ~Saving(c)' /\ \A d \in Clients \ {c} : req'[d] = req[d]
  BY <1>1, <1>2 DEF Saving, Writing, Idle
<1>4. \A d \in Clients \ {c} : (Saving(d)' <=> Saving(d)) /\ On(d)' = On(d)
  BY <1>3 DEF Saving, Writing, On
<1>5. req[c].name \in Names /\ (On(c) = s => req[c].name = n)
  BY <1>1, RequestNames
<1>6. CASE On(c) # s
  <2>1. req[c].name # n
    BY <1>6 DEF On
  <2>2. file'[s] = file[s] /\ session'[n] = session[n] /\ (n \in unsaved' <=> n \in unsaved)
    BY <1>2, <1>5, <1>6, <2>1 DEF WriteFails, CreateInserts, DeleteUnlinks, Done, On
  <2> QED
    BY <1>1, <1>3, <1>4, <1>6, <2>2 DEF AgreeInv, InStep
<1>7. CASE On(c) = s
  <2>0. SUFFICES ASSUME s \notin overlapped PROVE InStep(n)'
    BY <1>1 DEF InStep
  <2>1. \A d \in Clients \ {c} : req[d] # Idle => On(d) # s
    BY <1>1, <1>7, <2>0 DEF DiskInv, Apart
  <2>2. \A d \in Clients : req'[d] # Idle => On(d)' # s
    BY <1>3, <1>4, <2>1
  <2>3. \A d \in Clients : Saving(d)' => req'[d] # Idle
    BY DEF Saving, Writing, Idle
  <2>4. SUFFICES ASSUME session'[n] # NoSession, n \notin unsaved'
                 PROVE  file'[s] = session'[n].campaign
    BY <2>2, <2>3 DEF InStep
  <2>5. req[c].name = n /\ (Writing(c) \/ Deleting(c))
    BY <1>1, <1>5, <1>7, RequestNames
  <2>6. CASE WriteFails(c)
    <3>1. req[c].what # "save" /\ session' = session /\ unsaved' = unsaved
      BY <2>4, <2>5, <2>6 DEF WriteFails
    <3>2. ~Saving(c)
      BY <3>1 DEF Saving
    <3> QED
      BY <1>1, <1>7, <2>0, <2>4, <3>1, <3>2 DEF AgreeInv, InStep
  <2>7. CASE CreateInserts(c)
    <3>1. req[c].step = "insert" /\ session'[n] = NewSession(req[c].doc) /\ file' = file
      BY <1>2, <2>5, <2>7 DEF CreateInserts
    <3>2. Writing(c)
      BY <2>5, <3>1 DEF Deleting
    <3>3. file[s] = req[c].doc
      BY <1>7, <2>0, <3>1, <3>2 DEF DiskInv, Progress
    <3> QED
      BY <3>1, <3>3 DEF NewSession
  <2>8. CASE DeleteUnlinks(c)
    <3>1. req[c].step = "unlink" /\ session' = session /\ unsaved' = unsaved
      BY <2>8 DEF DeleteUnlinks
    <3>2. ~Saving(c)
      BY <3>1 DEF Saving, Writing
    <3> QED
      BY <1>1, <1>7, <2>0, <2>4, <3>1, <3>2 DEF AgreeInv, InStep
  <2> QED
    BY <2>6, <2>7, <2>8
<1> QED
  BY <1>6, <1>7

\* A request begins on name m while no other is at work on its file, or the meeting is noticed.
LEMMA BeginsAlone ==
    ASSUME DiskInv, NEW c, NEW m \in Names, NEW kinds, Begins(c, m, kinds),
           kinds = AnyRequest \/ (kinds = Unlocked /\ lock = NoClient),
           Slug[m] \notin overlapped'
    PROVE  /\ Slug[m] \notin overlapped
           /\ \A d \in Clients : req[d] # Idle => On(d) # Slug[m]
<1>1. Slug[m] \notin overlapped /\ ~BusyOn(Slug[m], kinds)
  BY DEF Begins
<1>2. ASSUME NEW d \in Clients, req[d] # Idle, On(d) = Slug[m] PROVE FALSE
  <2>1. Writing(d) \/ Deleting(d)
    BY <1>2 DEF DiskInv, Tables
  <2>2. Saving(d) => lock # NoClient
    BY CampaignAssumption DEF DiskInv, Apart
  <2>3. req[d].what \in AnyRequest /\ (req[d].what \in Unlocked \/ Saving(d))
    BY <2>1 DEF Writing, Deleting, Saving, AnyRequest, Unlocked
  <2> QED
    BY <1>1, <1>2, <2>2, <2>3 DEF BusyOn, On
<1> QED
  BY <1>1, <1>2

\* A request begins: the rest of the lemma says what it may do to the session of its name.
LEMMA BeginsAgree ==
    ASSUME DiskInv, AgreeInv, SlugsDiffer, NEW c \in Clients, NEW m \in Names, NEW kinds,
           Begins(c, m, kinds), kinds = AnyRequest \/ (kinds = Unlocked /\ lock = NoClient),
           file' = file, \A k \in Names \ {m} : session'[k] = session[k],
           \A k \in Names \ {m} : k \in unsaved' <=> k \in unsaved,
           \A d \in Clients \ {c} : req'[d] = req[d],
           req'[c] = Idle \/ On(c)' = Slug[m],
           Slug[m] \notin overlapped' =>
             /\ req'[c] = Idle /\ session'[m] # NoSession /\ m \notin unsaved'
                  => file[Slug[m]] = session'[m].campaign
             /\ Saving(c)' => session'[m] # NoSession /\ req'[c].doc = session'[m].campaign
             /\ req'[c] # Idle /\ ~Saving(c)' => session'[m] = NoSession \/ m \in unsaved',
           NEW n \in Names
    PROVE  InStep(n)'
<1>0. overlapped \subseteq overlapped' /\ req[c] = Idle
  BY DEF Begins
<1>1. \A d \in Clients \ {c} : (Saving(d)' <=> Saving(d)) /\ On(d)' = On(d)
  BY DEF Saving, Writing, On
<1>2. \A d \in Clients : Saving(d)' => req'[d] # Idle
  BY DEF Saving, Writing, Idle
<1>3. CASE n # m
  <2>1. Slug[n] # Slug[m]
    BY <1>3 DEF SlugsDiffer
  <2>2. req'[c] # Idle => On(c)' # Slug[n]
    BY <2>1
  <2>3. session'[n] = session[n] /\ (n \in unsaved' <=> n \in unsaved)
    BY <1>3
  <2> QED
    BY <1>0, <1>1, <1>2, <2>2, <2>3 DEF AgreeInv, InStep
<1>4. CASE n = m
  <2>0. SUFFICES ASSUME Slug[m] \notin overlapped' PROVE InStep(m)'
    BY <1>4 DEF InStep
  <2>1. \A d \in Clients \ {c} : req'[d] # Idle => On(d)' # Slug[m]
    BY <1>1, <2>0, BeginsAlone
  <2> QED
    BY <1>2, <2>0, <2>1 DEF InStep
<1> QED
  BY <1>3, <1>4
(* Beginning a create leaves the sessions in step with their files. *)
LEMMA CreateAgrees ==
    ASSUME MarksAreApart, DiskInv, AgreeInv, SlugsDiffer, NEW c \in Clients, NEW m \in Names,
           CreateCampaign(c, m), NEW n \in Names
    PROVE  InStep(n)'
<1> DEFINE r == [step |-> "truncate", what |-> "create", name |-> m, doc |-> NewCampaign(m, ids)]
<1>1. /\ Begins(c, m, AnyRequest) /\ req' = [req EXCEPT ![c] = r]
      /\ UNCHANGED <<file, session, unsaved>> /\ file[Slug[m]] = NoFile
  BY DEF CreateCampaign
<1>2. req'[c] = r /\ \A d \in Clients \ {c} : req'[d] = req[d]
  BY <1>1 DEF DiskInv, Tables
<1>3. On(c)' = Slug[m] /\ req'[c] # Idle /\ ~Saving(c)'
  BY <1>2 DEF On, Idle, Saving
<1>4. ASSUME Slug[m] \notin overlapped' PROVE session[m] = NoSession \/ m \in unsaved
  <2>1. Slug[m] \notin overlapped /\ \A d \in Clients : req[d] # Idle => On(d) # Slug[m]
    BY <1>1, <1>4, BeginsAlone
  <2>2. SUFFICES ASSUME session[m] # NoSession, m \notin unsaved PROVE FALSE
    OBVIOUS
  <2>3. NoFile = session[m].campaign
    BY <1>1, <2>1, <2>2 DEF AgreeInv, InStep
  <2>4. "name" \in DOMAIN session[m].campaign
    BY <2>2 DEF DiskInv, Tables, Named
  <2> QED
    BY <2>3, <2>4 DEF MarksAreApart
<1> HIDE DEF r
<1> QED
  BY <1>1, <1>2, <1>3, <1>4, BeginsAgree

(* So does beginning a delete. *)
LEMMA DeleteAgrees ==
    ASSUME DiskInv, AgreeInv, SlugsDiffer, NEW c \in Clients, NEW m \in Names,
           DeleteCampaign(c, m), NEW n \in Names
    PROVE  InStep(n)'
<1> DEFINE r == [step |-> "unlink", what |-> "delete", name |-> m]
<1>1. /\ Begins(c, m, AnyRequest) /\ req' = [req EXCEPT ![c] = r]
      /\ session' = [session EXCEPT ![m] = NoSession] /\ UNCHANGED <<file, unsaved>>
  BY DEF DeleteCampaign
<1>2. /\ req'[c] = r /\ \A d \in Clients \ {c} : req'[d] = req[d]
      /\ session'[m] = NoSession /\ \A k \in Names \ {m} : session'[k] = session[k]
  BY <1>1 DEF DiskInv, Tables
<1>3. On(c)' = Slug[m] /\ req'[c] # Idle /\ ~Saving(c)'
  BY <1>2 DEF On, Idle, Saving
<1> HIDE DEF r
<1> QED
  BY <1>1, <1>2, <1>3, BeginsAgree

(* So does a load, which reads the file into the session. *)
LEMMA LoadAgrees ==
    ASSUME DiskInv, AgreeInv, SlugsDiffer, NEW c \in Clients, NEW m \in Names,
           LoadCampaign(c, m), NEW n \in Names
    PROVE  InStep(n)'
<1>1. /\ Begins(c, m, Unlocked) /\ lock = NoClient /\ UNCHANGED <<file, req>>
      /\ session' = [session EXCEPT ![m] = NewSession(file[Slug[m]])] /\ unsaved' = unsaved \ {m}
  BY DEF LoadCampaign
<1>2. /\ session'[m].campaign = file[Slug[m]] /\ \A k \in Names \ {m} : session'[k] = session[k]
  BY <1>1 DEF DiskInv, Tables, NewSession
<1>3. req'[c] = Idle /\ ~Saving(c)'
  BY <1>1 DEF Begins, Saving, Writing, Idle
<1> QED
  BY <1>1, <1>2, <1>3, BeginsAgree

(* So does an edit: the session runs ahead of the file only while its save is underway. *)
LEMMA EditsAgree ==
    ASSUME MarksAreApart, DiskInv, AgreeInv, SlugsDiffer, NEW c \in Clients, NEW m \in Names,
           MutatesCampaign(c, m), NEW n \in Names
    PROVE  InStep(n)'
<1>1. PICK o : Mutates(c, m, o) /\ Faithful(o, session[m].campaign)
  BY DEF MutatesCampaign
<1>2. /\ Begins(c, m, Unlocked) /\ lock = NoClient /\ session[m] # NoSession
  BY DEF MutatesCampaign, CanMutate
<1>3. /\ file' = file /\ unsaved' = unsaved
      /\ session' = [session EXCEPT ![m] = [campaign |-> o.doc, history |-> o.history]]
  BY <1>1 DEF Mutates
<1>4. /\ session'[m].campaign = o.doc /\ \A k \in Names \ {m} : session'[k] = session[k]
      /\ session'[m] # NoSession
  <2>1. session'[m] = [campaign |-> o.doc, history |-> o.history]
        /\ \A k \in Names \ {m} : session'[k] = session[k]
    BY <1>3 DEF DiskInv, Tables
  <2>2. "campaign" \in DOMAIN [campaign |-> o.doc, history |-> o.history]
    OBVIOUS
  <2> QED
    BY <2>1, <2>2 DEF MarksAreApart
<1>5. CASE ~o.ok
  <2>1. req' = req /\ o.doc = session[m].campaign
    BY <1>1, <1>5 DEF Mutates, Faithful
  <2>2. req'[c] = Idle /\ ~Saving(c)'
    BY <1>2, <2>1 DEF Begins, Saving, Writing, Idle
  <2>3. Slug[m] \notin overlapped' /\ m \notin unsaved => file[Slug[m]] = session'[m].campaign
    BY <1>2, <1>4, <2>1, BeginsAlone DEF AgreeInv, InStep
  <2> QED
    BY <1>2, <1>3, <1>4, <2>1, <2>2, <2>3, BeginsAgree
<1>6. CASE o.ok
  <2> DEFINE r == [step |-> "truncate", what |-> "save", name |-> m, doc |-> o.doc]
  <2>1. req' = [req EXCEPT ![c] = r]
    BY <1>1, <1>6 DEF Mutates
  <2>2. req'[c] = r /\ \A d \in Clients \ {c} : req'[d] = req[d]
    BY <2>1 DEF DiskInv, Tables
  <2>3. Named(o.doc, Slug[m])
    BY <1>1, <1>2 DEF DiskInv, Tables, Faithful, Named
  <2>4. On(c)' = Slug[m] /\ req'[c] # Idle /\ Saving(c)' /\ req'[c].doc = o.doc
    BY <2>2, <2>3 DEF On, Idle, Saving, Writing, Named
  <2> HIDE DEF r
  <2> QED
    BY <1>2, <1>3, <1>4, <2>2, <2>4, BeginsAgree
<1> QED
  BY <1>1, <1>5, <1>6 DEF Faithful

(* AgreeInv holds initially. *)
LEMMA AgreeInitInv == CampaignInit => AgreeInv
BY DEF CampaignInit, AgreeInv, InStep, Saving, Writing, Idle

\* The invariant of the sessions and their files.
THEOREM AgreementInvariant ==
    ASSUME MarksAreApart, SlugsDiffer PROVE CampaignSpec => []AgreeInv
<1>1. DiskInv /\ AgreeInv /\ [CampaignNext]_campaignVars => AgreeInv'
  <2> SUFFICES ASSUME DiskInv, AgreeInv, [CampaignNext]_campaignVars, NEW n \in Names PROVE InStep(n)'
    BY DEF AgreeInv
  <2>1. ASSUME NEW c \in Clients, NEW m \in Names,
               \/ HandleAddGraph(c, m) \/ HandleAddCondition(c, m)
               \/ HandleAddNode(c, m) \/ HandleRemoveNode(c, m)
               \/ \E type \in NodeTypes : HandleUpdateNode(c, m, type)
               \/ HandleAddEdge(c, m) \/ HandleRemoveEdge(c, m)
               \/ HandleUndo(c, m) \/ HandleRedo(c, m)
        PROVE  InStep(n)'
    <3>1. session[m] # NoSession
      BY <2>1 DEF HandleAddGraph, HandleAddCondition, HandleAddNode, HandleRemoveNode, HandleUpdateNode,
                  HandleAddEdge, HandleRemoveEdge, HandleUndo, HandleRedo, Adds, FromGraph, CanMutate
    <3>2. MutatesCampaign(c, m)
      BY <2>1, <3>1, HandlersEdit DEF DiskInv, Tables, Named
    <3> QED
      BY <3>2, EditsAgree
  <2>2. CASE ServerStops
    BY <2>2 DEF ServerStops, AgreeInv, InStep, Saving, Writing, Idle
  <2>3. CASE UNCHANGED campaignVars
    BY <2>3 DEF campaignVars, AgreeInv, InStep, Saving, Writing, On
  <2> QED
    BY <2>1, <2>2, <2>3, WritesAgree, EndsAgree, CreateAgrees, DeleteAgrees, LoadAgrees DEF CampaignNext
<1> QED
  BY <1>1, AgreeInitInv, DiskInvariant, PTL DEF CampaignSpec

\* Whenever no request has the lock and none creates or deletes the campaign, a session whose
\* last save did not fail is what its file says, so that load, validate and compile answer the
\* same from either and a restart changes nothing (campaign_handlers.rs, `save_and_respond`).
THEOREM SessionsAreOnDisk ==
    ASSUME MarksAreApart, SlugsDiffer PROVE CampaignSpec => []SessionsAgreeWithFiles
<1>1. DiskInv /\ AgreeInv => SessionsAgreeWithFiles
  <2> SUFFICES ASSUME DiskInv, AgreeInv, NEW n \in Names, session[n] # NoSession, lock = NoClient,
                      n \notin unsaved, Slug[n] \notin overlapped, ~BusyOn(Slug[n], Unlocked)
               PROVE  file[Slug[n]] = session[n].campaign
    BY DEF SessionsAgreeWithFiles
  <2>1. ASSUME NEW c \in Clients, req[c] # Idle, On(c) = Slug[n] PROVE FALSE
    <3>1. ~Saving(c)
      BY CampaignAssumption DEF DiskInv, Apart
    <3>2. req[c].what \in Unlocked
      BY <2>1, <3>1 DEF DiskInv, Tables, Writing, Deleting, Saving, Unlocked
    <3> QED
      BY <2>1, <3>2 DEF BusyOn, On
  <2> QED
    BY <2>1 DEF AgreeInv, InStep
<1> QED
  BY <1>1, DiskInvariant, AgreementInvariant, PTL

-----------------------------------------------------------------------------
(***************************************************************************)
(* The undo and redo stacks of the editor's campaigns, for any clients,      *)
(* names, quests, limits and stops of the server: whatever sequence of edits, *)
(* undos and redos made a session, its whole history can be undone, done     *)
(* again with the same result, and everything undone can be redone.          *)
(*                                                                          *)
(* Undo may put an item at another place of its list, so what is compared is *)
(* the View of a campaign, what it holds wherever it stands.  A command takes *)
(* some items away and puts others there (Link); a command that leads from   *)
(* one view to another can be applied to every sound campaign that looks     *)
(* like the first, and its inverse leads back (LinkApplies, InverseFacts).   *)
(* The invariant (HistInv) is that every campaign, on disk, in a request or   *)
(* in a session, has no id twice, and that a session's stacks are a chain of *)
(* such commands through sound campaigns.                                    *)
(***************************************************************************)

-----------------------------------------------------------------------------
(* Induction and lists *)

\* A set of natural numbers that is not empty has a least element.
LEMMA Least == ASSUME NEW S, S \subseteq Nat, S # {} PROVE \E m \in S : \A k \in S : m <= k
<1> DEFINE R == OpToRel(<, Nat)
<1>1. IsWellFoundedOn(R, Nat)
  BY NatLessThanWellFounded
<1>2. \A x, y \in Nat : x < y => <<x, y>> \in R
  BY DEF OpToRel
<1> HIDE DEF R
<1>3. PICK x \in S : \A y \in S : ~ (<<y, x>> \in R)
  BY <1>1, WFMin
<1>4. \A k \in S : ~ (k < x)
  BY <1>2, <1>3
<1> QED
  BY <1>4

\* A set that has zero and the successor of what it has holds every natural number.
LEMMA NatSetInduction ==
    ASSUME NEW S, 0 \in S, \A n \in Nat : n \in S => n + 1 \in S
    PROVE  Nat \subseteq S
<1> SUFFICES ASSUME NEW x \in Nat, x \notin S PROVE FALSE
  OBVIOUS
<1> DEFINE T == {n \in Nat : n \notin S}
<1>1. PICK m \in T : \A k \in T : m <= k
  BY Least
<1>2. m # 0 /\ m - 1 \in Nat /\ m - 1 \notin T
  BY <1>1
<1> QED
  BY <1>1, <1>2

\* A list without its last item, and that item.
LEMMA FrontAndLast ==
    ASSUME NEW X, NEW list \in Seq(X), list # <<>>
    PROVE  /\ Len(list) \in Nat \ {0} /\ Front(list) \in Seq(X)
           /\ Len(Front(list)) = Len(list) - 1
           /\ \A k \in 1..(Len(list) - 1) : Front(list)[k] = list[k]
           /\ Last(list) = list[Len(list)] /\ Last(list) \in X
<1>1. PICK m \in Nat : Len(list) = m + 1
  <2>1. Len(list) \in Nat \ {0} /\ Len(list) - 1 \in Nat
    OBVIOUS
  <2> QED
    BY <2>1
<1>2. (m + 1) - 1 = m /\ 1 \in Int /\ m \in Int /\ \A k \in 1..m : list[k] \in X
  BY <1>1
<1>3. Front(list) = SubSeq(list, 1, m)
  BY <1>1, <1>2 DEF Front
<1> DEFINE l == SubSeq(list, 1, m)
<1>4. l \in Seq(X) /\ Len(l) = IF 1 <= m THEN m - 1 + 1 ELSE 0
  BY <1>2, SubSeqProperties
<1>5. \A k \in 1..(m - 1 + 1) : l[k] = list[1 + k - 1]
  BY <1>2, SubSeqProperties
<1> HIDE DEF l
<1>6. Len(l) = m
  BY <1>2, <1>4
<1>7. \A k \in 1..m : l[k] = list[k]
  BY <1>2, <1>5
<1>8. Last(list) = list[Len(list)] /\ list[m + 1] \in X
  BY <1>1 DEF Last
<1> QED
  BY <1>1, <1>2, <1>3, <1>4, <1>6, <1>7, <1>8 DEF l

\* A list in which no id is there twice.
Distinct(list) == \A i, j \in 1..Len(list) : list[i].id = list[j].id => i = j

\* What has an id.
HaveIds(X) == \A x \in X : "id" \in DOMAIN x

\* An item is found by its id.
LEMMA Found ==
    ASSUME NEW X, NEW list \in Seq(X), Distinct(list), NEW i \in 1..Len(list)
    PROVE  HasId(list, list[i].id) /\ IndexOf(list, list[i].id) = i
<1> DEFINE I == {j \in 1..Len(list) : list[j].id = list[i].id}
<1>1. IndexOf(list, list[i].id) = IF I # {} THEN Min(I) ELSE 0
  BY DEF IndexOf, SelectInSeq
<1>2. I = {i}
  BY DEF Distinct
<1>3. Min({i}) = i
  BY DEF Min
<1>4. HasId(list, list[i].id)
  BY DEF HasId
<1> QED
  BY <1>1, <1>2, <1>3, <1>4

\* A list with an item more.
LEMMA Appended ==
    ASSUME NEW X, NEW list \in Seq(X), Distinct(list), NEW x \in X, ~HasId(list, x.id)
    PROVE  /\ Append(list, x) \in Seq(X)
           /\ Distinct(Append(list, x))
           /\ ToSet(Append(list, x)) = ToSet(list) \cup {x}
<1> DEFINE L == Append(list, x)
           n == Len(list)
<1>1. /\ n \in Nat /\ L \in Seq(X) /\ Len(L) = n + 1 /\ L[n + 1] = x
      /\ \A k \in 1..n : L[k] = list[k]
  OBVIOUS
<1>2. \A k \in 1..n : list[k].id # x.id
  BY DEF HasId
<1>3. ToSet(L) = {L[k] : k \in 1..(n + 1)} /\ ToSet(list) = {list[k] : k \in 1..n}
  BY <1>1 DEF ToSet
<1> HIDE DEF L
<1>4. Distinct(L)
  <2> SUFFICES ASSUME NEW i \in 1..(n + 1), NEW j \in 1..(n + 1), L[i].id = L[j].id PROVE i = j
    BY <1>1 DEF Distinct
  <2>1. CASE i = n + 1 /\ j = n + 1
    BY <2>1
  <2>2. CASE i = n + 1 /\ j # n + 1
    <3>1. j \in 1..n
      BY <1>1, <2>2
    <3> QED
      BY <1>1, <1>2, <2>2, <3>1
  <2>3. CASE i # n + 1 /\ j = n + 1
    <3>1. i \in 1..n
      BY <1>1, <2>3
    <3> QED
      BY <1>1, <1>2, <2>3, <3>1
  <2>4. CASE i # n + 1 /\ j # n + 1
    <3>1. i \in 1..n /\ j \in 1..n
      BY <1>1, <2>4
    <3> QED
      BY <1>1, <3>1 DEF Distinct
  <2> QED
    BY <2>1, <2>2, <2>3, <2>4
<1>5. ToSet(L) = ToSet(list) \cup {x}
  <2>1. \A k \in 1..(n + 1) : k \in 1..n \/ k = n + 1
    BY <1>1
  <2>2. n + 1 \in 1..(n + 1) /\ \A k \in 1..n : k \in 1..(n + 1)
    BY <1>1
  <2> QED
    BY <1>1, <1>3, <2>1, <2>2
<1> QED
  BY <1>1, <1>4, <1>5 DEF L

\* A list with an item less.
LEMMA Removed ==
    ASSUME NEW X, NEW list \in Seq(X), Distinct(list), NEW i \in 1..Len(list)
    PROVE  /\ RemoveAt(list, i) \in Seq(X)
           /\ Distinct(RemoveAt(list, i))
           /\ ToSet(RemoveAt(list, i)) = ToSet(list) \ {list[i]}
<1> DEFINE L == RemoveAt(list, i)
           n == Len(list)
           a == SubSeq(list, 1, i - 1)
           b == SubSeq(list, i + 1, n)
<1>1. n \in Nat /\ i \in 1..n /\ \A k \in 1..n : list[k] \in X
  OBVIOUS
<1>2. /\ 1 \in Int /\ i - 1 \in Int /\ i + 1 \in Int /\ n \in Int
      /\ \A k \in 1..(i - 1) : list[k] \in X
      /\ \A k \in (i + 1)..n : list[k] \in X
  BY <1>1
<1>3. L = a \o b
  BY DEF RemoveAt
<1> HIDE DEF L, n
<1>4. /\ a \in Seq(X) /\ Len(a) = IF 1 <= i - 1 THEN i - 1 - 1 + 1 ELSE 0
      /\ \A k \in 1..(i - 1 - 1 + 1) : a[k] = list[1 + k - 1]
  BY <1>2, SubSeqProperties
<1>5. /\ b \in Seq(X) /\ Len(b) = IF i + 1 <= n THEN n - (i + 1) + 1 ELSE 0
      /\ \A k \in 1..(n - (i + 1) + 1) : b[k] = list[i + 1 + k - 1]
  BY <1>2, SubSeqProperties
<1> HIDE DEF a, b
<1>6. Len(a) = i - 1 /\ \A k \in 1..(i - 1) : a[k] = list[k]
  BY <1>1, <1>4
<1>7. Len(b) = n - i /\ \A k \in 1..(n - i) : b[k] = list[i + k]
  BY <1>1, <1>5
<1>8. /\ L \in Seq(X) /\ Len(L) = Len(a) + Len(b)
      /\ \A k \in 1..(Len(a) + Len(b)) : L[k] = IF k <= Len(a) THEN a[k] ELSE b[k - Len(a)]
  BY <1>3, <1>4, <1>5, ConcatProperties
<1>9. Len(L) = n - 1 /\ \A k \in 1..(n - 1) : L[k] = IF k < i THEN list[k] ELSE list[k + 1]
  <2>1. Len(L) = n - 1
    BY <1>1, <1>6, <1>7, <1>8
  <2>2. ASSUME NEW k \in 1..(n - 1), k < i PROVE L[k] = list[k]
    <3>1. k \in 1..(Len(a) + Len(b)) /\ k <= Len(a) /\ k \in 1..(i - 1)
      BY <1>1, <1>6, <1>7, <2>2
    <3> QED
      BY <1>6, <1>8, <3>1
  <2>3. ASSUME NEW k \in 1..(n - 1), ~(k < i) PROVE L[k] = list[k + 1]
    <3>1. k \in 1..(Len(a) + Len(b)) /\ ~(k <= Len(a)) /\ k - (i - 1) \in 1..(n - i)
          /\ k - Len(a) = k - (i - 1) /\ i + (k - (i - 1)) = k + 1
      BY <1>1, <1>6, <1>7, <2>3
    <3> QED
      BY <1>7, <1>8, <3>1
  <2> QED
    BY <2>1, <2>2, <2>3
<1> DEFINE at(k) == IF k < i THEN k ELSE k + 1
<1>10. /\ \A k \in 1..(n - 1) : at(k) \in 1..n /\ at(k) # i /\ L[k] = list[at(k)]
       /\ \A k, m \in 1..(n - 1) : at(k) = at(m) => k = m
       /\ \A m \in 1..n : m # i => \E k \in 1..(n - 1) : at(k) = m
  <2>1. \A k \in 1..(n - 1) : at(k) \in 1..n /\ at(k) # i /\ L[k] = list[at(k)]
    BY <1>1, <1>9
  <2>2. \A k, m \in 1..(n - 1) : at(k) = at(m) => k = m
    BY <1>1
  <2>3. ASSUME NEW m \in 1..n, m # i PROVE \E k \in 1..(n - 1) : at(k) = m
    <3>1. CASE m < i
      <4>1. m \in 1..(n - 1) /\ at(m) = m
        BY <1>1, <3>1
      <4> QED
        BY <4>1
    <3>2. CASE ~(m < i)
      <4>1. m - 1 \in 1..(n - 1) /\ at(m - 1) = m
        BY <1>1, <2>3, <3>2
      <4> QED
        BY <4>1
    <3> QED
      BY <3>1, <3>2
  <2> QED
    BY <2>1, <2>2, <2>3
<1> HIDE DEF at
<1>11. \A j, k \in 1..n : list[j].id = list[k].id => j = k
  BY DEF Distinct, n
<1>12. Len(L) = n - 1 /\ L \in Seq(X)
  BY <1>8, <1>9
<1>13. Distinct(L)
  <2> SUFFICES ASSUME NEW j \in 1..(n - 1), NEW k \in 1..(n - 1), L[j].id = L[k].id PROVE j = k
    BY <1>12 DEF Distinct
  <2>1. /\ at(j) \in 1..n /\ L[j] = list[at(j)]
        /\ at(k) \in 1..n /\ L[k] = list[at(k)]
    BY <1>10
  <2>2. at(j) = at(k)
    BY <1>11, <2>1
  <2> QED
    BY <1>10, <2>2
<1>14. ToSet(L) = ToSet(list) \ {list[i]}
  <2>1. \A x : x \in ToSet(L) <=> \E k \in 1..(n - 1) : L[k] = x
    BY <1>1, <1>12 DEF ToSet
  <2>2. \A x : x \in ToSet(list) <=> \E k \in 1..n : list[k] = x
    BY DEF ToSet, n
  <2>3. \A k \in 1..n : k # i => list[k] # list[i]
    BY <1>1, <1>11
  <2>4. ASSUME NEW x \in ToSet(L) PROVE x \in ToSet(list) \ {list[i]}
    <3>1. PICK k \in 1..(n - 1) : L[k] = x
      BY <2>1
    <3> QED
      BY <1>10, <2>2, <2>3, <3>1
  <2>5. ASSUME NEW x \in ToSet(list), x # list[i] PROVE x \in ToSet(L)
    <3>1. PICK m \in 1..n : list[m] = x
      BY <2>2
    <3>2. PICK k \in 1..(n - 1) : at(k) = m
      BY <1>10, <2>5, <3>1
    <3> QED
      BY <1>10, <2>1, <3>1, <3>2
  <2> QED
    BY <2>4, <2>5
<1> QED
  BY <1>12, <1>13, <1>14 DEF L

\* A list with an item changed.
LEMMA Replaced ==
    ASSUME NEW X, NEW list \in Seq(X), Distinct(list), NEW i \in 1..Len(list),
           NEW L \in Seq(X), Len(L) = Len(list), L[i].id = list[i].id,
           \A j \in 1..Len(list) : j # i => L[j] = list[j]
    PROVE  /\ Distinct(L)
           /\ ToSet(L) = (ToSet(list) \ {list[i]}) \cup {L[i]}
<1> DEFINE n == Len(list)
<1>1. Distinct(L)
  BY DEF Distinct
<1>2. ToSet(L) = {L[j] : j \in 1..n} /\ ToSet(list) = {list[k] : k \in 1..n}
  BY DEF ToSet
<1>3. \A k \in 1..n : k # i => list[k] # list[i]
  BY DEF Distinct
<1>4. ToSet(L) = (ToSet(list) \ {list[i]}) \cup {L[i]}
  BY <1>2, <1>3
<1> QED
  BY <1>1, <1>4

-----------------------------------------------------------------------------
(* Campaigns *)

\* The campaigns whose ids are in K: no two graphs, conditions, nodes of a graph or edges
\* of a graph have one id.
NodeOf(K) == [id : K, type : NodeTypes, quest : Quests]
EdgeOf(K) == [id : K]
GraphOf(K) == [id : K, nodes : Seq(NodeOf(K)), edges : Seq(EdgeOf(K))]
CampaignOf(K) ==
    [name : Names, id : K, graphs : Seq(GraphOf(K)), conditions : Seq(EdgeOf(K))]
SoundGraph(g) == Distinct(g.nodes) /\ Distinct(g.edges)
SoundCampaigns(K) ==
    {d \in CampaignOf(K) : /\ Distinct(d.graphs) /\ Distinct(d.conditions)
                           /\ \A g \in 1..Len(d.graphs) : SoundGraph(d.graphs[g])}

\* What is in a campaign, wherever it is in its list.
IdsOf(graphs) == {g.id : g \in graphs}
Held(graphs, part) == UNION {{g.id} \X ToSet(g[part]) : g \in graphs}
View(d) ==
    LET graphs == ToSet(d.graphs) IN
    [name |-> d.name, id |-> d.id, graphs |-> IdsOf(graphs),
     nodes |-> Held(graphs, "nodes"), edges |-> Held(graphs, "edges"),
     conditions |-> ToSet(d.conditions)]

\* Trades(S, T, out, in): T is S with out gone and in come.
Trades(S, T, out, in) == out \subseteq S /\ in \subseteq T /\ S \ out = T \ in

\* A change that finds what it needs makes a trade of its list.
TradeOf(list, L, X, out, in) ==
    L \in Seq(X) /\ Distinct(L) /\ L # <<NoCampaign>> /\ Trades(ToSet(list), ToSet(L), out, in)

\* The mark for a change that finds nothing is no list of items.
LEMMA NoMarkListed ==
    ASSUME MarksAreApart, NEW X, HaveIds(X), NEW L \in Seq(X)
    PROVE  L # <<NoCampaign>>
<1>1. NoCampaign \notin X
  BY DEF MarksAreApart, HaveIds
<1>2. Len(L) = 1 => L[1] \in X
  OBVIOUS
<1>3. Len(<<NoCampaign>>) = 1 /\ <<NoCampaign>>[1] = NoCampaign
  OBVIOUS
<1> QED
  BY <1>1, <1>2, <1>3

\* An item of a new id is added.
LEMMA AddTrades ==
    ASSUME MarksAreApart, NEW X, HaveIds(X), NEW list \in Seq(X), Distinct(list),
           NEW new \in X, NEW old, ~HasId(list, new.id)
    PROVE  TradeOf(list, Changed(list, "add", new, old), X, {}, {new})
<1> DEFINE L == Append(list, new)
<1>1. Changed(list, "add", new, old) = L
  BY DEF Changed
<1>2. L \in Seq(X) /\ Distinct(L) /\ ToSet(L) = ToSet(list) \cup {new}
  BY Appended
<1>3. new \notin ToSet(list)
  BY DEF HasId, ToSet
<1> HIDE DEF L
<1>4. Trades(ToSet(list), ToSet(L), {}, {new})
  BY <1>2, <1>3 DEF Trades
<1>5. L # <<NoCampaign>>
  BY <1>2, NoMarkListed
<1> QED
  BY <1>1, <1>2, <1>4, <1>5 DEF TradeOf

\* An item that is there is removed.
LEMMA RemoveTrades ==
    ASSUME MarksAreApart, NEW X, HaveIds(X), NEW list \in Seq(X), Distinct(list),
           NEW new, NEW i \in 1..Len(list)
    PROVE  TradeOf(list, Changed(list, "remove", new, list[i]), X, {list[i]}, {})
<1> DEFINE L == RemoveAt(list, i)
<1>1. Changed(list, "remove", new, list[i]) = L
  BY Found DEF Changed
<1>2. L \in Seq(X) /\ Distinct(L) /\ ToSet(L) = ToSet(list) \ {list[i]}
  BY Removed
<1>3. list[i] \in ToSet(list)
  BY DEF ToSet
<1> HIDE DEF L
<1>4. Trades(ToSet(list), ToSet(L), {list[i]}, {})
  BY <1>2, <1>3 DEF Trades
<1>5. L # <<NoCampaign>>
  BY <1>2, NoMarkListed
<1> QED
  BY <1>1, <1>2, <1>4, <1>5 DEF TradeOf

\* An item that is there is changed and keeps its id.
LEMMA ModifyTrades ==
    ASSUME MarksAreApart, NEW X, HaveIds(X), NEW list \in Seq(X), Distinct(list),
           NEW i \in 1..Len(list), NEW new \in X, new.id = list[i].id
    PROVE  TradeOf(list, Changed(list, "modify", new, list[i]), X, {list[i]}, {new})
<1> DEFINE L == [list EXCEPT ![i] = new]
<1>1. Changed(list, "modify", new, list[i]) = L
  BY Found DEF Changed
<1>2. /\ L \in Seq(X) /\ Len(L) = Len(list) /\ L[i] = new
      /\ \A j \in 1..Len(list) : j # i => L[j] = list[j]
  OBVIOUS
<1>3. list[i] \in ToSet(list) /\ (new \in ToSet(list) => new = list[i])
  BY DEF ToSet, Distinct
<1> HIDE DEF L
<1>4. Distinct(L) /\ ToSet(L) = (ToSet(list) \ {list[i]}) \cup {new}
  BY <1>2, Replaced
<1>5. Trades(ToSet(list), ToSet(L), {list[i]}, {new})
  BY <1>3, <1>4 DEF Trades
<1>6. L # <<NoCampaign>>
  BY <1>2, NoMarkListed
<1> QED
  BY <1>1, <1>2, <1>4, <1>5, <1>6 DEF TradeOf

\* Parts of a campaign that are lists of graphs' parts; what their items are.
ItemOf(K, part) == IF part = "nodes" THEN NodeOf(K) ELSE EdgeOf(K)
Parts == {"graphs", "nodes", "edges", "conditions"}

SameBut(v, w, part) ==
    v.name = w.name /\ v.id = w.id /\ \A q \in Parts \ {part} : v[q] = w[q]

(* What Held contains, as pairs of a graph's id and an item. *)
LEMMA HeldFacts ==
    ASSUME NEW graphs, NEW part
    PROVE  /\ \A a, x : <<a, x>> \in Held(graphs, part)
                           <=> \E g \in graphs : g.id = a /\ x \in ToSet(g[part])
           /\ \A w \in Held(graphs, part) : w = <<w[1], w[2]>>
  BY DEF Held

\* One of the graphs with another list of nodes or of edges.
LEMMA GraphReplaced ==
    ASSUME NEW S, NEW G \in S, NEW G2, G2.id = G.id, NEW part,
           \A g \in S : g.id = G.id => g = G,
           NEW T, T = (S \ {G}) \cup {G2}
    PROVE  /\ IdsOf(T) = IdsOf(S)
           /\ \A q : G2[q] = G[q] => Held(T, q) = Held(S, q)
           /\ \A out, in : Trades(ToSet(G[part]), ToSet(G2[part]), out, in) =>
                  Trades(Held(S, part), Held(T, part), {G.id} \X out, {G.id} \X in)
<1>1. IdsOf(T) = IdsOf(S)
  BY DEF IdsOf
<1>2. ASSUME NEW q, G2[q] = G[q] PROVE Held(T, q) = Held(S, q)
  <2>1. ASSUME NEW a, NEW x PROVE <<a, x>> \in Held(T, q) <=> <<a, x>> \in Held(S, q)
    <3>1. (\E g \in T : g.id = a /\ x \in ToSet(g[q])) <=> (\E g \in S : g.id = a /\ x \in ToSet(g[q]))
      BY <1>2
    <3> QED
      BY <3>1, HeldFacts
  <2>2. \A w \in Held(T, q) \cup Held(S, q) : w = <<w[1], w[2]>>
    BY HeldFacts
  <2> QED
    BY <2>1, <2>2
<1>3. ASSUME NEW out, NEW in, Trades(ToSet(G[part]), ToSet(G2[part]), out, in)
      PROVE  Trades(Held(S, part), Held(T, part), {G.id} \X out, {G.id} \X in)
  <2> DEFINE A == Held(S, part)
             B == Held(T, part)
  <2>1. \A x : <<G.id, x>> \in A <=> x \in ToSet(G[part])
    BY HeldFacts
  <2>2. \A x : <<G.id, x>> \in B <=> x \in ToSet(G2[part])
    BY HeldFacts
  <2>3. \A a, x : a # G.id => (<<a, x>> \in A <=> <<a, x>> \in B)
    BY HeldFacts
  <2>4. \A w \in A \cup B : w = <<w[1], w[2]>>
    BY HeldFacts
  <2> HIDE DEF A, B
  <2>5. {G.id} \X out \subseteq A /\ {G.id} \X in \subseteq B
    BY <1>3, <2>1, <2>2 DEF Trades
  <2>6. \A a, x : <<a, x>> \in A \ ({G.id} \X out) <=> <<a, x>> \in B \ ({G.id} \X in)
    BY <1>3, <2>1, <2>2, <2>3 DEF Trades
  <2>7. A \ ({G.id} \X out) = B \ ({G.id} \X in)
    BY <2>4, <2>6
  <2> QED
    BY <2>5, <2>7 DEF Trades, A, B
<1> QED
  BY <1>1, <1>2, <1>3

\* A campaign with the list of one of its graphs traded for another.
WithPart(d, g, part, L) == [d EXCEPT !.graphs[g][part] = L]

(* A list of one graph that trades items changes the view of the campaign by the same trade. *)
LEMMA PartChanges ==
    ASSUME NEW K, NEW d \in SoundCampaigns(K), NEW part \in {"nodes", "edges"},
           NEW g \in 1..Len(d.graphs), NEW L, NEW out, NEW in,
           TradeOf(d.graphs[g][part], L, ItemOf(K, part), out, in),
           NEW e, e = WithPart(d, g, part, L)
    PROVE  /\ e \in SoundCampaigns(K)
           /\ SameBut(View(d), View(e), part)
           /\ Trades(View(d)[part], View(e)[part], {d.graphs[g].id} \X out, {d.graphs[g].id} \X in)
<1> DEFINE G == d.graphs[g]
           G2 == [G EXCEPT ![part] = L]
           gs == [d.graphs EXCEPT ![g] = G2]
<1>1. d \in CampaignOf(K) /\ Distinct(d.graphs) /\ Distinct(d.conditions)
      /\ \A h \in 1..Len(d.graphs) : SoundGraph(d.graphs[h])
  BY DEF SoundCampaigns
<1>2. d.graphs \in Seq(GraphOf(K)) /\ G \in GraphOf(K)
  BY <1>1 DEF CampaignOf
<1>3. /\ G2 \in GraphOf(K) /\ SoundGraph(G2) /\ G2.id = G.id /\ G2[part] = L
      /\ \A q \in {"nodes", "edges"} \ {part} : G2[q] = G[q]
  <2>1. CASE part = "nodes"
    BY <1>1, <1>2, <2>1 DEF GraphOf, SoundGraph, TradeOf, ItemOf
  <2>2. CASE part = "edges"
    BY <1>1, <1>2, <2>2 DEF GraphOf, SoundGraph, TradeOf, ItemOf
  <2> QED
    BY <2>1, <2>2
<1>4. e = [d EXCEPT !.graphs = gs]
  BY DEF WithPart
<1> HIDE DEF G2
<1>5. /\ gs \in Seq(GraphOf(K)) /\ Len(gs) = Len(d.graphs) /\ gs[g] = G2
      /\ \A h \in 1..Len(d.graphs) : h # g => gs[h] = d.graphs[h]
  BY <1>2, <1>3
<1> HIDE DEF gs
<1>6. /\ e \in CampaignOf(K)
      /\ e.name = d.name /\ e.id = d.id /\ e.graphs = gs /\ e.conditions = d.conditions
  BY <1>1, <1>4, <1>5 DEF CampaignOf
<1>7. Distinct(gs) /\ ToSet(gs) = (ToSet(d.graphs) \ {G}) \cup {G2}
  BY <1>1, <1>2, <1>3, <1>5, Replaced
<1>8. e \in SoundCampaigns(K)
  BY <1>1, <1>3, <1>5, <1>6, <1>7 DEF SoundCampaigns
<1> DEFINE S == ToSet(d.graphs)
           T == ToSet(gs)
<1>9. G \in S /\ \A h \in S : h.id = G.id => h = G
  BY <1>1, <1>2 DEF ToSet, Distinct
<1>10. Trades(ToSet(G[part]), ToSet(G2[part]), out, in)
  BY <1>3 DEF TradeOf
<1> HIDE DEF S, T, G
<1>11. T = (S \ {G}) \cup {G2}
  BY <1>7 DEF S, T
<1>12. /\ IdsOf(T) = IdsOf(S)
       /\ \A q : G2[q] = G[q] => Held(T, q) = Held(S, q)
       /\ Trades(Held(S, part), Held(T, part), {G.id} \X out, {G.id} \X in)
  <2>1. G2.id = G.id
    BY <1>3
  <2>2. IdsOf(T) = IdsOf(S)
    BY <1>9, <1>11, <2>1, GraphReplaced
  <2>3. \A q : G2[q] = G[q] => Held(T, q) = Held(S, q)
    BY <1>9, <1>11, <2>1, GraphReplaced
  <2>4. \A o, i : Trades(ToSet(G[part]), ToSet(G2[part]), o, i) =>
                     Trades(Held(S, part), Held(T, part), {G.id} \X o, {G.id} \X i)
    BY <1>9, <1>11, <2>1, GraphReplaced
  <2> QED
    BY <1>10, <2>2, <2>3, <2>4
<1>13. \A q \in {"nodes", "edges"} \ {part} : Held(T, q) = Held(S, q)
  BY <1>3, <1>12
<1>14. /\ View(d) = [name |-> d.name, id |-> d.id, graphs |-> IdsOf(S),
                     nodes |-> Held(S, "nodes"), edges |-> Held(S, "edges"),
                     conditions |-> ToSet(d.conditions)]
       /\ View(e) = [name |-> d.name, id |-> d.id, graphs |-> IdsOf(T),
                     nodes |-> Held(T, "nodes"), edges |-> Held(T, "edges"),
                     conditions |-> ToSet(d.conditions)]
  BY <1>6 DEF View, S, T
<1>15. SameBut(View(d), View(e), part)
  <2>1. \A q \in Parts \ {part} : View(d)[q] = View(e)[q]
    BY <1>12, <1>13, <1>14 DEF Parts
  <2> QED
    BY <1>14, <2>1 DEF SameBut
<1>16. View(d)[part] = Held(S, part) /\ View(e)[part] = Held(T, part)
  BY <1>14
<1> QED
  BY <1>8, <1>12, <1>15, <1>16 DEF G

-----------------------------------------------------------------------------
(* Commands *)

PartOf == [AddNode |-> "nodes", RemoveNode |-> "nodes", ModifyNode |-> "nodes",
           AddEdge |-> "edges", RemoveEdge |-> "edges",
           AddGraph |-> "graphs", RemoveGraph |-> "graphs",
           AddCondition |-> "conditions", RemoveCondition |-> "conditions"]
Adding == {"AddNode", "AddEdge", "AddGraph", "AddCondition"}
Removing == {"RemoveNode", "RemoveEdge", "RemoveGraph", "RemoveCondition"}

\* The commands whose ids are in K; a graph is added, and its adding undone, when it is empty.
EmptyGraphOf(K) == [id : K, nodes : {<<>>}, edges : {<<>>}]
NodeCommands(K) ==
    {cmd \in [what : {"AddNode", "RemoveNode", "ModifyNode"}, graph : K,
              new : NodeOf(K), old : NodeOf(K)] : cmd.new.id = cmd.old.id}
EdgeCommands(K) == [what : {"AddEdge", "RemoveEdge"}, graph : K, new : EdgeOf(K), old : EdgeOf(K)]
GraphCommands(K) ==
    [what : {"AddGraph", "RemoveGraph"}, graph : K, new : EmptyGraphOf(K), old : EmptyGraphOf(K)]
ConditionCommands(K) ==
    [what : {"AddCondition", "RemoveCondition"}, graph : K, new : EdgeOf(K), old : EdgeOf(K)]
CommandsOf(K) ==
    NodeCommands(K) \cup EdgeCommands(K) \cup GraphCommands(K) \cup ConditionCommands(K)

\* What a command takes from the part it changes, and what it puts there.
Fact(cmd, x) ==
    IF PartOf[cmd.what] = "graphs" THEN {x.id}
    ELSE IF PartOf[cmd.what] = "conditions" THEN {x}
    ELSE {cmd.graph} \X {x}
OutOf(cmd) == IF cmd.what \in Adding THEN {} ELSE Fact(cmd, cmd.old)
InOf(cmd) == IF cmd.what \in Removing THEN {} ELSE Fact(cmd, cmd.new)

\* The command leads from a campaign that looks like v to one that looks like w.
Link(cmd, v, w) ==
    /\ SameBut(v, w, PartOf[cmd.what])
    /\ Trades(v[PartOf[cmd.what]], w[PartOf[cmd.what]], OutOf(cmd), InOf(cmd))

\* The command finds in a list, and in campaign d, what it needs.
Finds(cmd, list) ==
    IF cmd.what \in Adding THEN ~HasId(list, cmd.new.id)
    ELSE \E i \in 1..Len(list) : list[i] = cmd.old
Ready(cmd, d) ==
    LET part == PartOf[cmd.what] IN
    IF part \in {"graphs", "conditions"} THEN Finds(cmd, d[part])
    ELSE \E g \in 1..Len(d.graphs) : d.graphs[g].id = cmd.graph /\ Finds(cmd, d.graphs[g][part])

\* The kinds of commands.
LEMMA CommandKinds ==
    ASSUME NEW K, NEW cmd \in CommandsOf(K)
    PROVE  /\ cmd \in NodeCommands(K) \/ cmd \in EdgeCommands(K) =>
                 PartOf[cmd.what] \in {"nodes", "edges"}
           /\ cmd \in GraphCommands(K) => PartOf[cmd.what] = "graphs"
           /\ cmd \in ConditionCommands(K) => PartOf[cmd.what] = "conditions"
           /\ PartOf[cmd.what] \in Parts
           /\ ~(cmd.what \in Adding /\ cmd.what \in Removing)
<1>1. cmd \in NodeCommands(K) => PartOf[cmd.what] = "nodes"
  BY DEF NodeCommands, PartOf
<1>2. cmd \in EdgeCommands(K) => PartOf[cmd.what] = "edges"
  BY DEF EdgeCommands, PartOf
<1>3. cmd \in GraphCommands(K) => PartOf[cmd.what] = "graphs"
  BY DEF GraphCommands, PartOf
<1>4. cmd \in ConditionCommands(K) => PartOf[cmd.what] = "conditions"
  BY DEF ConditionCommands, PartOf
<1>5. ~(cmd.what \in Adding /\ cmd.what \in Removing)
  BY DEF Adding, Removing
<1> QED
  BY <1>1, <1>2, <1>3, <1>4, <1>5 DEF CommandsOf, Parts

\* An inverse command leads back.
LEMMA InverseFacts ==
    ASSUME NEW K, NEW cmd \in CommandsOf(K)
    PROVE  /\ InverseCommand(cmd) \in CommandsOf(K)
           /\ \A v, w : Link(cmd, v, w) => Link(InverseCommand(cmd), w, v)
<1> DEFINE inv == InverseCommand(cmd)
<1>1. /\ inv = [what |-> Opposite[cmd.what], graph |-> cmd.graph, new |-> cmd.old, old |-> cmd.new]
      /\ inv.what = Opposite[cmd.what] /\ inv.graph = cmd.graph
      /\ inv.new = cmd.old /\ inv.old = cmd.new
  BY DEF InverseCommand, Command
<1> HIDE DEF inv
<1>2. inv \in CommandsOf(K)
  <2>1. CASE cmd \in NodeCommands(K)
    BY <1>1, <2>1 DEF NodeCommands, CommandsOf, Opposite
  <2>2. CASE cmd \in EdgeCommands(K)
    BY <1>1, <2>2 DEF EdgeCommands, CommandsOf, Opposite
  <2>3. CASE cmd \in GraphCommands(K)
    BY <1>1, <2>3 DEF GraphCommands, CommandsOf, Opposite
  <2>4. CASE cmd \in ConditionCommands(K)
    BY <1>1, <2>4 DEF ConditionCommands, CommandsOf, Opposite
  <2> QED
    BY <2>1, <2>2, <2>3, <2>4 DEF CommandsOf
<1>3. /\ PartOf[inv.what] = PartOf[cmd.what]
      /\ inv.what \in Adding <=> cmd.what \in Removing
      /\ inv.what \in Removing <=> cmd.what \in Adding
  <2>1. cmd.what \in {"AddNode", "RemoveNode", "ModifyNode", "AddEdge", "RemoveEdge", "AddGraph",
                      "RemoveGraph", "AddCondition", "RemoveCondition"}
    BY DEF CommandsOf, NodeCommands, EdgeCommands, GraphCommands, ConditionCommands
  <2> DEFINE w == cmd.what
             o == Opposite[w]
  <2>2. PartOf[o] = PartOf[w]
    BY <2>1 DEF PartOf, Opposite
  <2>3. (o \in Adding <=> w \in Removing) /\ (o \in Removing <=> w \in Adding)
    BY <2>1 DEF Adding, Removing, Opposite
  <2> QED
    BY <1>1, <2>2, <2>3
<1>4. \A x : Fact(inv, x) = Fact(cmd, x)
  BY <1>1, <1>3 DEF Fact
<1>5. OutOf(inv) = InOf(cmd) /\ InOf(inv) = OutOf(cmd)
  BY <1>1, <1>3, <1>4 DEF OutOf, InOf
<1>6. ASSUME NEW v, NEW w, Link(cmd, v, w) PROVE Link(inv, w, v)
  <2> DEFINE p == PartOf[cmd.what]
  <2>1. SameBut(v, w, p) /\ Trades(v[p], w[p], OutOf(cmd), InOf(cmd))
    BY <1>6 DEF Link
  <2> HIDE DEF p
  <2>2. SameBut(w, v, p)
    BY <2>1 DEF SameBut
  <2>3. Trades(w[p], v[p], OutOf(inv), InOf(inv))
    BY <1>5, <2>1 DEF Trades
  <2> QED
    BY <1>3, <2>2, <2>3 DEF Link, p
<1> QED
  BY <1>2, <1>6 DEF inv

\* A command that finds what it needs makes a trade of the list.
OpOf(cmd) ==
    IF cmd.what \in Adding THEN "add" ELSE IF cmd.what \in Removing THEN "remove" ELSE "modify"

(* A command that finds what it needs trades the old item for the new one. *)
LEMMA FindsTrades ==
    ASSUME MarksAreApart, NEW X, HaveIds(X), NEW list \in Seq(X), Distinct(list),
           NEW cmd, cmd.new \in X, ~(cmd.what \in Adding /\ cmd.what \in Removing),
           OpOf(cmd) = "modify" => cmd.new.id = cmd.old.id, Finds(cmd, list)
    PROVE  TradeOf(list, Changed(list, OpOf(cmd), cmd.new, cmd.old), X,
                   IF cmd.what \in Adding THEN {} ELSE {cmd.old},
                   IF cmd.what \in Removing THEN {} ELSE {cmd.new})
<1>1. CASE cmd.what \in Adding
  <2>1. OpOf(cmd) = "add" /\ ~HasId(list, cmd.new.id) /\ cmd.what \notin Removing
    BY <1>1 DEF OpOf, Finds
  <2> QED
    BY <1>1, <2>1, AddTrades
<1>2. CASE cmd.what \in Removing
  <2>1. OpOf(cmd) = "remove" /\ cmd.what \notin Adding
    BY <1>2 DEF OpOf
  <2>2. PICK i \in 1..Len(list) : list[i] = cmd.old
    BY <2>1 DEF Finds
  <2>3. TradeOf(list, Changed(list, "remove", cmd.new, list[i]), X, {list[i]}, {})
    BY RemoveTrades
  <2> QED
    BY <1>2, <2>1, <2>2, <2>3
<1>3. CASE cmd.what \notin Adding /\ cmd.what \notin Removing
  <2>1. OpOf(cmd) = "modify"
    BY <1>3 DEF OpOf
  <2>2. PICK i \in 1..Len(list) : list[i] = cmd.old
    BY <1>3 DEF Finds
  <2>3. TradeOf(list, Changed(list, "modify", cmd.new, list[i]), X, {list[i]}, {cmd.new})
    BY <2>1, <2>2, ModifyTrades
  <2> QED
    BY <1>3, <2>1, <2>2, <2>3
<1> QED
  BY <1>1, <1>2, <1>3

\* A command that finds what it needs makes a sound campaign, and leads there.
StepsTo(K, cmd, d) ==
    /\ ApplyCampaign(cmd, d) \in SoundCampaigns(K)
    /\ Link(cmd, View(d), View(ApplyCampaign(cmd, d)))

(* Nodes, edges and graphs have ids. *)
LEMMA ItemsHaveIds ==
    ASSUME NEW K
    PROVE  HaveIds(NodeOf(K)) /\ HaveIds(EdgeOf(K)) /\ HaveIds(GraphOf(K))
  BY DEF HaveIds, NodeOf, EdgeOf, GraphOf

\* A list that has been changed takes its place in its graph.
LEMMA InGraphStep ==
    ASSUME NEW K, NEW d \in SoundCampaigns(K), NEW part, NEW op, NEW cmd,
           NEW g \in 1..Len(d.graphs), d.graphs[g].id = cmd.graph,
           NEW L, L = Changed(d.graphs[g][part], op, cmd.new, cmd.old), L # <<NoCampaign>>
    PROVE  InGraph(part, op, cmd, d) = WithPart(d, g, part, L)
<1>1. d.graphs \in Seq(GraphOf(K)) /\ Distinct(d.graphs)
  BY DEF SoundCampaigns, CampaignOf
<1>2. HasId(d.graphs, cmd.graph) /\ IndexOf(d.graphs, cmd.graph) = g
  BY <1>1, Found
<1> QED
  BY <1>2 DEF InGraph, WithPart

(* A command on a node or an edge steps to what it says. *)
LEMMA NodeOrEdgeStep ==
    ASSUME MarksAreApart, NEW K, NEW d \in SoundCampaigns(K),
           NEW cmd \in NodeCommands(K) \cup EdgeCommands(K), Ready(cmd, d)
    PROVE  StepsTo(K, cmd, d)
<1> DEFINE part == PartOf[cmd.what]
           op == OpOf(cmd)
           e == ApplyCampaign(cmd, d)
<1>1. part \in {"nodes", "edges"} /\ ~(cmd.what \in Adding /\ cmd.what \in Removing)
  BY CommandKinds DEF CommandsOf
<1>2. e = InGraph(part, op, cmd, d)
  BY DEF NodeCommands, EdgeCommands, PartOf, OpOf, Adding, Removing,
         ApplyCampaign, ApplyNode, ApplyEdge
<1>3. cmd.new \in ItemOf(K, part) /\ cmd.old \in ItemOf(K, part)
  BY DEF NodeCommands, EdgeCommands, PartOf, ItemOf
<1>4. op = "modify" => cmd.new.id = cmd.old.id
  BY DEF NodeCommands, EdgeCommands, OpOf, Adding, Removing
<1>5. PICK g \in 1..Len(d.graphs) : d.graphs[g].id = cmd.graph /\ Finds(cmd, d.graphs[g][part])
  BY <1>1 DEF Ready
<1>6. d.graphs[g] \in GraphOf(K) /\ SoundGraph(d.graphs[g])
  BY DEF SoundCampaigns, CampaignOf
<1> HIDE DEF part, op, e
<1> DEFINE list == d.graphs[g][part]
           L == Changed(list, op, cmd.new, cmd.old)
           out == IF cmd.what \in Adding THEN {} ELSE {cmd.old}
           in == IF cmd.what \in Removing THEN {} ELSE {cmd.new}
<1>7. list \in Seq(ItemOf(K, part)) /\ Distinct(list) /\ HaveIds(ItemOf(K, part))
  <2>1. HaveIds(ItemOf(K, part))
    BY ItemsHaveIds DEF ItemOf
  <2> QED
    BY <1>1, <1>6, <2>1 DEF GraphOf, SoundGraph, ItemOf
<1> HIDE DEF list
<1>8. TradeOf(list, L, ItemOf(K, part), out, in)
  BY <1>1, <1>3, <1>4, <1>5, <1>7, FindsTrades DEF op, list
<1> HIDE DEF L, out, in
<1>9. e = WithPart(d, g, part, L)
  <2>1. L # <<NoCampaign>>
    BY <1>8 DEF TradeOf
  <2>2. L = Changed(d.graphs[g][part], op, cmd.new, cmd.old)
    BY DEF L, list
  <2>3. d.graphs[g].id = cmd.graph
    BY <1>5
  <2>4. InGraph(part, op, cmd, d) = WithPart(d, g, part, L)
    BY <2>1, <2>2, <2>3, InGraphStep
  <2> QED
    BY <1>2, <2>4
<1>10. /\ e \in SoundCampaigns(K)
       /\ SameBut(View(d), View(e), part)
       /\ Trades(View(d)[part], View(e)[part], {d.graphs[g].id} \X out, {d.graphs[g].id} \X in)
  BY <1>1, <1>8, <1>9, PartChanges DEF list
<1>11. {cmd.graph} \X out = OutOf(cmd) /\ {cmd.graph} \X in = InOf(cmd)
  BY <1>1 DEF OutOf, InOf, Fact, out, in, part
<1>12. Link(cmd, View(d), View(e))
  BY <1>5, <1>10, <1>11 DEF Link, part
<1> QED
  BY <1>10, <1>12 DEF StepsTo, e

(* So does a command on a condition, *)
LEMMA ConditionStep ==
    ASSUME MarksAreApart, NEW K, NEW d \in SoundCampaigns(K),
           NEW cmd \in ConditionCommands(K), Ready(cmd, d)
    PROVE  StepsTo(K, cmd, d)
<1> DEFINE op == OpOf(cmd)
           e == ApplyCampaign(cmd, d)
           list == d.conditions
           L == Changed(list, op, cmd.new, cmd.old)
           out == IF cmd.what \in Adding THEN {} ELSE {cmd.old}
           in == IF cmd.what \in Removing THEN {} ELSE {cmd.new}
<1>1. PartOf[cmd.what] = "conditions" /\ ~(cmd.what \in Adding /\ cmd.what \in Removing)
  BY CommandKinds DEF CommandsOf
<1>2. e = InCampaign("conditions", op, cmd, d) /\ op \in {"add", "remove"}
      /\ (op = "add" => cmd.what \in Adding)
  BY DEF ConditionCommands, OpOf, Adding, Removing, ApplyCampaign, ApplyCondition
<1>3. cmd.new \in EdgeOf(K)
  BY DEF ConditionCommands
<1>4. d.conditions \in Seq(EdgeOf(K)) /\ Distinct(d.conditions) /\ d \in CampaignOf(K)
  BY DEF SoundCampaigns, CampaignOf
<1>5. Finds(cmd, list)
  BY <1>1 DEF Ready
<1> HIDE DEF op, e
<1>6. TradeOf(list, L, EdgeOf(K), out, in)
  BY <1>1, <1>2, <1>3, <1>4, <1>5, ItemsHaveIds, FindsTrades DEF op
<1> HIDE DEF L
<1>7. /\ L \in Seq(EdgeOf(K)) /\ Distinct(L) /\ L # <<NoCampaign>>
      /\ Trades(ToSet(list), ToSet(L), out, in)
  BY <1>6 DEF TradeOf
<1>8. e = [d EXCEPT !.conditions = L]
  <2>1. op = "add" => ~HasId(list, cmd.new.id)
    BY <1>2, <1>5 DEF Finds
  <2> QED
    BY <1>2, <1>7, <2>1 DEF InCampaign, L
<1>9. /\ e \in CampaignOf(K) /\ e.name = d.name /\ e.id = d.id /\ e.graphs = d.graphs
      /\ e.conditions = L
  BY <1>4, <1>7, <1>8 DEF CampaignOf
<1>10. e \in SoundCampaigns(K)
  BY <1>7, <1>9 DEF SoundCampaigns
<1>11. /\ View(d).conditions = ToSet(list) /\ View(e).conditions = ToSet(L)
       /\ SameBut(View(d), View(e), "conditions")
  <2> DEFINE S == ToSet(d.graphs)
  <2>1. /\ View(d) = [name |-> d.name, id |-> d.id, graphs |-> IdsOf(S),
                      nodes |-> Held(S, "nodes"), edges |-> Held(S, "edges"),
                      conditions |-> ToSet(list)]
        /\ View(e) = [name |-> d.name, id |-> d.id, graphs |-> IdsOf(S),
                      nodes |-> Held(S, "nodes"), edges |-> Held(S, "edges"),
                      conditions |-> ToSet(L)]
    BY <1>9 DEF View
  <2> HIDE DEF S, list
  <2>2. \A q \in Parts \ {"conditions"} : View(d)[q] = View(e)[q]
    BY <2>1 DEF Parts
  <2>3. View(d).name = View(e).name /\ View(d).id = View(e).id
    BY <2>1
  <2> QED
    BY <2>1, <2>2, <2>3 DEF SameBut
<1>12. out = OutOf(cmd) /\ in = InOf(cmd)
  BY <1>1 DEF OutOf, InOf, Fact
<1>13. Link(cmd, View(d), View(e))
  BY <1>1, <1>7, <1>11, <1>12 DEF Link
<1> QED
  BY <1>10, <1>13 DEF StepsTo, e

(* a command on a graph, *)
LEMMA GraphStep ==
    ASSUME MarksAreApart, NEW K, NEW d \in SoundCampaigns(K),
           NEW cmd \in GraphCommands(K), Ready(cmd, d)
    PROVE  StepsTo(K, cmd, d)
<1> DEFINE op == OpOf(cmd)
           e == ApplyCampaign(cmd, d)
           list == d.graphs
           L == Changed(list, op, cmd.new, cmd.old)
           out == IF cmd.what \in Adding THEN {} ELSE {cmd.old}
           in == IF cmd.what \in Removing THEN {} ELSE {cmd.new}
<1>1. PartOf[cmd.what] = "graphs" /\ ~(cmd.what \in Adding /\ cmd.what \in Removing)
  BY CommandKinds DEF CommandsOf
<1>2. e = InCampaign("graphs", op, cmd, d) /\ op \in {"add", "remove"}
      /\ (op = "add" <=> cmd.what \in Adding) /\ (op = "remove" <=> cmd.what \in Removing)
  BY DEF GraphCommands, OpOf, Adding, Removing, ApplyCampaign, ApplyGraph
<1>3. /\ cmd.new.nodes = <<>> /\ cmd.new.edges = <<>>
      /\ cmd.old.nodes = <<>> /\ cmd.old.edges = <<>>
      /\ cmd.new \in GraphOf(K) /\ SoundGraph(cmd.new)
  <2>1. /\ cmd.new \in EmptyGraphOf(K) /\ cmd.old \in EmptyGraphOf(K)
    BY DEF GraphCommands
  <2>2. \A X : <<>> \in Seq(X)
    OBVIOUS
  <2>3. Distinct(<<>>)
    BY DEF Distinct
  <2> QED
    BY <2>1, <2>2, <2>3 DEF EmptyGraphOf, GraphOf, SoundGraph
<1>4. /\ list \in Seq(GraphOf(K)) /\ Distinct(list) /\ d \in CampaignOf(K)
      /\ Distinct(d.conditions) /\ \A g \in 1..Len(list) : SoundGraph(list[g])
  BY DEF SoundCampaigns, CampaignOf
<1>5. Finds(cmd, list)
  BY <1>1 DEF Ready
<1> HIDE DEF op, e, list
<1>6. TradeOf(list, L, GraphOf(K), out, in)
  BY <1>1, <1>2, <1>3, <1>4, <1>5, ItemsHaveIds, FindsTrades DEF op
<1> HIDE DEF L
<1>7. /\ L \in Seq(GraphOf(K)) /\ Distinct(L) /\ L # <<NoCampaign>>
      /\ Trades(ToSet(list), ToSet(L), out, in)
  BY <1>6 DEF TradeOf
<1>8. e = [d EXCEPT !.graphs = L]
  <2>1. op = "add" => ~HasId(list, cmd.new.id)
    BY <1>2, <1>5 DEF Finds
  <2> QED
    BY <1>2, <1>7, <2>1 DEF InCampaign, L, list
<1>9. /\ e \in CampaignOf(K) /\ e.name = d.name /\ e.id = d.id /\ e.graphs = L
      /\ e.conditions = d.conditions
  BY <1>4, <1>7, <1>8 DEF CampaignOf
<1> DEFINE S == ToSet(list)
           T == ToSet(L)
<1>10. S \ out = T \ in /\ out \subseteq S /\ in \subseteq T
  BY <1>7 DEF Trades
<1>11. \A g \in S : SoundGraph(g)
  BY <1>4 DEF ToSet
<1>12. \A g \in T : SoundGraph(g)
  <2>1. \A g \in T : g \in S \/ g = cmd.new
    BY <1>10
  <2> QED
    BY <1>3, <1>11, <2>1
<1>13. e \in SoundCampaigns(K)
  <2>1. \A g \in 1..Len(L) : L[g] \in T
    BY <1>7 DEF ToSet
  <2> QED
    BY <1>4, <1>7, <1>9, <1>12, <2>1 DEF SoundCampaigns
<1>14. \A g \in out \cup in : g.nodes = <<>> /\ g.edges = <<>>
  BY <1>3
<1>15. ASSUME NEW q \in {"nodes", "edges"} PROVE Held(S, q) = Held(T, q)
  <2>1. \A x : x \notin ToSet(<<>>)
    BY DEF ToSet
  <2>2. \A g \in out \cup in : \A x : x \notin ToSet(g[q])
    <3>1. \A g \in out \cup in : g[q] = <<>>
      BY <1>14
    <3> QED
      BY <2>1, <3>1
  <2> HIDE DEF S, T, out, in
  <2>3. ASSUME NEW a, NEW x PROVE <<a, x>> \in Held(S, q) <=> <<a, x>> \in Held(T, q)
    <3>1. (\E g \in S : g.id = a /\ x \in ToSet(g[q])) <=> (\E g \in T : g.id = a /\ x \in ToSet(g[q]))
      BY <1>10, <2>2
    <3> QED
      BY <3>1, HeldFacts
  <2>4. \A w \in Held(S, q) \cup Held(T, q) : w = <<w[1], w[2]>>
    BY HeldFacts
  <2> QED
    BY <2>3, <2>4
<1>16. \A g, h \in S : g.id = h.id => g = h
  BY <1>4 DEF ToSet, Distinct
<1>17. \A g, h \in T : g.id = h.id => g = h
  BY <1>7 DEF ToSet, Distinct
<1> HIDE DEF S, T
<1>18. Trades(IdsOf(S), IdsOf(T), OutOf(cmd), InOf(cmd))
  <2>1. OutOf(cmd) = IF cmd.what \in Adding THEN {} ELSE {cmd.old.id}
    BY <1>1 DEF OutOf, Fact
  <2>2. InOf(cmd) = IF cmd.what \in Removing THEN {} ELSE {cmd.new.id}
    BY <1>1 DEF InOf, Fact
  <2>3. CASE cmd.what \in Adding
    <3>1. out = {} /\ in = {cmd.new} /\ OutOf(cmd) = {} /\ InOf(cmd) = {cmd.new.id}
      BY <1>1, <2>1, <2>2, <2>3
    <3> QED
      BY <1>10, <1>17, <3>1 DEF Trades, IdsOf
  <2>4. CASE cmd.what \notin Adding
    <3>1. out = {cmd.old} /\ in = {} /\ OutOf(cmd) = {cmd.old.id} /\ InOf(cmd) = {}
      BY <1>2, <2>1, <2>2, <2>4
    <3> QED
      BY <1>10, <1>16, <3>1 DEF Trades, IdsOf
  <2> QED
    BY <2>3, <2>4
<1>19. /\ View(d) = [name |-> d.name, id |-> d.id, graphs |-> IdsOf(S),
                     nodes |-> Held(S, "nodes"), edges |-> Held(S, "edges"),
                     conditions |-> ToSet(d.conditions)]
       /\ View(e) = [name |-> d.name, id |-> d.id, graphs |-> IdsOf(T),
                     nodes |-> Held(T, "nodes"), edges |-> Held(T, "edges"),
                     conditions |-> ToSet(d.conditions)]
  BY <1>9 DEF View, S, T, list
<1>20. SameBut(View(d), View(e), "graphs")
  <2>1. \A q \in Parts \ {"graphs"} : View(d)[q] = View(e)[q]
    BY <1>15, <1>19 DEF Parts
  <2>2. View(d).name = View(e).name /\ View(d).id = View(e).id
    BY <1>19
  <2> QED
    BY <2>1, <2>2 DEF SameBut
<1>21. Link(cmd, View(d), View(e))
  BY <1>1, <1>18, <1>19, <1>20 DEF Link
<1> QED
  BY <1>13, <1>21 DEF StepsTo, e

(* and hence every command. *)
LEMMA CommandSteps ==
    ASSUME MarksAreApart, NEW K, NEW d \in SoundCampaigns(K),
           NEW cmd \in CommandsOf(K), Ready(cmd, d)
    PROVE  StepsTo(K, cmd, d)
  BY NodeOrEdgeStep, ConditionStep, GraphStep DEF CommandsOf

-----------------------------------------------------------------------------
(* What leads somewhere *)

\* What has its place in a list is told apart by its id.
LEMMA Listed ==
    ASSUME NEW X, NEW list \in Seq(X), Distinct(list)
    PROVE  /\ \A x : x \in ToSet(list) <=> \E i \in 1..Len(list) : list[i] = x
           /\ \A x, y \in ToSet(list) : x.id = y.id => x = y
           /\ \A k : HasId(list, k) <=> \E x \in ToSet(list) : x.id = k
<1>1. \A x : x \in ToSet(list) <=> \E i \in 1..Len(list) : list[i] = x
  BY DEF ToSet
<1>2. \A k : HasId(list, k) <=> \E x \in ToSet(list) : x.id = k
  BY <1>1 DEF HasId
<1> QED
  BY <1>1, <1>2 DEF Distinct

(* The lists of a sound campaign, as CommandSteps and the chains need them. *)
LEMMA SoundSets ==
    ASSUME NEW K, NEW d \in SoundCampaigns(K)
    PROVE  /\ d.graphs \in Seq(GraphOf(K)) /\ Distinct(d.graphs)
           /\ d.conditions \in Seq(EdgeOf(K)) /\ Distinct(d.conditions)
           /\ \A g \in ToSet(d.graphs) : g \in GraphOf(K) /\ SoundGraph(g)
<1>1. /\ d.graphs \in Seq(GraphOf(K)) /\ Distinct(d.graphs)
      /\ d.conditions \in Seq(EdgeOf(K)) /\ Distinct(d.conditions)
      /\ \A g \in 1..Len(d.graphs) : SoundGraph(d.graphs[g])
  BY DEF SoundCampaigns, CampaignOf
<1>2. \A g \in ToSet(d.graphs) : \E i \in 1..Len(d.graphs) : d.graphs[i] = g
  BY <1>1 DEF ToSet
<1> QED
  BY <1>1, <1>2

(* The two lists of a sound graph. *)
LEMMA PartLists ==
    ASSUME NEW K, NEW g \in GraphOf(K), SoundGraph(g), NEW part \in {"nodes", "edges"}
    PROVE  g[part] \in Seq(ItemOf(K, part)) /\ Distinct(g[part])
  BY DEF GraphOf, SoundGraph, ItemOf

\* A list whose items are traded has what the trade needs.
LEMMA TradeFinds ==
    ASSUME NEW X, NEW list \in Seq(X), Distinct(list), NEW L \in Seq(X), Distinct(L), NEW cmd,
           cmd.what \in Adding =>
              cmd.new \in ToSet(L) /\ ToSet(list) = ToSet(L) \ {cmd.new},
           cmd.what \notin Adding => cmd.old \in ToSet(list)
    PROVE  Finds(cmd, list)
<1>1. CASE cmd.what \in Adding
  <2>1. ASSUME HasId(list, cmd.new.id) PROVE FALSE
    <3>1. PICK x \in ToSet(list) : x.id = cmd.new.id
      BY <2>1, Listed
    <3>2. x \in ToSet(L) /\ cmd.new \in ToSet(L) /\ x # cmd.new
      BY <1>1, <3>1
    <3> QED
      BY <3>1, <3>2, Listed
  <2> QED
    BY <1>1, <2>1 DEF Finds
<1>2. CASE cmd.what \notin Adding
  <2>1. \E i \in 1..Len(list) : list[i] = cmd.old
    BY <1>2, Listed
  <2> QED
    BY <1>2, <2>1 DEF Finds
<1> QED
  BY <1>1, <1>2

\* A command that leads somewhere finds what it needs.
LEMMA LinkReady ==
    ASSUME NEW K, NEW c \in SoundCampaigns(K), NEW e \in SoundCampaigns(K),
           NEW cmd \in CommandsOf(K), Link(cmd, View(c), View(e))
    PROVE  Ready(cmd, c)
<1> DEFINE part == PartOf[cmd.what]
           S == ToSet(c.graphs)
           T == ToSet(e.graphs)
           v == View(c)
           w == View(e)
<1>1. SameBut(v, w, part) /\ Trades(v[part], w[part], OutOf(cmd), InOf(cmd)) /\ part \in Parts
  BY CommandKinds DEF Link
<1>2. ~(cmd.what \in Adding /\ cmd.what \in Removing)
  BY CommandKinds
<1>3. /\ v.graphs = IdsOf(S) /\ v.nodes = Held(S, "nodes") /\ v.edges = Held(S, "edges")
      /\ v.conditions = ToSet(c.conditions)
      /\ w.graphs = IdsOf(T) /\ w.nodes = Held(T, "nodes") /\ w.edges = Held(T, "edges")
      /\ w.conditions = ToSet(e.conditions)
  BY DEF View
<1>4. /\ c.graphs \in Seq(GraphOf(K)) /\ Distinct(c.graphs)
      /\ c.conditions \in Seq(EdgeOf(K)) /\ Distinct(c.conditions)
      /\ e.graphs \in Seq(GraphOf(K)) /\ Distinct(e.graphs)
      /\ e.conditions \in Seq(EdgeOf(K)) /\ Distinct(e.conditions)
      /\ \A g \in S \cup T : g \in GraphOf(K) /\ SoundGraph(g)
  BY SoundSets
<1> HIDE DEF part, S, T, v, w
<1>5. CASE part = "conditions"
  <2>1. Trades(ToSet(c.conditions), ToSet(e.conditions), OutOf(cmd), InOf(cmd))
    BY <1>1, <1>3, <1>5
  <2>2. /\ OutOf(cmd) = IF cmd.what \in Adding THEN {} ELSE {cmd.old}
        /\ InOf(cmd) = IF cmd.what \in Removing THEN {} ELSE {cmd.new}
    BY <1>5 DEF OutOf, InOf, Fact, part
  <2>3. cmd.what \in Adding =>
              cmd.new \in ToSet(e.conditions) /\ ToSet(c.conditions) = ToSet(e.conditions) \ {cmd.new}
    BY <1>2, <2>1, <2>2 DEF Trades
  <2>4. cmd.what \notin Adding => cmd.old \in ToSet(c.conditions)
    BY <2>1, <2>2 DEF Trades
  <2>5. Finds(cmd, c.conditions)
    BY <1>4, <2>3, <2>4, TradeFinds
  <2> QED
    BY <1>5, <2>5 DEF Ready, part
<1>6. CASE part = "graphs"
  <2>1. cmd \in GraphCommands(K)
    BY <1>6, CommandKinds DEF CommandsOf, part
  <2>2. /\ cmd.what \notin Adding => cmd.what \in Removing
        /\ cmd.old \in EmptyGraphOf(K)
    BY <2>1 DEF GraphCommands, Adding, Removing
  <2>3. Trades(IdsOf(S), IdsOf(T), OutOf(cmd), InOf(cmd))
    BY <1>1, <1>3, <1>6
  <2>4. /\ OutOf(cmd) = IF cmd.what \in Adding THEN {} ELSE {cmd.old.id}
        /\ InOf(cmd) = IF cmd.what \in Removing THEN {} ELSE {cmd.new.id}
    BY <1>6 DEF OutOf, InOf, Fact, part
  <2>5. CASE cmd.what \in Adding
    <3>1. cmd.new.id \notin IdsOf(S)
      BY <1>2, <2>3, <2>4, <2>5 DEF Trades
    <3>2. ~HasId(c.graphs, cmd.new.id)
      BY <1>4, <3>1, Listed DEF IdsOf, S
    <3> QED
      BY <1>6, <2>5, <3>2 DEF Ready, Finds, part
  <2>6. CASE cmd.what \notin Adding
    <3> DEFINE k == cmd.old.id
    <3>1. k \in IdsOf(S) /\ k \notin IdsOf(T)
      BY <2>2, <2>3, <2>4, <2>6 DEF Trades
    <3>2. PICK g \in S : g.id = k
      BY <3>1 DEF IdsOf
    <3>3. Held(S, "nodes") = Held(T, "nodes") /\ Held(S, "edges") = Held(T, "edges")
      <4>1. v.nodes = w.nodes /\ v.edges = w.edges
        BY <1>1, <1>6 DEF SameBut, Parts
      <4> QED
        BY <1>3, <4>1
    <3>4. ASSUME NEW q \in {"nodes", "edges"} PROVE g[q] = <<>>
      <4>1. Held(S, q) = Held(T, q)
        BY <3>3
      <4>2. \A x : <<k, x>> \in Held(T, q) => k \in IdsOf(T)
        BY HeldFacts DEF IdsOf
      <4>3. \A x \in ToSet(g[q]) : <<k, x>> \in Held(S, q)
        BY <3>2, HeldFacts
      <4>4. \A x : x \notin ToSet(g[q])
        BY <3>1, <4>1, <4>2, <4>3
      <4>5. g[q] \in Seq(ItemOf(K, q))
        BY <1>4, PartLists
      <4>6. \A i \in 1..Len(g[q]) : g[q][i] \in ToSet(g[q])
        BY <4>5 DEF ToSet
      <4>7. Len(g[q]) = 0
        <5>1. Len(g[q]) \in Nat
          BY <4>5
        <5>2. Len(g[q]) # 0 => 1 \in 1..Len(g[q])
          BY <5>1
        <5> QED
          BY <4>4, <4>6, <5>2
      <4> QED
        BY <4>5, <4>7
    <3>5. g = cmd.old
      <4>1. g.nodes = <<>> /\ g.edges = <<>>
        BY <3>4
      <4>2. g = [id |-> g.id, nodes |-> g.nodes, edges |-> g.edges]
        BY <1>4 DEF GraphOf
      <4>3. cmd.old = [id |-> cmd.old.id, nodes |-> <<>>, edges |-> <<>>]
        BY <2>2 DEF EmptyGraphOf
      <4> QED
        BY <3>2, <4>1, <4>2, <4>3
    <3>6. \E i \in 1..Len(c.graphs) : c.graphs[i] = cmd.old
      BY <1>4, <3>5, Listed DEF S
    <3> QED
      BY <1>6, <2>6, <3>6 DEF Ready, Finds, part
  <2> QED
    BY <2>5, <2>6
<1>7. CASE part \in {"nodes", "edges"}
  <2> DEFINE a == cmd.graph
  <2>1. Trades(Held(S, part), Held(T, part), OutOf(cmd), InOf(cmd)) /\ IdsOf(S) = IdsOf(T)
    <3>1. v[part] = Held(S, part) /\ w[part] = Held(T, part)
      BY <1>3, <1>7
    <3>2. v.graphs = w.graphs
      BY <1>1, <1>7 DEF SameBut, Parts
    <3> QED
      BY <1>1, <1>3, <3>1, <3>2
  <2>2. /\ cmd.what \in Adding => OutOf(cmd) = {} /\ InOf(cmd) = {<<a, cmd.new>>}
        /\ cmd.what \notin Adding => OutOf(cmd) = {<<a, cmd.old>>}
    <3>1. \A x : Fact(cmd, x) = {<<a, x>>}
      BY <1>7 DEF Fact, part
    <3> QED
      BY <1>2, <3>1 DEF OutOf, InOf
  <2>3. a \in IdsOf(S)
    <3>1. CASE cmd.what \in Adding
      <4>1. <<a, cmd.new>> \in Held(T, part)
        BY <2>1, <2>2, <3>1 DEF Trades
      <4>2. a \in IdsOf(T)
        BY <4>1, HeldFacts DEF IdsOf
      <4> QED
        BY <2>1, <4>2
    <3>2. CASE cmd.what \notin Adding
      <4>1. <<a, cmd.old>> \in Held(S, part)
        BY <2>1, <2>2, <3>2 DEF Trades
      <4> QED
        BY <4>1, HeldFacts DEF IdsOf
    <3> QED
      BY <3>1, <3>2
  <2>4. PICK g \in S : g.id = a
    BY <2>3 DEF IdsOf
  <2>5. PICK h \in T : h.id = a
    BY <2>1, <2>3 DEF IdsOf
  <2>6. \A x : x \in ToSet(g[part]) <=> <<a, x>> \in Held(S, part)
    <3>1. \A y \in S : y.id = a => y = g
      BY <1>4, <2>4, Listed DEF S
    <3> QED
      BY <2>4, <3>1, HeldFacts
  <2>7. \A x : x \in ToSet(h[part]) <=> <<a, x>> \in Held(T, part)
    <3>1. \A y \in T : y.id = a => y = h
      BY <1>4, <2>5, Listed DEF T
    <3> QED
      BY <2>5, <3>1, HeldFacts
  <2>8. /\ g[part] \in Seq(ItemOf(K, part)) /\ Distinct(g[part])
        /\ h[part] \in Seq(ItemOf(K, part)) /\ Distinct(h[part])
    BY <1>4, <1>7, PartLists
  <2>9. ASSUME cmd.what \in Adding
        PROVE  cmd.new \in ToSet(h[part]) /\ ToSet(g[part]) = ToSet(h[part]) \ {cmd.new}
    <3>1. <<a, cmd.new>> \in Held(T, part) /\ Held(S, part) = Held(T, part) \ {<<a, cmd.new>>}
      BY <2>1, <2>2, <2>9 DEF Trades
    <3>2. \A x : x \in ToSet(g[part]) <=> x \in ToSet(h[part]) /\ x # cmd.new
      BY <2>6, <2>7, <3>1
    <3> QED
      BY <2>7, <3>1, <3>2
  <2>10. ASSUME cmd.what \notin Adding PROVE cmd.old \in ToSet(g[part])
    BY <2>1, <2>2, <2>6, <2>10 DEF Trades
  <2>11. Finds(cmd, g[part])
    BY <2>8, <2>9, <2>10, TradeFinds
  <2>12. PICK i \in 1..Len(c.graphs) : c.graphs[i] = g
    BY <1>4, Listed DEF S
  <2> QED
    BY <1>7, <2>4, <2>11, <2>12 DEF Ready, part
<1> QED
  BY <1>1, <1>5, <1>6, <1>7 DEF Parts

\* A command leads from one view to one other.
LEMMA LinkOnce ==
    ASSUME NEW K, NEW cmd \in CommandsOf(K), NEW v, NEW a, NEW b,
           Link(cmd, v, View(a)), Link(cmd, v, View(b))
    PROVE  View(a) = View(b)
<1> DEFINE part == PartOf[cmd.what]
           w == View(a)
           u == View(b)
<1>1. /\ SameBut(v, w, part) /\ Trades(v[part], w[part], OutOf(cmd), InOf(cmd))
      /\ SameBut(v, u, part) /\ Trades(v[part], u[part], OutOf(cmd), InOf(cmd))
      /\ part \in Parts
  BY CommandKinds DEF Link
<1>2. /\ w = [name |-> w.name, id |-> w.id, graphs |-> w.graphs, nodes |-> w.nodes,
              edges |-> w.edges, conditions |-> w.conditions]
      /\ u = [name |-> u.name, id |-> u.id, graphs |-> u.graphs, nodes |-> u.nodes,
              edges |-> u.edges, conditions |-> u.conditions]
  BY DEF View
<1> HIDE DEF part, w, u
<1>3. w[part] = u[part]
  BY <1>1 DEF Trades
<1>4. \A q \in Parts : w[q] = u[q]
  BY <1>1, <1>3 DEF SameBut
<1>5. /\ w.name = u.name /\ w.id = u.id
      /\ w.graphs = u.graphs /\ w.nodes = u.nodes /\ w.edges = u.edges /\ w.conditions = u.conditions
  <2>1. w.name = u.name /\ w.id = u.id
    BY <1>1 DEF SameBut
  <2> QED
    BY <1>4, <2>1 DEF Parts
<1>6. w = u
  BY <1>2, <1>5
<1> QED
  BY <1>6 DEF w, u

\* A command that leads from one campaign to another does so from every one that looks alike.
LEMMA LinkApplies ==
    ASSUME MarksAreApart, NEW K, NEW c \in SoundCampaigns(K), NEW e \in SoundCampaigns(K),
           NEW cmd \in CommandsOf(K), Link(cmd, View(c), View(e)),
           NEW d \in SoundCampaigns(K), View(d) = View(c)
    PROVE  ApplyCampaign(cmd, d) \in SoundCampaigns(K) /\ View(ApplyCampaign(cmd, d)) = View(e)
<1>1. Link(cmd, View(d), View(e))
  OBVIOUS
<1>2. Ready(cmd, d)
  BY <1>1, LinkReady
<1>3. StepsTo(K, cmd, d)
  BY <1>2, CommandSteps
<1>4. /\ ApplyCampaign(cmd, d) \in SoundCampaigns(K)
      /\ Link(cmd, View(d), View(ApplyCampaign(cmd, d)))
  BY <1>3 DEF StepsTo
<1>5. View(ApplyCampaign(cmd, d)) = View(e)
  BY <1>1, <1>4, LinkOnce
<1> QED
  BY <1>4, <1>5

-----------------------------------------------------------------------------
(* Undo and redo stacks *)

\* The commands, from the first to the last, lead to campaign d.
Past(K, cmds, d) ==
    /\ cmds \in Seq(CommandsOf(K))
    /\ \E V : /\ \A k \in 0..Len(cmds) : V[k] \in SoundCampaigns(K)
              /\ View(V[Len(cmds)]) = View(d)
              /\ \A k \in 1..Len(cmds) : Link(cmds[k], View(V[k - 1]), View(V[k]))

\* The commands lead on from campaign d, from the last of them to the first.
Future(K, cmds, d) ==
    /\ cmds \in Seq(CommandsOf(K))
    /\ \E V : /\ \A k \in 0..Len(cmds) : V[k] \in SoundCampaigns(K)
              /\ View(V[Len(cmds)]) = View(d)
              /\ \A k \in 1..Len(cmds) : Link(cmds[k], View(V[k]), View(V[k - 1]))

\* A new session remembers nothing.
LEMMA NothingYet ==
    ASSUME NEW K, NEW d \in SoundCampaigns(K)
    PROVE  Past(K, <<>>, d) /\ Future(K, <<>>, d)
<1> DEFINE V == [k \in {0} |-> d]
<1>1. <<>> \in Seq(CommandsOf(K)) /\ Len(<<>>) = 0
  OBVIOUS
<1>2. V[0] = d /\ 0..0 = {0} /\ 1..0 = {}
  OBVIOUS
<1> HIDE DEF V
<1> QED
  BY <1>1, <1>2 DEF Past, Future

\* A command more, and what it leads to.
LEMMA PastGrows ==
    ASSUME NEW K, NEW cmds, NEW d, Past(K, cmds, d), NEW e \in SoundCampaigns(K),
           NEW cmd \in CommandsOf(K), Link(cmd, View(d), View(e))
    PROVE  Past(K, Append(cmds, cmd), e)
<1> DEFINE n == Len(cmds)
           l == Append(cmds, cmd)
<1>1. PICK V : /\ \A k \in 0..n : V[k] \in SoundCampaigns(K)
               /\ View(V[n]) = View(d)
               /\ \A k \in 1..n : Link(cmds[k], View(V[k - 1]), View(V[k]))
  BY DEF Past
<1> DEFINE W == [k \in 0..(n + 1) |-> IF k = n + 1 THEN e ELSE V[k]]
<1>2. /\ cmds \in Seq(CommandsOf(K)) /\ n \in Nat
      /\ l \in Seq(CommandsOf(K)) /\ Len(l) = n + 1 /\ l[n + 1] = cmd
      /\ \A k \in 1..n : l[k] = cmds[k]
  BY DEF Past
<1>3. W[n + 1] = e /\ \A k \in 0..n : W[k] = V[k]
  BY <1>2
<1> HIDE DEF l, W
<1>4. \A k \in 0..(n + 1) : W[k] \in SoundCampaigns(K)
  BY <1>1, <1>2, <1>3
<1>5. ASSUME NEW k \in 1..(n + 1) PROVE Link(l[k], View(W[k - 1]), View(W[k]))
  <2>1. CASE k = n + 1
    BY <1>1, <1>2, <1>3, <2>1
  <2>2. CASE k # n + 1
    <3>1. k \in 1..n /\ k - 1 \in 0..n
      BY <1>2, <2>2
    <3> QED
      BY <1>1, <1>2, <1>3, <3>1
  <2> QED
    BY <2>1, <2>2
<1> QED
  BY <1>2, <1>3, <1>4, <1>5 DEF Past, l

\* The oldest command is forgotten.
LEMMA PastForgets ==
    ASSUME NEW K, NEW cmds, NEW d, Past(K, cmds, d), cmds # <<>>
    PROVE  Past(K, Tail(cmds), d)
<1> DEFINE n == Len(cmds)
           l == Tail(cmds)
<1>1. PICK V : /\ \A k \in 0..n : V[k] \in SoundCampaigns(K)
               /\ View(V[n]) = View(d)
               /\ \A k \in 1..n : Link(cmds[k], View(V[k - 1]), View(V[k]))
  BY DEF Past
<1> DEFINE W == [k \in 0..(n - 1) |-> V[k + 1]]
<1>2. /\ cmds \in Seq(CommandsOf(K)) /\ n \in Nat \ {0}
      /\ l \in Seq(CommandsOf(K)) /\ Len(l) = n - 1
      /\ \A k \in 1..(n - 1) : l[k] = cmds[k + 1]
  BY DEF Past
<1>3. \A k \in 0..(n - 1) : W[k] = V[k + 1]
  BY <1>2
<1> HIDE DEF l, W
<1>4. \A k \in 0..(n - 1) : W[k] \in SoundCampaigns(K)
  BY <1>1, <1>2, <1>3
<1>5. ASSUME NEW k \in 1..(n - 1) PROVE Link(l[k], View(W[k - 1]), View(W[k]))
  <2>1. k + 1 \in 1..n /\ k - 1 \in 0..(n - 1) /\ k \in 0..(n - 1) /\ (k + 1) - 1 = k /\ (k - 1) + 1 = k
    BY <1>2
  <2> QED
    BY <1>1, <1>2, <1>3, <2>1
<1>6. View(W[n - 1]) = View(d)
  BY <1>1, <1>2, <1>3
<1> QED
  BY <1>2, <1>4, <1>5, <1>6 DEF Past, l

\* The last command is taken back.
LEMMA PastShrinks ==
    ASSUME NEW K, NEW cmds, NEW d, Past(K, cmds, d), cmds # <<>>
    PROVE  /\ Last(cmds) \in CommandsOf(K)
           /\ \E e \in SoundCampaigns(K) :
                Link(Last(cmds), View(e), View(d)) /\ Past(K, Front(cmds), e)
<1> DEFINE n == Len(cmds)
           l == Front(cmds)
<1>1. PICK V : /\ \A k \in 0..n : V[k] \in SoundCampaigns(K)
               /\ View(V[n]) = View(d)
               /\ \A k \in 1..n : Link(cmds[k], View(V[k - 1]), View(V[k]))
  BY DEF Past
<1>2. /\ cmds \in Seq(CommandsOf(K)) /\ n \in Nat \ {0}
      /\ l \in Seq(CommandsOf(K)) /\ Len(l) = n - 1
      /\ \A k \in 1..(n - 1) : l[k] = cmds[k]
      /\ Last(cmds) = cmds[n] /\ Last(cmds) \in CommandsOf(K)
  BY FrontAndLast DEF Past
<1> HIDE DEF l
<1>3. V[n - 1] \in SoundCampaigns(K) /\ Link(Last(cmds), View(V[n - 1]), View(d))
  BY <1>1, <1>2
<1>4. /\ \A k \in 0..(n - 1) : V[k] \in SoundCampaigns(K)
      /\ \A k \in 1..(n - 1) : Link(l[k], View(V[k - 1]), View(V[k]))
  BY <1>1, <1>2
<1>5. Past(K, l, V[n - 1])
  BY <1>2, <1>4 DEF Past
<1> QED
  BY <1>2, <1>3, <1>5 DEF l

\* A command that was taken back can be done again.
LEMMA FutureGrows ==
    ASSUME NEW K, NEW cmds, NEW d, Future(K, cmds, d), NEW e \in SoundCampaigns(K),
           NEW cmd \in CommandsOf(K), Link(cmd, View(e), View(d))
    PROVE  Future(K, Append(cmds, cmd), e)
<1> DEFINE n == Len(cmds)
           l == Append(cmds, cmd)
<1>1. PICK V : /\ \A k \in 0..n : V[k] \in SoundCampaigns(K)
               /\ View(V[n]) = View(d)
               /\ \A k \in 1..n : Link(cmds[k], View(V[k]), View(V[k - 1]))
  BY DEF Future
<1> DEFINE W == [k \in 0..(n + 1) |-> IF k = n + 1 THEN e ELSE V[k]]
<1>2. /\ cmds \in Seq(CommandsOf(K)) /\ n \in Nat
      /\ l \in Seq(CommandsOf(K)) /\ Len(l) = n + 1 /\ l[n + 1] = cmd
      /\ \A k \in 1..n : l[k] = cmds[k]
  BY DEF Future
<1>3. W[n + 1] = e /\ \A k \in 0..n : W[k] = V[k]
  BY <1>2
<1> HIDE DEF l, W
<1>4. \A k \in 0..(n + 1) : W[k] \in SoundCampaigns(K)
  BY <1>1, <1>2, <1>3
<1>5. ASSUME NEW k \in 1..(n + 1) PROVE Link(l[k], View(W[k]), View(W[k - 1]))
  <2>1. CASE k = n + 1
    BY <1>1, <1>2, <1>3, <2>1
  <2>2. CASE k # n + 1
    <3>1. k \in 1..n /\ k - 1 \in 0..n
      BY <1>2, <2>2
    <3> QED
      BY <1>1, <1>2, <1>3, <3>1
  <2> QED
    BY <2>1, <2>2
<1> QED
  BY <1>2, <1>3, <1>4, <1>5 DEF Future, l

\* The command that is next to be done again.
LEMMA FutureShrinks ==
    ASSUME NEW K, NEW cmds, NEW d, Future(K, cmds, d), cmds # <<>>
    PROVE  /\ Last(cmds) \in CommandsOf(K)
           /\ \E e \in SoundCampaigns(K) :
                Link(Last(cmds), View(d), View(e)) /\ Future(K, Front(cmds), e)
<1> DEFINE n == Len(cmds)
           l == Front(cmds)
<1>1. PICK V : /\ \A k \in 0..n : V[k] \in SoundCampaigns(K)
               /\ View(V[n]) = View(d)
               /\ \A k \in 1..n : Link(cmds[k], View(V[k]), View(V[k - 1]))
  BY DEF Future
<1>2. /\ cmds \in Seq(CommandsOf(K)) /\ n \in Nat \ {0}
      /\ l \in Seq(CommandsOf(K)) /\ Len(l) = n - 1
      /\ \A k \in 1..(n - 1) : l[k] = cmds[k]
      /\ Last(cmds) = cmds[n] /\ Last(cmds) \in CommandsOf(K)
  BY FrontAndLast DEF Future
<1> HIDE DEF l
<1>3. V[n - 1] \in SoundCampaigns(K) /\ Link(Last(cmds), View(d), View(V[n - 1]))
  BY <1>1, <1>2
<1>4. /\ \A k \in 0..(n - 1) : V[k] \in SoundCampaigns(K)
      /\ \A k \in 1..(n - 1) : Link(l[k], View(V[k]), View(V[k - 1]))
  BY <1>1, <1>2
<1>5. Future(K, l, V[n - 1])
  BY <1>2, <1>4 DEF Future
<1> QED
  BY <1>2, <1>3, <1>5 DEF l

\* Applying a list of commands makes one campaign after the other.
CampaignRun(f, cmds, d) ==
    f = [k \in 0..Len(cmds) |-> IF k = 0 THEN d ELSE H!After(cmds[Len(cmds) + 1 - k], f[k - 1])]

Unwinding(f, n, cmds, d) ==
    /\ f[0] = d
    /\ \A k \in 1..n : f[k] = H!After(cmds[n + 1 - k], f[k - 1])
    /\ H!Unwound(cmds, d) = f[n]

\* Applying commands in turn is a run: CHOOSE finds the one there is.
LEMMA CampaignRuns ==
    ASSUME NEW cmds, NEW n \in Nat, Len(cmds) = n, NEW d
    PROVE  \E f : Unwinding(f, n, cmds, d)
<1> DEFINE next(k, doc) == H!After(cmds[n + 1 - k], doc)
           Begun(m, f) == f[0] = d /\ \A k \in 1..m : f[k] = next(k, f[k - 1])
           S == {m \in Nat : \E f : Begun(m, f)}
<1> HIDE DEF next
<1>1. 0 \in S
  <2>1. [k \in {0} |-> d][0] = d /\ 1..0 = {}
    OBVIOUS
  <2> QED
    BY <2>1
<1>2. ASSUME NEW m \in Nat, m \in S PROVE m + 1 \in S
  <2>1. PICK f : Begun(m, f)
    BY <1>2
  <2> DEFINE g == [k \in 0..(m + 1) |-> IF k = m + 1 THEN next(m + 1, f[m]) ELSE f[k]]
  <2>2. g[m + 1] = next(m + 1, f[m]) /\ \A k \in 0..m : g[k] = f[k]
    OBVIOUS
  <2> HIDE DEF g
  <2>3. ASSUME NEW k \in 1..(m + 1) PROVE g[k] = next(k, g[k - 1])
    <3>1. CASE k = m + 1
      BY <2>2, <3>1
    <3>2. CASE k # m + 1
      <4>1. k \in 1..m /\ k \in 0..m /\ k - 1 \in 0..m
        BY <3>2
      <4> QED
        BY <2>1, <2>2, <4>1
    <3> QED
      BY <3>1, <3>2
  <2>4. Begun(m + 1, g)
    BY <2>1, <2>2, <2>3
  <2> QED
    BY <2>4
<1> HIDE DEF S
<1>3. n \in S
  BY <1>1, <1>2, NatSetInduction
<1>4. PICK f : Begun(n, f)
  BY <1>3 DEF S
<1> DEFINE g == [k \in 0..n |-> f[k]]
<1>5. CampaignRun(g, cmds, d)
  <2>1. \A k \in 0..n : g[k] = f[k]
    OBVIOUS
  <2>2. ASSUME NEW k \in 0..n PROVE g[k] = IF k = 0 THEN d ELSE next(k, g[k - 1])
    <3>1. CASE k = 0
      BY <1>4, <2>1, <3>1
    <3>2. CASE k # 0
      <4>1. k \in 1..n /\ k - 1 \in 0..n
        BY <3>2
      <4> QED
        BY <1>4, <2>1, <3>2, <4>1
    <3> QED
      BY <3>1, <3>2
  <2> DEFINE h == [k \in 0..n |-> IF k = 0 THEN d ELSE next(k, g[k - 1])]
  <2>3. g = h
    <3>1. \A k \in 0..n : g[k] = h[k]
      BY <2>2
    <3>2. g = [k \in 0..n |-> g[k]] /\ h = [k \in 0..n |-> h[k]]
      OBVIOUS
    <3> QED
      BY <3>1, <3>2
  <2> QED
    BY <2>3 DEF CampaignRun, next
<1> HIDE DEF g
<1>6. PICK run : run = (CHOOSE r : CampaignRun(r, cmds, d))
  OBVIOUS
<1>7. CampaignRun(run, cmds, d)
  BY <1>5, <1>6
<1>8. H!Unwound(cmds, d) = run[n]
  BY <1>6 DEF H!Unwound, CampaignRun
<1>9. \A k \in 0..n : run[k] = IF k = 0 THEN d ELSE H!After(cmds[n + 1 - k], run[k - 1])
  BY <1>7 DEF CampaignRun
<1>10. run[0] = d /\ \A k \in 1..n : run[k] = H!After(cmds[n + 1 - k], run[k - 1])
  BY <1>9
<1> QED
  BY <1>8, <1>10 DEF Unwinding

\* The answer for a refused command is no campaign.
LEMMA SoundIsACampaign ==
    ASSUME MarksAreApart, NEW K, NEW d \in SoundCampaigns(K)
    PROVE  d # NoCampaign
  BY DEF MarksAreApart, SoundCampaigns, CampaignOf

\* The commands, from the last to the first, lead from each campaign of V to the next.
Chain(K, cmds, V, n) ==
    /\ Len(cmds) = n
    /\ \A k \in 0..n : V[k] \in SoundCampaigns(K)
    /\ \A k \in 1..n : /\ cmds[n + 1 - k] \in CommandsOf(K)
                       /\ Link(cmds[n + 1 - k], View(V[k - 1]), View(V[k]))

\* Such commands can be applied to what looks like the first campaign, and make what looks
\* like the last.
LEMMA CampaignUnwinds ==
    ASSUME MarksAreApart, NEW K, NEW cmds, NEW n \in Nat, NEW V, Chain(K, cmds, V, n),
           NEW d \in SoundCampaigns(K), View(d) = View(V[0])
    PROVE  /\ H!Unwound(cmds, d) \in SoundCampaigns(K)
           /\ View(H!Unwound(cmds, d)) = View(V[n])
<1>1. PICK f : Unwinding(f, n, cmds, d)
  BY CampaignRuns DEF Chain
<1>2. /\ \A k \in 0..n : V[k] \in SoundCampaigns(K)
      /\ \A k \in 1..n : /\ cmds[n + 1 - k] \in CommandsOf(K)
                         /\ Link(cmds[n + 1 - k], View(V[k - 1]), View(V[k]))
  BY DEF Chain
<1>3. /\ f[0] = d
      /\ \A k \in 1..n : f[k] = H!After(cmds[n + 1 - k], f[k - 1])
      /\ H!Unwound(cmds, d) = f[n]
  BY <1>1 DEF Unwinding
<1> DEFINE S == {k \in Nat : k <= n => f[k] \in SoundCampaigns(K) /\ View(f[k]) = View(V[k])}
<1>4. 0 \in S
  BY <1>3
<1>5. ASSUME NEW k \in Nat, k \in S PROVE k + 1 \in S
  <2> SUFFICES ASSUME k + 1 <= n
               PROVE  f[k + 1] \in SoundCampaigns(K) /\ View(f[k + 1]) = View(V[k + 1])
    OBVIOUS
  <2>1. k + 1 \in 1..n /\ k \in 0..n /\ k + 1 \in 0..n /\ (k + 1) - 1 = k
    OBVIOUS
  <2> DEFINE cmd == cmds[n + 1 - (k + 1)]
  <2>2. f[k] \in SoundCampaigns(K) /\ View(f[k]) = View(V[k])
    BY <1>5
  <2>3. f[k + 1] = ApplyCampaign(cmd, f[k])
    <3>1. f[k + 1] = H!After(cmd, f[k])
      BY <1>3, <2>1
    <3>2. f[k] # NoCampaign
      BY <2>2, SoundIsACampaign
    <3> QED
      BY <3>1, <3>2 DEF H!After
  <2>4. cmd \in CommandsOf(K) /\ Link(cmd, View(V[k]), View(V[k + 1]))
    BY <1>2, <2>1
  <2>5. V[k] \in SoundCampaigns(K) /\ V[k + 1] \in SoundCampaigns(K)
    BY <1>2, <2>1
  <2> HIDE DEF cmd
  <2> QED
    BY <2>2, <2>3, <2>4, <2>5, LinkApplies
<1> HIDE DEF S
<1>6. n \in S
  BY <1>4, <1>5, NatSetInduction
<1> QED
  BY <1>3, <1>6 DEF S

\* A session whose campaign its history led to, and leads on from.
SoundHistory(K, d, h) ==
    /\ d \in SoundCampaigns(K)
    /\ Past(K, h.undo, d)
    /\ Future(K, h.redo, d)

\* A command that fits is done and remembered.
LEMMA ExecuteKeepsHistory ==
    ASSUME MarksAreApart, NEW K, NEW d, NEW h, SoundHistory(K, d, h),
           NEW cmd \in CommandsOf(K), Ready(cmd, d)
    PROVE  SoundHistory(K, H!Execute(cmd, d, h).doc, H!Execute(cmd, d, h).history)
<1> DEFINE e == ApplyCampaign(cmd, d)
           o == H!Execute(cmd, d, h)
           undo == Append(h.undo, cmd)
<1>1. d \in SoundCampaigns(K) /\ Past(K, h.undo, d)
  BY DEF SoundHistory
<1>2. e \in SoundCampaigns(K) /\ Link(cmd, View(d), View(e)) /\ e # NoCampaign
  BY <1>1, CommandSteps, SoundIsACampaign DEF StepsTo
<1>3. Past(K, undo, e)
  BY <1>1, <1>2, PastGrows
<1>4. o.doc = e /\ o.history.undo = H!Capped(undo) /\ o.history.redo = <<>>
  BY <1>2 DEF H!Execute, H!Outcome
<1>5. Past(K, H!Capped(undo), e)
  <2>1. undo # <<>>
    BY <1>1 DEF Past
  <2> QED
    BY <1>3, <2>1, PastForgets DEF H!Capped
<1>6. Future(K, <<>>, e)
  BY <1>2, NothingYet
<1> HIDE DEF e, o
<1> QED
  BY <1>2, <1>4, <1>5, <1>6 DEF SoundHistory, o

\* Undo takes the last command back.
LEMMA UndoKeepsHistory ==
    ASSUME MarksAreApart, NEW K, NEW d, NEW h, SoundHistory(K, d, h)
    PROVE  SoundHistory(K, H!Undo(d, h).doc, H!Undo(d, h).history)
<1> DEFINE o == H!Undo(d, h)
           cmd == Last(h.undo)
           f == ApplyCampaign(InverseCommand(cmd), d)
<1>1. CASE h.undo = <<>>
  <2>1. o.doc = d /\ o.history.undo = h.undo /\ o.history.redo = h.redo
    BY <1>1 DEF H!Undo, H!Outcome
  <2> QED
    BY <2>1 DEF SoundHistory
<1>2. CASE h.undo # <<>>
  <2>1. d \in SoundCampaigns(K) /\ Past(K, h.undo, d) /\ Future(K, h.redo, d)
    BY DEF SoundHistory
  <2>2. cmd \in CommandsOf(K)
    BY <1>2, <2>1, PastShrinks
  <2>3. PICK e \in SoundCampaigns(K) : Link(cmd, View(e), View(d)) /\ Past(K, Front(h.undo), e)
    BY <1>2, <2>1, PastShrinks
  <2>4. InverseCommand(cmd) \in CommandsOf(K) /\ Link(InverseCommand(cmd), View(d), View(e))
    BY <2>2, <2>3, InverseFacts
  <2>5. f \in SoundCampaigns(K) /\ View(f) = View(e) /\ f # NoCampaign
    BY <2>1, <2>3, <2>4, LinkApplies, SoundIsACampaign
  <2>6. o.doc = f /\ o.history.undo = Front(h.undo) /\ o.history.redo = Append(h.redo, cmd)
    BY <1>2, <2>5 DEF H!Undo, H!Outcome, H!Last, H!Front, Last, Front
  <2> HIDE DEF f, cmd
  <2>7. Past(K, Front(h.undo), f)
    BY <2>3, <2>5 DEF Past
  <2>8. Future(K, Append(h.redo, cmd), f)
    BY <2>1, <2>2, <2>3, <2>5, FutureGrows
  <2> QED
    BY <2>5, <2>6, <2>7, <2>8 DEF SoundHistory
<1> QED
  BY <1>1, <1>2

\* Redo does it again.
LEMMA RedoKeepsHistory ==
    ASSUME MarksAreApart, NEW K, NEW d, NEW h, SoundHistory(K, d, h)
    PROVE  SoundHistory(K, H!Redo(d, h).doc, H!Redo(d, h).history)
<1> DEFINE o == H!Redo(d, h)
           cmd == Last(h.redo)
           f == ApplyCampaign(cmd, d)
<1>1. CASE h.redo = <<>>
  <2>1. o.doc = d /\ o.history.undo = h.undo /\ o.history.redo = h.redo
    BY <1>1 DEF H!Redo, H!Outcome
  <2> QED
    BY <2>1 DEF SoundHistory
<1>2. CASE h.redo # <<>>
  <2>1. d \in SoundCampaigns(K) /\ Past(K, h.undo, d) /\ Future(K, h.redo, d)
    BY DEF SoundHistory
  <2>2. cmd \in CommandsOf(K)
    BY <1>2, <2>1, FutureShrinks
  <2>3. PICK e \in SoundCampaigns(K) : Link(cmd, View(d), View(e)) /\ Future(K, Front(h.redo), e)
    BY <1>2, <2>1, FutureShrinks
  <2>4. f \in SoundCampaigns(K) /\ View(f) = View(e) /\ f # NoCampaign
    BY <2>1, <2>2, <2>3, LinkApplies, SoundIsACampaign
  <2>5. o.doc = f /\ o.history.undo = Append(h.undo, cmd) /\ o.history.redo = Front(h.redo)
    BY <1>2, <2>4 DEF H!Redo, H!Outcome, H!Last, H!Front, Last, Front
  <2> HIDE DEF f, cmd
  <2>6. Future(K, Front(h.redo), f)
    BY <2>3, <2>4 DEF Future
  <2>7. Past(K, Append(h.undo, cmd), f)
    BY <2>1, <2>2, <2>3, <2>4, PastGrows
  <2> QED
    BY <2>4, <2>5, <2>6, <2>7 DEF SoundHistory
<1> QED
  BY <1>1, <1>2

-----------------------------------------------------------------------------
(* What looks alike *)

\* A list with no id twice is as long as it has items.
LEMMA SizeOfDistinct ==
    ASSUME NEW X, NEW list \in Seq(X), Distinct(list)
    PROVE  Cardinality(ToSet(list)) = Len(list)
<1> DEFINE n == Len(list)
           f == [i \in 1..n |-> list[i]]
<1>1. n \in Nat /\ ToSet(list) = {list[i] : i \in 1..n}
  BY DEF ToSet
<1>2. \A i, j \in 1..n : list[i] = list[j] => i = j
  BY DEF Distinct
<1> HIDE DEF n
<1>3. f \in [1..n -> ToSet(list)]
  BY <1>1
<1>4. \A i, j \in 1..n : f[i] = f[j] => i = j
  BY <1>2
<1>5. \A y \in ToSet(list) : \E i \in 1..n : f[i] = y
  BY <1>1
<1> HIDE DEF f
<1>6. f \in Bijection(1..n, ToSet(list))
  BY <1>3, <1>4, <1>5, Fun_IsBij
<1>7. ExistsBijection(1..n, ToSet(list))
  BY <1>6 DEF ExistsBijection
<1> QED
  BY <1>1, <1>7, FS_CountingElements DEF n

\* Two such lists of the same items are as long as each other.
LEMMA SameDistinctItems ==
    ASSUME NEW X, NEW a \in Seq(X), NEW b \in Seq(X), Distinct(a), Distinct(b),
           ToSet(a) = ToSet(b)
    PROVE  SameItems(a, b)
<1>1. Cardinality(ToSet(a)) = Len(a) /\ Cardinality(ToSet(b)) = Len(b)
  BY SizeOfDistinct
<1> QED
  BY <1>1 DEF SameItems

\* Campaigns that hold the same things are alike.
LEMMA AlikeWhenViewed ==
    ASSUME NEW K, NEW a \in SoundCampaigns(K), NEW b \in SoundCampaigns(K), View(a) = View(b)
    PROVE  AlikeCampaigns(a, b)
<1> DEFINE S == ToSet(a.graphs)
           T == ToSet(b.graphs)
<1>1. /\ a.name = b.name /\ a.id = b.id /\ IdsOf(S) = IdsOf(T)
      /\ Held(S, "nodes") = Held(T, "nodes") /\ Held(S, "edges") = Held(T, "edges")
      /\ ToSet(a.conditions) = ToSet(b.conditions)
  BY DEF View
<1>2. /\ a.conditions \in Seq(EdgeOf(K)) /\ Distinct(a.conditions)
      /\ b.conditions \in Seq(EdgeOf(K)) /\ Distinct(b.conditions)
      /\ a.graphs \in Seq(GraphOf(K)) /\ Distinct(a.graphs)
      /\ b.graphs \in Seq(GraphOf(K)) /\ Distinct(b.graphs)
      /\ DOMAIN a.graphs = 1..Len(a.graphs) /\ DOMAIN b.graphs = 1..Len(b.graphs)
      /\ \A g \in S \cup T : g \in GraphOf(K) /\ SoundGraph(g)
  BY SoundSets
<1>3. SameItems(a.conditions, b.conditions)
  BY <1>1, <1>2, SameDistinctItems
<1>4. ASSUME NEW i \in DOMAIN a.graphs, NEW j \in DOMAIN b.graphs, NEW part \in {"nodes", "edges"},
             a.graphs[i].id = b.graphs[j].id
      PROVE  SameItems(a.graphs[i][part], b.graphs[j][part])
  <2> DEFINE G == a.graphs[i]
             G2 == b.graphs[j]
  <2>1. G \in S /\ G2 \in T
    BY <1>2 DEF ToSet
  <2>2. /\ \A g \in S : g.id = G.id => g = G
        /\ \A g \in T : g.id = G2.id => g = G2
    BY <1>2, <2>1, Listed
  <2>3. Held(S, part) = Held(T, part) /\ G.id = G2.id
    BY <1>1, <1>4
  <2> HIDE DEF G, G2, S, T
  <2>4. \A x : <<G.id, x>> \in Held(S, part) <=> x \in ToSet(G[part])
    BY <2>1, <2>2, HeldFacts
  <2>5. \A x : <<G2.id, x>> \in Held(T, part) <=> x \in ToSet(G2[part])
    BY <2>1, <2>2, HeldFacts
  <2>6. \A x : x \in ToSet(G[part]) <=> x \in ToSet(G2[part])
    BY <2>3, <2>4, <2>5
  <2>7. ToSet(G[part]) = ToSet(G2[part])
    BY <2>6
  <2>8. /\ G[part] \in Seq(ItemOf(K, part)) /\ Distinct(G[part])
        /\ G2[part] \in Seq(ItemOf(K, part)) /\ Distinct(G2[part])
    BY <1>2, <2>1, PartLists
  <2>9. SameItems(G[part], G2[part])
    BY <2>7, <2>8, SameDistinctItems
  <2> QED
    BY <2>9 DEF G, G2
<1>5. {g.id : g \in S} = {g.id : g \in T}
  BY <1>1 DEF IdsOf
<1> QED
  BY <1>1, <1>3, <1>4, <1>5 DEF AlikeCampaigns

-----------------------------------------------------------------------------
(* Undoing and redoing everything *)

\* The whole past of a campaign can be undone and done again, and what that makes looks
\* like the campaign.
LEMMA PastLeadsBack ==
    ASSUME MarksAreApart, NEW K, NEW d \in SoundCampaigns(K), NEW cmds, Past(K, cmds, d),
           NEW o, o = H!Unwound(H!Reversals(cmds), d)
    PROVE  /\ o \in SoundCampaigns(K)
           /\ H!Unwound(H!Reverse(cmds), o) \in SoundCampaigns(K)
           /\ View(H!Unwound(H!Reverse(cmds), o)) = View(d)
<1> DEFINE n == Len(cmds)
           back == H!Reversals(cmds)
           again == H!Reverse(cmds)
<1>1. PICK V : /\ \A k \in 0..n : V[k] \in SoundCampaigns(K)
               /\ View(V[n]) = View(d)
               /\ \A k \in 1..n : Link(cmds[k], View(V[k - 1]), View(V[k]))
  BY DEF Past
<1>2. n \in Nat /\ DOMAIN cmds = 1..n /\ \A k \in 1..n : cmds[k] \in CommandsOf(K)
  BY DEF Past
<1>3. Len(back) = n /\ \A k \in 1..n : back[k] = InverseCommand(cmds[k])
  BY <1>2 DEF H!Reversals
<1>4. Len(again) = n /\ \A k \in 1..n : again[k] = cmds[(n - k) + 1]
  BY <1>2 DEF H!Reverse, Reverse
<1> DEFINE W == [k \in 0..n |-> V[n - k]]
<1>5. \A k \in 0..n : W[k] = V[n - k]
  OBVIOUS
<1> HIDE DEF back, again, W
<1>6. ASSUME NEW k \in 1..n
      PROVE  /\ back[n + 1 - k] \in CommandsOf(K)
             /\ Link(back[n + 1 - k], View(W[k - 1]), View(W[k]))
  <2> DEFINE i == n + 1 - k
  <2>1. i \in 1..n /\ n - (k - 1) = i /\ n - k = i - 1 /\ k - 1 \in 0..n /\ k \in 0..n
    BY <1>2
  <2>2. W[k - 1] = V[i] /\ W[k] = V[i - 1]
    BY <1>5, <2>1
  <2> HIDE DEF i
  <2>3. cmds[i] \in CommandsOf(K) /\ Link(cmds[i], View(V[i - 1]), View(V[i]))
    BY <1>1, <1>2, <2>1
  <2>4. /\ InverseCommand(cmds[i]) \in CommandsOf(K)
        /\ Link(InverseCommand(cmds[i]), View(V[i]), View(V[i - 1]))
    BY <2>3, InverseFacts
  <2>5. back[i] = InverseCommand(cmds[i])
    BY <1>3, <2>1
  <2> QED
    BY <2>2, <2>4, <2>5 DEF i
<1>7. ASSUME NEW k \in 0..n PROVE W[k] \in SoundCampaigns(K)
  BY <1>1, <1>2, <1>5
<1>8. Chain(K, back, W, n)
  BY <1>3, <1>6, <1>7 DEF Chain
<1>9. W[0] = V[n] /\ W[n] = V[0]
  BY <1>2, <1>5
<1>10. o \in SoundCampaigns(K) /\ View(o) = View(V[0])
  <2>1. View(d) = View(W[0])
    BY <1>1, <1>9
  <2>2. n \in Nat /\ Chain(K, back, W, n) /\ View(d) = View(W[0])
    BY <1>2, <1>8, <2>1
  <2> HIDE DEF n
  <2>3. H!Unwound(back, d) \in SoundCampaigns(K) /\ View(H!Unwound(back, d)) = View(W[n])
    BY <2>2, CampaignUnwinds
  <2> QED
    BY <1>9, <2>3 DEF back
<1>11. ASSUME NEW k \in 1..n
       PROVE  /\ again[n + 1 - k] \in CommandsOf(K)
              /\ Link(again[n + 1 - k], View(V[k - 1]), View(V[k]))
  <2>1. n + 1 - k \in 1..n /\ (n - (n + 1 - k)) + 1 = k
    BY <1>2
  <2>2. again[n + 1 - k] = cmds[k]
    BY <1>4, <2>1
  <2> QED
    BY <1>1, <1>2, <2>2
<1>12. Chain(K, again, V, n)
  BY <1>1, <1>4, <1>11 DEF Chain
<1>13. /\ H!Unwound(again, o) \in SoundCampaigns(K)
       /\ View(H!Unwound(again, o)) = View(V[n])
  <2>1. n \in Nat /\ Chain(K, again, V, n) /\ o \in SoundCampaigns(K) /\ View(o) = View(V[0])
    BY <1>2, <1>10, <1>12
  <2> HIDE DEF n
  <2> QED
    BY <2>1, CampaignUnwinds
<1> QED
  BY <1>1, <1>10, <1>13 DEF again

\* Everything that was undone can be redone.
LEMMA FutureLeadsOn ==
    ASSUME MarksAreApart, NEW K, NEW d \in SoundCampaigns(K), NEW cmds, Future(K, cmds, d)
    PROVE  H!Unwound(cmds, d) \in SoundCampaigns(K)
<1> DEFINE n == Len(cmds)
<1>1. PICK V : /\ \A k \in 0..n : V[k] \in SoundCampaigns(K)
               /\ View(V[n]) = View(d)
               /\ \A k \in 1..n : Link(cmds[k], View(V[k]), View(V[k - 1]))
  BY DEF Future
<1>2. n \in Nat /\ \A k \in 1..n : cmds[k] \in CommandsOf(K)
  BY DEF Future
<1> DEFINE W == [k \in 0..n |-> V[n - k]]
<1>3. \A k \in 0..n : W[k] = V[n - k]
  OBVIOUS
<1> HIDE DEF W
<1>4. ASSUME NEW k \in 1..n
      PROVE  /\ cmds[n + 1 - k] \in CommandsOf(K)
             /\ Link(cmds[n + 1 - k], View(W[k - 1]), View(W[k]))
  <2>1. n + 1 - k \in 1..n /\ n - (k - 1) = n + 1 - k /\ n - k = (n + 1 - k) - 1
        /\ k - 1 \in 0..n /\ k \in 0..n
    BY <1>2
  <2>2. W[k - 1] = V[n + 1 - k] /\ W[k] = V[(n + 1 - k) - 1]
    BY <1>3, <2>1
  <2> QED
    BY <1>1, <1>2, <2>1, <2>2
<1>5. ASSUME NEW k \in 0..n PROVE W[k] \in SoundCampaigns(K)
  BY <1>1, <1>2, <1>3
<1>6. Chain(K, cmds, W, n)
  BY <1>4, <1>5 DEF Chain
<1>7. View(d) = View(W[0])
  BY <1>1, <1>2, <1>3
<1> QED
  BY <1>2, <1>6, <1>7, CampaignUnwinds

\* A sound history is what CampaignHistoryReplays asks for.
LEMMA SoundHistoryReplays ==
    ASSUME MarksAreApart, NEW K, NEW d, NEW h, SoundHistory(K, d, h)
    PROVE  H!Replays(d, h, AlikeCampaigns)
<1> DEFINE o == H!Unwound(H!Reversals(h.undo), d)
           again == H!Unwound(H!Reverse(h.undo), o)
<1>1. d \in SoundCampaigns(K) /\ Past(K, h.undo, d) /\ Future(K, h.redo, d)
  BY DEF SoundHistory
<1>2. o \in SoundCampaigns(K) /\ again \in SoundCampaigns(K) /\ View(again) = View(d)
  BY <1>1, PastLeadsBack
<1>3. H!Unwound(h.redo, d) \in SoundCampaigns(K)
  BY <1>1, FutureLeadsOn
<1> HIDE DEF o, again
<1>4. o # NoCampaign /\ again # NoCampaign /\ H!Unwound(h.redo, d) # NoCampaign
  BY <1>2, <1>3, SoundIsACampaign
<1>5. AlikeCampaigns(again, d)
  BY <1>1, <1>2, AlikeWhenViewed
<1>6. H!Origin(d, h) = o
  BY DEF H!Origin, o
<1>7. H!Rewinds(d, h)
  BY <1>4, <1>6 DEF H!Rewinds
<1>8. H!Unwound(H!Reverse(h.undo), H!Origin(d, h)) = again
  BY <1>6 DEF again
<1> QED
  BY <1>4, <1>5, <1>7, <1>8 DEF H!Replays

-----------------------------------------------------------------------------
(* The ids a campaign is made of *)

\* After n generated ids there are these; what an earlier run of the server left goes by
\* its name.
Known(n) == Names \cup 0..(n - 1)

\* A generated id is no campaign's name.
IdsAreFresh == Names \cap Nat = {}

\* The next id is new.
LEMMA NextId ==
    ASSUME IdsAreFresh, NEW n \in Nat
    PROVE  n \notin Known(n) /\ n \in Known(n + 1) /\ Known(n) \subseteq Known(n + 1)
  BY DEF IdsAreFresh, Known

\* What is a sound campaign, or a command, remains one when there are more ids.
LEMMA MoreCampaigns ==
    ASSUME NEW K, NEW L, K \subseteq L
    PROVE  /\ SoundCampaigns(K) \subseteq SoundCampaigns(L)
           /\ CommandsOf(K) \subseteq CommandsOf(L)
<1>1. NodeOf(K) \subseteq NodeOf(L) /\ EdgeOf(K) \subseteq EdgeOf(L)
  BY DEF NodeOf, EdgeOf
<1>2. \A X, Y : X \subseteq Y => Seq(X) \subseteq Seq(Y)
  OBVIOUS
<1>3. Seq(NodeOf(K)) \subseteq Seq(NodeOf(L)) /\ Seq(EdgeOf(K)) \subseteq Seq(EdgeOf(L))
  BY <1>1, <1>2
<1>4. GraphOf(K) \subseteq GraphOf(L)
  BY <1>3 DEF GraphOf
<1>5. Seq(GraphOf(K)) \subseteq Seq(GraphOf(L))
  BY <1>2, <1>4
<1>6. CampaignOf(K) \subseteq CampaignOf(L)
  BY <1>3, <1>5 DEF CampaignOf
<1>7. NodeCommands(K) \subseteq NodeCommands(L)
  BY <1>1 DEF NodeCommands
<1>8. EdgeCommands(K) \subseteq EdgeCommands(L)
  BY <1>1 DEF EdgeCommands
<1>9. GraphCommands(K) \subseteq GraphCommands(L)
  BY DEF GraphCommands, EmptyGraphOf
<1>10. ConditionCommands(K) \subseteq ConditionCommands(L)
  BY <1>1 DEF ConditionCommands
<1> QED
  BY <1>6, <1>7, <1>8, <1>9, <1>10 DEF SoundCampaigns, CommandsOf

\* So does a sound history.
LEMMA MoreHistory ==
    ASSUME NEW K, NEW L, K \subseteq L, NEW d, NEW h, SoundHistory(K, d, h)
    PROVE  SoundHistory(L, d, h)
<1>1. SoundCampaigns(K) \subseteq SoundCampaigns(L) /\ CommandsOf(K) \subseteq CommandsOf(L)
  BY MoreCampaigns
<1>2. \A X, Y : X \subseteq Y => Seq(X) \subseteq Seq(Y)
  OBVIOUS
<1>3. Seq(CommandsOf(K)) \subseteq Seq(CommandsOf(L))
  BY <1>1, <1>2
<1>4. Past(K, h.undo, d) => Past(L, h.undo, d)
  BY <1>1, <1>3 DEF Past
<1>5. Future(K, h.redo, d) => Future(L, h.redo, d)
  BY <1>1, <1>3 DEF Future
<1> QED
  BY <1>1, <1>4, <1>5 DEF SoundHistory

-----------------------------------------------------------------------------
(* The invariant *)

\* What can be in a file.
Doc(K, x) == x \in {NoFile, Torn} \cup SoundCampaigns(K)

\* Every campaign in a file, in a request or in a session is sound, and every session's
\* history fits its campaign.
HistInv ==
    /\ ids \in Nat
    /\ \A s \in Files : Doc(Known(ids), file[s]) /\ Doc(Known(ids), tmp[s])
    /\ \A c \in Clients : Writing(c) => req[c].doc \in SoundCampaigns(Known(ids))
    /\ \A n \in Names : session[n] # NoSession =>
         SoundHistory(Known(ids), session[n].campaign, session[n].history)

\* A step that leaves each thing as it was or makes it sound keeps the invariant.
LEMMA HistStep ==
    ASSUME IdsAreFresh, HistInv, ids' \in {ids, ids + 1},
           \A s \in Files : /\ file'[s] = file[s] \/ Doc(Known(ids'), file'[s])
                            /\ tmp'[s] = tmp[s] \/ Doc(Known(ids'), tmp'[s]),
           \A c \in Clients : Writing(c)' =>
              \/ Writing(c) /\ req'[c].doc = req[c].doc
              \/ req'[c].doc \in SoundCampaigns(Known(ids')),
           \A n \in Names : session'[n] # NoSession =>
              \/ session'[n] = session[n]
              \/ SoundHistory(Known(ids'), session'[n].campaign, session'[n].history)
    PROVE  HistInv'
<1>1. ids \in Nat /\ ids' \in Nat
  BY DEF HistInv
<1>2. Known(ids) \subseteq Known(ids')
  BY <1>1, NextId
<1>3. SoundCampaigns(Known(ids)) \subseteq SoundCampaigns(Known(ids'))
  BY <1>2, MoreCampaigns
<1>4. \A x : Doc(Known(ids), x) => Doc(Known(ids'), x)
  BY <1>3 DEF Doc
<1>5. \A s \in Files : Doc(Known(ids'), file'[s]) /\ Doc(Known(ids'), tmp'[s])
  BY <1>4 DEF HistInv
<1>6. \A c \in Clients : Writing(c)' => req'[c].doc \in SoundCampaigns(Known(ids'))
  BY <1>3 DEF HistInv
<1>7. ASSUME NEW n \in Names, session'[n] # NoSession
      PROVE  SoundHistory(Known(ids'), session'[n].campaign, session'[n].history)
  <2>1. CASE session'[n] = session[n]
    <3>1. SoundHistory(Known(ids), session[n].campaign, session[n].history)
      BY <1>7, <2>1 DEF HistInv
    <3> QED
      BY <1>2, <2>1, <3>1, MoreHistory
  <2> QED
    BY <1>7, <2>1
<1>8. /\ \A s \in Files : Doc(Known(ids)', file'[s]) /\ Doc(Known(ids)', tmp'[s])
      /\ \A c \in Clients : Writing(c)' => req'[c].doc \in SoundCampaigns(Known(ids)')
      /\ \A n \in Names : session'[n] # NoSession =>
           SoundHistory(Known(ids)', session'[n].campaign, session'[n].history)
  BY <1>5, <1>6, <1>7 DEF Known
<1> QED
  BY <1>1, <1>8 DEF HistInv, Doc, SoundCampaigns, CampaignOf, GraphOf, NodeOf, EdgeOf

-----------------------------------------------------------------------------
(* Requests, loads and stops *)

\* A new campaign, and what an earlier run left of one, are sound.
LEMMA FreshCampaigns ==
    ASSUME NEW K, NEW n \in Names, NEW i \in K
    PROVE  /\ NewCampaign(n, i) \in SoundCampaigns(K)
           /\ n \in K => EarlierCampaign(n) \in SoundCampaigns(K)
<1>1. /\ <<>> \in Seq(GraphOf(K)) /\ <<>> \in Seq(EdgeOf(K)) /\ <<>> \in Seq(NodeOf(K))
      /\ Len(<<>>) = 0 /\ 1..0 = {}
  OBVIOUS
<1>2. Distinct(<<>>)
  BY <1>1 DEF Distinct
<1>3. NewCampaign(n, i) \in SoundCampaigns(K)
  BY <1>1, <1>2 DEF NewCampaign, SoundCampaigns, CampaignOf
<1>4. ASSUME n \in K PROVE EarlierCampaign(n) \in SoundCampaigns(K)
  <2> DEFINE g == [id |-> n, nodes |-> <<>>, edges |-> <<>>]
  <2>1. g \in GraphOf(K) /\ SoundGraph(g)
    BY <1>1, <1>2, <1>4 DEF GraphOf, SoundGraph
  <2>2. EarlierCampaign(n) = [name |-> n, id |-> n, graphs |-> <<g>>, conditions |-> <<>>]
    BY DEF EarlierCampaign, NewCampaign
  <2> HIDE DEF g
  <2>3. <<g>> \in Seq(GraphOf(K)) /\ Len(<<g>>) = 1 /\ <<g>>[1] = g
    BY <2>1
  <2>4. Distinct(<<g>>) /\ \A k \in 1..1 : SoundGraph(<<g>>[k])
    BY <2>1, <2>3 DEF Distinct
  <2> QED
    BY <1>1, <1>2, <1>4, <2>2, <2>3, <2>4 DEF SoundCampaigns, CampaignOf
<1> QED
  BY <1>3, <1>4

\* A session that begins with a sound campaign remembers nothing yet.
LEMMA NewSessionIsSound ==
    ASSUME NEW K, NEW d \in SoundCampaigns(K)
    PROVE  /\ SoundHistory(K, NewSession(d).campaign, NewSession(d).history)
           /\ NewSession(d).campaign = d
  BY NothingYet DEF SoundHistory, NewSession, H!EmptyHistory

\* What a request under way writes is a sound campaign, and keeps its file.
LEMMA RequestKeepsDoc ==
    ASSUME DiskInv, HistInv, NEW c \in Clients,
           req[c].step \in {"truncate", "fill", "rename", "insert"}
    PROVE  /\ Writing(c) /\ Slug[req[c].doc.name] \in Files /\ req[c].name \in Names
           /\ req[c].doc \in SoundCampaigns(Known(ids))
<1>1. Writing(c)
  BY DEF DiskInv, Tables, Deleting, Idle
<1>2. Slug[req[c].doc.name] = On(c) /\ On(c) \in Files /\ req[c].name \in Names
  BY <1>1, Kinds, SlugFacts DEF Writing, On
<1> QED
  BY <1>1, <1>2 DEF HistInv

\* The steps of a write, the insertion of a session and the removal of a file.
LEMMA RequestsStaySound ==
    ASSUME IdsAreFresh, DiskInv, HistInv, NEW c \in Clients,
           \/ WriteOpens(c) \/ WriteFills(c) \/ WriteRenames(c) \/ WriteFails(c)
           \/ CreateInserts(c) \/ DeleteUnlinks(c)
    PROVE  HistInv'
<1> DEFINE K == Known(ids)
           s == Slug[req[c].doc.name]
<1>1. ids' = ids
  BY DEF WriteOpens, WriteFills, WriteRenames, WriteFails, CreateInserts, DeleteUnlinks
<1>2. /\ DOMAIN req = Clients /\ DOMAIN file = Files /\ DOMAIN tmp = Files /\ DOMAIN session = Names
      /\ \A f \in Files : Doc(K, file[f]) /\ Doc(K, tmp[f])
  BY DEF DiskInv, Tables, HistInv
<1>3. Doc(K, NoFile) /\ Doc(K, Torn) /\ \A x \in SoundCampaigns(K) : Doc(K, x)
  BY DEF Doc
<1>4. ASSUME ~DeleteUnlinks(c)
      PROVE  /\ Writing(c) /\ s \in Files /\ req[c].name \in Names
             /\ req[c].doc \in SoundCampaigns(K)
  <2>1. req[c].step \in {"truncate", "fill", "rename", "insert"}
    BY <1>4 DEF WriteOpens, WriteFills, WriteRenames, WriteFails, CreateInserts
  <2> QED
    BY <2>1, RequestKeepsDoc
<1> HIDE DEF K
<1>5. \A d \in Clients : Writing(d)' => Writing(d) /\ req'[d].doc = req[d].doc
  <2>1. \A d \in Clients \ {c} : req'[d] = req[d]
    BY <1>2 DEF WriteOpens, WriteFills, WriteRenames, WriteFails, CreateInserts, DeleteUnlinks, Done
  <2>2. \A d \in Clients \ {c} : Writing(d)' => Writing(d) /\ req'[d].doc = req[d].doc
    BY <2>1 DEF Writing
  <2>3. req'[c] = Idle \/ Writing(c)
    BY <1>2, <1>4 DEF DeleteUnlinks
  <2>4. req'[c] = Idle => ~Writing(c)'
    BY DEF Writing, Idle
  <2>5. req'[c] = Idle \/ \E step : req' = [req EXCEPT ![c].step = step]
    BY <1>2 DEF WriteOpens, WriteFills, WriteRenames, WriteFails, CreateInserts, DeleteUnlinks, Done
  <2>6. ASSUME NEW step, req' = [req EXCEPT ![c].step = step], Writing(c)
        PROVE  req'[c].doc = req[c].doc
    BY <1>2, <2>6 DEF Writing
  <2>7. Writing(c)' => Writing(c) /\ req'[c].doc = req[c].doc
    BY <2>3, <2>4, <2>5, <2>6
  <2> QED
    BY <2>2, <2>7
<1>6. \A f \in Files : /\ file'[f] = file[f] \/ Doc(K, file'[f])
                       /\ tmp'[f] = tmp[f] \/ Doc(K, tmp'[f])
  <2>1. CASE WriteOpens(c)
    BY <1>2, <1>3, <1>4, <2>1 DEF WriteOpens, DeleteUnlinks
  <2>2. CASE WriteFills(c)
    <3>1. Doc(K, req[c].doc)
      BY <1>3, <1>4, <2>2 DEF WriteFills, DeleteUnlinks
    <3>2. /\ tmp' \in {tmp, [tmp EXCEPT ![s] = req[c].doc]}
          /\ file' \in {file, [file EXCEPT ![s] = req[c].doc]}
      BY <2>2 DEF WriteFills
    <3> HIDE DEF s
    <3> QED
      BY <1>2, <3>1, <3>2
  <2>3. CASE WriteRenames(c)
    <3>1. s \in Files
      BY <1>4, <2>3 DEF WriteRenames, DeleteUnlinks
    <3>2. file' = [file EXCEPT ![s] = tmp[s]] /\ tmp' = [tmp EXCEPT ![s] = NoFile]
      BY <2>3 DEF WriteRenames
    <3> HIDE DEF s
    <3> QED
      BY <1>2, <1>3, <3>1, <3>2
  <2>4. CASE WriteFails(c) \/ CreateInserts(c)
    BY <2>4 DEF WriteFails, CreateInserts
  <2>5. CASE DeleteUnlinks(c)
    BY <1>2, <1>3, <2>5 DEF DeleteUnlinks
  <2> QED
    BY <2>1, <2>2, <2>3, <2>4, <2>5
<1>7. ASSUME NEW n \in Names, session'[n] # NoSession
      PROVE  \/ session'[n] = session[n]
             \/ SoundHistory(K, session'[n].campaign, session'[n].history)
  <2>1. CASE CreateInserts(c)
    <3>1. req[c].doc \in SoundCampaigns(K)
      BY <1>4, <2>1 DEF CreateInserts, DeleteUnlinks
    <3>2. session' = [session EXCEPT ![req[c].name] = NewSession(req[c].doc)]
      BY <2>1 DEF CreateInserts
    <3> QED
      BY <1>2, <3>1, <3>2, NewSessionIsSound
  <2>2. CASE ~CreateInserts(c)
    BY <2>2 DEF WriteOpens, WriteFills, WriteRenames, WriteFails, DeleteUnlinks
  <2> QED
    BY <2>1, <2>2
<1> QED
  BY <1>1, <1>5, <1>6, <1>7, HistStep DEF K

\* A request that only begins: a create, a load and a delete.
LEMMA BegunStaysSound ==
    ASSUME IdsAreFresh, DiskInv, HistInv, NEW c \in Clients, NEW n \in Names,
           CreateCampaign(c, n) \/ LoadCampaign(c, n) \/ DeleteCampaign(c, n)
    PROVE  HistInv'
<1>1. /\ DOMAIN req = Clients /\ DOMAIN session = Names /\ Slug[n] \in Files /\ ids \in Nat
      /\ file' = file /\ tmp' = tmp
  BY SlugFacts DEF DiskInv, Tables, HistInv, CreateCampaign, LoadCampaign, DeleteCampaign
<1>2. CASE CreateCampaign(c, n)
  <2> DEFINE r == [step |-> "truncate", what |-> "create", name |-> n, doc |-> NewCampaign(n, ids)]
  <2>1. ids' = ids + 1 /\ session' = session /\ req' = [req EXCEPT ![c] = r]
    BY <1>2 DEF CreateCampaign
  <2>2. NewCampaign(n, ids) \in SoundCampaigns(Known(ids'))
    BY <1>1, <2>1, NextId, FreshCampaigns
  <2>3. r.doc = NewCampaign(n, ids)
    OBVIOUS
  <2> HIDE DEF r
  <2>4. req'[c] = r /\ \A d \in Clients \ {c} : req'[d] = req[d]
    BY <1>1, <2>1
  <2>5. \A d \in Clients : Writing(d)' =>
          \/ Writing(d) /\ req'[d].doc = req[d].doc
          \/ req'[d].doc \in SoundCampaigns(Known(ids'))
    BY <2>2, <2>3, <2>4 DEF Writing
  <2> QED
    BY <1>1, <2>1, <2>5, HistStep
<1>3. CASE LoadCampaign(c, n)
  <2>1. /\ ids' = ids /\ req' = req /\ Whole(file[Slug[n]])
        /\ session' = [session EXCEPT ![n] = NewSession(file[Slug[n]])]
    BY <1>3 DEF LoadCampaign
  <2>2. file[Slug[n]] \in SoundCampaigns(Known(ids))
    BY <1>1, <2>1 DEF HistInv, Doc, Whole
  <2>3. \A m \in Names : \/ session'[m] = session[m]
                         \/ SoundHistory(Known(ids'), session'[m].campaign, session'[m].history)
    BY <1>1, <2>1, <2>2, NewSessionIsSound
  <2>4. \A d \in Clients : Writing(d)' => Writing(d) /\ req'[d].doc = req[d].doc
    BY <2>1 DEF Writing
  <2> QED
    BY <1>1, <2>1, <2>3, <2>4, HistStep
<1>4. CASE DeleteCampaign(c, n)
  <2>1. /\ ids' = ids /\ session' = [session EXCEPT ![n] = NoSession]
        /\ req' = [req EXCEPT ![c] = [step |-> "unlink", what |-> "delete", name |-> n]]
    BY <1>4 DEF DeleteCampaign
  <2>2. \A m \in Names : session'[m] # NoSession => session'[m] = session[m]
    BY <1>1, <2>1
  <2>3. req'[c].step = "unlink" /\ \A d \in Clients \ {c} : req'[d] = req[d]
    BY <1>1, <2>1
  <2>4. \A d \in Clients : Writing(d)' => Writing(d) /\ req'[d].doc = req[d].doc
    BY <2>3 DEF Writing
  <2> QED
    BY <1>1, <2>1, <2>2, <2>4, HistStep
<1> QED
  BY <1>2, <1>3, <1>4

\* The server stops and starts again.
LEMMA StopStaysSound == ASSUME IdsAreFresh, HistInv, ServerStops PROVE HistInv'
<1>1. /\ ids' = ids /\ file' = file /\ tmp' = tmp
      /\ session' = [n \in Names |-> NoSession] /\ req' = [c \in Clients |-> Idle]
  BY DEF ServerStops
<1>2. \A c \in Clients : ~Writing(c)'
  BY <1>1 DEF Writing, Idle
<1>3. \A n \in Names : session'[n] = NoSession
  BY <1>1
<1> QED
  BY <1>1, <1>2, <1>3, HistStep

\* What an earlier run of the server left is sound.
LEMMA SoundAtFirst == CampaignInit => HistInv
<1> SUFFICES ASSUME CampaignInit PROVE HistInv
  OBVIOUS
<1>1. PICK kept \in SUBSET Names :
        file = [s \in Range(Slug) |->
                  IF \E n \in kept : Slug[n] = s
                    THEN EarlierCampaign(CHOOSE n \in kept : Slug[n] = s)
                    ELSE NoFile]
  BY DEF CampaignInit
<1>2. \A n \in Names : EarlierCampaign(n) \in SoundCampaigns(Known(ids))
  <2>1. \A n \in Names : n \in Known(ids)
    BY DEF Known
  <2> QED
    BY <2>1, FreshCampaigns
<1>3. \A s \in Files : file[s] = NoFile \/ file[s] \in SoundCampaigns(Known(ids))
  <2> SUFFICES ASSUME NEW s \in Files, NEW n \in kept, Slug[n] = s
               PROVE  file[s] \in SoundCampaigns(Known(ids))
    BY <1>1 DEF Files
  <2>1. PICK m \in kept : file[s] = EarlierCampaign(m)
    BY <1>1 DEF Files
  <2> QED
    BY <1>2, <2>1
<1>4. /\ ids = 0 /\ \A s \in Files : tmp[s] = NoFile
      /\ \A n \in Names : session[n] = NoSession
      /\ \A c \in Clients : req[c] = Idle
  BY DEF CampaignInit, Files
<1>5. \A c \in Clients : ~Writing(c)
  BY <1>4 DEF Writing, Idle
<1> QED
  BY <1>3, <1>4, <1>5 DEF HistInv, Doc

-----------------------------------------------------------------------------
(* Edits *)

\* A handler that changes a campaign makes a sound one, with a history that fits it.
EditsSoundly(c, n) ==
    /\ CanMutate(c, n)
    /\ ids' \in {ids, ids + 1}
    /\ \E o : Mutates(c, n, o) /\ SoundHistory(Known(ids'), o.doc, o.history)

\* Such a handler keeps the invariant.
LEMMA EditsStaySound ==
    ASSUME IdsAreFresh, DiskInv, HistInv, NEW c \in Clients, NEW n \in Names, EditsSoundly(c, n)
    PROVE  HistInv'
<1>1. PICK o : Mutates(c, n, o) /\ SoundHistory(Known(ids'), o.doc, o.history)
  BY DEF EditsSoundly
<1>2. /\ DOMAIN req = Clients /\ DOMAIN session = Names /\ ids' \in {ids, ids + 1}
      /\ file' = file /\ tmp' = tmp
      /\ session' = [session EXCEPT ![n] = [campaign |-> o.doc, history |-> o.history]]
  BY <1>1 DEF DiskInv, Tables, EditsSoundly, Mutates
<1>3. o.doc \in SoundCampaigns(Known(ids'))
  BY <1>1 DEF SoundHistory
<1>4. \A m \in Names : \/ session'[m] = session[m]
                       \/ SoundHistory(Known(ids'), session'[m].campaign, session'[m].history)
  BY <1>1, <1>2
<1>5. \A d \in Clients : req'[d] = req[d] \/ req'[d].doc = o.doc
  BY <1>1, <1>2 DEF Mutates
<1>6. \A d \in Clients : Writing(d)' =>
        \/ Writing(d) /\ req'[d].doc = req[d].doc
        \/ req'[d].doc \in SoundCampaigns(Known(ids'))
  BY <1>3, <1>5 DEF Writing
<1> QED
  BY <1>2, <1>4, <1>6, HistStep

\* A command that fits the session's campaign.
LEMMA ExecutesSoundly ==
    ASSUME MarksAreApart, NEW c, NEW n, CanMutate(c, n), ids' \in {ids, ids + 1},
           SoundHistory(Known(ids'), session[n].campaign, session[n].history),
           NEW cmd \in CommandsOf(Known(ids')), Ready(cmd, session[n].campaign),
           Executes(c, n, cmd)
    PROVE  EditsSoundly(c, n)
<1> DEFINE o == H!Execute(cmd, session[n].campaign, session[n].history)
           K == Known(ids')
<1> HIDE DEF K
<1>1. SoundHistory(K, session[n].campaign, session[n].history) /\ cmd \in CommandsOf(K)
  BY DEF K
<1>2. SoundHistory(K, o.doc, o.history)
  BY <1>1, ExecuteKeepsHistory
<1>3. Mutates(c, n, o)
  BY DEF Executes
<1> HIDE DEF o
<1> QED
  BY <1>2, <1>3 DEF EditsSoundly, K

\* What a session's campaign is made of.
LEMMA SessionGraphs ==
    ASSUME NEW K, NEW d \in SoundCampaigns(K)
    PROVE  /\ d.graphs \in Seq(GraphOf(K)) /\ d.conditions \in Seq(EdgeOf(K))
           /\ \A g \in DOMAIN d.graphs :
                /\ g \in 1..Len(d.graphs) /\ d.graphs[g].id \in K
                /\ d.graphs[g].nodes \in Seq(NodeOf(K)) /\ d.graphs[g].edges \in Seq(EdgeOf(K))
<1>1. d.graphs \in Seq(GraphOf(K)) /\ d.conditions \in Seq(EdgeOf(K))
  BY DEF SoundCampaigns, CampaignOf
<1>2. \A g \in DOMAIN d.graphs : g \in 1..Len(d.graphs) /\ d.graphs[g] \in GraphOf(K)
  BY <1>1
<1> QED
  BY <1>1, <1>2 DEF GraphOf

\* A new id is in no list.
LEMMA NewInList ==
    ASSUME NEW K, NEW X, \A x \in X : x.id \in K, NEW list \in Seq(X), NEW i, i \notin K
    PROVE  ~HasId(list, i)
  BY DEF HasId

\* The handlers that add something.
LEMMA HandlersAdd ==
    ASSUME MarksAreApart, IdsAreFresh, HistInv, NEW c, NEW n \in Names,
           \/ HandleAddGraph(c, n) \/ HandleAddCondition(c, n)
           \/ HandleAddNode(c, n) \/ HandleAddEdge(c, n)
    PROVE  EditsSoundly(c, n)
<1> DEFINE d == session[n].campaign
           h == session[n].history
           K == Known(ids)
           L == Known(ids + 1)
<1>1. CanMutate(c, n) /\ ids' = ids + 1 /\ session[n] # NoSession
  BY DEF HandleAddGraph, HandleAddCondition, HandleAddNode, HandleAddEdge, Adds, CanMutate
<1>2. ids \notin K /\ ids \in L /\ K \subseteq L
  BY NextId DEF HistInv
<1>3. SoundHistory(K, d, h)
  BY <1>1 DEF HistInv
<1> HIDE DEF d, h, K, L
<1>4. d \in SoundCampaigns(K) /\ SoundHistory(L, d, h)
  BY <1>2, <1>3, MoreHistory DEF SoundHistory
<1>5. /\ d.graphs \in Seq(GraphOf(K)) /\ d.conditions \in Seq(EdgeOf(K))
      /\ \A g \in DOMAIN d.graphs :
           /\ g \in 1..Len(d.graphs) /\ d.graphs[g].id \in K
           /\ d.graphs[g].nodes \in Seq(NodeOf(K)) /\ d.graphs[g].edges \in Seq(EdgeOf(K))
  BY <1>4, SessionGraphs
<1>6. /\ \A x \in GraphOf(K) : x.id \in K
      /\ \A x \in EdgeOf(K) : x.id \in K
      /\ \A x \in NodeOf(K) : x.id \in K
  BY DEF GraphOf, EdgeOf, NodeOf
<1>7. ASSUME NEW cmd \in CommandsOf(L), Ready(cmd, d), Executes(c, n, cmd) PROVE EditsSoundly(c, n)
  <2>1. /\ SoundHistory(Known(ids'), session[n].campaign, session[n].history)
        /\ cmd \in CommandsOf(Known(ids')) /\ ids' \in {ids, ids + 1}
        /\ Ready(cmd, session[n].campaign)
    BY <1>1, <1>4, <1>7 DEF d, h, L
  <2> QED
    BY <1>1, <1>7, <2>1, ExecutesSoundly
<1>8. CASE HandleAddGraph(c, n)
  <2> DEFINE g == [id |-> ids, nodes |-> <<>>, edges |-> <<>>]
             cmd == Command("AddGraph", ids, g, g)
  <2>1. Executes(c, n, cmd)
    BY <1>8 DEF HandleAddGraph, Adds
  <2>2. cmd.what = "AddGraph" /\ cmd.new.id = ids
    BY DEF Command
  <2>3. cmd \in CommandsOf(L)
    BY <1>2 DEF Command, CommandsOf, GraphCommands, EmptyGraphOf
  <2> HIDE DEF cmd
  <2>4. ~HasId(d.graphs, ids)
    BY <1>2, <1>5, <1>6, NewInList
  <2>5. Ready(cmd, d)
    BY <2>2, <2>4 DEF Ready, Finds, PartOf, Adding
  <2> QED
    BY <1>7, <2>1, <2>3, <2>5
<1>9. CASE HandleAddCondition(c, n)
  <2> DEFINE cmd == Command("AddCondition", ids, [id |-> ids], [id |-> ids])
  <2>1. Executes(c, n, cmd)
    BY <1>9 DEF HandleAddCondition, Adds
  <2>2. cmd.what = "AddCondition" /\ cmd.new.id = ids
    BY DEF Command
  <2>3. cmd \in CommandsOf(L)
    BY <1>2 DEF Command, CommandsOf, ConditionCommands, EdgeOf
  <2> HIDE DEF cmd
  <2>4. ~HasId(d.conditions, ids)
    BY <1>2, <1>5, <1>6, NewInList
  <2>5. Ready(cmd, d)
    BY <2>2, <2>4 DEF Ready, Finds, PartOf, Adding
  <2> QED
    BY <1>7, <2>1, <2>3, <2>5
<1>10. CASE HandleAddNode(c, n)
  <2>1. PICK g \in DOMAIN d.graphs, type \in NodeTypes, q \in Quests :
          Executes(c, n, Command("AddNode", d.graphs[g].id,
                                 [id |-> ids, type |-> type, quest |-> q],
                                 [id |-> ids, type |-> type, quest |-> q]))
    BY <1>10 DEF HandleAddNode, Adds, d
  <2> DEFINE node == [id |-> ids, type |-> type, quest |-> q]
             cmd == Command("AddNode", d.graphs[g].id, node, node)
  <2>2. cmd.what = "AddNode" /\ cmd.new.id = ids /\ cmd.graph = d.graphs[g].id
    BY DEF Command
  <2>3. cmd \in CommandsOf(L)
    BY <1>2, <1>5 DEF Command, CommandsOf, NodeCommands, NodeOf
  <2> HIDE DEF cmd
  <2>4. ~HasId(d.graphs[g].nodes, ids) /\ g \in 1..Len(d.graphs)
    BY <1>2, <1>5, <1>6, NewInList
  <2>5. Ready(cmd, d)
    BY <2>2, <2>4 DEF Ready, Finds, PartOf, Adding
  <2> QED
    BY <1>7, <2>1, <2>3, <2>5 DEF cmd
<1>11. CASE HandleAddEdge(c, n)
  <2>1. PICK g \in DOMAIN d.graphs :
          Executes(c, n, Command("AddEdge", d.graphs[g].id, [id |-> ids], [id |-> ids]))
    BY <1>11 DEF HandleAddEdge, Adds, d
  <2> DEFINE cmd == Command("AddEdge", d.graphs[g].id, [id |-> ids], [id |-> ids])
  <2>2. cmd.what = "AddEdge" /\ cmd.new.id = ids /\ cmd.graph = d.graphs[g].id
    BY DEF Command
  <2>3. cmd \in CommandsOf(L)
    BY <1>2, <1>5 DEF Command, CommandsOf, EdgeCommands, EdgeOf
  <2> HIDE DEF cmd
  <2>4. ~HasId(d.graphs[g].edges, ids) /\ g \in 1..Len(d.graphs)
    BY <1>2, <1>5, <1>6, NewInList
  <2>5. Ready(cmd, d)
    BY <2>2, <2>4 DEF Ready, Finds, PartOf, Adding
  <2> QED
    BY <1>7, <2>1, <2>3, <2>5 DEF cmd
<1> QED
  BY <1>8, <1>9, <1>10, <1>11

\* The handlers that take something out of a graph, or change it there.
LEMMA HandlersTake ==
    ASSUME MarksAreApart, HistInv, NEW c, NEW n \in Names,
           \/ HandleRemoveNode(c, n) \/ HandleRemoveEdge(c, n)
           \/ \E type \in NodeTypes : HandleUpdateNode(c, n, type)
    PROVE  EditsSoundly(c, n)
<1> DEFINE d == session[n].campaign
           h == session[n].history
           K == Known(ids)
<1>1. CanMutate(c, n) /\ ids' = ids /\ session[n] # NoSession
  BY DEF HandleRemoveNode, HandleRemoveEdge, HandleUpdateNode, FromGraph, CanMutate
<1>2. SoundHistory(K, d, h)
  BY <1>1 DEF HistInv
<1> HIDE DEF d, h, K
<1>3. d \in SoundCampaigns(K)
  BY <1>2 DEF SoundHistory
<1>4. \A g \in DOMAIN d.graphs :
        /\ g \in 1..Len(d.graphs) /\ d.graphs[g].id \in K
        /\ d.graphs[g].nodes \in Seq(NodeOf(K)) /\ d.graphs[g].edges \in Seq(EdgeOf(K))
  BY <1>3, SessionGraphs
<1>5. ASSUME NEW cmd \in CommandsOf(K), Ready(cmd, d), Executes(c, n, cmd) PROVE EditsSoundly(c, n)
  <2>1. /\ SoundHistory(Known(ids'), session[n].campaign, session[n].history)
        /\ cmd \in CommandsOf(Known(ids')) /\ ids' \in {ids, ids + 1}
        /\ Ready(cmd, session[n].campaign)
    BY <1>1, <1>2, <1>5 DEF d, h, K
  <2> QED
    BY <1>1, <1>5, <2>1, ExecutesSoundly
<1>6. ASSUME NEW X, NEW list \in Seq(X), NEW item \in ToSet(list)
      PROVE  item \in X /\ \E i \in 1..Len(list) : list[i] = item
  BY DEF ToSet
<1>7. CASE HandleRemoveNode(c, n)
  <2>0. PICK g \in DOMAIN d.graphs : \E item \in ToSet(d.graphs[g].nodes) :
          Executes(c, n, Command("RemoveNode", d.graphs[g].id, item, item))
    BY <1>7 DEF HandleRemoveNode, FromGraph, d
  <2>1. PICK item \in ToSet(d.graphs[g].nodes) :
          Executes(c, n, Command("RemoveNode", d.graphs[g].id, item, item))
    BY <2>0
  <2> DEFINE cmd == Command("RemoveNode", d.graphs[g].id, item, item)
  <2>2. /\ item \in NodeOf(K) /\ g \in 1..Len(d.graphs)
        /\ \E i \in 1..Len(d.graphs[g].nodes) : d.graphs[g].nodes[i] = item
    <3>1. g \in 1..Len(d.graphs) /\ d.graphs[g].nodes \in Seq(NodeOf(K))
      BY <1>4
    <3> QED
      BY <1>6, <3>1
  <2>3. cmd.what = "RemoveNode" /\ cmd.old = item /\ cmd.graph = d.graphs[g].id
    BY DEF Command
  <2>4. cmd \in CommandsOf(K)
    BY <1>4, <2>2 DEF Command, CommandsOf, NodeCommands
  <2> HIDE DEF cmd
  <2>5. Ready(cmd, d)
    BY <2>2, <2>3 DEF Ready, Finds, PartOf, Adding
  <2> QED
    BY <1>5, <2>1, <2>4, <2>5 DEF cmd
<1>8. CASE HandleRemoveEdge(c, n)
  <2>0. PICK g \in DOMAIN d.graphs : \E item \in ToSet(d.graphs[g].edges) :
          Executes(c, n, Command("RemoveEdge", d.graphs[g].id, item, item))
    BY <1>8 DEF HandleRemoveEdge, FromGraph, d
  <2>1. PICK item \in ToSet(d.graphs[g].edges) :
          Executes(c, n, Command("RemoveEdge", d.graphs[g].id, item, item))
    BY <2>0
  <2> DEFINE cmd == Command("RemoveEdge", d.graphs[g].id, item, item)
  <2>2. /\ item \in EdgeOf(K) /\ g \in 1..Len(d.graphs)
        /\ \E i \in 1..Len(d.graphs[g].edges) : d.graphs[g].edges[i] = item
    <3>1. g \in 1..Len(d.graphs) /\ d.graphs[g].edges \in Seq(EdgeOf(K))
      BY <1>4
    <3> QED
      BY <1>6, <3>1
  <2>3. cmd.what = "RemoveEdge" /\ cmd.old = item /\ cmd.graph = d.graphs[g].id
    BY DEF Command
  <2>4. cmd \in CommandsOf(K)
    BY <1>4, <2>2 DEF Command, CommandsOf, EdgeCommands
  <2> HIDE DEF cmd
  <2>5. Ready(cmd, d)
    BY <2>2, <2>3 DEF Ready, Finds, PartOf, Adding
  <2> QED
    BY <1>5, <2>1, <2>4, <2>5 DEF cmd
<1>9. ASSUME NEW type \in NodeTypes, HandleUpdateNode(c, n, type) PROVE EditsSoundly(c, n)
  <2>0. PICK g \in DOMAIN d.graphs : \E item \in ToSet(d.graphs[g].nodes) :
          Executes(c, n, Command("ModifyNode", d.graphs[g].id, [item EXCEPT !.type = type], item))
    BY <1>9 DEF HandleUpdateNode, FromGraph, d
  <2>1. PICK item \in ToSet(d.graphs[g].nodes) :
          Executes(c, n, Command("ModifyNode", d.graphs[g].id, [item EXCEPT !.type = type], item))
    BY <2>0
  <2> DEFINE new == [item EXCEPT !.type = type]
             cmd == Command("ModifyNode", d.graphs[g].id, new, item)
  <2>2. /\ item \in NodeOf(K) /\ g \in 1..Len(d.graphs)
        /\ \E i \in 1..Len(d.graphs[g].nodes) : d.graphs[g].nodes[i] = item
    <3>1. g \in 1..Len(d.graphs) /\ d.graphs[g].nodes \in Seq(NodeOf(K))
      BY <1>4
    <3> QED
      BY <1>6, <3>1
  <2>3. new \in NodeOf(K) /\ new.id = item.id
    BY <1>9, <2>2 DEF NodeOf
  <2> HIDE DEF new
  <2>4. /\ cmd.what = "ModifyNode" /\ cmd.new = new /\ cmd.old = item
        /\ cmd.graph = d.graphs[g].id
    BY DEF Command
  <2>5. cmd \in CommandsOf(K)
    BY <1>4, <2>2, <2>3 DEF Command, CommandsOf, NodeCommands
  <2> HIDE DEF cmd
  <2>6. Ready(cmd, d)
    BY <2>2, <2>4 DEF Ready, Finds, PartOf, Adding
  <2> QED
    BY <1>5, <2>1, <2>5, <2>6 DEF cmd, new
<1> QED
  BY <1>7, <1>8, <1>9

\* Undo and redo.
LEMMA HandlersUndo ==
    ASSUME MarksAreApart, HistInv, NEW c, NEW n \in Names, HandleUndo(c, n) \/ HandleRedo(c, n)
    PROVE  EditsSoundly(c, n)
<1> DEFINE d == session[n].campaign
           h == session[n].history
           K == Known(ids)
<1>1. CanMutate(c, n) /\ ids' = ids /\ session[n] # NoSession
  BY DEF HandleUndo, HandleRedo, CanMutate
<1>2. SoundHistory(K, d, h)
  BY <1>1 DEF HistInv
<1>3. Mutates(c, n, H!Undo(d, h)) \/ Mutates(c, n, H!Redo(d, h))
  BY DEF HandleUndo, HandleRedo
<1> HIDE DEF d, h, K
<1>4. /\ SoundHistory(K, H!Undo(d, h).doc, H!Undo(d, h).history)
      /\ SoundHistory(K, H!Redo(d, h).doc, H!Redo(d, h).history)
  BY <1>2, UndoKeepsHistory, RedoKeepsHistory
<1>5. \E o : Mutates(c, n, o) /\ SoundHistory(K, o.doc, o.history)
  BY <1>3, <1>4
<1> QED
  BY <1>1, <1>5 DEF EditsSoundly, K

-----------------------------------------------------------------------------
(* Theorems *)

\* The invariant of the campaigns and their histories: no id is twice in a list of a campaign,
\* on disk, in a request or in memory, and each session's two stacks are chains of commands
\* that lead from one such campaign to the next (campaign_history.rs).
THEOREM HistoryInvariant ==
    ASSUME MarksAreApart, IdsAreFresh PROVE CampaignSpec => []HistInv
<1>1. DiskInv /\ HistInv /\ [CampaignNext]_campaignVars => HistInv'
  <2> SUFFICES ASSUME DiskInv, HistInv, [CampaignNext]_campaignVars PROVE HistInv'
    OBVIOUS
  <2>1. ASSUME NEW c \in Clients, NEW n \in Names,
               \/ HandleAddGraph(c, n) \/ HandleAddCondition(c, n)
               \/ HandleAddNode(c, n) \/ HandleRemoveNode(c, n)
               \/ \E type \in NodeTypes : HandleUpdateNode(c, n, type)
               \/ HandleAddEdge(c, n) \/ HandleRemoveEdge(c, n)
               \/ HandleUndo(c, n) \/ HandleRedo(c, n)
        PROVE  HistInv'
    <3>1. EditsSoundly(c, n)
      BY <2>1, HandlersAdd, HandlersTake, HandlersUndo
    <3> QED
      BY <3>1, EditsStaySound
  <2>2. CASE UNCHANGED campaignVars
    <3>1. /\ ids' = ids /\ file' = file /\ tmp' = tmp /\ session' = session /\ req' = req
      BY <2>2 DEF campaignVars
    <3>2. \A c \in Clients : Writing(c)' => Writing(c)
      BY <3>1 DEF Writing
    <3> QED
      BY <3>1, <3>2, HistStep
  <2> QED
    BY <2>1, <2>2, RequestsStaySound, BegunStaysSound, StopStaysSound DEF CampaignNext
<1> QED
  BY <1>1, SoundAtFirst, DiskInvariant, PTL DEF CampaignSpec

\* Whatever edits, undos and redos made a session, through saves that fail, loads and stops
\* of the server, and wherever the limit forgot the oldest commands: its whole history can be
\* undone, doing it again makes a campaign that holds the same, and everything that was
\* undone can be redone (campaign_history.rs `execute`, `undo`, `redo`).
THEOREM CampaignsReplay ==
    ASSUME MarksAreApart, IdsAreFresh PROVE CampaignSpec => []CampaignHistoryReplays
<1>1. HistInv => CampaignHistoryReplays
  <2> SUFFICES ASSUME HistInv, NEW n \in Names, session[n] # NoSession
               PROVE  H!Replays(session[n].campaign, session[n].history, AlikeCampaigns)
    BY DEF CampaignHistoryReplays
  <2>1. SoundHistory(Known(ids), session[n].campaign, session[n].history)
    BY DEF HistInv
  <2> QED
    BY <2>1, SoundHistoryReplays
<1> QED
  BY <1>1, HistoryInvariant, PTL
=============================================================================
