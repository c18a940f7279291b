---------------------------- MODULE ProjectEditor ----------------------------
(***************************************************************************)
(* The project half of the quest editor's server: sessions in memory with   *)
(* undo and redo (server.rs, history.rs) and projects on disk, as one file  *)
(* or as a directory (lib.rs).                                              *)
(*                                                                          *)
(* Commands change the session and nothing else.  What touches the disk     *)
(* does so outside the session store's lock, one system call at a time, so  *)
(* requests interleave there and the server can stop between two calls.     *)
(***************************************************************************)
EXTENDS Naturals, Sequences, SequencesExt

CONSTANTS
    Editors,            \* the clients
    Projects,           \* project names
    Actions,            \* payloads of an action
    EarlierActions,     \* those of the operation that is on disk at the start
    Absent, Partial,    \* no such file; a file that is not yet completely written
    NoProjectSession, NoProject,
    ProjectHistoryLimit,                    \* max_history, 50 in the code
    MaxOperations, MaxActions,              \* bounds: the size of a project,
    MaxRequests, MaxEdits, MaxStops         \* requests, commands, stops of the server

ASSUME ProjectAssumption ==
    /\ Absent # Partial
    /\ EarlierActions \in Seq(Actions)
    /\ MaxOperations \in Nat

VARIABLES
    json,       \* per name: <name>.json
    dir,        \* per name: <name>.sproject, its index and its operation files
    work,       \* per name: project_store, the project and its history
    job,        \* per client: the request that is being served
    stops, requests, edits,     \* so many so far
    met         \* names on whose disk two requests met, ghost

counts == <<stops, requests, edits>>
projectVars == <<json, dir, work, job, counts, met>>

-----------------------------------------------------------------------------
(* Projects and the commands on them.  An operation is its id and its actions. *)

NewProject(n) == [name |-> n, operations |-> <<>>]

OpCommand(what, index, new, old) ==
    [what |-> what, op |-> index, index |-> 0, new |-> new, old |-> old]
ActCommand(what, op, index, new, old) ==
    [what |-> what, op |-> op, index |-> index, new |-> new, old |-> old]

AtEnd == 0      \* usize::MAX in the code: RemoveAction takes the last action

ApplyOperation(cmd, p) ==
    LET ops == p.operations IN
    CASE cmd.what = "AddOperation" ->
           IF cmd.op > Len(ops) + 1 THEN NoProject
           ELSE [p EXCEPT !.operations = InsertAt(ops, cmd.op, cmd.new)]
      [] cmd.what = "RemoveOperation" ->
           IF cmd.op > Len(ops) THEN NoProject
           ELSE [p EXCEPT !.operations = RemoveAt(ops, cmd.op)]
      [] cmd.what = "ModifyOperation" ->
           IF cmd.op > Len(ops) THEN NoProject ELSE [p EXCEPT !.operations[cmd.op] = cmd.new]

ApplyAction(cmd, p) ==
    LET acts == p.operations[cmd.op].actions
        at == IF cmd.index = AtEnd THEN Len(acts) ELSE cmd.index
    IN  IF cmd.op > Len(p.operations) THEN NoProject
        ELSE CASE cmd.what = "AddAction" ->
                    [p EXCEPT !.operations[cmd.op].actions = Append(@, cmd.new)]
               [] cmd.what = "RemoveAction" ->
                    IF at \notin DOMAIN acts THEN NoProject
                    ELSE [p EXCEPT !.operations[cmd.op].actions = RemoveAt(@, at)]
               [] cmd.what = "ModifyAction" ->
                    IF at \notin DOMAIN acts THEN NoProject
                    ELSE [p EXCEPT !.operations[cmd.op].actions[at] = cmd.new]

ApplyProject(cmd, p) ==
    IF cmd.what \in {"AddOperation", "RemoveOperation", "ModifyOperation"}
      THEN ApplyOperation(cmd, p)
      ELSE ApplyAction(cmd, p)

\* Mutant: the inverse of AddOperation removes what follows the new operation.
InverseProjectOffByOne(cmd) ==
    CASE cmd.what = "AddOperation" -> OpCommand("RemoveOperation", cmd.op + 1, cmd.old, cmd.new)
      [] cmd.what = "RemoveOperation" -> OpCommand("AddOperation", cmd.op, cmd.old, cmd.new)
      [] cmd.what = "ModifyOperation" -> OpCommand("ModifyOperation", cmd.op, cmd.old, cmd.new)
      [] cmd.what = "AddAction" -> ActCommand("RemoveAction", cmd.op, AtEnd, cmd.old, cmd.new)
      [] cmd.what = "RemoveAction" -> ActCommand("AddAction", cmd.op, AtEnd, cmd.old, cmd.new)
      [] cmd.what = "ModifyAction" ->
           ActCommand("ModifyAction", cmd.op, cmd.index, cmd.old, cmd.new)

\* The inverse of AddAction removes the last action, the inverse of RemoveAction appends.
InverseProject(cmd) ==
    CASE cmd.what = "AddOperation" -> OpCommand("RemoveOperation", cmd.op, cmd.old, cmd.new)
      [] cmd.what = "RemoveOperation" -> OpCommand("AddOperation", cmd.op, cmd.old, cmd.new)
      [] cmd.what = "ModifyOperation" -> OpCommand("ModifyOperation", cmd.op, cmd.old, cmd.new)
      [] cmd.what = "AddAction" -> ActCommand("RemoveAction", cmd.op, AtEnd, cmd.old, cmd.new)
      [] cmd.what = "RemoveAction" -> ActCommand("AddAction", cmd.op, AtEnd, cmd.old, cmd.new)
      [] cmd.what = "ModifyAction" ->
           ActCommand("ModifyAction", cmd.op, cmd.index, cmd.old, cmd.new)

P == INSTANCE CommandHistory WITH
        Apply <- ApplyProject, Reversal <- InverseProject,
        NoDoc <- NoProject, MaxHistory <- ProjectHistoryLimit

-----------------------------------------------------------------------------
(* Projects on disk. *)

ToIndex(p) == [name |-> p.name, order |-> [i \in DOMAIN p.operations |-> p.operations[i].id]]

\* load_project_dir: the operations of the index whose file is there, in the index's order;
\* what is missing is left out without an error.
FromDirectory(d) ==
    LET order == d.index.order
        fileOf(id) == CHOOSE o \in d.files : o.id = id
        read[i \in 0..Len(order)] ==
          IF i = 0 THEN <<>>
          ELSE IF \E o \in d.files : o.id = order[i] THEN Append(read[i - 1], fileOf(order[i]))
          ELSE read[i - 1]
    IN  [name |-> d.index.name, operations |-> read[Len(order)]]

\* resolve_project_path: the file is preferred to the directory.
Exists(n) == json[n] # Absent \/ dir[n] # Absent
ReadsDirectory(n) == json[n] = Absent /\ dir[n] # Absent

\* load_project, NoProject for what cannot be read.
Stored(n) ==
    CASE json[n] # Absent -> IF json[n] = Partial THEN NoProject ELSE json[n]
      [] ReadsDirectory(n) -> IF dir[n].index = Absent THEN NoProject ELSE FromDirectory(dir[n])
      [] OTHER -> NoProject

-----------------------------------------------------------------------------
(* Requests on the disk.  A job writes the project doc, then does what its kind has left. *)

AtRest == [step |-> "rest"]
Loaded(p) == [project |-> p, history |-> P!EmptyHistory]

\* What an earlier run of the server has left: one project, in one of the two forms.
Earlier(n) == [name |-> n, operations |-> <<[id |-> 1, actions |-> EarlierActions]>>]

ProjectInit ==
    /\ \E n \in Projects :
         \/ /\ json = [m \in Projects |-> IF m = n THEN Earlier(n) ELSE Absent]
            /\ dir = [m \in Projects |-> Absent]
         \/ /\ json = [m \in Projects |-> Absent]
            /\ dir = [m \in Projects |->
                         IF m = n THEN [index |-> ToIndex(Earlier(n)),
                                        files |-> ToSet(Earlier(n).operations)]
                         ELSE Absent]
    /\ work = [n \in Projects |-> NoProjectSession]
    /\ job = [e \in Editors |-> AtRest]
    /\ stops = 0 /\ requests = 0 /\ edits = 0
    /\ met = {}

\* The files a job reads or writes are those of its name and of the project it writes.
Touches(j) == IF j = AtRest THEN {} ELSE {j.name, j.doc.name}

Asked ==
    /\ requests < MaxRequests
    /\ requests' = requests + 1
    /\ UNCHANGED <<stops, edits>>

Starts(e, j) ==
    /\ job[e] = AtRest
    /\ Asked
    /\ job' = [job EXCEPT ![e] = j]
    /\ met' = met \cup UNION {Touches(j) \cap Touches(job[f]) : f \in Editors \ {e}}

Job(what, step, n, doc) ==
    [what |-> what, step |-> step, name |-> n, doc |-> doc, todo |-> doc.operations]

Ends(e) == job' = [job EXCEPT ![e] = AtRest]

\* create_project: refused if either form of the name exists.
CreateProject(e, n) ==
    /\ ~Exists(n)
    /\ Starts(e, Job("create", "open", n, NewProject(n)))
    /\ UNCHANGED <<json, dir, work>>

\* The documents a client can send for a name: what it was shown, or an empty project.
Sendable(n) ==
    {NewProject(n)} \cup
        IF work[n] = NoProjectSession THEN {} ELSE {[work[n].project EXCEPT !.name = n]}

\* handle_save_project: a new session with an empty history first, the disk afterwards.
SaveProject(e, n, doc) ==
    /\ Starts(e, Job("save", "choose", n, doc))
    /\ work' = [work EXCEPT ![n] = Loaded(doc)]
    /\ UNCHANGED <<json, dir>>

\* handle_save_project_dir: the directory, and no session.
SaveProjectDir(e, n, doc) ==
    /\ Starts(e, Job("save", "clear", n, doc))
    /\ UNCHANGED <<json, dir, work>>

\* save_project: an existing directory is written, otherwise the file.
ChoosesForm(e) ==
    /\ job[e].step = "choose"
    /\ job' = [job EXCEPT ![e].step =
                           IF dir[job[e].doc.name] # Absent THEN "clear" ELSE "open"]
    /\ UNCHANGED <<json, dir, work, counts, met>>

\* What is left after the project is written.
AfterWrite == [create |-> "end", save |-> "end", rename |-> "remove", duplicate |-> "copy"]
Written(e) ==
    IF AfterWrite[job[e].what] = "end" THEN Ends(e)
    ELSE job' = [job EXCEPT ![e].step = AfterWrite[job[e].what]]

\* fs::write opens and truncates the file, then fills it; a file that was removed in
\* between keeps nothing.
OpensFile(e) ==
    /\ job[e].step = "open"
    /\ json' = [json EXCEPT ![job[e].doc.name] = Partial]
    /\ job' = [job EXCEPT ![e].step = "fill"]
    /\ UNCHANGED <<dir, work, counts, met>>

FillsFile(e) ==
    LET n == job[e].doc.name IN
    /\ job[e].step = "fill"
    /\ json' = IF json[n] = Absent THEN json ELSE [json EXCEPT ![n] = job[e].doc]
    /\ Written(e)
    /\ UNCHANGED <<dir, work, counts, met>>

\* save_project_dir: the old operation files go, the index is written, then one file per
\* operation.
ClearsDirectory(e) ==
    LET n == job[e].doc.name IN
    /\ job[e].step = "clear"
    /\ dir' = [dir EXCEPT ![n] = [index |-> IF dir[n] = Absent THEN Absent ELSE dir[n].index,
                                  files |-> {}]]
    /\ job' = [job EXCEPT ![e].step = "index"]
    /\ UNCHANGED <<json, work, counts, met>>

WritesIndex(e) ==
    LET n == job[e].doc.name IN
    /\ job[e].step = "index"
    /\ IF dir[n] = Absent       \* removed meanwhile: the write is an error
         THEN Ends(e) /\ UNCHANGED dir
         ELSE /\ dir' = [dir EXCEPT ![n].index = ToIndex(job[e].doc)]
              /\ job' = [job EXCEPT ![e].step = "files"]
    /\ UNCHANGED <<json, work, counts, met>>

WritesOperation(e) ==
    LET n == job[e].doc.name IN
    /\ job[e].step = "files"
    /\ IF job[e].todo = <<>> THEN Written(e) /\ UNCHANGED dir
       ELSE IF dir[n] = Absent THEN Ends(e) /\ UNCHANGED dir
       ELSE LET o == Head(job[e].todo) IN
            /\ dir' = [dir EXCEPT ![n].files = {f \in @ : f.id # o.id} \cup {o}]
            /\ job' = [job EXCEPT ![e].todo = Tail(@)]
    /\ UNCHANGED <<json, work, counts, met>>

\* Mutant: the old form is removed before the new one is written.
RenameProjectRemovingFirst(e, n, m) ==
    /\ n # m /\ ~Exists(m)
    /\ Stored(n) # NoProject
    /\ Starts(e, Job("rename", "remove", n, [Stored(n) EXCEPT !.name = m]))
    /\ UNCHANGED <<json, dir, work>>

\* rename_project: what is on disk, not the session, is written under the new name in the
\* form it has; the old one is removed afterwards.
RenameProject(e, n, m) ==
    /\ n # m /\ ~Exists(m)
    /\ Stored(n) # NoProject
    /\ Starts(e, Job("rename", IF ReadsDirectory(n) THEN "clear" ELSE "open",
                     n, [Stored(n) EXCEPT !.name = m]))
    /\ UNCHANGED <<json, dir, work>>

RenameRemoves(e) ==
    LET n == job[e].name
        wasDirectory == json[job[e].doc.name] = Absent
    IN  /\ job[e].step = "remove"
        /\ IF wasDirectory
             THEN dir' = [dir EXCEPT ![n] = Absent] /\ UNCHANGED json
             ELSE json' = [json EXCEPT ![n] = Absent] /\ UNCHANGED dir
        /\ job' = [job EXCEPT ![e].step = "rekey"]
        /\ UNCHANGED <<work, counts, met>>

\* The session moves to the new key as it is: its project keeps the old name.
RenameRekeys(e) ==
    LET n == job[e].name
        m == job[e].doc.name
    IN  /\ job[e].step = "rekey"
        /\ work' = IF work[n] = NoProjectSession THEN work
                   ELSE [work EXCEPT ![m] = work[n], ![n] = NoProjectSession]
        /\ Ends(e)
        /\ UNCHANGED <<json, dir, counts, met>>

\* duplicate_project: read the source, create the copy empty, read it back, save it.
DuplicateProject(e, n, m) ==
    /\ n # m /\ ~Exists(m)
    /\ Stored(n) # NoProject
    /\ Starts(e, [Job("duplicate", "open", n, NewProject(m))
                    EXCEPT !.todo = Stored(n).operations])
    /\ UNCHANGED <<json, dir, work>>

DuplicateCopies(e) ==
    LET m == job[e].doc.name IN
    /\ job[e].step = "copy"
    /\ IF Stored(m) = NoProject THEN Ends(e)
       ELSE job' = [job EXCEPT ![e] =
                      Job("save", "choose", job[e].name,
                          [Stored(m) EXCEPT !.operations = job[e].todo])]
    /\ UNCHANGED <<json, dir, work, counts, met>>

\* handle_delete_project: the session, then the form that resolve_project_path prefers.
DeleteProject(e, n) ==
    /\ Starts(e, Job("delete", "unlink", n, NewProject(n)))
    /\ work' = [work EXCEPT ![n] = NoProjectSession]
    /\ UNCHANGED <<json, dir>>

DeleteProjectUnlinks(e) ==
    LET n == job[e].name IN
    /\ job[e].step = "unlink"
    /\ IF ReadsDirectory(n)
         THEN dir' = [dir EXCEPT ![n] = Absent] /\ UNCHANGED json
         ELSE json' = [json EXCEPT ![n] = Absent] /\ UNCHANGED dir
    /\ Ends(e)
    /\ UNCHANGED <<work, counts, met>>

-----------------------------------------------------------------------------
(* Requests on the session: one critical section each. *)

LoadProject(e, n) ==
    /\ job[e] = AtRest
    /\ Asked
    /\ work[n] = NoProjectSession
    /\ Stored(n) # NoProject
    /\ work' = [work EXCEPT ![n] = Loaded(Stored(n))]
    /\ UNCHANGED <<json, dir, job, met>>

Becomes(n, outcome) ==
    /\ work' = [work EXCEPT ![n] = [project |-> outcome.doc, history |-> outcome.history]]
    /\ edits < MaxEdits
    /\ edits' = edits + 1
    /\ UNCHANGED <<json, dir, job, stops, requests, met>>

Edits(n, cmd) == Becomes(n, P!Execute(cmd, work[n].project, work[n].history))

Operations(n) == work[n].project.operations

AddOperation(n) ==
    LET unused == {i \in 1..MaxOperations : \A k \in DOMAIN Operations(n) : Operations(n)[k].id # i}
        o == [id |-> CHOOSE i \in unused : TRUE, actions |-> <<>>]
    IN  /\ unused # {}
        /\ Edits(n, OpCommand("AddOperation", Len(Operations(n)) + 1, o, o))

RemoveOperation(n, i) ==
    Edits(n, OpCommand("RemoveOperation", i, Operations(n)[i], Operations(n)[i]))

ModifyOperation(n, i, actions) ==
    Edits(n, OpCommand("ModifyOperation", i, [Operations(n)[i] EXCEPT !.actions = actions],
                       Operations(n)[i]))

AddAction(n, i, a) ==
    /\ Len(Operations(n)[i].actions) < MaxActions
    /\ Edits(n, ActCommand("AddAction", i, AtEnd, a, a))

RemoveAction(n, i, k) ==
    LET a == Operations(n)[i].actions[k] IN Edits(n, ActCommand("RemoveAction", i, k, a, a))

ModifyAction(n, i, k, a) ==
    Edits(n, ActCommand("ModifyAction", i, k, a, Operations(n)[i].actions[k]))

UndoProject(n) == Becomes(n, P!Undo(work[n].project, work[n].history))
RedoProject(n) == Becomes(n, P!Redo(work[n].project, work[n].history))

EditorStops ==
    /\ stops < MaxStops
    /\ stops' = stops + 1
    /\ work' = [n \in Projects |-> NoProjectSession]
    /\ job' = [e \in Editors |-> AtRest]
    /\ UNCHANGED <<json, dir, requests, edits, met>>

DiskStep(e) ==
    \/ ChoosesForm(e) \/ OpensFile(e) \/ FillsFile(e)
    \/ ClearsDirectory(e) \/ WritesIndex(e) \/ WritesOperation(e)
    \/ RenameRemoves(e) \/ RenameRekeys(e) \/ DuplicateCopies(e) \/ DeleteProjectUnlinks(e)

Request(e) ==
    \E n \in Projects :
        \/ CreateProject(e, n) \/ LoadProject(e, n) \/ DeleteProject(e, n)
        \/ \E doc \in Sendable(n) : SaveProject(e, n, doc) \/ SaveProjectDir(e, n, doc)
        \/ \E m \in Projects : RenameProject(e, n, m) \/ DuplicateProject(e, n, m)

SessionEdit(n) ==
    /\ work[n] # NoProjectSession
    /\ \/ AddOperation(n) \/ UndoProject(n) \/ RedoProject(n)
       \/ \E i \in DOMAIN Operations(n) :
            \/ RemoveOperation(n, i)
            \/ ModifyOperation(n, i, <<>>)
            \/ \E a \in Actions : AddAction(n, i, a)
            \/ \E k \in DOMAIN Operations(n)[i].actions :
                 RemoveAction(n, i, k) \/ \E a \in Actions : ModifyAction(n, i, k, a)

ProjectNext ==
    \/ \E e \in Editors : DiskStep(e) \/ Request(e)
    \/ \E n \in Projects : SessionEdit(n)
    \/ EditorStops

ProjectSpec == ProjectInit /\ [][ProjectNext]_projectVars

-----------------------------------------------------------------------------
(* Properties. *)

\* However a session came about, no undo and no redo it still offers is refused: a refused
\* one would lose its command, for both pop it before they try.
ProjectHistoryRewinds ==
    \A n \in Projects : work[n] # NoProjectSession =>
        P!Rewinds(work[n].project, work[n].history)

\* A rename takes the old project away only when the new one can be read and holds the
\* same operations, so that a stop in between loses nothing; requests on the same two
\* names at the same time are the exception.
RenameKeepsOperations ==
    [][\A e \in Editors : (RenameRemoves(e) /\ Touches(job[e]) \cap met = {})
         => /\ Stored(job[e].doc.name) # NoProject
            /\ Stored(job[e].doc.name).operations = Stored(job[e].name).operations]_projectVars
=============================================================================
