--------------------------- MODULE CommandHistory ---------------------------
(***************************************************************************)
(* The undo and redo stacks of the quest editor (campaign_history.rs and    *)
(* history.rs hold the same structure twice, once for campaigns and once    *)
(* for projects).  A document is changed by commands; Apply answers the     *)
(* changed document, or NoDoc when the command does not fit the document.   *)
(***************************************************************************)
EXTENDS Naturals, Sequences, SequencesExt

CONSTANTS
    Apply(_, _),   \* the document a command makes of a document, or NoDoc
    Reversal(_),    \* the command that reverses a command
    NoDoc,         \* what Apply answers for a command that does not fit
    MaxHistory     \* commands remembered; 0: no limit

EmptyHistory == [undo |-> <<>>, redo |-> <<>>]

\* Execute, undo and redo answer the document and the stacks together.
Outcome(ok, doc, undo, redo) ==
    [ok |-> ok, doc |-> doc, history |-> [undo |-> undo, redo |-> redo]]

\* The oldest command is forgotten beyond the limit.
Capped(undo) ==
    IF MaxHistory > 0 /\ Len(undo) > MaxHistory THEN Tail(undo) ELSE undo

\* Mutant: what was undone can still be redone after a new command.
ExecuteKeepsRedo(cmd, doc, h) ==
    LET changed == Apply(cmd, doc) IN
    IF changed = NoDoc
      THEN Outcome(FALSE, doc, h.undo, h.redo)
      ELSE Outcome(TRUE, changed, Capped(Append(h.undo, cmd)), h.redo)

Execute(cmd, doc, h) ==
    LET changed == Apply(cmd, doc) IN
    IF changed = NoDoc
      THEN Outcome(FALSE, doc, h.undo, h.redo)
      ELSE Outcome(TRUE, changed, Capped(Append(h.undo, cmd)), <<>>)

\* The command is popped before its inverse is tried: a refused undo loses it.
Undo(doc, h) ==
    LET cmd == Last(h.undo)
        changed == Apply(Reversal(cmd), doc)
    IN  IF h.undo = <<>> THEN Outcome(FALSE, doc, h.undo, h.redo)
        ELSE IF changed = NoDoc THEN Outcome(FALSE, doc, Front(h.undo), h.redo)
        ELSE Outcome(TRUE, changed, Front(h.undo), Append(h.redo, cmd))

Redo(doc, h) ==
    LET cmd == Last(h.redo)
        changed == Apply(cmd, doc)
    IN  IF h.redo = <<>> THEN Outcome(FALSE, doc, h.undo, h.redo)
        ELSE IF changed = NoDoc THEN Outcome(FALSE, doc, h.undo, Front(h.redo))
        ELSE Outcome(TRUE, changed, Append(h.undo, cmd), Front(h.redo))

-----------------------------------------------------------------------------
(* What the stacks promise of the document they belong to. *)

\* Applies the commands of a sequence from the last to the first.
After(cmd, doc) == IF doc = NoDoc THEN NoDoc ELSE Apply(cmd, doc)

Unwound(cmds, doc) ==
    LET doc_[k \in 0..Len(cmds)] ==
          IF k = 0 THEN doc ELSE After(cmds[Len(cmds) + 1 - k], doc_[k - 1])
    IN  doc_[Len(cmds)]

Reversals(cmds) == [i \in DOMAIN cmds |-> Reversal(cmds[i])]

\* The document from before every remembered command.
Origin(doc, h) == Unwound(Reversals(h.undo), doc)

\* Undoing everything and redoing everything is possible.
Rewinds(doc, h) == Origin(doc, h) # NoDoc /\ Unwound(h.redo, doc) # NoDoc

\* Undoing everything and doing it again answers a document like this one.
Replays(doc, h, Like(_, _)) ==
    /\ Rewinds(doc, h)
    /\ LET again == Unwound(Reverse(h.undo), Origin(doc, h)) IN
       again # NoDoc /\ Like(again, doc)
=============================================================================
