------------------------ MODULE ProjectEditorProofs ------------------------
(***************************************************************************)
(* The projects of the quest editor's server, in memory and on disk, for any *)
(* clients, projects, actions, limits, edits and stops of the server.        *)
(*                                                                          *)
(* Undo may put an action at another place of its operation, so what a       *)
(* history can rely on is the Shape of a project: which operations it has,   *)
(* in their order, and how many actions each.  Every command leads from one  *)
(* shape to one other (Link), its inverse leads back, and whether a command  *)
(* fits depends on the shape alone.                                          *)
(***************************************************************************)
EXTENDS ProjectEditor, SequenceTheorems, NaturalsInduction, WellFoundedInduction, TLAPS

\* A project, a directory and a session are what has a name, an index or a project; the
\* marks for what is not there have none of these.
MarksHaveNone ==
    \A mark \in {Absent, Partial, NoProjectSession, NoProject} :
        \A field \in {"name", "index", "project"} : field \notin DOMAIN mark

-----------------------------------------------------------------------------
(* Induction and lists *)

\* A set of natural numbers that is not empty has a least element.
LEMMA LeastNumber == ASSUME NEW S, S \subseteq Nat, S # {} PROVE \E m \in S : \A k \in S : m <= k
<1> DEFINE R == OpToRel(<, Nat)
<1>1. IsWellFoundedOn(R, Nat)
  BY NatLessThanWellFounded
<1>2. \A x, y \in Nat : x < y => <<x, y>> \in R
  BY DEF OpToRel
<1> HIDE DEF R
<1>3. PICK x \in S : \A y \in S : ~ (<<y, x>> \in R)
  BY <1>1, WFMin
<1>4. \A k \in S : ~ (k < x)
  BY <1>2, <1>3
<1> QED
  BY <1>4

\* A set that has zero and the successor of what it has holds every natural number.
LEMMA NumberInduction ==
    ASSUME NEW S, 0 \in S, \A n \in Nat : n \in S => n + 1 \in S
    PROVE  Nat \subseteq S
<1> SUFFICES ASSUME NEW x \in Nat, x \notin S PROVE FALSE
  OBVIOUS
<1> DEFINE T == {n \in Nat : n \notin S}
<1>1. PICK m \in T : \A k \in T : m <= k
  BY LeastNumber
<1>2. m # 0 /\ m - 1 \in Nat /\ m - 1 \notin T
  BY <1>1
<1> QED
  BY <1>1, <1>2

\* t is s with x put in at place i.
Inserted(s, i, x, t) ==
    /\ Len(t) = Len(s) + 1
    /\ i \in 1..(Len(s) + 1)
    /\ t[i] = x
    /\ \A k \in 1..(i - 1) : t[k] = s[k]
    /\ \A k \in i..Len(s) : t[k + 1] = s[k]

\* t is s with x put in the place of what is there.
Exchanged(s, i, x, t) ==
    /\ Len(t) = Len(s)
    /\ i \in 1..Len(s)
    /\ t[i] = x
    /\ \A k \in 1..Len(s) : k # i => t[k] = s[k]

\* InsertAt puts an item in.
LEMMA InsertAtInserts ==
    ASSUME NEW X, NEW s \in Seq(X), NEW i \in 1..(Len(s) + 1), NEW x \in X
    PROVE  InsertAt(s, i, x) \in Seq(X) /\ Inserted(s, i, x, InsertAt(s, i, x))
<1> DEFINE n == Len(s)
           a == SubSeq(s, 1, i - 1)
           b == SubSeq(s, i, n)
           c == a \o <<x>>
           t == c \o b
<1>1. n \in Nat /\ i \in 1..(n + 1) /\ \A k \in 1..n : s[k] \in X
  OBVIOUS
<1>2. /\ 1 \in Int /\ i - 1 \in Int /\ i \in Int /\ n \in Int
      /\ \A k \in 1..(i - 1) : s[k] \in X
      /\ \A k \in i..n : s[k] \in X
  BY <1>1
<1> HIDE DEF n
<1>3. /\ a \in Seq(X) /\ Len(a) = IF 1 <= i - 1 THEN i - 1 - 1 + 1 ELSE 0
      /\ \A k \in 1..(i - 1 - 1 + 1) : a[k] = s[1 + k - 1]
  BY <1>2, SubSeqProperties
<1>4. /\ b \in Seq(X) /\ Len(b) = IF i <= n THEN n - i + 1 ELSE 0
      /\ \A k \in 1..(n - i + 1) : b[k] = s[i + k - 1]
  BY <1>2, SubSeqProperties
<1> HIDE DEF a, b
<1>5. Len(a) = i - 1 /\ \A k \in 1..(i - 1) : a[k] = s[k]
  BY <1>1, <1>3
<1>6. Len(b) = n + 1 - i /\ \A k \in 1..(n + 1 - i) : b[k] = s[i + k - 1]
  BY <1>1, <1>4
<1>7. <<x>> \in Seq(X) /\ Len(<<x>>) = 1 /\ <<x>>[1] = x
  OBVIOUS
<1>8. /\ c \in Seq(X) /\ Len(c) = Len(a) + Len(<<x>>)
      /\ \A k \in 1..(Len(a) + Len(<<x>>)) : c[k] = IF k <= Len(a) THEN a[k] ELSE <<x>>[k - Len(a)]
  BY <1>3, <1>7, ConcatProperties
<1>9. /\ Len(c) = i /\ c[i] = x
      /\ \A k \in 1..(i - 1) : c[k] = s[k]
  <2>1. Len(c) = i
    BY <1>1, <1>5, <1>7, <1>8
  <2>2. c[i] = x
    <3>1. i \in 1..(Len(a) + Len(<<x>>)) /\ ~(i <= Len(a)) /\ i - Len(a) = 1
      BY <1>1, <1>5, <1>7
    <3> QED
      BY <1>7, <1>8, <3>1
  <2>3. ASSUME NEW k \in 1..(i - 1) PROVE c[k] = s[k]
    <3>1. k \in 1..(Len(a) + Len(<<x>>)) /\ k <= Len(a)
      BY <1>1, <1>5, <1>7
    <3> QED
      BY <1>5, <1>8, <3>1
  <2> QED
    BY <2>1, <2>2, <2>3
<1>10. c \in Seq(X)
  BY <1>8
<1> HIDE DEF c
<1>11. /\ t \in Seq(X) /\ Len(t) = Len(c) + Len(b)
       /\ \A k \in 1..(Len(c) + Len(b)) : t[k] = IF k <= Len(c) THEN c[k] ELSE b[k - Len(c)]
  BY <1>4, <1>10, ConcatProperties
<1> HIDE DEF t
<1>12. Len(t) = n + 1
  BY <1>1, <1>6, <1>9, <1>11
<1>13. ASSUME NEW k \in 1..i PROVE t[k] = c[k]
  <2>1. k \in 1..(Len(c) + Len(b)) /\ k <= Len(c)
    BY <1>1, <1>6, <1>9
  <2> QED
    BY <1>11, <2>1
<1>14. ASSUME NEW k \in i..n PROVE t[k + 1] = s[k]
  <2>1. k + 1 \in 1..(Len(c) + Len(b)) /\ ~(k + 1 <= Len(c)) /\ (k + 1) - Len(c) = k + 1 - i
    BY <1>1, <1>6, <1>9
  <2>2. k + 1 - i \in 1..(n + 1 - i) /\ i + (k + 1 - i) - 1 = k
    BY <1>1
  <2> QED
    BY <1>6, <1>11, <2>1, <2>2
<1>15. t[i] = x /\ \A k \in 1..(i - 1) : t[k] = s[k]
  BY <1>1, <1>9, <1>13
<1>16. Inserted(s, i, x, t)
  BY <1>1, <1>12, <1>14, <1>15 DEF Inserted, n
<1>17. InsertAt(s, i, x) = t
  BY DEF InsertAt, t, c, a, b, n
<1> QED
  BY <1>11, <1>16, <1>17

\* RemoveAt takes out what could be put in again.
LEMMA RemoveAtRemoves ==
    ASSUME NEW X, NEW s \in Seq(X), NEW i \in 1..Len(s)
    PROVE  RemoveAt(s, i) \in Seq(X) /\ Inserted(RemoveAt(s, i), i, s[i], s)
<1> DEFINE n == Len(s)
           a == SubSeq(s, 1, i - 1)
           b == SubSeq(s, i + 1, n)
           t == a \o b
<1>1. n \in Nat /\ i \in 1..n /\ \A k \in 1..n : s[k] \in X
  OBVIOUS
<1>2. /\ 1 \in Int /\ i - 1 \in Int /\ i + 1 \in Int /\ n \in Int
      /\ \A k \in 1..(i - 1) : s[k] \in X
      /\ \A k \in (i + 1)..n : s[k] \in X
  BY <1>1
<1> HIDE DEF n
<1>3. /\ a \in Seq(X) /\ Len(a) = IF 1 <= i - 1 THEN i - 1 - 1 + 1 ELSE 0
      /\ \A k \in 1..(i - 1 - 1 + 1) : a[k] = s[1 + k - 1]
  BY <1>2, SubSeqProperties
<1>4. /\ b \in Seq(X) /\ Len(b) = IF i + 1 <= n THEN n - (i + 1) + 1 ELSE 0
      /\ \A k \in 1..(n - (i + 1) + 1) : b[k] = s[i + 1 + k - 1]
  BY <1>2, SubSeqProperties
<1> HIDE DEF a, b
<1>5. Len(a) = i - 1 /\ \A k \in 1..(i - 1) : a[k] = s[k]
  BY <1>1, <1>3
<1>6. Len(b) = n - i /\ \A k \in 1..(n - i) : b[k] = s[i + k]
  BY <1>1, <1>4
<1>7. /\ t \in Seq(X) /\ Len(t) = Len(a) + Len(b)
      /\ \A k \in 1..(Len(a) + Len(b)) : t[k] = IF k <= Len(a) THEN a[k] ELSE b[k - Len(a)]
  BY <1>3, <1>4, ConcatProperties
<1> HIDE DEF t
<1>8. Len(t) = n - 1 /\ n = Len(t) + 1 /\ i \in 1..(Len(t) + 1)
  BY <1>1, <1>5, <1>6, <1>7
<1>9. ASSUME NEW k \in 1..(i - 1) PROVE t[k] = s[k]
  <2>1. k \in 1..(Len(a) + Len(b)) /\ k <= Len(a)
    BY <1>1, <1>5, <1>6
  <2> QED
    BY <1>5, <1>7, <2>1
<1>10. ASSUME NEW k \in i..Len(t) PROVE t[k] = s[k + 1]
  <2>1. k \in 1..(Len(a) + Len(b)) /\ ~(k <= Len(a)) /\ k - Len(a) = k - (i - 1)
    BY <1>1, <1>5, <1>6, <1>8
  <2>2. k - (i - 1) \in 1..(n - i) /\ i + (k - (i - 1)) = k + 1
    BY <1>1, <1>8
  <2>3. t[k] = b[k - Len(a)]
    BY <1>7, <2>1
  <2>4. b[k - (i - 1)] = s[i + (k - (i - 1))]
    BY <1>6, <2>2
  <2> QED
    BY <2>1, <2>2, <2>3, <2>4
<1>11. Inserted(t, i, s[i], s)
  BY <1>8, <1>9, <1>10 DEF Inserted, n
<1>12. RemoveAt(s, i) = t
  BY DEF RemoveAt, t, a, b, n
<1> QED
  BY <1>7, <1>11, <1>12

-----------------------------------------------------------------------------
(* Projects and their shapes *)

\* A list in which no id is there twice.
Distinct(list) == \A i, j \in 1..Len(list) : list[i].id = list[j].id => i = j

OperationOf == [id : Nat, actions : Seq(Actions)]
ProjectOf(N) == [name : N, operations : Seq(OperationOf)]
SoundProjects(N) == {p \in ProjectOf(N) : Distinct(p.operations)}

SizedOf == [id : Nat, size : Nat]
Sized(o) == [id |-> o.id, size |-> Len(o.actions)]
Shape(p) == [i \in 1..Len(p.operations) |-> Sized(p.operations[i])]
Shapes == {s \in Seq(SizedOf) : Distinct(s)}

\* A shape has the ids and the sizes of the operations.
LEMMA ShapeFacts ==
    ASSUME NEW N, NEW p \in ProjectOf(N)
    PROVE  /\ Shape(p) \in Seq(SizedOf)
           /\ Len(Shape(p)) = Len(p.operations) /\ Len(p.operations) \in Nat
           /\ \A i \in 1..Len(p.operations) :
                /\ p.operations[i] \in OperationOf
                /\ Shape(p)[i] = Sized(p.operations[i])
                /\ Shape(p)[i].id = p.operations[i].id
                /\ Shape(p)[i].size = Len(p.operations[i].actions)
<1> DEFINE n == Len(p.operations)
<1>1. n \in Nat /\ p.operations \in Seq(OperationOf) /\ \A i \in 1..n : p.operations[i] \in OperationOf
  BY DEF ProjectOf
<1>2. \A o \in OperationOf : Sized(o) \in SizedOf
  BY DEF OperationOf, Sized, SizedOf
<1> HIDE DEF n
<1>3. Shape(p) = [i \in 1..n |-> Sized(p.operations[i])]
  BY DEF Shape, n
<1>4. Shape(p) \in [1..n -> SizedOf]
  BY <1>1, <1>2, <1>3
<1>5. Shape(p) \in Seq(SizedOf) /\ Len(Shape(p)) = n
  BY <1>1, <1>4
<1>6. \A i \in 1..n : Shape(p)[i] = Sized(p.operations[i])
  BY <1>3
<1>7. \A o : Sized(o).id = o.id /\ Sized(o).size = Len(o.actions)
  BY DEF Sized
<1> QED
  BY <1>1, <1>5, <1>6, <1>7 DEF n

\* No operation of a project is there twice when none of its shape is.
LEMMA SoundByShape ==
    ASSUME NEW N, NEW p \in ProjectOf(N)
    PROVE  p \in SoundProjects(N) <=> Shape(p) \in Shapes
<1> DEFINE ops == p.operations
           s == Shape(p)
<1>1. Distinct(ops) <=> Distinct(s)
  <2>1. Len(s) = Len(ops) /\ \A i \in 1..Len(ops) : s[i].id = ops[i].id
    BY ShapeFacts
  <2> HIDE DEF ops, s
  <2> QED
    BY <2>1 DEF Distinct
<1> QED
  BY <1>1, ShapeFacts DEF SoundProjects, Shapes

\* What is not there is no project.
LEMMA SoundIsAProject ==
    ASSUME MarksHaveNone, NEW N, NEW p \in SoundProjects(N)
    PROVE  p # NoProject /\ p # Absent /\ p # Partial /\ p \in ProjectOf(N)
  BY DEF MarksHaveNone, SoundProjects, ProjectOf

-----------------------------------------------------------------------------
(* Commands *)

OperationCommands ==
    [what : {"AddOperation", "RemoveOperation", "ModifyOperation"}, op : Nat \ {0}, index : {0},
     new : OperationOf, old : OperationOf]
ActionCommands ==
    [what : {"AddAction", "RemoveAction", "ModifyAction"}, op : Nat \ {0}, index : Nat,
     new : Actions, old : Actions]
Commands == OperationCommands \cup ActionCommands

\* Operation i of shape s and of shape t differ in their sizes alone, if in anything.
Resized(s, i, size, t) == /\ i \in 1..Len(s)
                          /\ Exchanged(s, i, [id |-> s[i].id, size |-> size], t)

\* The command leads from a project of shape s to one of shape t.
Link(cmd, s, t) ==
    \/ /\ cmd.what = "AddOperation"
       /\ Inserted(s, cmd.op, Sized(cmd.new), t)
    \/ /\ cmd.what = "RemoveOperation"
       /\ Inserted(t, cmd.op, Sized(cmd.old), s)
    \/ /\ cmd.what = "ModifyOperation"
       /\ cmd.new.id = cmd.old.id
       /\ Exchanged(s, cmd.op, Sized(cmd.new), t)
       /\ s[cmd.op] = Sized(cmd.old)
    \/ /\ cmd.what = "AddAction"
       /\ Resized(s, cmd.op, s[cmd.op].size + 1, t)
    \/ /\ cmd.what = "RemoveAction"
       /\ cmd.index \in 0..s[cmd.op].size
       /\ s[cmd.op].size > 0
       /\ Resized(s, cmd.op, s[cmd.op].size - 1, t)
    \/ /\ cmd.what = "ModifyAction"
       /\ cmd.op \in 1..Len(s)
       /\ cmd.index \in 0..s[cmd.op].size
       /\ s[cmd.op].size > 0
       /\ t = s

\* The command fits projects of shape s.
Suits(cmd, s) ==
    \/ /\ cmd.what = "AddOperation"
       /\ cmd.op \in 1..(Len(s) + 1)
       /\ \A k \in 1..Len(s) : s[k].id # cmd.new.id
    \/ /\ cmd.what = "RemoveOperation"
       /\ cmd.op \in 1..Len(s)
       /\ s[cmd.op] = Sized(cmd.old)
    \/ /\ cmd.what = "ModifyOperation"
       /\ cmd.new.id = cmd.old.id
       /\ cmd.op \in 1..Len(s)
       /\ s[cmd.op] = Sized(cmd.old)
    \/ /\ cmd.what = "AddAction"
       /\ cmd.op \in 1..Len(s)
    \/ /\ cmd.what \in {"RemoveAction", "ModifyAction"}
       /\ cmd.op \in 1..Len(s)
       /\ cmd.index \in 0..s[cmd.op].size
       /\ s[cmd.op].size > 0

\* The inverse of a command leads back.
LEMMA InverseLeadsBack ==
    ASSUME NEW cmd \in Commands, NEW s \in Shapes, NEW t \in Shapes, Link(cmd, s, t)
    PROVE  InverseProject(cmd) \in Commands /\ Link(InverseProject(cmd), t, s)
<1> DEFINE inv == InverseProject(cmd)
<1>1. /\ s \in Seq(SizedOf) /\ t \in Seq(SizedOf) /\ Len(s) \in Nat /\ Len(t) \in Nat
      /\ \A k \in 1..Len(s) : s[k] \in SizedOf
      /\ \A k \in 1..Len(t) : t[k] \in SizedOf
  BY DEF Shapes
<1>2. \A x \in SizedOf : x = [id |-> x.id, size |-> x.size] /\ x.size \in Nat
  BY DEF SizedOf
<1>3. CASE cmd.what = "AddOperation"
  <2>1. inv = [what |-> "RemoveOperation", op |-> cmd.op, index |-> 0, new |-> cmd.old, old |-> cmd.new]
    BY <1>3 DEF InverseProject, OpCommand
  <2>2. inv \in Commands
    BY <1>3, <2>1 DEF Commands, OperationCommands, ActionCommands
  <2> QED
    BY <1>3, <2>1, <2>2 DEF Link
<1>4. CASE cmd.what = "RemoveOperation"
  <2>1. inv = [what |-> "AddOperation", op |-> cmd.op, index |-> 0, new |-> cmd.old, old |-> cmd.new]
    BY <1>4 DEF InverseProject, OpCommand
  <2>2. inv \in Commands
    BY <1>4, <2>1 DEF Commands, OperationCommands, ActionCommands
  <2> QED
    BY <1>4, <2>1, <2>2 DEF Link
<1>5. CASE cmd.what = "ModifyOperation"
  <2>1. inv = [what |-> "ModifyOperation", op |-> cmd.op, index |-> 0, new |-> cmd.old, old |-> cmd.new]
    BY <1>5 DEF InverseProject, OpCommand
  <2>2. inv \in Commands
    BY <1>5, <2>1 DEF Commands, OperationCommands, ActionCommands
  <2>3. /\ cmd.new.id = cmd.old.id
        /\ Exchanged(s, cmd.op, Sized(cmd.new), t) /\ s[cmd.op] = Sized(cmd.old)
    BY <1>5 DEF Link
  <2>4. Exchanged(t, cmd.op, Sized(cmd.old), s) /\ t[cmd.op] = Sized(cmd.new)
    BY <2>3 DEF Exchanged
  <2> QED
    BY <2>1, <2>2, <2>3, <2>4 DEF Link
<1>6. CASE cmd.what = "AddAction"
  <2>1. inv = [what |-> "RemoveAction", op |-> cmd.op, index |-> 0, new |-> cmd.old, old |-> cmd.new]
    BY <1>6 DEF InverseProject, ActCommand, AtEnd
  <2>2. inv \in Commands
    BY <1>6, <2>1 DEF Commands, OperationCommands, ActionCommands
  <2> DEFINE i == cmd.op
  <2>3. i \in 1..Len(s) /\ Exchanged(s, i, [id |-> s[i].id, size |-> s[i].size + 1], t)
    BY <1>6 DEF Link, Resized
  <2> HIDE DEF i
  <2>4. i \in 1..Len(t) /\ t[i].id = s[i].id /\ t[i].size = s[i].size + 1 /\ s[i].size \in Nat
    BY <1>1, <1>2, <2>3 DEF Exchanged
  <2>5. s[i] = [id |-> t[i].id, size |-> t[i].size - 1]
    BY <1>1, <1>2, <2>3, <2>4
  <2>6. Exchanged(t, i, [id |-> t[i].id, size |-> t[i].size - 1], s)
    BY <2>3, <2>4, <2>5 DEF Exchanged
  <2>7. 0 \in 0..t[i].size /\ t[i].size > 0
    BY <2>4
  <2> QED
    BY <2>1, <2>2, <2>4, <2>6, <2>7 DEF Link, Resized, i
<1>7. CASE cmd.what = "RemoveAction"
  <2>1. inv = [what |-> "AddAction", op |-> cmd.op, index |-> 0, new |-> cmd.old, old |-> cmd.new]
    BY <1>7 DEF InverseProject, ActCommand, AtEnd
  <2>2. inv \in Commands
    BY <1>7, <2>1 DEF Commands, OperationCommands, ActionCommands
  <2> DEFINE i == cmd.op
  <2>3. /\ i \in 1..Len(s) /\ s[i].size > 0
        /\ Exchanged(s, i, [id |-> s[i].id, size |-> s[i].size - 1], t)
    BY <1>7 DEF Link, Resized
  <2> HIDE DEF i
  <2>4. i \in 1..Len(t) /\ t[i].id = s[i].id /\ t[i].size = s[i].size - 1 /\ s[i].size \in Nat
    BY <1>1, <1>2, <2>3 DEF Exchanged
  <2>5. s[i] = [id |-> t[i].id, size |-> t[i].size + 1]
    BY <1>1, <1>2, <2>3, <2>4
  <2>6. Exchanged(t, i, [id |-> t[i].id, size |-> t[i].size + 1], s)
    BY <2>3, <2>4, <2>5 DEF Exchanged
  <2> QED
    BY <2>1, <2>2, <2>4, <2>6 DEF Link, Resized, i
<1>8. CASE cmd.what = "ModifyAction"
  <2>1. inv = [what |-> "ModifyAction", op |-> cmd.op, index |-> cmd.index, new |-> cmd.old, old |-> cmd.new]
    BY <1>8 DEF InverseProject, ActCommand
  <2>2. inv \in Commands
    BY <1>8, <2>1 DEF Commands, OperationCommands, ActionCommands
  <2> QED
    BY <1>8, <2>1, <2>2 DEF Link
<1> HIDE DEF inv
<1> QED
  BY <1>3, <1>4, <1>5, <1>6, <1>7, <1>8 DEF Link, inv

\* A command suits the shape it leads from.
LEMMA LinkSuits ==
    ASSUME NEW cmd \in Commands, NEW s \in Shapes, NEW t \in Shapes, Link(cmd, s, t)
    PROVE  Suits(cmd, s)
<1>1. /\ Len(s) \in Nat /\ Len(t) \in Nat /\ Distinct(t)
      /\ cmd.op \in Nat \ {0}
  BY DEF Shapes, Commands, OperationCommands, ActionCommands
<1>2. CASE cmd.what = "AddOperation"
  <2> DEFINE i == cmd.op
  <2>1. Inserted(s, i, Sized(cmd.new), t)
    BY <1>2 DEF Link
  <2> HIDE DEF i
  <2>2. t[i].id = cmd.new.id /\ i \in 1..(Len(s) + 1) /\ i \in 1..Len(t)
    BY <1>1, <2>1 DEF Inserted, Sized
  <2>3. ASSUME NEW k \in 1..Len(s), s[k].id = cmd.new.id PROVE FALSE
    <3>1. CASE k < i
      <4>1. k \in 1..Len(t) /\ k # i /\ t[k] = s[k]
        BY <1>1, <2>1, <2>2, <3>1 DEF Inserted
      <4> QED
        BY <1>1, <2>2, <2>3, <4>1 DEF Distinct
    <3>2. CASE ~(k < i)
      <4>1. k + 1 \in 1..Len(t) /\ k + 1 # i /\ t[k + 1] = s[k]
        BY <1>1, <2>1, <2>2, <3>2 DEF Inserted
      <4> QED
        BY <1>1, <2>2, <2>3, <4>1 DEF Distinct
    <3> QED
      BY <3>1, <3>2
  <2> QED
    BY <1>2, <2>2, <2>3 DEF Suits, i
<1>3. CASE cmd.what = "RemoveOperation"
  <2>1. Inserted(t, cmd.op, Sized(cmd.old), s)
    BY <1>3 DEF Link
  <2> QED
    BY <1>1, <1>3, <2>1 DEF Suits, Inserted
<1>4. CASE cmd.what = "ModifyOperation"
  BY <1>4 DEF Suits, Link, Exchanged
<1>5. CASE cmd.what = "AddAction"
  BY <1>5 DEF Suits, Link, Resized
<1>6. CASE cmd.what = "RemoveAction"
  BY <1>6 DEF Suits, Link, Resized
<1>7. CASE cmd.what = "ModifyAction"
  BY <1>7 DEF Suits, Link
<1> QED
  BY <1>2, <1>3, <1>4, <1>5, <1>6, <1>7 DEF Link

\* A command that suits a shape leads to a list that has no id twice either.
LEMMA LinkKeepsDistinct ==
    ASSUME NEW cmd \in Commands, NEW s \in Shapes, NEW t \in Seq(SizedOf),
           Suits(cmd, s), Link(cmd, s, t)
    PROVE  t \in Shapes
<1>1. /\ Len(s) \in Nat /\ Len(t) \in Nat /\ Distinct(s)
      /\ cmd.op \in Nat \ {0}
  BY DEF Shapes, Commands, OperationCommands, ActionCommands
<1> SUFFICES ASSUME NEW a \in 1..Len(t), NEW b \in 1..Len(t), t[a].id = t[b].id
             PROVE  a = b
  BY DEF Shapes, Distinct
<1> DEFINE i == cmd.op
<1>2. CASE cmd.what = "AddOperation"
  <2>1. Inserted(s, i, Sized(cmd.new), t) /\ \A k \in 1..Len(s) : s[k].id # cmd.new.id
    BY <1>2 DEF Link, Suits
  <2> HIDE DEF i
  <2>2. t[i].id = cmd.new.id /\ i \in 1..(Len(s) + 1) /\ Len(t) = Len(s) + 1
    BY <2>1 DEF Inserted, Sized
  <2> DEFINE at(k) == IF k < i THEN k ELSE k - 1
  <2>3. ASSUME NEW k \in 1..Len(t), k # i PROVE at(k) \in 1..Len(s) /\ t[k] = s[at(k)]
    <3>1. CASE k < i
      BY <1>1, <2>1, <2>2, <3>1 DEF Inserted
    <3>2. CASE k > i
      <4>1. k - 1 \in i..Len(s) /\ (k - 1) + 1 = k
        BY <1>1, <2>2, <3>2
      <4>2. t[(k - 1) + 1] = s[k - 1]
        BY <2>1, <4>1 DEF Inserted
      <4> QED
        BY <1>1, <2>2, <3>2, <4>1, <4>2
    <3> QED
      BY <1>1, <2>2, <2>3, <3>1, <3>2
  <2>4. CASE a # i /\ b # i
    <3>1. at(a) = at(b)
      <4>1. at(a) \in 1..Len(s) /\ at(b) \in 1..Len(s) /\ s[at(a)].id = s[at(b)].id
        BY <2>3, <2>4
      <4> HIDE DEF at
      <4> QED
        BY <1>1, <4>1 DEF Distinct
    <3> QED
      BY <1>1, <2>2, <2>4, <3>1
  <2> HIDE DEF at
  <2>5. CASE a = i \/ b = i
    BY <2>1, <2>2, <2>3, <2>5
  <2> QED
    BY <2>4, <2>5
<1>3. CASE cmd.what = "RemoveOperation"
  <2>1. Inserted(t, i, Sized(cmd.old), s)
    BY <1>3 DEF Link
  <2> HIDE DEF i
  <2> DEFINE at(k) == IF k < i THEN k ELSE k + 1
  <2>2. ASSUME NEW k \in 1..Len(t) PROVE at(k) \in 1..Len(s) /\ t[k] = s[at(k)]
    BY <1>1, <2>1 DEF Inserted
  <2>3. at(a) = at(b)
    BY <1>1, <2>2 DEF Distinct
  <2>4. i \in Nat
    BY <1>1 DEF i
  <2> QED
    BY <2>3, <2>4
<1>4. CASE cmd.what = "ModifyOperation"
  <2>1. Exchanged(s, i, Sized(cmd.new), t) /\ s[i].id = t[i].id
    BY <1>4 DEF Link, Exchanged, Sized
  <2>2. \A k \in 1..Len(s) : t[k].id = s[k].id
    BY <2>1 DEF Exchanged
  <2> QED
    BY <1>1, <2>1, <2>2 DEF Distinct, Exchanged
<1>5. CASE cmd.what \in {"AddAction", "RemoveAction"}
  <2>1. PICK size : Resized(s, i, size, t)
    BY <1>5 DEF Link
  <2> HIDE DEF i
  <2>2. Len(t) = Len(s) /\ \A k \in 1..Len(s) : t[k].id = s[k].id
    BY <2>1 DEF Resized, Exchanged
  <2> QED
    BY <1>1, <2>2 DEF Distinct
<1>6. CASE cmd.what = "ModifyAction"
  BY <1>1, <1>6 DEF Link, Distinct
<1> QED
  BY <1>2, <1>3, <1>4, <1>5, <1>6 DEF Link

\* A command leads from a shape to one shape only.
LEMMA LinkOnce ==
    ASSUME NEW cmd \in Commands, NEW s \in Shapes, NEW t \in Shapes, NEW u \in Shapes,
           Link(cmd, s, t), Link(cmd, s, u)
    PROVE  t = u
<1>1. /\ Len(s) \in Nat /\ Len(t) \in Nat /\ Len(u) \in Nat
      /\ t \in Seq(SizedOf) /\ u \in Seq(SizedOf) /\ s \in Seq(SizedOf)
      /\ cmd.op \in Nat \ {0}
  BY DEF Shapes, Commands, OperationCommands, ActionCommands
<1> DEFINE i == cmd.op
<1> SUFFICES Len(t) = Len(u) /\ \A k \in 1..Len(t) : t[k] = u[k]
  BY <1>1, SeqEqual
<1>2. CASE cmd.what = "AddOperation"
  <2>1. Inserted(s, i, Sized(cmd.new), t) /\ Inserted(s, i, Sized(cmd.new), u)
    BY <1>2 DEF Link
  <2> HIDE DEF i
  <2>2. Len(t) = Len(u) /\ Len(t) = Len(s) + 1 /\ i \in 1..Len(t)
    BY <2>1 DEF Inserted
  <2>3. ASSUME NEW k \in 1..Len(t) PROVE t[k] = u[k]
    <3>1. CASE k = i
      BY <2>1, <3>1 DEF Inserted
    <3>2. CASE k < i
      BY <1>1, <2>1, <2>2, <3>2 DEF Inserted
    <3>3. CASE k > i
      <4>1. k - 1 \in i..Len(s) /\ (k - 1) + 1 = k
        BY <1>1, <2>2, <3>3
      <4>2. t[(k - 1) + 1] = s[k - 1] /\ u[(k - 1) + 1] = s[k - 1]
        BY <2>1, <4>1 DEF Inserted
      <4> QED
        BY <4>1, <4>2
    <3> QED
      BY <1>1, <2>2, <3>1, <3>2, <3>3
  <2> QED
    BY <2>2, <2>3
<1>3. CASE cmd.what = "RemoveOperation"
  <2>1. Inserted(t, i, Sized(cmd.old), s) /\ Inserted(u, i, Sized(cmd.old), s)
    BY <1>3 DEF Link
  <2> HIDE DEF i
  <2>2. Len(t) = Len(u)
    BY <1>1, <2>1 DEF Inserted
  <2>3. ASSUME NEW k \in 1..Len(t) PROVE t[k] = u[k]
    BY <1>1, <2>1, <2>2 DEF Inserted
  <2> QED
    BY <2>2, <2>3
<1>4. CASE cmd.what = "ModifyOperation"
  BY <1>4 DEF Link, Exchanged
<1>5. CASE cmd.what = "AddAction"
  BY <1>5 DEF Link, Resized, Exchanged
<1>6. CASE cmd.what = "RemoveAction"
  BY <1>6 DEF Link, Resized, Exchanged
<1>7. CASE cmd.what = "ModifyAction"
  BY <1>7 DEF Link
<1> QED
  BY <1>2, <1>3, <1>4, <1>5, <1>6, <1>7 DEF Link

\* What is put into the operations is put into the shape.
LEMMA ShapeInserted ==
    ASSUME NEW N, NEW p \in ProjectOf(N), NEW q \in ProjectOf(N), NEW i, NEW o \in OperationOf,
           Inserted(p.operations, i, o, q.operations)
    PROVE  Inserted(Shape(p), i, Sized(o), Shape(q))
<1> DEFINE n == Len(p.operations)
           s == Shape(p)
           t == Shape(q)
<1>1. /\ n \in Nat /\ Len(s) = n /\ \A k \in 1..n : s[k] = Sized(p.operations[k])
      /\ Len(t) = Len(q.operations) /\ Len(q.operations) = n + 1
      /\ \A k \in 1..(n + 1) : t[k] = Sized(q.operations[k])
      /\ i \in 1..(n + 1)
  BY ShapeFacts DEF Inserted
<1> HIDE DEF s, t
<1>2. t[i] = Sized(o)
  BY <1>1 DEF Inserted
<1>3. ASSUME NEW k \in 1..(i - 1) PROVE t[k] = s[k]
  <2>1. k \in 1..n /\ k \in 1..(n + 1) /\ q.operations[k] = p.operations[k]
    BY <1>1 DEF Inserted
  <2> QED
    BY <1>1, <2>1
<1>4. ASSUME NEW k \in i..n PROVE t[k + 1] = s[k]
  <2>1. k \in 1..n /\ k + 1 \in 1..(n + 1) /\ q.operations[k + 1] = p.operations[k]
    BY <1>1 DEF Inserted
  <2> QED
    BY <1>1, <2>1
<1> HIDE DEF n
<1> QED
  BY <1>1, <1>2, <1>3, <1>4 DEF Inserted, s, t

\* A project with other operations.
LEMMA OtherOperations ==
    ASSUME NEW N, NEW p \in ProjectOf(N), NEW list \in Seq(OperationOf)
    PROVE  /\ [p EXCEPT !.operations = list] \in ProjectOf(N)
           /\ [p EXCEPT !.operations = list].operations = list
  BY DEF ProjectOf

\* A project with another operation in the place of one it has.
LEMMA OtherOperation ==
    ASSUME NEW N, NEW p \in ProjectOf(N), NEW i \in 1..Len(p.operations), NEW o \in OperationOf
    PROVE  /\ [p EXCEPT !.operations[i] = o] \in ProjectOf(N)
           /\ Exchanged(Shape(p), i, Sized(o), Shape([p EXCEPT !.operations[i] = o]))
<1> DEFINE ops == p.operations
           n == Len(ops)
           list == [ops EXCEPT ![i] = o]
           r == [p EXCEPT !.operations = list]
<1>1. n \in Nat /\ ops \in Seq(OperationOf) /\ i \in 1..n
  BY DEF ProjectOf
<1>2. /\ list \in Seq(OperationOf) /\ Len(list) = n /\ list[i] = o
      /\ \A k \in 1..n : k # i => list[k] = ops[k]
  BY <1>1
<1>3. [p EXCEPT !.operations[i] = o] = r
  BY DEF ProjectOf
<1> HIDE DEF list
<1>4. r \in ProjectOf(N) /\ r.operations = list
  BY <1>2, OtherOperations
<1> HIDE DEF r
<1>5. /\ Len(Shape(p)) = n /\ \A k \in 1..n : Shape(p)[k] = Sized(ops[k])
      /\ Len(Shape(r)) = n /\ \A k \in 1..n : Shape(r)[k] = Sized(list[k])
  BY <1>2, <1>4, ShapeFacts
<1>6. Exchanged(Shape(p), i, Sized(o), Shape(r))
  BY <1>1, <1>2, <1>5 DEF Exchanged
<1> QED
  BY <1>3, <1>4, <1>6

\* A project with other actions in one of its operations.
LEMMA OtherActions ==
    ASSUME NEW N, NEW p \in ProjectOf(N), NEW i \in 1..Len(p.operations),
           NEW acts \in Seq(Actions),
           NEW r, r = [p EXCEPT !.operations[i].actions = acts],
           NEW size, size = Len(acts)
    PROVE  r \in ProjectOf(N) /\ Resized(Shape(p), i, size, Shape(r))
<1> DEFINE o == [id |-> p.operations[i].id, actions |-> acts]
<1>1. p.operations[i] \in OperationOf
  BY ShapeFacts
<1>2. o \in OperationOf /\ [p.operations[i] EXCEPT !.actions = acts] = o
  BY <1>1 DEF OperationOf
<1>3. r = [p EXCEPT !.operations[i] = o]
  <2>1. r = [p EXCEPT !.operations = [p.operations EXCEPT ![i] = [p.operations[i] EXCEPT !.actions = acts]]]
    BY DEF ProjectOf
  <2> QED
    BY <1>2, <2>1
<1>4. r \in ProjectOf(N) /\ Exchanged(Shape(p), i, Sized(o), Shape(r))
  BY <1>2, <1>3, OtherOperation
<1>5. Sized(o) = [id |-> Shape(p)[i].id, size |-> Len(acts)]
  BY ShapeFacts DEF Sized
<1>6. i \in 1..Len(Shape(p))
  BY ShapeFacts
<1> HIDE DEF o
<1> QED
  BY <1>4, <1>5, <1>6 DEF Resized

\* A command that suits a project changes it as its link says.
LEMMA CommandSteps ==
    ASSUME NEW N, NEW p \in SoundProjects(N), NEW cmd \in Commands, Suits(cmd, Shape(p))
    PROVE  /\ ApplyProject(cmd, p) \in SoundProjects(N)
           /\ Link(cmd, Shape(p), Shape(ApplyProject(cmd, p)))
<1> DEFINE ops == p.operations
           i == cmd.op
           r == ApplyProject(cmd, p)
<1>1. /\ p \in ProjectOf(N) /\ Len(ops) \in Nat /\ ops \in Seq(OperationOf)
      /\ Shape(p) \in Shapes /\ Len(Shape(p)) = Len(ops)
      /\ \A k \in 1..Len(ops) : /\ ops[k] \in OperationOf
                                /\ Shape(p)[k] = Sized(ops[k])
                                /\ Shape(p)[k].size = Len(ops[k].actions)
  BY ShapeFacts, SoundByShape DEF SoundProjects, ProjectOf
<1>2. i \in Nat \ {0}
  BY DEF Commands, OperationCommands, ActionCommands
<1> SUFFICES r \in ProjectOf(N) /\ Link(cmd, Shape(p), Shape(r))
  <2>1. Shape(r) \in Seq(SizedOf)
    BY ShapeFacts
  <2>2. Shape(r) \in Shapes
    BY <1>1, <2>1, LinkKeepsDistinct
  <2> QED
    BY <2>2, SoundByShape
<1>3. CASE cmd.what = "AddOperation"
  <2>1. i \in 1..(Len(ops) + 1) /\ cmd.new \in OperationOf
    BY <1>1, <1>3 DEF Suits, Commands, OperationCommands, ActionCommands
  <2>2. r = [p EXCEPT !.operations = InsertAt(ops, i, cmd.new)]
    BY <1>1, <1>3, <2>1 DEF ApplyProject, ApplyOperation
  <2>3. InsertAt(ops, i, cmd.new) \in Seq(OperationOf) /\ Inserted(ops, i, cmd.new, InsertAt(ops, i, cmd.new))
    BY <1>1, <2>1, InsertAtInserts
  <2> HIDE DEF r, i
  <2>4. r \in ProjectOf(N) /\ r.operations = InsertAt(ops, i, cmd.new)
    BY <1>1, <2>2, <2>3, OtherOperations
  <2>5. Inserted(Shape(p), i, Sized(cmd.new), Shape(r))
    BY <1>1, <2>1, <2>3, <2>4, ShapeInserted
  <2> QED
    BY <1>3, <2>4, <2>5 DEF Link, i
<1>4. CASE cmd.what = "RemoveOperation"
  <2>1. i \in 1..Len(ops) /\ Sized(ops[i]) = Sized(cmd.old)
    BY <1>1, <1>4 DEF Suits
  <2>2. r = [p EXCEPT !.operations = RemoveAt(ops, i)]
    BY <1>1, <1>4, <2>1 DEF ApplyProject, ApplyOperation
  <2>3. RemoveAt(ops, i) \in Seq(OperationOf) /\ Inserted(RemoveAt(ops, i), i, ops[i], ops)
    BY <1>1, <2>1, RemoveAtRemoves
  <2> HIDE DEF r, i
  <2>4. r \in ProjectOf(N) /\ r.operations = RemoveAt(ops, i)
    BY <1>1, <2>2, <2>3, OtherOperations
  <2>5. Inserted(Shape(r), i, Sized(ops[i]), Shape(p))
    BY <1>1, <2>1, <2>3, <2>4, ShapeInserted
  <2> QED
    BY <1>4, <2>1, <2>4, <2>5 DEF Link, i
<1>5. CASE cmd.what = "ModifyOperation"
  <2>1. /\ i \in 1..Len(ops) /\ Shape(p)[i] = Sized(cmd.old)
        /\ cmd.new \in OperationOf /\ cmd.new.id = cmd.old.id
    BY <1>1, <1>5 DEF Suits, Commands, OperationCommands, ActionCommands
  <2>2. r = [p EXCEPT !.operations[i] = cmd.new]
    BY <1>1, <1>5, <2>1 DEF ApplyProject, ApplyOperation
  <2> HIDE DEF r, i
  <2>3. r \in ProjectOf(N) /\ Exchanged(Shape(p), i, Sized(cmd.new), Shape(r))
    BY <1>1, <2>1, <2>2, OtherOperation
  <2> QED
    BY <1>5, <2>1, <2>3 DEF Link, i
<1> DEFINE acts == ops[i].actions
           at == IF cmd.index = AtEnd THEN Len(acts) ELSE cmd.index
<1>6. CASE cmd.what \in {"AddAction", "RemoveAction", "ModifyAction"}
  <2>1. i \in 1..Len(ops) /\ cmd.new \in Actions
    BY <1>1, <1>6 DEF Suits, Commands, OperationCommands, ActionCommands
  <2>2. acts \in Seq(Actions) /\ Len(acts) \in Nat /\ Shape(p)[i].size = Len(acts)
    BY <1>1, <2>1 DEF OperationOf
  <2>3. CASE cmd.what = "AddAction"
    <3>1. r = [p EXCEPT !.operations[i].actions = Append(acts, cmd.new)]
      BY <1>1, <2>1, <2>3 DEF ApplyProject, ApplyAction
    <3>2. Append(acts, cmd.new) \in Seq(Actions) /\ Len(Append(acts, cmd.new)) = Len(acts) + 1
      BY <2>1, <2>2
    <3> HIDE DEF r, i, acts
    <3>3. r \in ProjectOf(N) /\ Resized(Shape(p), i, Len(acts) + 1, Shape(r))
      BY <1>1, <2>1, <3>1, <3>2, OtherActions
    <3> QED
      BY <2>2, <2>3, <3>3 DEF Link, i
  <2>4. CASE cmd.what = "RemoveAction"
    <3>1. cmd.index \in 0..Len(acts) /\ Len(acts) > 0 /\ at \in 1..Len(acts)
      BY <1>1, <2>2, <2>4 DEF Suits, AtEnd
    <3>2. r = [p EXCEPT !.operations[i].actions = RemoveAt(acts, at)]
      BY <1>1, <2>1, <2>2, <2>4, <3>1 DEF ApplyProject, ApplyAction
    <3> HIDE DEF at
    <3>3. /\ RemoveAt(acts, at) \in Seq(Actions)
          /\ Inserted(RemoveAt(acts, at), at, acts[at], acts)
      BY <2>2, <3>1, RemoveAtRemoves
    <3>4. Len(RemoveAt(acts, at)) = Len(acts) - 1
      BY <3>3 DEF Inserted
    <3> HIDE DEF r, i, acts
    <3>5. r \in ProjectOf(N) /\ Resized(Shape(p), i, Len(acts) - 1, Shape(r))
      BY <1>1, <2>1, <3>2, <3>3, <3>4, OtherActions
    <3> QED
      BY <2>2, <2>4, <3>1, <3>5 DEF Link, i
  <2>5. CASE cmd.what = "ModifyAction"
    <3>1. cmd.index \in 0..Len(acts) /\ Len(acts) > 0 /\ at \in 1..Len(acts)
      BY <1>1, <2>2, <2>5 DEF Suits, AtEnd
    <3> DEFINE list == [acts EXCEPT ![at] = cmd.new]
    <3>2. r = [p EXCEPT !.operations[i].actions[at] = cmd.new]
      BY <1>1, <2>1, <2>2, <2>5, <3>1 DEF ApplyProject, ApplyAction
    <3> HIDE DEF at
    <3>3. r = [p EXCEPT !.operations[i].actions = list]
      BY <3>2
    <3>4. list \in Seq(Actions) /\ Len(list) = Len(acts)
      BY <2>1, <2>2, <3>1
    <3> HIDE DEF r, i, acts, list
    <3>5. r \in ProjectOf(N) /\ Resized(Shape(p), i, Len(acts), Shape(r))
      BY <1>1, <2>1, <3>3, <3>4, OtherActions
    <3>6. Shape(r) = Shape(p)
      <4>1. Shape(p) \in Seq(SizedOf) /\ Shape(r) \in Seq(SizedOf)
        BY <1>1, <3>5, ShapeFacts
      <4>2. Shape(p)[i] = [id |-> Shape(p)[i].id, size |-> Len(acts)]
        <5>1. Shape(p)[i] \in SizedOf /\ Shape(p)[i].size = Len(acts)
          BY <1>1, <2>1, <2>2, <4>1 DEF i, acts
        <5> QED
          BY <5>1 DEF SizedOf
      <4>3. Len(Shape(r)) = Len(Shape(p)) /\ \A k \in 1..Len(Shape(p)) : Shape(r)[k] = Shape(p)[k]
        BY <3>5, <4>2 DEF Resized, Exchanged
      <4> QED
        BY <4>1, <4>3, SeqEqual
    <3> QED
      BY <1>1, <2>1, <2>2, <2>5, <3>1, <3>5, <3>6 DEF Link, i
  <2> QED
    BY <1>6, <2>3, <2>4, <2>5
<1> QED
  BY <1>3, <1>4, <1>5, <1>6 DEF Commands, OperationCommands, ActionCommands

\* Whether a command fits, and what it leads to, depends on the shape alone.
LEMMA LinkApplies ==
    ASSUME NEW N, NEW p \in SoundProjects(N), NEW t \in Shapes, NEW cmd \in Commands,
           Link(cmd, Shape(p), t)
    PROVE  ApplyProject(cmd, p) \in SoundProjects(N) /\ Shape(ApplyProject(cmd, p)) = t
<1>1. p \in ProjectOf(N) /\ Shape(p) \in Shapes
  BY SoundByShape DEF SoundProjects
<1>2. Suits(cmd, Shape(p))
  BY <1>1, LinkSuits
<1>3. /\ ApplyProject(cmd, p) \in SoundProjects(N)
      /\ Link(cmd, Shape(p), Shape(ApplyProject(cmd, p)))
  BY <1>2, CommandSteps
<1>4. Shape(ApplyProject(cmd, p)) \in Shapes
  BY <1>3, SoundByShape DEF SoundProjects
<1>5. Shape(ApplyProject(cmd, p)) = t
  BY <1>1, <1>3, <1>4, LinkOnce
<1> QED
  BY <1>3, <1>5

-----------------------------------------------------------------------------
(* Undo and redo stacks *)

\* One step along a stack, from its last command: on from shape s when the command can be
\* redone, back from it when it can be undone.
Way(onward, cmd, s, t) == IF onward THEN Link(cmd, s, t) ELSE Link(cmd, t, s)
StepOf(onward, cmd) == IF onward THEN cmd ELSE InverseProject(cmd)

\* From shape s there is a way along the whole stack.
Trail(onward, cmds, s) ==
    /\ cmds \in Seq(Commands)
    /\ \E V : /\ \A k \in 0..Len(cmds) : V[k] \in Shapes
              /\ V[Len(cmds)] = s
              /\ \A k \in 1..Len(cmds) : Way(onward, cmds[k], V[k], V[k - 1])

\* A list without its last item, and that item.
LEMMA FrontAndLast ==
    ASSUME NEW X, NEW list \in Seq(X), list # <<>>
    PROVE  /\ Len(list) \in Nat \ {0} /\ Front(list) \in Seq(X)
           /\ Len(Front(list)) = Len(list) - 1
           /\ \A k \in 1..(Len(list) - 1) : Front(list)[k] = list[k]
           /\ Last(list) = list[Len(list)] /\ Last(list) \in X
<1>1. PICK m \in Nat : Len(list) = m + 1
  <2>1. Len(list) \in Nat \ {0} /\ Len(list) - 1 \in Nat
    OBVIOUS
  <2> QED
    BY <2>1
<1>2. (m + 1) - 1 = m /\ 1 \in Int /\ m \in Int /\ \A k \in 1..m : list[k] \in X
  BY <1>1
<1>3. Front(list) = SubSeq(list, 1, m)
  BY <1>1, <1>2 DEF Front
<1> DEFINE l == SubSeq(list, 1, m)
<1>4. l \in Seq(X) /\ Len(l) = IF 1 <= m THEN m - 1 + 1 ELSE 0
  BY <1>2, SubSeqProperties
<1>5. \A k \in 1..(m - 1 + 1) : l[k] = list[1 + k - 1]
  BY <1>2, SubSeqProperties
<1> HIDE DEF l
<1>6. Len(l) = m
  BY <1>2, <1>4
<1>7. \A k \in 1..m : l[k] = list[k]
  BY <1>2, <1>5
<1>8. Last(list) = list[Len(list)] /\ list[m + 1] \in X
  BY <1>1 DEF Last
<1> QED
  BY <1>1, <1>2, <1>3, <1>4, <1>6, <1>7, <1>8 DEF l

\* A stack with nothing on it.
LEMMA TrailBegins ==
    ASSUME NEW onward \in BOOLEAN, NEW s \in Shapes
    PROVE  Trail(onward, <<>>, s)
<1> DEFINE V == [k \in {0} |-> s]
<1>1. <<>> \in Seq(Commands) /\ Len(<<>>) = 0
  OBVIOUS
<1>2. V[0] = s /\ 0..0 = {0} /\ 1..0 = {}
  OBVIOUS
<1> HIDE DEF V
<1> QED
  BY <1>1, <1>2 DEF Trail

\* A command more on the stack.
LEMMA TrailGrows ==
    ASSUME NEW onward \in BOOLEAN, NEW cmds, NEW s, Trail(onward, cmds, s),
           NEW cmd \in Commands, NEW t \in Shapes, Way(onward, cmd, t, s)
    PROVE  Trail(onward, Append(cmds, cmd), t)
<1> DEFINE n == Len(cmds)
           l == Append(cmds, cmd)
<1>1. PICK V : /\ \A k \in 0..n : V[k] \in Shapes
               /\ V[n] = s
               /\ \A k \in 1..n : Way(onward, cmds[k], V[k], V[k - 1])
  BY DEF Trail
<1> DEFINE W == [k \in 0..(n + 1) |-> IF k = n + 1 THEN t ELSE V[k]]
<1>2. /\ cmds \in Seq(Commands) /\ n \in Nat
      /\ l \in Seq(Commands) /\ Len(l) = n + 1 /\ l[n + 1] = cmd
      /\ \A k \in 1..n : l[k] = cmds[k]
  BY DEF Trail
<1>3. W[n + 1] = t /\ \A k \in 0..n : W[k] = V[k]
  BY <1>2
<1> HIDE DEF l, W
<1>4. \A k \in 0..(n + 1) : W[k] \in Shapes
  BY <1>1, <1>2, <1>3
<1>5. ASSUME NEW k \in 1..(n + 1) PROVE Way(onward, l[k], W[k], W[k - 1])
  <2>1. CASE k = n + 1
    BY <1>1, <1>2, <1>3, <2>1
  <2>2. CASE k # n + 1
    <3>1. k \in 1..n /\ k - 1 \in 0..n /\ k \in 0..n
      BY <1>2, <2>2
    <3> QED
      BY <1>1, <1>2, <1>3, <3>1
  <2> QED
    BY <2>1, <2>2
<1> QED
  BY <1>2, <1>3, <1>4, <1>5 DEF Trail, l

\* The oldest command is forgotten.
LEMMA TrailForgets ==
    ASSUME NEW onward \in BOOLEAN, NEW cmds, NEW s, Trail(onward, cmds, s), cmds # <<>>
    PROVE  Trail(onward, Tail(cmds), s)
<1> DEFINE n == Len(cmds)
           l == Tail(cmds)
<1>1. PICK V : /\ \A k \in 0..n : V[k] \in Shapes
               /\ V[n] = s
               /\ \A k \in 1..n : Way(onward, cmds[k], V[k], V[k - 1])
  BY DEF Trail
<1> DEFINE W == [k \in 0..(n - 1) |-> V[k + 1]]
<1>2. /\ cmds \in Seq(Commands) /\ n \in Nat \ {0}
      /\ l \in Seq(Commands) /\ Len(l) = n - 1
      /\ \A k \in 1..(n - 1) : l[k] = cmds[k + 1]
  BY DEF Trail
<1>3. \A k \in 0..(n - 1) : W[k] = V[k + 1]
  BY <1>2
<1> HIDE DEF l, W
<1>4. \A k \in 0..(n - 1) : W[k] \in Shapes
  BY <1>1, <1>2, <1>3
<1>5. ASSUME NEW k \in 1..(n - 1) PROVE Way(onward, l[k], W[k], W[k - 1])
  <2>1. k + 1 \in 1..n /\ k - 1 \in 0..(n - 1) /\ k \in 0..(n - 1) /\ (k + 1) - 1 = k /\ (k - 1) + 1 = k
    BY <1>2
  <2>2. Way(onward, cmds[k + 1], V[k + 1], V[(k + 1) - 1])
    BY <1>1, <2>1
  <2> QED
    BY <1>2, <1>3, <2>1, <2>2
<1>6. W[n - 1] = s
  <2>1. n - 1 \in 0..(n - 1) /\ (n - 1) + 1 = n
    BY <1>2
  <2> QED
    BY <1>1, <1>3, <2>1
<1> QED
  BY <1>2, <1>4, <1>5, <1>6 DEF Trail, l

\* The last command of the stack, and what is left without it.
LEMMA TrailShrinks ==
    ASSUME NEW onward \in BOOLEAN, NEW cmds, NEW s, Trail(onward, cmds, s), cmds # <<>>
    PROVE  /\ Last(cmds) \in Commands
           /\ \E t \in Shapes : Way(onward, Last(cmds), s, t) /\ Trail(onward, Front(cmds), t)
<1> DEFINE n == Len(cmds)
           l == Front(cmds)
<1>1. PICK V : /\ \A k \in 0..n : V[k] \in Shapes
               /\ V[n] = s
               /\ \A k \in 1..n : Way(onward, cmds[k], V[k], V[k - 1])
  BY DEF Trail
<1>2. /\ cmds \in Seq(Commands) /\ n \in Nat \ {0}
      /\ l \in Seq(Commands) /\ Len(l) = n - 1
      /\ \A k \in 1..(n - 1) : l[k] = cmds[k]
      /\ Last(cmds) = cmds[n] /\ Last(cmds) \in Commands
  BY FrontAndLast DEF Trail
<1> HIDE DEF l
<1>3. V[n - 1] \in Shapes /\ Way(onward, Last(cmds), s, V[n - 1])
  BY <1>1, <1>2
<1>4. /\ \A k \in 0..(n - 1) : V[k] \in Shapes
      /\ \A k \in 1..(n - 1) : Way(onward, l[k], V[k], V[k - 1])
  BY <1>1, <1>2
<1>5. Trail(onward, l, V[n - 1])
  BY <1>2, <1>4 DEF Trail
<1> QED
  BY <1>2, <1>3, <1>5 DEF l

\* A step of the way can be taken by every project of the shape.
LEMMA WayApplies ==
    ASSUME NEW onward \in BOOLEAN, NEW N, NEW p \in SoundProjects(N), NEW t \in Shapes,
           NEW cmd \in Commands, Way(onward, cmd, Shape(p), t)
    PROVE  LET r == ApplyProject(StepOf(onward, cmd), p) IN
           r \in SoundProjects(N) /\ Shape(r) = t
<1>1. Shape(p) \in Shapes
  BY SoundByShape DEF SoundProjects
<1>2. CASE onward
  BY <1>2, LinkApplies DEF Way, StepOf
<1>3. CASE ~onward
  <2>1. InverseProject(cmd) \in Commands /\ Link(InverseProject(cmd), Shape(p), t)
    BY <1>1, <1>3, InverseLeadsBack DEF Way
  <2> QED
    BY <1>3, <2>1, LinkApplies DEF StepOf
<1> QED
  BY <1>2, <1>3

\* Applying a list of commands makes one project after the other.
ProjectRun(f, cmds, p) ==
    f = [k \in 0..Len(cmds) |-> IF k = 0 THEN p ELSE P!After(cmds[Len(cmds) + 1 - k], f[k - 1])]

Unwinding(f, n, cmds, p) ==
    /\ f[0] = p
    /\ \A k \in 1..n : f[k] = P!After(cmds[n + 1 - k], f[k - 1])
    /\ P!Unwound(cmds, p) = f[n]

\* Applying commands in turn is a run: CHOOSE finds the one there is.
LEMMA ProjectRuns ==
    ASSUME NEW cmds, NEW n \in Nat, Len(cmds) = n, NEW p
    PROVE  \E f : Unwinding(f, n, cmds, p)
<1> DEFINE next(k, doc) == P!After(cmds[n + 1 - k], doc)
           Begun(m, f) == f[0] = p /\ \A k \in 1..m : f[k] = next(k, f[k - 1])
           S == {m \in Nat : \E f : Begun(m, f)}
<1> HIDE DEF next
<1>1. 0 \in S
  <2>1. [k \in {0} |-> p][0] = p /\ 1..0 = {}
    OBVIOUS
  <2> QED
    BY <2>1
<1>2. ASSUME NEW m \in Nat, m \in S PROVE m + 1 \in S
  <2>1. PICK f : Begun(m, f)
    BY <1>2
  <2> DEFINE g == [k \in 0..(m + 1) |-> IF k = m + 1 THEN next(m + 1, f[m]) ELSE f[k]]
  <2>2. g[m + 1] = next(m + 1, f[m]) /\ \A k \in 0..m : g[k] = f[k]
    OBVIOUS
  <2> HIDE DEF g
  <2>3. ASSUME NEW k \in 1..(m + 1) PROVE g[k] = next(k, g[k - 1])
    <3>1. CASE k = m + 1
      BY <2>2, <3>1
    <3>2. CASE k # m + 1
      <4>1. k \in 1..m /\ k \in 0..m /\ k - 1 \in 0..m
        BY <3>2
      <4> QED
        BY <2>1, <2>2, <4>1
    <3> QED
      BY <3>1, <3>2
  <2>4. Begun(m + 1, g)
    BY <2>1, <2>2, <2>3
  <2> QED
    BY <2>4
<1> HIDE DEF S
<1>3. n \in S
  BY <1>1, <1>2, NumberInduction
<1>4. PICK f : Begun(n, f)
  BY <1>3 DEF S
<1> DEFINE g == [k \in 0..n |-> f[k]]
<1>5. ProjectRun(g, cmds, p)
  <2>1. \A k \in 0..n : g[k] = f[k]
    OBVIOUS
  <2>2. ASSUME NEW k \in 0..n PROVE g[k] = IF k = 0 THEN p ELSE next(k, g[k - 1])
    <3>1. CASE k = 0
      BY <1>4, <2>1, <3>1
    <3>2. CASE k # 0
      <4>1. k \in 1..n /\ k - 1 \in 0..n
        BY <3>2
      <4> QED
        BY <1>4, <2>1, <3>2, <4>1
    <3> QED
      BY <3>1, <3>2
  <2> DEFINE h == [k \in 0..n |-> IF k = 0 THEN p ELSE next(k, g[k - 1])]
  <2>3. g = h
    <3>1. \A k \in 0..n : g[k] = h[k]
      BY <2>2
    <3>2. g = [k \in 0..n |-> g[k]] /\ h = [k \in 0..n |-> h[k]]
      OBVIOUS
    <3> QED
      BY <3>1, <3>2
  <2> QED
    BY <2>3 DEF ProjectRun, next
<1> HIDE DEF g
<1>6. PICK run : run = (CHOOSE r : ProjectRun(r, cmds, p))
  OBVIOUS
<1>7. ProjectRun(run, cmds, p)
  BY <1>5, <1>6
<1>8. P!Unwound(cmds, p) = run[n]
  BY <1>6 DEF P!Unwound, ProjectRun
<1>9. \A k \in 0..n : run[k] = IF k = 0 THEN p ELSE P!After(cmds[n + 1 - k], run[k - 1])
  BY <1>7 DEF ProjectRun
<1>10. run[0] = p /\ \A k \in 1..n : run[k] = P!After(cmds[n + 1 - k], run[k - 1])
  BY <1>9
<1> QED
  BY <1>8, <1>10 DEF Unwinding

\* Where there is a way along the stack, it can be gone to its end.
LEMMA TrailUnwinds ==
    ASSUME MarksHaveNone, NEW onward \in BOOLEAN, NEW N, NEW p \in SoundProjects(N),
           NEW cmds, Trail(onward, cmds, Shape(p)),
           NEW steps, Len(steps) = Len(cmds),
           \A k \in 1..Len(cmds) : steps[k] = StepOf(onward, cmds[k])
    PROVE  P!Unwound(steps, p) \in SoundProjects(N)
<1> DEFINE n == Len(cmds)
<1>1. PICK V : /\ \A k \in 0..n : V[k] \in Shapes
               /\ V[n] = Shape(p)
               /\ \A k \in 1..n : Way(onward, cmds[k], V[k], V[k - 1])
  BY DEF Trail
<1>2. n \in Nat /\ \A k \in 1..n : cmds[k] \in Commands
  BY DEF Trail
<1>3. PICK f : Unwinding(f, n, steps, p)
  BY <1>2, ProjectRuns
<1>4. /\ f[0] = p
      /\ \A k \in 1..n : f[k] = P!After(steps[n + 1 - k], f[k - 1])
      /\ P!Unwound(steps, p) = f[n]
  BY <1>3 DEF Unwinding
<1>5. \A k \in 1..n : steps[k] = StepOf(onward, cmds[k])
  OBVIOUS
<1> HIDE DEF n
<1> DEFINE S == {k \in Nat : k <= n => f[k] \in SoundProjects(N) /\ Shape(f[k]) = V[n - k]}
<1>6. 0 \in S
  BY <1>1, <1>2, <1>4
<1>7. ASSUME NEW k \in Nat, k \in S PROVE k + 1 \in S
  <2> SUFFICES ASSUME k + 1 <= n
               PROVE  f[k + 1] \in SoundProjects(N) /\ Shape(f[k + 1]) = V[n - (k + 1)]
    OBVIOUS
  <2> DEFINE i == n - k
  <2>1. /\ i \in 1..n /\ i - 1 \in 0..n /\ n + 1 - (k + 1) = i /\ n - (k + 1) = i - 1
        /\ k + 1 \in 1..n /\ (k + 1) - 1 = k
    BY <1>2
  <2>2. f[k] \in SoundProjects(N) /\ Shape(f[k]) = V[i]
    BY <1>2, <1>7
  <2> HIDE DEF i
  <2>3. f[k + 1] = P!After(StepOf(onward, cmds[i]), f[k])
    BY <1>4, <1>5, <2>1
  <2>4. f[k] # NoProject
    BY <2>2, SoundIsAProject
  <2>5. f[k + 1] = ApplyProject(StepOf(onward, cmds[i]), f[k])
    BY <2>3, <2>4 DEF P!After
  <2>6. cmds[i] \in Commands /\ V[i - 1] \in Shapes /\ Way(onward, cmds[i], Shape(f[k]), V[i - 1])
    BY <1>1, <1>2, <2>1, <2>2
  <2> QED
    BY <2>1, <2>2, <2>5, <2>6, WayApplies
<1> HIDE DEF S
<1>8. n \in S
  BY <1>2, <1>6, <1>7, NumberInduction
<1> QED
  BY <1>2, <1>4, <1>8 DEF S

\* A session whose project its history leads back from and on from.
SoundHistory(p, h) ==
    /\ p \in SoundProjects(Projects)
    /\ Trail(FALSE, h.undo, Shape(p))
    /\ Trail(TRUE, h.redo, Shape(p))

\* A command that fits is done and remembered.
LEMMA ExecuteKeepsHistory ==
    ASSUME MarksHaveNone, NEW p, NEW h, SoundHistory(p, h),
           NEW cmd \in Commands, Suits(cmd, Shape(p))
    PROVE  SoundHistory(P!Execute(cmd, p, h).doc, P!Execute(cmd, p, h).history)
<1> DEFINE r == ApplyProject(cmd, p)
           o == P!Execute(cmd, p, h)
           undo == Append(h.undo, cmd)
<1>1. p \in SoundProjects(Projects) /\ Trail(FALSE, h.undo, Shape(p))
  BY DEF SoundHistory
<1>2. r \in SoundProjects(Projects) /\ Link(cmd, Shape(p), Shape(r)) /\ r # NoProject
  BY <1>1, CommandSteps, SoundIsAProject
<1>3. Shape(r) \in Shapes
  BY <1>2, SoundByShape DEF SoundProjects
<1>4. o.doc = r /\ o.history.undo = P!Capped(undo) /\ o.history.redo = <<>>
  BY <1>2 DEF P!Execute, P!Outcome
<1> HIDE DEF r, o
<1>5. Trail(FALSE, undo, Shape(r))
  <2>1. Way(FALSE, cmd, Shape(r), Shape(p))
    BY <1>2 DEF Way
  <2> QED
    BY <1>1, <1>3, <2>1, TrailGrows
<1>6. Trail(FALSE, P!Capped(undo), Shape(r))
  <2>1. undo # <<>>
    <3>1. h.undo \in Seq(Commands)
      BY <1>1 DEF Trail
    <3>2. Len(undo) = Len(h.undo) + 1 /\ Len(h.undo) \in Nat
      BY <3>1
    <3> QED
      BY <3>2
  <2> QED
    BY <1>5, <2>1, TrailForgets DEF P!Capped
<1>7. Trail(TRUE, <<>>, Shape(r))
  BY <1>3, TrailBegins
<1> QED
  BY <1>2, <1>4, <1>6, <1>7 DEF SoundHistory, o

\* Undo takes the last command back.
LEMMA UndoKeepsHistory ==
    ASSUME MarksHaveNone, NEW p, NEW h, SoundHistory(p, h)
    PROVE  SoundHistory(P!Undo(p, h).doc, P!Undo(p, h).history)
<1> DEFINE o == P!Undo(p, h)
           cmd == Last(h.undo)
           r == ApplyProject(InverseProject(cmd), p)
<1>1. CASE h.undo = <<>>
  <2>1. o.doc = p /\ o.history.undo = h.undo /\ o.history.redo = h.redo
    BY <1>1 DEF P!Undo, P!Outcome
  <2> QED
    BY <2>1 DEF SoundHistory
<1>2. CASE h.undo # <<>>
  <2>1. p \in SoundProjects(Projects) /\ Trail(FALSE, h.undo, Shape(p)) /\ Trail(TRUE, h.redo, Shape(p))
    BY DEF SoundHistory
  <2>2. cmd \in Commands
    BY <1>2, <2>1, TrailShrinks
  <2>3. PICK t \in Shapes : Way(FALSE, cmd, Shape(p), t) /\ Trail(FALSE, Front(h.undo), t)
    BY <1>2, <2>1, TrailShrinks
  <2> HIDE DEF cmd
  <2>4. r \in SoundProjects(Projects) /\ Shape(r) = t /\ r # NoProject
    <3>1. Shape(p) \in Shapes /\ Link(cmd, t, Shape(p))
      BY <2>1, <2>3, SoundByShape DEF Way, SoundProjects
    <3> DEFINE inv == InverseProject(cmd)
    <3>2. inv \in Commands /\ Link(inv, Shape(p), t)
      BY <2>2, <3>1, InverseLeadsBack
    <3>3. r = ApplyProject(inv, p)
      OBVIOUS
    <3> HIDE DEF r, inv
    <3>4. r \in SoundProjects(Projects) /\ Shape(r) = t
      BY <2>1, <3>2, <3>3, LinkApplies
    <3> QED
      BY <3>4, SoundIsAProject
  <2>5. o.doc = r /\ o.history.undo = Front(h.undo) /\ o.history.redo = Append(h.redo, cmd)
    BY <1>2, <2>4 DEF P!Undo, P!Outcome, P!Last, P!Front, Last, Front, cmd
  <2> HIDE DEF r
  <2>6. Trail(TRUE, Append(h.redo, cmd), t)
    <3>1. Way(TRUE, cmd, t, Shape(p))
      BY <2>3 DEF Way
    <3> QED
      BY <2>1, <2>2, <3>1, TrailGrows
  <2> QED
    BY <2>3, <2>4, <2>5, <2>6 DEF SoundHistory
<1> QED
  BY <1>1, <1>2

\* Redo does it again.
LEMMA RedoKeepsHistory ==
    ASSUME MarksHaveNone, NEW p, NEW h, SoundHistory(p, h)
    PROVE  SoundHistory(P!Redo(p, h).doc, P!Redo(p, h).history)
<1> DEFINE o == P!Redo(p, h)
           cmd == Last(h.redo)
           r == ApplyProject(cmd, p)
<1>1. CASE h.redo = <<>>
  <2>1. o.doc = p /\ o.history.undo = h.undo /\ o.history.redo = h.redo
    BY <1>1 DEF P!Redo, P!Outcome
  <2> QED
    BY <2>1 DEF SoundHistory
<1>2. CASE h.redo # <<>>
  <2>1. p \in SoundProjects(Projects) /\ Trail(FALSE, h.undo, Shape(p)) /\ Trail(TRUE, h.redo, Shape(p))
    BY DEF SoundHistory
  <2>2. cmd \in Commands
    BY <1>2, <2>1, TrailShrinks
  <2>3. PICK t \in Shapes : Way(TRUE, cmd, Shape(p), t) /\ Trail(TRUE, Front(h.redo), t)
    BY <1>2, <2>1, TrailShrinks
  <2> HIDE DEF cmd
  <2>4. r \in SoundProjects(Projects) /\ Shape(r) = t /\ r # NoProject
    <3>1. Link(cmd, Shape(p), t)
      BY <2>3 DEF Way
    <3>2. r \in SoundProjects(Projects) /\ Shape(r) = t
      BY <2>1, <2>2, <3>1, LinkApplies
    <3> HIDE DEF r
    <3> QED
      BY <3>2, SoundIsAProject
  <2>5. o.doc = r /\ o.history.undo = Append(h.undo, cmd) /\ o.history.redo = Front(h.redo)
    BY <1>2, <2>4 DEF P!Redo, P!Outcome, P!Last, P!Front, Last, Front, cmd
  <2> HIDE DEF r
  <2>6. Trail(FALSE, Append(h.undo, cmd), t)
    <3>1. Way(FALSE, cmd, t, Shape(p))
      BY <2>3 DEF Way
    <3> QED
      BY <2>1, <2>2, <3>1, TrailGrows
  <2> QED
    BY <2>3, <2>4, <2>5, <2>6 DEF SoundHistory
<1> QED
  BY <1>1, <1>2

\* A sound history is what ProjectHistoryRewinds asks for.
LEMMA SoundHistoryRewinds ==
    ASSUME MarksHaveNone, NEW p, NEW h, SoundHistory(p, h)
    PROVE  P!Rewinds(p, h)
<1>1. p \in SoundProjects(Projects) /\ Trail(FALSE, h.undo, Shape(p)) /\ Trail(TRUE, h.redo, Shape(p))
  BY DEF SoundHistory
<1>2. P!Unwound(P!Reversals(h.undo), p) \in SoundProjects(Projects)
  <2> DEFINE back == P!Reversals(h.undo)
  <2>1. h.undo \in Seq(Commands)
    BY <1>1 DEF Trail
  <2>2. Len(back) = Len(h.undo) /\ \A k \in 1..Len(h.undo) : back[k] = StepOf(FALSE, h.undo[k])
    BY <2>1 DEF P!Reversals, StepOf
  <2> HIDE DEF back
  <2>3. P!Unwound(back, p) \in SoundProjects(Projects)
    BY <1>1, <2>2, TrailUnwinds
  <2> QED
    BY <2>3 DEF back
<1>3. P!Unwound(h.redo, p) \in SoundProjects(Projects)
  <2>1. \A k \in 1..Len(h.redo) : h.redo[k] = StepOf(TRUE, h.redo[k])
    BY DEF StepOf
  <2> QED
    BY <1>1, <2>1, TrailUnwinds
<1>4. P!Unwound(P!Reversals(h.undo), p) # NoProject /\ P!Unwound(h.redo, p) # NoProject
  BY <1>2, <1>3, SoundIsAProject
<1> QED
  BY <1>4 DEF P!Rewinds, P!Origin

-----------------------------------------------------------------------------
(* What is on disk *)

SoundLists == {list \in Seq(OperationOf) : Distinct(list)}
IndexOf(n) ==
    {x \in [name : {n}, order : Seq(Nat)] :
        \A i, j \in 1..Len(x.order) : x.order[i] = x.order[j] => i = j}
DirectoryOf(n) == [index : {Absent} \cup IndexOf(n), files : SUBSET OperationOf]

SoundFile(n, x) == x \in {Absent, Partial} \cup SoundProjects({n})
SoundDirectory(n, x) == x \in {Absent} \cup DirectoryOf(n)

\* One more place of the index is read.
ReadOne(d, i, list) ==
    IF \E o \in d.files : o.id = d.index.order[i]
      THEN Append(list, CHOOSE o \in d.files : o.id = d.index.order[i])
      ELSE list

ReadRun(f, d) ==
    f = [i \in 0..Len(d.index.order) |->
           IF i = 0 THEN <<>>
           ELSE IF \E o \in d.files : o.id = d.index.order[i]
             THEN Append(f[i - 1], CHOOSE o \in d.files : o.id = d.index.order[i])
             ELSE f[i - 1]]

Reading(f, n, d) ==
    /\ f[0] = <<>>
    /\ \A i \in 1..n : f[i] = ReadOne(d, i, f[i - 1])
    /\ FromDirectory(d) = [name |-> d.index.name, operations |-> f[n]]

\* Reading the first k places of an index gives a list with these ids, or these operations.
ReadFrom(order, k, list) ==
    list \in SoundLists /\ \A a \in 1..Len(list) : \E j \in 1..k : list[a].id = order[j]
ReadSoFar(ops, k, list) ==
    list \in Seq(OperationOf) /\ Len(list) = k /\ \A a \in 1..k : list[a] = ops[a]

\* Reading a directory goes from one place of the index to the next.
LEMMA DirectoryReads ==
    ASSUME NEW d, NEW n \in Nat, Len(d.index.order) = n
    PROVE  \E f : Reading(f, n, d)
<1> DEFINE Begun(m, f) == f[0] = <<>> /\ \A k \in 1..m : f[k] = ReadOne(d, k, f[k - 1])
           S == {m \in Nat : \E f : Begun(m, f)}
<1>1. 0 \in S
  <2>1. [k \in {0} |-> <<>>][0] = <<>> /\ 1..0 = {}
    OBVIOUS
  <2> QED
    BY <2>1
<1>2. ASSUME NEW m \in Nat, m \in S PROVE m + 1 \in S
  <2>1. PICK f : Begun(m, f)
    BY <1>2
  <2> DEFINE g == [k \in 0..(m + 1) |-> IF k = m + 1 THEN ReadOne(d, m + 1, f[m]) ELSE f[k]]
  <2>2. g[m + 1] = ReadOne(d, m + 1, f[m]) /\ \A k \in 0..m : g[k] = f[k]
    OBVIOUS
  <2> HIDE DEF g
  <2>3. ASSUME NEW k \in 1..(m + 1) PROVE g[k] = ReadOne(d, k, g[k - 1])
    <3>1. CASE k = m + 1
      BY <2>2, <3>1
    <3>2. CASE k # m + 1
      <4>1. k \in 1..m /\ k \in 0..m /\ k - 1 \in 0..m
        BY <3>2
      <4> QED
        BY <2>1, <2>2, <4>1
    <3> QED
      BY <3>1, <3>2
  <2>4. Begun(m + 1, g)
    BY <2>1, <2>2, <2>3
  <2> QED
    BY <2>4
<1> HIDE DEF S
<1>3. n \in S
  BY <1>1, <1>2, NumberInduction
<1>4. PICK f : Begun(n, f)
  BY <1>3 DEF S
<1> DEFINE g == [k \in 0..n |-> f[k]]
           h == [k \in 0..n |-> IF k = 0 THEN <<>> ELSE ReadOne(d, k, g[k - 1])]
<1>5. g = h
  <2>1. \A k \in 0..n : g[k] = f[k]
    OBVIOUS
  <2>2. ASSUME NEW k \in 0..n PROVE g[k] = IF k = 0 THEN <<>> ELSE ReadOne(d, k, g[k - 1])
    <3>1. CASE k = 0
      BY <1>4, <2>1, <3>1
    <3>2. CASE k # 0
      <4>1. k \in 1..n /\ k - 1 \in 0..n
        BY <3>2
      <4> QED
        BY <1>4, <2>1, <3>2, <4>1
    <3> QED
      BY <3>1, <3>2
  <2>3. \A k \in 0..n : g[k] = h[k]
    BY <2>2
  <2>4. g = [k \in 0..n |-> g[k]] /\ h = [k \in 0..n |-> h[k]]
    OBVIOUS
  <2> QED
    BY <2>3, <2>4
<1>6. ReadRun(g, d)
  BY <1>5 DEF ReadRun, ReadOne
<1> HIDE DEF g, h
<1>7. PICK run : run = (CHOOSE r : ReadRun(r, d))
  OBVIOUS
<1>8. ReadRun(run, d)
  BY <1>6, <1>7
<1>9. FromDirectory(d) = [name |-> d.index.name, operations |-> run[n]]
  BY <1>7 DEF FromDirectory, ReadRun
<1>10. \A k \in 0..n : run[k] = IF k = 0 THEN <<>> ELSE ReadOne(d, k, run[k - 1])
  BY <1>8 DEF ReadRun, ReadOne
<1>11. run[0] = <<>> /\ \A k \in 1..n : run[k] = ReadOne(d, k, run[k - 1])
  BY <1>10
<1> QED
  BY <1>9, <1>11 DEF Reading

\* What is read of a directory has the name of its index, and no operation twice.
LEMMA ReadIsSound ==
    ASSUME MarksHaveNone, NEW n, NEW d \in DirectoryOf(n), d.index # Absent
    PROVE  FromDirectory(d) \in SoundProjects({n})
<1> DEFINE order == d.index.order
           m == Len(order)
<1>1. /\ d.index \in IndexOf(n) /\ d.index.name = n /\ order \in Seq(Nat) /\ m \in Nat
      /\ \A i, j \in 1..m : order[i] = order[j] => i = j
      /\ \A o \in d.files : o \in OperationOf
  BY DEF DirectoryOf, IndexOf
<1>2. PICK f : Reading(f, m, d)
  BY <1>1, DirectoryReads
<1>3. /\ f[0] = <<>> /\ \A i \in 1..m : f[i] = ReadOne(d, i, f[i - 1])
      /\ FromDirectory(d) = [name |-> n, operations |-> f[m]]
  BY <1>1, <1>2 DEF Reading
<1> DEFINE S == {k \in Nat : k <= m => ReadFrom(order, k, f[k])}
<1> HIDE DEF order, m
<1>4. 0 \in S
  <2>1. <<>> \in Seq(OperationOf) /\ Len(<<>>) = 0
    OBVIOUS
  <2>2. <<>> \in SoundLists
    BY <2>1 DEF SoundLists, Distinct
  <2>3. ReadFrom(order, 0, <<>>)
    BY <2>1, <2>2 DEF ReadFrom
  <2> QED
    BY <1>3, <2>3
<1>5. ASSUME NEW k \in Nat, k \in S PROVE k + 1 \in S
  <2> SUFFICES ASSUME k + 1 <= m PROVE ReadFrom(order, k + 1, f[k + 1])
    OBVIOUS
  <2> DEFINE l == f[k]
  <2>1. k + 1 \in 1..m /\ (k + 1) - 1 = k /\ f[k + 1] = ReadOne(d, k + 1, l)
    BY <1>1, <1>3
  <2>2. l \in SoundLists /\ \A a \in 1..Len(l) : \E j \in 1..k : l[a].id = order[j]
    <3>1. k <= m /\ ReadFrom(order, k, l)
      BY <1>1, <1>5
    <3> QED
      BY <3>1 DEF ReadFrom
  <2> HIDE DEF l
  <2>3. CASE \E o \in d.files : o.id = order[k + 1]
    <3> DEFINE o == CHOOSE o \in d.files : o.id = order[k + 1]
    <3>1. o \in OperationOf /\ o.id = order[k + 1]
      BY <1>1, <2>3
    <3>2. f[k + 1] = Append(l, o)
      BY <2>1, <2>3 DEF ReadOne, order
    <3> HIDE DEF o
    <3>3. l \in Seq(OperationOf) /\ Len(l) \in Nat /\ Distinct(l)
      BY <2>2 DEF SoundLists
    <3>4. /\ Append(l, o) \in Seq(OperationOf) /\ Len(Append(l, o)) = Len(l) + 1
          /\ Append(l, o)[Len(l) + 1] = o /\ \A a \in 1..Len(l) : Append(l, o)[a] = l[a]
      BY <3>1, <3>3
    <3>5. ASSUME NEW a \in 1..Len(l) PROVE l[a].id # o.id /\ \E j \in 1..(k + 1) : l[a].id = order[j]
      <4>1. PICK j \in 1..k : l[a].id = order[j]
        BY <2>2
      <4>2. j \in 1..m /\ j # k + 1 /\ j \in 1..(k + 1)
        BY <1>1, <2>1
      <4> QED
        BY <1>1, <2>1, <3>1, <4>1, <4>2
    <3>6. Distinct(Append(l, o))
      <4> DEFINE t == Append(l, o)
      <4> SUFFICES ASSUME NEW a \in 1..(Len(l) + 1), NEW b \in 1..(Len(l) + 1), t[a].id = t[b].id
                   PROVE  a = b
        BY <3>4 DEF Distinct
      <4> HIDE DEF t
      <4>1. /\ t[Len(l) + 1] = o /\ \A c \in 1..Len(l) : t[c] = l[c]
            /\ \A c \in 1..Len(l) : l[c].id # o.id
        BY <3>4, <3>5 DEF t
      <4>2. CASE a \in 1..Len(l) /\ b \in 1..Len(l)
        BY <3>3, <4>1, <4>2 DEF Distinct
      <4>3. CASE a = Len(l) + 1 \/ b = Len(l) + 1
        BY <3>3, <4>1, <4>3
      <4> QED
        BY <3>3, <4>2, <4>3
    <3>7. \A a \in 1..Len(Append(l, o)) : \E j \in 1..(k + 1) : Append(l, o)[a].id = order[j]
      <4>1. ASSUME NEW a \in 1..(Len(l) + 1) PROVE \E j \in 1..(k + 1) : Append(l, o)[a].id = order[j]
        <5>1. CASE a = Len(l) + 1
          BY <3>1, <3>4, <5>1
        <5>2. CASE a \in 1..Len(l)
          BY <3>4, <3>5, <5>2
        <5> QED
          BY <3>3, <5>1, <5>2
      <4> QED
        BY <3>4, <4>1
    <3> QED
      BY <3>2, <3>4, <3>6, <3>7 DEF SoundLists, ReadFrom
  <2>4. CASE ~ \E o \in d.files : o.id = order[k + 1]
    <3>1. f[k + 1] = l
      BY <2>1, <2>4 DEF ReadOne, order
    <3>2. \A j \in 1..k : j \in 1..(k + 1)
      OBVIOUS
    <3> QED
      BY <2>2, <3>1, <3>2 DEF ReadFrom
  <2> QED
    BY <2>3, <2>4
<1> HIDE DEF S
<1>6. m \in S
  BY <1>1, <1>4, <1>5, NumberInduction
<1>7. f[m] \in SoundLists
  BY <1>1, <1>6 DEF S, ReadFrom
<1> QED
  BY <1>3, <1>7 DEF SoundLists, SoundProjects, ProjectOf

\* A directory whose index is that of a project, and which has a file for each of its
\* operations and none besides, is read as this project.
LEMMA ReadsBack ==
    ASSUME NEW N, NEW p \in SoundProjects(N), NEW d, d.index = ToIndex(p),
           d.files = ToSet(p.operations)
    PROVE  FromDirectory(d) = p
<1> DEFINE ops == p.operations
           m == Len(ops)
           order == d.index.order
<1>1. /\ m \in Nat /\ ops \in Seq(OperationOf) /\ DOMAIN ops = 1..m
      /\ \A i, j \in 1..m : ops[i].id = ops[j].id => i = j
      /\ p = [name |-> p.name, operations |-> ops]
  BY DEF SoundProjects, ProjectOf, Distinct
<1>2. d.index.name = p.name /\ order = [i \in 1..m |-> ops[i].id]
  BY <1>1 DEF ToIndex
<1>3. Len(order) = m /\ \A i \in 1..m : order[i] = ops[i].id
  BY <1>1, <1>2
<1>4. ASSUME NEW i \in 1..m
      PROVE  /\ \E o \in d.files : o.id = order[i]
             /\ (CHOOSE o \in d.files : o.id = order[i]) = ops[i]
  <2>1. ops[i] \in d.files /\ ops[i].id = order[i]
    BY <1>1, <1>3 DEF ToSet
  <2>2. ASSUME NEW o \in d.files, o.id = order[i] PROVE o = ops[i]
    <3>1. PICK j \in 1..m : o = ops[j]
      BY <1>1 DEF ToSet
    <3> QED
      BY <1>1, <1>3, <2>2, <3>1
  <2> QED
    BY <2>1, <2>2
<1>5. PICK f : Reading(f, m, d)
  BY <1>1, <1>3, DirectoryReads
<1>6. /\ f[0] = <<>> /\ \A i \in 1..m : f[i] = ReadOne(d, i, f[i - 1])
      /\ FromDirectory(d) = [name |-> p.name, operations |-> f[m]]
  BY <1>2, <1>5 DEF Reading
<1> DEFINE S == {k \in Nat : k <= m => ReadSoFar(ops, k, f[k])}
<1>7. ASSUME NEW i \in 1..m, NEW list PROVE ReadOne(d, i, list) = Append(list, ops[i])
  BY <1>4 DEF ReadOne
<1> HIDE DEF m, order, ops
<1>8. 0 \in S
  <2>1. <<>> \in Seq(OperationOf) /\ Len(<<>>) = 0
    OBVIOUS
  <2>2. ReadSoFar(ops, 0, <<>>)
    BY <2>1 DEF ReadSoFar
  <2> QED
    BY <1>6, <2>2
<1>9. ASSUME NEW k \in Nat, k \in S PROVE k + 1 \in S
  <2> SUFFICES ASSUME k + 1 <= m PROVE ReadSoFar(ops, k + 1, f[k + 1])
    OBVIOUS
  <2> DEFINE l == f[k]
  <2>1. k + 1 \in 1..m /\ (k + 1) - 1 = k /\ f[k + 1] = ReadOne(d, k + 1, l)
    BY <1>1, <1>6
  <2>2. f[k + 1] = Append(l, ops[k + 1])
    BY <1>7, <2>1
  <2>3. ops[k + 1] \in OperationOf
    BY <1>1, <2>1 DEF ops, m
  <2>4. l \in Seq(OperationOf) /\ Len(l) = k /\ \A a \in 1..k : l[a] = ops[a]
    <3>1. k <= m /\ ReadSoFar(ops, k, l)
      BY <1>1, <1>9
    <3> QED
      BY <3>1 DEF ReadSoFar
  <2> HIDE DEF l
  <2> QED
    BY <2>2, <2>3, <2>4 DEF ReadSoFar
<1> HIDE DEF S
<1>10. m \in S
  BY <1>1, <1>8, <1>9, NumberInduction
<1>11. f[m] \in Seq(OperationOf) /\ Len(f[m]) = m /\ \A a \in 1..m : f[m][a] = ops[a]
  BY <1>1, <1>10 DEF S, ReadSoFar
<1>12. f[m] = ops
  BY <1>1, <1>11, SeqEqual DEF m
<1> QED
  BY <1>1, <1>6, <1>12

-----------------------------------------------------------------------------
(* The invariant *)

\* What a request of each kind has to go through.
StepsOf == [create    |-> {"open", "fill"},
            save      |-> {"choose", "open", "fill", "clear", "index", "files"},
            rename    |-> {"open", "fill", "clear", "index", "files", "remove", "rekey"},
            duplicate |-> {"open", "fill", "copy"},
            delete    |-> {"unlink"}]
Kinds == {"create", "save", "rename", "duplicate", "delete"}
JobOf ==
    {j \in [what : Kinds, step : UNION {StepsOf[k] : k \in Kinds}, name : Projects,
            doc : SoundProjects(Projects), todo : SoundLists] : j.step \in StepsOf[j.what]}

SoundSession(x) == x = NoProjectSession \/ SoundHistory(x.project, x.history)

ProjectInv ==
    /\ DOMAIN json = Projects /\ \A n \in Projects : SoundFile(n, json[n])
    /\ DOMAIN dir = Projects /\ \A n \in Projects : SoundDirectory(n, dir[n])
    /\ DOMAIN work = Projects /\ \A n \in Projects : SoundSession(work[n])
    /\ DOMAIN job = Editors /\ \A e \in Editors : job[e] \in {AtRest} \cup JobOf

\* What load_project answers is a sound project of the name it was asked for.
LEMMA StoredIsSound ==
    ASSUME MarksHaveNone, ProjectInv, NEW n \in Projects, Stored(n) # NoProject
    PROVE  Stored(n) \in SoundProjects({n})
<1>1. SoundFile(n, json[n]) /\ SoundDirectory(n, dir[n])
  BY DEF ProjectInv
<1>2. CASE json[n] # Absent
  BY <1>1, <1>2 DEF Stored, SoundFile, ReadsDirectory
<1>3. CASE ReadsDirectory(n)
  <2>1. json[n] = Absent /\ dir[n] # Absent
    BY <1>3 DEF ReadsDirectory
  <2>2. dir[n] \in DirectoryOf(n) /\ dir[n].index # Absent /\ Stored(n) = FromDirectory(dir[n])
    BY <1>1, <1>3, <2>1 DEF Stored, SoundDirectory
  <2> QED
    BY <2>2, ReadIsSound
<1>4. CASE json[n] = Absent /\ ~ReadsDirectory(n)
  BY <1>4 DEF Stored
<1> QED
  BY <1>2, <1>3, <1>4

\* A sound project under another name, and an empty one, are sound.
LEMMA SoundRenamed ==
    ASSUME NEW M, NEW N, NEW p \in SoundProjects(M), NEW n \in N
    PROVE  /\ [p EXCEPT !.name = n] \in SoundProjects(N)
           /\ [p EXCEPT !.name = n].operations = p.operations
           /\ [p EXCEPT !.name = n].name = n
           /\ p.operations \in SoundLists
  BY DEF SoundProjects, ProjectOf, SoundLists

(* A new project is sound. *)
LEMMA NewIsSound ==
    ASSUME NEW N, NEW n \in N
    PROVE  NewProject(n) \in SoundProjects(N)
<1>1. <<>> \in Seq(OperationOf) /\ Len(<<>>) = 0 /\ Distinct(<<>>)
  BY DEF Distinct
<1> QED
  BY <1>1 DEF NewProject, SoundProjects, ProjectOf

\* A session that was just read or saved has nothing to undo or redo.
LEMMA LoadedIsSound ==
    ASSUME NEW p \in SoundProjects(Projects)
    PROVE  SoundSession(Loaded(p))
<1>1. Shape(p) \in Shapes
  BY SoundByShape DEF SoundProjects
<1>2. Trail(FALSE, <<>>, Shape(p)) /\ Trail(TRUE, <<>>, Shape(p))
  BY <1>1, TrailBegins
<1>3. Loaded(p).project = p /\ Loaded(p).history.undo = <<>> /\ Loaded(p).history.redo = <<>>
  BY DEF Loaded, P!EmptyHistory
<1> QED
  BY <1>2, <1>3 DEF SoundSession, SoundHistory

\* A job for a sound project.
LEMMA SoundJob ==
    ASSUME NEW what \in Kinds, NEW step \in StepsOf[what], NEW n \in Projects,
           NEW p \in SoundProjects(Projects)
    PROVE  Job(what, step, n, p) \in JobOf
<1>1. p.operations \in SoundLists
  BY DEF SoundProjects, ProjectOf, SoundLists
<1> QED
  BY <1>1 DEF Job, JobOf

\* A request that is under way.
LEMMA JobFacts ==
    ASSUME ProjectInv, NEW e \in Editors, job[e].step # "rest"
    PROVE  /\ job[e] \in JobOf /\ job[e].what \in Kinds /\ job[e].step \in StepsOf[job[e].what]
           /\ job[e].name \in Projects
           /\ job[e].doc \in SoundProjects(Projects) /\ job[e].doc.name \in Projects
           /\ job[e].doc \in SoundProjects({job[e].doc.name})
           /\ job[e].todo \in SoundLists
<1>1. job[e] \in JobOf
  BY DEF ProjectInv, AtRest
<1>2. job[e].doc \in SoundProjects(Projects)
  BY <1>1 DEF JobOf
<1>3. job[e].doc.name \in Projects /\ job[e].doc \in SoundProjects({job[e].doc.name})
  BY <1>2 DEF SoundProjects, ProjectOf
<1> QED
  BY <1>1, <1>2, <1>3 DEF JobOf

\* What one step changes at one place stays sound when what it puts there is.
LEMMA FileChanges ==
    ASSUME ProjectInv, NEW n \in Projects, NEW x, SoundFile(n, x), json' = [json EXCEPT ![n] = x]
    PROVE  DOMAIN json' = Projects /\ \A m \in Projects : SoundFile(m, json'[m])
  BY DEF ProjectInv

(* A step that puts something sound in one directory leaves all of them sound. *)
LEMMA DirectoryChanges ==
    ASSUME ProjectInv, NEW n \in Projects, NEW x, SoundDirectory(n, x), dir' = [dir EXCEPT ![n] = x]
    PROVE  DOMAIN dir' = Projects /\ \A m \in Projects : SoundDirectory(m, dir'[m])
  BY DEF ProjectInv

(* The same of the sessions, *)
LEMMA WorkChanges ==
    ASSUME ProjectInv, NEW n \in Projects, NEW x, SoundSession(x), work' = [work EXCEPT ![n] = x]
    PROVE  DOMAIN work' = Projects /\ \A m \in Projects : SoundSession(work'[m])
  BY DEF ProjectInv

(* and of the jobs. *)
LEMMA JobChanges ==
    ASSUME ProjectInv, NEW e \in Editors, NEW j \in {AtRest} \cup JobOf, job' = [job EXCEPT ![e] = j]
    PROVE  DOMAIN job' = Editors /\ \A f \in Editors : job'[f] \in {AtRest} \cup JobOf
  BY DEF ProjectInv

\* A job goes on to another step of its kind.
LEMMA StepChanges ==
    ASSUME ProjectInv, NEW e \in Editors, job[e] \in JobOf, NEW step \in StepsOf[job[e].what],
           job' = [job EXCEPT ![e].step = step]
    PROVE  DOMAIN job' = Editors /\ \A f \in Editors : job'[f] \in {AtRest} \cup JobOf
<1>1. [job[e] EXCEPT !.step = step] \in JobOf
  BY DEF JobOf
<1>2. job' = [job EXCEPT ![e] = [job[e] EXCEPT !.step = step]]
  OBVIOUS
<1> QED
  BY <1>1, <1>2, JobChanges

\* After the write a job ends, or does what its kind has left.
LEMMA WrittenStaysSound ==
    ASSUME ProjectInv, NEW e \in Editors, job[e].step \in {"fill", "files"}, Written(e)
    PROVE  DOMAIN job' = Editors /\ \A f \in Editors : job'[f] \in {AtRest} \cup JobOf
<1>1. job[e] \in JobOf /\ job[e].what \in Kinds /\ job[e].step \in StepsOf[job[e].what]
  BY JobFacts
<1>2. job[e].what \in {"create", "save", "rename", "duplicate"}
  BY <1>1 DEF Kinds, StepsOf
<1>3. CASE AfterWrite[job[e].what] = "end"
  BY <1>3, JobChanges DEF Written, Ends
<1>4. CASE AfterWrite[job[e].what] # "end"
  <2>1. AfterWrite[job[e].what] \in StepsOf[job[e].what]
    BY <1>2, <1>4 DEF AfterWrite, StepsOf
  <2>2. job' = [job EXCEPT ![e].step = AfterWrite[job[e].what]]
    BY <1>4 DEF Written
  <2> QED
    BY <1>1, <2>1, <2>2, StepChanges
<1> QED
  BY <1>3, <1>4

\* Choosing the form, and writing a file.
LEMMA FileStepsStaySound ==
    ASSUME MarksHaveNone, ProjectInv, NEW e \in Editors,
           ChoosesForm(e) \/ OpensFile(e) \/ FillsFile(e)
    PROVE  ProjectInv'
<1> DEFINE n == job[e].doc.name
<1>1. job[e].step # "rest"
  BY DEF ChoosesForm, OpensFile, FillsFile
<1>2. /\ job[e] \in JobOf /\ job[e].what \in Kinds /\ job[e].step \in StepsOf[job[e].what]
      /\ n \in Projects /\ job[e].doc \in SoundProjects({n})
  BY <1>1, JobFacts
<1>3. CASE ChoosesForm(e)
  <2>1. "clear" \in StepsOf[job[e].what] /\ "open" \in StepsOf[job[e].what]
    BY <1>2, <1>3 DEF ChoosesForm, Kinds, StepsOf
  <2>2. PICK step \in {"clear", "open"} : job' = [job EXCEPT ![e].step = step]
    BY <1>3 DEF ChoosesForm
  <2>3. DOMAIN job' = Editors /\ \A f \in Editors : job'[f] \in {AtRest} \cup JobOf
    BY <1>2, <2>1, <2>2, StepChanges
  <2> QED
    BY <1>3, <2>3 DEF ChoosesForm, ProjectInv
<1>4. CASE OpensFile(e)
  <2>1. "fill" \in StepsOf[job[e].what]
    BY <1>2, <1>4 DEF OpensFile, Kinds, StepsOf
  <2>2. DOMAIN job' = Editors /\ \A f \in Editors : job'[f] \in {AtRest} \cup JobOf
    BY <1>2, <1>4, <2>1, StepChanges DEF OpensFile
  <2>3. DOMAIN json' = Projects /\ \A m \in Projects : SoundFile(m, json'[m])
    BY <1>2, <1>4, FileChanges DEF OpensFile, SoundFile
  <2> QED
    BY <1>4, <2>2, <2>3 DEF OpensFile, ProjectInv
<1>5. CASE FillsFile(e)
  <2>1. DOMAIN job' = Editors /\ \A f \in Editors : job'[f] \in {AtRest} \cup JobOf
    BY <1>5, WrittenStaysSound DEF FillsFile
  <2>2. DOMAIN json' = Projects /\ \A m \in Projects : SoundFile(m, json'[m])
    <3>1. CASE json' = json
      BY <3>1 DEF ProjectInv
    <3>2. CASE json' = [json EXCEPT ![n] = job[e].doc]
      BY <1>2, <3>2, FileChanges DEF SoundFile
    <3> QED
      BY <1>5, <3>1, <3>2 DEF FillsFile
  <2> QED
    BY <1>5, <2>1, <2>2 DEF FillsFile, ProjectInv
<1> QED
  BY <1>3, <1>4, <1>5

\* The index of a sound project has no id twice.
LEMMA IndexIsSound ==
    ASSUME NEW n, NEW p \in SoundProjects({n})
    PROVE  ToIndex(p) \in IndexOf(n)
<1> DEFINE order == [i \in DOMAIN p.operations |-> p.operations[i].id]
<1>1. /\ p.operations \in Seq(OperationOf) /\ Distinct(p.operations) /\ p.name = n
      /\ Len(p.operations) \in Nat /\ DOMAIN p.operations = 1..Len(p.operations)
      /\ \A i \in 1..Len(p.operations) : p.operations[i].id \in Nat
  <2>1. p \in ProjectOf({n}) /\ Distinct(p.operations)
    BY DEF SoundProjects
  <2>2. p.operations \in Seq(OperationOf) /\ p.name = n
    BY <2>1 DEF ProjectOf
  <2>3. \A i \in 1..Len(p.operations) : p.operations[i] \in OperationOf
    BY <2>2
  <2>4. \A o \in OperationOf : o.id \in Nat
    BY DEF OperationOf
  <2> QED
    BY <2>1, <2>2, <2>3, <2>4
<1>2. order \in Seq(Nat) /\ Len(order) = Len(p.operations)
  BY <1>1
<1>3. \A i \in 1..Len(order) : order[i] = p.operations[i].id
  BY <1>1, <1>2
<1> HIDE DEF order
<1> DEFINE x == [name |-> n, order |-> order]
<1>4. ToIndex(p) = x
  BY <1>1 DEF ToIndex, order
<1>5. x \in [name : {n}, order : Seq(Nat)] /\ x.order = order
  BY <1>2
<1>6. ASSUME NEW i \in 1..Len(order), NEW k \in 1..Len(order), order[i] = order[k] PROVE i = k
  BY <1>1, <1>2, <1>3, <1>6 DEF Distinct
<1> HIDE DEF x
<1> QED
  BY <1>4, <1>5, <1>6 DEF IndexOf

\* What is left to write has no operation twice.
LEMMA TailIsSound ==
    ASSUME NEW list \in SoundLists, list # <<>>
    PROVE  Tail(list) \in SoundLists /\ Head(list) \in OperationOf
<1>1. /\ list \in Seq(OperationOf) /\ Distinct(list) /\ Len(list) \in Nat \ {0}
      /\ Tail(list) \in Seq(OperationOf) /\ Len(Tail(list)) = Len(list) - 1
      /\ \A i \in 1..Len(Tail(list)) : Tail(list)[i] = list[i + 1]
      /\ Head(list) \in OperationOf
  BY DEF SoundLists
<1> DEFINE rest == Tail(list)
<1>2. ASSUME NEW i \in 1..Len(rest), NEW k \in 1..Len(rest), rest[i].id = rest[k].id PROVE i = k
  <2>1. i + 1 \in 1..Len(list) /\ k + 1 \in 1..Len(list) /\ list[i + 1].id = list[k + 1].id
    BY <1>1, <1>2
  <2>2. i + 1 = k + 1
    BY <1>1, <2>1 DEF Distinct
  <2> QED
    BY <2>2
<1> HIDE DEF rest
<1>3. Distinct(rest)
  BY <1>2 DEF Distinct
<1> QED
  BY <1>1, <1>3 DEF SoundLists, rest

\* Writing a directory.
LEMMA DirectoryStepsStaySound ==
    ASSUME MarksHaveNone, ProjectInv, NEW e \in Editors,
           ClearsDirectory(e) \/ WritesIndex(e) \/ WritesOperation(e)
    PROVE  ProjectInv'
<1> DEFINE n == job[e].doc.name
<1>1. job[e].step # "rest"
  BY DEF ClearsDirectory, WritesIndex, WritesOperation
<1>2. /\ job[e] \in JobOf /\ job[e].what \in Kinds /\ job[e].step \in StepsOf[job[e].what]
      /\ n \in Projects /\ job[e].doc \in SoundProjects({n}) /\ job[e].todo \in SoundLists
  BY <1>1, JobFacts
<1>3. SoundDirectory(n, dir[n])
  BY <1>2 DEF ProjectInv
<1>4. CASE ClearsDirectory(e)
  <2>1. "index" \in StepsOf[job[e].what]
    BY <1>2, <1>4 DEF ClearsDirectory, Kinds, StepsOf
  <2>2. DOMAIN job' = Editors /\ \A f \in Editors : job'[f] \in {AtRest} \cup JobOf
    BY <1>2, <1>4, <2>1, StepChanges DEF ClearsDirectory
  <2> DEFINE d == [index |-> IF dir[n] = Absent THEN Absent ELSE dir[n].index, files |-> {}]
  <2>3. SoundDirectory(n, d) /\ dir' = [dir EXCEPT ![n] = d]
    BY <1>3, <1>4 DEF ClearsDirectory, SoundDirectory, DirectoryOf
  <2> HIDE DEF d
  <2>4. DOMAIN dir' = Projects /\ \A m \in Projects : SoundDirectory(m, dir'[m])
    BY <1>2, <2>3, DirectoryChanges
  <2> QED
    BY <1>4, <2>2, <2>4 DEF ClearsDirectory, ProjectInv
<1>5. CASE WritesIndex(e)
  <2>1. CASE dir[n] = Absent
    <3>1. DOMAIN job' = Editors /\ \A f \in Editors : job'[f] \in {AtRest} \cup JobOf
      BY <1>5, <2>1, JobChanges DEF WritesIndex, Ends
    <3> QED
      BY <1>5, <2>1, <3>1 DEF WritesIndex, ProjectInv
  <2>2. CASE dir[n] # Absent
    <3>1. "files" \in StepsOf[job[e].what]
      BY <1>2, <1>5 DEF WritesIndex, Kinds, StepsOf
    <3>2. DOMAIN job' = Editors /\ \A f \in Editors : job'[f] \in {AtRest} \cup JobOf
      BY <1>2, <1>5, <2>2, <3>1, StepChanges DEF WritesIndex
    <3> DEFINE d == [dir[n] EXCEPT !.index = ToIndex(job[e].doc)]
    <3>3. dir' = [dir EXCEPT ![n] = d]
      BY <1>5, <2>2 DEF WritesIndex
    <3>4. SoundDirectory(n, d)
      BY <1>2, <1>3, <2>2, IndexIsSound DEF SoundDirectory, DirectoryOf
    <3> HIDE DEF d
    <3>5. DOMAIN dir' = Projects /\ \A m \in Projects : SoundDirectory(m, dir'[m])
      BY <1>2, <3>3, <3>4, DirectoryChanges
    <3> QED
      BY <1>5, <2>2, <3>2, <3>5 DEF WritesIndex, ProjectInv
  <2> QED
    BY <2>1, <2>2
<1>6. CASE WritesOperation(e)
  <2>1. CASE job[e].todo = <<>>
    <3>1. DOMAIN job' = Editors /\ \A f \in Editors : job'[f] \in {AtRest} \cup JobOf
      BY <1>6, <2>1, WrittenStaysSound DEF WritesOperation
    <3> QED
      BY <1>6, <2>1, <3>1 DEF WritesOperation, ProjectInv
  <2>2. CASE job[e].todo # <<>> /\ dir[n] = Absent
    <3>1. DOMAIN job' = Editors /\ \A f \in Editors : job'[f] \in {AtRest} \cup JobOf
      BY <1>6, <2>2, JobChanges DEF WritesOperation, Ends
    <3> QED
      BY <1>6, <2>2, <3>1 DEF WritesOperation, ProjectInv
  <2>3. CASE job[e].todo # <<>> /\ dir[n] # Absent
    <3> DEFINE o == Head(job[e].todo)
               j == [job[e] EXCEPT !.todo = Tail(job[e].todo)]
               d == [dir[n] EXCEPT !.files = {f \in dir[n].files : f.id # o.id} \cup {o}]
    <3>1. Tail(job[e].todo) \in SoundLists /\ o \in OperationOf
      BY <1>2, <2>3, TailIsSound
    <3>2. job' = [job EXCEPT ![e] = j] /\ dir' = [dir EXCEPT ![n] = d]
      BY <1>6, <2>3 DEF WritesOperation
    <3>3. j \in JobOf
      BY <1>2, <3>1 DEF JobOf
    <3>4. SoundDirectory(n, d)
      BY <1>2, <1>3, <2>3, <3>1 DEF SoundDirectory, DirectoryOf
    <3> HIDE DEF d, j
    <3>5. DOMAIN job' = Editors /\ \A f \in Editors : job'[f] \in {AtRest} \cup JobOf
      BY <3>2, <3>3, JobChanges
    <3>6. DOMAIN dir' = Projects /\ \A m \in Projects : SoundDirectory(m, dir'[m])
      BY <1>2, <3>2, <3>4, DirectoryChanges
    <3> QED
      BY <1>6, <3>5, <3>6 DEF WritesOperation, ProjectInv
  <2> QED
    BY <2>1, <2>2, <2>3
<1> QED
  BY <1>4, <1>5, <1>6

\* What comes after the write: taking the old form away, moving the session, filling the
\* copy; and a delete.
LEMMA LastStepsStaySound ==
    ASSUME MarksHaveNone, ProjectInv, NEW e \in Editors,
           \/ RenameRemoves(e) \/ RenameRekeys(e) \/ DuplicateCopies(e)
           \/ DeleteProjectUnlinks(e)
    PROVE  ProjectInv'
<1> DEFINE n == job[e].name
           m == job[e].doc.name
<1>1. job[e].step # "rest"
  BY DEF RenameRemoves, RenameRekeys, DuplicateCopies, DeleteProjectUnlinks
<1>2. /\ job[e] \in JobOf /\ job[e].what \in Kinds /\ job[e].step \in StepsOf[job[e].what]
      /\ n \in Projects /\ m \in Projects /\ job[e].todo \in SoundLists
  BY <1>1, JobFacts
<1>3. ASSUME dir' = [dir EXCEPT ![n] = Absent]
      PROVE  DOMAIN dir' = Projects /\ \A k \in Projects : SoundDirectory(k, dir'[k])
  BY <1>2, <1>3, DirectoryChanges DEF SoundDirectory
<1>4. ASSUME json' = [json EXCEPT ![n] = Absent]
      PROVE  DOMAIN json' = Projects /\ \A k \in Projects : SoundFile(k, json'[k])
  BY <1>2, <1>4, FileChanges DEF SoundFile
<1>5. ASSUME Ends(e)
      PROVE  DOMAIN job' = Editors /\ \A f \in Editors : job'[f] \in {AtRest} \cup JobOf
  BY <1>5, JobChanges DEF Ends
<1>6. CASE RenameRemoves(e)
  <2>1. "rekey" \in StepsOf[job[e].what]
    BY <1>2, <1>6 DEF RenameRemoves, Kinds, StepsOf
  <2>2. DOMAIN job' = Editors /\ \A f \in Editors : job'[f] \in {AtRest} \cup JobOf
    BY <1>2, <1>6, <2>1, StepChanges DEF RenameRemoves
  <2>3. \/ dir' = [dir EXCEPT ![n] = Absent] /\ json' = json
        \/ json' = [json EXCEPT ![n] = Absent] /\ dir' = dir
    BY <1>6 DEF RenameRemoves
  <2> QED
    BY <1>3, <1>4, <1>6, <2>2, <2>3 DEF RenameRemoves, ProjectInv
<1>7. CASE RenameRekeys(e)
  <2>1. DOMAIN job' = Editors /\ \A f \in Editors : job'[f] \in {AtRest} \cup JobOf
    BY <1>5, <1>7 DEF RenameRekeys
  <2>2. DOMAIN work = Projects /\ \A k \in Projects : SoundSession(work[k])
    BY DEF ProjectInv
  <2>3. \/ work' = work
        \/ work' = [work EXCEPT ![m] = work[n], ![n] = NoProjectSession]
    BY <1>7 DEF RenameRekeys
  <2>4. SoundSession(NoProjectSession)
    BY DEF SoundSession
  <2>5. DOMAIN work' = Projects /\ \A k \in Projects : SoundSession(work'[k])
    BY <1>2, <2>2, <2>3, <2>4
  <2> QED
    BY <1>7, <2>1, <2>5 DEF RenameRekeys, ProjectInv
<1>8. CASE DuplicateCopies(e)
  <2>1. DOMAIN job' = Editors /\ \A f \in Editors : job'[f] \in {AtRest} \cup JobOf
    <3>1. CASE Stored(m) = NoProject
      BY <1>5, <1>8, <3>1 DEF DuplicateCopies
    <3>2. CASE Stored(m) # NoProject
      <4> DEFINE p == [Stored(m) EXCEPT !.operations = job[e].todo]
      <4>1. Stored(m) \in SoundProjects({m})
        BY <1>2, <3>2, StoredIsSound
      <4>2. p \in SoundProjects(Projects)
        BY <1>2, <4>1 DEF SoundProjects, ProjectOf, SoundLists
      <4>3. job' = [job EXCEPT ![e] = Job("save", "choose", n, p)]
        BY <1>8, <3>2 DEF DuplicateCopies
      <4> HIDE DEF p
      <4>4. Job("save", "choose", n, p) \in JobOf
        <5>1. "save" \in Kinds /\ "choose" \in StepsOf["save"]
          BY DEF Kinds, StepsOf
        <5> QED
          BY <1>2, <4>2, <5>1, SoundJob
      <4> QED
        BY <4>3, <4>4, JobChanges
    <3> QED
      BY <3>1, <3>2
  <2> QED
    BY <1>8, <2>1 DEF DuplicateCopies, ProjectInv
<1>9. CASE DeleteProjectUnlinks(e)
  <2>1. DOMAIN job' = Editors /\ \A f \in Editors : job'[f] \in {AtRest} \cup JobOf
    BY <1>5, <1>9 DEF DeleteProjectUnlinks
  <2>2. \/ dir' = [dir EXCEPT ![n] = Absent] /\ json' = json
        \/ json' = [json EXCEPT ![n] = Absent] /\ dir' = dir
    BY <1>9 DEF DeleteProjectUnlinks
  <2> QED
    BY <1>3, <1>4, <1>9, <2>1, <2>2 DEF DeleteProjectUnlinks, ProjectInv
<1> QED
  BY <1>6, <1>7, <1>8, <1>9

\* A request that starts.
LEMMA StartStaysSound ==
    ASSUME ProjectInv, NEW e \in Editors, NEW j \in JobOf, Starts(e, j)
    PROVE  DOMAIN job' = Editors /\ \A f \in Editors : job'[f] \in {AtRest} \cup JobOf
  BY JobChanges DEF Starts

\* Every kind of request starts with a step of its kind.
LEMMA FirstSteps ==
    /\ Kinds = {"create", "save", "rename", "duplicate", "delete"}
    /\ "open" \in StepsOf["create"] /\ "choose" \in StepsOf["save"] /\ "clear" \in StepsOf["save"]
    /\ "clear" \in StepsOf["rename"] /\ "open" \in StepsOf["rename"]
    /\ "open" \in StepsOf["duplicate"] /\ "unlink" \in StepsOf["delete"]
  BY DEF Kinds, StepsOf

\* A client sends an empty project or one it was shown.
LEMMA SendableIsSound ==
    ASSUME ProjectInv, NEW n \in Projects, NEW doc \in Sendable(n)
    PROVE  doc \in SoundProjects(Projects)
<1>1. CASE doc = NewProject(n)
  BY <1>1, NewIsSound
<1>2. CASE work[n] # NoProjectSession /\ doc = [work[n].project EXCEPT !.name = n]
  <2>1. work[n].project \in SoundProjects(Projects)
    BY <1>2 DEF ProjectInv, SoundSession, SoundHistory
  <2> QED
    BY <1>2, <2>1, SoundRenamed
<1> QED
  BY <1>1, <1>2 DEF Sendable

\* Creating, saving and deleting a project.
LEMMA WriteRequestsStaySound ==
    ASSUME MarksHaveNone, ProjectInv, NEW e \in Editors, NEW n \in Projects,
           \/ CreateProject(e, n) \/ DeleteProject(e, n)
           \/ \E doc \in Sendable(n) : SaveProject(e, n, doc) \/ SaveProjectDir(e, n, doc)
    PROVE  ProjectInv'
<1>1. NewProject(n) \in SoundProjects(Projects)
  BY NewIsSound
<1>2. CASE CreateProject(e, n)
  <2>1. Job("create", "open", n, NewProject(n)) \in JobOf
    BY <1>1, FirstSteps, SoundJob
  <2>2. DOMAIN job' = Editors /\ \A f \in Editors : job'[f] \in {AtRest} \cup JobOf
    BY <1>2, <2>1, StartStaysSound DEF CreateProject
  <2> QED
    BY <1>2, <2>2 DEF CreateProject, ProjectInv
<1>3. CASE DeleteProject(e, n)
  <2>1. Job("delete", "unlink", n, NewProject(n)) \in JobOf
    BY <1>1, FirstSteps, SoundJob
  <2>2. DOMAIN job' = Editors /\ \A f \in Editors : job'[f] \in {AtRest} \cup JobOf
    BY <1>3, <2>1, StartStaysSound DEF DeleteProject
  <2>3. DOMAIN work' = Projects /\ \A k \in Projects : SoundSession(work'[k])
    BY <1>3, WorkChanges DEF DeleteProject, SoundSession
  <2> QED
    BY <1>3, <2>2, <2>3 DEF DeleteProject, ProjectInv
<1>4. ASSUME NEW doc \in Sendable(n), SaveProject(e, n, doc) PROVE ProjectInv'
  <2>1. doc \in SoundProjects(Projects)
    BY SendableIsSound
  <2>2. Job("save", "choose", n, doc) \in JobOf
    BY <2>1, FirstSteps, SoundJob
  <2>3. DOMAIN job' = Editors /\ \A f \in Editors : job'[f] \in {AtRest} \cup JobOf
    BY <1>4, <2>2, StartStaysSound DEF SaveProject
  <2>4. DOMAIN work' = Projects /\ \A k \in Projects : SoundSession(work'[k])
    BY <1>4, <2>1, LoadedIsSound, WorkChanges DEF SaveProject
  <2> QED
    BY <1>4, <2>3, <2>4 DEF SaveProject, ProjectInv
<1>5. ASSUME NEW doc \in Sendable(n), SaveProjectDir(e, n, doc) PROVE ProjectInv'
  <2>1. doc \in SoundProjects(Projects)
    BY SendableIsSound
  <2>2. Job("save", "clear", n, doc) \in JobOf
    BY <2>1, FirstSteps, SoundJob
  <2>3. DOMAIN job' = Editors /\ \A f \in Editors : job'[f] \in {AtRest} \cup JobOf
    BY <1>5, <2>2, StartStaysSound DEF SaveProjectDir
  <2> QED
    BY <1>5, <2>3 DEF SaveProjectDir, ProjectInv
<1> QED
  BY <1>2, <1>3, <1>4, <1>5

\* Requests that read the disk first: loading, renaming, duplicating.
LEMMA ReadRequestsStaySound ==
    ASSUME MarksHaveNone, ProjectInv, NEW e \in Editors, NEW n \in Projects,
           \/ LoadProject(e, n)
           \/ \E m \in Projects : RenameProject(e, n, m) \/ DuplicateProject(e, n, m)
    PROVE  ProjectInv'
<1>1. Stored(n) \in SoundProjects({n}) /\ Stored(n) \in SoundProjects(Projects)
  <2>1. Stored(n) # NoProject
    BY DEF LoadProject, RenameProject, DuplicateProject
  <2>2. Stored(n) \in SoundProjects({n})
    BY <2>1, StoredIsSound
  <2> QED
    BY <2>2 DEF SoundProjects, ProjectOf
<1>2. CASE LoadProject(e, n)
  <2>1. DOMAIN work' = Projects /\ \A k \in Projects : SoundSession(work'[k])
    BY <1>1, <1>2, LoadedIsSound, WorkChanges DEF LoadProject
  <2> QED
    BY <1>2, <2>1 DEF LoadProject, ProjectInv
<1>3. ASSUME NEW m \in Projects, RenameProject(e, n, m) PROVE ProjectInv'
  <2> DEFINE p == [Stored(n) EXCEPT !.name = m]
  <2>1. p \in SoundProjects(Projects)
    BY <1>1, SoundRenamed
  <2>2. PICK step \in {"clear", "open"} : Starts(e, Job("rename", step, n, p))
    BY <1>3 DEF RenameProject
  <2> HIDE DEF p
  <2>3. Job("rename", step, n, p) \in JobOf
    BY <2>1, <2>2, FirstSteps, SoundJob
  <2>4. DOMAIN job' = Editors /\ \A f \in Editors : job'[f] \in {AtRest} \cup JobOf
    BY <2>2, <2>3, StartStaysSound
  <2> QED
    BY <1>3, <2>4 DEF RenameProject, ProjectInv
<1>4. ASSUME NEW m \in Projects, DuplicateProject(e, n, m) PROVE ProjectInv'
  <2> DEFINE j == [Job("duplicate", "open", n, NewProject(m)) EXCEPT !.todo = Stored(n).operations]
  <2>1. Stored(n).operations \in SoundLists
    BY <1>1, SoundRenamed
  <2>2. Job("duplicate", "open", n, NewProject(m)) \in JobOf
    <3>1. NewProject(m) \in SoundProjects(Projects)
      BY NewIsSound
    <3> QED
      BY <3>1, FirstSteps, SoundJob
  <2>3. j \in JobOf
    BY <2>1, <2>2 DEF JobOf
  <2>4. Starts(e, j)
    BY <1>4 DEF DuplicateProject
  <2> HIDE DEF j
  <2>5. DOMAIN job' = Editors /\ \A f \in Editors : job'[f] \in {AtRest} \cup JobOf
    BY <2>3, <2>4, StartStaysSound
  <2> QED
    BY <1>4, <2>5 DEF DuplicateProject, ProjectInv
<1> QED
  BY <1>2, <1>3, <1>4

-----------------------------------------------------------------------------
(* Requests on the session *)

\* A session takes the outcome of a command, an undo or a redo.
LEMMA OutcomeStaysSound ==
    ASSUME ProjectInv, NEW n \in Projects, NEW o, Becomes(n, o), SoundHistory(o.doc, o.history)
    PROVE  ProjectInv'
<1> DEFINE x == [project |-> o.doc, history |-> o.history]
<1>1. SoundSession(x) /\ work' = [work EXCEPT ![n] = x]
  BY DEF SoundSession, Becomes
<1> HIDE DEF x
<1>2. DOMAIN work' = Projects /\ \A k \in Projects : SoundSession(work'[k])
  BY <1>1, WorkChanges
<1> QED
  BY <1>2 DEF Becomes, ProjectInv

\* A command that suits the session's project.
LEMMA EditStaysSound ==
    ASSUME MarksHaveNone, ProjectInv, NEW n \in Projects, work[n] # NoProjectSession,
           NEW cmd \in Commands, Suits(cmd, Shape(work[n].project)), Edits(n, cmd)
    PROVE  ProjectInv'
<1> DEFINE o == P!Execute(cmd, work[n].project, work[n].history)
<1>1. SoundHistory(work[n].project, work[n].history)
  BY DEF ProjectInv, SoundSession
<1>2. SoundHistory(o.doc, o.history)
  BY <1>1, ExecuteKeepsHistory
<1>3. Becomes(n, o)
  BY DEF Edits
<1> HIDE DEF o
<1> QED
  BY <1>2, <1>3, OutcomeStaysSound

\* The handlers build commands that suit the project they were built for.
LEMMA SessionEditStaysSound ==
    ASSUME MarksHaveNone, ProjectInv, NEW n \in Projects, SessionEdit(n)
    PROVE  ProjectInv'
<1> DEFINE ops == Operations(n)
           s == Shape(work[n].project)
<1>1. work[n] # NoProjectSession /\ SoundHistory(work[n].project, work[n].history)
  BY DEF SessionEdit, ProjectInv, SoundSession
<1>2. /\ ops \in Seq(OperationOf) /\ Len(ops) \in Nat /\ DOMAIN ops = 1..Len(ops)
      /\ Len(s) = Len(ops)
      /\ \A k \in 1..Len(ops) : /\ ops[k] \in OperationOf
                                /\ s[k] = Sized(ops[k])
                                /\ s[k].id = ops[k].id
                                /\ s[k].size = Len(ops[k].actions)
  <2>1. work[n].project \in ProjectOf(Projects)
    BY <1>1 DEF SoundHistory, SoundProjects
  <2>2. ops = work[n].project.operations
    BY DEF Operations
  <2> HIDE DEF ops
  <2>3. ops \in Seq(OperationOf)
    BY <2>1, <2>2 DEF ProjectOf
  <2>4. DOMAIN ops = 1..Len(ops) /\ Len(ops) \in Nat
    BY <2>3
  <2> DEFINE p == work[n].project
  <2>5. p \in ProjectOf(Projects) /\ ops = p.operations /\ s = Shape(p)
    BY <2>1, <2>2
  <2> HIDE DEF p, s
  <2>6. /\ Len(s) = Len(ops)
        /\ \A k \in 1..Len(ops) : /\ ops[k] \in OperationOf
                                  /\ s[k] = Sized(ops[k])
                                  /\ s[k].id = ops[k].id
                                  /\ s[k].size = Len(ops[k].actions)
    BY <2>5, ShapeFacts
  <2> QED
    BY <2>3, <2>4, <2>6
<1>3. CASE AddOperation(n)
  <2> DEFINE unused == {i \in 1..MaxOperations : \A k \in DOMAIN ops : ops[k].id # i}
             id == CHOOSE i \in unused : TRUE
             o == [id |-> id, actions |-> <<>>]
             cmd == OpCommand("AddOperation", Len(ops) + 1, o, o)
  <2>1. unused # {} /\ Edits(n, cmd)
    BY <1>3 DEF AddOperation
  <2>2. id \in unused
    BY <2>1
  <2>3. id \in Nat /\ \A k \in 1..Len(ops) : ops[k].id # id
    BY <1>2, <2>2, ProjectAssumption
  <2> HIDE DEF id
  <2>4. <<>> \in Seq(Actions)
    OBVIOUS
  <2>5. o \in OperationOf /\ o.id = id
    BY <2>3, <2>4 DEF OperationOf
  <2> HIDE DEF o
  <2>6. cmd \in Commands
    BY <1>2, <2>5 DEF OpCommand, Commands, OperationCommands
  <2>7. Suits(cmd, s)
    BY <1>2, <2>3, <2>5 DEF OpCommand, Suits
  <2> HIDE DEF cmd
  <2> QED
    BY <1>1, <2>1, <2>6, <2>7, EditStaysSound
<1>4. CASE UndoProject(n)
  BY <1>1, <1>4, UndoKeepsHistory, OutcomeStaysSound DEF UndoProject
<1>5. CASE RedoProject(n)
  BY <1>1, <1>5, RedoKeepsHistory, OutcomeStaysSound DEF RedoProject
<1>6. ASSUME NEW i \in DOMAIN ops, RemoveOperation(n, i) PROVE ProjectInv'
  <2> DEFINE cmd == OpCommand("RemoveOperation", i, ops[i], ops[i])
  <2>1. Edits(n, cmd)
    BY <1>6 DEF RemoveOperation
  <2>2. cmd \in Commands
    BY <1>2 DEF OpCommand, Commands, OperationCommands
  <2>3. Suits(cmd, s)
    BY <1>2 DEF OpCommand, Suits
  <2> HIDE DEF cmd
  <2> QED
    BY <1>1, <2>1, <2>2, <2>3, EditStaysSound
<1>7. ASSUME NEW i \in DOMAIN ops, ModifyOperation(n, i, <<>>) PROVE ProjectInv'
  <2> DEFINE o == [ops[i] EXCEPT !.actions = <<>>]
             cmd == OpCommand("ModifyOperation", i, o, ops[i])
  <2>1. Edits(n, cmd)
    BY <1>7 DEF ModifyOperation
  <2>2. <<>> \in Seq(Actions)
    OBVIOUS
  <2>3. o \in OperationOf /\ o.id = ops[i].id
    BY <1>2, <2>2 DEF OperationOf
  <2> HIDE DEF o
  <2>4. cmd \in Commands
    BY <1>2, <2>3 DEF OpCommand, Commands, OperationCommands
  <2>5. Suits(cmd, s)
    BY <1>2, <2>3 DEF OpCommand, Suits
  <2> HIDE DEF cmd
  <2> QED
    BY <1>1, <2>1, <2>4, <2>5, EditStaysSound
<1>8. ASSUME NEW i \in DOMAIN ops, NEW a \in Actions, AddAction(n, i, a) PROVE ProjectInv'
  <2> DEFINE cmd == ActCommand("AddAction", i, AtEnd, a, a)
  <2>1. Edits(n, cmd)
    BY <1>8 DEF AddAction
  <2>2. cmd \in Commands
    BY <1>2 DEF ActCommand, AtEnd, Commands, ActionCommands
  <2>3. Suits(cmd, s)
    BY <1>2 DEF ActCommand, Suits
  <2> HIDE DEF cmd
  <2> QED
    BY <1>1, <2>1, <2>2, <2>3, EditStaysSound
<1>9. ASSUME NEW i \in DOMAIN ops, NEW k \in DOMAIN ops[i].actions, NEW a \in Actions,
             RemoveAction(n, i, k) \/ ModifyAction(n, i, k, a)
      PROVE  ProjectInv'
  <2> DEFINE old == ops[i].actions[k]
             remove == ActCommand("RemoveAction", i, k, old, old)
             modify == ActCommand("ModifyAction", i, k, a, old)
  <2>1. Edits(n, remove) \/ Edits(n, modify)
    BY <1>9 DEF RemoveAction, ModifyAction
  <2>2. /\ ops[i].actions \in Seq(Actions) /\ i \in 1..Len(ops)
        /\ s[i].size = Len(ops[i].actions) /\ s[i].size \in Nat
    BY <1>2 DEF OperationOf
  <2>3. k \in 1..s[i].size /\ old \in Actions
    BY <2>2
  <2>4. k \in Nat /\ k \in 0..s[i].size /\ s[i].size > 0
    BY <2>2, <2>3
  <2> HIDE DEF old
  <2>5. remove \in Commands /\ modify \in Commands
    BY <1>2, <2>2, <2>3, <2>4 DEF ActCommand, Commands, ActionCommands
  <2>6. Suits(remove, s) /\ Suits(modify, s)
    BY <1>2, <2>2, <2>4 DEF ActCommand, Suits
  <2> HIDE DEF remove, modify
  <2> QED
    BY <1>1, <2>1, <2>5, <2>6, EditStaysSound
<1>10. ASSUME NEW i \in DOMAIN ops, NEW k \in DOMAIN ops[i].actions, RemoveAction(n, i, k)
       PROVE  ProjectInv'
  <2>1. ops[i].actions[k] \in Actions
    <3>1. ops[i].actions \in Seq(Actions)
      BY <1>2 DEF OperationOf
    <3> QED
      BY <3>1
  <2> QED
    BY <1>9, <1>10, <2>1
<1> QED
  BY <1>3, <1>4, <1>5, <1>6, <1>7, <1>8, <1>9, <1>10 DEF SessionEdit

-----------------------------------------------------------------------------
(* The specification *)

\* What an earlier run of the server left is sound.
LEMMA EarlierIsSound ==
    ASSUME NEW n
    PROVE  /\ Earlier(n) \in SoundProjects({n})
           /\ [index |-> ToIndex(Earlier(n)), files |-> ToSet(Earlier(n).operations)] \in DirectoryOf(n)
<1> DEFINE o == [id |-> 1, actions |-> EarlierActions]
           list == <<o>>
<1>1. o \in OperationOf
  BY ProjectAssumption DEF OperationOf
<1> HIDE DEF o
<1>2. /\ list \in Seq(OperationOf) /\ Len(list) = 1 /\ \A i, j \in 1..1 : i = j
  BY <1>1
<1>3. Distinct(list)
  BY <1>2 DEF Distinct
<1>4. \A x \in ToSet(list) : x \in OperationOf
  BY <1>2 DEF ToSet
<1> HIDE DEF list
<1>5. Earlier(n) = [name |-> n, operations |-> list]
  BY DEF Earlier, list, o
<1>6. Earlier(n) \in SoundProjects({n})
  BY <1>2, <1>3, <1>5 DEF SoundProjects, ProjectOf
<1>7. ToIndex(Earlier(n)) \in IndexOf(n)
  BY <1>6, IndexIsSound
<1> QED
  BY <1>4, <1>5, <1>6, <1>7 DEF DirectoryOf

\* The invariant holds at the start.
LEMMA ProjectsStartSound == ProjectInit => ProjectInv
<1> SUFFICES ASSUME ProjectInit PROVE ProjectInv
  OBVIOUS
<1>1. /\ DOMAIN work = Projects /\ \A n \in Projects : SoundSession(work[n])
      /\ DOMAIN job = Editors /\ \A e \in Editors : job[e] \in {AtRest} \cup JobOf
  BY DEF ProjectInit, SoundSession
<1>2. PICK n \in Projects :
         \/ /\ json = [m \in Projects |-> IF m = n THEN Earlier(n) ELSE Absent]
            /\ dir = [m \in Projects |-> Absent]
         \/ /\ json = [m \in Projects |-> Absent]
            /\ dir = [m \in Projects |->
                         IF m = n THEN [index |-> ToIndex(Earlier(n)),
                                        files |-> ToSet(Earlier(n).operations)]
                         ELSE Absent]
  BY DEF ProjectInit
<1>3. DOMAIN json = Projects /\ \A m \in Projects : SoundFile(m, json[m])
  BY <1>2, EarlierIsSound DEF SoundFile
<1>4. DOMAIN dir = Projects /\ \A m \in Projects : SoundDirectory(m, dir[m])
  BY <1>2, EarlierIsSound DEF SoundDirectory
<1> QED
  BY <1>1, <1>3, <1>4 DEF ProjectInv

\* A step of the server keeps the invariant.
LEMMA ProjectsStaySound == MarksHaveNone /\ ProjectInv /\ [ProjectNext]_projectVars => ProjectInv'
<1> SUFFICES ASSUME MarksHaveNone, ProjectInv, [ProjectNext]_projectVars PROVE ProjectInv'
  OBVIOUS
<1>1. ASSUME NEW e \in Editors, DiskStep(e) PROVE ProjectInv'
  BY <1>1, FileStepsStaySound, DirectoryStepsStaySound, LastStepsStaySound DEF DiskStep
<1>2. ASSUME NEW e \in Editors, Request(e) PROVE ProjectInv'
  BY <1>2, WriteRequestsStaySound, ReadRequestsStaySound DEF Request
<1>3. CASE EditorStops
  BY <1>3 DEF EditorStops, ProjectInv, SoundSession
<1>4. CASE UNCHANGED projectVars
  BY <1>4 DEF projectVars, ProjectInv
<1> QED
  BY <1>1, <1>2, <1>3, <1>4, SessionEditStaysSound DEF ProjectNext

\* Files, directories, sessions and requests hold sound projects; every session's history
\* leads back from its project and on from it, whatever clients do and when the server stops.
THEOREM ProjectInvariant ==
    ASSUME MarksHaveNone
    PROVE  ProjectSpec => []ProjectInv
<1>1. ProjectInit => ProjectInv
  BY ProjectsStartSound
<1>2. ProjectInv /\ [ProjectNext]_projectVars => ProjectInv'
  BY ProjectsStaySound
<1> QED
  BY <1>1, <1>2, PTL DEF ProjectSpec

\* No undo and no redo a session still offers is refused.
THEOREM ProjectsRewind ==
    ASSUME MarksHaveNone
    PROVE  ProjectSpec => []ProjectHistoryRewinds
<1>1. ProjectInv => ProjectHistoryRewinds
  BY SoundHistoryRewinds DEF ProjectInv, SoundSession, ProjectHistoryRewinds
<1> QED
  BY <1>1, ProjectInvariant, PTL

-----------------------------------------------------------------------------
(* Renames *)

\* load_project, by the file and the directory of the name.
StoredIn(f, d) ==
    IF f # Absent THEN IF f = Partial THEN NoProject ELSE f
    ELSE IF d = Absent \/ d.index = Absent THEN NoProject
    ELSE FromDirectory(d)

\* A rename that has not yet taken the old form away.
Renames(j) ==
    /\ j.step \in {"open", "fill", "clear", "index", "files", "remove"}
    /\ j.what = "rename"

\* How far it is, by the file and the directory of the old name and of the new one.
Underway(j, f, d, g, c) ==
    /\ j.name # j.doc.name
    /\ StoredIn(f, d) # NoProject /\ StoredIn(f, d).operations = j.doc.operations
    /\ j.step = "fill" => g # Absent
    /\ j.step \in {"clear", "index", "files"} => g = Absent
    /\ j.step \in {"clear", "index"} => j.todo = j.doc.operations
    /\ j.step = "index" => c # Absent /\ c.files = {}
    /\ j.step = "files" =>
         /\ c # Absent /\ c.index = ToIndex(j.doc)
         /\ c.files \subseteq ToSet(j.doc.operations)
         /\ ToSet(j.todo) \subseteq ToSet(j.doc.operations)
         /\ ToSet(j.doc.operations) \subseteq c.files \cup ToSet(j.todo)
    /\ j.step = "remove" => StoredIn(g, c) = j.doc

OnTheWay(e) ==
    Underway(job[e], json[job[e].name], dir[job[e].name],
             json[job[e].doc.name], dir[job[e].doc.name])

\* Requests that meet nobody have their names to themselves, and a rename that met nobody
\* is as far as its step says.
Apart == \A e, f \in Editors : e # f => Touches(job[e]) \cap Touches(job[f]) \subseteq met
RenameInv ==
    /\ Apart
    /\ \A e \in Editors : Renames(job[e]) /\ Touches(job[e]) \cap met = {} => OnTheWay(e)

\* What is stored under a name is what its file and its directory hold.
LEMMA StoredByForms ==
    ASSUME NEW n
    PROVE  Stored(n) = StoredIn(json[n], dir[n])
<1>1. CASE json[n] # Absent
  BY <1>1 DEF Stored, StoredIn, ReadsDirectory
<1>2. CASE json[n] = Absent /\ dir[n] # Absent
  <2>1. ReadsDirectory(n)
    BY <1>2 DEF ReadsDirectory
  <2> QED
    BY <1>2, <2>1 DEF Stored, StoredIn
<1>3. CASE json[n] = Absent /\ dir[n] = Absent
  <2>1. ~ReadsDirectory(n)
    BY <1>3 DEF ReadsDirectory
  <2> QED
    BY <1>3, <2>1 DEF Stored, StoredIn
<1> QED
  BY <1>1, <1>2, <1>3

\* A job that takes another step is otherwise the one it was.
LEMMA StepFacts ==
    ASSUME ProjectInv, NEW e \in Editors, job[e] \in JobOf, NEW step,
           job' = [job EXCEPT ![e].step = step]
    PROVE  /\ job'[e].step = step /\ job'[e].what = job[e].what /\ job'[e].name = job[e].name
           /\ job'[e].doc = job[e].doc /\ job'[e].todo = job[e].todo
           /\ job'[e] # AtRest
           /\ \A f \in Editors : f # e => job'[f] = job[f]
<1>1. DOMAIN job = Editors
  BY DEF ProjectInv
<1>2. job'[e] = [job[e] EXCEPT !.step = step] /\ \A f \in Editors : f # e => job'[f] = job[f]
  BY <1>1
<1>3. "name" \in DOMAIN job'[e]
  BY <1>2 DEF JobOf
<1>4. DOMAIN AtRest = {"step"}
  BY DEF AtRest
<1> QED
  BY <1>2, <1>3, <1>4 DEF JobOf

\* A job that ends leaves the others as they are.
LEMMA EndFacts ==
    ASSUME ProjectInv, NEW e \in Editors, Ends(e)
    PROVE  /\ job'[e] = AtRest /\ ~Renames(job'[e])
           /\ \A f \in Editors : f # e => job'[f] = job[f]
<1>1. DOMAIN job = Editors
  BY DEF ProjectInv
<1>2. job'[e] = AtRest /\ \A f \in Editors : f # e => job'[f] = job[f]
  BY <1>1 DEF Ends
<1> QED
  BY <1>2 DEF AtRest, Renames

\* A write that is done leads to the step that follows, with the same names and project.
LEMMA WrittenFacts ==
    ASSUME ProjectInv, NEW e \in Editors, job[e].step \in {"fill", "files"}, Written(e)
    PROVE  /\ \A f \in Editors : f # e => job'[f] = job[f]
           /\ \/ job'[e] = AtRest /\ ~Renames(job'[e])
              \/ /\ job'[e] # AtRest
                 /\ job'[e].what = job[e].what /\ job'[e].name = job[e].name
                 /\ job'[e].doc = job[e].doc
                 /\ Renames(job'[e]) => job'[e].step = "remove"
<1>1. job[e] \in JobOf /\ job[e].what \in Kinds /\ job[e].step \in StepsOf[job[e].what]
  BY JobFacts
<1>2. CASE AfterWrite[job[e].what] = "end"
  BY <1>2, EndFacts DEF Written
<1>3. CASE AfterWrite[job[e].what] # "end"
  <2> DEFINE step == AfterWrite[job[e].what]
  <2>1. job' = [job EXCEPT ![e].step = step]
    BY <1>3 DEF Written
  <2>2. job[e].what = "rename" => step = "remove"
    BY DEF AfterWrite
  <2> HIDE DEF step
  <2> QED
    BY <1>1, <2>1, <2>2, StepFacts DEF Renames
<1> QED
  BY <1>2, <1>3

\* A step on the disk changes its own job and the two names of this job only, and a job
\* never comes to touch more names than it did.
LEMMA DiskStepIsLocal ==
    ASSUME MarksHaveNone, ProjectInv, NEW e \in Editors, DiskStep(e)
    PROVE  /\ met' = met
           /\ \A f \in Editors : f # e => job'[f] = job[f]
           /\ \A n \in Projects : n \notin Touches(job[e]) => json'[n] = json[n] /\ dir'[n] = dir[n]
           /\ Touches(job'[e]) \subseteq Touches(job[e])
<1> DEFINE j == job[e]
           n == job[e].name
           m == job[e].doc.name
<1>1. j.step # "rest"
  BY DEF DiskStep, ChoosesForm, OpensFile, FillsFile, ClearsDirectory, WritesIndex, WritesOperation,
         RenameRemoves, RenameRekeys, DuplicateCopies, DeleteProjectUnlinks
<1>2. j \in JobOf /\ n \in Projects /\ m \in Projects
  BY <1>1, JobFacts
<1>3. /\ Touches(j) = {n, m} /\ Touches(AtRest) = {}
      /\ DOMAIN json = Projects /\ DOMAIN dir = Projects
  BY <1>1 DEF Touches, AtRest, ProjectInv
<1>4. ASSUME NEW step, job' = [job EXCEPT ![e].step = step]
      PROVE  /\ \A f \in Editors : f # e => job'[f] = job[f]
             /\ Touches(job'[e]) \subseteq Touches(j)
  BY <1>2, <1>3, <1>4, StepFacts DEF Touches
<1>5. ASSUME Ends(e)
      PROVE  /\ \A f \in Editors : f # e => job'[f] = job[f]
             /\ Touches(job'[e]) \subseteq Touches(j)
  BY <1>3, <1>5, EndFacts
<1>6. ASSUME j.step \in {"fill", "files"}, Written(e)
      PROVE  /\ \A f \in Editors : f # e => job'[f] = job[f]
             /\ Touches(job'[e]) \subseteq Touches(j)
  BY <1>3, <1>6, WrittenFacts DEF Touches
<1>7. CASE ChoosesForm(e) \/ OpensFile(e)
  <2>1. PICK step : job' = [job EXCEPT ![e].step = step]
    BY <1>7 DEF ChoosesForm, OpensFile
  <2>2. json' = json \/ json' = [json EXCEPT ![m] = Partial]
    BY <1>7 DEF ChoosesForm, OpensFile
  <2>3. dir' = dir /\ met' = met
    BY <1>7 DEF ChoosesForm, OpensFile
  <2> QED
    BY <1>3, <1>4, <2>1, <2>2, <2>3
<1>8. CASE FillsFile(e)
  <2>1. json' = json \/ json' = [json EXCEPT ![m] = j.doc]
    BY <1>8 DEF FillsFile
  <2>2. dir' = dir /\ met' = met /\ j.step \in {"fill", "files"} /\ Written(e)
    BY <1>8 DEF FillsFile
  <2> QED
    BY <1>3, <1>6, <2>1, <2>2
<1>9. CASE ClearsDirectory(e)
  <2>1. PICK d : dir' = [dir EXCEPT ![m] = d]
    BY <1>9 DEF ClearsDirectory
  <2>2. json' = json /\ met' = met /\ job' = [job EXCEPT ![e].step = "index"]
    BY <1>9 DEF ClearsDirectory
  <2> QED
    BY <1>3, <1>4, <2>1, <2>2
<1>10. CASE WritesIndex(e)
  <2>1. json' = json /\ met' = met
    BY <1>10 DEF WritesIndex
  <2>2. Ends(e) \/ job' = [job EXCEPT ![e].step = "files"]
    BY <1>10 DEF WritesIndex
  <2>3. dir' = dir \/ dir' = [dir EXCEPT ![m] = [dir[m] EXCEPT !.index = ToIndex(j.doc)]]
    BY <1>10 DEF WritesIndex
  <2>4. \A k \in Projects : k \notin {m} => dir'[k] = dir[k]
    BY <1>3, <2>3
  <2> QED
    BY <1>3, <1>4, <1>5, <2>1, <2>2, <2>4
<1>11. CASE WritesOperation(e)
  <2>1. json' = json /\ met' = met /\ j.step \in {"fill", "files"}
    BY <1>11 DEF WritesOperation
  <2>2. CASE j.todo = <<>>
    BY <1>3, <1>6, <1>11, <2>1, <2>2 DEF WritesOperation
  <2>3. CASE j.todo # <<>> /\ dir[m] = Absent
    BY <1>3, <1>5, <1>11, <2>1, <2>3 DEF WritesOperation
  <2>4. CASE j.todo # <<>> /\ dir[m] # Absent
    <3>1. PICK d : dir' = [dir EXCEPT ![m] = d]
      BY <1>11, <2>4 DEF WritesOperation
    <3>2. job' = [job EXCEPT ![e] = [j EXCEPT !.todo = Tail(j.todo)]]
      BY <1>11, <2>4 DEF WritesOperation
    <3>3. job'[e] = [j EXCEPT !.todo = Tail(j.todo)] /\ \A f \in Editors : f # e => job'[f] = job[f]
      BY <3>2 DEF ProjectInv
    <3>4. job'[e].name = n /\ job'[e].doc = j.doc
      BY <1>2, <3>3 DEF JobOf
    <3>5. Touches(job'[e]) \subseteq {n, m}
      BY <3>4 DEF Touches
    <3> QED
      BY <1>3, <2>1, <3>1, <3>3, <3>5
  <2> QED
    BY <2>2, <2>3, <2>4
<1>12. CASE RenameRemoves(e)
  <2>1. met' = met /\ job' = [job EXCEPT ![e].step = "rekey"]
    BY <1>12 DEF RenameRemoves
  <2>2. /\ json' = json \/ json' = [json EXCEPT ![n] = Absent]
        /\ dir' = dir \/ dir' = [dir EXCEPT ![n] = Absent]
    BY <1>12 DEF RenameRemoves
  <2> QED
    BY <1>3, <1>4, <2>1, <2>2
<1>13. CASE RenameRekeys(e)
  BY <1>3, <1>5, <1>13 DEF RenameRekeys
<1>14. CASE DuplicateCopies(e)
  <2>1. json' = json /\ dir' = dir /\ met' = met
    BY <1>14 DEF DuplicateCopies
  <2>2. CASE Stored(m) = NoProject
    BY <1>5, <1>14, <2>1, <2>2 DEF DuplicateCopies
  <2>3. CASE Stored(m) # NoProject
    <3> DEFINE p == [Stored(m) EXCEPT !.operations = j.todo]
    <3>1. Stored(m) \in SoundProjects({m})
      BY <1>2, <2>3, StoredIsSound
    <3>2. p.name = m
      BY <3>1 DEF SoundProjects, ProjectOf
    <3>3. job' = [job EXCEPT ![e] = Job("save", "choose", n, p)]
      BY <1>14, <2>3 DEF DuplicateCopies
    <3> HIDE DEF p
    <3>4. job'[e] = Job("save", "choose", n, p) /\ \A f \in Editors : f # e => job'[f] = job[f]
      BY <3>3 DEF ProjectInv
    <3>5. job'[e].name = n /\ job'[e].doc = p
      BY <3>4 DEF Job
    <3>6. Touches(job'[e]) \subseteq {n, m}
      BY <3>2, <3>5 DEF Touches
    <3> QED
      BY <1>3, <2>1, <3>4, <3>6
  <2> QED
    BY <2>2, <2>3
<1>15. CASE DeleteProjectUnlinks(e)
  <2>1. met' = met /\ Ends(e)
    BY <1>15 DEF DeleteProjectUnlinks
  <2>2. /\ json' = json \/ json' = [json EXCEPT ![n] = Absent]
        /\ dir' = dir \/ dir' = [dir EXCEPT ![n] = Absent]
    BY <1>15 DEF DeleteProjectUnlinks
  <2> QED
    BY <1>3, <1>5, <2>1, <2>2
<1> QED
  BY <1>7, <1>8, <1>9, <1>10, <1>11, <1>12, <1>13, <1>14, <1>15 DEF DiskStep

\* The step of a rename that met nobody brings it as far as its new step says.
LEMMA RenameGoesOn ==
    ASSUME MarksHaveNone, ProjectInv, RenameInv, NEW e \in Editors, DiskStep(e),
           Renames(job'[e]), Touches(job'[e]) \cap met' = {}
    PROVE  OnTheWay(e)'
<1> DEFINE j == job[e]
           n == job[e].name
           m == job[e].doc.name
           ops == job[e].doc.operations
<1>1. j.step # "rest"
  BY DEF DiskStep, ChoosesForm, OpensFile, FillsFile, ClearsDirectory, WritesIndex, WritesOperation,
         RenameRemoves, RenameRekeys, DuplicateCopies, DeleteProjectUnlinks
<1>2. /\ j \in JobOf /\ n \in Projects /\ m \in Projects /\ j.what \in Kinds
      /\ j.step \in StepsOf[j.what] /\ j.doc \in SoundProjects({m}) /\ j.todo \in SoundLists
  BY <1>1, JobFacts
<1>3. j.doc # NoProject /\ j.doc # Absent /\ j.doc # Partial
  BY <1>2, SoundIsAProject
<1>4. DOMAIN json = Projects /\ DOMAIN dir = Projects /\ DOMAIN job = Editors
  BY DEF ProjectInv
<1>5. ASSUME job'[e].what = j.what, job'[e].name = n, job'[e].doc = j.doc, job'[e] # AtRest,
             j.step \in {"open", "fill", "clear", "index", "files"}
      PROVE  OnTheWay(e) /\ n # m
  <2>1. Renames(j)
    BY <1>5 DEF Renames
  <2>2. Touches(job'[e]) = {n, m} /\ Touches(j) = {n, m}
    BY <1>1, <1>5 DEF Touches, AtRest
  <2>3. met' = met
    BY DiskStepIsLocal
  <2>4. OnTheWay(e)
    BY <2>1, <2>2, <2>3 DEF RenameInv
  <2> QED
    BY <2>4 DEF OnTheWay, Underway
<1>6. ASSUME NEW step, job' = [job EXCEPT ![e].step = step]
       PROVE  /\ job'[e].step = step /\ job'[e].what = j.what /\ job'[e].name = n
              /\ job'[e].doc = j.doc /\ job'[e].todo = j.todo /\ job'[e] # AtRest
  <2>1. job[e] \in JobOf
    BY <1>2
  <2>2. DOMAIN job = Editors
    BY <1>4
  <2>3. job'[e] = [job[e] EXCEPT !.step = step]
    BY ONLY <1>6, <2>2
  <2>4. "name" \in DOMAIN job'[e]
    BY ONLY <2>1, <2>3 DEF JobOf
  <2>5. DOMAIN AtRest = {"step"}
    BY DEF AtRest
  <2> QED
    BY ONLY <2>1, <2>3, <2>4, <2>5 DEF JobOf
<1>7. CASE ChoosesForm(e)
  <2>1. j.what = "save"
    BY <1>2, <1>7 DEF ChoosesForm, Kinds, StepsOf
  <2>2. PICK step : job' = [job EXCEPT ![e].step = step]
    BY <1>7 DEF ChoosesForm
  <2> QED
    BY <1>6, <2>1, <2>2 DEF Renames
<1>8. CASE OpensFile(e)
  <2>1. /\ j.step = "open" /\ json' = [json EXCEPT ![m] = Partial] /\ dir' = dir
        /\ job' = [job EXCEPT ![e].step = "fill"]
    BY <1>8 DEF OpensFile
  <2>2. /\ job'[e].step = "fill" /\ job'[e].what = j.what /\ job'[e].name = n
        /\ job'[e].doc = j.doc /\ job'[e].todo = j.todo /\ job'[e] # AtRest
    BY <1>6, <2>1
  <2>3. OnTheWay(e) /\ n # m
    BY <1>5, <2>1, <2>2
  <2>4. json'[n] = json[n] /\ json'[m] # Absent
    BY <1>2, <1>4, <2>1, <2>3, ProjectAssumption
  <2> QED
    BY <2>1, <2>2, <2>3, <2>4 DEF OnTheWay, Underway
<1>9. CASE FillsFile(e)
  <2>1. /\ j.step = "fill" /\ dir' = dir /\ Written(e)
        /\ json' = IF json[m] = Absent THEN json ELSE [json EXCEPT ![m] = j.doc]
    BY <1>9 DEF FillsFile
  <2>2. /\ job'[e].step = "remove" /\ job'[e].what = j.what /\ job'[e].name = n
        /\ job'[e].doc = j.doc /\ job'[e] # AtRest
    BY <2>1, WrittenFacts
  <2>3. OnTheWay(e) /\ n # m
    BY <1>5, <2>1, <2>2
  <2>4. json[m] # Absent
    BY <2>1, <2>3 DEF OnTheWay, Underway
  <2>5. json'[n] = json[n] /\ json'[m] = j.doc
    BY <1>2, <1>4, <2>1, <2>3, <2>4
  <2>6. StoredIn(json'[m], dir'[m]) = j.doc
    BY <1>3, <2>5 DEF StoredIn
  <2> QED
    BY <2>1, <2>2, <2>3, <2>5, <2>6 DEF OnTheWay, Underway
<1>10. CASE ClearsDirectory(e)
  <2> DEFINE d == [index |-> IF dir[m] = Absent THEN Absent ELSE dir[m].index, files |-> {}]
  <2>1. /\ j.step = "clear" /\ json' = json /\ dir' = [dir EXCEPT ![m] = d]
        /\ job' = [job EXCEPT ![e].step = "index"]
    BY <1>10 DEF ClearsDirectory
  <2>2. d # Absent /\ d.files = {}
    BY DEF MarksHaveNone
  <2> HIDE DEF d
  <2>3. /\ job'[e].step = "index" /\ job'[e].what = j.what /\ job'[e].name = n
        /\ job'[e].doc = j.doc /\ job'[e].todo = j.todo /\ job'[e] # AtRest
    BY <1>6, <2>1
  <2>4. OnTheWay(e) /\ n # m
    BY <1>5, <2>1, <2>3
  <2>5. dir'[n] = dir[n] /\ dir'[m] = d
    BY <1>2, <1>4, <2>1, <2>4
  <2> QED
    BY <2>1, <2>2, <2>3, <2>4, <2>5 DEF OnTheWay, Underway
<1>11. CASE WritesIndex(e)
  <2>1. j.step = "index" /\ json' = json
    BY <1>11 DEF WritesIndex
  <2>2. dir[m] # Absent
    BY <1>11, EndFacts DEF WritesIndex
  <2> DEFINE d == [dir[m] EXCEPT !.index = ToIndex(j.doc)]
  <2>3. dir' = [dir EXCEPT ![m] = d] /\ job' = [job EXCEPT ![e].step = "files"]
    BY <1>11, <2>2 DEF WritesIndex
  <2>4. /\ job'[e].step = "files" /\ job'[e].what = j.what /\ job'[e].name = n
        /\ job'[e].doc = j.doc /\ job'[e].todo = j.todo /\ job'[e] # AtRest
    BY <1>6, <2>3
  <2>5. OnTheWay(e) /\ n # m
    BY <1>5, <2>1, <2>4
  <2>6. dir[m].files = {} /\ json[m] = Absent /\ j.todo = ops
    BY <2>1, <2>5 DEF OnTheWay, Underway
  <2>7. dir[m] \in DirectoryOf(m)
    BY <1>2, <2>2 DEF ProjectInv, SoundDirectory
  <2>8. d # Absent /\ d.index = ToIndex(j.doc) /\ d.files = {}
    BY <2>6, <2>7 DEF MarksHaveNone, DirectoryOf
  <2> HIDE DEF d
  <2>9. dir'[n] = dir[n] /\ dir'[m] = d
    BY <1>2, <1>4, <2>3, <2>5
  <2> QED
    BY <2>1, <2>4, <2>5, <2>6, <2>8, <2>9 DEF OnTheWay, Underway
<1>12. CASE WritesOperation(e) /\ j.todo = <<>>
  <2>1. j.step = "files" /\ json' = json /\ dir' = dir /\ Written(e)
    BY <1>12 DEF WritesOperation
  <2>2. /\ job'[e].step = "remove" /\ job'[e].what = j.what /\ job'[e].name = n
        /\ job'[e].doc = j.doc /\ job'[e] # AtRest
    BY <2>1, WrittenFacts
  <2>3. OnTheWay(e) /\ n # m
    BY <1>5, <2>1, <2>2
  <2>4. /\ json[m] = Absent /\ dir[m] # Absent /\ dir[m].index = ToIndex(j.doc)
        /\ dir[m].files = ToSet(ops)
    <3>1. ToSet(j.todo) = {}
      BY <1>12 DEF ToSet
    <3> QED
      BY <2>1, <2>3, <3>1 DEF OnTheWay, Underway
  <2>5. FromDirectory(dir[m]) = j.doc
    BY <1>2, <2>4, ReadsBack
  <2>6. dir[m].index # Absent
    BY <2>4 DEF ToIndex, MarksHaveNone
  <2>7. StoredIn(json[m], dir[m]) = j.doc
    BY <2>4, <2>5, <2>6 DEF StoredIn
  <2> QED
    BY <2>1, <2>2, <2>3, <2>7 DEF OnTheWay, Underway
<1>13. CASE WritesOperation(e) /\ j.todo # <<>>
  <2>1. j.step = "files" /\ json' = json
    BY <1>13 DEF WritesOperation
  <2>2. dir[m] # Absent
    BY <1>13, EndFacts DEF WritesOperation
  <2> DEFINE o == Head(j.todo)
             rest == Tail(j.todo)
             d == [dir[m] EXCEPT !.files = {f \in dir[m].files : f.id # o.id} \cup {o}]
  <2>3. dir' = [dir EXCEPT ![m] = d] /\ job' = [job EXCEPT ![e] = [j EXCEPT !.todo = rest]]
    BY <1>13, <2>2 DEF WritesOperation
  <2>4. job'[e] = [j EXCEPT !.todo = rest]
    BY <1>4, <2>3
  <2>5. /\ job'[e].step = "files" /\ job'[e].what = j.what /\ job'[e].name = n
        /\ job'[e].doc = j.doc /\ job'[e].todo = rest /\ job'[e] # AtRest
    BY <1>2, <2>1, <2>4 DEF JobOf, AtRest
  <2>6. OnTheWay(e) /\ n # m
    BY <1>5, <2>1, <2>5
  <2>7. /\ json[m] = Absent /\ dir[m].index = ToIndex(j.doc)
        /\ dir[m].files \subseteq ToSet(ops) /\ ToSet(j.todo) \subseteq ToSet(ops)
        /\ ToSet(ops) \subseteq dir[m].files \cup ToSet(j.todo)
    BY <2>1, <2>6 DEF OnTheWay, Underway
  <2>8. ToSet(j.todo) = {o} \cup ToSet(rest)
    <3>1. j.todo \in Seq(OperationOf) /\ j.todo # <<>>
      BY <1>2, <1>13 DEF SoundLists
    <3> DEFINE l == j.todo
    <3>2. /\ Len(l) \in Nat \ {0} /\ o = l[1] /\ Len(rest) = Len(l) - 1
          /\ \A i \in 1..Len(rest) : rest[i] = l[i + 1]
          /\ DOMAIN l = 1..Len(l) /\ DOMAIN rest = 1..Len(rest)
      BY <3>1
    <3> HIDE DEF l, rest, o
    <3>3. ASSUME NEW x \in ToSet(l) PROVE x \in {o} \cup ToSet(rest)
      <4>1. PICK i \in 1..Len(l) : x = l[i]
        BY <3>2 DEF ToSet
      <4>2. CASE i = 1
        BY <3>2, <4>1, <4>2
      <4>3. CASE i # 1
        <5>1. i - 1 \in 1..Len(rest) /\ (i - 1) + 1 = i
          BY <3>2, <4>3
        <5>2. rest[i - 1] = x
          BY <3>2, <4>1, <5>1
        <5> QED
          BY <3>2, <5>1, <5>2 DEF ToSet
      <4> QED
        BY <4>2, <4>3
    <3>4. ASSUME NEW x \in {o} \cup ToSet(rest) PROVE x \in ToSet(l)
      <4>1. CASE x = o
        <5>1. 1 \in 1..Len(l)
          BY <3>2
        <5> QED
          BY <3>2, <4>1, <5>1 DEF ToSet
      <4>2. CASE x \in ToSet(rest)
        <5>1. PICK i \in 1..Len(rest) : x = rest[i]
          BY <3>2, <4>2 DEF ToSet
        <5>2. i + 1 \in 1..Len(l) /\ x = l[i + 1]
          BY <3>2, <5>1
        <5> QED
          BY <3>2, <5>2 DEF ToSet
      <4> QED
        BY <4>1, <4>2
    <3> QED
      BY <3>3, <3>4 DEF l
  <2>9. \A x, y \in ToSet(ops) : x.id = y.id => x = y
    <3>1. ops \in Seq(OperationOf) /\ Distinct(ops)
      BY <1>2 DEF SoundProjects, ProjectOf
    <3>2. ASSUME NEW x \in ToSet(ops), NEW y \in ToSet(ops), x.id = y.id PROVE x = y
      <4>1. PICK a \in 1..Len(ops) : x = ops[a]
        BY <3>1 DEF ToSet
      <4>2. PICK b \in 1..Len(ops) : y = ops[b]
        BY <3>1 DEF ToSet
      <4>3. a = b
        BY <3>1, <3>2, <4>1, <4>2 DEF Distinct
      <4> QED
        BY <4>1, <4>2, <4>3
    <3> QED
      BY <3>2
  <2> HIDE DEF o, rest, ops
  <2>10. dir[m] \in DirectoryOf(m)
    BY <1>2, <2>2 DEF ProjectInv, SoundDirectory
  <2>11. /\ d # Absent /\ d.index = dir[m].index
         /\ d.files = {f \in dir[m].files : f.id # o.id} \cup {o}
    BY <2>10 DEF MarksHaveNone, DirectoryOf
  <2> HIDE DEF d
  <2>12. /\ d.files \subseteq ToSet(ops) /\ ToSet(rest) \subseteq ToSet(ops)
         /\ ToSet(ops) \subseteq d.files \cup ToSet(rest)
    BY <2>7, <2>8, <2>9, <2>11
  <2>13. dir'[n] = dir[n] /\ dir'[m] = d
    BY <1>2, <1>4, <2>3, <2>6
  <2> QED
    BY <2>1, <2>5, <2>6, <2>7, <2>11, <2>12, <2>13 DEF OnTheWay, Underway, ops
<1>14. CASE RenameRemoves(e)
  <2>1. job' = [job EXCEPT ![e].step = "rekey"]
    BY <1>14 DEF RenameRemoves
  <2>2. job'[e].step = "rekey"
    BY <1>6, <2>1
  <2> QED
    BY <2>2 DEF Renames
<1>15. CASE RenameRekeys(e) \/ DeleteProjectUnlinks(e)
  BY <1>15, EndFacts DEF RenameRekeys, DeleteProjectUnlinks
<1>16. CASE DuplicateCopies(e)
  <2>1. CASE Stored(m) = NoProject
    BY <1>16, <2>1, EndFacts DEF DuplicateCopies
  <2>2. CASE Stored(m) # NoProject
    <3>1. PICK p : job' = [job EXCEPT ![e] = Job("save", "choose", n, p)]
      BY <1>16, <2>2 DEF DuplicateCopies
    <3>2. job'[e] = Job("save", "choose", n, p)
      BY <1>4, <3>1
    <3> QED
      BY <3>2 DEF Job, Renames
  <2> QED
    BY <2>1, <2>2
<1> QED
  BY <1>7, <1>8, <1>9, <1>10, <1>11, <1>12, <1>13, <1>14, <1>15, <1>16 DEF DiskStep

\* A request that starts takes note of whom it meets.
LEMMA StartKeepsApart ==
    ASSUME ProjectInv, Apart, NEW e \in Editors, NEW j, Starts(e, j)
    PROVE  Apart' /\ met \subseteq met' /\ job'[e] = j /\ \A f \in Editors : f # e => job'[f] = job[f]
<1>1. job'[e] = j /\ \A f \in Editors : f # e => job'[f] = job[f]
  BY DEF ProjectInv, Starts
<1>2. met' = met \cup UNION {Touches(j) \cap Touches(job[f]) : f \in Editors \ {e}}
  BY DEF Starts
<1>3. ASSUME NEW f \in Editors, f # e PROVE Touches(j) \cap Touches(job[f]) \subseteq met'
  BY <1>2, <1>3
<1>4. ASSUME NEW f \in Editors, NEW g \in Editors, f # g
      PROVE  Touches(job'[f]) \cap Touches(job'[g]) \subseteq met'
  <2>1. CASE f # e /\ g # e
    BY <1>1, <1>2, <1>4, <2>1 DEF Apart
  <2>2. CASE f = e
    BY <1>1, <1>3, <1>4, <2>2
  <2>3. CASE g = e
    BY <1>1, <1>3, <1>4, <2>3
  <2> QED
    BY <2>1, <2>2, <2>3
<1>5. Apart'
  BY <1>4 DEF Apart, Touches
<1> QED
  BY <1>1, <1>2, <1>5

\* What is as it was, is as far as it was.
LEMMA RenameStays ==
    ASSUME ProjectInv, RenameInv, NEW e \in Editors, job'[e] = job[e], met \subseteq met',
           Renames(job'[e]), Touches(job'[e]) \cap met' = {},
           \A n \in Touches(job[e]) : json'[n] = json[n] /\ dir'[n] = dir[n]
    PROVE  OnTheWay(e)'
<1>1. Renames(job[e]) /\ Touches(job[e]) \cap met = {}
  OBVIOUS
<1>2. OnTheWay(e)
  BY <1>1 DEF RenameInv
<1>3. Touches(job[e]) = {job[e].name, job[e].doc.name}
  BY <1>1 DEF Touches, Renames, AtRest
<1> QED
  BY <1>2, <1>3 DEF OnTheWay

\* A step on the disk.
LEMMA DiskStepKeepsRenames ==
    ASSUME MarksHaveNone, ProjectInv, RenameInv, NEW e \in Editors, DiskStep(e)
    PROVE  RenameInv'
<1>1. /\ met' = met /\ \A f \in Editors : f # e => job'[f] = job[f]
      /\ \A n \in Projects : n \notin Touches(job[e]) => json'[n] = json[n] /\ dir'[n] = dir[n]
      /\ Touches(job'[e]) \subseteq Touches(job[e])
  BY DiskStepIsLocal
<1>2. ASSUME NEW f \in Editors, NEW g \in Editors, f # g
      PROVE  Touches(job'[f]) \cap Touches(job'[g]) \subseteq met'
  <2>1. Touches(job'[f]) \subseteq Touches(job[f]) /\ Touches(job'[g]) \subseteq Touches(job[g])
    BY <1>1
  <2> QED
    BY <1>1, <1>2, <2>1 DEF RenameInv, Apart
<1>3. ASSUME NEW f \in Editors, Renames(job'[f]), Touches(job'[f]) \cap met' = {}
      PROVE  OnTheWay(f)'
  <2>1. CASE f = e
    BY <1>3, <2>1, RenameGoesOn
  <2>2. CASE f # e
    <3>1. job'[f] = job[f]
      BY <1>1, <2>2
    <3>2. Touches(job[f]) \cap Touches(job[e]) = {}
      BY <1>1, <1>3, <2>2, <3>1 DEF RenameInv, Apart
    <3>3. Touches(job[f]) \subseteq Projects
      <4>1. job[f].step # "rest"
        BY <1>3, <3>1 DEF Renames
      <4> QED
        BY <4>1, JobFacts DEF Touches
    <3> QED
      BY <1>1, <1>3, <3>1, <3>2, <3>3, RenameStays
  <2> QED
    BY <2>1, <2>2
<1>4. Apart'
  BY <1>2 DEF Apart, Touches
<1> QED
  BY <1>3, <1>4 DEF RenameInv

\* A request that starts: a rename starts where both names are as it needs them.
LEMMA RequestKeepsRenames ==
    ASSUME MarksHaveNone, ProjectInv, RenameInv, NEW e \in Editors, Request(e)
    PROVE  RenameInv'
<1>1. PICK n \in Projects :
        \/ CreateProject(e, n) \/ LoadProject(e, n) \/ DeleteProject(e, n)
        \/ \E doc \in Sendable(n) : SaveProject(e, n, doc) \/ SaveProjectDir(e, n, doc)
        \/ \E m \in Projects : RenameProject(e, n, m) \/ DuplicateProject(e, n, m)
  BY DEF Request
<1>2. json' = json /\ dir' = dir
  BY <1>1 DEF CreateProject, LoadProject, DeleteProject, SaveProject, SaveProjectDir, RenameProject,
              DuplicateProject
<1>3. CASE LoadProject(e, n)
  <2>1. job' = job /\ met' = met
    BY <1>3 DEF LoadProject
  <2>2. Apart'
    BY <2>1 DEF RenameInv, Apart, Touches
  <2> QED
    BY <1>2, <2>1, <2>2, RenameStays DEF RenameInv
<1>4. ASSUME NEW j, Starts(e, j), Renames(j) /\ Touches(j) \cap met' = {} => OnTheWay(e)'
      PROVE  RenameInv'
  <2>1. Apart' /\ met \subseteq met' /\ job'[e] = j /\ \A f \in Editors : f # e => job'[f] = job[f]
    BY <1>4, StartKeepsApart DEF RenameInv
  <2>2. ASSUME NEW f \in Editors, Renames(job'[f]), Touches(job'[f]) \cap met' = {}
        PROVE  OnTheWay(f)'
    <3>1. CASE f = e
      BY <1>4, <2>1, <2>2, <3>1
    <3>2. CASE f # e
      BY <1>2, <2>1, <2>2, <3>2, RenameStays
    <3> QED
      BY <3>1, <3>2
  <2> QED
    BY <2>1, <2>2 DEF RenameInv
<1>5. CASE \/ CreateProject(e, n) \/ DeleteProject(e, n)
           \/ \E doc \in Sendable(n) : SaveProject(e, n, doc) \/ SaveProjectDir(e, n, doc)
  <2>1. PICK what, step, doc :
               what \in {"create", "delete", "save"} /\ Starts(e, Job(what, step, n, doc))
    BY <1>5 DEF CreateProject, DeleteProject, SaveProject, SaveProjectDir
  <2>2. ~Renames(Job(what, step, n, doc))
    BY <2>1 DEF Job, Renames
  <2> QED
    BY <1>4, <2>1, <2>2
<1>6. ASSUME NEW m \in Projects, DuplicateProject(e, n, m) PROVE RenameInv'
  <2> DEFINE j == [Job("duplicate", "open", n, NewProject(m)) EXCEPT !.todo = Stored(n).operations]
  <2>1. Starts(e, j)
    BY <1>6 DEF DuplicateProject
  <2>2. ~Renames(j)
    BY DEF Job, Renames
  <2> HIDE DEF j
  <2> QED
    BY <1>4, <2>1, <2>2
<1>7. ASSUME NEW m \in Projects, RenameProject(e, n, m) PROVE RenameInv'
  <2> DEFINE p == [Stored(n) EXCEPT !.name = m]
             step == IF ReadsDirectory(n) THEN "clear" ELSE "open"
             j == Job("rename", step, n, p)
  <2>1. n # m /\ ~Exists(m) /\ Stored(n) # NoProject /\ Starts(e, j)
    BY <1>7 DEF RenameProject
  <2>2. json[m] = Absent /\ dir[m] = Absent
    BY <2>1 DEF Exists
  <2>3. Stored(n) \in SoundProjects({n})
    BY <2>1, StoredIsSound
  <2>4. p.name = m /\ p.operations = Stored(n).operations
    BY <2>3, SoundRenamed
  <2>5. step \in {"clear", "open"}
    OBVIOUS
  <2>6. /\ j.name = n /\ j.doc = p /\ j.step = step /\ j.todo = p.operations
    BY DEF Job
  <2>7. Stored(n) = StoredIn(json[n], dir[n])
    BY StoredByForms
  <2>8. job'[e] = j
    BY <2>1, StartKeepsApart DEF RenameInv
  <2> HIDE DEF p, step, j
  <2>9. Underway(j, json[n], dir[n], json[m], dir[m])
    BY <2>1, <2>2, <2>4, <2>5, <2>6, <2>7 DEF Underway
  <2>10. OnTheWay(e)'
    BY <1>2, <2>4, <2>6, <2>8, <2>9 DEF OnTheWay
  <2> QED
    BY <1>4, <2>1, <2>10
<1> QED
  BY <1>1, <1>3, <1>5, <1>6, <1>7

\* A step of the server keeps renames on their way.
LEMMA RenamesGoOn ==
    MarksHaveNone /\ ProjectInv /\ RenameInv /\ [ProjectNext]_projectVars => RenameInv'
<1> SUFFICES ASSUME MarksHaveNone, ProjectInv, RenameInv, [ProjectNext]_projectVars
             PROVE  RenameInv'
  OBVIOUS
<1>1. ASSUME job' = job, met' = met, json' = json, dir' = dir PROVE RenameInv'
  <2>1. Apart'
    BY <1>1 DEF RenameInv, Apart, Touches
  <2> QED
    BY <1>1, <2>1, RenameStays DEF RenameInv
<1>2. ASSUME NEW n \in Projects, SessionEdit(n) PROVE RenameInv'
  <2>1. job' = job /\ met' = met /\ json' = json /\ dir' = dir
    BY <1>2 DEF SessionEdit, AddOperation, UndoProject, RedoProject, RemoveOperation, ModifyOperation,
                AddAction, RemoveAction, ModifyAction, Edits, Becomes
  <2> QED
    BY <1>1, <2>1
<1>3. CASE EditorStops
  <2>1. \A e \in Editors : job'[e] = AtRest
    BY <1>3 DEF EditorStops
  <2>2. \A e \in Editors : Touches(job'[e]) = {} /\ ~Renames(job'[e])
    BY <2>1 DEF Touches, Renames, AtRest
  <2>3. Apart'
    BY <2>2 DEF Apart, Touches
  <2> QED
    BY <2>2, <2>3 DEF RenameInv
<1>4. CASE UNCHANGED projectVars
  BY <1>1, <1>4 DEF projectVars
<1> QED
  BY <1>2, <1>3, <1>4, DiskStepKeepsRenames, RequestKeepsRenames DEF ProjectNext

\* At the start no rename is under way.
LEMMA NoRenameAtFirst == ProjectInit => RenameInv
<1> SUFFICES ASSUME ProjectInit PROVE RenameInv
  OBVIOUS
<1>1. \A e \in Editors : job[e] = AtRest
  BY DEF ProjectInit
<1>2. \A e \in Editors : Touches(job[e]) = {} /\ ~Renames(job[e])
  BY <1>1 DEF Touches, Renames, AtRest
<1> QED
  BY <1>2 DEF RenameInv, Apart

\* A rename that met no other request takes the old project away only when the new one can
\* be read and holds the same operations, in either form, at whatever step the server stops.
THEOREM RenamesKeepOperations ==
    ASSUME MarksHaveNone
    PROVE  ProjectSpec => RenameKeepsOperations
<1>1. ProjectInv /\ RenameInv =>
        \A e \in Editors : (RenameRemoves(e) /\ Touches(job[e]) \cap met = {})
          => /\ Stored(job[e].doc.name) # NoProject
             /\ Stored(job[e].doc.name).operations = Stored(job[e].name).operations
  <2> SUFFICES ASSUME ProjectInv, RenameInv, NEW e \in Editors, RenameRemoves(e),
                      Touches(job[e]) \cap met = {}
               PROVE  /\ Stored(job[e].doc.name) # NoProject
                      /\ Stored(job[e].doc.name).operations = Stored(job[e].name).operations
    OBVIOUS
  <2>1. job[e].step = "remove"
    BY DEF RenameRemoves
  <2>2. job[e].what \in Kinds /\ job[e].step \in StepsOf[job[e].what] /\ job[e].doc \in SoundProjects(Projects)
    BY <2>1, JobFacts
  <2>3. job[e].what = "rename"
    BY <2>1, <2>2 DEF Kinds, StepsOf
  <2>4. OnTheWay(e)
    BY <2>1, <2>3 DEF RenameInv, Renames
  <2>5. Stored(job[e].doc.name) = job[e].doc /\ Stored(job[e].name).operations = job[e].doc.operations
    BY <2>1, <2>4, StoredByForms DEF OnTheWay, Underway
  <2>6. job[e].doc # NoProject
    BY <2>2, SoundIsAProject
  <2> QED
    BY <2>5, <2>6
<1>2. ProjectInit => ProjectInv /\ RenameInv
  BY ProjectsStartSound, NoRenameAtFirst
<1>3. ProjectInv /\ RenameInv /\ [ProjectNext]_projectVars => ProjectInv' /\ RenameInv'
  BY ProjectsStaySound, RenamesGoOn
<1> QED
  BY <1>1, <1>2, <1>3, PTL DEF ProjectSpec, RenameKeepsOperations

=============================================================================
