------------------------ MODULE SessionUndo_proofs ------------------------
(***************************************************************************)
(* Edits and undos, for any number of calls, files, edits and changes by   *)
(* others, and however backups share directories: only a file whose backup *)
(* another's replaced while it was edited can get another's content, or    *)
(* lose text of the user's to a call that began after it was written.      *)
(***************************************************************************)
EXTENDS SessionUndo, SequenceTheorems, TLAPS

Refs       == {BaseName[f] : f \in Files} \X Nat
Changesets == [n: Nat \ {0}, edit: Edits, file: Files, ref: Refs,
               after: Contents, before: Contents]

\* What a call holds in each of its states.
Planned    == [edit: Edits, n: Nat, file: Files, read: Contents, since: Nat \ {0}]
Backed     == [edit: Edits, n: Nat, file: Files, read: Contents, ref: Refs]
Hashed     == [edit: Edits, n: Nat, file: Files, ref: Refs, after: Contents \cup {Missing}]
Undoing    == [todo: Seq(Changesets)]

Editing(c) == pc[c] \in {"backup", "write", "journal", "record"}
Holds(c)   == pc[c] \in {"write", "journal", "record"}

\* The content is one of the file, and has the user's text of it as it is now.
Fresh(content, f) ==
  /\ content \in Contents
  /\ f \notin crossed => content.owner = f
  /\ f \notin raced \cup crossed => disk[f] # Missing /\ UserText(disk[f]) = UserText(content)

\* Undoing the changeset keeps the user's text it found.
Reversible(s) ==
  /\ s \in Changesets
  /\ s.file = FileOf[s.edit]
  /\ s.file \notin crossed => s.before.owner = s.file
  /\ s.n <= started
  /\ s.file \notin raced \cup crossed => UserText(s.before) = UserText(s.after)

\* The backup a call took is, while it is there, one of its file.
BackupFresh(c) ==
  call[c].ref \in DOMAIN backups => Fresh(backups[call[c].ref], call[c].file)

CallSound(c) ==
  /\ pc[c] = "idle" => call[c] = NoCall
  /\ Editing(c) => call[c].n \in 1..started /\ call[c].file = FileOf[call[c].edit]
  /\ pc[c] = "backup" => call[c] \in Planned
  /\ pc[c] \in {"write", "journal"} => call[c] \in Backed /\ BackupFresh(c)
  /\ pc[c] \in {"backup", "write"} => /\ Fresh(call[c].read, call[c].file)
                                      /\ call[c].read.text[call[c].edit] = "before"
  /\ pc[c] = "journal" => call[c].file \in raced \cup crossed \/ disk[call[c].file] # Missing
  /\ pc[c] = "record" => /\ call[c] \in Hashed /\ BackupFresh(c)
                         /\ call[c].after # Missing => Fresh(call[c].after, call[c].file)
  /\ pc[c] \in {"check", "load", "restore", "drop"} =>
       /\ call[c] \in Undoing /\ call[c].todo # <<>>
       /\ \A i \in DOMAIN call[c].todo : Reversible(call[c].todo[i])
  /\ pc[c] \in {"load", "restore"} /\ Current(c).file \notin raced \cup crossed =>
       disk[Current(c).file] # Missing
       /\ UserText(disk[Current(c).file]) = UserText(Current(c).after)

CallsSound == \A c \in Calls : CallSound(c)

StackSound == stack \in Seq(Changesets) /\ \A i \in DOMAIN stack : Reversible(stack[i])

\* No number is used twice, on the stack or by the calls that may still push.
NumbersDiffer ==
  /\ \A i, j \in DOMAIN stack : stack[i].n = stack[j].n => i = j
  /\ \A c \in Calls : Editing(c) => \A i \in DOMAIN stack : stack[i].n # call[c].n
  /\ \A c, d \in Calls : Editing(c) /\ Editing(d) /\ call[c].n = call[d].n => c = d

Inv == TypeOK /\ OwnContentUnlessCrossed /\ StackSound /\ CallsSound /\ NumbersDiffer

-----------------------------------------------------------------------------
(* Operators. *)

LEMMA EditedContent ==
  ASSUME NEW content \in Contents, NEW e \in Edits, content.text[e] = "before"
  PROVE  /\ Edited(content, e) \in Contents
         /\ Edited(content, e).owner = content.owner
         /\ UserText(Edited(content, e)) = UserText(content)
  BY UndoAssumption DEF Edited, Contents, Texts, UserText

LEMMA HeadAndTail ==
  ASSUME NEW S, NEW s \in Seq(S), s # <<>>
  PROVE  /\ Head(s) = s[1] /\ 1 \in DOMAIN s /\ Head(s) \in S
         /\ Tail(s) \in Seq(S)
         /\ \A i \in DOMAIN Tail(s) : \E j \in DOMAIN s : Tail(s)[i] = s[j]
<1>1. Len(s) \in Nat /\ Len(s) # 0 /\ DOMAIN s = 1..Len(s)
  BY EmptySeq, LenProperties
<1>2. Tail(s) \in Seq(S) /\ Len(Tail(s)) = Len(s) - 1
      /\ \A i \in 1 .. Len(Tail(s)) : Tail(s)[i] = s[i+1]
  BY HeadTailProperties
<1>3. DOMAIN Tail(s) = 1..(Len(s) - 1)
  BY <1>2, LenProperties
<1>4. \A i \in DOMAIN Tail(s) : i + 1 \in DOMAIN s /\ Tail(s)[i] = s[i+1]
  BY <1>1, <1>2, <1>3
<1>5. Head(s) = s[1] /\ Head(s) \in S
  BY HeadTailProperties
<1> QED
  BY <1>1, <1>2, <1>4, <1>5

\* Removing one element leaves the others, in their order.
LEMMA Removed ==
  ASSUME NEW S, NEW s \in Seq(S), NEW i \in DOMAIN s
  PROVE  /\ RemoveAt(s, i) \in Seq(S)
         /\ DOMAIN RemoveAt(s, i) = 1..(Len(s) - 1)
         /\ \A j \in DOMAIN RemoveAt(s, i) :
              RemoveAt(s, i)[j] = IF j < i THEN s[j] ELSE s[j + 1]
<1> DEFINE front == SubSeq(s, 1, i - 1)
           back  == SubSeq(s, i + 1, Len(s))
<1>1. Len(s) \in Nat /\ DOMAIN s = 1..Len(s) /\ i \in 1..Len(s) /\ \A j \in 1..Len(s) : s[j] \in S
  BY LenProperties, ElementOfSeq
<1>2. front \in Seq(S) /\ Len(front) = i - 1 /\ \A j \in 1..(i - 1) : front[j] = s[j]
  <2>1. /\ SubSeq(s, 1, i-1) \in Seq(S)
        /\ Len(SubSeq(s, 1, i-1)) = IF 1 <= i-1 THEN (i-1)-1+1 ELSE 0
        /\ \A j \in 1 .. (i-1)-1+1 : SubSeq(s,1,i-1)[j] = s[1+j-1]
    BY <1>1, SubSeqProperties
  <2> QED
    BY <1>1, <2>1
<1>3. back \in Seq(S) /\ Len(back) = Len(s) - i /\ \A j \in 1..(Len(s) - i) : back[j] = s[i + j]
  <2>1. /\ SubSeq(s, i+1, Len(s)) \in Seq(S)
        /\ Len(SubSeq(s, i+1, Len(s))) = IF i+1 <= Len(s) THEN Len(s)-(i+1)+1 ELSE 0
        /\ \A j \in 1 .. Len(s)-(i+1)+1 : SubSeq(s,i+1,Len(s))[j] = s[(i+1)+j-1]
    BY <1>1, SubSeqProperties
  <2> HIDE DEF back
  <2>2. back = SubSeq(s, i + 1, Len(s))
    BY DEF back
  <2>3. Len(back) = IF i + 1 <= Len(s) THEN Len(s) - (i + 1) + 1 ELSE 0
    BY <2>1, <2>2
  <2>4. Len(back) = Len(s) - i
    BY <1>1, <2>3
  <2>5. ASSUME NEW j \in 1..(Len(s) - i) PROVE back[j] = s[i + j]
    <3>1. j \in 1 .. Len(s) - (i + 1) + 1 /\ (i + 1) + j - 1 = i + j
      BY <1>1
    <3> QED
      BY <2>1, <2>2, <3>1
  <2> QED
    BY <2>1, <2>2, <2>4, <2>5
<1> HIDE DEF front, back
<1>4. /\ front \o back \in Seq(S)
      /\ Len(front \o back) = Len(s) - 1
      /\ \A j \in 1..(Len(s) - 1) :
           (front \o back)[j] = IF j <= i - 1 THEN front[j] ELSE back[j - (i - 1)]
  <2>1. /\ front \o back \in Seq(S)
        /\ Len(front \o back) = Len(front) + Len(back)
        /\ \A j \in 1 .. Len(front) + Len(back) :
             (front \o back)[j] = IF j <= Len(front) THEN front[j] ELSE back[j - Len(front)]
    BY <1>2, <1>3, ConcatProperties
  <2>2. Len(front) + Len(back) = Len(s) - 1
    BY <1>1, <1>2, <1>3
  <2> QED
    BY <1>2, <2>1, <2>2
<1>5. DOMAIN (front \o back) = 1..(Len(s) - 1)
  BY <1>4, LenProperties
<1>6. \A j \in 1..(Len(s) - 1) :
        (front \o back)[j] = IF j < i THEN s[j] ELSE s[j + 1]
  <2> SUFFICES ASSUME NEW j \in 1..(Len(s) - 1)
               PROVE  (front \o back)[j] = IF j < i THEN s[j] ELSE s[j + 1]
    OBVIOUS
  <2>1. CASE j < i
    <3>1. j <= i - 1 /\ j \in 1..(i - 1)
      BY <1>1, <2>1
    <3> QED
      BY <1>2, <1>4, <2>1, <3>1
  <2>2. CASE ~(j < i)
    <3>1. ~(j <= i - 1) /\ j - (i - 1) \in 1..(Len(s) - i) /\ i + (j - (i - 1)) = j + 1
      BY <1>1, <2>2
    <3>2. (front \o back)[j] = back[j - (i - 1)]
      BY <1>4, <3>1
    <3>3. back[j - (i - 1)] = s[i + (j - (i - 1))]
      BY <1>3, <3>1
    <3> QED
      BY <2>2, <3>1, <3>2, <3>3
  <2> QED
    BY <2>1, <2>2
<1>7. RemoveAt(s, i) = front \o back
  BY Zenon DEF RemoveAt, front, back
<1> QED
  BY <1>4, <1>5, <1>6, <1>7

LEMMA Reversed ==
  ASSUME NEW S, NEW s \in Seq(S)
  PROVE  /\ Reverse(s) \in Seq(S) /\ Len(Reverse(s)) = Len(s)
         /\ \A i \in 1..Len(s) : /\ (Len(s) - i) + 1 \in DOMAIN s
                                /\ Reverse(s)[i] = s[(Len(s) - i) + 1]
<1>1. Len(s) \in Nat /\ DOMAIN s = 1..Len(s) /\ \A j \in 1..Len(s) : s[j] \in S
  BY LenProperties, ElementOfSeq
<1>2. \A i \in 1..Len(s) : (Len(s) - i) + 1 \in 1..Len(s)
                           /\ Reverse(s)[i] = s[(Len(s) - i) + 1]
  BY <1>1 DEF Reverse
<1>3. Reverse(s) \in Seq(S) /\ Len(Reverse(s)) = Len(s)
  BY <1>1, <1>2 DEF Reverse
<1> QED
  BY <1>1, <1>2, <1>3

-----------------------------------------------------------------------------
(* What a step leaves alone. *)

\* Unless it is raced for, the file is there with the user's text of before.
Quiet(f) ==
  f \notin raced' \cup crossed' /\ disk[f] # Missing =>
    disk'[f] # Missing /\ UserText(disk'[f]) = UserText(disk[f])

Forward ==
  /\ raced \subseteq raced' /\ crossed \subseteq crossed' /\ crossed' \subseteq Files
  /\ started' \in Nat /\ started <= started'
  /\ clock' \in Nat /\ clock <= clock'

\* No backup is taken, though some may be removed.
NoBackup == \A ref \in DOMAIN backups' : ref \in DOMAIN backups /\ backups'[ref] = backups[ref]

LEMMA FreshKept ==
  ASSUME NEW content, NEW f, Fresh(content, f), Forward, Quiet(f)
  PROVE  Fresh(content, f)'
  BY DEF Fresh, Quiet, Forward

LEMMA ReversibleKept ==
  ASSUME NEW s, Reversible(s), Forward, started \in Nat
  PROVE  Reversible(s)'
  BY DEF Reversible, Forward, Changesets

LEMMA BackupKept ==
  ASSUME NEW c \in Calls, BackupFresh(c), call'[c] = call[c],
         Forward, NoBackup, Quiet(call[c].file)
  PROVE  BackupFresh(c)'
<1> SUFFICES ASSUME (call[c].ref \in DOMAIN backups)' PROVE Fresh(backups[call[c].ref], call[c].file)'
  BY DEF BackupFresh
<1>1. call[c].ref \in DOMAIN backups /\ backups'[call[c].ref] = backups[call[c].ref]
  BY DEF NoBackup
<1>2. Fresh(backups[call[c].ref], call[c].file)
  BY <1>1 DEF BackupFresh
<1> QED
  BY <1>1, <1>2 DEF Fresh, Forward, Quiet

\* A call that takes no step stays sound when nothing is done to the file it works on.
LEMMA CallKept ==
  ASSUME NEW c \in Calls, CallSound(c), pc'[c] = pc[c], call'[c] = call[c],
         TypeOK, Forward, \A f \in Files : WorksOn(c, f) => Quiet(f),
         Holds(c) => BackupFresh(c)'
  PROVE  CallSound(c)'
<1>1. started \in Nat /\ clock \in Nat
  BY DEF TypeOK
<1>2. CASE pc[c] = "idle"
  BY <1>2 DEF CallSound, Editing
<1>3. CASE Editing(c)
  <2>1. call[c].file \in Files /\ Quiet(call[c].file)
    BY <1>3 DEF Editing, CallSound, WorksOn, Planned, Backed, Hashed
  <2>2. (call[c].n \in 1..started)'
    BY <1>1, <1>3 DEF CallSound, Forward
  <2>3. CASE pc[c] = "backup"
    <3>1. Fresh(call[c].read, call[c].file)'
      BY <2>1, <2>3 DEF CallSound, Fresh, Quiet, Forward
    <3> QED
      BY <1>3, <2>2, <2>3, <3>1 DEF CallSound, Editing, Planned
  <2>4. CASE pc[c] = "write"
    <3>1. Fresh(call[c].read, call[c].file)'
      BY <2>1, <2>4 DEF CallSound, Fresh, Quiet, Forward
    <3>2. BackupFresh(c)'
      BY <2>4 DEF Holds
    <3> QED
      BY <1>3, <2>2, <2>4, <3>1, <3>2 DEF CallSound, Editing, Backed
  <2>5. CASE pc[c] = "journal"
    <3>1. BackupFresh(c)'
      BY <2>5 DEF Holds
    <3>2. (call[c].file \in raced \cup crossed \/ disk[call[c].file] # Missing)'
      BY <2>1, <2>5 DEF CallSound, Quiet, Forward
    <3> QED
      BY <1>3, <2>2, <2>5, <3>1, <3>2 DEF CallSound, Editing, Backed
  <2>6. CASE pc[c] = "record"
    <3>1. BackupFresh(c)'
      BY <2>6 DEF Holds
    <3>2. (call[c].after # Missing => Fresh(call[c].after, call[c].file))'
      BY <2>1, <2>6 DEF CallSound, Fresh, Quiet, Forward
    <3> QED
      BY <1>3, <2>2, <2>6, <3>1, <3>2 DEF CallSound, Editing, Hashed
  <2> QED
    BY <1>3, <2>3, <2>4, <2>5, <2>6 DEF Editing
<1>4. CASE pc[c] \in {"check", "load", "restore", "drop"}
  <2>1. call[c] \in Undoing /\ call[c].todo # <<>> /\ call[c].todo \in Seq(Changesets)
    BY <1>4 DEF CallSound, Undoing
  <2>2. (\A i \in DOMAIN call[c].todo : Reversible(call[c].todo[i]))'
    BY <1>1, <1>4, ReversibleKept DEF CallSound
  <2>3. Current(c) \in Changesets
    BY <2>1, HeadAndTail DEF Current
  <2>4. (pc[c] \in {"load", "restore"} /\ Current(c).file \notin raced \cup crossed =>
           /\ disk[Current(c).file] # Missing
           /\ UserText(disk[Current(c).file]) = UserText(Current(c).after))'
    <3>1. Current(c)' = Current(c)
      BY DEF Current
    <3>2. Current(c).file \in Files
      BY <2>3 DEF Changesets
    <3>3. pc[c] \in {"load", "restore"} => Quiet(Current(c).file)
      BY <3>2 DEF WorksOn
    <3> QED
      BY <3>1, <3>3 DEF CallSound, Quiet, Forward, UserText
  <2> QED
    BY <1>4, <2>1, <2>2, <2>4 DEF CallSound, Editing, Undoing
<1> QED
  BY <1>2, <1>3, <1>4 DEF TypeOK, Editing

-----------------------------------------------------------------------------
(* One step of one call. *)

States == {"idle", "backup", "write", "journal", "record",
           "check", "load", "restore", "drop"}

\* The other calls, and what only others change, are left alone.
Alone(c) ==
  /\ pc' \in [Calls -> States] /\ DOMAIN call' = Calls
  /\ \A d \in Calls \ {c} : pc'[d] = pc[d] /\ call'[d] = call[d]
  /\ started' \in started..MaxCalls /\ outside' = outside /\ raced' = raced

LEMMA GotoAlone ==
  ASSUME TypeOK, NEW c \in Calls, NEW state \in States, NEW local, Goto(c, state, local)
  PROVE  Alone(c) /\ pc'[c] = state /\ call'[c] = local /\ started' = started
  BY UndoAssumption DEF TypeOK, Goto, Alone, States

LEMMA BeginAlone ==
  ASSUME TypeOK, NEW c \in Calls, NEW state \in States, NEW local, Begin(c, state, local)
  PROVE  /\ Alone(c) /\ pc'[c] = state /\ call'[c] = local
         /\ started' = started + 1 /\ Forward
         /\ UNCHANGED <<disk, backups, clock, crossed, stack>> /\ disturbed' \in BOOLEAN
  BY UndoAssumption DEF TypeOK, Begin, Alone, States, Forward

LEMMA StackKept ==
  ASSUME Inv, Forward, UNCHANGED stack
  PROVE  StackSound'
<1>1. started \in Nat
  BY DEF Inv, TypeOK
<1> QED
  BY <1>1, ReversibleKept DEF Inv, StackSound

LEMMA NumbersKept ==
  ASSUME Inv, NEW c \in Calls, Alone(c), UNCHANGED stack,
         Editing(c)' => Editing(c) /\ call'[c].n = call[c].n
  PROVE  NumbersDiffer'
<1>1. \A d \in Calls : Editing(d)' => Editing(d) /\ call'[d].n = call[d].n
  BY DEF Alone, Editing
<1> QED
  BY <1>1 DEF Inv, NumbersDiffer

\* A call that holds a backup works on its file.
LEMMA HoldsFile ==
  ASSUME NEW c \in Calls, CallSound(c), Holds(c)
  PROVE  /\ call[c].file \in Files /\ WorksOn(c, call[c].file) /\ BackupFresh(c)
         /\ call[c].ref \in Refs
  BY DEF CallSound, Holds, WorksOn, Backed, Hashed

\* The parts of the invariant that are to be shown for each step of a call.
LEMMA StepWithBackups ==
  ASSUME Inv, NEW c \in Calls, Alone(c), Forward, \A f \in Files : Quiet(f),
         disk' \in [Files -> Contents \cup {Missing}], OwnContentUnlessCrossed',
         \A ref \in DOMAIN backups' : ref[2] \in 1..clock' /\ backups'[ref] \in Contents,
         StackSound', NumbersDiffer', CallSound(c)', disturbed' \in BOOLEAN,
         \A d \in Calls \ {c} : Holds(d) => BackupFresh(d)'
  PROVE  Inv'
<1>1. \A d \in Calls \ {c} : CallSound(d)'
  BY CallKept DEF Inv, CallsSound, Alone
<1>2. CallsSound'
  BY <1>1 DEF CallsSound
<1>3. \A i \in DOMAIN stack' : stack'[i].n \in 1..started' /\ stack'[i].file = FileOf[stack'[i].edit]
  BY DEF StackSound, Reversible, Changesets, Forward
<1>4. TypeOK'
  BY <1>2, <1>3 DEF TypeOK, Alone, States, Inv, Forward, NumbersDiffer, CallsSound, CallSound
<1> QED
  BY <1>2, <1>4 DEF Inv

\* Most steps take no backup.
LEMMA StepOfCall ==
  ASSUME Inv, NEW c \in Calls, Alone(c), Forward, \A f \in Files : Quiet(f),
         disk' \in [Files -> Contents \cup {Missing}], OwnContentUnlessCrossed',
         \A ref \in DOMAIN backups' : ref[2] \in 1..clock' /\ backups'[ref] \in Contents,
         StackSound', NumbersDiffer', CallSound(c)', disturbed' \in BOOLEAN,
         UNCHANGED backups
  PROVE  Inv'
<1>1. NoBackup
  BY DEF NoBackup
<1>2. ASSUME NEW d \in Calls \ {c}, Holds(d) PROVE BackupFresh(d)'
  <2>1. call[d].file \in Files /\ BackupFresh(d)
    BY <1>2, HoldsFile DEF Inv, CallsSound
  <2> QED
    BY <1>1, <2>1, BackupKept DEF Alone
<1> QED
  BY <1>2, StepWithBackups

-----------------------------------------------------------------------------
(* The steps of an edit. *)

LEMMA StartEditKeeps ==
  ASSUME Inv, NEW c \in Calls, NEW e \in Edits, StartEdit(c, e)
  PROVE  Inv'
<1> DEFINE f == FileOf[e]
           local == [edit |-> e, n |-> started + 1, file |-> f, read |-> disk[f], since |-> clock]
<1>1. /\ Alone(c) /\ pc'[c] = "backup" /\ call'[c] = local
      /\ started' = started + 1 /\ Forward
      /\ UNCHANGED <<disk, backups, clock, crossed, stack>> /\ disturbed' \in BOOLEAN
  BY BeginAlone DEF StartEdit, Inv, States
<1>2. f \in Files /\ started \in Nat /\ clock \in Nat \ {0}
  BY UndoAssumption DEF Inv, TypeOK
<1>3. disk[f] \in Contents /\ disk[f].owner = f /\ disk[f].text[e] = "before"
      /\ disk[f] # Missing
  BY <1>2 DEF StartEdit, Fits, Inv, TypeOK
<1>4. local \in Planned
  BY <1>2, <1>3 DEF Planned
<1>5. CallSound(c)'
  BY <1>1, <1>2, <1>3, <1>4 DEF CallSound, Editing, Fresh
<1>6. StackSound'
  BY <1>1, StackKept
<1>7. NumbersDiffer'
  <2>1. \A i \in DOMAIN stack : stack[i].n <= started
    BY DEF Inv, StackSound, Reversible
  <2>2. \A d \in Calls \ {c} : Editing(d)' => Editing(d) /\ call'[d].n = call[d].n
                                             /\ call[d].n \in 1..started
    BY <1>1 DEF Alone, Editing, Inv, CallsSound, CallSound
  <2>3. \A i \in DOMAIN stack : stack[i].n # started + 1
    BY <1>2, <2>1 DEF Inv, StackSound, Reversible, Changesets
  <2>4. call'[c].n = started + 1
    BY <1>1
  <2> QED
    BY <1>1, <1>2, <2>2, <2>3, <2>4 DEF Inv, NumbersDiffer
<1>8. \A x \in Files : Quiet(x)
  BY <1>1 DEF Quiet
<1>9. OwnContentUnlessCrossed' /\ disk' \in [Files -> Contents \cup {Missing}]
      /\ \A ref \in DOMAIN backups' : ref[2] \in 1..clock' /\ backups'[ref] \in Contents
  BY <1>1 DEF Inv, TypeOK, OwnContentUnlessCrossed
<1> QED
  BY <1>1, <1>5, <1>6, <1>7, <1>8, <1>9, StepOfCall

\* Most steps of a call leave the files, the backups and the stack alone.
LEMMA CallOnly ==
  ASSUME Inv, NEW c \in Calls, Alone(c), UNCHANGED <<disk, backups, clock, crossed, stack>>,
         disturbed' \in BOOLEAN, CallSound(c)',
         Editing(c)' => Editing(c) /\ call'[c].n = call[c].n
  PROVE  Inv'
<1>1. Forward /\ \A f \in Files : Quiet(f)
  BY DEF Forward, Quiet, Alone, Inv, TypeOK
<1>2. StackSound' /\ NumbersDiffer'
  BY <1>1, StackKept, NumbersKept
<1>3. OwnContentUnlessCrossed' /\ disk' \in [Files -> Contents \cup {Missing}]
      /\ \A ref \in DOMAIN backups' : ref[2] \in 1..clock' /\ backups'[ref] \in Contents
  BY DEF Inv, TypeOK, OwnContentUnlessCrossed
<1> QED
  BY <1>1, <1>2, <1>3, StepOfCall

LEMMA ReturnKeeps ==
  ASSUME Inv, NEW c \in Calls, Return(c), UNCHANGED <<disk, backups, clock, crossed, stack>>,
         disturbed' \in BOOLEAN
  PROVE  Inv'
<1>1. Alone(c) /\ pc'[c] = "idle" /\ call'[c] = NoCall
  BY GotoAlone DEF Return, Inv, States
<1>2. CallSound(c)' /\ ~Editing(c)'
  BY <1>1 DEF CallSound, Editing
<1> QED
  BY <1>1, <1>2, CallOnly

\* Whoever's edit a new backup replaces the backup of: it is one of that file, or the
\* file is crossed.
LEMMA BackupReplaces ==
  ASSUME Inv, NEW f \in Files, NEW ref, disk[f] # Missing, Forward, UNCHANGED disk,
         raced' = raced,
         backups' = [r \in DOMAIN backups \cup {ref} |-> IF r = ref THEN disk[f] ELSE backups[r]],
         crossed' = crossed \cup {call[d].file : d \in Sharing(f, ref)},
         NEW d \in Calls, Holds(d), call'[d] = call[d]
  PROVE  BackupFresh(d)'
<1>1. call[d].file \in Files /\ BackupFresh(d)
  BY HoldsFile DEF Inv, CallsSound
<1>2. disk[f] \in Contents /\ (f \notin crossed => disk[f].owner = f)
  BY DEF Inv, TypeOK, OwnContentUnlessCrossed
<1>3. CASE call[d].ref # ref
  <2>1. (call[d].ref \in DOMAIN backups)' =>
          call[d].ref \in DOMAIN backups /\ backups'[call[d].ref] = backups[call[d].ref]
    BY <1>3
  <2> QED
    BY <1>1, <2>1 DEF BackupFresh, Fresh, Forward
<1>4. CASE call[d].ref = ref /\ call[d].file = f
  <2>1. backups'[ref] = disk[f]
    OBVIOUS
  <2> QED
    BY <1>2, <1>4, <2>1 DEF BackupFresh, Fresh, Forward
<1>5. CASE call[d].ref = ref /\ call[d].file # f
  <2>1. d \in Sharing(f, ref)
    BY <1>5 DEF Sharing, Holds
  <2>2. call[d].file \in crossed' /\ backups'[ref] = disk[f]
    BY <2>1
  <2> QED
    BY <1>2, <1>5, <2>2 DEF BackupFresh, Fresh
<1> QED
  BY <1>3, <1>4, <1>5

LEMMA BackupKeeps ==
  ASSUME Inv, NEW c \in Calls, Backup(c)
  PROVE  Inv'
<1> DEFINE f == call[c].file
<1>1. PICK now \in call[c].since .. clock + 1 :
        LET ref == <<BaseName[f], now>> IN
        /\ clock' = IF now > clock THEN now ELSE clock
        /\ IF disk[f] = Missing
           THEN Return(c) /\ disturbed' = TRUE /\ UNCHANGED <<backups, crossed>>
           ELSE /\ backups' = [r \in DOMAIN backups \cup {ref} |->
                                 IF r = ref THEN disk[f] ELSE backups[r]]
                /\ crossed' = crossed \cup {call[d].file : d \in Sharing(f, ref)}
                /\ Goto(c, "write", [edit |-> call[c].edit, n |-> call[c].n, file |-> f,
                                     read |-> call[c].read, ref |-> ref])
                /\ UNCHANGED disturbed
  BY DEF Backup
<1> DEFINE ref == <<BaseName[f], now>>
           local == [edit |-> call[c].edit, n |-> call[c].n, file |-> f,
                     read |-> call[c].read, ref |-> ref]
<1>2. pc[c] = "backup" /\ UNCHANGED <<disk, stack>>
  BY DEF Backup
<1>3. CallSound(c) /\ call[c] \in Planned /\ f \in Files /\ Fresh(call[c].read, f)
  BY <1>2 DEF Inv, CallsSound, CallSound, Planned
<1>4. /\ now \in Nat \ {0} /\ clock' \in Nat \ {0} /\ clock <= clock' /\ now <= clock'
      /\ clock' = IF now > clock THEN now ELSE clock
  BY <1>1, <1>3 DEF Planned, Inv, TypeOK
<1>5. CASE disk[f] = Missing
  <2>1. Return(c) /\ disturbed' = TRUE /\ UNCHANGED <<backups, crossed>>
    BY <1>1, <1>5
  <2>2. Alone(c) /\ pc'[c] = "idle" /\ call'[c] = NoCall
    BY <2>1, GotoAlone DEF Return, Inv, States
  <2>3. Forward /\ \A x \in Files : Quiet(x)
    BY <1>2, <1>4, <2>1, <2>2 DEF Forward, Quiet, Alone, Inv, TypeOK
  <2>4. CallSound(c)' /\ ~Editing(c)'
    BY <2>2 DEF CallSound, Editing
  <2>5. StackSound' /\ NumbersDiffer'
    BY <1>2, <2>2, <2>3, <2>4, StackKept, NumbersKept
  <2>6. OwnContentUnlessCrossed' /\ disk' \in [Files -> Contents \cup {Missing}]
        /\ \A r \in DOMAIN backups' : r[2] \in 1..clock' /\ backups'[r] \in Contents
    BY <1>2, <1>4, <2>1 DEF Inv, TypeOK, OwnContentUnlessCrossed
  <2> QED
    BY <2>1, <2>2, <2>3, <2>4, <2>5, <2>6, StepOfCall
<1>6. CASE disk[f] # Missing
  <2>1. /\ backups' = [r \in DOMAIN backups \cup {ref} |-> IF r = ref THEN disk[f] ELSE backups[r]]
        /\ crossed' = crossed \cup {call[d].file : d \in Sharing(f, ref)}
        /\ Goto(c, "write", local) /\ UNCHANGED disturbed
    BY <1>1, <1>6
  <2>2. Alone(c) /\ pc'[c] = "write" /\ call'[c] = local
    BY <2>1, GotoAlone DEF Inv, States
  <2>3. disk[f] \in Contents /\ (f \notin crossed => disk[f].owner = f)
    BY <1>3, <1>6 DEF Inv, TypeOK, OwnContentUnlessCrossed
  <2>4. ref \in Refs /\ ref[2] = now
    BY <1>3, <1>4 DEF Refs
  <2> HIDE DEF ref
  <2>5. Forward /\ \A x \in Files : Quiet(x)
    <3>1. \A d \in Sharing(f, ref) : call[d].file \in Files
      BY HoldsFile DEF Sharing, Holds, Inv, CallsSound
    <3>2. crossed \subseteq Files /\ crossed' \subseteq Files /\ crossed \subseteq crossed'
      BY <2>1, <3>1 DEF Inv, TypeOK
    <3> QED
      BY <1>2, <1>4, <2>2, <3>2 DEF Forward, Quiet, Alone, Inv, TypeOK
  <2>6. local \in Backed
    BY <1>3, <2>4 DEF Planned, Backed
  <2>7. BackupFresh(c)'
    <3>1. backups'[ref] = disk[f] /\ call'[c].ref = ref /\ call'[c].file = f
      BY <2>1, <2>2
    <3> QED
      BY <1>2, <1>6, <2>3, <2>5, <3>1 DEF BackupFresh, Fresh, Forward
  <2>8. CallSound(c)'
    <3>1. Fresh(call[c].read, f)'
      BY <1>2, <1>3, <2>2, <2>5 DEF Fresh, Forward
    <3>2. (call[c].n \in 1..started)' /\ local.file = FileOf[local.edit]
          /\ local.read.text[local.edit] = "before"
      BY <1>2, <1>3, <2>1, <2>2 DEF CallSound, Editing, Goto
    <3> QED
      BY <2>2, <2>6, <2>7, <3>1, <3>2 DEF CallSound, Editing, Fresh
  <2>9. StackSound' /\ NumbersDiffer'
    BY <1>2, <2>2, <2>5, StackKept, NumbersKept DEF Editing
  <2>10. OwnContentUnlessCrossed' /\ disk' \in [Files -> Contents \cup {Missing}]
    BY <1>2, <2>5 DEF Inv, TypeOK, OwnContentUnlessCrossed, Forward
  <2>11. \A r \in DOMAIN backups' : r[2] \in 1..clock' /\ backups'[r] \in Contents
    <3>1. \A r \in DOMAIN backups' : IF r = ref THEN backups'[r] = disk[f]
                                     ELSE r \in DOMAIN backups /\ backups'[r] = backups[r]
      BY <2>1
    <3> QED
      BY <1>4, <2>3, <2>4, <3>1 DEF Inv, TypeOK
  <2>12. \A d \in Calls \ {c} : Holds(d) => BackupFresh(d)'
    BY <1>2, <1>3, <1>6, <2>1, <2>2, <2>5, BackupReplaces DEF Alone
  <2> QED
    BY <2>1, <2>2, <2>5, <2>8, <2>9, <2>10, <2>11, <2>12, StepWithBackups DEF Inv, TypeOK
<1> QED
  BY <1>5, <1>6

\* A write that keeps the user's text, and the file's own content, keeps everything.
LEMMA Written ==
  ASSUME Inv, NEW c \in Calls, NEW f \in Files, NEW content \in Contents, Alone(c),
         disk' = [disk EXCEPT ![f] = content], UNCHANGED <<backups, clock, crossed, stack, disturbed>>,
         f \notin crossed => content.owner = f,
         f \notin raced \cup crossed => UserText(content) = UserText(disk[f]),
         CallSound(c)', Editing(c)' => Editing(c) /\ call'[c].n = call[c].n
  PROVE  Inv'
<1>1. content # Missing
  BY UndoAssumption
<1>2. Forward /\ \A x \in Files : Quiet(x)
  BY <1>1 DEF Forward, Quiet, Alone, Inv, TypeOK
<1>3. StackSound' /\ NumbersDiffer'
  BY <1>2, StackKept, NumbersKept
<1>4. OwnContentUnlessCrossed' /\ disk' \in [Files -> Contents \cup {Missing}] /\ disturbed' \in BOOLEAN
      /\ \A ref \in DOMAIN backups' : ref[2] \in 1..clock' /\ backups'[ref] \in Contents
  BY DEF Inv, TypeOK, OwnContentUnlessCrossed
<1> QED
  BY <1>2, <1>3, <1>4, StepOfCall

LEMMA WriteEditKeeps ==
  ASSUME Inv, NEW c \in Calls, WriteEdit(c)
  PROVE  Inv'
<1> DEFINE f == call[c].file
           content == Edited(call[c].read, call[c].edit)
<1>1. pc[c] = "write" /\ disk' = [disk EXCEPT ![f] = content]
      /\ UNCHANGED <<backups, clock, crossed, stack, disturbed>>
      /\ Alone(c) /\ pc'[c] = "journal" /\ call'[c] = call[c] /\ started' = started
  BY GotoAlone DEF WriteEdit, Inv, States
<1>2. /\ CallSound(c) /\ call[c] \in Backed /\ BackupFresh(c) /\ f \in Files
      /\ Fresh(call[c].read, f) /\ call[c].read.text[call[c].edit] = "before"
      /\ call[c].n \in 1..started /\ f = FileOf[call[c].edit]
  BY <1>1 DEF Inv, CallsSound, CallSound, Backed, Editing
<1>3. content \in Contents /\ (f \notin crossed => content.owner = f)
      /\ UserText(content) = UserText(call[c].read)
  BY <1>2, EditedContent DEF Fresh, Backed
<1>4. f \notin raced \cup crossed => UserText(content) = UserText(disk[f])
  BY <1>2, <1>3 DEF Fresh
<1>5. content # Missing /\ disk'[f] = content
  BY <1>1, <1>2, <1>3, UndoAssumption DEF Inv, TypeOK
<1>6. Forward /\ Quiet(f)
  BY <1>1, <1>4, <1>5 DEF Forward, Quiet, Alone, Inv, TypeOK
<1>7. BackupFresh(c)'
  BY <1>1, <1>2, <1>6, BackupKept DEF NoBackup
<1>8. CallSound(c)'
  BY <1>1, <1>2, <1>5, <1>7 DEF CallSound, Editing
<1>9. Editing(c)' => Editing(c) /\ call'[c].n = call[c].n
  BY <1>1 DEF Editing
<1> HIDE DEF content, f
<1> QED
  BY <1>1, <1>2, <1>3, <1>4, <1>8, <1>9, Written

LEMMA HashAfterKeeps ==
  ASSUME Inv, NEW c \in Calls, HashAfter(c)
  PROVE  Inv'
<1> DEFINE f == call[c].file
           local == [edit |-> call[c].edit, n |-> call[c].n, file |-> f,
                     ref |-> call[c].ref, after |-> disk[f]]
<1>1. pc[c] = "journal" /\ UNCHANGED <<disk, backups, clock, crossed, stack, disturbed>>
      /\ Alone(c) /\ pc'[c] = "record" /\ call'[c] = local /\ started' = started
  BY GotoAlone DEF HashAfter, Inv, States
<1>2. /\ call[c] \in Backed /\ BackupFresh(c) /\ f \in Files
      /\ call[c].n \in 1..started /\ f = FileOf[call[c].edit]
  BY <1>1 DEF Inv, CallsSound, CallSound, Backed, Editing
<1>3. local \in Hashed
  BY <1>2 DEF Backed, Hashed, Inv, TypeOK
<1>4. disk[f] # Missing => Fresh(disk[f], f)
  BY <1>2 DEF Fresh, Inv, TypeOK, OwnContentUnlessCrossed
<1>5. (call[c].after # Missing => Fresh(call[c].after, call[c].file))'
  BY <1>1, <1>4 DEF Fresh, Alone
<1>6. BackupFresh(c)'
  BY <1>1, <1>2 DEF BackupFresh, Fresh, Alone
<1>7. CallSound(c)'
  BY <1>1, <1>2, <1>3, <1>5, <1>6 DEF CallSound, Editing
<1> QED
  BY <1>1, <1>7, CallOnly DEF Editing, Inv, TypeOK

LEMMA RecordKeeps ==
  ASSUME Inv, NEW c \in Calls, Record(c)
  PROVE  Inv'
<1> DEFINE entry == Changeset(c)
<1>1. pc[c] = "record" /\ Return(c) /\ UNCHANGED <<disk, backups, clock, crossed>>
      /\ Alone(c) /\ pc'[c] = "idle" /\ call'[c] = NoCall /\ started' = started
  BY GotoAlone DEF Record, Return, Inv, States
<1>2. CASE ~(entry.before # Missing /\ entry.after # Missing)
  <2>1. UNCHANGED stack /\ disturbed' = TRUE
    BY <1>2 DEF Record
  <2> QED
    BY <1>1, <2>1, ReturnKeeps
<1>3. CASE entry.before # Missing /\ entry.after # Missing
  <2>1. stack' = Append(stack, entry) /\ UNCHANGED disturbed
    BY <1>3 DEF Record
  <2>2. /\ call[c] \in Hashed /\ BackupFresh(c) /\ Fresh(call[c].after, call[c].file)
        /\ call[c].n \in 1..started /\ call[c].file = FileOf[call[c].edit]
    BY <1>1, <1>3 DEF Inv, CallsSound, CallSound, Editing, Changeset
  <2>3. call[c].ref \in DOMAIN backups /\ entry.before = backups[call[c].ref]
        /\ Fresh(entry.before, call[c].file)
    BY <1>3, <2>2 DEF Changeset, BackupFresh
  <2>4. entry \in Changesets
    BY <2>2, <2>3 DEF Changeset, Changesets, Hashed, Fresh, Inv, TypeOK
  <2>5. Reversible(entry)
    BY <2>2, <2>3, <2>4 DEF Reversible, Changeset, Fresh, Inv, TypeOK
  <2>6. entry.n = call[c].n
    BY DEF Changeset
  <2> HIDE DEF entry
  <2>7. /\ stack \in Seq(Changesets) /\ Len(stack) \in Nat /\ DOMAIN stack = 1..Len(stack)
        /\ stack' \in Seq(Changesets) /\ DOMAIN stack' = 1..(Len(stack) + 1)
        /\ \A i \in 1..Len(stack) : stack'[i] = stack[i]
        /\ stack'[Len(stack) + 1] = entry
    <3>1. stack \in Seq(Changesets)
      BY DEF Inv, StackSound
    <3> QED
      BY <2>1, <2>4, <3>1
  <2>8. \A i \in DOMAIN stack' : i \in DOMAIN stack \/ i = Len(stack) + 1
    BY <2>7
  <2>9. Forward /\ \A x \in Files : Quiet(x)
    BY <1>1 DEF Forward, Quiet, Alone, Inv, TypeOK
  <2>10. StackSound'
    <3>1. \A i \in DOMAIN stack' : Reversible(stack'[i])
      BY <2>5, <2>7, <2>8 DEF Inv, StackSound
    <3> QED
      BY <2>7, <2>9, <3>1, ReversibleKept DEF StackSound, Inv, TypeOK
  <2>11. NumbersDiffer'
    <3>1. \A i \in DOMAIN stack : stack[i].n # entry.n
      BY <1>1, <2>6 DEF Inv, NumbersDiffer, Editing
    <3>2. \A d \in Calls : Editing(d)' => d # c /\ Editing(d) /\ call'[d] = call[d]
      BY <1>1 DEF Editing, Alone
    <3>3. \A d \in Calls \ {c} : Editing(d) => call[d].n # entry.n
      BY <1>1, <2>6 DEF Inv, NumbersDiffer, Editing
    <3>4. \A i, j \in DOMAIN stack' : stack'[i].n = stack'[j].n => i = j
      BY <2>7, <2>8, <3>1 DEF Inv, NumbersDiffer
    <3>5. \A d \in Calls : Editing(d)' => \A i \in DOMAIN stack' : stack'[i].n # call'[d].n
      BY <2>7, <2>8, <3>2, <3>3 DEF Inv, NumbersDiffer
    <3>6. \A d, g \in Calls : Editing(d)' /\ Editing(g)' /\ call'[d].n = call'[g].n => d = g
      BY <3>2 DEF Inv, NumbersDiffer
    <3> QED
      BY <3>4, <3>5, <3>6 DEF NumbersDiffer, Editing
  <2>12. CallSound(c)'
    BY <1>1 DEF CallSound, Editing
  <2>13. OwnContentUnlessCrossed' /\ disk' \in [Files -> Contents \cup {Missing}] /\ disturbed' \in BOOLEAN
         /\ \A ref \in DOMAIN backups' : ref[2] \in 1..clock' /\ backups'[ref] \in Contents
    BY <1>1, <2>1 DEF Inv, TypeOK, OwnContentUnlessCrossed
  <2> QED
    BY <1>1, <2>9, <2>10, <2>11, <2>12, <2>13, StepOfCall
<1> QED
  BY <1>2, <1>3

LEMMA EditFailsKeeps ==
  ASSUME Inv, NEW c \in Calls, EditFails(c)
  PROVE  Inv'
  BY ReturnKeeps DEF EditFails

-----------------------------------------------------------------------------
(* The steps of an undo. *)

\* An undo starts, or goes on, with a list of changesets that can be taken back.
LEMMA ChecksNext ==
  ASSUME Inv, NEW c \in Calls, NEW todo \in Seq(Changesets), todo # <<>>,
         \A i \in DOMAIN todo : Reversible(todo[i]),
         Forward, Alone(c), pc'[c] = "check", call'[c] = [todo |-> todo]
  PROVE  CallSound(c)' /\ ~Editing(c)'
<1>1. \A i \in DOMAIN todo : Reversible(todo[i])'
  BY ReversibleKept DEF Inv, TypeOK
<1> QED
  BY <1>1 DEF CallSound, Editing, Undoing

LEMMA UndoEditKeeps ==
  ASSUME Inv, NEW c \in Calls, NEW e \in Edits, UndoEdit(c, e)
  PROVE  Inv'
<1>1. PICK i \in LastOf(e) : Begin(c, "check", [todo |-> <<stack[i]>>])
  BY DEF UndoEdit
<1>2. Reversible(stack[i]) /\ stack[i] \in Changesets
  BY DEF LastOf, Inv, StackSound, Reversible
<1>3. /\ Alone(c) /\ pc'[c] = "check" /\ call'[c] = [todo |-> <<stack[i]>>]
      /\ Forward /\ UNCHANGED <<disk, backups, clock, crossed, stack>> /\ disturbed' \in BOOLEAN
  BY <1>1, BeginAlone DEF Inv, States
<1>4. /\ <<stack[i]>> \in Seq(Changesets) /\ <<stack[i]>> # <<>>
      /\ \A k \in DOMAIN <<stack[i]>> : <<stack[i]>>[k] = stack[i]
  BY <1>2
<1>5. CallSound(c)' /\ ~Editing(c)'
  BY <1>2, <1>3, <1>4, ChecksNext
<1> QED
  BY <1>3, <1>5, CallOnly

LEMMA UndoLastKeeps ==
  ASSUME Inv, NEW c \in Calls, NEW count \in 1..MaxCalls, UndoLast(c, count)
  PROVE  Inv'
<1> DEFINE m == IF count < Len(stack) THEN count ELSE Len(stack)
           todo == [i \in 1..m |-> Reverse(stack)[i]]
<1>1. /\ Alone(c) /\ pc'[c] = "check" /\ call'[c] = [todo |-> todo]
      /\ Forward /\ UNCHANGED <<disk, backups, clock, crossed, stack>> /\ disturbed' \in BOOLEAN
  BY BeginAlone DEF UndoLast, Inv, States
<1>2. stack \in Seq(Changesets) /\ stack # <<>>
  BY DEF UndoLast, Inv, StackSound
<1>3. Len(stack) \in Nat \ {0}
  BY <1>2, EmptySeq
<1>4. m \in 1..Len(stack)
  BY <1>3, UndoAssumption
<1>5. \A i \in 1..m : \E j \in DOMAIN stack : todo[i] = stack[j]
  BY <1>2, <1>3, <1>4, Reversed
<1>6. \A i \in 1..m : Reversible(todo[i]) /\ todo[i] \in Changesets
  BY <1>5 DEF Inv, StackSound, Reversible
<1>7. todo \in Seq(Changesets) /\ DOMAIN todo = 1..m
  <2>1. m \in Nat
    BY <1>3, <1>4
  <2>2. \A i \in 1..m : Reverse(stack)[i] \in Changesets
    BY <1>6
  <2> HIDE DEF m
  <2> QED
    BY <2>1, <2>2
<1>8. todo # <<>>
  BY <1>3, <1>4, <1>7
<1> HIDE DEF todo, m
<1>9. CallSound(c)' /\ ~Editing(c)'
  BY <1>1, <1>6, <1>7, <1>8, ChecksNext
<1> QED
  BY <1>1, <1>9, CallOnly

\* What an undo holds, and the changeset it is at.
LEMMA UndoHolds ==
  ASSUME Inv, NEW c \in Calls, pc[c] \in {"check", "load", "restore", "drop"}
  PROVE  /\ call[c].todo \in Seq(Changesets) /\ call[c].todo # <<>> /\ call[c] \in Undoing
         /\ \A i \in DOMAIN call[c].todo : Reversible(call[c].todo[i])
         /\ Current(c) \in Changesets /\ Reversible(Current(c))
<1>1. /\ call[c].todo \in Seq(Changesets) /\ call[c].todo # <<>> /\ call[c] \in Undoing
      /\ \A i \in DOMAIN call[c].todo : Reversible(call[c].todo[i])
  BY DEF Inv, CallsSound, CallSound, Undoing
<1> QED
  BY <1>1, HeadAndTail DEF Current

LEMMA CheckTargetKeeps ==
  ASSUME Inv, NEW c \in Calls, CheckTarget(c)
  PROVE  Inv'
<1>1. pc[c] = "check" /\ UNCHANGED <<disk, backups, clock, crossed, stack, disturbed>>
  BY DEF CheckTarget
<1>2. CASE UnchangedSince(Current(c))
  <2>1. Alone(c) /\ pc'[c] = "load" /\ call'[c] = call[c] /\ started' = started
    BY <1>2, GotoAlone DEF CheckTarget, Inv, States
  <2>2. (\A i \in DOMAIN call[c].todo : Reversible(call[c].todo[i]))'
    BY <1>1, <2>1, UndoHolds DEF Reversible, Alone
  <2>3. disk'[Current(c).file] # Missing /\ disk'[Current(c).file] = Current(c).after
        /\ Current(c)' = Current(c)
    BY <1>1, <1>2, <2>1 DEF UnchangedSince, Current
  <2>4. CallSound(c)' /\ ~Editing(c)'
    BY <1>1, <2>1, <2>2, <2>3, UndoHolds DEF CallSound, Editing
  <2> QED
    BY <1>1, <2>1, <2>4, CallOnly DEF Inv, TypeOK
<1>3. CASE ~UnchangedSince(Current(c))
  BY <1>1, <1>3, ReturnKeeps DEF CheckTarget, Inv, TypeOK
<1> QED
  BY <1>2, <1>3

LEMMA LoadBackupKeeps ==
  ASSUME Inv, NEW c \in Calls, LoadBackup(c)
  PROVE  Inv'
<1>1. pc[c] = "load" /\ UNCHANGED <<disk, backups, clock, crossed, stack, disturbed>>
      /\ (Return(c) \/ Goto(c, "restore", call[c]))
  BY DEF LoadBackup
<1>2. CASE Goto(c, "restore", call[c])
  <2>1. Alone(c) /\ pc'[c] = "restore" /\ call'[c] = call[c] /\ started' = started
    BY <1>2, GotoAlone DEF Inv, States
  <2>2. (\A i \in DOMAIN call[c].todo : Reversible(call[c].todo[i]))'
    BY <1>1, <2>1, UndoHolds DEF Reversible, Alone
  <2>3. Current(c)' = Current(c)
    BY <2>1 DEF Current
  <2>4. CallSound(c)' /\ ~Editing(c)'
    BY <1>1, <2>1, <2>2, <2>3, UndoHolds DEF CallSound, Editing, Inv, CallsSound, Alone
  <2> QED
    BY <1>1, <2>1, <2>4, CallOnly DEF Inv, TypeOK
<1>3. CASE Return(c)
  BY <1>1, <1>3, ReturnKeeps DEF Inv, TypeOK
<1> QED
  BY <1>1, <1>2, <1>3

LEMMA RestoreKeeps ==
  ASSUME Inv, NEW c \in Calls, Restore(c)
  PROVE  Inv'
<1> DEFINE entry == Current(c)
<1>1. pc[c] = "restore" /\ disk' = [disk EXCEPT ![entry.file] = entry.before]
      /\ UNCHANGED <<backups, clock, crossed, stack, disturbed>>
      /\ Alone(c) /\ pc'[c] = "drop" /\ call'[c] = call[c] /\ started' = started
  BY GotoAlone DEF Restore, Inv, States
<1>2. entry \in Changesets /\ Reversible(entry)
  BY <1>1, UndoHolds
<1>3. /\ entry.file \in Files /\ entry.before \in Contents
      /\ entry.file \notin crossed => entry.before.owner = entry.file
  BY <1>2 DEF Changesets, Reversible
<1>4. entry.file \notin raced \cup crossed => UserText(entry.before) = UserText(disk[entry.file])
  BY <1>1, <1>2 DEF Reversible, Inv, CallsSound, CallSound
<1>5. (\A i \in DOMAIN call[c].todo : Reversible(call[c].todo[i]))'
  BY <1>1, UndoHolds DEF Reversible, Alone
<1>6. CallSound(c)' /\ ~Editing(c)'
  BY <1>1, <1>5, UndoHolds DEF CallSound, Editing
<1> HIDE DEF entry
<1> QED
  BY <1>1, <1>3, <1>4, <1>6, Written

LEMMA RestoreFailsKeeps ==
  ASSUME Inv, NEW c \in Calls, RestoreFails(c)
  PROVE  Inv'
  BY ReturnKeeps DEF RestoreFails, Inv, TypeOK

LEMMA DropKeeps ==
  ASSUME Inv, NEW c \in Calls, Drop(c)
  PROVE  Inv'
<1>1. pc[c] = "drop" /\ UNCHANGED <<disk, backups, clock, crossed, disturbed>>
  BY DEF Drop
<1>2. /\ Alone(c) /\ started' = started
      /\ \/ pc'[c] = "idle" /\ call'[c] = NoCall
         \/ /\ Tail(call[c].todo) # <<>>
            /\ pc'[c] = "check" /\ call'[c] = [todo |-> Tail(call[c].todo)]
  <2>1. CASE Tail(call[c].todo) = <<>>
    BY <2>1, GotoAlone DEF Drop, Return, Inv, States
  <2>2. CASE Tail(call[c].todo) # <<>>
    BY <2>2, GotoAlone DEF Drop, Inv, States
  <2> QED
    BY <2>1, <2>2
<1>3. Forward /\ \A f \in Files : Quiet(f)
  BY <1>1, <1>2 DEF Forward, Quiet, Alone, Inv, TypeOK
<1>4. CallSound(c)' /\ ~Editing(c)'
  <2>1. /\ Tail(call[c].todo) \in Seq(Changesets)
        /\ \A i \in DOMAIN Tail(call[c].todo) : Reversible(Tail(call[c].todo)[i])
    BY <1>1, UndoHolds, HeadAndTail
  <2>2. CASE pc'[c] = "check" /\ Tail(call[c].todo) # <<>>
             /\ call'[c] = [todo |-> Tail(call[c].todo)]
    BY <1>2, <1>3, <2>1, <2>2, ChecksNext
  <2>3. CASE pc'[c] = "idle" /\ call'[c] = NoCall
    BY <2>3 DEF CallSound, Editing
  <2> QED
    BY <1>2, <2>2, <2>3
<1>5. StackSound' /\ NumbersDiffer'
  <2>1. CASE UNCHANGED stack
    BY <1>2, <1>3, <1>4, <2>1, StackKept, NumbersKept
  <2>2. ASSUME NEW i \in DOMAIN stack, stack' = RemoveAt(stack, i)
        PROVE  StackSound' /\ NumbersDiffer'
    <3>1. /\ stack \in Seq(Changesets) /\ Len(stack) \in Nat /\ DOMAIN stack = 1..Len(stack)
          /\ stack' \in Seq(Changesets) /\ DOMAIN stack' = 1..(Len(stack) - 1)
          /\ \A j \in DOMAIN stack' : stack'[j] = IF j < i THEN stack[j] ELSE stack[j + 1]
      BY <2>2, Removed, LenProperties DEF Inv, StackSound
    <3> DEFINE old(j) == IF j < i THEN j ELSE j + 1
    <3>2. \A j \in DOMAIN stack' : old(j) \in DOMAIN stack /\ stack'[j] = stack[old(j)]
      BY <3>1
    <3>3. \A j, k \in DOMAIN stack' : old(j) = old(k) => j = k
      BY <3>1
    <3> HIDE DEF old
    <3>4. (\A j \in DOMAIN stack : Reversible(stack[j]))'
      BY <1>1, <1>2, <3>2 DEF Inv, StackSound, Reversible, Alone
    <3>5. \A d \in Calls : Editing(d)' => Editing(d) /\ call'[d].n = call[d].n
      BY <1>2, <1>4 DEF Editing, Alone
    <3> QED
      BY <3>1, <3>2, <3>3, <3>4, <3>5 DEF StackSound, Inv, NumbersDiffer
  <2> QED
    BY <2>1, <2>2 DEF Drop
<1>6. OwnContentUnlessCrossed' /\ disk' \in [Files -> Contents \cup {Missing}] /\ disturbed' \in BOOLEAN
      /\ \A ref \in DOMAIN backups' : ref[2] \in 1..clock' /\ backups'[ref] \in Contents
  BY <1>1 DEF Inv, TypeOK, OwnContentUnlessCrossed
<1> QED
  BY <1>1, <1>2, <1>3, <1>4, <1>5, <1>6, StepOfCall

-----------------------------------------------------------------------------
(* The steps of others. *)

LEMMA ActedOn ==
  ASSUME Inv, NEW f \in Files, Act(f), UNCHANGED <<backups, clock, crossed, stack, callVars>>,
         disk' \in [Files -> Contents \cup {Missing}], OwnContentUnlessCrossed',
         \A x \in Files \ {f} : disk'[x] = disk[x]
  PROVE  Inv'
<1>1. Forward /\ raced' \subseteq Files /\ outside' \in 0..MaxOutside /\ disturbed' = TRUE
  BY UndoAssumption DEF Act, Forward, callVars, Inv, TypeOK
<1>2. \A c \in Calls : \A x \in Files : WorksOn(c, x) => Quiet(x)
  BY DEF Act, Quiet
<1>0. ASSUME NEW c \in Calls, Holds(c) PROVE BackupFresh(c)'
  BY <1>0, <1>1, <1>2, HoldsFile, BackupKept DEF NoBackup, Inv, CallsSound, callVars
<1>3. CallsSound'
  BY <1>0, <1>1, <1>2, CallKept DEF Inv, CallsSound, callVars
<1>4. StackSound'
  BY <1>1, StackKept
<1>5. NumbersDiffer'
  BY DEF NumbersDiffer, Inv, callVars, Editing
<1>6. TypeOK'
  BY <1>1 DEF TypeOK, Inv, callVars
<1> QED
  BY <1>3, <1>4, <1>5, <1>6 DEF Inv

LEMMA UserChangesKeeps ==
  ASSUME Inv, NEW e \in Edits, UserChanges(e)
  PROVE  Inv'
<1> DEFINE f == FileOf[e]
<1>1. f \in Files /\ disk[f] \in Contents /\ (f \notin crossed => disk[f].owner = f)
  BY UndoAssumption DEF UserChanges, Inv, TypeOK, OwnContentUnlessCrossed
<1>2. disk' = [disk EXCEPT ![f] = [disk[f] EXCEPT !.text[e] = "user"]]
  BY DEF UserChanges
<1>3. [disk[f] EXCEPT !.text[e] = "user"] \in Contents
      /\ [disk[f] EXCEPT !.text[e] = "user"].owner = disk[f].owner
  BY <1>1 DEF Contents, Texts
<1>4. disk' \in [Files -> Contents \cup {Missing}] /\ OwnContentUnlessCrossed'
      /\ \A x \in Files \ {f} : disk'[x] = disk[x]
  BY <1>1, <1>2, <1>3 DEF UserChanges, Inv, TypeOK, OwnContentUnlessCrossed
<1> QED
  BY <1>1, <1>4, ActedOn DEF UserChanges

LEMMA UserDeletesKeeps ==
  ASSUME Inv, NEW f \in Files, UserDeletes(f)
  PROVE  Inv'
<1>1. disk' \in [Files -> Contents \cup {Missing}] /\ OwnContentUnlessCrossed'
      /\ \A x \in Files \ {f} : disk'[x] = disk[x]
  BY DEF UserDeletes, Inv, TypeOK, OwnContentUnlessCrossed
<1> QED
  BY <1>1, ActedOn DEF UserDeletes

LEMMA SweepBackupKeeps ==
  ASSUME Inv, NEW ref \in DOMAIN backups, SweepBackup(ref)
  PROVE  Inv'
<1>1. /\ UNCHANGED <<disk, clock, crossed, stack, callVars, raced>> /\ disturbed' = TRUE
      /\ outside' \in 0..MaxOutside
      /\ \A r \in DOMAIN backups' : r \in DOMAIN backups /\ backups'[r] = backups[r]
  BY UndoAssumption DEF SweepBackup, Inv, TypeOK
<1>2. Forward /\ \A f \in Files : Quiet(f)
  BY <1>1 DEF Forward, Quiet, callVars, Inv, TypeOK
<1>0. ASSUME NEW c \in Calls, Holds(c) PROVE BackupFresh(c)'
  BY <1>0, <1>1, <1>2, HoldsFile, BackupKept DEF NoBackup, Inv, CallsSound, callVars
<1>3. CallsSound'
  BY <1>0, <1>1, <1>2, CallKept DEF Inv, CallsSound, callVars
<1>4. StackSound'
  BY <1>1, <1>2, StackKept
<1>5. NumbersDiffer'
  BY <1>1 DEF NumbersDiffer, Inv, callVars, Editing
<1>6. TypeOK' /\ OwnContentUnlessCrossed'
  BY <1>1 DEF TypeOK, Inv, OwnContentUnlessCrossed, callVars
<1> QED
  BY <1>3, <1>4, <1>5, <1>6 DEF Inv

LEMMA RestartKeeps ==
  ASSUME Inv, Restart
  PROVE  Inv'
<1>1. /\ UNCHANGED <<disk, backups, clock, crossed, started, raced>> /\ disturbed' = TRUE
      /\ outside' \in 0..MaxOutside /\ stack' = <<>>
      /\ pc' = [c \in Calls |-> "idle"] /\ call' = [c \in Calls |-> NoCall]
  BY UndoAssumption DEF Restart, Inv, TypeOK
<1>2. stack' \in Seq(Changesets) /\ DOMAIN stack' = {}
  BY <1>1
<1>3. StackSound' /\ NumbersDiffer' /\ CallsSound'
  BY <1>1, <1>2 DEF StackSound, NumbersDiffer, CallsSound, CallSound, Editing
<1>4. TypeOK' /\ OwnContentUnlessCrossed'
  BY <1>1, <1>2 DEF TypeOK, Inv, OwnContentUnlessCrossed
<1> QED
  BY <1>3, <1>4 DEF Inv

-----------------------------------------------------------------------------
(* The theorems. *)

LEMMA InitEstablishes == Init => Inv
<1> SUFFICES ASSUME Init PROVE Inv
  OBVIOUS
<1>1. \A f \in Files : AsAudited(f) \in Contents /\ AsAudited(f).owner = f
  BY DEF AsAudited, Contents, Texts
<1>2. stack \in Seq(Changesets) /\ DOMAIN stack = {} /\ DOMAIN backups = {}
  BY DEF Init
<1>3. disk \in [Files -> Contents \cup {Missing}] /\ OwnContentUnlessCrossed
  BY <1>1 DEF Init, OwnContentUnlessCrossed
<1>4. TypeOK
  <2>1. pc \in [Calls -> States] /\ DOMAIN call = Calls /\ \A c \in Calls : call[c] = NoCall
    BY DEF Init, States
  <2>2. started \in 0..MaxCalls /\ outside \in 0..MaxOutside /\ clock \in Nat \ {0}
        /\ raced \subseteq Files /\ crossed \subseteq Files
    BY UndoAssumption DEF Init
  <2>3. /\ \A ref \in DOMAIN backups : ref[2] \in 1..clock /\ backups[ref] \in Contents
        /\ \A i \in DOMAIN stack : stack[i].n \in 1..started /\ stack[i].file = FileOf[stack[i].edit]
        /\ \A i, j \in DOMAIN stack : stack[i].n = stack[j].n => i = j
    BY <1>2
  <2>4. disturbed \in BOOLEAN
    BY DEF Init
  <2> QED
    BY <1>3, <2>1, <2>2, <2>3, <2>4 DEF TypeOK, States
<1>5. StackSound /\ CallsSound /\ NumbersDiffer
  BY <1>2 DEF Init, StackSound, CallsSound, CallSound, NumbersDiffer, Editing
<1> QED
  BY <1>3, <1>4, <1>5 DEF Inv

LEMMA NextPreserves ==
  ASSUME Inv, [Next]_vars
  PROVE  Inv'
<1>1. ASSUME NEW c \in Calls, CallStep(c) PROVE Inv'
  BY <1>1, StartEditKeeps, BackupKeeps, WriteEditKeeps, HashAfterKeeps, RecordKeeps,
     EditFailsKeeps, UndoEditKeeps, UndoLastKeeps, CheckTargetKeeps, LoadBackupKeeps,
     RestoreKeeps, RestoreFailsKeeps, DropKeeps
     DEF CallStep
<1>2. CASE OutsideStep
  BY <1>2, UserChangesKeeps, UserDeletesKeeps, SweepBackupKeeps, RestartKeeps DEF OutsideStep
<1>3. CASE UNCHANGED vars
  <2>1. Forward /\ \A f \in Files : Quiet(f)
    BY <1>3 DEF vars, callVars, Forward, Quiet, Inv, TypeOK
  <2>0. ASSUME NEW c \in Calls, Holds(c) PROVE BackupFresh(c)'
    BY <1>3, <2>0, <2>1, HoldsFile, BackupKept DEF NoBackup, Inv, CallsSound, vars, callVars
  <2>2. CallsSound'
    BY <1>3, <2>0, <2>1, CallKept DEF vars, callVars, Inv, CallsSound
  <2>3. StackSound' /\ NumbersDiffer' /\ TypeOK' /\ OwnContentUnlessCrossed'
    BY <1>3, <2>1, StackKept
       DEF vars, callVars, Inv, NumbersDiffer, Editing, TypeOK, OwnContentUnlessCrossed
  <2> QED
    BY <2>2, <2>3 DEF Inv
<1> QED
  BY <1>1, <1>2, <1>3 DEF Next

LEMMA InvHolds == Spec => []Inv
  BY InitEstablishes, NextPreserves, PTL DEF Spec

\* Every variable keeps its type, and the stack holds each apply once.
\* (recordSessionApply, removeSessionApply)
THEOREM TypeCorrect == Spec => []TypeOK
<1>1. Inv => TypeOK
  BY DEF Inv
<1> QED
  BY InvHolds, <1>1, PTL

\* No undo puts the content of one file into another, unless the other's backup replaced
\* the backup of an edit that was still under way.  (createProseBackup, restoreChangeset)
THEOREM OwnContent == Spec => []OwnContentUnlessCrossed
<1>1. Inv => OwnContentUnlessCrossed
  BY DEF Inv
<1> QED
  BY InvHolds, <1>1, PTL

\* A file that nobody changed while a call worked on it, and whose backups nobody replaced,
\* keeps the user's text under every step of every call.
LEMMA CallsKeepUserText ==
  ASSUME Inv, NEW c \in Calls, CallStep(c), NEW f \in Files, f \notin raced \cup crossed
  PROVE  UserText(disk'[f]) = UserText(disk[f])
<1>1. CASE WriteEdit(c)
  <2>1. /\ call[c] \in Backed /\ Fresh(call[c].read, call[c].file)
        /\ call[c].read.text[call[c].edit] = "before"
        /\ disk' = [disk EXCEPT ![call[c].file] = Edited(call[c].read, call[c].edit)]
    BY <1>1 DEF WriteEdit, Inv, CallsSound, CallSound
  <2>2. UserText(Edited(call[c].read, call[c].edit)) = UserText(call[c].read)
    BY <2>1, EditedContent DEF Backed
  <2> QED
    BY <2>1, <2>2 DEF Fresh, Inv, TypeOK
<1>2. CASE Restore(c)
  <2>1. pc[c] = "restore" /\ disk' = [disk EXCEPT ![Current(c).file] = Current(c).before]
    BY <1>2 DEF Restore
  <2>2. Reversible(Current(c))
    BY <2>1, UndoHolds
  <2>3. Current(c).file = f => UserText(disk[f]) = UserText(Current(c).after)
    BY <2>1 DEF Inv, CallsSound, CallSound
  <2> QED
    BY <2>1, <2>2, <2>3 DEF Reversible, Inv, TypeOK
<1>3. CASE ~WriteEdit(c) /\ ~Restore(c)
  <2>1. disk' = disk
    BY <1>3 DEF CallStep, StartEdit, Begin, Backup, HashAfter, Record, EditFails, UndoEdit,
                UndoLast, CheckTarget, LoadBackup, RestoreFails, Drop
  <2> QED
    BY <2>1
<1> QED
  BY <1>1, <1>2, <1>3

\* What the user wrote is never lost to an edit or an undo, unless it was written while a
\* call was at work on that file, or another's backup took the place of its own.
\* (applyRecommendedEdit's stale-before guard, restoreChangeset's hash guards)
THEOREM UserTextTheorem == Spec => UserTextSurvives
<1> DEFINE Survives == \A f \in Files :
             UserText(disk[f]) \ UserText(disk'[f]) # {} => f \in raced \cup crossed \/ outside' # outside
<1>1. Inv /\ [Next]_vars => [Survives]_vars
  <2> SUFFICES ASSUME Inv, [Next]_vars PROVE [Survives]_vars
    OBVIOUS
  <2>1. ASSUME NEW c \in Calls, CallStep(c) PROVE Survives
    BY <2>1, CallsKeepUserText
  <2>2. CASE OutsideStep
    <3>1. outside' = outside + 1
      BY <2>2 DEF OutsideStep, UserChanges, UserDeletes, Act, SweepBackup, Restart
    <3>2. outside \in Nat
      BY UndoAssumption DEF Inv, TypeOK
    <3> QED
      BY <3>1, <3>2
  <2>3. CASE UNCHANGED vars
    BY <2>3
  <2> QED
    BY <2>1, <2>2, <2>3 DEF Next
<1> QED
  BY InvHolds, <1>1, PTL DEF Spec, UserTextSurvives

-----------------------------------------------------------------------------
(* One call at a time, with nobody else at work.  The stack is then a chain *)
(* of versions of each file, and every file is at the last of its chain.    *)

\* The edits of a file that are on the stack, and those of an entry's file below it.
On(f)      == {e \in Edits : \E j \in DOMAIN stack : stack[j].file = f /\ stack[j].edit = e}
Earlier(i) == {e \in Edits : \E j \in DOMAIN stack :
                 j < i /\ stack[j].file = stack[i].file /\ stack[j].edit = e}

\* The file as the audit saw it, with some edits applied.
Version(f, S) ==
  [owner |-> f, text |-> [e \in Edits |-> IF e \in S THEN "after" ELSE "before"]]

\* Each entry starts from the version the entries below it left.
Chained ==
  /\ \A i, j \in DOMAIN stack : stack[i].edit = stack[j].edit => i = j
  /\ \A i \in DOMAIN stack :
       LET s == stack[i] IN
       /\ s.before = Version(s.file, Earlier(i))
       /\ s.after = Version(s.file, Earlier(i) \cup {s.edit})

\* A call has written the file, and not yet changed the stack.
Ahead(f) ==
  \E c \in Calls : \/ pc[c] \in {"journal", "record"} /\ call[c].file = f
                   \/ pc[c] = "drop" /\ Current(c).file = f

FilesFollow == \A f \in Files : Ahead(f) \/ disk[f] = Version(f, On(f))

\* What a call that nobody disturbs knows of the files and the stack.
CallFollows(c) ==
  /\ pc[c] = "backup" => call[c].read = disk[call[c].file]
  /\ pc[c] \in {"write", "journal", "record"} =>
       /\ call[c].ref \in DOMAIN backups
       /\ backups[call[c].ref] = Version(call[c].file, On(call[c].file))
       /\ call[c].edit \notin On(call[c].file)
  /\ pc[c] = "write" => call[c].read = disk[call[c].file]
  /\ pc[c] \in {"journal", "record"} =>
       disk[call[c].file] = Version(call[c].file, On(call[c].file) \cup {call[c].edit})
  /\ pc[c] = "record" => call[c].after = disk[call[c].file]
  /\ pc[c] \in {"check", "load", "restore", "drop"} =>
       LET todo == call[c].todo IN
       /\ \A k \in DOMAIN todo : \E i \in DOMAIN stack : stack[i] = todo[k]
       /\ \A k, m \in DOMAIN todo : todo[k].n = todo[m].n => k = m
  /\ pc[c] \in {"load", "restore"} => disk[Current(c).file] = Current(c).after
  /\ pc[c] = "drop" =>
       /\ disk[Current(c).file] = Current(c).before
       /\ Current(c).after = Version(Current(c).file, On(Current(c).file))

Following ==
  ~disturbed => /\ \A c, d \in InFlight : c = d
                /\ Chained /\ FilesFollow /\ \A c \in Calls : CallFollows(c)

-----------------------------------------------------------------------------
(* Versions. *)

LEMMA Versions ==
  ASSUME NEW f \in Files, NEW S \in SUBSET Edits
  PROVE  /\ Version(f, S) \in Contents /\ Version(f, S) # Missing
         /\ \A e \in Edits : Version(f, S).text[e] = IF e \in S THEN "after" ELSE "before"
         /\ \A e \in Edits : Edited(Version(f, S), e) = Version(f, S \cup {e})
<1>1. Version(f, S) \in Contents
  BY DEF Version, Contents, Texts
<1>2. \A e \in Edits : Edited(Version(f, S), e) = Version(f, S \cup {e})
  <2> TAKE e \in Edits
  <2>1. [[x \in Edits |-> IF x \in S THEN "after" ELSE "before"] EXCEPT ![e] = "after"]
          = [x \in Edits |-> IF x \in S \cup {e} THEN "after" ELSE "before"]
    OBVIOUS
  <2>2. ASSUME NEW g PROVE Edited([owner |-> f, text |-> g], e)
                             = [owner |-> f, text |-> [g EXCEPT ![e] = "after"]]
    BY DEF Edited
  <2> QED
    BY <2>1, <2>2 DEF Version
<1> QED
  BY <1>1, <1>2, UndoAssumption DEF Version

\* A version tells which edits are in it.
LEMMA VersionTells ==
  ASSUME NEW f \in Files, NEW S \in SUBSET Edits, NEW T \in SUBSET Edits,
         Version(f, S) = Version(f, T)
  PROVE  S = T
<1>1. \A e \in Edits : Version(f, S).text[e] = IF e \in S THEN "after" ELSE "before"
  BY Versions
<1>2. \A e \in Edits : Version(f, T).text[e] = IF e \in T THEN "after" ELSE "before"
  BY Versions
<1>3. \A e \in Edits : e \in S <=> e \in T
  BY <1>1, <1>2
<1> QED
  BY <1>3

LEMMA InitialVersion ==
  ASSUME NEW f \in Files
  PROVE  AsAudited(f) = Version(f, {})
  BY DEF AsAudited, Version

-----------------------------------------------------------------------------
(* What a step leaves as it was. *)

LEMMA StackStill ==
  ASSUME UNCHANGED stack
  PROVE  (\A f \in Files : On(f)' = On(f)) /\ (Chained => Chained')
<1>1. \A f \in Files : On(f)' = On(f)
  BY DEF On
<1>2. \A i : Earlier(i)' = Earlier(i)
  BY DEF Earlier
<1>3. ASSUME Chained PROVE Chained'
  BY <1>2, <1>3 DEF Chained
<1> QED
  BY <1>1, <1>3

LEMMA SameUndo ==
  ASSUME NEW c \in Calls, call'[c] = call[c]
  PROVE  Current(c)' = Current(c)
  BY DEF Current

\* What is to be shown for the step of the one call there is.
LEMMA OneStep ==
  ASSUME Inv, NEW c \in Calls, Alone(c), \A d \in Calls \ {c} : pc[d] = "idle",
         Chained', FilesFollow', CallFollows(c)'
  PROVE  Following'
<1>1. \A d \in Calls \ {c} : pc'[d] = "idle"
  BY DEF Alone
<1>2. \A d \in Calls \ {c} : CallFollows(d)'
  BY <1>1 DEF CallFollows
<1>3. (\A d, g \in InFlight : d = g)'
  BY <1>1 DEF InFlight
<1> QED
  BY <1>2, <1>3 DEF Following

\* The one call there is.
LEMMA TheCall ==
  ASSUME Inv, Following, ~disturbed, NEW c \in Calls, pc[c] # "idle"
  PROVE  /\ \A d \in Calls \ {c} : pc[d] = "idle"
         /\ Chained /\ FilesFollow /\ CallFollows(c)
         /\ \A f \in Files : Ahead(f) => \/ pc[c] \in {"journal", "record"} /\ call[c].file = f
                                         \/ pc[c] = "drop" /\ Current(c).file = f
<1>1. \A d \in Calls \ {c} : pc[d] = "idle"
  BY DEF Following, InFlight
<1> QED
  BY <1>1 DEF Following, Ahead

\* No call: every file is at its version.
LEMMA NoCallAhead ==
  ASSUME Following, ~disturbed, InFlight = {}
  PROVE  /\ Chained /\ \A c \in Calls : pc[c] = "idle"
         /\ \A f \in Files : disk[f] = Version(f, On(f))
<1>1. \A c \in Calls : pc[c] = "idle"
  BY DEF InFlight
<1> QED
  BY <1>1 DEF Following, FilesFollow, Ahead

LEMMA OnFiles ==
  \A f \in Files : On(f) \in SUBSET Edits
  BY DEF On

\* A step that leaves the files and the stack alone, of a call that is not ahead before
\* it or is still ahead after it.
LEMMA FilesStill ==
  ASSUME FilesFollow, UNCHANGED <<disk, stack>>, \A f \in Files : Ahead(f) => Ahead(f)'
  PROVE  FilesFollow'
  BY StackStill DEF FilesFollow

-----------------------------------------------------------------------------
(* The steps of an edit, with nobody else at work. *)

\* A call starts: nothing but its own state changes.
LEMMA BeginFollows ==
  ASSUME Inv, Following, NEW c \in Calls, NEW state \in States, NEW local,
         Begin(c, state, local), ~disturbed', CallFollows(c)'
  PROVE  Following'
<1>1. Alone(c) /\ UNCHANGED <<disk, backups, clock, crossed, stack>> /\ pc[c] = "idle"
  BY BeginAlone DEF Begin, Inv
<1>2. ~disturbed /\ InFlight = {}
  BY DEF Begin
<1>3. /\ Chained /\ \A d \in Calls : pc[d] = "idle"
      /\ \A f \in Files : disk[f] = Version(f, On(f))
  BY <1>2, NoCallAhead
<1>4. Chained' /\ FilesFollow'
  BY <1>1, <1>3, StackStill DEF FilesFollow
<1> QED
  BY <1>1, <1>3, <1>4, OneStep

\* What a call may rely on when it starts.
LEMMA BeginFinds ==
  ASSUME Inv, Following, NEW c \in Calls, NEW state \in States, NEW local,
         Begin(c, state, local), ~disturbed'
  PROVE  /\ pc'[c] = state /\ call'[c] = local
         /\ UNCHANGED <<disk, backups, clock, crossed, stack>>
  BY BeginAlone DEF Inv

LEMMA StartEditFollows ==
  ASSUME Inv, Following, NEW c \in Calls, NEW e \in Edits, StartEdit(c, e), ~disturbed'
  PROVE  Following'
<1> DEFINE local == [edit |-> e, n |-> started + 1, file |-> FileOf[e],
                     read |-> disk[FileOf[e]], since |-> clock]
<1>1. Begin(c, "backup", local)
  BY DEF StartEdit
<1>2. pc'[c] = "backup" /\ call'[c] = local /\ UNCHANGED disk
  BY <1>1, BeginFinds DEF States
<1>3. CallFollows(c)'
  BY <1>2 DEF CallFollows
<1> HIDE DEF local
<1> QED
  BY <1>1, <1>3, BeginFollows DEF States

\* A call goes on and leaves files and stack alone.
LEMMA GoesOn ==
  ASSUME Inv, Following, ~disturbed, NEW c \in Calls, pc[c] # "idle", Alone(c),
         UNCHANGED <<disk, stack>>, CallFollows(c)',
         \/ pc[c] \notin {"journal", "record", "drop"}
         \/ pc[c] = "journal" /\ pc'[c] = "record" /\ call'[c].file = call[c].file
  PROVE  Following'
<1>1. /\ \A d \in Calls \ {c} : pc[d] = "idle"
      /\ Chained /\ FilesFollow
      /\ \A f \in Files : Ahead(f) => \/ pc[c] \in {"journal", "record"} /\ call[c].file = f
                                      \/ pc[c] = "drop" /\ Current(c).file = f
  BY TheCall
<1>2. \A f \in Files : Ahead(f) => Ahead(f)'
  BY <1>1 DEF Ahead
<1>3. Chained' /\ FilesFollow'
  BY <1>1, <1>2, StackStill, FilesStill
<1> QED
  BY <1>1, <1>3, OneStep

\* It returns.
LEMMA ReturnFollows ==
  ASSUME Inv, Following, ~disturbed, NEW c \in Calls, Return(c), UNCHANGED <<disk, stack>>,
         pc[c] \notin {"idle", "journal", "record", "drop"}
  PROVE  Following'
<1>1. Alone(c) /\ pc'[c] = "idle"
  BY GotoAlone DEF Return, Inv, States
<1>2. CallFollows(c)'
  BY <1>1 DEF CallFollows
<1> QED
  BY <1>1, <1>2, GoesOn

LEMMA BackupFollows ==
  ASSUME Inv, Following, NEW c \in Calls, Backup(c), ~disturbed'
  PROVE  Following'
<1> DEFINE f == call[c].file
<1>0. PICK now \in call[c].since .. clock + 1 :
        LET ref == <<BaseName[f], now>> IN
        /\ disk[f] # Missing /\ UNCHANGED disturbed
        /\ backups' = [r \in DOMAIN backups \cup {ref} |-> IF r = ref THEN disk[f] ELSE backups[r]]
        /\ Goto(c, "write", [edit |-> call[c].edit, n |-> call[c].n, file |-> f,
                             read |-> call[c].read, ref |-> ref])
  BY DEF Backup
<1> DEFINE ref == <<BaseName[f], now>>
           local == [edit |-> call[c].edit, n |-> call[c].n, file |-> f,
                     read |-> call[c].read, ref |-> ref]
<1>1. pc[c] = "backup" /\ UNCHANGED <<disk, stack>>
      /\ disk[f] # Missing /\ ~disturbed
      /\ backups' = [r \in DOMAIN backups \cup {ref} |-> IF r = ref THEN disk[f] ELSE backups[r]]
      /\ Goto(c, "write", local)
  BY <1>0 DEF Backup
<1>2. Alone(c) /\ pc'[c] = "write" /\ call'[c] = local
  BY <1>1, GotoAlone DEF Inv, States
<1>3. f \in Files /\ call[c].edit \in Edits /\ call[c].read.text[call[c].edit] = "before"
  BY <1>1 DEF Inv, CallsSound, CallSound, Planned
<1>4. FilesFollow /\ CallFollows(c) /\ ~Ahead(f)
  BY <1>1, <1>3, TheCall
<1>5. disk[f] = Version(f, On(f)) /\ call[c].read = disk[f]
  BY <1>1, <1>3, <1>4 DEF FilesFollow, CallFollows
<1>6. call[c].edit \notin On(f)
  <2>1. Version(f, On(f)).text[call[c].edit]
          = IF call[c].edit \in On(f) THEN "after" ELSE "before"
    BY <1>3, OnFiles, Versions
  <2> QED
    BY <1>3, <1>5, <2>1
<1>7. \A x \in Files : On(x)' = On(x)
  BY <1>1, StackStill
<1>8. ref \in DOMAIN backups' /\ backups'[ref] = disk[f]
  BY <1>1
<1>9. CallFollows(c)'
  BY <1>1, <1>2, <1>3, <1>5, <1>6, <1>7, <1>8 DEF CallFollows
<1> QED
  BY <1>1, <1>2, <1>9, GoesOn

LEMMA WriteEditFollows ==
  ASSUME Inv, Following, NEW c \in Calls, WriteEdit(c), ~disturbed'
  PROVE  Following'
<1> DEFINE f == call[c].file
           e == call[c].edit
<1>1. pc[c] = "write" /\ disk' = [disk EXCEPT ![f] = Edited(call[c].read, e)]
      /\ UNCHANGED <<backups, stack>> /\ ~disturbed
      /\ Alone(c) /\ pc'[c] = "journal" /\ call'[c] = call[c]
  BY GotoAlone DEF WriteEdit, Inv, States
<1>2. f \in Files /\ e \in Edits
  BY <1>1 DEF Inv, CallsSound, CallSound, Backed
<1>3. /\ \A d \in Calls \ {c} : pc[d] = "idle"
      /\ Chained /\ FilesFollow /\ CallFollows(c) /\ \A x \in Files : ~Ahead(x)
  BY <1>1, TheCall
<1>4. disk[f] = Version(f, On(f)) /\ call[c].read = disk[f]
  BY <1>1, <1>2, <1>3 DEF FilesFollow, CallFollows
<1>5. disk'[f] = Version(f, On(f) \cup {e})
  BY <1>1, <1>2, <1>4, OnFiles, Versions DEF Inv, TypeOK
<1>6. \A x \in Files : On(x)' = On(x)
  BY <1>1, StackStill
<1>7. Chained'
  BY <1>1, <1>3, StackStill
<1>8. FilesFollow'
  <2>1. \A x \in Files : x = f => Ahead(x)'
    BY <1>1 DEF Ahead
  <2>2. \A x \in Files : x # f => disk'[x] = disk[x]
    BY <1>1 DEF Inv, TypeOK
  <2> QED
    BY <1>3, <1>6, <2>1, <2>2 DEF FilesFollow
<1>9. CallFollows(c)'
  BY <1>1, <1>2, <1>3, <1>5, <1>6 DEF CallFollows
<1> QED
  BY <1>1, <1>3, <1>7, <1>8, <1>9, OneStep

LEMMA HashAfterFollows ==
  ASSUME Inv, Following, NEW c \in Calls, HashAfter(c), ~disturbed'
  PROVE  Following'
<1> DEFINE f == call[c].file
           local == [edit |-> call[c].edit, n |-> call[c].n, file |-> f,
                     ref |-> call[c].ref, after |-> disk[f]]
<1>1. pc[c] = "journal" /\ UNCHANGED <<disk, backups, stack>> /\ ~disturbed
      /\ Alone(c) /\ pc'[c] = "record" /\ call'[c] = local
  BY GotoAlone DEF HashAfter, Inv, States
<1>2. f \in Files
  BY <1>1 DEF Inv, CallsSound, CallSound, Backed
<1>3. CallFollows(c) /\ On(f)' = On(f)
  BY <1>1, <1>2, TheCall, StackStill
<1>4. CallFollows(c)'
  BY <1>1, <1>3 DEF CallFollows
<1> QED
  BY <1>1, <1>4, GoesOn

LEMMA EntryTypes ==
  ASSUME Inv, NEW i \in DOMAIN stack
  PROVE  /\ stack[i] \in Changesets /\ stack[i].file \in Files /\ stack[i].edit \in Edits
         /\ stack[i].file = FileOf[stack[i].edit] /\ Earlier(i) \in SUBSET Edits
  BY DEF Inv, StackSound, Reversible, Changesets, Earlier

\* The entry an apply pushes carries on the chain of its file.
LEMMA RecordFollows ==
  ASSUME Inv, Following, NEW c \in Calls, Record(c), ~disturbed'
  PROVE  Following'
<1> DEFINE entry == Changeset(c)
           last == Len(stack) + 1
<1>1. pc[c] = "record" /\ UNCHANGED <<disk, backups>> /\ ~disturbed
      /\ stack' = Append(stack, entry)
      /\ Alone(c) /\ pc'[c] = "idle"
  BY GotoAlone DEF Record, Return, Inv, States
<1>2. call[c].file \in Files /\ call[c].edit \in Edits
  BY <1>1 DEF Inv, CallsSound, CallSound, Hashed
<1>3. /\ \A d \in Calls \ {c} : pc[d] = "idle"
      /\ Chained /\ FilesFollow /\ CallFollows(c)
      /\ \A x \in Files : Ahead(x) => call[c].file = x
  BY <1>1, TheCall
<1> DEFINE f == entry.file
           e == entry.edit
<1>4. /\ f = call[c].file /\ e = call[c].edit /\ f \in Files /\ e \in Edits
      /\ entry.before = Version(f, On(f)) /\ e \notin On(f)
      /\ disk[f] = Version(f, On(f) \cup {e}) /\ entry.after = disk[f]
  BY <1>1, <1>2, <1>3 DEF CallFollows, Changeset
<1> HIDE DEF entry
<1>5. /\ Len(stack) \in Nat /\ DOMAIN stack = 1..Len(stack)
      /\ DOMAIN stack' = 1..last /\ last \notin DOMAIN stack
      /\ \A i \in DOMAIN stack : i < last /\ stack'[i] = stack[i]
      /\ stack'[last] = entry
  BY <1>1, LenProperties DEF Inv, StackSound
<1>6. DOMAIN stack' = DOMAIN stack \cup {last}
  BY <1>5
<1>7. \A i \in DOMAIN stack : Earlier(i)' = Earlier(i)
  BY <1>5, <1>6 DEF Earlier
<1>8. \A x \in Files : On(x)' = IF x = f THEN On(x) \cup {e} ELSE On(x)
  BY <1>4, <1>5, <1>6 DEF On
<1>9. \A i \in DOMAIN stack' : i = last => Earlier(i)' = On(f)
  BY <1>5, <1>6 DEF Earlier, On
<1>10. \A i \in DOMAIN stack : stack[i].edit # e
  <2>1. \A i \in DOMAIN stack : stack[i].edit = e => stack[i].file = f
    BY <1>1, <1>4, EntryTypes DEF Inv, CallsSound, CallSound, Editing
  <2> QED
    BY <1>4, <2>1 DEF On
<1> HIDE DEF last, f, e
<1>11. Chained'
  <2>1. \A i, j \in DOMAIN stack' : stack'[i].edit = stack'[j].edit => i = j
    BY <1>3, <1>5, <1>6, <1>10 DEF Chained, e
  <2>2. ASSUME NEW i \in DOMAIN stack'
        PROVE  /\ stack'[i].before = Version(stack'[i].file, Earlier(i)')
               /\ stack'[i].after = Version(stack'[i].file, Earlier(i)' \cup {stack'[i].edit})
    <3>1. CASE i \in DOMAIN stack
      BY <1>3, <1>5, <1>7, <3>1 DEF Chained
    <3>2. CASE i = last
      BY <1>4, <1>5, <1>9, <3>2 DEF f, e
    <3> QED
      BY <1>6, <3>1, <3>2
  <2> QED
    BY <2>1, <2>2 DEF Chained, Version
<1>12. FilesFollow'
  <2>1. \A x \in Files : disk[x] = Version(x, On(x)')
    BY <1>3, <1>4, <1>8 DEF FilesFollow
  <2> QED
    BY <1>1, <2>1 DEF FilesFollow, Version
<1>13. CallFollows(c)'
  BY <1>1 DEF CallFollows
<1> QED
  BY <1>1, <1>3, <1>11, <1>12, <1>13, OneStep

-----------------------------------------------------------------------------
(* The steps of an undo, with nobody else at work. *)

\* An undo that starts, or goes on to the next: its list is on the stack.
Listed(todo) ==
  /\ \A k \in DOMAIN todo : \E i \in DOMAIN stack : stack[i] = todo[k]
  /\ \A k, m \in DOMAIN todo : todo[k].n = todo[m].n => k = m

LEMMA UndoBegins ==
  ASSUME Inv, Following, NEW c \in Calls, NEW todo, Begin(c, "check", [todo |-> todo]),
         ~disturbed', Listed(todo)
  PROVE  Following'
<1>1. pc'[c] = "check" /\ call'[c] = [todo |-> todo] /\ UNCHANGED stack
  BY BeginFinds DEF States
<1>2. call'[c].todo = todo
  BY <1>1
<1>3. CallFollows(c)'
  BY <1>1, <1>2 DEF CallFollows, Listed
<1> QED
  BY <1>3, BeginFollows DEF States

LEMMA UndoEditFollows ==
  ASSUME Inv, Following, NEW c \in Calls, NEW e \in Edits, UndoEdit(c, e), ~disturbed'
  PROVE  Following'
<1>1. PICK i \in LastOf(e) : Begin(c, "check", [todo |-> <<stack[i]>>])
  BY DEF UndoEdit
<1>2. i \in DOMAIN stack
  BY DEF LastOf
<1>3. Listed(<<stack[i]>>)
  BY <1>2 DEF Listed
<1> QED
  BY <1>1, <1>3, UndoBegins

LEMMA UndoLastFollows ==
  ASSUME Inv, Following, NEW c \in Calls, NEW count \in 1..MaxCalls, UndoLast(c, count),
         ~disturbed'
  PROVE  Following'
<1> DEFINE m == IF count < Len(stack) THEN count ELSE Len(stack)
           todo == [i \in 1..m |-> Reverse(stack)[i]]
<1>1. Begin(c, "check", [todo |-> todo])
  BY DEF UndoLast
<1>2. stack \in Seq(Changesets) /\ Len(stack) \in Nat /\ DOMAIN stack = 1..Len(stack)
  BY LenProperties DEF Inv, StackSound
<1>3. \A i \in 1..m : i \in 1..Len(stack)
  BY <1>2, UndoAssumption
<1>4. DOMAIN todo = 1..m
      /\ \A i \in 1..m : (Len(stack) - i) + 1 \in DOMAIN stack
                         /\ todo[i] = stack[(Len(stack) - i) + 1]
  BY <1>2, <1>3, Reversed
<1> HIDE DEF todo, m
<1>5. ASSUME NEW k \in DOMAIN todo, NEW j \in DOMAIN todo, todo[k].n = todo[j].n
      PROVE  k = j
  <2>1. (Len(stack) - k) + 1 = (Len(stack) - j) + 1
    BY <1>4, <1>5 DEF Inv, NumbersDiffer
  <2> QED
    BY <1>2, <1>3, <1>4, <2>1
<1>6. Listed(todo)
  BY <1>4, <1>5 DEF Listed
<1> QED
  BY <1>1, <1>6, UndoBegins

LEMMA CheckTargetFollows ==
  ASSUME Inv, Following, NEW c \in Calls, CheckTarget(c), ~disturbed'
  PROVE  Following'
<1>1. pc[c] = "check" /\ UNCHANGED <<disk, stack>> /\ ~disturbed
  BY DEF CheckTarget
<1>2. CASE UnchangedSince(Current(c))
  <2>1. Alone(c) /\ pc'[c] = "load" /\ call'[c] = call[c] /\ Current(c)' = Current(c)
    BY <1>2, GotoAlone, SameUndo DEF CheckTarget, Inv, States
  <2>2. CallFollows(c) /\ disk[Current(c).file] = Current(c).after
    BY <1>1, <1>2, TheCall DEF UnchangedSince
  <2>3. CallFollows(c)'
    BY <1>1, <2>1, <2>2 DEF CallFollows
  <2> QED
    BY <1>1, <2>1, <2>3, GoesOn
<1>3. CASE ~UnchangedSince(Current(c))
  BY <1>1, <1>3, ReturnFollows DEF CheckTarget
<1> QED
  BY <1>2, <1>3

LEMMA LoadBackupFollows ==
  ASSUME Inv, Following, NEW c \in Calls, LoadBackup(c), ~disturbed'
  PROVE  Following'
<1>1. pc[c] = "load" /\ UNCHANGED <<disk, stack>> /\ ~disturbed
      /\ (Return(c) \/ Goto(c, "restore", call[c]))
  BY DEF LoadBackup
<1>2. CASE Goto(c, "restore", call[c])
  <2>1. Alone(c) /\ pc'[c] = "restore" /\ call'[c] = call[c] /\ Current(c)' = Current(c)
    BY <1>2, GotoAlone, SameUndo DEF Inv, States
  <2>2. CallFollows(c)
    BY <1>1, TheCall
  <2>3. CallFollows(c)'
    BY <1>1, <2>1, <2>2 DEF CallFollows
  <2> QED
    BY <1>1, <2>1, <2>3, GoesOn
<1> QED
  BY <1>1, <1>2, ReturnFollows

LEMMA RestoreFollows ==
  ASSUME Inv, Following, NEW c \in Calls, Restore(c), ~disturbed'
  PROVE  Following'
<1> DEFINE s == Current(c)
<1>1. pc[c] = "restore" /\ disk' = [disk EXCEPT ![s.file] = s.before]
      /\ UNCHANGED stack /\ ~disturbed
      /\ Alone(c) /\ pc'[c] = "drop" /\ call'[c] = call[c]
  BY GotoAlone DEF Restore, Inv, States
<1>2. Current(c)' = s
  BY <1>1, SameUndo
<1> HIDE DEF s
<1>3. s.file \in Files
  BY <1>1, UndoHolds DEF s, Changesets
<1>4. /\ \A d \in Calls \ {c} : pc[d] = "idle"
      /\ Chained /\ FilesFollow /\ CallFollows(c) /\ \A x \in Files : ~Ahead(x)
  BY <1>1, TheCall
<1>5. s.after = Version(s.file, On(s.file))
  BY <1>1, <1>3, <1>4 DEF FilesFollow, CallFollows, s
<1>6. Chained' /\ \A x \in Files : On(x)' = On(x)
  BY <1>1, <1>4, StackStill
<1>7. /\ disk'[s.file] = s.before
      /\ \A x \in Files : x # s.file => disk'[x] = disk[x]
  BY <1>1, <1>3, <1>6 DEF Inv, TypeOK
<1>8. CallFollows(c)'
  <2>1. /\ call'[c].todo = call[c].todo
        /\ \A k \in DOMAIN call[c].todo : \E i \in DOMAIN stack : stack[i] = call[c].todo[k]
        /\ \A k, m \in DOMAIN call[c].todo : call[c].todo[k].n = call[c].todo[m].n => k = m
    BY <1>1, <1>4 DEF CallFollows
  <2>2. (disk[Current(c).file] = Current(c).before
         /\ Current(c).after = Version(Current(c).file, On(Current(c).file)))'
    BY <1>2, <1>3, <1>5, <1>6, <1>7 DEF Version
  <2> QED
    BY <1>1, <2>1, <2>2 DEF CallFollows
<1>9. FilesFollow'
  <2>1. \A x \in Files : x = s.file => Ahead(x)'
    BY <1>1, <1>2 DEF Ahead
  <2> QED
    BY <1>4, <1>6, <1>7, <2>1 DEF FilesFollow, Version
<1> QED
  BY <1>1, <1>4, <1>6, <1>8, <1>9, OneStep

LEMMA RestoreFailsFollows ==
  ASSUME Inv, Following, NEW c \in Calls, RestoreFails(c), ~disturbed'
  PROVE  Following'
  BY ReturnFollows DEF RestoreFails

\* The entry that leaves the stack is the last of its file, so what is left is a chain.
LEMMA LastLeaves ==
  ASSUME Inv, Chained, NEW i \in DOMAIN stack,
         stack[i].after = Version(stack[i].file, On(stack[i].file)),
         stack' = RemoveAt(stack, i)
  PROVE  /\ Chained'
         /\ \A f \in Files : On(f)' = On(f) \ {stack[i].edit}
         /\ stack[i].before = Version(stack[i].file, On(stack[i].file) \ {stack[i].edit})
         /\ \A j \in DOMAIN stack \ {i} : \E k \in DOMAIN stack' : stack'[k] = stack[j]
<1> DEFINE f == stack[i].file
           e == stack[i].edit
           old(k) == IF k < i THEN k ELSE k + 1
<1>1. /\ Len(stack) \in Nat /\ DOMAIN stack = 1..Len(stack)
      /\ DOMAIN stack' = 1..(Len(stack) - 1)
      /\ \A k \in DOMAIN stack' : stack'[k] = stack[old(k)]
  <2>1. stack \in Seq(Changesets)
    BY DEF Inv, StackSound
  <2>2. /\ DOMAIN stack' = 1..(Len(stack) - 1)
        /\ \A j \in DOMAIN stack' : stack'[j] = IF j < i THEN stack[j] ELSE stack[j + 1]
    BY <2>1, Removed
  <2> QED
    BY <2>1, <2>2, LenProperties
<1>2. \A k \in DOMAIN stack' : old(k) \in DOMAIN stack \ {i}
  BY <1>1
<1>3. \A j \in DOMAIN stack \ {i} : \E k \in DOMAIN stack' : old(k) = j
  <2> TAKE j \in DOMAIN stack \ {i}
  <2>1. CASE j < i
    BY <1>1, <2>1
  <2>2. CASE j > i
    <3>1. j - 1 \in DOMAIN stack' /\ old(j - 1) = j
      BY <1>1, <2>2
    <3> QED
      BY <3>1
  <2> QED
    BY <1>1, <2>1, <2>2
<1>4. \A k, m \in DOMAIN stack' : k < m <=> old(k) < old(m)
  BY <1>1
<1>5. f \in Files /\ e \in Edits /\ Earlier(i) \in SUBSET Edits
  BY EntryTypes
<1>6. On(f) = Earlier(i) \cup {e} /\ e \notin Earlier(i)
  <2>1. Version(f, Earlier(i) \cup {e}) = Version(f, On(f))
    BY DEF Chained
  <2>2. On(f) = Earlier(i) \cup {e}
    BY <1>5, <2>1, OnFiles, VersionTells
  <2>3. e \notin Earlier(i)
    BY <1>1 DEF Earlier, Chained
  <2> QED
    BY <2>2, <2>3
<1>7. stack[i].before = Version(f, On(f) \ {e})
  <2>1. On(f) \ {e} = Earlier(i)
    BY <1>6
  <2> QED
    BY <2>1 DEF Chained
\* No later entry is of the same file.
<1>8. \A j \in DOMAIN stack : i < j => stack[j].file # f
  <2> SUFFICES ASSUME NEW j \in DOMAIN stack, i < j, stack[j].file = f PROVE FALSE
    OBVIOUS
  <2>1. stack[j].edit \in On(f)
    BY EntryTypes DEF On
  <2>2. stack[j].edit # e
    BY <1>1 DEF Chained
  <2>3. PICK m \in DOMAIN stack : m < i /\ stack[m].edit = stack[j].edit
    BY <1>6, <2>1, <2>2 DEF Earlier
  <2>4. m = j
    BY <2>3 DEF Chained
  <2> QED
    BY <1>1, <2>3, <2>4
<1> HIDE DEF old, f, e
<1>9. \A x \in Files : On(x)' = On(x) \ {e}
  <2> TAKE x \in Files
  <2>1. ASSUME NEW a \in On(x)' PROVE a \in On(x) \ {e}
    <3>1. PICK k \in DOMAIN stack' : stack'[k].file = x /\ stack'[k].edit = a
      BY <2>1 DEF On
    <3>2. stack[old(k)].file = x /\ stack[old(k)].edit = a /\ old(k) \in DOMAIN stack \ {i}
      BY <1>1, <1>2, <3>1
    <3> QED
      BY <2>1, <3>2 DEF On, Chained, e
  <2>2. ASSUME NEW a \in On(x) \ {e} PROVE a \in On(x)'
    <3>1. PICK j \in DOMAIN stack : stack[j].file = x /\ stack[j].edit = a
      BY <2>2 DEF On
    <3>2. j # i
      BY <2>2, <3>1 DEF e
    <3>3. PICK k \in DOMAIN stack' : old(k) = j
      BY <1>3, <3>2
    <3>4. stack'[k].file = x /\ stack'[k].edit = a
      BY <1>1, <3>1, <3>3
    <3> QED
      BY <2>2, <3>4 DEF On
  <2> QED
    BY <2>1, <2>2
<1>10. ASSUME NEW k \in DOMAIN stack' PROVE Earlier(k)' = Earlier(old(k))
  <2>1. stack'[k].file = stack[old(k)].file /\ old(k) \in DOMAIN stack
    BY <1>1, <1>2
  <2>2. ASSUME NEW a \in Edits, NEW j \in DOMAIN stack',
               j < k, stack'[j].file = stack'[k].file, stack'[j].edit = a
        PROVE  a \in Earlier(old(k))
    <3>1. old(j) \in DOMAIN stack /\ old(j) < old(k) /\ stack[old(j)] = stack'[j]
      BY <1>1, <1>2, <1>4, <2>2
    <3> QED
      BY <2>1, <2>2, <3>1 DEF Earlier
  <2>3. ASSUME NEW a \in Earlier(old(k)) PROVE a \in Earlier(k)'
    <3>1. PICK j \in DOMAIN stack : j < old(k) /\ stack[j].file = stack[old(k)].file
                                    /\ stack[j].edit = a
      BY <2>3 DEF Earlier
    <3>2. j # i
      BY <1>8, <2>1, <3>1 DEF f
    <3>3. PICK m \in DOMAIN stack' : old(m) = j
      BY <1>3, <3>2
    <3>4. m < k /\ stack'[m] = stack[j]
      BY <1>1, <1>4, <3>1, <3>3
    <3>5. a \in Edits /\ stack'[m].file = stack'[k].file /\ stack'[m].edit = a
      BY <2>1, <2>3, <3>1, <3>4 DEF Earlier
    <3> QED
      BY <3>4, <3>5 DEF Earlier
  <2>4. \A a \in Earlier(k)' : a \in Earlier(old(k))
    BY <2>2 DEF Earlier
  <2> QED
    BY <2>3, <2>4
<1>11. Chained'
  <2>1. \A k, m \in DOMAIN stack' : stack'[k].edit = stack'[m].edit => k = m
    <3> TAKE k, m \in DOMAIN stack'
    <3> HAVE stack'[k].edit = stack'[m].edit
    <3>1. old(k) = old(m)
      BY <1>1, <1>2 DEF Chained
    <3>2. ~(k < m) /\ ~(m < k)
      BY <1>1, <1>2, <1>4, <3>1
    <3> QED
      BY <1>1, <3>2
  <2>2. ASSUME NEW k \in DOMAIN stack'
        PROVE  /\ stack'[k].before = Version(stack'[k].file, Earlier(k)')
               /\ stack'[k].after = Version(stack'[k].file, Earlier(k)' \cup {stack'[k].edit})
    BY <1>1, <1>2, <1>10 DEF Chained
  <2> QED
    BY <2>1, <2>2 DEF Chained, Version
<1>12. \A j \in DOMAIN stack \ {i} : \E k \in DOMAIN stack' : stack'[k] = stack[j]
  BY <1>1, <1>3
<1> QED
  BY <1>7, <1>9, <1>11, <1>12 DEF f, e

LEMMA DropFollows ==
  ASSUME Inv, Following, NEW c \in Calls, Drop(c), ~disturbed'
  PROVE  Following'
<1> DEFINE s == Current(c)
           todo == call[c].todo
<1>1. pc[c] = "drop" /\ UNCHANGED disk /\ ~disturbed
  BY DEF Drop
<1>2. /\ Alone(c)
      /\ \/ pc'[c] = "idle" /\ call'[c] = NoCall
         \/ pc'[c] = "check" /\ call'[c] = [todo |-> Tail(todo)]
  <2>1. CASE Tail(call[c].todo) = <<>>
    BY <2>1, GotoAlone DEF Drop, Return, Inv, States
  <2>2. CASE Tail(call[c].todo) # <<>>
    BY <2>2, GotoAlone DEF Drop, Inv, States
  <2> QED
    BY <2>1, <2>2
<1>3. /\ \A d \in Calls \ {c} : pc[d] = "idle"
      /\ Chained /\ FilesFollow /\ CallFollows(c) /\ \A x \in Files : Ahead(x) => s.file = x
  BY <1>1, TheCall
<1>4. /\ Listed(todo)
      /\ disk[s.file] = s.before /\ s.after = Version(s.file, On(s.file))
  BY <1>1, <1>3 DEF CallFollows, Listed
<1>5. /\ todo \in Seq(Changesets) /\ todo # <<>> /\ s = todo[1] /\ 1 \in DOMAIN todo
  <2>1. todo \in Seq(Changesets) /\ todo # <<>>
    BY <1>1, UndoHolds
  <2> QED
    BY <2>1, HeadAndTail DEF Current
<1> HIDE DEF s, todo
<1>6. PICK i \in DOMAIN stack : stack[i] = s
  BY <1>4, <1>5 DEF Listed
<1>7. stack' = RemoveAt(stack, i)
  BY <1>6 DEF Drop, Inv, NumbersDiffer, s
<1>8. /\ Chained'
      /\ \A f \in Files : On(f)' = On(f) \ {s.edit}
      /\ s.before = Version(s.file, On(s.file) \ {s.edit})
      /\ \A j \in DOMAIN stack \ {i} : \E k \in DOMAIN stack' : stack'[k] = stack[j]
  <2>1. stack[i].after = Version(stack[i].file, On(stack[i].file))
    BY <1>4, <1>6
  <2> QED
    BY <1>3, <1>6, <1>7, <2>1, LastLeaves
<1>9. \A x \in Files : x # s.file => s.edit \notin On(x)
  BY <1>6, EntryTypes DEF On
<1>10. FilesFollow'
  <2>1. \A x \in Files : disk[x] = Version(x, On(x)')
    <3> TAKE x \in Files
    <3>1. CASE x = s.file
      BY <1>4, <1>8, <3>1
    <3>2. CASE x # s.file
      <4>1. On(x)' = On(x)
        BY <1>8, <1>9, <3>2
      <4>2. disk[x] = Version(x, On(x))
        BY <1>3, <3>2 DEF FilesFollow
      <4> QED
        BY <4>1, <4>2
    <3> QED
      BY <3>1, <3>2
  <2> QED
    BY <1>1, <2>1 DEF FilesFollow, Version
<1>11. CallFollows(c)'
  <2>1. CASE pc'[c] = "idle"
    BY <2>1 DEF CallFollows
  <2>2. CASE pc'[c] = "check" /\ call'[c] = [todo |-> Tail(todo)]
    <3>1. Len(todo) \in Nat /\ Len(todo) # 0 /\ DOMAIN todo = 1..Len(todo)
      BY <1>5, EmptySeq, LenProperties
    <3>2. Tail(todo) \in Seq(Changesets) /\ Len(Tail(todo)) = Len(todo) - 1
          /\ \A k \in 1 .. Len(Tail(todo)) : Tail(todo)[k] = todo[k+1]
      BY <1>5, HeadTailProperties
    <3>3. DOMAIN Tail(todo) = 1..(Len(todo) - 1)
      BY <3>2, LenProperties
    <3>4. \A k \in DOMAIN Tail(todo) : k + 1 \in DOMAIN todo /\ k + 1 # 1
                                       /\ Tail(todo)[k] = todo[k + 1]
      BY <3>1, <3>2, <3>3
    <3>5. ASSUME NEW k \in DOMAIN Tail(todo)
          PROVE  \E j \in DOMAIN stack' : stack'[j] = Tail(todo)[k]
      <4>1. PICK m \in DOMAIN stack : stack[m] = Tail(todo)[k]
        BY <1>4, <3>4 DEF Listed
      <4>2. Tail(todo)[k].n # s.n
        BY <1>4, <1>5, <3>4 DEF Listed
      <4>3. m # i
        BY <1>6, <4>1, <4>2
      <4> QED
        BY <1>8, <4>1, <4>3
    <3>6. \A k, m \in DOMAIN Tail(todo) : Tail(todo)[k].n = Tail(todo)[m].n => k = m
      <4> TAKE k, m \in DOMAIN Tail(todo)
      <4> HAVE Tail(todo)[k].n = Tail(todo)[m].n
      <4>1. k + 1 = m + 1
        BY <1>4, <3>4 DEF Listed
      <4> QED
        BY <3>3, <4>1
    <3>7. call'[c].todo = Tail(todo)
      BY <2>2
    <3> QED
      BY <2>2, <3>5, <3>6, <3>7 DEF CallFollows
  <2> QED
    BY <1>2, <2>1, <2>2
<1> QED
  BY <1>2, <1>3, <1>8, <1>10, <1>11, OneStep

-----------------------------------------------------------------------------

LEMMA StartsFollowing == Init => Following
<1> SUFFICES ASSUME Init PROVE Following
  OBVIOUS
<1>1. DOMAIN stack = {} /\ \A c \in Calls : pc[c] = "idle"
  BY DEF Init
<1>2. \A f \in Files : On(f) = {}
  BY <1>1 DEF On
<1>3. FilesFollow
  BY <1>2, InitialVersion DEF FilesFollow, Init
<1>4. Chained /\ (\A c \in Calls : CallFollows(c)) /\ InFlight = {}
  BY <1>1 DEF Chained, CallFollows, InFlight
<1> QED
  BY <1>3, <1>4 DEF Following

LEMMA NextFollows ==
  ASSUME Inv, Following, [Next]_vars
  PROVE  Following'
<1> SUFFICES ASSUME ~disturbed' PROVE Following'
  BY DEF Following
<1>1. ASSUME NEW c \in Calls, CallStep(c) PROVE Following'
  <2>1. ~EditFails(c)
    BY DEF EditFails
  <2> QED
    BY <1>1, <2>1, StartEditFollows, BackupFollows, WriteEditFollows, HashAfterFollows,
       RecordFollows, UndoEditFollows, UndoLastFollows, CheckTargetFollows,
       LoadBackupFollows, RestoreFollows, RestoreFailsFollows, DropFollows
       DEF CallStep
<1>2. ~OutsideStep
  BY DEF OutsideStep, UserChanges, UserDeletes, Act, SweepBackup, Restart
<1>3. CASE UNCHANGED vars
  <2>1. UNCHANGED <<disk, backups, stack, pc, call, disturbed>>
    BY <1>3 DEF vars, callVars
  <2>2. (\A f \in Files : On(f)' = On(f)) /\ (Chained => Chained')
        /\ (\A f \in Files : Ahead(f)' = Ahead(f)) /\ InFlight' = InFlight
    BY <2>1, StackStill DEF Ahead, Current, InFlight
  <2>3. FilesFollow => FilesFollow'
    BY <2>1, <2>2 DEF FilesFollow
  <2>4. ASSUME NEW c \in Calls, CallFollows(c) PROVE CallFollows(c)'
    <3>1. On(call[c].file)' = On(call[c].file) /\ On(Current(c).file)' = On(Current(c).file)
          /\ Current(c)' = Current(c)
      BY <2>1 DEF On, Current
    <3> QED
      BY <2>1, <2>4, <3>1 DEF CallFollows, Version
  <2> QED
    BY <2>1, <2>2, <2>3, <2>4 DEF Following
<1> QED
  BY <1>1, <1>2, <1>3 DEF Next

\* One call at a time, with nobody else at work, exactly the edits on the stack are in the
\* files, however many edits and undos there were: undoing them all gives back what the
\* audit saw.  (recordSessionApply, undoApply's restore procedure)
THEOREM StackAndFilesAgree == Spec => []StackMatchesFiles
<1>1. Spec => []Following
  BY InvHolds, StartsFollowing, NextFollows, PTL DEF Spec
<1>2. Inv /\ Following => StackMatchesFiles
  <2> SUFFICES ASSUME Inv, Following, ~disturbed, InFlight = {}, NEW e \in Edits
               PROVE  disk[FileOf[e]].text[e] = IF OnStack(e) THEN "after" ELSE "before"
    BY DEF StackMatchesFiles
  <2>1. FileOf[e] \in Files
    BY UndoAssumption
  <2>2. disk[FileOf[e]] = Version(FileOf[e], On(FileOf[e]))
    BY <2>1, NoCallAhead
  <2>3. e \in On(FileOf[e]) <=> OnStack(e)
    BY EntryTypes DEF On, OnStack
  <2>4. Version(FileOf[e], On(FileOf[e])).text[e]
          = IF e \in On(FileOf[e]) THEN "after" ELSE "before"
    BY <2>1, OnFiles, Versions
  <2> QED
    BY <2>2, <2>3, <2>4
<1> QED
  BY InvHolds, <1>1, <1>2, PTL
=============================================================================
