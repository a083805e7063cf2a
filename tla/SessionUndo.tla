----------------------------- MODULE SessionUndo -----------------------------
(***************************************************************************)
(* apply_recommended_edit and undo_apply: edits of prose files, the backup *)
(* each takes, the in-process stack of what this session applied, and the  *)
(* undo that restores a backup when nothing changed since.                 *)
(*                                                                         *)
(* Every await of the two tools is a point where the other calls, the user *)
(* and the backup sweep may act.  A hash stands for the content it is of.  *)
(***************************************************************************)
EXTENDS Naturals, Sequences, SequencesExt, FiniteSets

CONSTANTS
  Calls,         \* tool calls that can be in flight at once
  Files,         \* prose files: SKILL.md and CLAUDE.md in their directories
  Edits,         \* recommended edits: a file and a range of lines of it each
  FileOf,        \* FileOf[e]: the file of an edit
  BaseName,      \* BaseName[f]: its last path segment, under which backups are kept
  Missing,       \* no such file, or no such backup
  NoCall,        \* the state of an idle call
  MaxCalls,      \* bound: calls started
  MaxOutside     \* bound: changes by the user, swept backups, restarts

\* A content is known by the file it was written for and the state of the lines each
\* edit is about: as the audit saw them, edited, or changed by the user.
Texts    == [Edits -> {"before", "after", "user"}]
Contents == [owner: Files, text: Texts]

ASSUME UndoAssumption ==
  /\ FileOf \in [Edits -> Files] /\ DOMAIN BaseName = Files
  /\ Missing \notin Contents
  /\ MaxCalls \in Nat /\ MaxOutside \in Nat

VARIABLES
  disk,      \* the content of each file, or Missing
  backups,   \* backup directories: <<base name, time>> -> the content saved there
  clock,     \* the latest time a backup is named after
  stack,     \* sessionApplies, most recent last
  pc, call,  \* where each call is, and its local variables
  started,   \* calls started so far
  outside,   \* changes made by others
  raced,     \* history: the files that were changed while a call worked on them
  crossed,   \* history: the files whose backup another's replaced during the edit
  disturbed  \* history: calls overlapped, or one failed half way, or others acted

callVars == <<pc, call, started>>
vars     == <<disk, backups, clock, stack, callVars, outside, raced, crossed, disturbed>>

AsAudited(f) == [owner |-> f, text |-> [e \in Edits |-> "before"]]
Edited(content, e) == [content EXCEPT !.text[e] = "after"]

Init ==
  /\ disk = [f \in Files |-> AsAudited(f)]
  /\ backups = <<>> /\ clock = 1 /\ stack = <<>>
  /\ pc = [c \in Calls |-> "idle"]
  /\ call = [c \in Calls |-> NoCall]
  /\ started = 0 /\ outside = 0
  /\ raced = {} /\ crossed = {} /\ disturbed = FALSE

-----------------------------------------------------------------------------
(* Calls *)

InFlight == {c \in Calls : pc[c] # "idle"}

Begin(c, state, local) ==
  /\ pc[c] = "idle" /\ started < MaxCalls
  /\ started' = started + 1
  /\ pc' = [pc EXCEPT ![c] = state]
  /\ call' = [call EXCEPT ![c] = local]
  /\ disturbed' = (disturbed \/ InFlight # {})
  /\ UNCHANGED <<disk, backups, clock, crossed, stack, outside, raced>>

Goto(c, state, local) ==
  /\ pc' = [pc EXCEPT ![c] = state]
  /\ call' = [call EXCEPT ![c] = local]
  /\ UNCHANGED <<started, outside, raced>>

\* The call returns or rejects.
Return(c) == Goto(c, "idle", NoCall)

-----------------------------------------------------------------------------
(* apply_recommended_edit *)

\* The stale-before guard: the lines are, byte for byte, what the audit saw.
Fits(content, e) ==
  content # Missing /\ content.owner = FileOf[e] /\ content.text[e] = "before"

\* A confirmed call reads the file.  Missing or stale, it is over at once.
StartEdit(c, e) ==
  /\ Fits(disk[FileOf[e]], e)
  /\ Begin(c, "backup", [edit |-> e, n |-> started + 1, file |-> FileOf[e],
                         read |-> disk[FileOf[e]], since |-> clock])

\* Edits of other files that have taken, or replaced, the backup of this name.
Sharing(f, ref) ==
  {d \in Calls : /\ pc[d] \in {"write", "journal", "record"}
                 /\ call[d].ref = ref /\ call[d].file # f}

\* createProseBackup copies the file as it is now into a directory named after its base
\* name and a time that it has read since the call began: two files of one base name
\* share the directory if the times are the same.
Backup(c) ==
  LET f == call[c].file IN
  /\ pc[c] = "backup"
  /\ \E now \in call[c].since .. clock + 1 :
       LET ref == <<BaseName[f], now>> IN
       /\ clock' = IF now > clock THEN now ELSE clock
       /\ IF disk[f] = Missing
          THEN Return(c) /\ disturbed' = TRUE /\ UNCHANGED <<backups, crossed>>
          ELSE /\ backups' = [r \in DOMAIN backups \cup {ref} |->
                                IF r = ref THEN disk[f] ELSE backups[r]]
               /\ crossed' = crossed \cup {call[d].file : d \in Sharing(f, ref)}
               /\ Goto(c, "write", [edit |-> call[c].edit, n |-> call[c].n, file |-> f,
                                    read |-> call[c].read, ref |-> ref])
               /\ UNCHANGED disturbed
  /\ UNCHANGED <<disk, stack>>

\* The new content is made from what was read at the start, and renamed into place.
WriteEdit(c) ==
  /\ pc[c] = "write"
  /\ disk' = [disk EXCEPT ![call[c].file] = Edited(call[c].read, call[c].edit)]
  /\ Goto(c, "journal", call[c])
  /\ UNCHANGED <<backups, clock, crossed, stack, disturbed>>

\* journalApplySuccess reads the file again for its after hash, and the backup for its
\* before hash; what can be hashed is pushed on the stack.
Changeset(c) ==
  [n |-> call[c].n, edit |-> call[c].edit, file |-> call[c].file, ref |-> call[c].ref,
   after |-> call[c].after,
   before |-> IF call[c].ref \in DOMAIN backups THEN backups[call[c].ref] ELSE Missing]

HashAfter(c) ==
  /\ pc[c] = "journal"
  /\ Goto(c, "record", [edit |-> call[c].edit, n |-> call[c].n, file |-> call[c].file,
                        ref |-> call[c].ref, after |-> disk[call[c].file]])
  /\ UNCHANGED <<disk, backups, clock, crossed, stack, disturbed>>

Record(c) ==
  LET entry == Changeset(c) IN
  /\ pc[c] = "record"
  /\ IF entry.before # Missing /\ entry.after # Missing
     THEN stack' = Append(stack, entry) /\ UNCHANGED disturbed
     ELSE disturbed' = TRUE /\ UNCHANGED stack
  /\ Return(c)
  /\ UNCHANGED <<disk, backups, clock, crossed>>

\* I/O errors: the backup or the write fails and nothing is mutated; the ledger cannot
\* be read or written after the write and the call rejects; the journal cannot be
\* appended to and the error is swallowed.
EditFails(c) ==
  /\ pc[c] \in {"backup", "write", "journal", "record"}
  /\ disturbed' = TRUE
  /\ Return(c)
  /\ UNCHANGED <<disk, backups, clock, crossed, stack>>

-----------------------------------------------------------------------------
(* undo_apply *)

\* selectUndoTargets: the last apply of one suggestion ...
LastOf(e) == {i \in DOMAIN stack : /\ stack[i].edit = e
                                   /\ \A j \in DOMAIN stack : stack[j].edit = e => j <= i}

UndoEdit(c, e) == \E i \in LastOf(e) : Begin(c, "check", [todo |-> <<stack[i]>>])

\* ... or a number of applies, most recent first.
UndoLast(c, count) ==
  /\ stack # <<>>
  /\ Begin(c, "check", [todo |-> [i \in 1..(IF count < Len(stack) THEN count ELSE Len(stack))
                                   |-> Reverse(stack)[i]]])

Current(c) == Head(call[c].todo)

(* Faulty: the content is not compared with the recorded after hash. *)
UnchangedSinceUnchecked(entry) == disk[entry.file] # Missing

\* The never-clobber guard.
UnchangedSince(entry) == disk[entry.file] # Missing /\ disk[entry.file] = entry.after

\* The target is where and what the apply left it, or the undo stops here.
CheckTarget(c) ==
  /\ pc[c] = "check"
  /\ IF UnchangedSince(Current(c)) THEN Goto(c, "load", call[c]) ELSE Return(c)
  /\ UNCHANGED <<disk, backups, clock, crossed, stack, disturbed>>

\* The backup is there and hashes to what was recorded, or the undo stops here.
LoadBackup(c) ==
  LET entry == Current(c) IN
  /\ pc[c] = "load"
  /\ IF entry.ref \in DOMAIN backups /\ backups[entry.ref] = entry.before
     THEN Goto(c, "restore", call[c])
     ELSE Return(c)
  /\ UNCHANGED <<disk, backups, clock, crossed, stack, disturbed>>

(* Faulty: what is put into place is read from the backup once more. *)
RestoreReread(c) ==
  /\ pc[c] = "restore" /\ Current(c).ref \in DOMAIN backups
  /\ disk' = [disk EXCEPT ![Current(c).file] = backups[Current(c).ref]]
  /\ Goto(c, "drop", call[c])
  /\ UNCHANGED <<backups, clock, crossed, stack, disturbed>>

\* The content that was read from the backup is renamed into place.
Restore(c) ==
  /\ pc[c] = "restore"
  /\ disk' = [disk EXCEPT ![Current(c).file] = Current(c).before]
  /\ Goto(c, "drop", call[c])
  /\ UNCHANGED <<backups, clock, crossed, stack, disturbed>>

RestoreFails(c) ==
  /\ pc[c] = "restore"
  /\ Return(c)
  /\ UNCHANGED <<disk, backups, clock, crossed, stack, disturbed>>

(* Faulty: the changeset stays on the stack. *)
DropKeeping(c) ==
  /\ pc[c] = "drop"
  /\ UNCHANGED stack
  /\ IF Tail(call[c].todo) = <<>>
     THEN Return(c)
     ELSE Goto(c, "check", [todo |-> Tail(call[c].todo)])
  /\ UNCHANGED <<disk, backups, clock, crossed, disturbed>>

\* The undo is journaled, its changeset leaves the stack unless another undo has taken
\* it, and the next one is up.
Drop(c) ==
  /\ pc[c] = "drop"
  /\ \/ \E i \in DOMAIN stack : stack[i].n = Current(c).n /\ stack' = RemoveAt(stack, i)
     \/ (\A i \in DOMAIN stack : stack[i].n # Current(c).n) /\ UNCHANGED stack
  /\ IF Tail(call[c].todo) = <<>>
     THEN Return(c)
     ELSE Goto(c, "check", [todo |-> Tail(call[c].todo)])
  /\ UNCHANGED <<disk, backups, clock, crossed, disturbed>>

-----------------------------------------------------------------------------
(* Everyone else *)

\* The file a call has read and may still write, or hash.
WorksOn(c, f) ==
  \/ pc[c] \in {"backup", "write", "journal", "record"} /\ call[c].file = f
  \/ pc[c] \in {"load", "restore", "drop"} /\ Current(c).file = f

Act(f) ==
  /\ outside < MaxOutside
  /\ outside' = outside + 1
  /\ disturbed' = TRUE
  /\ raced' = raced \cup {x \in {f} : \E c \in Calls : WorksOn(c, x)}

\* The user changes the lines an edit is about, or deletes the file.
UserChanges(e) ==
  LET f == FileOf[e] IN
  /\ Act(f)
  /\ disk[f] # Missing
  /\ disk' = [disk EXCEPT ![f].text[e] = "user"]
  /\ UNCHANGED <<backups, clock, crossed, stack, callVars>>

UserDeletes(f) ==
  /\ Act(f)
  /\ disk[f] # Missing
  /\ disk' = [disk EXCEPT ![f] = Missing]
  /\ UNCHANGED <<backups, clock, crossed, stack, callVars>>

\* The backup sweep, or the three-backup limit, removes a backup.
SweepBackup(ref) ==
  /\ outside < MaxOutside
  /\ outside' = outside + 1
  /\ backups' = [r \in DOMAIN backups \ {ref} |-> backups[r]]
  /\ disturbed' = TRUE
  /\ UNCHANGED <<disk, clock, crossed, stack, callVars, raced>>

\* The server dies and is started again: the stack is gone with it.
Restart ==
  /\ outside < MaxOutside
  /\ outside' = outside + 1
  /\ stack' = <<>>
  /\ pc' = [c \in Calls |-> "idle"]
  /\ call' = [c \in Calls |-> NoCall]
  /\ disturbed' = TRUE
  /\ UNCHANGED <<disk, backups, clock, crossed, started, raced>>

CallStep(c) ==
  \/ \E e \in Edits : StartEdit(c, e)
  \/ Backup(c) \/ WriteEdit(c) \/ HashAfter(c) \/ Record(c) \/ EditFails(c)
  \/ (\E e \in Edits : UndoEdit(c, e)) \/ (\E count \in 1..MaxCalls : UndoLast(c, count))
  \/ CheckTarget(c) \/ LoadBackup(c) \/ Restore(c) \/ RestoreFails(c) \/ Drop(c)

OutsideStep ==
  \/ \E e \in Edits : UserChanges(e)
  \/ \E f \in Files : UserDeletes(f)
  \/ \E ref \in DOMAIN backups : SweepBackup(ref)
  \/ Restart

Next == (\E c \in Calls : CallStep(c)) \/ OutsideStep

Spec == Init /\ [][Next]_vars

-----------------------------------------------------------------------------
(* Properties *)

\* Types; and the stack holds each apply once, in the order the applies began.
TypeOK ==
  /\ disk \in [Files -> Contents \cup {Missing}]
  /\ clock \in Nat \ {0}
  /\ \A ref \in DOMAIN backups : ref[2] \in 1..clock /\ backups[ref] \in Contents
  /\ \A i \in DOMAIN stack : stack[i].n \in 1..started /\ stack[i].file = FileOf[stack[i].edit]
  /\ \A i, j \in DOMAIN stack : stack[i].n = stack[j].n => i = j
  /\ pc \in [Calls -> {"idle", "backup", "write", "journal", "record",
                       "check", "load", "restore", "drop"}]
  /\ DOMAIN call = Calls /\ \A c \in Calls : pc[c] = "idle" => call[c] = NoCall
  /\ started \in 0..MaxCalls /\ outside \in 0..MaxOutside
  /\ raced \subseteq Files /\ crossed \subseteq Files /\ disturbed \in BOOLEAN

OnStack(e) == \E i \in DOMAIN stack : stack[i].edit = e

\* One call at a time, with nobody else at work, files and stack agree: exactly the
\* edits on the stack are in the files, so undoing them all gives back what the audit
\* saw.  (undo-apply.ts, restore procedure; most recent first)
StackMatchesFiles ==
  ~disturbed /\ InFlight = {} =>
    \A e \in Edits :
      disk[FileOf[e]].text[e] = IF OnStack(e) THEN "after" ELSE "before"

\* What the user wrote is never lost to an edit or an undo, unless it was written while
\* the call was already at work on that file, or another file's backup took the place of
\* its own while it was edited: the stale-before guard and the hashes catch every other
\* change, also when calls overlap.  (undo-apply.ts: "undo refuses rather than
\* overwriting it")
UserText(content) ==
  IF content = Missing THEN {} ELSE {e \in Edits : content.text[e] = "user"}

UserTextSurvives ==
  [][\A f \in Files :
       UserText(disk[f]) \ UserText(disk'[f]) # {} =>
         f \in raced \cup crossed \/ outside' # outside]_vars

\* No undo puts the content of another file in a file's place, unless the other's backup
\* took the place of its own between the backup and the record of its edit: a directory
\* that is shared later is caught by the hash.  (restoreChangeset: "a mismatched/corrupt
\* backup must never reach the target file")
OwnContentUnlessCrossed ==
  \A f \in Files : disk[f] = Missing \/ disk[f].owner = f \/ f \in crossed

\* Not so in the code: a file only ever holds what was written for it.  ("Single-file
\* copy - preserves byte-for-byte content for revert", of a directory that two files of
\* one base name share when their backups are taken in one millisecond)
OwnContentOnly == \A f \in Files : disk[f] = Missing \/ disk[f].owner = f
=============================================================================
