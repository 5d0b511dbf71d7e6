----------------------------- MODULE Catalogue -----------------------------
(***************************************************************************)
(* The backup location: backup.yaml, the catalogue of the restore points,  *)
(* and one snapshot directory for each.  backup adds an entry and, with    *)
(* --retention-period-days, removes the old ones; backup-delete removes    *)
(* those it is given.  Each loads the file, changes its copy, and replaces *)
(* the file through a temporary sibling of a fixed name; nothing is locked *)
(* in between, and a process can be killed anywhere.                       *)
(***************************************************************************)
EXTENDS Naturals, FiniteSets

CONSTANTS
  Procs,        \* the processes working on the backup location
  MaxPoints,    \* bound: how many restore points are begun
  MaxBeside,    \* bound: the same where two processes overlap
  Retentions,   \* the values of --retention-period-days
  Day,          \* moments in a day; a moment passes with every entry
  MaxDays,      \* bound: how many days pass
  MaxCrashes    \* bound: how many processes are killed

Points == 1..MaxPoints

ASSUME CatalogueAssumption ==
  /\ {MaxPoints, MaxBeside, MaxDays, MaxCrashes} \subseteq Nat
  /\ Day \in Nat /\ Day > MaxPoints
  /\ Retentions \subseteq Nat

(* A catalogue file: the ids in it when it is complete; torn while it is   *)
(* being written, when a reader finds no entry in it or no valid YAML.     *)
Text(ids) == [state |-> "complete", ids |-> ids]
Torn == [state |-> "torn", ids |-> {}]
Absent == [state |-> "absent", ids |-> {}]
Files == {Torn, Absent} \cup {Text(ids) : ids \in SUBSET Points}

VARIABLES
  index,      \* backup.yaml
  tmp,        \* backup.yaml.tmp
  dir,        \* each snapshot directory: "absent", "whole" or "damaged"
  result,     \* the result of each entry, "none" before it is recorded
  created,    \* its created_at
  condemned,  \* history: the points that a removal has chosen
  overlapped, \* history: a process began while another was at work
  clock, days, crashes,
  pc,         \* where each process is
  own,        \* the restore point it makes, 0 for a deletion
  task,       \* what it is saving the catalogue for
  period,     \* the retention that it has applied, if any
  new,        \* the catalogue it is about to save
  left,       \* the snapshot directories it has still to remove
  handle      \* the file that its open handle writes to

disk == <<index, tmp, dir>>
entries == <<result, created>>
history == <<condemned, overlapped>>
world == <<clock, days, crashes>>
process == <<pc, own, task, period, new, left, handle>>
vars == <<disk, entries, history, world, process>>

Init ==
  /\ index = Text({}) /\ tmp = Absent
  /\ dir = [i \in Points |-> "absent"]
  /\ result = [i \in Points |-> "none"] /\ created = [i \in Points |-> 0]
  /\ condemned = {} /\ overlapped = FALSE
  /\ clock = 0 /\ days = 0 /\ crashes = 0
  /\ pc = [p \in Procs |-> "idle"] /\ own = [p \in Procs |-> 0]
  /\ task = [p \in Procs |-> "none"] /\ period = [p \in Procs |-> {}]
  /\ new = [p \in Procs |-> {}] /\ left = [p \in Procs |-> {}]
  /\ handle = [p \in Procs |-> "none"]

At(p, step) == pc[p] = step
GoTo(p, step) == pc' = [pc EXCEPT ![p] = step]

(* The process has ended or was killed; its files remain. *)
Gone(p) ==
  /\ GoTo(p, "idle") /\ own' = [own EXCEPT ![p] = 0]
  /\ task' = [task EXCEPT ![p] = "none"]
  /\ period' = [period EXCEPT ![p] = {}]
  /\ new' = [new EXCEPT ![p] = {}] /\ left' = [left EXCEPT ![p] = {}]
  /\ handle' = [handle EXCEPT ![p] = "none"]

(* Seeded bug: the cutoff is taken in local time, a part of a day ahead. *)
ExpiredLocally(i, retention) == created[i] + retention * Day < clock + Day

(* A moment has passed since every entry that is in the catalogue, for     *)
(* created_at is cut to whole seconds.                                     *)
Expired(i, retention) == created[i] + retention * Day < clock

-----------------------------------------------------------------------------
(* backup: the snapshot directory comes first, the entry last.             *)

Started == {own[p] : p \in Procs} \cup {i \in Points : dir[i] # "absent"}
             \cup condemned

(* A process begins, beside another one or alone. *)
Begin(begun) ==
  /\ overlapped' = (overlapped \/ \E p \in Procs : ~At(p, "idle"))
  /\ overlapped' => begun \subseteq 1..MaxBeside

StartBackup(p, i) ==
  /\ At(p, "idle")
  /\ i \in Points \ Started /\ \A j \in Points : j < i => j \in Started
  /\ dir' = [dir EXCEPT ![i] = "whole"]
  /\ own' = [own EXCEPT ![p] = i]
  /\ Begin({i})
  /\ GoTo(p, "archive")
  /\ UNCHANGED <<index, tmp, entries, condemned, world, period, task, new,
                 left, handle>>

(* Seeded bug: the run starts a catalogue of its own. *)
RecordAlone(p, outcome) ==
  /\ At(p, "archive")
  /\ result' = [result EXCEPT ![own[p]] = outcome]
  /\ created' = [created EXCEPT ![own[p]] = clock]
  /\ clock' = clock + 1
  /\ new' = [new EXCEPT ![p] = {own[p]}]
  /\ task' = [task EXCEPT ![p] = "record"]
  /\ GoTo(p, "open")
  /\ UNCHANGED <<disk, history, days, crashes, period, own, left, handle>>

(* record_backup reads the catalogue that it will save with its entry: an  *)
(* empty one where nothing has been written into the file yet.             *)
LoadToRecord(p, outcome) ==
  /\ At(p, "archive")
  /\ result' = [result EXCEPT ![own[p]] = outcome]
  /\ created' = [created EXCEPT ![own[p]] = clock]
  /\ clock' = clock + 1
  /\ new' = [new EXCEPT ![p] = index.ids \cup {own[p]}]
  /\ task' = [task EXCEPT ![p] = "record"]
  /\ GoTo(p, "open")
  /\ UNCHANGED <<disk, history, days, crashes, period, own, left, handle>>

(* Seeded bug: every directory without an entry to keep is removed. *)
LoadToPruneAll(p, retention) ==
  /\ At(p, "prune") /\ index # Torn
  /\ LET removed == {i \in index.ids : Expired(i, retention)}
     IN /\ removed # {}
        /\ condemned' = condemned \cup removed
        /\ new' = [new EXCEPT ![p] = index.ids \ removed]
        /\ left' = [left EXCEPT ![p] =
             {i \in Points \ (index.ids \ removed) : dir[i] # "absent"}]
  /\ task' = [task EXCEPT ![p] = "prune"]
  /\ period' = [period EXCEPT ![p] = {retention}]
  /\ GoTo(p, "remove")
  /\ UNCHANGED <<disk, entries, overlapped, world, own, handle>>

LoadToPrune(p, retention) ==
  /\ At(p, "prune") /\ index # Torn
  /\ LET removed == {i \in index.ids : Expired(i, retention)}
     IN /\ removed # {}
        /\ condemned' = condemned \cup removed
        /\ new' = [new EXCEPT ![p] = index.ids \ removed]
        /\ left' = [left EXCEPT ![p] = {i \in removed : dir[i] # "absent"}]
  /\ task' = [task EXCEPT ![p] = "prune"]
  /\ period' = [period EXCEPT ![p] = {retention}]
  /\ GoTo(p, "remove")
  /\ UNCHANGED <<disk, entries, overlapped, world, own, handle>>

(* No retention was asked for, or nothing that is read is old enough. *)
NothingToPrune(p) ==
  /\ At(p, "prune")
  /\ GoTo(p, "finish")
  /\ UNCHANGED <<disk, entries, history, world, period, own, task, new, left,
                 handle>>

(* backup-delete: one id that the catalogue does not have, and nothing is  *)
(* removed.                                                                *)
LoadToDelete(p, wanted) ==
  /\ At(p, "idle") /\ index # Torn
  /\ wanted # {} /\ wanted \subseteq index.ids
  /\ condemned' = condemned \cup wanted
  /\ new' = [new EXCEPT ![p] = index.ids \ wanted]
  /\ left' = [left EXCEPT ![p] = {i \in wanted : dir[i] # "absent"}]
  /\ task' = [task EXCEPT ![p] = "delete"]
  /\ Begin(Started)
  /\ GoTo(p, "remove")
  /\ UNCHANGED <<disk, entries, world, period, own, handle>>

(* load_index fails where the file is cut off so that it is not valid YAML. *)
LoadFails(p) ==
  /\ pc[p] \in {"archive", "prune"} /\ index = Torn
  /\ Gone(p)
  /\ UNCHANGED <<disk, entries, history, world>>

(* shutil.rmtree, file by file. *)
DamageDir(p, i) ==
  /\ At(p, "remove") /\ i \in left[p] /\ dir[i] = "whole"
  /\ dir' = [dir EXCEPT ![i] = "damaged"]
  /\ UNCHANGED <<index, tmp, entries, history, world, process>>

RemoveDir(p, i) ==
  /\ At(p, "remove") /\ i \in left[p] /\ dir[i] # "whole"
  /\ dir' = [dir EXCEPT ![i] = "absent"]
  /\ left' = [left EXCEPT ![p] = @ \ {i}]
  /\ UNCHANGED <<index, tmp, entries, history, world, period, pc, own, task,
                 new, handle>>

DirsRemoved(p) ==
  /\ At(p, "remove") /\ left[p] = {}
  /\ GoTo(p, "open")
  /\ UNCHANGED <<disk, entries, history, world, period, own, task, new, left,
                 handle>>

-----------------------------------------------------------------------------
(* save_index: atomic_write with its fixed name for the temporary file.    *)
(* A handle stays with its file when another process renames it.           *)

(* Seeded bug: the file is written in place. *)
OpenInPlace(p) ==
  /\ At(p, "open")
  /\ index' = Torn
  /\ tmp' = Text({})
  /\ handle' = [handle EXCEPT ![p] = "index"]
  /\ GoTo(p, "write")
  /\ UNCHANGED <<dir, entries, history, world, period, own, task, new, left>>

OpenTmp(p) ==
  /\ At(p, "open")
  /\ tmp' = Torn
  /\ handle' = [handle EXCEPT ![p] = "tmp"]
  /\ GoTo(p, "write")
  /\ UNCHANGED <<index, dir, entries, history, world, period, own, task, new,
                 left>>

(* What a handle leaves in a file: the remains of a longer text stay.      *)
Overwritten(file, ids) ==
  IF file = Torn THEN {Text(ids)} ELSE {Text(ids), Torn}

WriteTmp(p) ==
  /\ At(p, "write")
  /\ \/ handle[p] = "tmp" /\ tmp' \in Overwritten(tmp, new[p])
        /\ UNCHANGED index
     \/ handle[p] = "index" /\ index' \in Overwritten(index, new[p])
        /\ UNCHANGED tmp
     \/ handle[p] = "none" /\ UNCHANGED <<index, tmp>>
  /\ handle' = [handle EXCEPT ![p] = "none"]
  /\ GoTo(p, "replace")
  /\ UNCHANGED <<dir, entries, history, world, period, own, task, new, left>>

AfterSave(p) ==
  CASE task[p] = "record" -> "prune"
    [] task[p] = "prune" -> "finish"
    [] OTHER -> "idle"

Replace(p) ==
  /\ At(p, "replace") /\ tmp # Absent
  /\ index' = tmp /\ tmp' = Absent
  /\ handle' = [q \in Procs |-> IF handle[q] = "tmp" THEN "index" ELSE "none"]
  /\ GoTo(p, AfterSave(p))
  /\ UNCHANGED <<dir, entries, history, world, period, own, task, new, left>>

(* os.replace finds nothing to rename. *)
ReplaceFails(p) ==
  /\ At(p, "replace") /\ tmp = Absent
  /\ Gone(p)
  /\ UNCHANGED <<disk, entries, history, world>>

Finish(p) ==
  /\ At(p, "finish")
  /\ Gone(p)
  /\ UNCHANGED <<disk, entries, history, world>>

(* SIGKILL or power loss. *)
Crash(p) ==
  /\ ~At(p, "idle")
  /\ crashes < MaxCrashes /\ crashes' = crashes + 1
  /\ Gone(p)
  /\ UNCHANGED <<disk, entries, history, clock, days>>

(* A day passes; nobody takes a day over the catalogue. *)
Tick ==
  /\ days < MaxDays /\ days' = days + 1
  /\ \A p \in Procs : pc[p] \in {"idle", "archive"}
  /\ clock' = clock + Day
  /\ UNCHANGED <<disk, entries, history, crashes, process>>

Next ==
  \/ \E p \in Procs :
       \/ \E i \in Points :
            StartBackup(p, i) \/ DamageDir(p, i) \/ RemoveDir(p, i)
       \/ \E outcome \in {"ok", "partial", "failed"} : LoadToRecord(p, outcome)
       \/ \E retention \in Retentions : LoadToPrune(p, retention)
       \/ \E wanted \in SUBSET Points : LoadToDelete(p, wanted)
       \/ NothingToPrune(p) \/ LoadFails(p) \/ DirsRemoved(p)
       \/ OpenTmp(p) \/ WriteTmp(p) \/ Replace(p) \/ ReplaceFails(p)
       \/ Finish(p) \/ Crash(p)
  \/ Tick

Spec == Init /\ [][Next]_vars

-----------------------------------------------------------------------------
(* The restore point that restore takes when it is not given one. *)
Selected(i) ==
  /\ i \in index.ids /\ result[i] # "failed"
  /\ \A j \in index.ids : result[j] # "failed" => created[j] <= created[i]

-----------------------------------------------------------------------------
(* Properties.                                                             *)

TypeOK ==
  /\ index \in Files \ {Absent} /\ tmp \in Files
  /\ dir \in [Points -> {"absent", "whole", "damaged"}]
  /\ result \in [Points -> {"none", "ok", "partial", "failed"}]
  /\ created \in [Points -> Nat]
  /\ condemned \subseteq Points /\ overlapped \in BOOLEAN
  /\ clock \in Nat /\ days \in Nat /\ crashes \in Nat
  /\ pc \in [Procs -> {"idle", "archive", "prune", "remove", "open", "write",
                       "replace", "finish"}]
  /\ own \in [Procs -> Points \cup {0}]
  /\ task \in [Procs -> {"none", "record", "prune", "delete"}]
  /\ period \in [Procs -> SUBSET Retentions]
  /\ new \in [Procs -> SUBSET Points] /\ left \in [Procs -> SUBSET Points]
  /\ handle \in [Procs -> {"none", "tmp", "index"}]

(***************************************************************************)
(* As long as one process works after the other, a crash at any moment     *)
(* leaves a catalogue that can be read.                                    *)
(***************************************************************************)
CatalogueReadable == ~overlapped => index # Torn

(***************************************************************************)
(* Retention and deletion destroy what they have chosen and nothing else:  *)
(* the snapshot of every other catalogued point, and that of a run which   *)
(* has not been catalogued yet, is whole.                                  *)
(***************************************************************************)
OnlyCondemnedDamaged ==
  \A i \in Points :
    i \in index.ids \/ (\E p \in Procs : own[p] = i) =>
      dir[i] = "whole" \/ i \in condemned

(***************************************************************************)
(* As long as one process works after the other, an entry leaves the       *)
(* catalogue only when a retention or a deletion has chosen it.            *)
(***************************************************************************)
EntriesKept ==
  [][~overlapped => index.ids \ index'.ids \subseteq condemned]_vars

(***************************************************************************)
(* As long as one process works after the other: after a backup whose      *)
(* archives are all there, and its retention of a day or more, a restore   *)
(* that names no point takes that backup, and it is whole.                 *)
(***************************************************************************)
RestoreTakesBackup ==
  \A p \in Procs :
    /\ pc[p] = "finish" /\ result[own[p]] = "ok"
    /\ 0 \notin period[p] /\ ~overlapped
    =>
      /\ dir[own[p]] = "whole"
      /\ \A i \in Points : Selected(i) <=> i = own[p]
=============================================================================
