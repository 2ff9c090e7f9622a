-------------------------- MODULE PersistenceBuffer --------------------------
(***************************************************************************)
(* The rolling buffer of captured files on the Pi (persistence.py) over a  *)
(* directory that outlives the process.                                    *)
(*                                                                         *)
(* The capture lock lets one persist run at a time, so the hard parts lie  *)
(* around it: the process can be killed between any two steps, the disk    *)
(* can fill up, somebody else can delete files meanwhile, and the age of a *)
(* file is whatever the wall clock said when it was written.               *)
(***************************************************************************)
EXTENDS Integers, Sequences, FiniteSets

CONSTANTS
  Captures,     \* the capture ids, each the name of one file
  MaxBytes,     \* settings.persistence.max_bytes
  Sizes,        \* the sizes frames come in
  ClockSteps,   \* how far the wall clock moves from one capture to the next
  OthersDelete  \* somebody else deletes files from the directory

ASSUME SizeAssumption == MaxBytes \in Nat /\ Sizes \subseteq Nat
ASSUME ClockAssumption == ClockSteps \subseteq Int

NoCapture == "none"

VARIABLES
  clock,     \* the wall clock
  disk,      \* disk[f]: size and mtime of the file f, for the files there are
  pc,        \* where persist is
  cur,       \* the capture it persists, or persisted last
  size,      \* the size of its frame
  left,      \* _prune: the files not popped yet, with the mtime that sorted them
  total,     \* _prune: total_bytes
  last,      \* _prune: the size of the file unlinked last, 0 for none
  order,     \* history: the captures in the order they were written
  vanished   \* history: the files somebody else deleted

vars == <<clock, disk, pc, cur, size, left, total, last, order, vanished>>
pruneVars == <<left, total, last>>

OnDisk == DOMAIN disk
\* The bytes in a directory, one by one, and how many they are: sum(st_size).
Bytes(dir) == UNION {{f} \X (1 .. dir[f].size) : f \in DOMAIN dir}
Volume(dir) == Cardinality(Bytes(dir))
Used == Volume(disk)
Without(f) == [g \in OnDisk \ {f} |-> disk[g]]
With(f, bytes, now) ==
  [g \in OnDisk \cup {f} |->
     IF g = f THEN [size |-> bytes, mtime |-> now] ELSE disk[g]]

TypeOK ==
  /\ clock \in Int
  /\ OnDisk \subseteq Captures
  /\ \A f \in OnDisk : disk[f].size \in Nat /\ disk[f].mtime \in Int
  /\ pc \in {"idle", "opened", "written", "pruning", "returned", "failed", "down"}
  /\ cur \in Captures \cup {NoCapture}
  /\ size \in Nat
  /\ DOMAIN left \subseteq Captures
  /\ \A f \in DOMAIN left : left[f] \in Int
  /\ total \in Nat
  /\ last \in Nat
  /\ order \in Seq(Captures)
  /\ vanished \subseteq Captures

Init ==
  /\ clock = 0
  /\ disk = <<>>
  /\ pc = "idle"
  /\ cur = NoCapture
  /\ size = 0
  /\ left = <<>>
  /\ total = 0
  /\ last = 0
  /\ order = <<>>
  /\ vanished = {}

\* write_bytes opens the file: from here on there is one, empty so far.
Open(c, bytes) ==
  /\ pc \in {"idle", "returned", "failed"}
  /\ \A i \in DOMAIN order : order[i] # c
  /\ \E d \in ClockSteps :
       /\ clock' = clock + d
       /\ disk' = With(c, 0, clock + d)
  /\ pc' = "opened"
  /\ cur' = c
  /\ size' = bytes
  /\ order' = Append(order, c)
  /\ left' = <<>> /\ total' = 0 /\ last' = 0
  /\ UNCHANGED vanished

\* Some of the bytes are written, and may remain alone when the write fails or the
\* process is killed.
WriteSome(part) ==
  /\ pc = "opened"
  /\ cur \in OnDisk
  /\ disk[cur].size < part /\ part < size
  /\ disk' = With(cur, part, clock)
  /\ UNCHANGED <<clock, pc, cur, size, pruneVars, order, vanished>>

Write ==
  /\ pc = "opened"
  /\ cur \in OnDisk
  /\ disk' = With(cur, size, clock)
  /\ pc' = "written"
  /\ UNCHANGED <<clock, cur, size, pruneVars, order, vanished>>

\* The file was deleted while it was open: its bytes go nowhere, silently.
WriteNowhere ==
  /\ pc = "opened"
  /\ cur \notin OnDisk
  /\ pc' = "written"
  /\ UNCHANGED <<clock, disk, cur, size, pruneVars, order, vanished>>

\* No space left: what is written so far stays behind and the capture fails.
WriteFails ==
  /\ pc = "opened"
  /\ pc' = "failed"
  /\ UNCHANGED <<clock, disk, cur, size, pruneVars, order, vanished>>

\* Mutant of Scan: the listing is taken before the new file is there.
ScanOthers ==
  /\ pc = "written"
  /\ left' = [f \in OnDisk \ {cur} |-> disk[f].mtime]
  /\ total' = Volume(Without(cur))
  /\ pc' = "pruning"
  /\ UNCHANGED <<clock, disk, cur, size, last, order, vanished>>

\* iterdir, the sort by mtime and the sum.
Scan ==
  /\ pc = "written"
  /\ left' = [f \in OnDisk |-> disk[f].mtime]
  /\ total' = Used
  /\ pc' = "pruning"
  /\ UNCHANGED <<clock, disk, cur, size, last, order, vanished>>

\* A file disappears between the listing and its stat, which raises.
ScanFails ==
  /\ OthersDelete
  /\ pc = "written"
  /\ pc' = "failed"
  /\ UNCHANGED <<clock, disk, cur, size, pruneVars, order, vanished>>

\* The head of the sorted list; files of equal age come in any order.
Oldest(f) == f \in DOMAIN left /\ \A g \in DOMAIN left : left[f] <= left[g]

Unlink(f) ==
  /\ f \in OnDisk
  /\ left' = [g \in DOMAIN left \ {f} |-> left[g]]
  /\ disk' = Without(f)
  /\ last' = disk[f].size
  /\ total' = total - disk[f].size
  /\ UNCHANGED <<clock, pc, cur, size, order, vanished>>

\* Mutants of Prune: one file too many; the newest file first.
PruneOneMore(f) == pc = "pruning" /\ total >= MaxBytes /\ Oldest(f) /\ Unlink(f)

PruneNewest(f) ==
  /\ pc = "pruning"
  /\ total > MaxBytes
  /\ f \in DOMAIN left /\ \A g \in DOMAIN left : left[f] >= left[g]
  /\ Unlink(f)

\* One turn of the loop.
Prune(f) == pc = "pruning" /\ total > MaxBytes /\ Oldest(f) /\ Unlink(f)

\* Mutant of PruneFails: a file that is gone is neither popped nor raised.
PruneSpins(f) ==
  /\ pc = "pruning"
  /\ total > MaxBytes
  /\ Oldest(f)
  /\ f \notin OnDisk
  /\ UNCHANGED vars

\* The file to prune is gone: stat raises before unlink(missing_ok=True) could
\* overlook it.
PruneFails(f) ==
  /\ pc = "pruning"
  /\ total > MaxBytes
  /\ Oldest(f)
  /\ f \notin OnDisk
  /\ pc' = "failed"
  /\ UNCHANGED <<clock, disk, cur, size, pruneVars, order, vanished>>

Return ==
  /\ pc = "pruning"
  /\ total <= MaxBytes \/ DOMAIN left = {}
  /\ pc' = "returned"
  /\ UNCHANGED <<clock, disk, cur, size, pruneVars, order, vanished>>

Persist ==
  \/ \E part \in 1 .. size : WriteSome(part)
  \/ Write \/ WriteNowhere \/ WriteFails \/ Scan \/ ScanFails \/ Return
  \/ \E f \in Captures : Prune(f) \/ PruneFails(f)

Delete(f) ==
  /\ OthersDelete
  /\ f \in OnDisk
  /\ disk' = Without(f)
  /\ vanished' = vanished \cup {f}
  /\ UNCHANGED <<clock, pc, cur, size, pruneVars, order>>

\* The process is killed; only the directory and the clock stay.
Kill ==
  /\ pc # "down"
  /\ pc' = "down"
  /\ left' = <<>> /\ total' = 0 /\ last' = 0
  /\ UNCHANGED <<clock, disk, cur, size, order, vanished>>

Restart ==
  /\ pc = "down"
  /\ pc' = "idle"
  /\ UNCHANGED <<clock, disk, cur, size, pruneVars, order, vanished>>

Next ==
  \/ \E c \in Captures, bytes \in Sizes : Open(c, bytes)
  \/ Persist \/ Kill \/ Restart
  \/ \E f \in Captures : Delete(f)

Spec == Init /\ [][Next]_vars /\ WF_vars(Persist)

-----------------------------------------------------------------------------
(* Properties.                                                             *)

\* "The buffer is pruned oldest-first to stay under the configured cap"
\* (README.md:187): whenever persist has returned, all that is in the directory
\* fits, whatever crashes left behind before.
CapRespected == pc = "returned" => Used <= MaxBytes

\* The wall clock moves forward from one capture to the next.
Forward == \A d \in ClockSteps : d > 0

\* Oldest first: a file that is still there was not captured before one that
\* was pruned (persistence.py:27-33).  By mtimes that is the loop; by captures it
\* needs a clock that moves Forward.
SurvivorsAreNewest ==
  \A i, j \in DOMAIN order :
    i < j /\ order[i] \in OnDisk => order[j] \in OnDisk \cup vanished

\* No more is deleted than necessary: the file deleted last did not fit.
KeepsWhatFits ==
  pc = "returned" /\ last > 0 /\ vanished = {} => Used + last > MaxBytes

\* persist ends, by returning or raising, unless the process is killed.
PersistEnds == pc = "opened" ~> pc \in {"returned", "failed", "down"}

\* Files are captures', each written once, and the later of two captures has the
\* later mtime; the one being written has the latest.
Dated ==
  /\ \A i, j \in DOMAIN order : i < j => order[i] # order[j]
  /\ \A f \in OnDisk : disk[f].mtime \in Int /\ disk[f].mtime <= clock
                        /\ \E i \in DOMAIN order : order[i] = f
  /\ \A i, j \in DOMAIN order :
       i < j /\ {order[i], order[j]} \subseteq OnDisk
         => disk[order[i]].mtime < disk[order[j]].mtime
  /\ pc = "opened" => /\ order # <<>> /\ cur = order[Len(order)]
                      /\ \A f \in OnDisk \ {cur} : disk[f].mtime < clock

\* While pruning, the list has every file there still is, by its mtime.
Listed ==
  pc = "pruning" => \A f \in OnDisk : f \in DOMAIN left /\ left[f] = disk[f].mtime

\* What the loop knows of the directory: the bytes it counts are no fewer than there
\* are, and exactly those if nobody else deletes, and the file it deleted last did not fit.
Accounted ==
  /\ pc \in {"opened", "written"} => last = 0
  /\ pc = "pruning" =>
       /\ Used <= total
       /\ vanished = {} => total = Used /\ (last > 0 => total + last > MaxBytes)

\* The inductive strengthening of CapRespected and KeepsWhatFits, on any clock.
CapInv ==
  /\ TypeOK /\ IsFiniteSet(OnDisk)
  /\ Listed /\ Accounted /\ CapRespected /\ KeepsWhatFits

\* The inductive strengthening of SurvivorsAreNewest.
IInv ==
  /\ clock \in Int /\ order \in Seq(Captures)
  /\ Dated /\ Listed /\ SurvivorsAreNewest
=============================================================================
