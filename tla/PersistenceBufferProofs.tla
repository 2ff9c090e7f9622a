----------------------- MODULE PersistenceBufferProofs -----------------------
(***************************************************************************)
(* The cap, what fits, and oldest first, for any number of captures, any   *)
(* sizes and any cap, with crashes, full disks and deletions by others.    *)
(*                                                                         *)
(* A directory's volume is counted as a finite set of bytes, so that it    *)
(* grows and shrinks by a file's size without a sum along the directory.   *)
(* _prune's total is at least the volume, and exactly that unless others   *)
(* delete (CapInv); no clock matters to it.                                *)
(*                                                                         *)
(* On a clock that moves forward the buffer never keeps a file and prunes  *)
(* a later one.                                                            *)
(*                                                                         *)
(* Sorting by mtime is sorting by capture as long as Dated holds, and the  *)
(* list that _prune works through must still have every file (Listed).     *)
(***************************************************************************)
EXTENDS PersistenceBuffer, FiniteSetTheorems, TLAPS

-----------------------------------------------------------------------------
(* The bytes of a directory.                                               *)

Files(dir) == IsFiniteSet(DOMAIN dir) /\ \A f \in DOMAIN dir : dir[f].size \in Nat

LEMMA BytesOfFile ==
  ASSUME NEW f, NEW n \in Nat
  PROVE  IsFiniteSet({f} \X (1 .. n)) /\ Cardinality({f} \X (1 .. n)) = n
  <1>1. IsFiniteSet({f}) /\ Cardinality({f}) = 1
    BY FS_Singleton
  <1>2. IsFiniteSet(1 .. n) /\ Cardinality(1 .. n) = n
    BY FS_Interval
  <1>3. /\ IsFiniteSet({f} \X (1 .. n))
        /\ Cardinality({f} \X (1 .. n)) = Cardinality({f}) * Cardinality(1 .. n)
    BY <1>1, <1>2, FS_Product
  <1>4. 1 * n = n
    OBVIOUS
  <1> QED BY <1>1, <1>2, <1>3, <1>4

\* A directory has a number of bytes.
LEMMA VolumeType ==
  ASSUME NEW dir, Files(dir)
  PROVE  IsFiniteSet(Bytes(dir)) /\ Volume(dir) \in Nat
  <1> DEFINE of == [f \in DOMAIN dir |-> {f} \X (1 .. dir[f].size)]
             parts == {of[f] : f \in DOMAIN dir}
  <1>1. of \in Surjection(DOMAIN dir, parts)
    BY DEF Surjection
  <1>2. IsFiniteSet(parts)
    BY <1>1, FS_Surjection DEF Files
  <1>3. \A P \in parts : IsFiniteSet(P)
    <2> SUFFICES ASSUME NEW f \in DOMAIN dir PROVE IsFiniteSet({f} \X (1 .. dir[f].size))
      OBVIOUS
    <2>1. dir[f].size \in Nat
      BY DEF Files
    <2> QED BY <2>1, BytesOfFile
  <1>4. Bytes(dir) = UNION parts
    BY DEF Bytes
  <1> HIDE DEF parts
  <1>5. IsFiniteSet(Bytes(dir))
    BY <1>2, <1>3, <1>4, FS_UNION
  <1> QED BY <1>5, FS_CardinalityType DEF Volume

\* A directory without one of its files has its bytes less.
LEMMA VolumeWithout ==
  ASSUME NEW dir, Files(dir), NEW f \in DOMAIN dir, NEW rest,
         DOMAIN rest = DOMAIN dir \ {f}, \A g \in DOMAIN rest : rest[g] = dir[g]
  PROVE  /\ Files(rest)
         /\ Volume(rest) \in Nat /\ Volume(rest) <= Volume(dir)
         /\ Volume(dir) = Volume(rest) + dir[f].size
  <1> DEFINE own == {f} \X (1 .. dir[f].size)
  <1>1. Files(rest)
    BY FS_RemoveElement DEF Files
  <1>2. IsFiniteSet(own) /\ Cardinality(own) = dir[f].size /\ dir[f].size \in Nat
    BY BytesOfFile DEF Files
  <1>3. IsFiniteSet(Bytes(rest)) /\ Volume(rest) \in Nat
    BY <1>1, VolumeType
  <1>4. Bytes(dir) = Bytes(rest) \cup own
    BY DEF Bytes
  <1>5. Bytes(rest) \cap own = {}
    BY DEF Bytes
  <1> HIDE DEF own
  <1>6. Volume(dir) = Volume(rest) + dir[f].size
    <2>1. Cardinality(Bytes(rest) \cup own)
            = Cardinality(Bytes(rest)) + Cardinality(own) - Cardinality(Bytes(rest) \cap own)
      BY <1>2, <1>3, FS_Union
    <2>2. Cardinality(Bytes(rest) \cap own) = 0
      BY <1>5, FS_EmptySet
    <2> QED BY <1>2, <1>3, <1>4, <2>1, <2>2 DEF Volume
  <1> QED BY <1>1, <1>2, <1>3, <1>6

LEMMA VolumeOfNone ==
  ASSUME NEW dir, DOMAIN dir = {}
  PROVE  Volume(dir) = 0
  <1>1. Bytes(dir) = {}
    BY DEF Bytes
  <1> QED BY <1>1, FS_EmptySet DEF Volume

-----------------------------------------------------------------------------
(* Types and the cap, on any clock.                                        *)

LEMMA TypedFiles == TypeOK /\ IsFiniteSet(OnDisk) => Files(disk)
  BY DEF TypeOK, OnDisk, Files

\* No file is typed otherwise by With and Without.
LEMMA WithFacts ==
  ASSUME TypeOK, IsFiniteSet(OnDisk), NEW f \in Captures, NEW bytes \in Nat, NEW now \in Int,
         disk' = With(f, bytes, now)
  PROVE  /\ OnDisk' = OnDisk \cup {f} /\ IsFiniteSet(OnDisk') /\ OnDisk' \subseteq Captures
         /\ \A g \in OnDisk' : disk'[g].size \in Nat /\ disk'[g].mtime \in Int
  <1>1. OnDisk' = OnDisk \cup {f}
    BY DEF With, OnDisk
  <1>2. IsFiniteSet(OnDisk')
    BY <1>1, FS_AddElement
  <1> QED BY <1>1, <1>2 DEF With, OnDisk, TypeOK

LEMMA WithoutFacts ==
  ASSUME TypeOK, IsFiniteSet(OnDisk), NEW f \in OnDisk, disk' = Without(f)
  PROVE  /\ OnDisk' = OnDisk \ {f} /\ IsFiniteSet(OnDisk') /\ OnDisk' \subseteq Captures
         /\ \A g \in OnDisk' : disk'[g] = disk[g]
         /\ \A g \in OnDisk' : disk'[g].size \in Nat /\ disk'[g].mtime \in Int
         /\ disk[f].size \in Nat
         /\ Used \in Nat /\ Used' \in Nat /\ Used' <= Used /\ Used = Used' + disk[f].size
  <1>1. OnDisk' = OnDisk \ {f} /\ \A g \in OnDisk' : disk'[g] = disk[g]
    BY DEF Without, OnDisk
  <1>2. IsFiniteSet(OnDisk')
    BY <1>1, FS_RemoveElement
  <1>3. Files(disk)
    BY TypedFiles
  <1>4. /\ Volume(disk') \in Nat /\ Volume(disk') <= Volume(disk)
        /\ Volume(disk) = Volume(disk') + disk[f].size
    BY <1>1, <1>3, VolumeWithout DEF OnDisk
  <1>5. disk[f].size \in Nat
    BY DEF TypeOK
  <1>6. Used = Volume(disk) /\ Used' = Volume(disk')
    BY DEF Used
  <1>7. Used \in Nat
    BY <1>3, <1>6, VolumeType
  <1> QED BY <1>1, <1>2, <1>4, <1>5, <1>6, <1>7 DEF TypeOK

LEMMA CapInit == Init => CapInv
  BY FS_EmptySet DEF Init, CapInv, TypeOK, OnDisk, Listed, Accounted, CapRespected, KeepsWhatFits

\* The file is opened, and then its bytes are written; nothing is counted yet.
LEMMA CapOpen ==
  ASSUME CapInv, NEW c \in Captures, NEW bytes \in Sizes, Open(c, bytes)
  PROVE  CapInv'
  <1>1. PICK d \in ClockSteps : clock' = clock + d /\ disk' = With(c, 0, clock + d)
    BY DEF Open
  <1>2. clock + d \in Int /\ bytes \in Nat
    BY ClockAssumption, SizeAssumption DEF CapInv, TypeOK
  <1>3. /\ IsFiniteSet(OnDisk') /\ OnDisk' \subseteq Captures
        /\ \A g \in OnDisk' : disk'[g].size \in Nat /\ disk'[g].mtime \in Int
    BY <1>1, <1>2, WithFacts DEF CapInv
  <1>4. /\ pc' = "opened" /\ cur' = c /\ size' = bytes /\ order' = Append(order, c)
        /\ left' = <<>> /\ total' = 0 /\ last' = 0 /\ vanished' = vanished
    BY DEF Open
  <1>5. TypeOK'
    BY <1>1, <1>2, <1>3, <1>4 DEF CapInv, TypeOK
  <1> QED BY <1>3, <1>4, <1>5 DEF CapInv, Listed, Accounted, CapRespected, KeepsWhatFits

LEMMA CapWrite ==
  ASSUME CapInv, Write \/ \E part \in 1 .. size : WriteSome(part)
  PROVE  CapInv'
  <1>1. /\ IsFiniteSet(OnDisk') /\ OnDisk' \subseteq Captures
        /\ \A g \in OnDisk' : disk'[g].size \in Nat /\ disk'[g].mtime \in Int
    <2>1. PICK bytes \in 1 .. size \cup {size} : cur \in OnDisk /\ disk' = With(cur, bytes, clock)
      BY DEF Write, WriteSome
    <2>2. cur \in Captures /\ bytes \in Nat /\ clock \in Int
      BY <2>1 DEF CapInv, TypeOK
    <2> QED BY <2>1, <2>2, WithFacts DEF CapInv
  <1>2. /\ pc = "opened" /\ pc' \in {"opened", "written"}
        /\ UNCHANGED <<clock, cur, size, left, total, last, order, vanished>>
    BY DEF Write, WriteSome, pruneVars
  <1>3. TypeOK'
    BY <1>1, <1>2 DEF CapInv, TypeOK
  <1> QED BY <1>1, <1>2, <1>3 DEF CapInv, Listed, Accounted, CapRespected, KeepsWhatFits

\* The loop begins with what there is.
LEMMA CapScan ==
  ASSUME CapInv, Scan
  PROVE  CapInv'
  <1>1. /\ pc = "written" /\ pc' = "pruning" /\ total' = Used
        /\ left' = [f \in OnDisk |-> disk[f].mtime]
        /\ UNCHANGED <<clock, disk, cur, size, last, order, vanished>>
    BY DEF Scan
  <1>2. OnDisk' = OnDisk /\ Used' = Used
    BY <1>1 DEF OnDisk, Used
  <1>3. Used \in Nat
    BY TypedFiles, VolumeType DEF CapInv, Used
  <1>4. TypeOK'
    BY <1>1, <1>2, <1>3 DEF CapInv, TypeOK
  <1>5. last = 0
    BY <1>1 DEF CapInv, Accounted
  <1> QED BY <1>1, <1>2, <1>3, <1>4, <1>5
          DEF CapInv, Listed, Accounted, CapRespected, KeepsWhatFits

\* One turn: as many bytes go from the count as from the directory.
LEMMA CapPrune ==
  ASSUME CapInv, NEW f \in Captures, Prune(f)
  PROVE  CapInv'
  <1>1. /\ pc = "pruning" /\ pc' = pc /\ total > MaxBytes /\ f \in OnDisk
        /\ disk' = Without(f) /\ last' = disk[f].size /\ total' = total - disk[f].size
        /\ left' = [g \in DOMAIN left \ {f} |-> left[g]]
        /\ UNCHANGED <<clock, cur, size, order, vanished>>
    BY DEF Prune, Unlink
  <1>2. /\ OnDisk' = OnDisk \ {f} /\ IsFiniteSet(OnDisk') /\ OnDisk' \subseteq Captures
        /\ \A g \in OnDisk' : disk'[g] = disk[g]
        /\ \A g \in OnDisk' : disk'[g].size \in Nat /\ disk'[g].mtime \in Int
        /\ disk[f].size \in Nat
        /\ Used \in Nat /\ Used' \in Nat /\ Used = Used' + disk[f].size
    BY <1>1, WithoutFacts DEF CapInv
  <1>3. total \in Nat /\ Used <= total /\ total' \in Nat /\ Used' <= total'
    BY <1>1, <1>2 DEF CapInv, TypeOK, Accounted
  <1>4. vanished = {} => total' = Used' /\ total' + last' > MaxBytes
    BY <1>1, <1>2, <1>3, SizeAssumption DEF CapInv, Accounted
  <1>5. TypeOK'
    BY <1>1, <1>2, <1>3 DEF CapInv, TypeOK
  <1>6. Listed'
    BY <1>1, <1>2 DEF CapInv, Listed
  <1> QED BY <1>1, <1>2, <1>3, <1>4, <1>5, <1>6
          DEF CapInv, Accounted, CapRespected, KeepsWhatFits

\* What others delete makes room.
LEMMA CapDelete ==
  ASSUME CapInv, NEW f \in Captures, Delete(f)
  PROVE  CapInv'
  <1>1. /\ f \in OnDisk /\ disk' = Without(f) /\ vanished' = vanished \cup {f}
        /\ UNCHANGED <<clock, pc, cur, size, left, total, last, order>>
    BY DEF Delete, pruneVars
  <1>2. /\ OnDisk' = OnDisk \ {f} /\ IsFiniteSet(OnDisk') /\ OnDisk' \subseteq Captures
        /\ \A g \in OnDisk' : disk'[g] = disk[g]
        /\ \A g \in OnDisk' : disk'[g].size \in Nat /\ disk'[g].mtime \in Int
        /\ Used \in Nat /\ Used' \in Nat /\ Used' <= Used
    BY <1>1, WithoutFacts DEF CapInv
  <1>3. TypeOK'
    BY <1>1, <1>2 DEF CapInv, TypeOK
  <1>4. Listed'
    BY <1>1, <1>2 DEF CapInv, Listed
  <1>5. Accounted' /\ CapRespected' /\ KeepsWhatFits'
    <2>1. vanished' # {}
      BY <1>1
    <2>2. pc = "pruning" => Used' <= total
      BY <1>2 DEF CapInv, TypeOK, Accounted
    <2>3. pc = "returned" => Used' <= MaxBytes
      BY <1>2, SizeAssumption DEF CapInv, CapRespected
    <2> QED BY <1>1, <2>1, <2>2, <2>3 DEF CapInv, Accounted, CapRespected, KeepsWhatFits
  <1> QED BY <1>2, <1>3, <1>4, <1>5 DEF CapInv

\* The loop ends when what it counts fits, or when it has deleted everything.
LEMMA CapReturn ==
  ASSUME CapInv, Return
  PROVE  CapInv'
  <1>1. /\ pc = "pruning" /\ pc' = "returned" /\ (total <= MaxBytes \/ DOMAIN left = {})
        /\ UNCHANGED <<clock, disk, cur, size, left, total, last, order, vanished>>
    BY DEF Return, pruneVars
  <1>2. OnDisk' = OnDisk /\ Used' = Used /\ Used \in Nat
    BY <1>1, TypedFiles, VolumeType DEF OnDisk, Used, CapInv
  <1>3. Used <= MaxBytes
    <2>1. CASE total <= MaxBytes
      BY <1>1, <1>2, <2>1, SizeAssumption DEF CapInv, Accounted, TypeOK
    <2>2. CASE DOMAIN left = {}
      <3>1. OnDisk = {}
        BY <1>1, <2>2 DEF CapInv, Listed
      <3> QED BY <3>1, VolumeOfNone, SizeAssumption DEF Used, OnDisk
    <2> QED BY <1>1, <2>1, <2>2
  <1>4. TypeOK'
    BY <1>1, <1>2 DEF CapInv, TypeOK
  <1> QED BY <1>1, <1>2, <1>3, <1>4
          DEF CapInv, Listed, Accounted, CapRespected, KeepsWhatFits

\* The steps that neither count nor delete.
LEMMA CapOther ==
  ASSUME CapInv, UNCHANGED <<clock, disk, cur, size, order, vanished>>,
         \/ UNCHANGED <<left, total, last>>
         \/ left' = <<>> /\ total' = 0 /\ last' = 0,
         \/ UNCHANGED <<pc, left, total, last>>
         \/ pc' \in {"idle", "failed", "down"}
         \/ pc = "opened" /\ pc' = "written" /\ last' = last
  PROVE  CapInv'
  <1>1. OnDisk' = OnDisk /\ Used' = Used
    BY DEF OnDisk, Used
  <1>2. TypeOK'
    BY <1>1 DEF CapInv, TypeOK
  <1> QED BY <1>1, <1>2 DEF CapInv, Listed, Accounted, CapRespected, KeepsWhatFits

THEOREM CapInvariant == Spec => []CapInv
  <1>1. CapInv /\ [Next]_vars => CapInv'
    <2> SUFFICES ASSUME CapInv, [Next]_vars PROVE CapInv'
      OBVIOUS
    <2>1. ASSUME NEW f \in Captures, PruneFails(f) PROVE CapInv'
      BY <2>1, CapOther DEF PruneFails, pruneVars
    <2>2. CASE WriteNowhere \/ WriteFails \/ ScanFails
      BY <2>2, CapOther DEF WriteNowhere, WriteFails, ScanFails, pruneVars
    <2>3. CASE Kill \/ Restart
      BY <2>3, CapOther DEF Kill, Restart, pruneVars
    <2>4. CASE UNCHANGED vars
      BY <2>4, CapOther DEF vars, pruneVars
    <2> QED BY <2>1, <2>2, <2>3, <2>4, CapOpen, CapWrite, CapScan, CapPrune, CapDelete,
               CapReturn DEF Next, Persist
  <1> QED BY <1>1, CapInit, PTL DEF Spec

\* The variables of the buffer keep their types.
THEOREM TypeCorrect == Spec => []TypeOK
  <1>1. CapInv => TypeOK
    BY DEF CapInv
  <1> QED BY <1>1, CapInvariant, PTL

\* "The buffer is pruned oldest-first to stay under the configured cap"
\* (README.md:187): for any frames and any cap, whatever crashes, full disks and other
\* deletions left behind, all there is fits whenever persist has returned.
THEOREM CapIsRespected == Spec => []CapRespected
  <1>1. CapInv => CapRespected
    BY DEF CapInv
  <1> QED BY <1>1, CapInvariant, PTL

\* Nothing is deleted that would have fitted (persistence.py:29).
THEOREM WhatFitsIsKept == Spec => []KeepsWhatFits
  <1>1. CapInv => KeepsWhatFits
    BY DEF CapInv
  <1> QED BY <1>1, CapInvariant, PTL

-----------------------------------------------------------------------------
(* Oldest first, on a clock that moves forward.                            *)

Base == clock \in Int /\ order \in Seq(Captures) /\ Dated /\ Listed

LEMMA BaseInit == Init => Base /\ SurvivorsAreNewest
  BY DEF Init, Base, Dated, Listed, SurvivorsAreNewest, OnDisk

LEMMA AppendFacts ==
  ASSUME NEW s \in Seq(Captures), NEW c \in Captures
  PROVE  /\ Append(s, c) \in Seq(Captures)
         /\ Len(s) \in Nat /\ Len(Append(s, c)) = Len(s) + 1
         /\ DOMAIN Append(s, c) = 1 .. Len(s) + 1
         /\ DOMAIN s = 1 .. Len(s)
         /\ \A i \in 1 .. Len(s) : Append(s, c)[i] = s[i]
         /\ Append(s, c)[Len(s) + 1] = c
  OBVIOUS

\* A new capture is the last in the order, the youngest file, and an empty one.
LEMMA OpenStep ==
  ASSUME Forward, Base, SurvivorsAreNewest, NEW c \in Captures, NEW bytes \in Sizes,
         Open(c, bytes)
  PROVE  Base' /\ SurvivorsAreNewest'
  <1> DEFINE n == Len(order) + 1
  <1>1. PICK d \in ClockSteps : clock' = clock + d /\ disk' = With(c, 0, clock + d)
    BY DEF Open
  <1>2. d \in Int /\ d > 0 /\ clock \in Int
    BY ClockAssumption DEF Forward, Base
  <1>3. clock' \in Int /\ clock' > clock
    BY <1>1, <1>2
  <1>4. /\ order' = Append(order, c) /\ order \in Seq(Captures)
        /\ cur' = c /\ vanished' = vanished /\ pc' = "opened"
        /\ \A i \in DOMAIN order : order[i] # c
    BY DEF Open, Base
  <1>5. /\ order' \in Seq(Captures) /\ Len(order') = n
        /\ DOMAIN order' = 1 .. n /\ DOMAIN order = 1 .. n - 1
        /\ \A i \in 1 .. n - 1 : order'[i] = order[i]
        /\ order'[n] = c /\ n \in Nat /\ n > 0
    BY <1>4, AppendFacts
  <1> HIDE DEF n
  <1>6. /\ OnDisk' = OnDisk \cup {c} /\ c \notin OnDisk
        /\ disk'[c].mtime = clock'
        /\ \A f \in OnDisk : disk'[f] = disk[f]
    <2>1. OnDisk' = OnDisk \cup {c}
      BY <1>1 DEF With, OnDisk
    <2>2. c \notin OnDisk
      BY <1>4 DEF Base, Dated
    <2>3. disk'[c].mtime = clock' /\ \A f \in OnDisk : disk'[f] = disk[f]
      BY <1>1, <2>2 DEF With
    <2> QED BY <2>1, <2>2, <2>3
  <1>7. \A i, j \in DOMAIN order' : i < j => order'[i] # order'[j]
    BY <1>4, <1>5 DEF Base, Dated
  <1>8. \A f \in OnDisk' : /\ disk'[f].mtime \in Int /\ disk'[f].mtime <= clock'
                           /\ \E i \in DOMAIN order' : order'[i] = f
    <2> TAKE f \in OnDisk'
    <2>1. CASE f = c
      BY <1>3, <1>5, <1>6, <2>1
    <2>2. CASE f \in OnDisk
      <3>1. disk[f].mtime \in Int /\ disk[f].mtime <= clock
        BY <2>2 DEF Base, Dated
      <3>2. disk'[f].mtime \in Int /\ disk'[f].mtime <= clock'
        BY <1>2, <1>3, <1>6, <2>2, <3>1
      <3>3. \E i \in DOMAIN order' : order'[i] = f
        BY <1>5, <2>2 DEF Base, Dated
      <3> QED BY <3>2, <3>3
    <2> QED BY <1>6, <2>1, <2>2
  <1>9. \A f \in OnDisk : disk'[f].mtime < clock'
    BY <1>2, <1>3, <1>6 DEF Base, Dated
  <1>10. \A i, j \in DOMAIN order' :
           i < j /\ {order'[i], order'[j]} \subseteq OnDisk'
             => disk'[order'[i]].mtime < disk'[order'[j]].mtime
    <2> SUFFICES ASSUME NEW i \in 1 .. n, NEW j \in 1 .. n, i < j,
                        order'[i] \in OnDisk', order'[j] \in OnDisk'
                 PROVE  disk'[order'[i]].mtime < disk'[order'[j]].mtime
      BY <1>5
    <2>1. order'[i] \in OnDisk /\ i \in 1 .. n - 1
      BY <1>4, <1>5, <1>6
    <2>2. CASE j = n
      BY <1>5, <1>6, <1>9, <2>1, <2>2
    <2>3. CASE j # n
      <3>1. j \in 1 .. n - 1
        BY <1>5, <2>3
      <3>2. order'[j] \in OnDisk
        BY <1>4, <1>5, <1>6, <3>1
      <3>3. order[i] \in OnDisk /\ order[j] \in OnDisk /\ i \in DOMAIN order /\ j \in DOMAIN order
        BY <1>5, <2>1, <3>1, <3>2
      <3>4. disk[order[i]].mtime < disk[order[j]].mtime
        BY <3>3 DEF Base, Dated
      <3>5. disk'[order[i]] = disk[order[i]] /\ disk'[order[j]] = disk[order[j]]
        BY <1>6, <3>3
      <3>6. order'[i] = order[i] /\ order'[j] = order[j]
        BY <1>5, <2>1, <3>1
      <3> QED BY <3>4, <3>5, <3>6
    <2> QED BY <2>2, <2>3
  <1>11. order' # <<>> /\ cur' = order'[Len(order')]
    BY <1>4, <1>5
  <1>12. Dated'
    BY <1>4, <1>6, <1>7, <1>8, <1>9, <1>10, <1>11 DEF Dated
  <1>13. SurvivorsAreNewest'
    <2> SUFFICES ASSUME NEW i \in 1 .. n, NEW j \in 1 .. n, i < j, order'[i] \in OnDisk'
                 PROVE  order'[j] \in OnDisk' \cup vanished'
      BY <1>5 DEF SurvivorsAreNewest
    <2>1. order'[i] \in OnDisk /\ i \in 1 .. n - 1
      BY <1>4, <1>5, <1>6
    <2>2. CASE j = n
      BY <1>5, <1>6, <2>2
    <2>3. CASE j # n
      <3>1. j \in 1 .. n - 1
        BY <1>5, <2>3
      <3> QED BY <1>4, <1>5, <1>6, <2>1, <3>1 DEF SurvivorsAreNewest
    <2> QED BY <2>2, <2>3
  <1> QED BY <1>3, <1>4, <1>5, <1>12, <1>13 DEF Base, Listed

\* The bytes of the file that was opened: it is as old as before.
LEMMA WriteStep ==
  ASSUME Base, SurvivorsAreNewest, Write \/ \E part \in 1 .. size : WriteSome(part)
  PROVE  Base' /\ SurvivorsAreNewest'
  <1>1. cur = order[Len(order)] /\ \A f \in OnDisk \ {cur} : disk[f].mtime < clock
    BY DEF Write, WriteSome, Base, Dated
  <1>2. /\ OnDisk' = OnDisk /\ cur \in OnDisk
        /\ disk'[cur].mtime = clock
        /\ \A f \in OnDisk \ {cur} : disk'[f] = disk[f]
    BY DEF Write, WriteSome, With, OnDisk
  <1>3. /\ pc' \in {"opened", "written"}
        /\ clock' = clock /\ order' = order /\ vanished' = vanished /\ cur' = cur
    BY DEF Write, WriteSome, Base
  <1>4. \A f \in OnDisk' : /\ disk'[f].mtime \in Int /\ disk'[f].mtime <= clock'
                           /\ \E i \in DOMAIN order' : order'[i] = f
    BY <1>2, <1>3 DEF Base, Dated
  <1>5. \A i, j \in DOMAIN order :
          i < j /\ {order[i], order[j]} \subseteq OnDisk
            => disk'[order[i]].mtime < disk'[order[j]].mtime
    <2> SUFFICES ASSUME NEW i \in DOMAIN order, NEW j \in DOMAIN order, i < j,
                        order[i] \in OnDisk, order[j] \in OnDisk
                 PROVE  disk'[order[i]].mtime < disk'[order[j]].mtime
      OBVIOUS
    <2>1. order[i] # cur
      <3>1. Len(order) \in DOMAIN order /\ i < Len(order)
        BY DEF Base
      <3> QED BY <1>1, <3>1 DEF Base, Dated
    <2>2. CASE order[j] = cur
      BY <1>1, <1>2, <2>1, <2>2
    <2>3. CASE order[j] # cur
      BY <1>2, <2>1, <2>3 DEF Base, Dated
    <2> QED BY <2>2, <2>3
  <1>6. pc' = "opened" =>
          /\ order' # <<>> /\ cur' = order'[Len(order')]
          /\ \A f \in OnDisk' \ {cur'} : disk'[f].mtime < clock'
    <2>1. order # <<>>
      BY DEF Write, WriteSome, Base, Dated
    <2> QED BY <1>1, <1>2, <1>3, <2>1
  <1>7. Dated'
    BY <1>2, <1>3, <1>4, <1>5, <1>6 DEF Base, Dated
  <1> QED BY <1>2, <1>3, <1>7 DEF Base, Listed, SurvivorsAreNewest

\* One file fewer: the others are as old as before.
LEMMA FewerFiles ==
  ASSUME Base, NEW f \in OnDisk, disk' = Without(f), UNCHANGED <<clock, order, cur, pc>>
  PROVE  /\ OnDisk' = OnDisk \ {f}
         /\ \A g \in OnDisk' : disk'[g] = disk[g]
         /\ Dated'
  <1>1. OnDisk' = OnDisk \ {f} /\ \A g \in OnDisk' : disk'[g] = disk[g]
    BY DEF Without, OnDisk
  <1> QED BY <1>1 DEF Base, Dated

\* The oldest file goes, and no earlier capture has one left.
LEMMA PruneStep ==
  ASSUME Base, SurvivorsAreNewest, NEW f \in Captures, Prune(f)
  PROVE  Base' /\ SurvivorsAreNewest'
  <1>1. /\ pc = "pruning" /\ f \in OnDisk /\ disk' = Without(f)
        /\ UNCHANGED <<clock, pc, cur, order, vanished>>
        /\ left' = [g \in DOMAIN left \ {f} |-> left[g]]
        /\ \A g \in DOMAIN left : left[f] <= left[g]
    BY DEF Prune, Unlink, Oldest
  <1>2. /\ OnDisk' = OnDisk \ {f} /\ Dated'
        /\ \A g \in OnDisk' : disk'[g] = disk[g]
    BY <1>1, FewerFiles
  <1>3. \A g \in OnDisk : disk[f].mtime <= disk[g].mtime
    BY <1>1 DEF Base, Listed
  <1>4. Listed'
    BY <1>1, <1>2 DEF Base, Listed
  <1>5. SurvivorsAreNewest'
    <2> SUFFICES ASSUME NEW i \in DOMAIN order, NEW j \in DOMAIN order, i < j,
                        order[i] \in OnDisk', order[j] = f
                 PROVE  FALSE
      BY <1>1, <1>2 DEF SurvivorsAreNewest
    <2>1. disk[order[i]].mtime < disk[f].mtime
      BY <1>1, <1>2 DEF Base, Dated
    <2>2. disk[f].mtime <= disk[order[i]].mtime
      BY <1>2, <1>3
    <2>3. disk[f].mtime \in Int /\ disk[order[i]].mtime \in Int
      BY <1>1, <1>2 DEF Base, Dated
    <2> QED BY <2>1, <2>2, <2>3
  <1> QED BY <1>1, <1>2, <1>4, <1>5 DEF Base

LEMMA DeleteStep ==
  ASSUME Base, SurvivorsAreNewest, NEW f \in Captures, Delete(f)
  PROVE  Base' /\ SurvivorsAreNewest'
  <1>1. /\ f \in OnDisk /\ disk' = Without(f) /\ vanished' = vanished \cup {f}
        /\ UNCHANGED <<clock, pc, cur, order, left>>
    BY DEF Delete, pruneVars
  <1>2. /\ OnDisk' = OnDisk \ {f} /\ Dated'
        /\ \A g \in OnDisk' : disk'[g] = disk[g]
    BY <1>1, FewerFiles
  <1> QED BY <1>1, <1>2 DEF Base, Listed, SurvivorsAreNewest

\* The listing has every file, by its mtime.
LEMMA ScanStep ==
  ASSUME Base, SurvivorsAreNewest, Scan
  PROVE  Base' /\ SurvivorsAreNewest'
  <1>1. /\ UNCHANGED <<clock, disk, cur, order, vanished>> /\ pc' = "pruning"
        /\ left' = [f \in OnDisk |-> disk[f].mtime]
    BY DEF Scan
  <1> QED BY <1>1 DEF Base, Dated, Listed, SurvivorsAreNewest, OnDisk

\* The steps that touch no file.
LEMMA OtherStep ==
  ASSUME Base, SurvivorsAreNewest,
         UNCHANGED <<clock, disk, order, vanished>>,
         pc' # "opened" \/ UNCHANGED <<pc, cur>>,
         pc' # "pruning" \/ UNCHANGED <<pc, left>>
  PROVE  Base' /\ SurvivorsAreNewest'
  BY DEF Base, Dated, Listed, SurvivorsAreNewest, OnDisk

LEMMA InvStep ==
  ASSUME Forward, Base, SurvivorsAreNewest, [Next]_vars
  PROVE  Base' /\ SurvivorsAreNewest'
  <1>1. ASSUME NEW f \in Captures, PruneFails(f) PROVE Base' /\ SurvivorsAreNewest'
    BY <1>1, OtherStep DEF PruneFails
  <1>2. CASE WriteNowhere \/ WriteFails \/ ScanFails \/ Return \/ Kill \/ Restart
    BY <1>2, OtherStep DEF WriteNowhere, WriteFails, ScanFails, Return, Kill, Restart
  <1>3. CASE UNCHANGED vars
    BY <1>3, OtherStep DEF vars, pruneVars
  <1> QED BY <1>1, <1>2, <1>3, OpenStep, WriteStep, ScanStep, PruneStep, DeleteStep
          DEF Next, Persist

\* On a clock that moves forward the inductive invariant holds.
THEOREM InvariantHolds ==
  ASSUME Forward PROVE Spec => []IInv
  <1>1. Base /\ SurvivorsAreNewest /\ [Next]_vars => (Base /\ SurvivorsAreNewest)'
    BY InvStep
  <1>2. Base /\ SurvivorsAreNewest => IInv
    BY DEF Base, IInv
  <1> QED BY <1>1, <1>2, BaseInit, PTL DEF Spec

\* "The buffer is pruned oldest-first" (README.md:187) by capture, whatever else
\* happens to the directory and to the process.
THEOREM OldestGoFirst ==
  ASSUME Forward PROVE Spec => []SurvivorsAreNewest
  <1>1. IInv => SurvivorsAreNewest
    BY DEF IInv
  <1> QED BY <1>1, InvariantHolds, PTL
=============================================================================
