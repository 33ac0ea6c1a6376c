---------------------------- MODULE StorageProofs ----------------------------
(***************************************************************************)
(* For any number of writers, inodes and values: the vault path never      *)
(* shows a partial file, no error leaves a temporary file behind, no call  *)
(* loses its own, and write_atomic implements AtomicStore.                 *)
(*                                                                         *)
(* VaultNeverTorn is not inductive: it says nothing of a temporary file    *)
(* that os.replace is about to publish.  StorageInv adds what each program *)
(* counter knows of its temporary file.                                    *)
(***************************************************************************)
EXTENDS Storage, TLAPS

\* The calls before os.replace, and those after it.
Before == {"fchmod", "write", "fsync", "replace"}
After == {"fsync_dir", "return"}

\* No two calls share a temporary file.
TempsDistinct ==
  \A w, x \in Writers : w # x /\ ino[w] # Nothing => ino[w] # ino[x]

\* Before os.replace the file is a temporary one that no vault path names;
\* after it the name is gone; from the write on it holds the data, and after
\* the fsync the medium does.
CallInv ==
  \A w \in Writers :
    /\ pc[w] \in Before => ino[w] \in temps /\ ino[w] # target /\ ino[w] # durTarget
    /\ pc[w] \in After => ino[w] \notin temps
    /\ pc[w] \in {"fsync", "replace"} => cache[ino[w]] = data[w]
    /\ pc[w] = "replace" => disk[ino[w]] = data[w]
    /\ DirSyncWorks /\ pc[w] = "return" => w \notin unsynced

\* What a vault path names, live or durable, is complete and clean.
Published ==
  \A i \in Inodes : i = target \/ i = durTarget => cache[i] = disk[i] /\ disk[i] \in Values

NamesDisjoint == target \notin temps /\ durTarget \notin durTemps

StorageInv ==
  TypeOK /\ TempsDistinct /\ CallInv /\ Published /\ NamesDisjoint /\ NoStrayTempFile

-----------------------------------------------------------------------------
\* The invariant holds before the first call of write_atomic.
LEMMA InitInv == Init => StorageInv
<1> SUFFICES ASSUME Init PROVE StorageInv
  OBVIOUS
<1>1. PICK v \in Values : cache = [i \in Inodes |-> IF i = target THEN v ELSE Partial]
  BY DEF Init
<1>2. TypeOK
  BY <1>1, StorageAssumption DEF Init, TypeOK, Contents, PCs
<1>3. TempsDistinct /\ CallInv /\ NamesDisjoint /\ NoStrayTempFile
  BY StorageAssumption DEF Init, TempsDistinct, CallInv, NamesDisjoint, NoStrayTempFile, Before, After
<1>4. Published
  BY <1>1, StorageAssumption DEF Init, Published
<1> QED
  BY <1>2, <1>3, <1>4 DEF StorageInv

\* Every system call, error, signal, kill and power failure keeps the invariant.
LEMMA StepInv == StorageInv /\ [Next]_vars => StorageInv'
<1> SUFFICES ASSUME StorageInv, [Next]_vars PROVE StorageInv'
  OBVIOUS
<1> USE StorageAssumption DEF StorageInv, TypeOK, TempsDistinct, CallInv, Published,
        NamesDisjoint, NoStrayTempFile, Before, After, PCs, Contents, dirVars
<1>1. ASSUME NEW w \in Writers, NEW v \in Values, mkstemp(w, v) PROVE StorageInv'
  <2>1. PICK i \in Inodes :
          /\ Free(i)
          /\ temps' = temps \cup {i}
          /\ cache' = [cache EXCEPT ![i] = Partial]
          /\ disk' = [disk EXCEPT ![i] = Partial]
          /\ ino' = [ino EXCEPT ![w] = i]
    BY <1>1 DEF mkstemp
  <2>2. TypeOK'
    BY <1>1, <2>1 DEF mkstemp, Goto, Free
  <2>3. TempsDistinct'
    BY <1>1, <2>1 DEF mkstemp, Goto, Free
  <2>4. CallInv'
    BY <1>1, <2>1 DEF mkstemp, Goto, Free
  <2>5. (Published /\ NamesDisjoint /\ NoStrayTempFile)'
    BY <1>1, <2>1 DEF mkstemp, Goto, Free
  <2> QED
    BY <2>2, <2>3, <2>4, <2>5
<1>2. ASSUME NEW w \in Writers, fchmod(w) PROVE StorageInv'
  BY <1>2 DEF fchmod, Goto
<1>3. ASSUME NEW w \in Writers, write(w) PROVE StorageInv'
  <2>1. TypeOK' /\ TempsDistinct' /\ NamesDisjoint' /\ NoStrayTempFile'
    BY <1>3 DEF write, Goto
  <2>2. CallInv' /\ Published'
    BY <1>3 DEF write, Goto
  <2> QED
    BY <2>1, <2>2
<1>4. ASSUME NEW w \in Writers, fsync(w) PROVE StorageInv'
  <2>1. TypeOK' /\ TempsDistinct' /\ NamesDisjoint' /\ NoStrayTempFile'
    BY <1>4 DEF fsync, Goto
  <2>2. CallInv' /\ Published'
    BY <1>4 DEF fsync, Goto
  <2> QED
    BY <2>1, <2>2
<1>5. ASSUME NEW w \in Writers, replace(w) PROVE StorageInv'
  <2>1. TypeOK' /\ TempsDistinct' /\ NamesDisjoint' /\ NoStrayTempFile'
    BY <1>5 DEF replace, Goto
  <2>2. CallInv' /\ Published'
    BY <1>5 DEF replace, Goto
  <2> QED
    BY <2>1, <2>2
<1>6. ASSUME NEW w \in Writers, fsync_directory(w) PROVE StorageInv'
  <2>1. CASE CommitDirectory
    BY <1>6, <2>1 DEF fsync_directory, Goto, CommitDirectory
  <2>2. CASE ~DirSyncWorks /\ UNCHANGED <<durTarget, durTemps, unsynced>>
    BY <1>6, <2>2 DEF fsync_directory, Goto
  <2>3. \/ CommitDirectory
        \/ ~DirSyncWorks /\ UNCHANGED <<durTarget, durTemps, unsynced>>
    <3> HIDE DEF StorageInv, dirVars
    <3> QED
      BY <1>6, Zenon DEF fsync_directory
  <2> QED
    BY <2>1, <2>2, <2>3
<1>7. ASSUME NEW w \in Writers, Return(w) PROVE StorageInv'
  BY <1>7 DEF Return, Leave
<1>8. ASSUME NEW w \in Writers, Raise(w) PROVE StorageInv'
  <2>1. TypeOK' /\ TempsDistinct' /\ NamesDisjoint' /\ NoStrayTempFile'
    BY <1>8 DEF Raise
  <2>2. CallInv' /\ Published'
    BY <1>8 DEF Raise
  <2> QED
    BY <2>1, <2>2
<1>9. ASSUME NEW w \in Writers, unlink(w) PROVE StorageInv'
  BY <1>9 DEF unlink, Leave
<1>10. ASSUME NEW w \in Writers, EndAbruptly(w) PROVE StorageInv'
  BY <1>10 DEF EndAbruptly, Leave
<1>11. ASSUME NEW i \in Inodes, Writeback(i) PROVE StorageInv'
  BY <1>11 DEF Writeback
<1>12. CASE WritebackDirectory
  BY <1>12 DEF WritebackDirectory, CommitDirectory
<1>13. CASE PowerLoss
  BY <1>13 DEF PowerLoss
<1>14. CASE UNCHANGED vars
  BY <1>14 DEF vars
<1> QED
  BY <1>1, <1>2, <1>3, <1>4, <1>5, <1>6, <1>7, <1>8, <1>9, <1>10, <1>11, <1>12, <1>13, <1>14
     DEF Next, WriterStep

\* StorageInv is an invariant of storage.write_atomic over its file system.
THEOREM StorageInvariant == Spec => []StorageInv
BY InitInv, StepInv, PTL DEF Spec

\* The variables of write_atomic and of the file system keep their types, and
\* a writer has a temporary file and data exactly while its call runs.
THEOREM TypeCorrect == Spec => []TypeOK
<1>1. StorageInv => TypeOK
  BY DEF StorageInv
<1> QED
  BY <1>1, StorageInvariant, PTL

\* write_atomic never lets a reader, or the reboot after a power failure, find
\* a partial vault file.
THEOREM NeverTorn == Spec => []VaultNeverTorn
<1>1. StorageInv => VaultNeverTorn
  BY DEF StorageInv, TypeOK, Published, VaultNeverTorn
<1> QED
  BY <1>1, StorageInvariant, PTL

\* The except clause of write_atomic leaves no temporary file behind.
THEOREM NoLitter == Spec => []NoStrayTempFile
<1>1. StorageInv => NoStrayTempFile
  BY DEF StorageInv
<1> QED
  BY <1>1, StorageInvariant, PTL

\* No other call of write_atomic takes away, shares or overwrites the file that
\* a call is about to publish.
THEOREM OwnTempCorrect == Spec => []OwnTempStays
<1>1. StorageInv => OwnTempStays
  BY StorageAssumption DEF StorageInv, TypeOK, TempsDistinct, CallInv, OwnTempStays, Before
<1> QED
  BY <1>1, StorageInvariant, PTL

-----------------------------------------------------------------------------
\* The refinement.  A step of the system calls is the step of the register its
\* name suggests, or none: mkstemp begins a write, os.replace applies it, the
\* directory's fsync persists it.

\* The initial states of the file system are initial states of the register.
LEMMA InitRefines == Init => Atomic!StoreInit(ContentOf(target, cache))
<1> SUFFICES ASSUME Init PROVE Atomic!StoreInit(ContentOf(target, cache))
  OBVIOUS
<1>1. ContentOf(durTarget, disk) = ContentOf(target, cache)
  BY DEF Init, ContentOf
<1>2. [w \in Writers |-> Status(w)] = [w \in Writers |-> "idle"]
  BY DEF Init, Status
<1> QED
  BY <1>1, <1>2 DEF Init, Atomic!StoreInit

\* Every step of the file system is a step of the register or a stutter.
LEMMA StepRefines ==
  StorageInv /\ StorageInv' /\ [Next]_vars => [Atomic!StoreNext(Values)]_(Atomic!svars)
<1> SUFFICES ASSUME StorageInv, StorageInv', [Next]_vars
             PROVE  [Atomic!StoreNext(Values)]_(Atomic!svars)
  OBVIOUS
<1> USE StorageAssumption DEF StorageInv, TypeOK, CallInv, Published, NamesDisjoint,
        Before, After, PCs, Contents, dirVars
<1> DEFINE val == ContentOf(target, cache)
           dur == ContentOf(durTarget, disk)
           st == [w \in Writers |-> Status(w)]
           Stutter == /\ val' = val /\ dur' = dur /\ st' = st /\ data' = data /\ unsynced' = unsynced
                      /\ outcome' = outcome
<1>0. Stutter => UNCHANGED Atomic!svars
  BY DEF Atomic!svars
<1>a. ASSUME NEW x \in Writers, pc'[x] = pc[x], ino'[x] = ino[x],
             pc[x] # "idle" => (ino[x] \in temps' <=> ino[x] \in temps)
      PROVE  Status(x)' = Status(x)
  BY <1>a DEF Status
<1>1. ASSUME NEW w \in Writers, NEW v \in Values, mkstemp(w, v) PROVE Atomic!Begin(w, v)
  <2>1. PICK i \in Inodes :
          /\ Free(i)
          /\ temps' = temps \cup {i}
          /\ cache' = [cache EXCEPT ![i] = Partial]
          /\ disk' = [disk EXCEPT ![i] = Partial]
          /\ ino' = [ino EXCEPT ![w] = i]
    BY <1>1 DEF mkstemp
  <2>2. val' = val /\ dur' = dur
    BY <1>1, <2>1 DEF mkstemp, Free, ContentOf
  <2>3. Status(w) = "idle" /\ Status(w)' = "pending"
    BY <1>1 DEF mkstemp, Goto, Status
  <2>4. ASSUME NEW x \in Writers, x # w PROVE Status(x)' = Status(x)
    BY <1>1, <1>a, <2>1, <2>4 DEF mkstemp, Goto, Free
  <2>5. st' = [st EXCEPT ![w] = "pending"]
    BY <2>3, <2>4, ZenonT(60)
  <2> QED
    BY <1>1, <2>2, <2>3, <2>5 DEF mkstemp, Atomic!Begin
<1>2. ASSUME NEW w \in Writers, fchmod(w) PROVE Stutter
  BY <1>2 DEF fchmod, Goto, Status, ContentOf
<1>3. ASSUME NEW w \in Writers, write(w) PROVE Stutter
  BY <1>3 DEF write, Goto, Status, ContentOf
<1>4. ASSUME NEW w \in Writers, fsync(w) PROVE Stutter
  BY <1>4 DEF fsync, Goto, Status, ContentOf
<1>5. ASSUME NEW w \in Writers, replace(w) PROVE Atomic!Apply(w)
  <2>1. val' = data[w] /\ dur' = dur
    BY <1>5 DEF replace, Goto, ContentOf
  <2>2. Status(w) = "pending" /\ Status(w)' = "applied"
    BY <1>5 DEF replace, Goto, Status
  <2>3. ASSUME NEW x \in Writers, x # w PROVE Status(x)' = Status(x)
    BY <1>5, <1>a, <2>3 DEF replace, Goto, TempsDistinct
  <2>4. st' = [st EXCEPT ![w] = "applied"]
    BY <2>2, <2>3, ZenonT(60)
  <2> QED
    BY <1>5, <2>1, <2>2, <2>4 DEF replace, Atomic!Apply
<1>6. ASSUME NEW w \in Writers, fsync_directory(w) PROVE Atomic!Persist \/ Stutter
  <2>1. val' = val /\ data' = data /\ st' = st
    BY <1>6 DEF fsync_directory, Goto, Status, ContentOf
  <2>2. CASE CommitDirectory
    BY <1>6, <2>1, <2>2 DEF fsync_directory, CommitDirectory, ContentOf, Atomic!Persist
  <2>3. CASE UNCHANGED <<durTarget, durTemps, unsynced>>
    BY <1>6, <2>1, <2>3 DEF fsync_directory, ContentOf
  <2> QED
    BY <1>6, <2>2, <2>3 DEF fsync_directory
<1>b. ASSUME NEW w \in Writers, Leave(w), pc[w] # "idle",
             target' = target, durTarget' = durTarget, cache' = cache, disk' = disk,
             temps' = temps \/ temps' = temps \ {ino[w]}
      PROVE  Status(w) # "idle" /\ Atomic!End(w)
  <2>1. val' = val /\ dur' = dur
    BY <1>b DEF ContentOf
  <2>2. Status(w) # "idle" /\ Status(w)' = "idle"
    BY <1>b DEF Leave, Status
  <2>3. ASSUME NEW x \in Writers, x # w PROVE Status(x)' = Status(x)
    BY <1>a, <1>b, <2>3 DEF Leave, TempsDistinct
  <2>4. st' = [st EXCEPT ![w] = "idle"]
    BY <2>2, <2>3, ZenonT(60)
  <2> QED
    BY <1>b, <2>1, <2>2, <2>4 DEF Leave, Atomic!End
<1>7. ASSUME NEW w \in Writers, Return(w) PROVE Atomic!Finish(w)
  <2>1. Status(w) = "applied"
    BY <1>7 DEF Return, Status
  <2> QED
    BY <1>7, <1>b, <2>1 DEF Return, Atomic!Finish
<1>8. ASSUME NEW w \in Writers, Raise(w) PROVE Stutter
  <2>1. val' = val /\ dur' = dur
    BY <1>8 DEF Raise, ContentOf
  <2>2. Status(w)' = Status(w)
    BY <1>8 DEF Raise, Status
  <2>3. ASSUME NEW x \in Writers, x # w PROVE Status(x)' = Status(x)
    BY <1>8, <1>a, <2>3 DEF Raise
  <2> QED
    BY <1>8, <2>1, <2>2, <2>3 DEF Raise
<1>9. ASSUME NEW w \in Writers, unlink(w) PROVE Atomic!Abandon(w)
  BY <1>9, <1>b DEF unlink, Atomic!Abandon
<1>10. ASSUME NEW w \in Writers, EndAbruptly(w) PROVE Atomic!Abandon(w)
  BY <1>10, <1>b DEF EndAbruptly, Atomic!Abandon
<1>11. ASSUME NEW i \in Inodes, Writeback(i) PROVE Stutter
  BY <1>11 DEF Writeback, Status, ContentOf
<1>12. CASE WritebackDirectory
  <2>1. Atomic!Persist
    BY <1>12 DEF WritebackDirectory, CommitDirectory, Status, ContentOf, Atomic!Persist
  <2> QED
    BY <2>1 DEF Atomic!StoreNext
<1>13. CASE PowerLoss
  <2>1. st' = [w \in Writers |-> "idle"]
    BY <1>13 DEF PowerLoss, Status
  <2>2. Atomic!PowerLoss
    BY <1>13, <2>1 DEF PowerLoss, ContentOf, Atomic!PowerLoss
  <2> QED
    BY <2>2 DEF Atomic!StoreNext
<1>14. CASE UNCHANGED vars
  BY <1>0, <1>14 DEF vars, ContentOf, Status
<1> HIDE DEF Stutter
<1> QED
  BY <1>0, <1>1, <1>2, <1>3, <1>4, <1>5, <1>6, <1>7, <1>8, <1>9, <1>10, <1>11, <1>12, <1>13, <1>14
     DEF Next, WriterStep, Atomic!StoreNext

\* write_atomic, system call by system call, implements the atomic register
\* that the rest of the program relies on.
THEOREM Refinement == Spec => ImplementsAtomicStore
BY InitRefines, StepRefines, InitInv, StepInv, PTL DEF Spec, ImplementsAtomicStore
=============================================================================
