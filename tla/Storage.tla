------------------------------ MODULE Storage ------------------------------
(***************************************************************************)
(* storage.write_atomic, one action per system call, over a file system    *)
(* with a page cache.  Every inode has a content in the cache (what        *)
(* readers see) and one on the medium (what a power failure leaves), and   *)
(* the directory has a live and a durable version.  Any call of the body   *)
(* may raise, a signal may raise KeyboardInterrupt between any two of      *)
(* them, the process may be killed and the power may fail.                 *)
(***************************************************************************)
EXTENDS Naturals

CONSTANTS
  Writers,       \* callers of write_atomic
  Values,        \* serialized vault files they write
  Inodes,        \* inodes of the directory holding the vault
  Nothing,       \* "no inode", "no data", "no file"
  DirSyncWorks   \* does every _fsync_directory succeed?  Any may fail otherwise

\* The content of a file that holds none or only a part of what is written
\* to it.
Partial == "partial"

ASSUME StorageAssumption ==
  /\ Nothing \notin Inodes \cup Values
  /\ Partial \notin Values \cup {Nothing}
  /\ DirSyncWorks \in BOOLEAN

VARIABLES
  target,     \* live directory: the inode the vault path names
  temps,      \* live directory: the inodes .vault-*.tmp names point to
  durTarget,  \* the same two entries of the directory on the medium
  durTemps,
  cache,      \* cache[i]: the content of inode i that readers see
  disk,       \* disk[i]: the content of inode i on the medium
  pc,         \* pc[w]: the call write_atomic makes next, see PCs
  ino,        \* ino[w]: the inode of w's temporary file
  data,       \* data[w]: the argument of w's call
  unsynced,   \* history: writers whose os.replace is not known durable
  outcome,    \* history: how the latest call to end did, see AtomicStore
  abrupt      \* history: some call ended without running its cleanup

dirVars == <<target, temps, durTarget, durTemps>>
vars == <<dirVars, cache, disk, pc, ino, data, unsynced, outcome, abrupt>>

PCs == {"idle", "fchmod", "write", "fsync", "replace", "fsync_dir", "return", "unlink"}
Contents == Values \cup {Partial}

\* The directory may hold a complete vault already, or none.
Init ==
  /\ target \in Inodes \cup {Nothing}
  /\ durTarget = target
  /\ temps = {}
  /\ durTemps = {}
  /\ \E v \in Values : cache = [i \in Inodes |-> IF i = target THEN v ELSE Partial]
  /\ disk = cache
  /\ pc = [w \in Writers |-> "idle"]
  /\ ino = [w \in Writers |-> Nothing]
  /\ data = [w \in Writers |-> Nothing]
  /\ unsynced = {}
  /\ outcome = "failed"
  /\ abrupt = FALSE

-----------------------------------------------------------------------------
\* The calls of write_atomic

Goto(w, from, to) ==
  /\ pc[w] = from
  /\ pc' = [pc EXCEPT ![w] = to]

\* The call is over and its local variables are gone.
Leave(w) ==
  /\ pc' = [pc EXCEPT ![w] = "idle"]
  /\ ino' = [ino EXCEPT ![w] = Nothing]
  /\ data' = [data EXCEPT ![w] = Nothing]
  /\ unsynced' = unsynced \ {w}

Free(i) ==
  /\ i \notin {target, durTarget} \cup temps \cup durTemps
  /\ \A w \in Writers : ino[w] # i

\* tempfile.mkstemp: a new, empty file under a name of its own.
mkstemp(w, v) ==
  /\ Goto(w, "idle", "fchmod")
  /\ \E i \in Inodes :
       /\ Free(i)
       /\ temps' = temps \cup {i}
       /\ cache' = [cache EXCEPT ![i] = Partial]
       /\ disk' = [disk EXCEPT ![i] = Partial]
       /\ ino' = [ino EXCEPT ![w] = i]
  /\ data' = [data EXCEPT ![w] = v]
  /\ UNCHANGED <<target, durTarget, durTemps, unsynced, outcome, abrupt>>

\* os.fchmod: mkstemp made the file 0600 already, so no content changes.
fchmod(w) ==
  /\ Goto(w, "fchmod", "write")
  /\ UNCHANGED <<dirVars, cache, disk, ino, data, unsynced, outcome, abrupt>>

\* Mutant: the with block has no fsync, os.replace comes next.
writeThenReplace(w) ==
  /\ Goto(w, "write", "replace")
  /\ cache' = [cache EXCEPT ![ino[w]] = data[w]]
  /\ UNCHANGED <<dirVars, disk, ino, data, unsynced, outcome, abrupt>>

\* handle.write and handle.flush: the data is in the page cache.
write(w) ==
  /\ Goto(w, "write", "fsync")
  /\ cache' = [cache EXCEPT ![ino[w]] = data[w]]
  /\ UNCHANGED <<dirVars, disk, ino, data, unsynced, outcome, abrupt>>

\* os.fsync(handle.fileno()); the with block then closes the file.
fsync(w) ==
  /\ Goto(w, "fsync", "replace")
  /\ disk' = [disk EXCEPT ![ino[w]] = cache[ino[w]]]
  /\ UNCHANGED <<dirVars, cache, ino, data, unsynced, outcome, abrupt>>

\* os.replace(tmp_path, path): one atomic change of the live directory.
replace(w) ==
  /\ Goto(w, "replace", "fsync_dir")
  /\ target' = ino[w]
  /\ temps' = temps \ {ino[w]}
  /\ unsynced' = unsynced \cup {w}
  /\ UNCHANGED <<durTarget, durTemps, cache, disk, ino, data, outcome, abrupt>>

\* The live directory reaches the medium as it is.
CommitDirectory ==
  /\ durTarget' = target
  /\ durTemps' = temps
  /\ unsynced' = {}

\* Mutant: the directory is never synced.
fsyncDirectorySkipped(w) ==
  /\ Goto(w, "fsync_dir", "return")
  /\ UNCHANGED <<dirVars, cache, disk, ino, data, unsynced, outcome, abrupt>>

\* _fsync_directory: an OSError from its open or its fsync is swallowed.
fsync_directory(w) ==
  /\ Goto(w, "fsync_dir", "return")
  /\ \E synced \in {TRUE, DirSyncWorks} :
       IF synced THEN CommitDirectory ELSE UNCHANGED <<durTarget, durTemps, unsynced>>
  /\ UNCHANGED <<target, temps, cache, disk, ino, data, outcome, abrupt>>

\* write_atomic returns normally.
Return(w) ==
  /\ pc[w] = "return"
  /\ Leave(w)
  /\ outcome' = "returned"
  /\ UNCHANGED <<dirVars, cache, disk, abrupt>>

\* A call inside the try block raises OSError, or KeyboardInterrupt arrives
\* there.  A write that raises has written any part of the data.
Raise(w) ==
  /\ pc[w] \in {"fchmod", "write", "fsync", "replace", "fsync_dir", "return"}
  /\ pc' = [pc EXCEPT ![w] = "unlink"]
  /\ \/ UNCHANGED cache
     \/ pc[w] = "write" /\ \E part \in {Partial, data[w]} : cache' = [cache EXCEPT ![ino[w]] = part]
  /\ UNCHANGED <<dirVars, disk, ino, data, unsynced, outcome, abrupt>>

\* Mutant: the except clause only re-raises.
reraiseOnly(w) ==
  /\ pc[w] = "unlink"
  /\ Leave(w)
  /\ outcome' = "failed"
  /\ UNCHANGED <<dirVars, cache, disk, abrupt>>

\* Mutant: the except clause clears out every .vault-*.tmp.
unlinkAll(w) ==
  /\ pc[w] = "unlink"
  /\ temps' = {}
  /\ Leave(w)
  /\ outcome' = "failed"
  /\ UNCHANGED <<target, durTarget, durTemps, cache, disk, abrupt>>

\* The except clause: unlink the temporary name, which is gone if os.replace
\* has run (FileNotFoundError is ignored), and re-raise.
unlink(w) ==
  /\ pc[w] = "unlink"
  /\ temps' = temps \ {ino[w]}
  /\ Leave(w)
  /\ outcome' = "failed"
  /\ UNCHANGED <<target, durTarget, durTemps, cache, disk, abrupt>>

\* The call ends without cleaning up: KeyboardInterrupt between mkstemp and
\* the try block, another error from os.unlink or a signal inside the except
\* clause, or SIGKILL at any point.
EndAbruptly(w) ==
  /\ pc[w] # "idle"
  /\ abrupt' = TRUE
  /\ Leave(w)
  /\ outcome' = "failed"
  /\ UNCHANGED <<dirVars, cache, disk>>

-----------------------------------------------------------------------------
\* The file system

\* The kernel writes a dirty file back when it likes, all of it or a part.
Writeback(i) ==
  /\ disk[i] # cache[i]
  /\ \E c \in {cache[i], Partial} : disk' = [disk EXCEPT ![i] = c]
  /\ UNCHANGED <<dirVars, cache, pc, ino, data, unsynced, outcome, abrupt>>

\* The kernel commits the directory when it likes.
WritebackDirectory ==
  /\ CommitDirectory
  /\ UNCHANGED <<target, temps, cache, disk, pc, ino, data, outcome, abrupt>>

\* Power fails; after the reboot only what was on the medium is left.
PowerLoss ==
  /\ target' = durTarget
  /\ temps' = durTemps
  /\ cache' = disk
  /\ pc' = [w \in Writers |-> "idle"]
  /\ ino' = [w \in Writers |-> Nothing]
  /\ data' = [w \in Writers |-> Nothing]
  /\ unsynced' = {}
  /\ outcome' = "failed"
  /\ abrupt' = TRUE
  /\ UNCHANGED <<durTarget, durTemps, disk>>

WriterStep(w) ==
  \/ \E v \in Values : mkstemp(w, v)
  \/ fchmod(w) \/ write(w) \/ fsync(w) \/ replace(w)
  \/ fsync_directory(w) \/ Return(w)
  \/ Raise(w) \/ unlink(w) \/ EndAbruptly(w)

Next ==
  \/ \E w \in Writers : WriterStep(w)
  \/ \E i \in Inodes : Writeback(i)
  \/ WritebackDirectory
  \/ PowerLoss

Spec == Init /\ [][Next]_vars

-----------------------------------------------------------------------------
\* Properties

(***************************************************************************)
(* Every variable has its type, and a writer has a temporary file and data *)
(* exactly while its call runs.                                            *)
(***************************************************************************)
TypeOK ==
  /\ target \in Inodes \cup {Nothing}
  /\ durTarget \in Inodes \cup {Nothing}
  /\ temps \subseteq Inodes
  /\ durTemps \subseteq Inodes
  /\ cache \in [Inodes -> Contents]
  /\ disk \in [Inodes -> Contents]
  /\ pc \in [Writers -> PCs]
  /\ ino \in [Writers -> Inodes \cup {Nothing}]
  /\ data \in [Writers -> Values \cup {Nothing}]
  /\ unsynced \subseteq Writers
  /\ outcome \in {"returned", "failed"}
  /\ abrupt \in BOOLEAN
  /\ \A w \in Writers :
       /\ pc[w] = "idle" <=> ino[w] = Nothing
       /\ pc[w] = "idle" <=> data[w] = Nothing

(***************************************************************************)
(* The vault path never shows a partial file, now or after a power         *)
(* failure: what it names is complete in the cache and on the medium.      *)
(* Behaviour: write_atomic syncs the data before os.replace publishes it   *)
(* ("never a truncated or partially written vault", storage.py).           *)
(***************************************************************************)
VaultNeverTorn ==
  /\ target # Nothing => cache[target] \in Values /\ disk[target] \in Values
  /\ durTarget # Nothing => disk[durTarget] \in Values

(***************************************************************************)
(* A temporary file belongs to a call in progress, unless some call was    *)
(* cut off.  Behaviour: the except clause of write_atomic cleans up after  *)
(* every error raised in its try block, before and after os.replace.       *)
(***************************************************************************)
NoStrayTempFile ==
  abrupt \/ \A i \in temps : \E w \in Writers : ino[w] = i

(***************************************************************************)
(* Until its os.replace a call finds its temporary file where it left it,  *)
(* shared with no other call, and what it then publishes is its own data,  *)
(* in the cache and on the medium.  Behaviour: calls overlap where there   *)
(* is no flock, and mkstemp, the cleanup of a failed call and the          *)
(* os.replace of a finished one work in the same directory.                *)
(***************************************************************************)
OwnTempStays ==
  \A w \in Writers :
    pc[w] \in {"fchmod", "write", "fsync", "replace"} =>
      /\ ino[w] \in temps
      /\ \A x \in Writers \ {w} : ino[x] # ino[w]
      /\ pc[w] = "replace" => cache[ino[w]] = data[w] /\ disk[ino[w]] = data[w]

(***************************************************************************)
(* Over this file system write_atomic implements the register of module    *)
(* AtomicStore: readers and power failures see a whole old or a whole new  *)
(* file, and a call that returned normally is durable if no directory      *)
(* sync fails.                                                             *)
(***************************************************************************)
\* storage.read of a path that names inode i, in the cache or on the medium.
ContentOf(i, contents) == IF i = Nothing THEN Nothing ELSE contents[i]

\* The state of w's call as its caller may think of it.
Status(w) ==
  CASE pc[w] = "idle" -> "idle"
    [] pc[w] \in {"fsync_dir", "return"} -> "applied"
    [] pc[w] = "unlink" -> IF ino[w] \in temps THEN "pending" ELSE "applied"
    [] OTHER -> "pending"

Atomic == INSTANCE AtomicStore WITH
  val <- ContentOf(target, cache),
  dur <- ContentOf(durTarget, disk),
  st <- [w \in Writers |-> Status(w)],
  arg <- data

ImplementsAtomicStore ==
  /\ Atomic!StoreInit(ContentOf(target, cache))
  /\ [][Atomic!StoreNext(Values)]_(Atomic!svars)
=============================================================================
