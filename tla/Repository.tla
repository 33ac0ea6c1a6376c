----------------------------- MODULE Repository -----------------------------
(***************************************************************************)
(* repository.py with the file lock of locking.py, for several processes   *)
(* on one vault path.  The vault file is the register of AtomicStore (see  *)
(* Storage), its content a box (see SealedBox and Vault).                  *)
(*                                                                         *)
(* There are two kinds of callers: the LongLived ones keep a               *)
(* VaultRepository open and go on after an error; the others are the       *)
(* commands of cli.py, each of which opens it, makes at most one change    *)
(* and closes it.                                                          *)
(***************************************************************************)
EXTENDS SealedBox, Sequences, FiniteSets, SequencesExt

CONSTANTS
  Procs,          \* processes that use the vault
  Creators,       \* those that may run VaultRepository.create
  Passwords, Ids,
  Fields, Data,   \* an entry maps its fields to data
  MaxEntries,     \* bound on the entries of a vault
  Nothing,
  HasFlock,       \* does the platform have fcntl.flock?
  DirSyncWorks,   \* see Storage
  FailingWrites,  \* processes whose storage.write_atomic may raise
  LongLived       \* processes that keep a repository open

\* An entry's data (created_at and updated_at left out), the list that
\* serialize_entries turns into the plaintext, and the vault files.
Records == [Fields -> Data]
Entries == Seq([id : Ids, data : Records])
Boxes == [password : Passwords, counter : 0 .. MaxCounter, plaintext : Entries]

ASSUME RepositoryAssumption ==
  /\ Creators \subseteq Procs
  /\ Nothing \notin Procs \cup Boxes
  /\ Nothing \notin [password : Passwords, entries : UNION {[ids -> Records] : ids \in SUBSET Ids}]
  /\ MaxEntries \in Nat
  /\ HasFlock \in BOOLEAN /\ DirSyncWorks \in BOOLEAN
  /\ FailingWrites \subseteq Procs /\ LongLived \subseteq Procs

VARIABLES
  file,      \* the box the vault path shows, Nothing before create
  durFile,   \* the box a power failure would leave there
  st, arg, unsynced, outcome,   \* the calls of write_atomic, see AtomicStore
  lock,      \* the process that holds the flock on <vault>.lock
  pc,        \* pc[p]: where p is, see PCs
  unlocked,  \* unlocked[p]: p's UnlockedVault, as the box it would write back
  entries    \* entries[p]: the repository's list _entries

store == <<file, durFile, st, arg, unsynced, outcome>>
vars == <<store, lock, pc, unlocked, entries>>

\* idle      no repository
\* checked   create has found no file at the path
\* creating  create is writing the first file
\* loading   open has the lock and is about to read the file
\* open      a VaultRepository, at rest
\* saving    _persist is writing
\* rekeying  change_master_password is writing
\* closing   a command that is about to close its repository
PCs == {"idle", "checked", "creating", "loading", "open", "saving", "rekeying", "closing"}
Writing == {"creating", "saving", "rekeying"}
InSession == PCs \ {"idle", "checked"}

Store == INSTANCE AtomicStore WITH Writers <- Procs, val <- file, dur <- durFile

Init ==
  /\ Store!StoreInit(Nothing)
  /\ lock = Nothing
  /\ pc = [p \in Procs |-> "idle"]
  /\ unlocked = [p \in Procs |-> Nothing]
  /\ entries = [p \in Procs |-> <<>>]

-----------------------------------------------------------------------------
\* locking.py

\* Mutant: a lock held by another process is taken over.
acquireRegardless(p) == lock' = IF HasFlock THEN p ELSE lock

\* flock(LOCK_EX | LOCK_NB) fails at once if another process holds the lock
\* (VaultLockedError, and nothing has changed); without fcntl it does nothing.
acquire(p) ==
  IF HasFlock THEN lock = Nothing /\ lock' = p ELSE UNCHANGED lock

release(p) == lock' = IF lock = p THEN Nothing ELSE lock

-----------------------------------------------------------------------------
\* VaultRepository.create and open

Goto(p, from, to) ==
  /\ pc[p] \in from
  /\ pc' = [pc EXCEPT ![p] = to]

\* Mutant: the UnlockedVault outlives its repository.
endSessionKeepsVault(p) ==
  /\ pc' = [pc EXCEPT ![p] = "idle"]
  /\ entries' = [entries EXCEPT ![p] = <<>>]
  /\ release(p)
  /\ UNCHANGED unlocked

\* p's session is gone: its lock is released and its secrets dropped.
EndSession(p) ==
  /\ pc' = [pc EXCEPT ![p] = "idle"]
  /\ unlocked' = [unlocked EXCEPT ![p] = Nothing]
  /\ entries' = [entries EXCEPT ![p] = <<>>]
  /\ release(p)

\* create: os.path.exists says no (it raises FileExistsError otherwise).
create_check(p) ==
  /\ p \in Creators
  /\ Goto(p, {"idle"}, "checked")
  /\ file = Nothing
  /\ UNCHANGED <<store, lock, unlocked, entries>>

\* create: take the lock, seal an empty vault and start writing it.
create_write(p, pw) ==
  /\ Goto(p, {"checked"}, "creating")
  /\ acquire(p)
  /\ Store!Begin(p, NewBox(pw, <<>>))
  /\ UNCHANGED <<unlocked, entries>>

\* create: VaultLockedError.
create_locked(p) ==
  /\ Goto(p, {"checked"}, "idle")
  /\ HasFlock /\ lock # Nothing
  /\ UNCHANGED <<store, lock, unlocked, entries>>

\* open: the lock first, then the file.
open_lock(p) ==
  /\ Goto(p, {"idle"}, "loading")
  /\ acquire(p)
  /\ UNCHANGED <<store, unlocked, entries>>

\* open: storage.read, open_vault and the constructor.
open_load(p, pw) ==
  /\ Goto(p, {"loading"}, "open")
  /\ file # Nothing /\ file.password = pw
  /\ unlocked' = [unlocked EXCEPT ![p] = file]
  /\ entries' = [entries EXCEPT ![p] = file.plaintext]
  /\ UNCHANGED <<store, lock>>

\* Mutant: the except clause does not release the lock.
openFailsHoldingLock(p, pw) ==
  /\ Goto(p, {"loading"}, "idle")
  /\ file # Nothing => file.password # pw
  /\ UNCHANGED <<store, lock, unlocked, entries>>

\* Mutant: a missing file is not handled.
openFailsOnPasswordOnly(p, pw) ==
  /\ pc[p] = "loading"
  /\ file # Nothing /\ file.password # pw
  /\ EndSession(p)
  /\ UNCHANGED store

\* open: no file, or VaultAuthenticationError.
open_fails(p, pw) ==
  /\ pc[p] = "loading"
  /\ file # Nothing => file.password # pw
  /\ EndSession(p)
  /\ UNCHANGED store

-----------------------------------------------------------------------------
\* The mutations

\* Mutant: a command goes on with its repository after an error.
staysOpen(p) == "open"

\* Where an operation that is over leaves p, however it ended.
AtRest(p) == IF p \in LongLived THEN "open" ELSE "closing"

\* Mutant: the list is serialized before it is changed.
persistOldList(p, es) ==
  /\ entries' = [entries EXCEPT ![p] = es]
  /\ IF CanSave(unlocked[p])
     THEN LET new == SaveBox(unlocked[p], entries[p]) IN
          /\ pc' = [pc EXCEPT ![p] = "saving"]
          /\ unlocked' = [unlocked EXCEPT ![p] = new]
          /\ Store!Begin(p, new)
     ELSE pc' = [pc EXCEPT ![p] = AtRest(p)] /\ UNCHANGED <<store, unlocked>>
  /\ UNCHANGED lock

\* _persist for the list es: _entries is es already when save is called,
\* and the session has moved on to the new box when the write begins.
persist(p, es) ==
  /\ entries' = [entries EXCEPT ![p] = es]
  /\ IF CanSave(unlocked[p])
     THEN LET new == SaveBox(unlocked[p], es) IN
          /\ pc' = [pc EXCEPT ![p] = "saving"]
          /\ unlocked' = [unlocked EXCEPT ![p] = new]
          /\ Store!Begin(p, new)
     ELSE pc' = [pc EXCEPT ![p] = AtRest(p)] /\ UNCHANGED <<store, unlocked>>
  /\ UNCHANGED lock

IdsOf(es) == {es[i].id : i \in DOMAIN es}

\* Mutant: the first id drawn is taken.
addEntryAnyId(p, r) ==
  /\ pc[p] = "open"
  /\ Len(entries[p]) < MaxEntries
  /\ \E id \in Ids : persist(p, Append(entries[p], [id |-> id, data |-> r]))

\* add_entry: ids are drawn until one is unused.
add_entry(p, r) ==
  /\ pc[p] = "open"
  /\ Len(entries[p]) < MaxEntries
  /\ \E id \in Ids \ IdsOf(entries[p]) :
       persist(p, Append(entries[p], [id |-> id, data |-> r]))

\* update_entry: the fields passed (fs, with the data of r), no others.
update_entry(p, id, fs, r) ==
  /\ pc[p] = "open"
  /\ \E i \in DOMAIN entries[p] :
       /\ entries[p][i].id = id
       /\ LET new == [f \in Fields |-> IF f \in fs THEN r[f] ELSE entries[p][i].data[f]]
          IN  persist(p, [entries[p] EXCEPT ![i].data = new])

delete_entry(p, id) ==
  /\ pc[p] = "open"
  /\ \E i \in DOMAIN entries[p] :
       entries[p][i].id = id /\ persist(p, RemoveAt(entries[p], i))

\* get_entry raises EntryNotFoundError, on its own or for another operation.
entry_not_found(p, id) ==
  /\ id \notin IdsOf(entries[p])
  /\ Goto(p, {"open"}, AtRest(p))
  /\ UNCHANGED <<store, lock, unlocked, entries>>

change_master_password(p, pw) ==
  /\ pc[p] = "open"
  /\ IF CanSave(unlocked[p])
     THEN LET new == RekeyBox(unlocked[p], pw) IN
          /\ pc' = [pc EXCEPT ![p] = "rekeying"]
          /\ unlocked' = [unlocked EXCEPT ![p] = new]
          /\ Store!Begin(p, new)
     ELSE pc' = [pc EXCEPT ![p] = AtRest(p)] /\ UNCHANGED <<store, unlocked>>
  /\ UNCHANGED <<lock, entries>>

-----------------------------------------------------------------------------
\* storage.write_atomic, seen from here

write_replaces(p) ==
  /\ Store!Apply(p)
  /\ UNCHANGED <<lock, pc, unlocked, entries>>

\* The write's own fsync of the directory, or the kernel's.
directory_synced ==
  /\ unsynced # {} \/ durFile # file
  /\ Store!Persist
  /\ UNCHANGED <<lock, pc, unlocked, entries>>

\* write_atomic returns; create then opens the file it has just written.
write_returns(p) ==
  /\ Goto(p, Writing, AtRest(p))
  /\ Store!Finish(p)
  /\ IF pc[p] = "creating"
     THEN /\ unlocked' = [unlocked EXCEPT ![p] = arg[p]]
          /\ entries' = [entries EXCEPT ![p] = arg[p].plaintext]
     ELSE UNCHANGED <<unlocked, entries>>
  /\ UNCHANGED lock

\* write_atomic raises.  create releases the lock; after a mutation the
\* repository stays as it is, with the changes that were not written.
write_raises(p) ==
  /\ p \in FailingWrites
  /\ pc[p] \in Writing
  /\ Store!Abandon(p)
  /\ IF pc[p] = "creating"
     THEN EndSession(p)
     ELSE Goto(p, Writing, AtRest(p)) /\ UNCHANGED <<lock, unlocked, entries>>

-----------------------------------------------------------------------------
\* The end of a session

close(p) ==
  /\ pc[p] \in {"open", "closing"}
  /\ EndSession(p)
  /\ UNCHANGED store

\* The process dies; the kernel drops its lock.
Kill(p) ==
  /\ pc[p] # "idle"
  /\ EndSession(p)
  /\ IF st[p] = "idle" THEN UNCHANGED store ELSE Store!Abandon(p)

PowerLoss ==
  /\ Store!PowerLoss
  /\ lock' = Nothing
  /\ pc' = [p \in Procs |-> "idle"]
  /\ unlocked' = [p \in Procs |-> Nothing]
  /\ entries' = [p \in Procs |-> <<>>]

\* What the user asks for, and what the program then does by itself.
UserStep(p) ==
  \/ create_check(p)
  \/ open_lock(p)
  \/ \E r \in Records : add_entry(p, r)
  \/ \E id \in Ids, fs \in SUBSET Fields, r \in Records : update_entry(p, id, fs, r)
  \/ \E id \in Ids : delete_entry(p, id) \/ entry_not_found(p, id)
  \/ \E pw \in Passwords : change_master_password(p, pw)
  \/ pc[p] = "open" /\ close(p)

ProgramStep(p) ==
  \/ \E pw \in Passwords : create_write(p, pw) \/ open_load(p, pw) \/ open_fails(p, pw)
  \/ create_locked(p)
  \/ write_replaces(p)
  \/ write_returns(p)
  \/ pc[p] = "closing" /\ close(p)

Next ==
  \/ \E p \in Procs : UserStep(p) \/ ProgramStep(p) \/ write_raises(p) \/ Kill(p)
  \/ directory_synced
  \/ PowerLoss

Spec == Init /\ [][Next]_vars

\* The program goes on by itself, and the directory's fsync ends; nothing
\* makes the user do anything, a write fail or a process die.
Fairness == WF_vars(directory_synced) /\ \A p \in Procs : WF_vars(ProgramStep(p))

FairSpec == Spec /\ Fairness

-----------------------------------------------------------------------------
\* Properties

(***************************************************************************)
(* Every variable has its type; a process has an unlocked vault exactly    *)
(* while a repository exists, and a write in progress exactly while one of *)
(* its operations writes.                                                  *)
(***************************************************************************)
TypeOK ==
  /\ file \in Boxes \cup {Nothing}
  /\ durFile \in Boxes \cup {Nothing}
  /\ st \in [Procs -> {"idle", "pending", "applied"}]
  /\ arg \in [Procs -> Boxes \cup {Nothing}]
  /\ unsynced \subseteq Procs
  /\ outcome \in {"returned", "failed"}
  /\ lock \in Procs \cup {Nothing}
  /\ pc \in [Procs -> PCs]
  /\ unlocked \in [Procs -> Boxes \cup {Nothing}]
  /\ entries \in [Procs -> Entries]
  /\ \A p \in Procs :
       /\ pc[p] \in {"open", "saving", "rekeying", "closing"} <=> unlocked[p] # Nothing
       /\ pc[p] \in Writing <=> st[p] # "idle"
       /\ st[p] = "idle" <=> arg[p] = Nothing

(***************************************************************************)
(* With flock a process holds the lock exactly from acquire to the end of  *)
(* its session, on every path: a failed open, a failed create, a failed    *)
(* write, a close, a kill.  Hence at most one session at a time.           *)
(***************************************************************************)
LockIsSession == HasFlock => \A p \in Procs : pc[p] \in InSession <=> lock = p

(***************************************************************************)
(* A repository at rest shows what the vault file holds: neither another   *)
(* process's write nor a failed operation has made it stale.  Behaviour:   *)
(* open reads under the lock, and "there is no unsaved in-memory state"    *)
(* (repository.py).  _entries may only differ when save refused because    *)
(* the counter is exhausted.                                               *)
(***************************************************************************)
SessionIsCurrent ==
  \A p \in Procs : pc[p] = "open" =>
    /\ unlocked[p] = file
    /\ entries[p] = file.plaintext \/ ~CanSave(file)

(***************************************************************************)
(* No two entries of a vault have the same id, whatever ids are drawn and  *)
(* whoever adds them.  Behaviour: the loop in add_entry, on entries that   *)
(* an earlier session may have written.                                    *)
(***************************************************************************)
IdsUnique ==
  file # Nothing =>
    \A i, j \in DOMAIN file.plaintext :
      file.plaintext[i].id = file.plaintext[j].id => i = j

(***************************************************************************)
(* When the latest operation to end reported success and no write is       *)
(* between its replace and its return, the vault file is safe from a power *)
(* failure.                                                                *)
(***************************************************************************)
AcknowledgedIsDurable ==
  DirSyncWorks /\ outcome = "returned" /\ (\A p \in Procs : st[p] # "applied")
    => durFile = file

(***************************************************************************)
(* The processes together implement VaultSpec: every change of the vault   *)
(* file is one command applied to its current content, so no update is     *)
(* lost, repeated or merged with another, and only a power failure undoes  *)
(* one.                                                                    *)
(***************************************************************************)
Meaning(f) ==
  IF f = Nothing THEN Nothing
  ELSE [password |-> f.password,
        entries |-> [id \in IdsOf(f.plaintext) |->
          (CHOOSE e \in ToSet(f.plaintext) : e.id = id).data]]

Abstract == INSTANCE VaultSpec WITH
  vault <- Meaning(file), durable <- Meaning(durFile)

ImplementsVaultSpec == Abstract!VaultSpecification

(***************************************************************************)
(* The same for any number of processes in VaultRepository.create: the     *)
(* race between its existence test and its lock can put an empty vault in  *)
(* the place of another, and that is all it can do.  No update of a vault  *)
(* that exists is lost, repeated or merged, and nothing of the vault that  *)
(* was replaced finds its way into the new one.                            *)
(***************************************************************************)
OnlyCreateReplaces == Abstract!RacyVaultSpecification

(***************************************************************************)
(* An operation that has begun ends, whatever the other processes do: no   *)
(* path of create, open or a mutation leaves a process waiting with the    *)
(* lock in its hands.                                                      *)
(***************************************************************************)
OperationsEnd ==
  \A p \in Procs : pc[p] \notin {"idle", "open"} ~> pc[p] \in {"idle", "open"}

\* p's write replaces the file in this step.
Replaces(p) == st[p] = "pending" /\ st'[p] = "applied"

(***************************************************************************)
(* The write of a create never replaces an existing vault.  Behaviour:     *)
(* "so this can never silently clobber the user's existing data"           *)
(* (VaultRepository.create).                                               *)
(***************************************************************************)
CreateNeverClobbers ==
  [][\A p \in Procs : pc[p] = "creating" /\ Replaces(p) => file = Nothing]_vars

(***************************************************************************)
(* Saving entries never changes the master password.  Behaviour: a failed  *)
(* change_master_password "leaves the old vault fully intact" (DESIGN.md), *)
(* so the password it was given is not used later.  It holds because       *)
(* callers whose writes fail close their repository: a LongLived one with  *)
(* failing writes would install the password with its next save.           *)
(***************************************************************************)
SavingKeepsPassword ==
  [][\A p \in Procs : pc[p] = "saving" /\ Replaces(p) => file'.password = file.password]_vars

(***************************************************************************)
(* After failed writes a repository at rest may be ahead of the vault file *)
(* ("In-memory state can advance past disk", SECURITY_REVIEW.md, R4), but  *)
(* it is never behind it or beside it: with the counter of the file it is  *)
(* the file, and its list is the plaintext it would seal, unless save has  *)
(* refused because the counter is exhausted.  For callers that go on after *)
(* errors, any number of them.                                             *)
(***************************************************************************)
NeverBehind ==
  \A p \in Procs : pc[p] \in {"open", "closing"} =>
    /\ file # Nothing
    /\ unlocked[p].counter >= file.counter
    /\ unlocked[p].counter = file.counter => unlocked[p] = file
    /\ entries[p] = unlocked[p].plaintext \/ ~CanSave(unlocked[p])

(***************************************************************************)
(* The save counter of the vault file only goes up ("monotonic",           *)
(* DESIGN.md), however many writes fail before one succeeds, but for a     *)
(* power failure that takes a replacement back and for a create, which     *)
(* starts at 0.  So no two files that were at the path between two such    *)
(* events share a counter.                                                 *)
(***************************************************************************)
CounterMonotonic ==
  [][file # Nothing /\ file' # file =>
       \/ file' = durFile /\ pc' = [p \in Procs |-> "idle"]
       \/ \E p \in Procs : pc[p] = "creating" /\ Replaces(p)
       \/ file'.counter > file.counter]_vars

(***************************************************************************)
(* What a mutation or a password change puts into the file is the list the *)
(* repository shows to its caller, all of it and nothing else, even where  *)
(* the lock does nothing and whatever failed before.  Behaviour: save      *)
(* seals _entries, change_password seals the plaintext that the session    *)
(* kept from the latest save; the two must be the same.                    *)
(***************************************************************************)
WritesWhatIsShown ==
  [][\A p \in Procs :
       pc[p] \in {"saving", "rekeying"} /\ Replaces(p) => file'.plaintext = entries[p]]_vars
=============================================================================
