--------------------------- MODULE RepositoryProofs ---------------------------
(***************************************************************************)
(* For any number of processes, passwords, ids and entries: the lock is    *)
(* held exactly for the session, a repository at rest is never stale, ids  *)
(* stay unique, and the processes together implement VaultSpec.            *)
(*                                                                         *)
(* None of these is inductive.  LockIsSession needs the program counters'  *)
(* types.  SessionIsCurrent needs, besides mutual exclusion, what a write  *)
(* in progress knows: its data is the session, and once it has replaced    *)
(* the file, its data is the file (WriteInv).  IdsUnique needs the same of *)
(* every copy of the entries (IdsInv).  The refinement needs that the data *)
(* of a write in progress is one change of the file as it is now           *)
(* (ChangeInv), and that there is no file while one is created             *)
(* (CreateInv).                                                            *)
(***************************************************************************)
EXTENDS Repository, SequenceTheorems, TLAPS

\* Removing an element: the length, and where the others are.
LEMMA RemoveAtProperties ==
  ASSUME NEW S, NEW s \in Seq(S), NEW i \in 1 .. Len(s)
  PROVE  /\ RemoveAt(s, i) \in Seq(S)
         /\ Len(RemoveAt(s, i)) = Len(s) - 1
         /\ \A j \in 1 .. Len(s) - 1 : RemoveAt(s, i)[j] = IF j < i THEN s[j] ELSE s[j + 1]
<1> DEFINE before == SubSeq(s, 1, i - 1)
           after == SubSeq(s, i + 1, Len(s))
<1>1. /\ before \in Seq(S) /\ Len(before) = i - 1
      /\ \A j \in 1 .. i - 1 : before[j] = s[j]
  BY SubSeqProperties
<1>2. /\ after \in Seq(S) /\ Len(after) = Len(s) - i
      /\ \A j \in 1 .. Len(s) - i : after[j] = s[i + j]
  BY SubSeqProperties
<1>3. RemoveAt(s, i) = before \o after
  BY DEF RemoveAt
<1> HIDE DEF before, after
<1>4. /\ before \o after \in Seq(S) /\ Len(before \o after) = Len(before) + Len(after)
      /\ \A j \in 1 .. Len(before) + Len(after) :
           (before \o after)[j] = IF j <= Len(before) THEN before[j] ELSE after[j - Len(before)]
  BY <1>1, <1>2, ConcatProperties
<1>5. Len(s) \in Nat
  OBVIOUS
<1>6. ASSUME NEW j \in 1 .. Len(s) - 1
      PROVE  (before \o after)[j] = IF j < i THEN s[j] ELSE s[j + 1]
  <2>1. CASE j < i
    BY <1>1, <1>2, <1>4, <1>5, <2>1
  <2>2. CASE ~(j < i)
    <3>1. after[j - (i - 1)] = s[i + (j - (i - 1))] /\ i + (j - (i - 1)) = j + 1
      BY <1>2, <1>5, <2>2
    <3> QED
      BY <1>1, <1>2, <1>4, <1>5, <2>2, <3>1
  <2> QED
    BY <2>1, <2>2
<1> QED
  BY <1>1, <1>2, <1>3, <1>4, <1>5, <1>6

\* Creating a vault gives a box with counter 0.
LEMMA NewBoxType ==
  ASSUME NEW pw \in Passwords
  PROVE  NewBox(pw, <<>>) \in Boxes
<1>1. <<>> \in Entries
  BY DEF Entries
<1>2. 0 \in 0 .. MaxCounter
  BY MaxCounterAssumption
<1> QED
  BY <1>1, <1>2 DEF Boxes, NewBox

\* Saving gives a box with the next counter and the new plaintext.
LEMMA SaveBoxType ==
  ASSUME NEW box \in Boxes, NEW es \in Entries, CanSave(box)
  PROVE  /\ SaveBox(box, es) \in Boxes /\ SaveBox(box, es).plaintext = es
         /\ SaveBox(box, es).counter = box.counter + 1
<1>1. box.counter + 1 \in 0 .. MaxCounter
  BY MaxCounterAssumption DEF Boxes, CanSave
<1> QED
  BY <1>1 DEF Boxes, SaveBox

\* Changing the password gives a box with the next counter and the same plaintext.
LEMMA RekeyBoxType ==
  ASSUME NEW box \in Boxes, NEW pw \in Passwords, CanSave(box)
  PROVE  /\ RekeyBox(box, pw) \in Boxes /\ RekeyBox(box, pw).plaintext = box.plaintext
         /\ RekeyBox(box, pw).counter = box.counter + 1
<1>1. box.counter + 1 \in 0 .. MaxCounter
  BY MaxCounterAssumption DEF Boxes, CanSave
<1> QED
  BY <1>1 DEF Boxes, RekeyBox

-----------------------------------------------------------------------------
\* Types and the lock

LockInv == TypeOK /\ LockIsSession

\* A mutation of the entries is a _persist of some list.
Mutation(p) ==
  \/ \E r \in Records : add_entry(p, r)
  \/ \E id \in Ids, fs \in SUBSET Fields, r \in Records : update_entry(p, id, fs, r)
  \/ \E id \in Ids : delete_entry(p, id)

\* What a mutation does to the list: one new entry under an unused id, new
\* data for one entry, or one entry less.
Edit(old, new) ==
  \/ \E e \in [id : Ids, data : Records] : e.id \notin IdsOf(old) /\ new = Append(old, e)
  \/ \E i \in DOMAIN old, r \in Records : new = [old EXCEPT ![i].data = r]
  \/ \E i \in DOMAIN old : new = RemoveAt(old, i)

\* An edited list is a list of entries.
LEMMA EditType ==
  ASSUME NEW old \in Entries, NEW new, Edit(old, new)
  PROVE  new \in Entries
<1>0. old \in Seq([id : Ids, data : Records]) /\ DOMAIN old = 1 .. Len(old)
  BY DEF Entries
<1>1. ASSUME NEW e \in [id : Ids, data : Records], new = Append(old, e) PROVE new \in Entries
  BY <1>0, <1>1 DEF Entries
<1>2. ASSUME NEW i \in DOMAIN old, NEW r \in Records, new = [old EXCEPT ![i].data = r]
      PROVE  new \in Entries
  <2>1. old[i] \in [id : Ids, data : Records]
    BY <1>0, ElementOfSeq
  <2> QED
    BY <1>0, <1>2, <2>1 DEF Entries
<1>3. ASSUME NEW i \in DOMAIN old, new = RemoveAt(old, i) PROVE new \in Entries
  BY <1>0, <1>3, RemoveAtProperties DEF Entries
<1> QED
  BY <1>1, <1>2, <1>3 DEF Edit

\* add_entry, update_entry and delete_entry all edit the list and end in _persist.
LEMMA MutationPersists ==
  ASSUME TypeOK, NEW p \in Procs, Mutation(p)
  PROVE  \E es \in Entries : pc[p] = "open" /\ Edit(entries[p], es) /\ persist(p, es)
<1>0. entries[p] \in Entries /\ entries[p] \in Seq([id : Ids, data : Records])
  BY DEF TypeOK, Entries
<1> SUFFICES \E es : pc[p] = "open" /\ Edit(entries[p], es) /\ persist(p, es)
  BY <1>0, EditType
<1>1. ASSUME NEW r \in Records, add_entry(p, r)
      PROVE  \E es : pc[p] = "open" /\ Edit(entries[p], es) /\ persist(p, es)
  <2>1. PICK id \in Ids \ IdsOf(entries[p]) :
               persist(p, Append(entries[p], [id |-> id, data |-> r]))
    BY <1>1 DEF add_entry
  <2>2. Edit(entries[p], Append(entries[p], [id |-> id, data |-> r]))
    BY <2>1 DEF Edit
  <2> QED
    BY <1>1, <2>1, <2>2 DEF add_entry
<1>2. ASSUME NEW id \in Ids, NEW fs \in SUBSET Fields, NEW r \in Records,
             update_entry(p, id, fs, r)
      PROVE  \E es : pc[p] = "open" /\ Edit(entries[p], es) /\ persist(p, es)
  <2> DEFINE new(i) == [f \in Fields |-> IF f \in fs THEN r[f] ELSE entries[p][i].data[f]]
  <2>1. PICK i \in DOMAIN entries[p] : persist(p, [entries[p] EXCEPT ![i].data = new(i)])
    BY <1>2 DEF update_entry
  <2>2. entries[p][i] \in [id : Ids, data : Records]
    <3>1. i \in 1 .. Len(entries[p])
      BY <1>0, <2>1
    <3> QED
      BY <1>0, <3>1, ElementOfSeq
  <2>3. new(i) \in Records
    BY <1>2, <2>2 DEF Records
  <2>4. Edit(entries[p], [entries[p] EXCEPT ![i].data = new(i)])
    BY <2>1, <2>3 DEF Edit
  <2> QED
    BY <1>2, <2>1, <2>4 DEF update_entry
<1>3. ASSUME NEW id \in Ids, delete_entry(p, id)
      PROVE  \E es : pc[p] = "open" /\ Edit(entries[p], es) /\ persist(p, es)
  <2>1. PICK i \in DOMAIN entries[p] : persist(p, RemoveAt(entries[p], i))
    BY <1>3 DEF delete_entry
  <2>2. Edit(entries[p], RemoveAt(entries[p], i))
    BY <2>1 DEF Edit
  <2> QED
    BY <1>3, <2>1, <2>2 DEF delete_entry
<1> QED
  BY <1>1, <1>2, <1>3 DEF Mutation

\* Every step is one of these, with a mutation seen as a _persist.
LEMMA Steps ==
  ASSUME TypeOK, [Next]_vars
  PROVE  \/ \E p \in Procs :
              \/ create_check(p) \/ create_locked(p) \/ open_lock(p)
              \/ \E pw \in Passwords : create_write(p, pw) \/ open_load(p, pw) \/ open_fails(p, pw)
              \/ \E es \in Entries : pc[p] = "open" /\ Edit(entries[p], es) /\ persist(p, es)
              \/ \E id \in Ids : entry_not_found(p, id)
              \/ \E pw \in Passwords : change_master_password(p, pw)
              \/ write_replaces(p) \/ write_returns(p) \/ write_raises(p)
              \/ close(p) \/ Kill(p)
         \/ directory_synced
         \/ PowerLoss
         \/ UNCHANGED vars
BY MutationPersists DEF Next, UserStep, ProgramStep, Mutation

\* At the start nobody holds the lock and nobody has a repository.
LEMMA LockInit == Init => LockInv
<1> SUFFICES ASSUME Init PROVE LockInv
  OBVIOUS
<1>1. <<>> \in Entries
  BY DEF Entries
<1> QED
  BY <1>1, RepositoryAssumption
     DEF Init, Store!StoreInit, LockInv, TypeOK, LockIsSession, PCs, Writing, InSession

\* Every operation, failure and crash keeps the types and the lock in step with
\* the sessions.
LEMMA LockStep == LockInv /\ [Next]_vars => LockInv'
<1> SUFFICES ASSUME LockInv, [Next]_vars PROVE LockInv'
  OBVIOUS
<1> USE RepositoryAssumption DEF LockInv, TypeOK, LockIsSession, PCs, Writing, InSession
<1>e. <<>> \in Entries
  BY DEF Entries
<1>b. \A b \in Boxes : b.plaintext \in Entries
  BY DEF Boxes
<1>1. ASSUME NEW p \in Procs, create_check(p) PROVE LockInv'
  BY <1>1 DEF create_check, Goto, store
<1>2. ASSUME NEW p \in Procs, create_locked(p) PROVE LockInv'
  BY <1>2 DEF create_locked, Goto, store
<1>3. ASSUME NEW p \in Procs, open_lock(p) PROVE LockInv'
  BY <1>3 DEF open_lock, Goto, acquire, store
<1>4. ASSUME NEW p \in Procs, NEW pw \in Passwords, create_write(p, pw) PROVE LockInv'
  <2>1. NewBox(pw, <<>>) \in Boxes
    BY NewBoxType
  <2> QED
    BY <1>4, <2>1 DEF create_write, Goto, acquire, Store!Begin
<1>5. ASSUME NEW p \in Procs, NEW pw \in Passwords, open_load(p, pw) PROVE LockInv'
  BY <1>5, <1>b DEF open_load, Goto, store
<1>6. ASSUME NEW p \in Procs, NEW pw \in Passwords, open_fails(p, pw) PROVE LockInv'
  BY <1>6, <1>e DEF open_fails, EndSession, release, store
<1>7. ASSUME NEW p \in Procs, NEW es \in Entries, pc[p] = "open", persist(p, es) PROVE LockInv'
  <2>1. unlocked[p] \in Boxes
    BY <1>7
  <2>2. CASE CanSave(unlocked[p])
    <3>1. SaveBox(unlocked[p], es) \in Boxes
      BY <2>1, <2>2, SaveBoxType
    <3> QED
      BY <1>7, <2>2, <3>1 DEF persist, Store!Begin
  <2>3. CASE ~CanSave(unlocked[p])
    BY <1>7, <2>3 DEF persist, store, AtRest
  <2> QED
    BY <2>2, <2>3
<1>8. ASSUME NEW p \in Procs, NEW id \in Ids, entry_not_found(p, id) PROVE LockInv'
  BY <1>8 DEF entry_not_found, Goto, AtRest, store
<1>9. ASSUME NEW p \in Procs, NEW pw \in Passwords, change_master_password(p, pw) PROVE LockInv'
  <2>1. unlocked[p] \in Boxes
    BY <1>9 DEF change_master_password
  <2>2. CASE CanSave(unlocked[p])
    <3>1. RekeyBox(unlocked[p], pw) \in Boxes
      BY <2>1, <2>2, RekeyBoxType
    <3> QED
      BY <1>9, <2>2, <3>1 DEF change_master_password, Store!Begin
  <2>3. CASE ~CanSave(unlocked[p])
    BY <1>9, <2>3 DEF change_master_password, store, AtRest
  <2> QED
    BY <2>2, <2>3
<1>10. ASSUME NEW p \in Procs, write_replaces(p) PROVE LockInv'
  BY <1>10 DEF write_replaces, Store!Apply
<1>11. ASSUME NEW p \in Procs, write_returns(p) PROVE LockInv'
  <2>1. arg[p] \in Boxes /\ arg[p].plaintext \in Entries
    BY <1>11, <1>b DEF write_returns, Goto
  <2> QED
    BY <1>11, <2>1 DEF write_returns, Goto, AtRest, Store!Finish, Store!End
<1>12. ASSUME NEW p \in Procs, write_raises(p) PROVE LockInv'
  <2>1. CASE pc[p] = "creating"
    BY <1>12, <1>e, <2>1 DEF write_raises, EndSession, release, Store!Abandon, Store!End
  <2>2. CASE pc[p] # "creating"
    BY <1>12, <2>2 DEF write_raises, Goto, AtRest, Store!Abandon, Store!End
  <2> QED
    BY <2>1, <2>2
<1>13. ASSUME NEW p \in Procs, close(p) PROVE LockInv'
  BY <1>13, <1>e DEF close, EndSession, release, store
<1>14. ASSUME NEW p \in Procs, Kill(p) PROVE LockInv'
  BY <1>14, <1>e DEF Kill, EndSession, release, store, Store!Abandon, Store!End
<1>15. CASE directory_synced
  BY <1>15 DEF directory_synced, Store!Persist
<1>16. CASE PowerLoss
  BY <1>16, <1>e DEF PowerLoss, Store!PowerLoss
<1>17. CASE UNCHANGED vars
  BY <1>17 DEF vars, store
<1>18. TypeOK
  OBVIOUS
<1> HIDE DEF LockInv, TypeOK
<1> QED
  BY <1>1, <1>2, <1>3, <1>4, <1>5, <1>6, <1>7, <1>8, <1>9, <1>10, <1>11, <1>12, <1>13, <1>14,
     <1>15, <1>16, <1>17, <1>18, Steps

\* The types, and the lock as the mark of a session, hold always.
THEOREM LockInvariant == Spec => []LockInv
BY LockInit, LockStep, PTL DEF Spec

\* The repository's variables keep their types.
THEOREM TypeCorrect == Spec => []TypeOK
<1>1. LockInv => TypeOK
  BY DEF LockInv
<1> QED
  BY <1>1, LockInvariant, PTL

\* Whatever fails, a process holds the file lock exactly during its session.
THEOREM LockCorrect == Spec => []LockIsSession
<1>1. LockInv => LockIsSession
  BY DEF LockInv
<1> QED
  BY <1>1, LockInvariant, PTL

-----------------------------------------------------------------------------
\* The session and the file

\* A write in progress: its data is the session it was called from and, once
\* it has replaced the file, it is the file.
WriteInv ==
  \A p \in Procs :
    /\ st[p] = "applied" => arg[p] = file
    /\ pc[p] \in {"saving", "rekeying"} =>
         arg[p] = unlocked[p] /\ entries[p] = unlocked[p].plaintext

\* What has been replaced and synced is on the medium.
SyncInv ==
  /\ unsynced \subseteq {p \in Procs : st[p] = "applied"}
  /\ \A p \in Procs : st[p] = "applied" /\ p \notin unsynced => durFile = file
  /\ outcome = "returned" /\ DirSyncWorks => durFile = file \/ \E p \in Procs : st[p] = "applied"

\* A process at rest after a failed write is not current any more: SessionCorrect
\* is about callers that close after an error, or meet none.
Careful == HasFlock /\ LongLived \cap FailingWrites = {}

SessionInv == WriteInv /\ SessionIsCurrent

\* At the start there is no session and no write.
LEMMA SessionInit == Init => SessionInv /\ SyncInv
BY DEF Init, Store!StoreInit, SessionInv, WriteInv, SessionIsCurrent, SyncInv

\* With flock one write runs at a time, so every step keeps what SyncInv says of
\* the medium.
LEMMA SyncStep == HasFlock /\ LockInv /\ SyncInv /\ [Next]_vars => SyncInv'
<1> SUFFICES ASSUME HasFlock, LockInv, SyncInv, [Next]_vars PROVE SyncInv'
  OBVIOUS
<1> USE RepositoryAssumption DEF SyncInv, PCs, Writing, InSession
<1>a. st \in [Procs -> {"idle", "pending", "applied"}] /\ TypeOK
  BY DEF LockInv, TypeOK
<1>b. \A p, q \in Procs : st[p] # "idle" /\ st[q] # "idle" => p = q
  BY DEF LockInv, TypeOK, LockIsSession
<1>0. ASSUME UNCHANGED store PROVE SyncInv'
  BY <1>0 DEF store
<1>1. ASSUME NEW p \in Procs, NEW v, Store!Begin(p, v) PROVE SyncInv'
  BY <1>1, <1>a DEF Store!Begin
<1>2. ASSUME NEW p \in Procs, Store!Apply(p) PROVE SyncInv'
  BY <1>2, <1>a, <1>b DEF Store!Apply
<1>3. ASSUME NEW p \in Procs, Store!Finish(p) PROVE SyncInv'
  BY <1>3, <1>a, <1>b DEF Store!Finish, Store!End
<1>4. ASSUME NEW p \in Procs, Store!Abandon(p) PROVE SyncInv'
  BY <1>4, <1>a, <1>b DEF Store!Abandon, Store!End
<1>5. CASE Store!Persist
  BY <1>5 DEF Store!Persist
<1>6. CASE Store!PowerLoss
  BY <1>6 DEF Store!PowerLoss
<1> HIDE DEF SyncInv
<1> QED
  BY <1>0, <1>1, <1>2, <1>3, <1>4, <1>5, <1>6, <1>a, Steps
     DEF create_check, create_locked, open_lock, create_write, open_load, open_fails, persist,
         entry_not_found, change_master_password, write_replaces, write_returns, write_raises,
         close, Kill, directory_synced, PowerLoss, vars

\* No step makes a repository at rest differ from the vault file: the only one
\* that could, a failed write, sends a careful caller to close.
LEMMA SessionStep == Careful /\ LockInv /\ LockInv' /\ SessionInv /\ [Next]_vars => SessionInv'
<1> SUFFICES ASSUME Careful, LockInv, LockInv', SessionInv, [Next]_vars PROVE SessionInv'
  OBVIOUS
<1> USE RepositoryAssumption
    DEF Careful, LockInv, TypeOK, LockIsSession, SessionInv, WriteInv, SessionIsCurrent,
        PCs, Writing, InSession
<1>1. ASSUME NEW p \in Procs, create_check(p) PROVE SessionInv'
  BY <1>1 DEF create_check, Goto, store
<1>2. ASSUME NEW p \in Procs, create_locked(p) PROVE SessionInv'
  BY <1>2 DEF create_locked, Goto, store
<1>3. ASSUME NEW p \in Procs, open_lock(p) PROVE SessionInv'
  BY <1>3 DEF open_lock, Goto, store
<1>4. ASSUME NEW p \in Procs, NEW pw \in Passwords, create_write(p, pw) PROVE SessionInv'
  BY <1>4 DEF create_write, Goto, Store!Begin
<1>5. ASSUME NEW p \in Procs, NEW pw \in Passwords, open_load(p, pw) PROVE SessionInv'
  BY <1>5 DEF open_load, Goto, store
<1>6. ASSUME NEW p \in Procs, NEW pw \in Passwords, open_fails(p, pw) PROVE SessionInv'
  BY <1>6 DEF open_fails, EndSession, store
<1>7. ASSUME NEW p \in Procs, NEW es \in Entries, pc[p] = "open", persist(p, es) PROVE SessionInv'
  <2>1. unlocked[p] \in Boxes /\ unlocked[p] = file
    BY <1>7
  <2>2. CASE CanSave(unlocked[p])
    <3>1. SaveBox(unlocked[p], es).plaintext = es
      BY <2>1, <2>2, SaveBoxType
    <3> QED
      BY <1>7, <2>2, <3>1 DEF persist, Store!Begin
  <2>3. CASE ~CanSave(unlocked[p])
    BY <1>7, <2>1, <2>3 DEF persist, store, AtRest
  <2> QED
    BY <2>2, <2>3
<1>8. ASSUME NEW p \in Procs, NEW id \in Ids, entry_not_found(p, id) PROVE SessionInv'
  BY <1>8 DEF entry_not_found, Goto, AtRest, store
<1>9. ASSUME NEW p \in Procs, NEW pw \in Passwords, change_master_password(p, pw)
      PROVE  SessionInv'
  <2>1. unlocked[p] \in Boxes /\ unlocked[p] = file
    BY <1>9 DEF change_master_password
  <2>2. CASE CanSave(unlocked[p])
    <3>1. RekeyBox(unlocked[p], pw).plaintext = unlocked[p].plaintext
      BY <2>1, <2>2, RekeyBoxType
    <3>2. entries[p] = unlocked[p].plaintext
      BY <1>9, <2>1, <2>2 DEF change_master_password
    <3> QED
      BY <1>9, <2>2, <3>1, <3>2 DEF change_master_password, Store!Begin
  <2>3. CASE ~CanSave(unlocked[p])
    BY <1>9, <2>3 DEF change_master_password, store, AtRest
  <2> QED
    BY <2>2, <2>3
<1>10. ASSUME NEW p \in Procs, write_replaces(p) PROVE SessionInv'
  BY <1>10 DEF write_replaces, Store!Apply
<1>11. ASSUME NEW p \in Procs, write_returns(p) PROVE SessionInv'
  <2>1. arg[p] = file
    BY <1>11 DEF write_returns, Store!Finish
  <2>2. CASE pc[p] = "creating"
    BY <1>11, <2>1, <2>2 DEF write_returns, Goto, AtRest, Store!Finish, Store!End
  <2>3. CASE pc[p] # "creating"
    BY <1>11, <2>1, <2>3 DEF write_returns, Goto, AtRest, Store!Finish, Store!End
  <2> QED
    BY <2>2, <2>3
<1>12. ASSUME NEW p \in Procs, write_raises(p) PROVE SessionInv'
  <2>1. CASE pc[p] = "creating"
    BY <1>12, <2>1 DEF write_raises, EndSession, Store!Abandon, Store!End
  <2>2. CASE pc[p] # "creating"
    BY <1>12, <2>2 DEF write_raises, Goto, AtRest, Store!Abandon, Store!End
  <2> QED
    BY <2>1, <2>2
<1>13. ASSUME NEW p \in Procs, close(p) PROVE SessionInv'
  BY <1>13 DEF close, EndSession, store
<1>14. ASSUME NEW p \in Procs, Kill(p) PROVE SessionInv'
  BY <1>14 DEF Kill, EndSession, store, Store!Abandon, Store!End
<1>15. CASE directory_synced
  BY <1>15 DEF directory_synced, Store!Persist
<1>16. CASE PowerLoss
  BY <1>16 DEF PowerLoss, Store!PowerLoss
<1>17. CASE UNCHANGED vars
  BY <1>17 DEF vars, store
<1>18. TypeOK
  OBVIOUS
<1> HIDE DEF SessionInv, TypeOK
<1> QED
  BY <1>1, <1>2, <1>3, <1>4, <1>5, <1>6, <1>7, <1>8, <1>9, <1>10, <1>11, <1>12, <1>13, <1>14,
     <1>15, <1>16, <1>17, <1>18, Steps

\* For callers that close their repository after an error (the commands of
\* cli.py), and for all callers where no write fails: a repository at rest
\* shows what the vault file holds.
THEOREM SessionCorrect == Careful => (Spec => []SessionIsCurrent)
<1> SUFFICES ASSUME Careful PROVE Spec => []SessionIsCurrent
  OBVIOUS
<1>1. LockInv /\ LockInv' /\ SessionInv /\ [Next]_vars => SessionInv'
  BY SessionStep
<1>2. SessionInv => SessionIsCurrent
  BY DEF SessionInv
<1> QED
  BY <1>1, <1>2, SessionInit, LockInvariant, PTL DEF Spec

\* With flock, an operation that reported success has made the vault file safe
\* from a power failure.
THEOREM AcknowledgedCorrect == HasFlock => (Spec => []AcknowledgedIsDurable)
<1> SUFFICES ASSUME HasFlock PROVE Spec => []AcknowledgedIsDurable
  OBVIOUS
<1>1. LockInv /\ SyncInv /\ [Next]_vars => SyncInv'
  BY SyncStep
<1>2. SyncInv => AcknowledgedIsDurable
  BY DEF SyncInv, AcknowledgedIsDurable
<1> QED
  BY <1>1, <1>2, SessionInit, LockInvariant, PTL DEF Spec

-----------------------------------------------------------------------------
\* The ids

\* No id occurs twice in a list.
Distinct(es) == \A i, j \in DOMAIN es : es[i].id = es[j].id => i = j

\* Not only the file: every copy of the entries that may become the file.
IdsInv ==
  /\ file # Nothing => Distinct(file.plaintext)
  /\ durFile # Nothing => Distinct(durFile.plaintext)
  /\ \A p \in Procs :
       /\ Distinct(entries[p])
       /\ arg[p] # Nothing => Distinct(arg[p].plaintext)
       /\ unlocked[p] # Nothing => Distinct(unlocked[p].plaintext)

\* A mutation keeps the ids distinct: a new id is unused, the others stay.
LEMMA EditDistinct ==
  ASSUME NEW old \in Entries, NEW new, Edit(old, new), Distinct(old)
  PROVE  Distinct(new)
<1>0. old \in Seq([id : Ids, data : Records]) /\ DOMAIN old = 1 .. Len(old) /\ Len(old) \in Nat
  BY DEF Entries
<1>1. ASSUME NEW e \in [id : Ids, data : Records], e.id \notin IdsOf(old), new = Append(old, e)
      PROVE  Distinct(new)
  <2>1. /\ DOMAIN new = 1 .. Len(old) + 1 /\ new[Len(old) + 1] = e
        /\ \A i \in 1 .. Len(old) : new[i] = old[i]
    BY <1>0, <1>1
  <2> QED
    BY <1>0, <1>1, <2>1 DEF Distinct, IdsOf
<1>2. ASSUME NEW i \in DOMAIN old, NEW r \in Records, new = [old EXCEPT ![i].data = r]
      PROVE  Distinct(new)
  <2>1. \A k \in DOMAIN old : old[k] \in [id : Ids, data : Records]
    BY <1>0, ElementOfSeq
  <2>2. DOMAIN new = DOMAIN old /\ \A k \in DOMAIN old : new[k].id = old[k].id
    BY <1>2, <2>1
  <2> QED
    BY <2>2 DEF Distinct
<1>3. ASSUME NEW i \in DOMAIN old, new = RemoveAt(old, i) PROVE Distinct(new)
  <2>1. /\ DOMAIN new = 1 .. Len(old) - 1
        /\ \A j \in 1 .. Len(old) - 1 : new[j] = IF j < i THEN old[j] ELSE old[j + 1]
    <3> DEFINE R == [id : Ids, data : Records]
    <3>1. old \in Seq(R) /\ i \in 1 .. Len(old)
      BY <1>0, <1>3
    <3> HIDE DEF R
    <3>2. /\ RemoveAt(old, i) \in Seq(R) /\ Len(RemoveAt(old, i)) = Len(old) - 1
          /\ \A j \in 1 .. Len(old) - 1 : RemoveAt(old, i)[j] = IF j < i THEN old[j] ELSE old[j + 1]
      BY <3>1, RemoveAtProperties
    <3>3. new \in Seq(R) /\ Len(new) = Len(old) - 1
      BY <1>3, <3>2
    <3>4. DOMAIN new = 1 .. Len(old) - 1
      BY <3>3, LenProperties
    <3> QED
      BY <1>3, <3>2, <3>4
  <2> DEFINE place(j) == IF j < i THEN j ELSE j + 1
  <2>2. \A j \in DOMAIN new : place(j) \in DOMAIN old /\ new[j] = old[place(j)]
    BY <1>0, <2>1
  <2>3. \A j, k \in DOMAIN new : place(j) = place(k) => j = k
    BY <1>0, <2>1
  <2> HIDE DEF place
  <2> QED
    BY <2>2, <2>3 DEF Distinct
<1> QED
  BY <1>1, <1>2, <1>3 DEF Edit

\* An empty vault has distinct ids.
LEMMA EmptyDistinct == Distinct(<<>>) /\ \A pw : NewBox(pw, <<>>).plaintext = <<>>
BY DEF Distinct, NewBox

\* Every step keeps the ids of every copy distinct.
LEMMA IdsStep == LockInv /\ IdsInv /\ [Next]_vars => IdsInv'
<1> SUFFICES ASSUME LockInv, IdsInv, [Next]_vars PROVE IdsInv'
  OBVIOUS
<1>t. TypeOK
  BY DEF LockInv
<1> USE DEF IdsInv
<1>e. Distinct(<<>>) /\ \A pw : NewBox(pw, <<>>).plaintext = <<>>
  BY EmptyDistinct
<1>1. ASSUME UNCHANGED <<file, durFile, arg, unlocked, entries>> PROVE IdsInv'
  BY <1>1
<1>2. ASSUME NEW p \in Procs, NEW pw \in Passwords, create_write(p, pw) PROVE IdsInv'
  BY <1>2, <1>e, <1>t DEF create_write, Store!Begin, TypeOK
<1>3. ASSUME NEW p \in Procs, NEW pw \in Passwords, open_load(p, pw) PROVE IdsInv'
  BY <1>3, <1>t DEF open_load, store, TypeOK
<1>4. ASSUME NEW p \in Procs, EndSession(p), UNCHANGED <<file, durFile>>,
             arg' = arg \/ arg' = [arg EXCEPT ![p] = Nothing]
      PROVE  IdsInv'
  BY <1>4, <1>e, <1>t DEF EndSession, TypeOK
<1>5. ASSUME NEW p \in Procs, NEW es \in Entries, pc[p] = "open", Edit(entries[p], es),
             persist(p, es)
      PROVE  IdsInv'
  <2>1. Distinct(es) /\ unlocked[p] \in Boxes
    BY <1>5, <1>t, EditDistinct DEF TypeOK
  <2>2. CASE CanSave(unlocked[p])
    <3>1. SaveBox(unlocked[p], es).plaintext = es
      BY <2>1, <2>2, SaveBoxType
    <3> QED
      BY <1>5, <1>t, <2>1, <2>2, <3>1 DEF persist, Store!Begin, TypeOK
  <2>3. CASE ~CanSave(unlocked[p])
    BY <1>5, <1>t, <2>1, <2>3 DEF persist, store, TypeOK
  <2> QED
    BY <2>2, <2>3
<1>6. ASSUME NEW p \in Procs, NEW pw \in Passwords, change_master_password(p, pw) PROVE IdsInv'
  <2>1. unlocked[p] \in Boxes /\ unlocked[p] # Nothing
    BY <1>6, <1>t, RepositoryAssumption DEF change_master_password, TypeOK
  <2>2. CASE CanSave(unlocked[p])
    <3>1. RekeyBox(unlocked[p], pw).plaintext = unlocked[p].plaintext
      BY <2>1, <2>2, RekeyBoxType
    <3> QED
      BY <1>6, <1>t, <2>1, <2>2, <3>1 DEF change_master_password, Store!Begin, TypeOK
  <2>3. CASE ~CanSave(unlocked[p])
    BY <1>6, <2>3 DEF change_master_password, store
  <2> QED
    BY <2>2, <2>3
<1>7. ASSUME NEW p \in Procs, write_replaces(p) PROVE IdsInv'
  BY <1>7 DEF write_replaces, Store!Apply
<1>8. ASSUME NEW p \in Procs, write_returns(p) PROVE IdsInv'
  <2>1. arg[p] # Nothing
    BY <1>8, <1>t, RepositoryAssumption DEF write_returns, Goto, TypeOK
  <2> QED
    BY <1>8, <1>t, <2>1 DEF write_returns, Store!Finish, Store!End, TypeOK
<1>9. ASSUME NEW p \in Procs, write_raises(p) PROVE IdsInv'
  BY <1>9, <1>4, <1>t DEF write_raises, Store!Abandon, Store!End, TypeOK
<1>10. CASE directory_synced
  BY <1>10 DEF directory_synced, Store!Persist
<1>11. CASE PowerLoss
  BY <1>11, <1>e DEF PowerLoss, Store!PowerLoss
<1> HIDE DEF IdsInv
<1> QED
  BY <1>1, <1>2, <1>3, <1>4, <1>5, <1>6, <1>7, <1>8, <1>9, <1>10, <1>11, <1>t, Steps
     DEF create_check, create_locked, open_lock, open_fails, entry_not_found, close, Kill,
         Store!Abandon, Store!End, store, vars

\* The ids of every copy are distinct always.
LEMMA IdsInvariant == Spec => []IdsInv
<1>1. Init => IdsInv
  BY EmptyDistinct DEF Init, Store!StoreInit, IdsInv
<1> QED
  BY <1>1, IdsStep, LockInvariant, PTL DEF Spec

\* No two entries of the vault file ever have the same id, with or without a
\* lock: add_entry avoids the ids of the session it was loaded into, and no
\* other step adds one.
THEOREM IdsCorrect == Spec => []IdsUnique
<1>1. IdsInv => IdsUnique
  BY DEF IdsInv, IdsUnique, Distinct
<1> QED
  BY <1>1, IdsInvariant, PTL

-----------------------------------------------------------------------------
\* What a write does to the vault

\* What a call of write_atomic that has not replaced the file yet will do: its
\* data is one change of the file that is there now.
ChangeInv ==
  \A p \in Procs : st[p] = "pending" =>
    /\ pc[p] = "creating" => arg[p] = NewBox(arg[p].password, <<>>)
    /\ pc[p] = "saving" =>
         /\ file # Nothing
         /\ Edit(file.plaintext, arg[p].plaintext)
         /\ arg[p] = SaveBox(file, arg[p].plaintext)
    /\ pc[p] = "rekeying" => file # Nothing /\ arg[p] = RekeyBox(file, arg[p].password)

\* A vault is created by at most one process at a time.
OneCreator == \A p, q \in Creators : p = q

\* Nobody can put a file at the path between the creator's check and its write.
CreateInv ==
  \A p \in Procs :
    /\ pc[p] \in {"checked", "creating"} => p \in Creators
    /\ pc[p] = "checked" \/ (pc[p] = "creating" /\ st[p] = "pending") => file = Nothing

\* The data of a write stays one change of the file: only the lock's holder can
\* replace the file, and a session at rest is current when its change begins.
LEMMA ChangeStep == Careful /\ LockInv /\ SessionInv /\ ChangeInv /\ [Next]_vars => ChangeInv'
<1> SUFFICES ASSUME Careful, LockInv, SessionInv, ChangeInv, [Next]_vars PROVE ChangeInv'
  OBVIOUS
<1>t. TypeOK
  BY DEF LockInv
<1>x. \A p, q \in Procs : pc[p] \in InSession /\ pc[q] \in InSession => p = q
  BY DEF Careful, LockInv, LockIsSession
<1> USE RepositoryAssumption DEF TypeOK, PCs, Writing, InSession, ChangeInv
<1>0. ASSUME UNCHANGED <<file, st, arg>>,
             \A p \in Procs : pc'[p] = pc[p] \/ st[p] = "idle"
      PROVE  ChangeInv'
  BY <1>0, <1>t
<1>1. ASSUME NEW p \in Procs, NEW pw \in Passwords, create_write(p, pw) PROVE ChangeInv'
  <2>1. NewBox(pw, <<>>).password = pw
    BY DEF NewBox
  <2> QED
    BY <1>1, <1>t, <2>1 DEF create_write, Goto, Store!Begin
<1>2. ASSUME NEW p \in Procs, NEW es \in Entries, pc[p] = "open", Edit(entries[p], es),
             persist(p, es)
      PROVE  ChangeInv'
  <2>1. unlocked[p] = file /\ file \in Boxes /\ file # Nothing
    BY <1>2, <1>t DEF SessionInv, SessionIsCurrent
  <2>2. CASE CanSave(unlocked[p])
    <3>1. SaveBox(file, es).plaintext = es
      BY <2>1, <2>2, SaveBoxType
    <3>2. Edit(file.plaintext, es)
      BY <1>2, <2>1, <2>2 DEF SessionInv, SessionIsCurrent
    <3>3. /\ arg'[p] = SaveBox(file, es) /\ file' = file /\ pc'[p] = "saving"
          /\ \A q \in Procs : q # p => arg'[q] = arg[q] /\ st'[q] = st[q] /\ pc'[q] = pc[q]
      BY <1>2, <1>t, <2>1, <2>2 DEF persist, Store!Begin
    <3> QED
      BY <2>1, <3>1, <3>2, <3>3
  <2>3. CASE ~CanSave(unlocked[p])
    BY <1>0, <1>2, <1>t, <2>3 DEF persist, store
  <2> QED
    BY <2>2, <2>3
<1>3. ASSUME NEW p \in Procs, NEW pw \in Passwords, change_master_password(p, pw)
      PROVE  ChangeInv'
  <2>1. unlocked[p] = file /\ file \in Boxes /\ file # Nothing
    BY <1>3, <1>t DEF SessionInv, SessionIsCurrent, change_master_password
  <2>2. CASE CanSave(unlocked[p])
    <3>1. RekeyBox(file, pw).password = pw
      BY <2>1 DEF RekeyBox, Boxes
    <3>3. /\ arg'[p] = RekeyBox(file, pw) /\ file' = file /\ pc'[p] = "rekeying"
          /\ \A q \in Procs : q # p => arg'[q] = arg[q] /\ st'[q] = st[q] /\ pc'[q] = pc[q]
      BY <1>3, <1>t, <2>1, <2>2 DEF change_master_password, Store!Begin
    <3> QED
      BY <2>1, <3>1, <3>3
  <2>3. CASE ~CanSave(unlocked[p])
    BY <1>0, <1>3, <1>t, <2>3 DEF change_master_password, store
  <2> QED
    BY <2>2, <2>3
<1>4. ASSUME NEW p \in Procs, write_replaces(p) PROVE ChangeInv'
  BY <1>4, <1>t, <1>x DEF write_replaces, Store!Apply
<1>5. ASSUME NEW p \in Procs, Store!End(p),
             pc' = pc \/ \E c \in PCs : pc' = [pc EXCEPT ![p] = c]
      PROVE  ChangeInv'
  BY <1>5, <1>t DEF Store!End
<1>6. ASSUME NEW p \in Procs, write_returns(p) PROVE ChangeInv'
  BY <1>5, <1>6, <1>t DEF write_returns, Store!Finish, Goto, AtRest
<1>7. ASSUME NEW p \in Procs, write_raises(p) PROVE ChangeInv'
  BY <1>5, <1>7, <1>t DEF write_raises, Store!Abandon, EndSession, Goto, AtRest
<1>8. ASSUME NEW p \in Procs, Kill(p) PROVE ChangeInv'
  BY <1>0, <1>5, <1>8, <1>t, ZenonT(60) DEF Kill, Store!Abandon, EndSession, store
<1>9. CASE PowerLoss
  BY <1>9, <1>t DEF PowerLoss, Store!PowerLoss
<1>10. ASSUME NEW p \in Procs,
              \/ create_check(p) \/ create_locked(p) \/ open_lock(p) \/ close(p)
              \/ \E pw \in Passwords : open_load(p, pw) \/ open_fails(p, pw)
              \/ \E id \in Ids : entry_not_found(p, id)
       PROVE  ChangeInv'
  BY <1>0, <1>10, <1>t
     DEF create_check, create_locked, open_lock, open_load, open_fails, close, entry_not_found,
         EndSession, Goto, store
<1>11. CASE directory_synced \/ UNCHANGED vars
  BY <1>0, <1>11 DEF directory_synced, Store!Persist, vars, store
<1> HIDE DEF ChangeInv, TypeOK
<1> QED
  BY <1>1, <1>2, <1>3, <1>4, <1>6, <1>7, <1>8, <1>9, <1>10, <1>11, <1>t, Steps

\* At the start nobody writes and nobody creates.
LEMMA ChangeInit == Init => ChangeInv /\ CreateInv
BY DEF Init, Store!StoreInit, ChangeInv, CreateInv

\* The file changes by a replacement or a power failure, what is on the medium
\* by a sync.
LEMMA FileSteps ==
  ASSUME TypeOK, [Next]_vars
  PROVE  \/ \E p \in Procs : write_replaces(p)
         \/ directory_synced \/ PowerLoss
         \/ UNCHANGED <<file, durFile>>
BY Steps
   DEF create_check, create_locked, open_lock, open_load, open_fails, close, entry_not_found,
       create_write, persist, change_master_password, write_returns, write_raises, Kill,
       vars, store, Store!Begin, Store!Finish, Store!Abandon, Store!End

\* A write that replaces the file is write_replaces.
LEMMA ReplacingStep ==
  ASSUME TypeOK, [Next]_vars, NEW p \in Procs, Replaces(p)
  PROVE  write_replaces(p)
<1> USE DEF TypeOK, Replaces
<1>1. ASSUME NEW q \in Procs, write_replaces(q) PROVE q = p
  BY <1>1 DEF write_replaces, Store!Apply
<1>2. ASSUME st' = st \/ (\E q \in Procs, s \in {"idle", "pending"} : st' = [st EXCEPT ![q] = s])
             \/ st' = [q \in Procs |-> "idle"]
      PROVE  FALSE
  BY <1>2
<1> HIDE DEF TypeOK, Replaces
<1> QED
  BY <1>1, <1>2, Steps
     DEF create_check, create_locked, open_lock, open_load, open_fails, close, entry_not_found,
         create_write, persist, change_master_password, write_returns, write_raises, Kill,
         directory_synced, PowerLoss, vars, store, Store!Begin, Store!Finish, Store!Abandon,
         Store!End, Store!Persist, Store!PowerLoss

\* For callers that close after an error: the sessions are current and every
\* write in progress is one change of the file.
LEMMA ChangeInvariant == Careful => (Spec => [](LockInv /\ SessionInv /\ ChangeInv))
<1> SUFFICES ASSUME Careful PROVE Spec => [](LockInv /\ SessionInv /\ ChangeInv)
  OBVIOUS
<1>1. LockInv /\ LockInv' /\ SessionInv /\ [Next]_vars => SessionInv'
  BY SessionStep
<1>2. LockInv /\ SessionInv /\ ChangeInv /\ [Next]_vars => ChangeInv'
  BY ChangeStep
<1> QED
  BY <1>1, <1>2, SessionInit, ChangeInit, LockInvariant, PTL DEF Spec

\* For callers that close after an error, saving entries never changes the
\* master password: no password of a failed change is installed later.
THEOREM SavingCorrect == Careful => (Spec => SavingKeepsPassword)
<1> SUFFICES ASSUME Careful PROVE Spec => SavingKeepsPassword
  OBVIOUS
<1> DEFINE Keeps == \A p \in Procs : pc[p] = "saving" /\ Replaces(p) => file'.password = file.password
<1>1. LockInv /\ ChangeInv /\ [Next]_vars => [Keeps]_vars
  <2> SUFFICES ASSUME LockInv, ChangeInv, [Next]_vars, NEW p \in Procs, pc[p] = "saving", Replaces(p)
               PROVE  file'.password = file.password
    OBVIOUS
  <2>1. TypeOK /\ write_replaces(p)
    BY ReplacingStep DEF LockInv
  <2>2. file' = SaveBox(file, arg[p].plaintext) /\ file # Nothing
    BY <2>1 DEF write_replaces, Store!Apply, ChangeInv
  <2>3. file \in Boxes
    BY <2>1, <2>2 DEF TypeOK
  <2> QED
    BY <2>2, <2>3 DEF SaveBox, Boxes
<1> QED
  BY <1>1, ChangeInvariant, PTL DEF Spec, SavingKeepsPassword

\* With one creator, nobody puts a file at the path between the check and the
\* write of create: every other write needs a file that is there already.
LEMMA CreateStep ==
  OneCreator /\ LockInv /\ ChangeInv /\ CreateInv /\ [Next]_vars => CreateInv'
<1> SUFFICES ASSUME OneCreator, LockInv, ChangeInv, CreateInv, [Next]_vars PROVE CreateInv'
  OBVIOUS
<1>t. TypeOK
  BY DEF LockInv
<1> USE RepositoryAssumption DEF TypeOK, PCs, Writing, OneCreator, CreateInv
<1>0. ASSUME UNCHANGED <<file, st>>,
             \A p \in Procs : pc'[p] = pc[p] \/ pc'[p] \notin {"checked", "creating"}
      PROVE  CreateInv'
  BY <1>0
<1>1. ASSUME NEW p \in Procs, create_check(p) PROVE CreateInv'
  BY <1>1, <1>t DEF create_check, Goto, store
<1>2. ASSUME NEW p \in Procs, NEW pw \in Passwords, create_write(p, pw) PROVE CreateInv'
  BY <1>2, <1>t DEF create_write, Goto, Store!Begin
<1>3. ASSUME NEW p \in Procs, NEW es \in Entries, pc[p] = "open", persist(p, es) PROVE CreateInv'
  BY <1>0, <1>3, <1>t DEF persist, store, AtRest, Store!Begin
<1>4. ASSUME NEW p \in Procs, NEW pw \in Passwords, change_master_password(p, pw)
      PROVE  CreateInv'
  BY <1>0, <1>4, <1>t DEF change_master_password, store, AtRest, Store!Begin
<1>5. ASSUME NEW p \in Procs, write_replaces(p) PROVE CreateInv'
  <2>1. pc[p] \in Writing /\ st[p] = "pending"
    BY <1>5, <1>t DEF write_replaces, Store!Apply
  <2>2. pc[p] # "creating" => file # Nothing
    BY <2>1 DEF ChangeInv
  <2> QED
    BY <1>5, <1>t, <2>1, <2>2 DEF write_replaces, Store!Apply
<1>6. ASSUME NEW p \in Procs, Store!End(p),
             \E c \in PCs \ {"checked", "creating"} : pc' = [pc EXCEPT ![p] = c]
      PROVE  CreateInv'
  BY <1>6, <1>t DEF Store!End
<1>7. ASSUME NEW p \in Procs, write_returns(p) PROVE CreateInv'
  BY <1>6, <1>7, <1>t DEF write_returns, Store!Finish, Goto, AtRest
<1>8. ASSUME NEW p \in Procs, write_raises(p) PROVE CreateInv'
  BY <1>6, <1>8, <1>t DEF write_raises, Store!Abandon, EndSession, Goto, AtRest
<1>9. ASSUME NEW p \in Procs, Kill(p) PROVE CreateInv'
  BY <1>0, <1>6, <1>9, <1>t, ZenonT(60) DEF Kill, Store!Abandon, EndSession, store
<1>10. CASE PowerLoss
  BY <1>10, <1>t DEF PowerLoss, Store!PowerLoss
<1>11. ASSUME NEW p \in Procs,
              \/ create_locked(p) \/ open_lock(p) \/ close(p)
              \/ \E pw \in Passwords : open_load(p, pw) \/ open_fails(p, pw)
              \/ \E id \in Ids : entry_not_found(p, id)
       PROVE  CreateInv'
  BY <1>0, <1>11, <1>t
     DEF create_locked, open_lock, open_load, open_fails, close, entry_not_found,
         EndSession, Goto, AtRest, store
<1>12. CASE directory_synced \/ UNCHANGED vars
  BY <1>0, <1>12 DEF directory_synced, Store!Persist, vars, store
<1> HIDE DEF CreateInv, TypeOK
<1> QED
  BY <1>1, <1>2, <1>3, <1>4, <1>5, <1>7, <1>8, <1>9, <1>10, <1>11, <1>12, <1>t, Steps

\* With one creator, the four invariants together.
LEMMA CreateInvariant ==
  Careful /\ OneCreator => (Spec => [](LockInv /\ SessionInv /\ ChangeInv /\ CreateInv))
<1> SUFFICES ASSUME Careful, OneCreator
             PROVE  Spec => [](LockInv /\ SessionInv /\ ChangeInv /\ CreateInv)
  OBVIOUS
<1>1. LockInv /\ ChangeInv /\ CreateInv /\ [Next]_vars => CreateInv'
  BY CreateStep
<1> QED
  BY <1>1, ChangeInit, ChangeInvariant, PTL DEF Spec

\* With one creator, create never replaces an existing vault.  (With two it may:
\* the run repository_two_creators.)
THEOREM CreateCorrect == Careful /\ OneCreator => (Spec => CreateNeverClobbers)
<1> SUFFICES ASSUME Careful, OneCreator PROVE Spec => CreateNeverClobbers
  OBVIOUS
<1> DEFINE Fresh == \A p \in Procs : pc[p] = "creating" /\ Replaces(p) => file = Nothing
<1>1. CreateInv => Fresh
  BY DEF CreateInv, Replaces
<1> QED
  BY <1>1, CreateInvariant, PTL DEF Spec, CreateNeverClobbers

-----------------------------------------------------------------------------
\* The refinement of VaultSpec

\* The entries of Meaning.
Content(es) ==
  [id \in IdsOf(es) |-> (CHOOSE e \in ToSet(es) : e.id = id).data]

\* With distinct ids, Content finds the data of every entry.
LEMMA ContentAt ==
  ASSUME NEW es, Distinct(es), NEW i \in DOMAIN es
  PROVE  Content(es)[es[i].id] = es[i].data
<1> DEFINE found == CHOOSE e \in ToSet(es) : e.id = es[i].id
<1>1. es[i] \in ToSet(es) /\ es[i].id \in IdsOf(es)
  BY DEF ToSet, IdsOf
<1>2. found \in ToSet(es) /\ found.id = es[i].id
  BY <1>1
<1>3. PICK j \in DOMAIN es : found = es[j]
  BY <1>2 DEF ToSet
<1>4. j = i
  BY <1>2, <1>3 DEF Distinct
<1>5. Content(es)[es[i].id] = found.data
  BY <1>1 DEF Content
<1> HIDE DEF found
<1> QED
  BY <1>3, <1>4, <1>5

\* It maps the ids of the list to records.
LEMMA ContentType ==
  ASSUME NEW es \in Entries, Distinct(es)
  PROVE  IdsOf(es) \subseteq Ids /\ Content(es) \in [IdsOf(es) -> Records]
<1>0. es \in Seq([id : Ids, data : Records]) /\ DOMAIN es = 1 .. Len(es)
  BY DEF Entries
<1>1. \A i \in DOMAIN es : es[i] \in [id : Ids, data : Records]
  BY <1>0, ElementOfSeq
<1>2. \A id \in IdsOf(es) : id \in Ids /\ Content(es)[id] \in Records
  <2> SUFFICES ASSUME NEW id \in IdsOf(es) PROVE id \in Ids /\ Content(es)[id] \in Records
    OBVIOUS
  <2>1. PICK i \in DOMAIN es : id = es[i].id
    BY DEF IdsOf
  <2>2. Content(es)[id] = es[i].data
    BY <2>1, ContentAt
  <2> QED
    BY <1>1, <2>1, <2>2
<1>3. Content(es) = [id \in IdsOf(es) |-> Content(es)[id]]
  BY DEF Content
<1> HIDE DEF Content
<1> QED
  BY <1>2, <1>3

\* It is the only function that does.
LEMMA ContentUnique ==
  ASSUME NEW es, Distinct(es), NEW g,
         g = [id \in IdsOf(es) |-> g[id]],
         \A i \in DOMAIN es : g[es[i].id] = es[i].data
  PROVE  Content(es) = g
<1>1. \A id \in IdsOf(es) : Content(es)[id] = g[id]
  <2> SUFFICES ASSUME NEW id \in IdsOf(es) PROVE Content(es)[id] = g[id]
    OBVIOUS
  <2>1. PICK i \in DOMAIN es : id = es[i].id
    BY DEF IdsOf
  <2> QED
    BY <2>1, ContentAt
<1>2. Content(es) = [id \in IdsOf(es) |-> Content(es)[id]]
  BY DEF Content
<1> HIDE DEF Content
<1> QED
  BY <1>1, <1>2

\* An empty list means a vault without entries.
LEMMA ContentEmpty == Content(<<>>) = <<>>
<1>1. IdsOf(<<>>) = 1 .. 0
  BY DEF IdsOf
<1>2. Content(<<>>) \in Seq({}) /\ Len(Content(<<>>)) = 0
  BY <1>1 DEF Content
<1> QED
  BY <1>2, EmptySeq

\* Every edit of the list is one change of its meaning: an entry added, changed
\* or deleted.
LEMMA ContentEdit ==
  ASSUME NEW old \in Entries, NEW new, Distinct(old), Edit(old, new)
  PROVE  \/ \E id \in Ids \ IdsOf(old), r \in Records :
              Content(new) = [x \in IdsOf(old) \cup {id} |-> IF x = id THEN r ELSE Content(old)[x]]
         \/ \E id \in IdsOf(old), r \in Records : Content(new) = [Content(old) EXCEPT ![id] = r]
         \/ \E id \in IdsOf(old) : Content(new) = [x \in IdsOf(old) \ {id} |-> Content(old)[x]]
<1>0. old \in Seq([id : Ids, data : Records]) /\ DOMAIN old = 1 .. Len(old) /\ Len(old) \in Nat
  BY DEF Entries
<1>e. \A k \in DOMAIN old : old[k] \in [id : Ids, data : Records]
  BY <1>0, ElementOfSeq
<1>f. Content(old) = [x \in IdsOf(old) |-> Content(old)[x]] /\ DOMAIN Content(old) = IdsOf(old)
  BY DEF Content
<1>d. Distinct(new)
  BY EditDistinct
<1>c. \A k \in DOMAIN old : Content(old)[old[k].id] = old[k].data
  BY ContentAt
<1>1. ASSUME NEW e \in [id : Ids, data : Records], e.id \notin IdsOf(old), new = Append(old, e)
      PROVE  Content(new) = [x \in IdsOf(old) \cup {e.id} |->
                               IF x = e.id THEN e.data ELSE Content(old)[x]]
  <2> DEFINE g == [x \in IdsOf(old) \cup {e.id} |-> IF x = e.id THEN e.data ELSE Content(old)[x]]
  <2>1. /\ DOMAIN new = 1 .. Len(old) + 1 /\ new[Len(old) + 1] = e
        /\ \A i \in 1 .. Len(old) : new[i] = old[i]
    BY <1>0, <1>1
  <2>2. IdsOf(new) = IdsOf(old) \cup {e.id}
    <3>1. \A x : x \in IdsOf(new) <=> \E i \in 1 .. Len(old) + 1 : x = new[i].id
      BY <2>1 DEF IdsOf
    <3>2. \A x : x \in IdsOf(old) <=> \E i \in 1 .. Len(old) : x = old[i].id
      BY <1>0 DEF IdsOf
    <3> QED
      BY <1>0, <2>1, <3>1, <3>2
  <2>3. ASSUME NEW i \in DOMAIN new PROVE g[new[i].id] = new[i].data
    <3>1. CASE i = Len(old) + 1
      BY <2>1, <3>1
    <3>2. CASE i # Len(old) + 1
      <4>1. i \in DOMAIN old /\ new[i] = old[i]
        BY <1>0, <2>1, <3>2
      <4>2. old[i].id \in IdsOf(old)
        BY <4>1 DEF IdsOf
      <4> QED
        BY <1>1, <1>c, <4>1, <4>2
    <3> QED
      BY <3>1, <3>2
  <2>4. g = [x \in IdsOf(new) |-> g[x]]
    BY <2>2
  <2> HIDE DEF g
  <2>5. Content(new) = g
    BY <1>d, <2>3, <2>4, ContentUnique
  <2> QED
    BY <2>5 DEF g
<1>2. ASSUME NEW i \in DOMAIN old, NEW r \in Records, new = [old EXCEPT ![i].data = r]
      PROVE  Content(new) = [Content(old) EXCEPT ![old[i].id] = r]
  <2> DEFINE g == [Content(old) EXCEPT ![old[i].id] = r]
  <2>1. /\ DOMAIN new = DOMAIN old
        /\ \A k \in DOMAIN old :
             new[k].id = old[k].id /\ new[k].data = IF k = i THEN r ELSE old[k].data
    BY <1>0, <1>2, <1>e
  <2>2. IdsOf(new) = IdsOf(old) /\ \A k \in DOMAIN old : old[k].id \in IdsOf(old)
    BY <2>1 DEF IdsOf
  <2>3. /\ DOMAIN g = IdsOf(old) /\ g = [x \in IdsOf(old) |-> g[x]]
        /\ \A x \in IdsOf(old) : g[x] = IF x = old[i].id THEN r ELSE Content(old)[x]
    BY <1>f
  <2> HIDE DEF g
  <2>4. ASSUME NEW k \in DOMAIN new PROVE g[new[k].id] = new[k].data
    <3>1. CASE k = i
      BY <2>1, <2>2, <2>3, <3>1
    <3>2. CASE k # i
      <4>1. old[k].id # old[i].id
        BY <2>1, <3>2 DEF Distinct
      <4> QED
        BY <1>c, <2>1, <2>2, <2>3, <3>2, <4>1
    <3> QED
      BY <3>1, <3>2
  <2>5. Content(new) = g
    BY <1>d, <2>2, <2>3, <2>4, ContentUnique
  <2> QED
    BY <2>5 DEF g
<1>3. ASSUME NEW i \in DOMAIN old, new = RemoveAt(old, i)
      PROVE  Content(new) = [x \in IdsOf(old) \ {old[i].id} |-> Content(old)[x]]
  <2> DEFINE g == [x \in IdsOf(old) \ {old[i].id} |-> Content(old)[x]]
             place(j) == IF j < i THEN j ELSE j + 1
  <2>1. /\ DOMAIN new = 1 .. Len(old) - 1
        /\ \A j \in 1 .. Len(old) - 1 : new[j] = IF j < i THEN old[j] ELSE old[j + 1]
    <3>1. i \in 1 .. Len(old)
      BY <1>0
    <3>2. /\ Len(RemoveAt(old, i)) = Len(old) - 1
          /\ RemoveAt(old, i) \in Seq([id : Ids, data : Records])
          /\ \A j \in 1 .. Len(old) - 1 :
               RemoveAt(old, i)[j] = IF j < i THEN old[j] ELSE old[j + 1]
      BY <1>0, <3>1, RemoveAtProperties
    <3> QED
      BY <1>3, <3>2
  <2>2. \A j \in DOMAIN new : place(j) \in DOMAIN old \ {i} /\ new[j] = old[place(j)]
    BY <1>0, <2>1
  <2>3. \A k \in DOMAIN old \ {i} : \E j \in DOMAIN new : k = place(j)
    <3> SUFFICES ASSUME NEW k \in DOMAIN old \ {i} PROVE \E j \in DOMAIN new : k = place(j)
      OBVIOUS
    <3>1. CASE k < i
      BY <1>0, <2>1, <3>1
    <3>2. CASE k > i
      <4>1. k - 1 \in DOMAIN new /\ place(k - 1) = k
        BY <1>0, <2>1, <3>2
      <4> QED
        BY <4>1
    <3> QED
      BY <1>0, <3>1, <3>2
  <2> HIDE DEF place
  <2>4. \A j \in DOMAIN new : new[j].id \in IdsOf(old) \ {old[i].id}
    BY <2>2 DEF IdsOf, Distinct
  <2>5. IdsOf(new) = IdsOf(old) \ {old[i].id}
    <3>1. \A x \in IdsOf(old) \ {old[i].id} : \E j \in DOMAIN new : x = new[j].id
      BY <2>2, <2>3 DEF IdsOf
    <3> QED
      BY <2>4, <3>1 DEF IdsOf
  <2>6. \A j \in DOMAIN new : g[new[j].id] = new[j].data
    BY <1>c, <2>2, <2>4
  <2>7. g = [x \in IdsOf(new) |-> g[x]]
    BY <2>5
  <2> HIDE DEF g
  <2>8. Content(new) = g
    BY <1>d, <2>6, <2>7, ContentUnique
  <2> QED
    BY <2>8 DEF g
<1>4. \A k \in DOMAIN old : old[k].id \in IdsOf(old)
  BY DEF IdsOf
<1> HIDE DEF Content
<1>5. CASE \E e \in [id : Ids, data : Records] : e.id \notin IdsOf(old) /\ new = Append(old, e)
  BY <1>1, <1>5
<1>6. CASE \E i \in DOMAIN old, r \in Records : new = [old EXCEPT ![i].data = r]
  <2>1. PICK i \in DOMAIN old, r \in Records : new = [old EXCEPT ![i].data = r]
    BY <1>6
  <2>2. Content(new) = [Content(old) EXCEPT ![old[i].id] = r]
    BY <1>2, <2>1
  <2> QED
    BY <1>4, <2>1, <2>2
<1>7. CASE \E i \in DOMAIN old : new = RemoveAt(old, i)
  BY <1>3, <1>4, <1>7
<1> QED
  BY <1>5, <1>6, <1>7 DEF Edit

\* What the file means, by way of Content.
LEMMA MeaningOf ==
  ASSUME NEW f, f # Nothing
  PROVE  Meaning(f) = [password |-> f.password, entries |-> Content(f.plaintext)]
BY DEF Meaning, Content

\* A write that replaces the file is one command of VaultSpec, or a create that
\* did not see the file.
LEMMA ReplaceImplements ==
  ASSUME LockInv, ChangeInv, IdsInv, NEW p \in Procs, write_replaces(p)
  PROVE  /\ pc[p] # "creating" \/ file = Nothing => Abstract!VaultNext
         /\ Abstract!VaultNext \/ Abstract!Recreate
<1>1. /\ st[p] = "pending" /\ pc[p] \in Writing
      /\ arg[p] \in Boxes /\ arg[p] # Nothing /\ file' = arg[p] /\ durFile' = durFile
  BY RepositoryAssumption DEF LockInv, TypeOK, write_replaces, Store!Apply, Writing
<1>2. Meaning(file') = [password |-> arg[p].password, entries |-> Content(arg[p].plaintext)]
  BY <1>1, MeaningOf
<1>3. UNCHANGED Meaning(durFile)
  BY <1>1
<1>4. CASE pc[p] = "creating"
  <2>1. file = Nothing => Meaning(file) = Nothing
    BY DEF Meaning
  <2>2. arg[p].plaintext = <<>> /\ arg[p].password \in Passwords
    <3>1. arg[p] = NewBox(arg[p].password, <<>>)
      BY <1>1, <1>4 DEF ChangeInv
    <3>2. arg[p].plaintext = <<>>
      BY <3>1, EmptyDistinct
    <3> QED
      BY <1>1, <3>2 DEF Boxes
  <2>3. /\ Meaning(file') = [password |-> arg[p].password, entries |-> <<>>]
        /\ arg[p].password \in Passwords
    BY <1>2, <2>2, ContentEmpty
  <2>4. Abstract!Recreate
    BY <1>3, <2>3 DEF Abstract!Recreate
  <2>5. file = Nothing => Abstract!Create
    BY <2>1, <2>3 DEF Abstract!Create
  <2> QED
    BY <1>3, <1>4, <2>4, <2>5 DEF Abstract!VaultNext
<1>5. ASSUME pc[p] # "creating"
      PROVE  /\ file \in Boxes /\ file # Nothing /\ Meaning(file) # Nothing
             /\ Meaning(file) = [password |-> file.password, entries |-> Content(file.plaintext)]
             /\ DOMAIN Meaning(file).entries = IdsOf(file.plaintext)
  <2>1. file \in Boxes /\ file # Nothing
    BY <1>1, <1>5 DEF ChangeInv, LockInv, TypeOK, Writing
  <2>2. Meaning(file) = [password |-> file.password, entries |-> Content(file.plaintext)]
    BY <2>1, MeaningOf
  <2>3. DOMAIN Content(file.plaintext) = IdsOf(file.plaintext)
    BY DEF Content
  <2>4. Meaning(file) # Nothing
    <3>1. Distinct(file.plaintext) /\ file.plaintext \in Entries /\ file.password \in Passwords
      BY <2>1 DEF IdsInv, Boxes
    <3>2. /\ IdsOf(file.plaintext) \subseteq Ids
          /\ Content(file.plaintext) \in [IdsOf(file.plaintext) -> Records]
      BY <3>1, ContentType
    <3> QED
      BY <2>2, <3>1, <3>2, RepositoryAssumption
  <2> QED
    BY <2>1, <2>2, <2>3, <2>4
<1>6. CASE pc[p] = "saving"
  <2> DEFINE old == file.plaintext
             new == arg[p].plaintext
  <2>1. /\ Edit(old, new) /\ Distinct(old) /\ old \in Entries
        /\ arg[p].password = file.password
    BY <1>1, <1>5, <1>6 DEF ChangeInv, IdsInv, SaveBox, Boxes
  <2>2. Meaning(file') = [Meaning(file) EXCEPT !.entries = Content(new)]
    BY <1>2, <1>5, <1>6, <2>1
  <2>3. Meaning(file).entries = Content(old)
    BY <1>5, <1>6
  <2>4. DOMAIN Meaning(file).entries = IdsOf(old)
    BY <1>5, <1>6
  <2> HIDE DEF old, new
  <2>5. Abstract!Add \/ Abstract!Update \/ Abstract!Delete
    <3>1. CASE \E id \in Ids \ IdsOf(old), r \in Records :
                 Content(new) = [x \in IdsOf(old) \cup {id} |->
                                   IF x = id THEN r ELSE Content(old)[x]]
      BY <2>2, <2>3, <2>4, <3>1 DEF Abstract!Add, Abstract!SetEntries
    <3>2. CASE \E id \in IdsOf(old), r \in Records :
                 Content(new) = [Content(old) EXCEPT ![id] = r]
      BY <2>2, <2>3, <2>4, <3>2 DEF Abstract!Update, Abstract!SetEntries
    <3>3. CASE \E id \in IdsOf(old) :
                 Content(new) = [x \in IdsOf(old) \ {id} |-> Content(old)[x]]
      BY <2>2, <2>3, <2>4, <3>3 DEF Abstract!Delete, Abstract!SetEntries
    <3> QED
      BY <2>1, <3>1, <3>2, <3>3, ContentEdit
  <2> QED
    BY <1>3, <1>5, <1>6, <2>5 DEF Abstract!VaultNext, Abstract!Change
<1>7. CASE pc[p] = "rekeying"
  <2>1. arg[p].plaintext = file.plaintext /\ arg[p].password \in Passwords
    BY <1>1, <1>5, <1>7 DEF ChangeInv, RekeyBox, Boxes
  <2>2. Meaning(file') = [Meaning(file) EXCEPT !.password = arg[p].password]
    BY <1>2, <1>5, <1>7, <2>1
  <2>3. Abstract!ChangePassword
    BY <2>1, <2>2 DEF Abstract!ChangePassword
  <2> QED
    BY <1>3, <1>5, <1>7, <2>3 DEF Abstract!VaultNext, Abstract!Change
<1> QED
  BY <1>1, <1>4, <1>6, <1>7 DEF Writing

\* Every other step leaves the vault alone, makes it durable, or is the power
\* failure.
LEMMA OtherSteps ==
  ASSUME TypeOK, [Next]_vars
  PROVE  \/ \E p \in Procs : write_replaces(p)
         \/ Abstract!VaultNext
         \/ UNCHANGED <<Meaning(file), Meaning(durFile)>>
<1>1. ASSUME UNCHANGED <<file, durFile>>
      PROVE  UNCHANGED <<Meaning(file), Meaning(durFile)>>
  BY <1>1
<1>2. ASSUME directory_synced PROVE Abstract!VaultNext
  BY <1>2 DEF directory_synced, Store!Persist, Abstract!VaultNext, Abstract!Persist
<1>3. ASSUME PowerLoss PROVE Abstract!VaultNext
  BY <1>3 DEF PowerLoss, Store!PowerLoss, Abstract!VaultNext, Abstract!PowerLoss
<1> QED
  BY <1>1, <1>2, <1>3, FileSteps

\* With one creator every replacement is a command too.
LEMMA VaultStep ==
  LockInv /\ ChangeInv /\ CreateInv /\ IdsInv /\ [Next]_vars
    => [Abstract!VaultNext]_<<Meaning(file), Meaning(durFile)>>
<1> SUFFICES ASSUME LockInv, ChangeInv, CreateInv, IdsInv, [Next]_vars
             PROVE  [Abstract!VaultNext]_<<Meaning(file), Meaning(durFile)>>
  OBVIOUS
<1>1. ASSUME NEW p \in Procs, write_replaces(p) PROVE Abstract!VaultNext
  <2>1. pc[p] # "creating" \/ file = Nothing
    BY <1>1 DEF CreateInv, write_replaces, Store!Apply
  <2> QED
    BY <1>1, <2>1, ReplaceImplements
<1>2. TypeOK
  BY DEF LockInv
<1> QED
  BY <1>1, <1>2, OtherSteps

\* The processes together implement VaultSpec, for callers that close after an
\* error and one creator: no update is lost, repeated or merged with another,
\* and only a power failure undoes one.
THEOREM VaultRefinement == Careful /\ OneCreator => (Spec => ImplementsVaultSpec)
<1> SUFFICES ASSUME Careful, OneCreator PROVE Spec => ImplementsVaultSpec
  OBVIOUS
<1>1. Init => Abstract!VaultInit
  BY DEF Init, Store!StoreInit, Abstract!VaultInit, Meaning
<1> QED
  BY <1>1, VaultStep, CreateInvariant, IdsInvariant, PTL
     DEF Spec, ImplementsVaultSpec, Abstract!VaultSpecification

\* For any number of creators, and callers that close after an error: a create
\* may replace a vault it did not see, and nothing else goes wrong.
THEOREM OnlyCreateCorrect == Careful => (Spec => OnlyCreateReplaces)
<1> SUFFICES ASSUME Careful PROVE Spec => OnlyCreateReplaces
  OBVIOUS
<1>1. Init => Abstract!VaultInit
  BY DEF Init, Store!StoreInit, Abstract!VaultInit, Meaning
<1>2. LockInv /\ ChangeInv /\ IdsInv /\ [Next]_vars
        => [Abstract!VaultNext \/ Abstract!Recreate]_<<Meaning(file), Meaning(durFile)>>
  <2> SUFFICES ASSUME LockInv, ChangeInv, IdsInv, [Next]_vars
               PROVE  [Abstract!VaultNext \/ Abstract!Recreate]_<<Meaning(file), Meaning(durFile)>>
    OBVIOUS
  <2>1. TypeOK
    BY DEF LockInv
  <2> QED
    BY <2>1, OtherSteps, ReplaceImplements
<1> QED
  BY <1>1, <1>2, ChangeInvariant, IdsInvariant, PTL
     DEF Spec, OnlyCreateReplaces, Abstract!RacyVaultSpecification

-----------------------------------------------------------------------------
\* Callers of every kind: any number of creators, of failed writes, of errors
\* that the caller survives

\* A session's list is the plaintext it would seal: what it has sealed last, or
\* what it could not seal any more.  All of it is the process's own memory, so
\* this does not need the lock.
ShownInv ==
  \A p \in Procs :
    /\ pc[p] \in {"saving", "rekeying"} =>
         arg[p] = unlocked[p] /\ entries[p] = unlocked[p].plaintext
    /\ pc[p] \in {"open", "closing"} =>
         entries[p] = unlocked[p].plaintext \/ ~CanSave(unlocked[p])

\* A step of p leaves the other processes' memory alone.
LEMMA ShownElsewhere ==
  ASSUME TypeOK, ShownInv, NEW p \in Procs,
         \A q \in Procs \ {p} : /\ pc'[q] = pc[q] /\ arg'[q] = arg[q]
                                /\ unlocked'[q] = unlocked[q] /\ entries'[q] = entries[q],
         pc'[p] \in {"saving", "rekeying"} =>
           arg'[p] = unlocked'[p] /\ entries'[p] = unlocked'[p].plaintext,
         pc'[p] \in {"open", "closing"} =>
           entries'[p] = unlocked'[p].plaintext \/ ~CanSave(unlocked'[p])
  PROVE  ShownInv'
BY DEF ShownInv

\* Every step keeps the list and the plaintext together.
LEMMA ShownStep == TypeOK /\ ShownInv /\ [Next]_vars => ShownInv'
<1> SUFFICES ASSUME TypeOK, ShownInv, [Next]_vars PROVE ShownInv'
  OBVIOUS
<1> USE DEF PCs, Writing
<1>t. /\ pc \in [Procs -> PCs] /\ arg \in [Procs -> Boxes \cup {Nothing}]
      /\ unlocked \in [Procs -> Boxes \cup {Nothing}] /\ entries \in [Procs -> Entries]
      /\ \A p \in Procs : pc[p] = "open" => unlocked[p] \in Boxes
  BY DEF TypeOK
<1>i. \A p \in Procs :
        /\ pc[p] \in {"saving", "rekeying"} =>
             arg[p] = unlocked[p] /\ entries[p] = unlocked[p].plaintext
        /\ pc[p] \in {"open", "closing"} =>
             entries[p] = unlocked[p].plaintext \/ ~CanSave(unlocked[p])
  BY DEF ShownInv
<1>0. ASSUME NEW p \in Procs, UNCHANGED <<arg, unlocked, entries>>,
             \E c \in {"idle", "checked", "loading"} : pc' = [pc EXCEPT ![p] = c]
      PROVE  ShownInv'
  BY <1>0, <1>t, ShownElsewhere
<1>1. ASSUME NEW p \in Procs, create_check(p) \/ create_locked(p) \/ open_lock(p) PROVE ShownInv'
  BY <1>0, <1>1 DEF create_check, create_locked, open_lock, Goto, store
<1>2. ASSUME NEW p \in Procs, NEW pw \in Passwords, create_write(p, pw) PROVE ShownInv'
  BY <1>2, <1>t, ShownElsewhere DEF create_write, Goto, Store!Begin
<1>3. ASSUME NEW p \in Procs, NEW pw \in Passwords, open_load(p, pw) PROVE ShownInv'
  BY <1>3, <1>t, ShownElsewhere DEF open_load, Goto, store
<1>4. ASSUME NEW p \in Procs, EndSession(p), arg' = arg \/ arg' = [arg EXCEPT ![p] = Nothing]
      PROVE  ShownInv'
  BY <1>4, <1>t, ShownElsewhere DEF EndSession
<1>5. ASSUME NEW p \in Procs, \/ \E pw \in Passwords : open_fails(p, pw)
                              \/ close(p) \/ Kill(p)
      PROVE  ShownInv'
  BY <1>4, <1>5 DEF open_fails, close, Kill, store, Store!Abandon, Store!End
<1>6. ASSUME NEW p \in Procs, NEW es \in Entries, pc[p] = "open", persist(p, es) PROVE ShownInv'
  <2>1. CASE CanSave(unlocked[p])
    <3>1. SaveBox(unlocked[p], es).plaintext = es
      BY <1>6, <1>t, <2>1, SaveBoxType
    <3> QED
      BY <1>6, <1>t, <2>1, <3>1, ShownElsewhere DEF persist, Store!Begin
  <2>2. CASE ~CanSave(unlocked[p])
    BY <1>6, <1>t, <2>2, ShownElsewhere DEF persist, AtRest, store
  <2> QED
    BY <2>1, <2>2
<1>7. ASSUME NEW p \in Procs, NEW id \in Ids, entry_not_found(p, id) PROVE ShownInv'
  BY <1>7, <1>i, <1>t, ShownElsewhere DEF entry_not_found, AtRest, Goto, store
<1>8. ASSUME NEW p \in Procs, NEW pw \in Passwords, change_master_password(p, pw)
      PROVE  ShownInv'
  <2>0. pc[p] = "open"
    BY <1>8 DEF change_master_password
  <2>1. CASE CanSave(unlocked[p])
    <3>1. /\ RekeyBox(unlocked[p], pw).plaintext = unlocked[p].plaintext
          /\ entries[p] = unlocked[p].plaintext
      BY <1>i, <1>t, <2>0, <2>1, RekeyBoxType
    <3> QED
      BY <1>8, <1>t, <2>0, <2>1, <3>1, ShownElsewhere DEF change_master_password, Store!Begin
  <2>2. CASE ~CanSave(unlocked[p])
    BY <1>8, <1>t, <2>0, <2>2, ShownElsewhere DEF change_master_password, AtRest, store
  <2> QED
    BY <2>1, <2>2
<1>9. ASSUME NEW p \in Procs, write_returns(p) PROVE ShownInv'
  <2>1. CASE pc[p] = "creating"
    BY <1>9, <1>t, <2>1, ShownElsewhere DEF write_returns, Goto, AtRest, Store!Finish, Store!End
  <2>2. CASE pc[p] # "creating"
    BY <1>9, <1>i, <1>t, <2>2, ShownElsewhere
       DEF write_returns, Goto, AtRest, Store!Finish, Store!End
  <2> QED
    BY <2>1, <2>2
<1>10. ASSUME NEW p \in Procs, write_raises(p) PROVE ShownInv'
  <2>1. CASE pc[p] = "creating"
    BY <1>10, <1>4, <2>1 DEF write_raises, Store!Abandon, Store!End
  <2>2. CASE pc[p] # "creating"
    BY <1>10, <1>i, <1>t, <2>2, ShownElsewhere
       DEF write_raises, Goto, AtRest, Store!Abandon, Store!End
  <2> QED
    BY <2>1, <2>2
<1>11. ASSUME UNCHANGED <<pc, arg, unlocked, entries>> PROVE ShownInv'
  BY <1>11 DEF ShownInv
<1>12. ASSUME NEW p \in Procs, write_replaces(p) PROVE ShownInv'
  BY <1>11, <1>12 DEF write_replaces, Store!Apply
<1>13. CASE directory_synced \/ UNCHANGED vars
  BY <1>11, <1>13 DEF directory_synced, Store!Persist, vars, store
<1>14. CASE PowerLoss
  BY <1>14 DEF PowerLoss, ShownInv
<1> QED
  BY <1>1, <1>2, <1>3, <1>5, <1>6, <1>7, <1>8, <1>9, <1>10, <1>12, <1>13, <1>14, Steps

\* Whoever the callers are and whatever failed before.
LEMMA ShownInvariant == Spec => []ShownInv
<1>1. Init => ShownInv
  BY DEF Init, ShownInv
<1> QED
  BY <1>1, ShownStep, TypeCorrect, PTL DEF Spec

\* A mutation or a password change puts exactly the list that the repository
\* shows into the file, for every caller and even without flock.
THEOREM ShownCorrect == Spec => WritesWhatIsShown
<1> DEFINE Shows == \A p \in Procs :
              pc[p] \in {"saving", "rekeying"} /\ Replaces(p) => file'.plaintext = entries[p]
<1>1. TypeOK /\ ShownInv /\ [Next]_vars => [Shows]_vars
  <2> SUFFICES ASSUME TypeOK, ShownInv, [Next]_vars, NEW p \in Procs,
                      pc[p] \in {"saving", "rekeying"}, Replaces(p)
               PROVE  file'.plaintext = entries[p]
    OBVIOUS
  <2>1. write_replaces(p)
    BY ReplacingStep
  <2> QED
    BY <2>1 DEF write_replaces, Store!Apply, ShownInv
<1> QED
  BY <1>1, ShownInvariant, TypeCorrect, PTL DEF Spec, WritesWhatIsShown

\* A session is the file, or ahead of it by its own changes; a write that has
\* not replaced the file yet is ahead of it too.
AheadInv ==
  \A p \in Procs :
    /\ st[p] = "applied" => arg[p] = file
    /\ st[p] = "pending" /\ pc[p] # "creating" => file # Nothing /\ arg[p].counter > file.counter
    /\ pc[p] \in {"open", "closing"} =>
         /\ file # Nothing
         /\ unlocked[p].counter >= file.counter
         /\ unlocked[p].counter = file.counter => unlocked[p] = file

\* With flock nobody but the session's process replaces the file, and every
\* change of the session counts up.
LEMMA AheadStep == HasFlock /\ LockInv /\ ShownInv /\ AheadInv /\ [Next]_vars => AheadInv'
<1> SUFFICES ASSUME HasFlock, LockInv, ShownInv, AheadInv, [Next]_vars PROVE AheadInv'
  OBVIOUS
<1> USE RepositoryAssumption DEF PCs, Writing, InSession
<1>t. TypeOK
  BY DEF LockInv
<1>x. \A p, q \in Procs : pc[p] \in InSession /\ pc[q] \in InSession => p = q
  BY DEF LockInv, LockIsSession
<1>s. \A p \in Procs : st[p] # "idle" <=> pc[p] \in Writing
  BY <1>t DEF TypeOK
<1>0. ASSUME UNCHANGED <<file, st, arg, unlocked>>,
             \A p \in Procs : \/ pc'[p] = pc[p]
                              \/ pc'[p] \notin {"open", "closing"} /\ st[p] = "idle"
                              \/ pc[p] = "open" /\ pc'[p] \in {"open", "closing"}
      PROVE  AheadInv'
  BY <1>0, <1>s DEF AheadInv
<1>1. ASSUME NEW p \in Procs, create_check(p) \/ create_locked(p) \/ open_lock(p) PROVE AheadInv'
  BY <1>0, <1>1, <1>s, <1>t DEF create_check, create_locked, open_lock, Goto, store, TypeOK
<1>2. ASSUME NEW p \in Procs, NEW pw \in Passwords, create_write(p, pw) PROVE AheadInv'
  BY <1>2, <1>t DEF create_write, Goto, Store!Begin, TypeOK, AheadInv
<1>3. ASSUME NEW p \in Procs, NEW pw \in Passwords, open_load(p, pw) PROVE AheadInv'
  <2>1. file \in Boxes /\ file.counter \in Nat
    BY <1>3, <1>t, MaxCounterAssumption DEF open_load, TypeOK, Boxes
  <2> QED
    BY <1>3, <1>t, <2>1 DEF open_load, Goto, store, TypeOK, AheadInv
<1>4. ASSUME NEW p \in Procs, EndSession(p), UNCHANGED file,
             (st[p] = "idle" /\ UNCHANGED <<st, arg>>) \/ Store!End(p)
      PROVE  AheadInv'
  <2>1. CASE Store!End(p)
    BY <1>4, <1>t, <2>1 DEF EndSession, Store!End, TypeOK, AheadInv
  <2>2. CASE st[p] = "idle" /\ UNCHANGED <<st, arg>>
    BY <1>4, <1>t, <2>2 DEF EndSession, TypeOK, AheadInv
  <2> QED
    BY <1>4, <2>1, <2>2
<1>5. ASSUME NEW p \in Procs, close(p) \/ \E pw \in Passwords : open_fails(p, pw) PROVE AheadInv'
  BY <1>4, <1>5, <1>s DEF open_fails, close, store
<1>6. ASSUME NEW p \in Procs, Kill(p) PROVE AheadInv'
  BY <1>4, <1>6 DEF Kill, store, Store!Abandon, Store!End
<1>7. ASSUME NEW p \in Procs, NEW new \in Boxes, pc[p] = "open", CanSave(unlocked[p]),
             new.counter = unlocked[p].counter + 1, Store!Begin(p, new),
             \E c \in {"saving", "rekeying"} : pc' = [pc EXCEPT ![p] = c],
             unlocked' = [unlocked EXCEPT ![p] = new]
      PROVE  AheadInv'
  <2>1. /\ file # Nothing /\ unlocked[p].counter >= file.counter
        /\ unlocked[p].counter \in Nat /\ file.counter \in Nat
    BY <1>7, <1>t, MaxCounterAssumption DEF AheadInv, TypeOK, Boxes
  <2>2. new.counter > file.counter
    BY <1>7, <2>1
  <2> QED
    BY <1>7, <1>t, <2>1, <2>2 DEF Store!Begin, TypeOK, AheadInv
<1>8. ASSUME NEW p \in Procs, NEW es \in Entries, pc[p] = "open", persist(p, es) PROVE AheadInv'
  <2>0. unlocked[p] \in Boxes
    BY <1>8, <1>t DEF TypeOK
  <2>1. CASE CanSave(unlocked[p])
    BY <1>7, <1>8, <2>0, <2>1, SaveBoxType DEF persist
  <2>2. CASE ~CanSave(unlocked[p])
    BY <1>0, <1>8, <1>t, <2>2 DEF persist, store, AtRest, TypeOK
  <2> QED
    BY <2>1, <2>2
<1>9. ASSUME NEW p \in Procs, NEW id \in Ids, entry_not_found(p, id) PROVE AheadInv'
  BY <1>0, <1>9, <1>t DEF entry_not_found, Goto, store, AtRest, TypeOK
<1>10. ASSUME NEW p \in Procs, NEW pw \in Passwords, change_master_password(p, pw)
       PROVE  AheadInv'
  <2>0. unlocked[p] \in Boxes /\ pc[p] = "open"
    BY <1>10, <1>t DEF TypeOK, change_master_password
  <2>1. CASE CanSave(unlocked[p])
    BY <1>7, <1>10, <2>0, <2>1, RekeyBoxType DEF change_master_password
  <2>2. CASE ~CanSave(unlocked[p])
    BY <1>0, <1>10, <1>t, <2>0, <2>2 DEF change_master_password, store, AtRest, TypeOK
  <2> QED
    BY <2>1, <2>2
<1>11. ASSUME NEW p \in Procs, write_replaces(p) PROVE AheadInv'
  <2>1. pc[p] \in Writing
    BY <1>11, <1>s DEF write_replaces, Store!Apply
  <2>2. \A q \in Procs \ {p} : pc[q] \notin InSession
    BY <1>x, <2>1
  <2> QED
    BY <1>11, <1>s, <1>t, <2>1, <2>2 DEF write_replaces, Store!Apply, TypeOK, AheadInv
<1>12. ASSUME NEW p \in Procs, write_returns(p) PROVE AheadInv'
  <2>1. arg[p] = file /\ file \in Boxes /\ file.counter \in Nat
    BY <1>12, <1>t, MaxCounterAssumption
       DEF write_returns, Store!Finish, AheadInv, TypeOK, Boxes
  <2>2. unlocked'[p] = file
    BY <1>12, <1>t, <2>1 DEF write_returns, Goto, ShownInv, TypeOK
  <2> QED
    BY <1>12, <1>t, <2>1, <2>2
       DEF write_returns, Goto, AtRest, Store!Finish, Store!End, TypeOK, AheadInv
<1>13. ASSUME NEW p \in Procs, write_raises(p) PROVE AheadInv'
  <2>1. CASE pc[p] = "creating"
    BY <1>13, <1>4, <2>1 DEF write_raises, Store!Abandon, Store!End
  <2>2. CASE pc[p] # "creating"
    <3>1. pc[p] \in {"saving", "rekeying"} /\ arg[p] = unlocked[p] /\ st[p] \in {"pending", "applied"}
      BY <1>13, <1>s, <1>t, <2>2 DEF write_raises, ShownInv, TypeOK
    <3>2. /\ file # Nothing /\ unlocked[p].counter \in Nat /\ file.counter \in Nat
          /\ unlocked[p] = file \/ unlocked[p].counter > file.counter
      BY <1>t, <2>2, <3>1, MaxCounterAssumption DEF AheadInv, TypeOK, Boxes
    <3>3. /\ unlocked' = unlocked /\ file' = file
          /\ unlocked[p].counter >= file.counter
          /\ unlocked[p].counter = file.counter => unlocked[p] = file
      BY <1>13, <2>2, <3>2 DEF write_raises, Store!Abandon, Store!End
    <3> QED
      BY <1>13, <1>t, <2>2, <3>2, <3>3
         DEF write_raises, Goto, AtRest, Store!Abandon, Store!End, TypeOK, AheadInv
  <2> QED
    BY <2>1, <2>2
<1>14. CASE directory_synced \/ UNCHANGED vars
  BY <1>0, <1>14 DEF directory_synced, Store!Persist, vars, store
<1>15. CASE PowerLoss
  BY <1>15 DEF PowerLoss, Store!PowerLoss, AheadInv
<1> QED
  BY <1>1, <1>2, <1>3, <1>5, <1>6, <1>8, <1>9, <1>10, <1>11, <1>12, <1>13, <1>14, <1>15, <1>t, Steps

\* With flock, for every caller.
LEMMA AheadInvariant == HasFlock => (Spec => [](LockInv /\ ShownInv /\ AheadInv))
<1> SUFFICES ASSUME HasFlock PROVE Spec => [](LockInv /\ ShownInv /\ AheadInv)
  OBVIOUS
<1>1. Init => AheadInv
  BY DEF Init, Store!StoreInit, AheadInv
<1>2. LockInv /\ ShownInv /\ AheadInv /\ [Next]_vars => AheadInv'
  BY AheadStep
<1> QED
  BY <1>1, <1>2, LockInvariant, ShownInvariant, PTL DEF Spec

\* With flock, a repository at rest is never behind the vault file nor beside
\* it, however many of its writes have failed and whoever creates.
THEOREM NeverBehindCorrect == HasFlock => (Spec => []NeverBehind)
<1> SUFFICES ASSUME HasFlock PROVE Spec => []NeverBehind
  OBVIOUS
<1>1. ShownInv /\ AheadInv => NeverBehind
  BY DEF ShownInv, AheadInv, NeverBehind
<1> QED
  BY <1>1, AheadInvariant, PTL

\* With flock, the counter of the vault file only goes up, but for a power
\* failure and a create.
THEOREM CounterCorrect == HasFlock => (Spec => CounterMonotonic)
<1> SUFFICES ASSUME HasFlock PROVE Spec => CounterMonotonic
  OBVIOUS
<1> DEFINE Grows == file # Nothing /\ file' # file =>
                      \/ file' = durFile /\ pc' = [p \in Procs |-> "idle"]
                      \/ \E p \in Procs : pc[p] = "creating" /\ Replaces(p)
                      \/ file'.counter > file.counter
<1>1. LockInv /\ AheadInv /\ [Next]_vars => [Grows]_vars
  <2> SUFFICES ASSUME LockInv, AheadInv, [Next]_vars, file # Nothing, file' # file
               PROVE  \/ file' = durFile /\ pc' = [p \in Procs |-> "idle"]
                      \/ \E p \in Procs : pc[p] = "creating" /\ Replaces(p)
                      \/ file'.counter > file.counter
    OBVIOUS
  <2>t. TypeOK
    BY DEF LockInv
  <2>1. CASE PowerLoss
    BY <2>1 DEF PowerLoss, Store!PowerLoss
  <2>2. ASSUME NEW p \in Procs, write_replaces(p)
        PROVE  \/ pc[p] = "creating" /\ Replaces(p)
               \/ file'.counter > file.counter
    BY <2>2, <2>t DEF write_replaces, Store!Apply, Replaces, AheadInv, TypeOK
  <2>3. CASE directory_synced
    BY <2>3 DEF directory_synced, Store!Persist
  <2> QED
    BY <2>1, <2>2, <2>3, <2>t, FileSteps
<1> QED
  BY <1>1, AheadInvariant, PTL DEF Spec, CounterMonotonic

-----------------------------------------------------------------------------
\* The repository and the store

\* What the processes do with the vault file is what AtomicStore allows its
\* callers: every change of it is a step of a call of write_atomic, and a
\* process never begins one while another of its own is running.  Module
\* Storage implements AtomicStore, so the results here hold of write_atomic.
THEOREM UsesStore ==
  Spec => Store!StoreInit(Nothing) /\ [][Store!StoreNext(Boxes)]_(Store!svars)
<1>1. Init => Store!StoreInit(Nothing)
  BY DEF Init
<1>2. TypeOK /\ [Next]_vars => [Store!StoreNext(Boxes)]_(Store!svars)
  <2> SUFFICES ASSUME TypeOK, [Next]_vars PROVE [Store!StoreNext(Boxes)]_(Store!svars)
    OBVIOUS
  <2>0. ASSUME UNCHANGED store PROVE UNCHANGED Store!svars
    BY <2>0 DEF store, Store!svars
  <2>1. ASSUME NEW p \in Procs, NEW pw \in Passwords, create_write(p, pw)
        PROVE  Store!StoreNext(Boxes)
    BY <2>1, NewBoxType DEF create_write, Store!StoreNext
  <2>2. ASSUME NEW p \in Procs, NEW es \in Entries, pc[p] = "open", persist(p, es)
        PROVE  Store!StoreNext(Boxes) \/ UNCHANGED store
    <3>1. unlocked[p] \in Boxes
      BY <2>2 DEF TypeOK
    <3> QED
      BY <2>2, <3>1, SaveBoxType DEF persist, Store!StoreNext
  <2>3. ASSUME NEW p \in Procs, NEW pw \in Passwords, change_master_password(p, pw)
        PROVE  Store!StoreNext(Boxes) \/ UNCHANGED store
    <3>1. unlocked[p] \in Boxes
      BY <2>3 DEF TypeOK, change_master_password
    <3> QED
      BY <2>3, <3>1, RekeyBoxType DEF change_master_password, Store!StoreNext
  <2>4. ASSUME NEW p \in Procs,
               write_replaces(p) \/ write_returns(p) \/ write_raises(p) \/ Kill(p)
        PROVE  Store!StoreNext(Boxes) \/ UNCHANGED store
    BY <2>4 DEF write_replaces, write_returns, write_raises, Kill, Store!StoreNext
  <2>5. CASE directory_synced \/ PowerLoss
    BY <2>5 DEF directory_synced, PowerLoss, Store!StoreNext
  <2>6. ASSUME NEW p \in Procs,
               \/ create_check(p) \/ create_locked(p) \/ open_lock(p) \/ close(p)
               \/ \E pw \in Passwords : open_load(p, pw) \/ open_fails(p, pw)
               \/ \E id \in Ids : entry_not_found(p, id)
        PROVE  UNCHANGED store
    BY <2>6 DEF create_check, create_locked, open_lock, close, open_load, open_fails,
                entry_not_found
  <2>7. CASE UNCHANGED vars
    BY <2>0, <2>7 DEF vars
  <2> QED
    BY <2>0, <2>1, <2>2, <2>3, <2>4, <2>5, <2>6, <2>7, Steps
<1> QED
  BY <1>1, <1>2, TypeCorrect, PTL DEF Spec
===============================================================================
